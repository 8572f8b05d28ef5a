---------------------------- MODULE IntakeProofs ----------------------------
(* Theorems about the intake of contacts (Ingestion), which hold as well    *)
(* with the dashboard looking on, for any files, numbers of uploads, of     *)
(* deliveries and of concurrent invocations. IntakeInv is the inductive     *)
(* invariant: an open invocation has inserted the smaller phones and none   *)
(* that is committed or in another open one's hands, and what it has still  *)
(* to insert completes the file its event is about.                         *)
EXTENDS Dashboard, ContactsCsvProofs

USE CsvAssumption, IngestionAssumption

\* An open invocation is for an upload.
EventInv ==
    /\ \A n \in 1..Len(events) : /\ campaignStatus[events[n].campaign] # "none"
                                  /\ object[events[n].campaign] \in Files
    /\ \A l \in Lambdas : handler[l].pc # "free" =>
          /\ handler[l].event \in 1..Len(events)
          /\ handler[l].campaign = events[handler[l].event].campaign

\* Rows are inserted in the order of their phones, one per phone.
SortedInv ==
    \A l \in Lambdas :
        /\ handler[l].pc = "free" => handler[l].todo = {} /\ handler[l].mine = {}
        /\ \A r \in handler[l].mine, t \in handler[l].todo : r.phone < t.phone
        /\ \A r, t \in handler[l].todo : r.phone = t.phone => r = t
        /\ \A r, t \in handler[l].mine : r.phone = t.phone => r = t

\* What is inserted and open is nobody else's.
DisjointInv ==
    \A l \in Lambdas : \A r \in handler[l].mine :
        /\ \A t \in contacts[handler[l].campaign] : r.phone # t.phone
        /\ \A k \in Lambdas \ {l} : handler[k].campaign = handler[l].campaign =>
              \A t \in handler[k].mine : r.phone # t.phone

\* Before the commit each contact inserted has its task.
TasksInv ==
    \A l \in Lambdas : handler[l].pc = "commit" =>
        /\ handler[l].todo = {}
        /\ PhonesOf(handler[l].mine) \subseteq callTasks[handler[l].campaign] \cup handler[l].tasks
        /\ handler[l].tasks \subseteq callTasks[handler[l].campaign] \cup PhonesOf(handler[l].mine)

CountersInv == \A c \in Campaigns : campaignStatus[c] # "none" => c \in counterRows

\* Nothing of the file is passed over.
FreshInv ==
    \A l \in Lambdas : handler[l].pc # "free" /\ IsLastUpload(handler[l].event) =>
        PhonesOf(IterValidContacts(object[handler[l].campaign]))
            \subseteq PhonesOf(handler[l].todo) \cup PhonesOf(handler[l].mine)
                      \cup PhonesOf(contacts[handler[l].campaign])

IntakeInv ==
    /\ IntakeTypeOK
    /\ EventInv
    /\ SortedInv
    /\ DisjointInv
    /\ TasksInv
    /\ CountersInv
    /\ FreshInv
    /\ OneContactPerPhone
    /\ ContactsAreCallable
    /\ UploadsAreIngested
-----------------------------------------------------------------------------
(* Lemmas about the data. *)

\* The parser only lets contacts with a phone and a known timezone through.
LEMMA ValidContactsAreRows ==
  ASSUME NEW file \in Files
  PROVE  IterValidContacts(file) \subseteq ContactRows
<1>1. file.lines \in Seq(RawLines)
  OBVIOUS
<1>. SUFFICES ASSUME NEW i \in DOMAIN file.lines, ~file.lines[i].blank,
                     IsContact(file.lines[i])
              PROVE  Contact(file.lines[i]) \in ContactRows
  BY DEF IterValidContacts, ToSet
<1>2. file.lines[i] \in RawLines
  BY <1>1
<1>. QED
  BY <1>2, LineTypes

\* What is in the hands of an invocation is typed.
LEMMA HandlerTypes ==
  ASSUME IntakeTypeOK, NEW l \in Lambdas
  PROVE  /\ handler[l].pc \in {"free", "insert", "commit"}
         /\ handler[l].campaign \in Campaigns \cup {NoCampaign}
         /\ handler[l].event \in Nat
         /\ handler[l].todo \subseteq ContactRows
         /\ handler[l].mine \subseteq ContactRows
         /\ handler[l].tasks \subseteq Phones
         /\ \A r \in handler[l].todo \cup handler[l].mine : r.phone \in Phones /\ r.phone \in Nat
<1>1. handler[l] \in Invocations
  BY DEF IntakeTypeOK
<1>2. /\ handler[l].todo \subseteq ContactRows
      /\ handler[l].mine \subseteq ContactRows
  BY <1>1 DEF Invocations
<1>3. \A r \in handler[l].todo \cup handler[l].mine : r.phone \in Phones /\ r.phone \in Nat
  BY <1>2 DEF ContactRows
<1>. QED
  BY <1>1, <1>2, <1>3 DEF Invocations

LEMMA EventTypes ==
  ASSUME IntakeTypeOK, NEW n \in 1..Len(events)
  PROVE  events[n] \in UploadEvents /\ events[n].campaign \in Campaigns
<1>1. events[n] \in UploadEvents
  BY DEF IntakeTypeOK
<1>. QED
  BY <1>1 DEF UploadEvents

\* An open invocation has a campaign that exists.
LEMMA OpenHandler ==
  ASSUME IntakeTypeOK, EventInv, NEW l \in Lambdas, handler[l].pc # "free"
  PROVE  /\ handler[l].campaign \in Campaigns
         /\ handler[l].event \in 1..Len(events)
         /\ handler[l].campaign = events[handler[l].event].campaign
         /\ campaignStatus[handler[l].campaign] # "none"
<1>1. handler[l].event \in 1..Len(events)
  BY DEF EventInv
<1>2. events[handler[l].event] \in UploadEvents
  BY <1>1 DEF IntakeTypeOK
<1>. QED
  BY <1>1, <1>2 DEF EventInv, UploadEvents

\* With what each open invocation has inserted in the order of the phones, a
\* circle would have a least phone that somebody waits for, and its waiter a
\* smaller one.
LEMMA NoCircle ==
  ASSUME IntakeTypeOK, SortedInv
  PROVE  HandlersNeverDeadlock
<1>. SUFFICES ASSUME NEW S \in SUBSET Lambdas, Circle(S)
              PROVE  FALSE
  BY DEF HandlersNeverDeadlock
<1>. DEFINE T == {p \in Phones : \E l \in S : \E r \in NextRows(l) : r.phone = p}
<1>1. \A l \in S : \A r \in NextRows(l) : r.phone \in T
  BY HandlerTypes DEF NextRows
<1>2. T # {}
  <2>1. PICK l \in S : \E k \in S : k \in WaitsFor(l)
    BY DEF Circle
  <2>2. \E r \in NextRows(l) : TRUE
    BY <2>1 DEF WaitsFor
  <2>. HIDE DEF T
  <2>. QED
    BY <1>1, <2>2
<1>. HIDE DEF T
<1>3. T \subseteq Phones
  BY DEF T
<1>4. PICK p \in T : \A q \in T : p <= q
  BY <1>2, <1>3, LeastNumber
<1>5. PICK l \in S : \E r \in NextRows(l) : r.phone = p
  BY DEF T
<1>9. PICK r \in NextRows(l) : r.phone = p
  BY <1>5
<1>6. PICK k \in S : l \in WaitsFor(k)
  BY DEF Circle
<1>7. PICK t \in NextRows(k) : t.phone \in PhonesOf(handler[l].mine)
  BY <1>6 DEF WaitsFor, HoldersOf
<1>8. t.phone < r.phone
  BY <1>7 DEF SortedInv, PhonesOf, NextRows
<1>10. p <= t.phone /\ t.phone < p /\ p \in Nat /\ t.phone \in Nat
  BY <1>1, <1>3, <1>4, <1>7, <1>8, <1>9
<1>. QED
  BY <1>10
-----------------------------------------------------------------------------
(* The invariant is kept, action by action. *)

LEMMA InitKeeps == IntakeInit => IntakeInv
<1>. SUFFICES ASSUME IntakeInit
              PROVE  IntakeInv
  OBVIOUS
<1>1. \A l \in Lambdas : handler[l] = NoHandler
  BY DEF IntakeInit
<1>2. NoHandler \in Invocations
  BY DEF NoHandler, Invocations
<1>3. IntakeTypeOK
  BY <1>2 DEF IntakeTypeOK, IntakeInit
<1>4. EventInv /\ SortedInv /\ DisjointInv /\ TasksInv /\ CountersInv /\ FreshInv
  <2>1. \A l \in Lambdas : /\ handler[l].pc = "free"
                           /\ handler[l].todo = {} /\ handler[l].mine = {}
    BY <1>1 DEF NoHandler
  <2>2. SortedInv /\ DisjointInv /\ TasksInv /\ FreshInv
    BY <2>1 DEF SortedInv, DisjointInv, TasksInv, FreshInv
  <2>3. EventInv /\ CountersInv
    BY <2>1 DEF EventInv, CountersInv, IntakeInit
  <2>. QED
    BY <2>2, <2>3
<1>5. OneContactPerPhone /\ ContactsAreCallable /\ UploadsAreIngested
  BY DEF OneContactPerPhone, ContactsAreCallable, UploadsAreIngested, IntakeInit, PhonesOf
<1>. QED
  BY <1>3, <1>4, <1>5 DEF IntakeInv

LEMMA CreateCampaignKeeps ==
  ASSUME IntakeInv, NEW c \in Campaigns, CreateCampaign(c)
  PROVE  IntakeInv'
<1>1. IntakeTypeOK'
  BY DEF IntakeInv, IntakeTypeOK, CreateCampaign
<1>2. \A d \in Campaigns : campaignStatus'[d] = campaignStatus[d]
                           \/ (campaignStatus[d] = "none" /\ d = c /\ campaignStatus'[d] = "created")
  BY DEF IntakeInv, IntakeTypeOK, CreateCampaign
<1>3. EventInv'
  <2>1. \A n \in 1..Len(events) : events[n].campaign \in Campaigns
    BY EventTypes DEF IntakeInv
  <2>. QED
    BY <1>2, <2>1 DEF IntakeInv, EventInv, CreateCampaign
<1>4. SortedInv' /\ DisjointInv' /\ TasksInv' /\ FreshInv' /\ OneContactPerPhone'
      /\ UploadsAreIngested'
  <2>0. UNCHANGED <<object, events, contacts, callTasks, handler>>
    BY DEF CreateCampaign
  <2>1. SortedInv' /\ DisjointInv'
    BY <2>0 DEF IntakeInv, SortedInv, DisjointInv
  <2>2. TasksInv' /\ OneContactPerPhone'
    BY <2>0 DEF IntakeInv, TasksInv, OneContactPerPhone
  <2>3. FreshInv'
    BY <2>0 DEF IntakeInv, FreshInv, IsLastUpload
  <2>4. UploadsAreIngested'
    BY <2>0 DEF IntakeInv, UploadsAreIngested, IsLastUpload
  <2>. QED
    BY <2>1, <2>2, <2>3, <2>4
<1>5. CountersInv'
  BY <1>2 DEF IntakeInv, CountersInv, CreateCampaign
<1>6. ContactsAreCallable'
  BY <1>2 DEF IntakeInv, ContactsAreCallable, CreateCampaign
<1>. QED
  BY <1>1, <1>3, <1>4, <1>5, <1>6 DEF IntakeInv

LEMMA UploadKeeps ==
  ASSUME IntakeInv, NEW c \in Campaigns, NEW file \in Files, Upload(c, file)
  PROVE  IntakeInv'
<1>. DEFINE e == [campaign |-> c, file |-> file, left |-> MaxTries, done |-> FALSE]
<1>1. e \in UploadEvents /\ events \in Seq(UploadEvents)
  BY DEF IntakeInv, IntakeTypeOK, UploadEvents
<1>2. /\ Len(events') = Len(events) + 1
      /\ Len(events) \in Nat
      /\ events'[Len(events) + 1] = e
      /\ \A n \in 1..Len(events) : events'[n] = events[n]
  BY <1>1 DEF Upload
<1>3. IntakeTypeOK'
  BY <1>1 DEF IntakeInv, IntakeTypeOK, Upload
<1>4. EventInv'
  <2>1. \A n \in 1..Len(events) : events[n].campaign \in Campaigns
    BY EventTypes DEF IntakeInv
  <2>2. /\ campaignStatus[c] # "none" /\ campaignStatus' = campaignStatus
        /\ object'[c] \in Files
        /\ \A d \in Campaigns \ {c} : object'[d] = object[d]
    BY DEF IntakeInv, IntakeTypeOK, Upload
  <2>3. \A n \in 1..Len(events') : /\ campaignStatus'[events'[n].campaign] # "none"
                                   /\ object'[events'[n].campaign] \in Files
    <3>. TAKE n \in 1..Len(events')
    <3>1. CASE n = Len(events) + 1
      BY <1>2, <2>2, <3>1
    <3>2. CASE n # Len(events) + 1
      <4>1. n \in 1..Len(events) /\ events'[n] = events[n]
        BY <1>2, <3>2
      <4>. QED
        BY <2>1, <2>2, <4>1 DEF IntakeInv, EventInv
    <3>. QED
      BY <3>1, <3>2
  <2>4. \A l \in Lambdas : handler[l].pc # "free" =>
           /\ handler[l].event \in 1..Len(events')
           /\ handler[l].campaign = events'[handler[l].event].campaign
    BY <1>2 DEF IntakeInv, EventInv
  <2>. QED
    BY <2>3, <2>4 DEF EventInv, Upload
<1>5. SortedInv' /\ DisjointInv' /\ TasksInv' /\ CountersInv' /\ OneContactPerPhone'
      /\ ContactsAreCallable'
  <2>0. UNCHANGED <<campaignStatus, counterRows, contacts, callTasks, handler>>
    BY DEF Upload
  <2>1. SortedInv' /\ DisjointInv'
    BY <2>0 DEF IntakeInv, SortedInv, DisjointInv
  <2>2. TasksInv' /\ CountersInv'
    BY <2>0 DEF IntakeInv, TasksInv, CountersInv
  <2>3. OneContactPerPhone' /\ ContactsAreCallable'
    BY <2>0 DEF IntakeInv, OneContactPerPhone, ContactsAreCallable
  <2>. QED
    BY <2>1, <2>2, <2>3
<1>6. \A n \in 1..Len(events) : IsLastUpload(n)' => IsLastUpload(n) /\ events[n].campaign # c
  BY <1>2 DEF IsLastUpload
<1>7. FreshInv'
  <2>. SUFFICES ASSUME NEW l \in Lambdas, handler[l].pc # "free", IsLastUpload(handler[l].event)'
                PROVE  /\ IsLastUpload(handler[l].event)
                       /\ object'[handler[l].campaign] = object[handler[l].campaign]
    BY DEF IntakeInv, FreshInv, Upload
  <2>1. handler[l].event \in 1..Len(events)
        /\ handler[l].campaign = events[handler[l].event].campaign /\ handler[l].campaign \in Campaigns
    BY OpenHandler DEF IntakeInv
  <2>. QED
    BY <1>6, <2>1 DEF IntakeInv, IntakeTypeOK, Upload
<1>8. UploadsAreIngested'
  <2>. SUFFICES ASSUME NEW n \in 1..Len(events'), events'[n].done, IsLastUpload(n)'
                PROVE  PhonesOf(IterValidContacts(object'[events'[n].campaign]))
                         \subseteq PhonesOf(contacts'[events'[n].campaign])
    BY DEF UploadsAreIngested
  <2>1. n \in 1..Len(events)
    BY <1>2
  <2>2. events'[n] = events[n] /\ IsLastUpload(n) /\ events[n].campaign # c
    BY <1>2, <1>6, <2>1
  <2>3. events[n].campaign \in Campaigns
    BY <2>1, EventTypes DEF IntakeInv
  <2>4. object'[events[n].campaign] = object[events[n].campaign] /\ contacts' = contacts
    BY <2>2, <2>3 DEF Upload, IntakeInv, IntakeTypeOK
  <2>. QED
    BY <2>1, <2>2, <2>4 DEF IntakeInv, UploadsAreIngested
<1>. QED
  BY <1>3, <1>4, <1>5, <1>7, <1>8 DEF IntakeInv

LEMMA AbortKeeps ==
  ASSUME IntakeInv, NEW l \in Lambdas, Abort(l)
  PROVE  IntakeInv'
<1>1. handler'[l] = NoHandler /\ \A k \in Lambdas \ {l} : handler'[k] = handler[k]
  BY DEF IntakeInv, IntakeTypeOK, Abort
<1>2. IntakeTypeOK'
  <2>1. NoHandler \in Invocations
    BY DEF NoHandler, Invocations
  <2>. QED
    BY <2>1 DEF IntakeInv, IntakeTypeOK, Abort
<1>3. EventInv' /\ TasksInv' /\ CountersInv'
  BY <1>1 DEF IntakeInv, EventInv, TasksInv, CountersInv, NoHandler, Abort
<1>4. SortedInv'
  BY <1>1 DEF IntakeInv, SortedInv, NoHandler, Abort
<1>5. DisjointInv'
  BY <1>1 DEF IntakeInv, DisjointInv, NoHandler, Abort
<1>6. FreshInv'
  <2>1. handler'[l].pc = "free"
    BY <1>1 DEF NoHandler
  <2>2. \A m : IsLastUpload(m)' = IsLastUpload(m)
    BY DEF IsLastUpload, Abort
  <2>. QED
    BY <1>1, <2>1, <2>2 DEF IntakeInv, FreshInv, Abort
<1>7. OneContactPerPhone' /\ ContactsAreCallable' /\ UploadsAreIngested'
  <2>0. UNCHANGED <<campaignStatus, counterRows, object, events, contacts, callTasks>>
    BY DEF Abort
  <2>1. OneContactPerPhone' /\ ContactsAreCallable'
    BY <2>0 DEF IntakeInv, OneContactPerPhone, ContactsAreCallable
  <2>2. UploadsAreIngested'
    BY <2>0 DEF IntakeInv, UploadsAreIngested, IsLastUpload
  <2>. QED
    BY <2>1, <2>2
<1>. QED
  BY <1>2, <1>3, <1>4, <1>5, <1>6, <1>7 DEF IntakeInv

LEMMA InvokeKeeps ==
  ASSUME IntakeInv, NEW l \in Lambdas, NEW n \in 1..Len(events), Invoke(l, n)
  PROVE  IntakeInv'
<1>. DEFINE c == events[n].campaign
<1>0. events[n] \in UploadEvents /\ c \in Campaigns /\ campaignStatus[c] # "none"
      /\ object[c] \in Files
  BY EventTypes DEF IntakeInv, EventInv
<1>1. /\ events' \in Seq(UploadEvents)
      /\ Len(events') = Len(events)
      /\ \A m \in 1..Len(events) : /\ events'[m].campaign = events[m].campaign
                                   /\ events'[m].done = events[m].done
  <2>. DEFINE e == [events[n] EXCEPT !.left = events[n].left - 1]
  <2>1. e \in UploadEvents /\ e.campaign = events[n].campaign /\ e.done = events[n].done
    <3>1. events[n].left - 1 \in 0..MaxTries
      <4>1. events[n].left \in 0..MaxTries
        BY <1>0 DEF UploadEvents
      <4>2. events[n].left > 0
        BY DEF Invoke
      <4>. QED
        BY <4>1, <4>2
    <3>2. e = [campaign |-> events[n].campaign, file |-> events[n].file,
               left |-> events[n].left - 1, done |-> events[n].done]
      BY <1>0 DEF UploadEvents
    <3>. QED
      BY <1>0, <3>1, <3>2 DEF UploadEvents
  <2>2. events' = [events EXCEPT ![n] = e]
    BY DEF Invoke
  <2>. HIDE DEF e
  <2>3. events \in Seq(UploadEvents)
    BY DEF IntakeInv, IntakeTypeOK
  <2>. QED
    BY <2>1, <2>2, <2>3
<1>2. \A m \in 1..Len(events) : IsLastUpload(m)' = IsLastUpload(m)
  BY <1>1 DEF IsLastUpload, IntakeInv, IntakeTypeOK
<1>3. OneContactPerPhone' /\ ContactsAreCallable' /\ CountersInv'
  BY DEF IntakeInv, OneContactPerPhone, ContactsAreCallable, CountersInv, Invoke
<1>4. UploadsAreIngested'
  BY <1>1, <1>2 DEF IntakeInv, UploadsAreIngested, Invoke
<1>5. CASE UNCHANGED handler
  <2>1. IntakeTypeOK' /\ EventInv'
    BY <1>1, <1>5 DEF IntakeInv, IntakeTypeOK, EventInv, Invoke
  <2>3. SortedInv' /\ TasksInv'
    BY <1>5 DEF IntakeInv, SortedInv, TasksInv, Invoke
  <2>4. DisjointInv'
    BY <1>5 DEF IntakeInv, DisjointInv, Invoke
  <2>2. FreshInv'
    BY <1>1, <1>2, <1>5, OpenHandler DEF IntakeInv, FreshInv, Invoke
  <2>. QED
    BY <1>3, <1>4, <2>1, <2>2, <2>3, <2>4 DEF IntakeInv
<1>6. CASE handler' # handler
  <2>1. PICK rows \in DistinctOn(IterValidContacts(object[c])) :
          handler' = [handler EXCEPT ![l] = [NoHandler EXCEPT !.pc = "insert", !.campaign = c,
                                                             !.event = n, !.todo = rows]]
    BY <1>6 DEF Invoke
  <2>2. object[c] \in Files
    BY <1>0
  <2>3. rows \subseteq ContactRows
    BY <2>1, <2>2, ValidContactsAreRows DEF DistinctOn
  <2>4. /\ handler'[l] = [pc |-> "insert", campaign |-> c, event |-> n,
                          todo |-> rows, mine |-> {}, tasks |-> {}]
        /\ \A k \in Lambdas \ {l} : handler'[k] = handler[k]
    BY <2>1 DEF NoHandler, IntakeInv, IntakeTypeOK
  <2>5. IntakeTypeOK'
    <3>1. handler'[l] \in Invocations
      BY <1>0, <2>3, <2>4 DEF Invocations
    <3>. QED
      BY <1>1, <2>1, <2>4, <3>1 DEF IntakeInv, IntakeTypeOK, Invoke
  <2>11. /\ handler'[l].pc = "insert" /\ handler'[l].campaign = c /\ handler'[l].event = n
         /\ handler'[l].todo = rows /\ handler'[l].mine = {}
    BY <2>4
  <2>12. \A k \in Lambdas \ {l} : handler'[k] = handler[k]
    BY <2>4
  <2>6. EventInv'
    <3>1. \A m \in 1..Len(events') : /\ campaignStatus'[events'[m].campaign] # "none"
                                     /\ object'[events'[m].campaign] \in Files
      BY <1>1 DEF IntakeInv, EventInv, Invoke
    <3>2. \A k \in Lambdas : handler'[k].pc # "free" =>
             /\ handler'[k].event \in 1..Len(events')
             /\ handler'[k].campaign = events'[handler'[k].event].campaign
      BY <1>1, <2>11, <2>12 DEF IntakeInv, EventInv
    <3>. QED
      BY <3>1, <3>2 DEF EventInv
  <2>13. PhonesOf(rows) = PhonesOf(IterValidContacts(object[c]))
         /\ \A r, t \in rows : r.phone = t.phone => r = t
    BY <2>1 DEF DistinctOn
  <2>7. SortedInv'
    BY <2>11, <2>12, <2>13 DEF IntakeInv, SortedInv
  <2>8. DisjointInv'
    <3>. SUFFICES ASSUME NEW k \in Lambdas, NEW r \in handler'[k].mine
                  PROVE  /\ \A t \in contacts[handler'[k].campaign] : r.phone # t.phone
                         /\ \A j \in Lambdas \ {k} :
                               handler'[j].campaign = handler'[k].campaign =>
                                 \A t \in handler'[j].mine : r.phone # t.phone
      BY DEF DisjointInv, Invoke
    <3>1. k # l /\ handler'[k] = handler[k]
      BY <2>11, <2>12
    <3>2. \A j \in Lambdas \ {k} : handler'[j].campaign = handler'[k].campaign =>
             \A t \in handler'[j].mine : r.phone # t.phone
      BY <2>11, <2>12, <3>1 DEF IntakeInv, DisjointInv
    <3>. QED
      BY <3>1, <3>2 DEF IntakeInv, DisjointInv
  <2>9. TasksInv'
    BY <2>11, <2>12 DEF IntakeInv, TasksInv, Invoke
  <2>10. FreshInv'
    <3>. SUFFICES ASSUME NEW k \in Lambdas, handler'[k].pc # "free",
                         IsLastUpload(handler[k].event)'
                  PROVE  PhonesOf(IterValidContacts(object[handler'[k].campaign]))
                           \subseteq PhonesOf(handler'[k].todo) \cup PhonesOf(handler'[k].mine)
                                     \cup PhonesOf(contacts[handler'[k].campaign])
      BY DEF FreshInv, Invoke
    <3>1. CASE k = l
      BY <2>11, <2>13, <3>1
    <3>2. CASE k # l
      <4>1. handler'[k] = handler[k]
        BY <2>12, <3>2
      <4>2. handler[k].event \in 1..Len(events)
        BY <4>1, OpenHandler DEF IntakeInv
      <4>. QED
        BY <1>2, <4>1, <4>2 DEF IntakeInv, FreshInv
    <3>. QED
      BY <3>1, <3>2
  <2>. QED
    BY <1>3, <1>4, <2>5, <2>6, <2>7, <2>8, <2>9, <2>10 DEF IntakeInv
<1>. QED
  BY <1>5, <1>6

\* Whoever moves on leaves its event and campaign as they are.
LEMMA GoingOnKeepsEvents ==
  ASSUME IntakeInv, NEW l \in Lambdas, handler[l].pc # "free",
         UNCHANGED <<campaignStatus, object, events>>,
         handler'[l].campaign = handler[l].campaign, handler'[l].event = handler[l].event,
         \A k \in Lambdas \ {l} : handler'[k] = handler[k]
  PROVE  EventInv' /\ \A n : IsLastUpload(n)' = IsLastUpload(n)
  BY DEF IntakeInv, EventInv, IsLastUpload

LEMMA InsertKeeps ==
  ASSUME IntakeInv, NEW l \in Lambdas, NEW r \in ContactRows, Insert(l, r)
  PROVE  IntakeInv'
<1>. DEFINE c == handler[l].campaign
            conflict == r.phone \in PhonesOf(contacts[c])
            mine == handler[l].mine \cup (IF conflict THEN {} ELSE {r})
<1>1. handler[l] \in Invocations /\ handler[l].pc = "insert" /\ c \in Campaigns
  BY OpenHandler DEF IntakeInv, IntakeTypeOK, Insert
<1>2. r \in handler[l].todo /\ \A t \in handler[l].todo : r.phone <= t.phone
  BY DEF Insert, NextRows
<1>3. handler' = [handler EXCEPT ![l] = [handler[l] EXCEPT !.todo = handler[l].todo \ {r},
                                                           !.mine = mine]]
  BY DEF Insert
<1>4. \A k \in Lambdas \ {l} : handler'[k] = handler[k]
  BY <1>3 DEF IntakeInv, IntakeTypeOK
<1>5. handler'[l] = [pc |-> "insert", campaign |-> c, event |-> handler[l].event,
                     todo |-> handler[l].todo \ {r}, mine |-> mine, tasks |-> handler[l].tasks]
  BY <1>1, <1>3 DEF IntakeInv, IntakeTypeOK, Invocations
<1>6. /\ handler'[l].pc = "insert" /\ handler'[l].campaign = c
      /\ handler'[l].event = handler[l].event /\ handler'[l].todo = handler[l].todo \ {r}
      /\ handler'[l].mine = mine
  BY <1>5
<1>7. mine \subseteq handler[l].mine \cup {r} /\ (~conflict => r \in mine)
      /\ (conflict => mine = handler[l].mine)
  OBVIOUS
<1>. HIDE DEF mine
<1>8. IntakeTypeOK'
  <2>1. handler'[l] \in Invocations
    BY <1>1, <1>5, <1>7 DEF Invocations
  <2>. QED
    BY <1>3, <1>4, <2>1 DEF IntakeInv, IntakeTypeOK, Insert
<1>9. EventInv' /\ \A n : IsLastUpload(n)' = IsLastUpload(n)
  BY <1>1, <1>4, <1>6, GoingOnKeepsEvents DEF Insert
<1>10. \A t \in handler[l].todo : t # r => r.phone < t.phone
  <2>. TAKE t \in handler[l].todo
  <2>1. r.phone \in Nat /\ t.phone \in Nat /\ r.phone <= t.phone
    BY <1>2, HandlerTypes DEF IntakeInv
  <2>2. r.phone = t.phone => r = t
    BY <1>2 DEF IntakeInv, SortedInv
  <2>. QED
    BY <2>1, <2>2
<1>11. \A t \in handler[l].mine : t.phone < r.phone /\ t.phone # r.phone
  <2>. TAKE t \in handler[l].mine
  <2>1. r.phone \in Nat /\ t.phone \in Nat
    BY <1>2, HandlerTypes DEF IntakeInv
  <2>2. t.phone < r.phone
    BY <1>2 DEF IntakeInv, SortedInv
  <2>. QED
    BY <2>1, <2>2
<1>12. SortedInv'
  <2>1. \A t \in mine, u \in handler[l].todo \ {r} : t.phone < u.phone
    BY <1>7, <1>10 DEF IntakeInv, SortedInv
  <2>2. \A t, u \in mine : t.phone = u.phone => t = u
    BY <1>7, <1>11 DEF IntakeInv, SortedInv
  <2>3. \A t, u \in handler[l].todo \ {r} : t.phone = u.phone => t = u
    BY DEF IntakeInv, SortedInv
  <2>. QED
    BY <1>4, <1>6, <2>1, <2>2, <2>3 DEF IntakeInv, SortedInv
<1>13. DisjointInv'
  <2>1. \A t \in mine : \A u \in contacts[c] : t.phone # u.phone
    BY <1>7 DEF IntakeInv, DisjointInv, PhonesOf
  <2>2. \A k \in Lambdas \ {l} : handler[k].campaign = c => r.phone \notin PhonesOf(handler[k].mine)
    BY DEF Insert, HoldersOf
  <2>3. \A k \in Lambdas \ {l} : handler[k].campaign = c =>
           \A t \in mine : \A u \in handler[k].mine : t.phone # u.phone
    BY <1>7, <2>2 DEF IntakeInv, DisjointInv, PhonesOf
  <2>. SUFFICES ASSUME NEW k \in Lambdas, NEW t \in handler'[k].mine
                PROVE  /\ \A u \in contacts[handler'[k].campaign] : t.phone # u.phone
                       /\ \A j \in Lambdas \ {k} :
                             handler'[j].campaign = handler'[k].campaign =>
                               \A u \in handler'[j].mine : t.phone # u.phone
    BY DEF DisjointInv, Insert
  <2>4. CASE k = l
    BY <1>4, <1>6, <2>1, <2>3, <2>4
  <2>5. CASE k # l
    <3>1. handler'[k] = handler[k]
      BY <1>4, <2>5
    <3>2. \A j \in Lambdas \ {k} : handler'[j].campaign = handler'[k].campaign =>
             \A u \in handler'[j].mine : t.phone # u.phone
      BY <1>4, <1>6, <2>3, <2>5, <3>1 DEF IntakeInv, DisjointInv
    <3>. QED
      BY <3>1, <3>2 DEF IntakeInv, DisjointInv
  <2>. QED
    BY <2>4, <2>5
<1>14. TasksInv'
  BY <1>4, <1>6 DEF IntakeInv, TasksInv, Insert
<1>15. FreshInv'
  <2>1. PhonesOf(handler[l].todo) \cup PhonesOf(handler[l].mine) \cup PhonesOf(contacts[c])
          \subseteq PhonesOf(handler[l].todo \ {r}) \cup PhonesOf(mine) \cup PhonesOf(contacts[c])
    <3>1. PhonesOf(handler[l].todo) \subseteq PhonesOf(handler[l].todo \ {r}) \cup {r.phone}
      BY DEF PhonesOf
    <3>2. r.phone \in PhonesOf(mine) \cup PhonesOf(contacts[c])
      BY <1>7 DEF PhonesOf
    <3>3. handler[l].mine \subseteq mine
      BY DEF mine
    <3>4. PhonesOf(handler[l].mine) \subseteq PhonesOf(mine)
      BY <3>3 DEF PhonesOf
    <3>. QED
      BY <3>1, <3>2, <3>4
  <2>2. \A k \in Lambdas : handler'[k].pc # "free" =>
           /\ handler[k].pc # "free"
           /\ handler'[k].event = handler[k].event
           /\ handler'[k].campaign = handler[k].campaign
           /\ PhonesOf(handler[k].todo) \cup PhonesOf(handler[k].mine)
                \cup PhonesOf(contacts[handler[k].campaign])
              \subseteq PhonesOf(handler'[k].todo) \cup PhonesOf(handler'[k].mine)
                        \cup PhonesOf(contacts[handler[k].campaign])
    <3>. TAKE k \in Lambdas
    <3>1. CASE k = l
      BY <1>1, <1>6, <2>1, <3>1
    <3>2. CASE k # l
      BY <1>4, <3>2
    <3>. QED
      BY <3>1, <3>2
  <2>. SUFFICES ASSUME NEW k \in Lambdas, handler'[k].pc # "free",
                       IsLastUpload(handler[k].event)
                PROVE  PhonesOf(IterValidContacts(object[handler[k].campaign]))
                         \subseteq PhonesOf(handler'[k].todo) \cup PhonesOf(handler'[k].mine)
                                   \cup PhonesOf(contacts[handler[k].campaign])
    BY <1>9, <2>2 DEF FreshInv, Insert
  <2>. QED
    BY <2>2 DEF IntakeInv, FreshInv
<1>16. CountersInv' /\ OneContactPerPhone' /\ ContactsAreCallable' /\ UploadsAreIngested'
  <2>0. UNCHANGED <<campaignStatus, counterRows, object, events, contacts, callTasks>>
    BY DEF Insert
  <2>1. CountersInv' /\ OneContactPerPhone' /\ ContactsAreCallable'
    BY <2>0 DEF IntakeInv, CountersInv, OneContactPerPhone, ContactsAreCallable
  <2>2. UploadsAreIngested'
    BY <2>0 DEF IntakeInv, UploadsAreIngested, IsLastUpload
  <2>. QED
    BY <2>1, <2>2
<1>. QED
  BY <1>8, <1>9, <1>12, <1>13, <1>14, <1>15, <1>16 DEF IntakeInv

LEMMA CreateTasksKeeps ==
  ASSUME IntakeInv, NEW l \in Lambdas, CreateTasks(l)
  PROVE  IntakeInv'
<1>. DEFINE c == handler[l].campaign
            tasks == PhonesOf(VisibleContacts(l)) \ callTasks[c]
<1>1. handler[l] \in Invocations /\ handler[l].pc = "insert" /\ c \in Campaigns
  BY OpenHandler DEF IntakeInv, IntakeTypeOK, CreateTasks
<1>2. handler' = [handler EXCEPT ![l] = [handler[l] EXCEPT !.pc = "commit", !.tasks = tasks]]
  BY DEF CreateTasks
<1>3. tasks = PhonesOf(handler[l].mine) \ callTasks[c]
  BY <1>1 DEF IntakeInv, ContactsAreCallable, VisibleContacts, PhonesOf
<1>4. tasks \subseteq Phones
  BY <1>1, <1>3 DEF Invocations, PhonesOf, ContactRows
<1>. HIDE DEF tasks
<1>5. \A k \in Lambdas \ {l} : handler'[k] = handler[k]
  BY <1>2 DEF IntakeInv, IntakeTypeOK
<1>6. handler'[l] = [pc |-> "commit", campaign |-> c, event |-> handler[l].event,
                     todo |-> handler[l].todo, mine |-> handler[l].mine, tasks |-> tasks]
  BY <1>1, <1>2 DEF IntakeInv, IntakeTypeOK, Invocations
<1>7. /\ handler'[l].pc = "commit" /\ handler'[l].campaign = c
      /\ handler'[l].event = handler[l].event /\ handler'[l].todo = handler[l].todo
      /\ handler'[l].mine = handler[l].mine /\ handler'[l].tasks = tasks
  BY <1>6
<1>8. \A k \in Lambdas : /\ handler'[k].pc = "free" <=> handler[k].pc = "free"
                         /\ handler'[k].campaign = handler[k].campaign
                         /\ handler'[k].event = handler[k].event
                         /\ handler'[k].todo = handler[k].todo
                         /\ handler'[k].mine = handler[k].mine
  <2>. TAKE k \in Lambdas
  <2>1. CASE k = l
    BY <1>1, <1>7, <2>1
  <2>2. CASE k # l
    BY <1>5, <2>2
  <2>. QED
    BY <2>1, <2>2
<1>9. IntakeTypeOK'
  <2>1. handler'[l] \in Invocations
    BY <1>1, <1>4, <1>6 DEF Invocations
  <2>. QED
    BY <1>2, <1>5, <2>1 DEF IntakeInv, IntakeTypeOK, CreateTasks
<1>10. EventInv' /\ \A n : IsLastUpload(n)' = IsLastUpload(n)
  BY <1>1, <1>5, <1>7, GoingOnKeepsEvents DEF CreateTasks
<1>11. SortedInv'
  BY <1>8 DEF IntakeInv, SortedInv
<1>12. DisjointInv'
  BY <1>8 DEF IntakeInv, DisjointInv, CreateTasks
<1>13. TasksInv'
  <2>. SUFFICES ASSUME NEW k \in Lambdas, handler'[k].pc = "commit"
                PROVE  /\ handler'[k].todo = {}
                       /\ PhonesOf(handler'[k].mine)
                            \subseteq callTasks[handler'[k].campaign] \cup handler'[k].tasks
                       /\ handler'[k].tasks
                            \subseteq callTasks[handler'[k].campaign] \cup PhonesOf(handler'[k].mine)
    BY DEF TasksInv, CreateTasks
  <2>1. CASE k = l
    BY <1>3, <1>7, <2>1 DEF CreateTasks
  <2>2. CASE k # l
    BY <1>5, <2>2 DEF IntakeInv, TasksInv
  <2>. QED
    BY <2>1, <2>2
<1>14. FreshInv'
  BY <1>8, <1>10 DEF IntakeInv, FreshInv, CreateTasks
<1>15. CountersInv' /\ OneContactPerPhone' /\ ContactsAreCallable' /\ UploadsAreIngested'
  <2>0. UNCHANGED <<campaignStatus, counterRows, object, events, contacts, callTasks>>
    BY DEF CreateTasks
  <2>1. CountersInv' /\ OneContactPerPhone' /\ ContactsAreCallable'
    BY <2>0 DEF IntakeInv, CountersInv, OneContactPerPhone, ContactsAreCallable
  <2>2. UploadsAreIngested'
    BY <2>0 DEF IntakeInv, UploadsAreIngested, IsLastUpload
  <2>. QED
    BY <2>1, <2>2
<1>. QED
  BY <1>9, <1>10, <1>11, <1>12, <1>13, <1>14, <1>15 DEF IntakeInv

LEMMA CommitKeeps ==
  ASSUME IntakeInv, NEW l \in Lambdas, Commit(l)
  PROVE  IntakeInv'
<1>. DEFINE c == handler[l].campaign
            n == handler[l].event
            mine == handler[l].mine
<1>1. /\ handler[l].pc = "commit" /\ c \in Campaigns /\ n \in 1..Len(events)
      /\ c = events[n].campaign /\ campaignStatus[c] # "none"
  BY OpenHandler DEF IntakeInv, Commit
<1>2. mine \subseteq ContactRows /\ handler[l].tasks \subseteq Phones
      /\ handler[l].todo = {}
  BY <1>1, HandlerTypes DEF IntakeInv, TasksInv
<1>3. /\ handler'[l] = NoHandler
      /\ \A k \in Lambdas \ {l} : handler'[k] = handler[k]
  BY DEF IntakeInv, IntakeTypeOK, Commit
<1>4. /\ contacts'[c] = contacts[c] \cup mine
      /\ callTasks'[c] = callTasks[c] \cup handler[l].tasks
      /\ campaignStatus'[c] = "ready"
      /\ \A d \in Campaigns \ {c} : /\ contacts'[d] = contacts[d]
                                   /\ callTasks'[d] = callTasks[d]
                                   /\ campaignStatus'[d] = campaignStatus[d]
      /\ object' = object /\ counterRows' = counterRows
  BY <1>1 DEF IntakeInv, IntakeTypeOK, Commit
<1>5. /\ events' \in Seq(UploadEvents)
      /\ Len(events') = Len(events)
      /\ \A m \in 1..Len(events) : /\ events'[m].campaign = events[m].campaign
                                   /\ m # n => events'[m].done = events[m].done
  <2>. DEFINE e == [events[n] EXCEPT !.done = TRUE]
  <2>1. e \in UploadEvents /\ e.campaign = events[n].campaign
    BY <1>1, EventTypes DEF IntakeInv, UploadEvents
  <2>2. events' = [events EXCEPT ![n] = e]
    BY DEF Commit
  <2>. HIDE DEF e, n
  <2>3. events \in Seq(UploadEvents)
    BY DEF IntakeInv, IntakeTypeOK
  <2>. QED
    BY <1>1, <2>1, <2>2, <2>3
<1>6. \A m \in 1..Len(events) : IsLastUpload(m)' = IsLastUpload(m)
  BY <1>5 DEF IsLastUpload, IntakeInv, IntakeTypeOK
<1>7. NoHandler.pc = "free" /\ NoHandler.todo = {} /\ NoHandler.mine = {}
      /\ NoHandler \in Invocations
  BY DEF NoHandler, Invocations
<1>8. IntakeTypeOK'
  <2>1. contacts' \in [Campaigns -> SUBSET ContactRows]
    BY <1>1, <1>2 DEF IntakeInv, IntakeTypeOK, Commit
  <2>2. callTasks' \in [Campaigns -> SUBSET Phones]
    BY <1>1, <1>2 DEF IntakeInv, IntakeTypeOK, Commit
  <2>3. campaignStatus' \in [Campaigns -> {"none", "created", "ready"}]
    BY DEF IntakeInv, IntakeTypeOK, Commit
  <2>4. handler' \in [Lambdas -> Invocations]
    BY <1>7 DEF IntakeInv, IntakeTypeOK, Commit
  <2>. QED
    BY <1>4, <1>5, <2>1, <2>2, <2>3, <2>4 DEF IntakeInv, IntakeTypeOK
<1>9. EventInv'
  <2>1. \A m \in 1..Len(events') : /\ campaignStatus'[events'[m].campaign] # "none"
                                   /\ object'[events'[m].campaign] \in Files
    BY <1>4, <1>5, EventTypes DEF IntakeInv, EventInv
  <2>2. \A k \in Lambdas : handler'[k].pc # "free" =>
           /\ handler'[k].event \in 1..Len(events')
           /\ handler'[k].campaign = events'[handler'[k].event].campaign
    BY <1>3, <1>5, <1>7 DEF IntakeInv, EventInv
  <2>. QED
    BY <2>1, <2>2 DEF EventInv
<1>10. SortedInv'
  BY <1>3, <1>7 DEF IntakeInv, SortedInv
<1>11. \A k \in Lambdas : handler'[k].pc # "free" =>
          k # l /\ handler'[k] = handler[k] /\ handler[k].campaign \in Campaigns
  BY <1>3, <1>7, OpenHandler DEF IntakeInv
<1>12. \A k \in Lambdas : handler[k].mine # {} => handler[k].pc # "free"
  BY DEF IntakeInv, SortedInv
<1>13. DisjointInv'
  <2>. SUFFICES ASSUME NEW k \in Lambdas, NEW t \in handler'[k].mine
                PROVE  /\ \A u \in contacts'[handler'[k].campaign] : t.phone # u.phone
                       /\ \A j \in Lambdas \ {k} :
                             handler'[j].campaign = handler'[k].campaign =>
                               \A u \in handler'[j].mine : t.phone # u.phone
    BY DEF DisjointInv
  <2>1. k # l /\ handler'[k] = handler[k] /\ handler[k].campaign \in Campaigns
    BY <1>3, <1>7, <1>11, <1>12
  <2>2. \A u \in contacts[handler[k].campaign] : t.phone # u.phone
    BY <2>1 DEF IntakeInv, DisjointInv
  <2>3. handler[k].campaign = c => \A u \in mine : t.phone # u.phone
    BY <2>1 DEF IntakeInv, DisjointInv
  <2>4. \A u \in contacts'[handler[k].campaign] : t.phone # u.phone
    BY <1>4, <2>1, <2>2, <2>3
  <2>5. \A j \in Lambdas \ {k} : handler'[j].campaign = handler'[k].campaign =>
           \A u \in handler'[j].mine : t.phone # u.phone
    BY <1>3, <1>7, <2>1 DEF IntakeInv, DisjointInv
  <2>. QED
    BY <2>1, <2>4, <2>5
<1>14. TasksInv'
  <2>. SUFFICES ASSUME NEW k \in Lambdas, handler'[k].pc = "commit"
                PROVE  /\ handler'[k].todo = {}
                       /\ PhonesOf(handler'[k].mine)
                            \subseteq callTasks'[handler'[k].campaign] \cup handler'[k].tasks
                       /\ handler'[k].tasks
                            \subseteq callTasks'[handler'[k].campaign] \cup PhonesOf(handler'[k].mine)
    BY DEF TasksInv
  <2>1. handler'[k] = handler[k] /\ handler[k].campaign \in Campaigns
    BY <1>11
  <2>2. callTasks[handler[k].campaign] \subseteq callTasks'[handler[k].campaign]
    BY <1>4, <2>1
  <2>. QED
    BY <2>1, <2>2 DEF IntakeInv, TasksInv
<1>15. CountersInv'
  BY <1>1, <1>4 DEF IntakeInv, CountersInv
<1>16. \A d \in Campaigns : PhonesOf(contacts[d]) \subseteq PhonesOf(contacts'[d])
  BY <1>4 DEF PhonesOf
<1>17. FreshInv'
  <2>. SUFFICES ASSUME NEW k \in Lambdas, handler'[k].pc # "free",
                       IsLastUpload(handler[k].event)'
                PROVE  PhonesOf(IterValidContacts(object[handler[k].campaign]))
                         \subseteq PhonesOf(handler[k].todo) \cup PhonesOf(handler[k].mine)
                                   \cup PhonesOf(contacts'[handler[k].campaign])
    BY <1>4, <1>11 DEF FreshInv
  <2>1. handler[k].pc # "free" /\ handler[k].campaign \in Campaigns
        /\ handler[k].event \in 1..Len(events) /\ handler'[k] = handler[k]
    BY <1>11, OpenHandler DEF IntakeInv
  <2>2. IsLastUpload(handler[k].event)
    BY <1>6, <2>1
  <2>3. PhonesOf(IterValidContacts(object[handler[k].campaign]))
          \subseteq PhonesOf(handler[k].todo) \cup PhonesOf(handler[k].mine)
                    \cup PhonesOf(contacts[handler[k].campaign])
    BY <2>1, <2>2 DEF IntakeInv, FreshInv
  <2>. QED
    BY <1>16, <2>1, <2>3
<1>18. PhonesOf(contacts[c] \cup mine) = PhonesOf(contacts[c]) \cup PhonesOf(mine)
  BY DEF PhonesOf
<1>19. OneContactPerPhone'
  <2>1. \A t, u \in contacts[c] \cup mine : t.phone = u.phone => t = u
    BY <1>1 DEF IntakeInv, OneContactPerPhone, SortedInv, DisjointInv
  <2>. QED
    BY <1>4, <2>1 DEF IntakeInv, OneContactPerPhone
<1>20. ContactsAreCallable'
  <2>1. PhonesOf(contacts'[c]) = callTasks'[c]
    <3>1. /\ PhonesOf(mine) \subseteq callTasks[c] \cup handler[l].tasks
          /\ handler[l].tasks \subseteq callTasks[c] \cup PhonesOf(mine)
      <4>1. TasksInv
        BY DEF IntakeInv
      <4>. QED
        BY <1>1, <4>1 DEF TasksInv
    <3>2. ContactsAreCallable
      BY DEF IntakeInv
    <3>3. PhonesOf(contacts[c]) = callTasks[c]
      BY <1>1, <3>2 DEF ContactsAreCallable
    <3>4. /\ PhonesOf(contacts'[c]) = PhonesOf(contacts[c]) \cup PhonesOf(mine)
          /\ callTasks'[c] = callTasks[c] \cup handler[l].tasks
      BY <1>4, <1>18
    <3>. QED
      BY <3>1, <3>3, <3>4
  <2>2. c \in counterRows
    BY <1>1 DEF IntakeInv, CountersInv
  <2>. QED
    BY <1>4, <2>1, <2>2 DEF IntakeInv, ContactsAreCallable
<1>21. UploadsAreIngested'
  <2>. SUFFICES ASSUME NEW m \in 1..Len(events), events'[m].done, IsLastUpload(m)
                PROVE  PhonesOf(IterValidContacts(object[events[m].campaign]))
                         \subseteq PhonesOf(contacts'[events[m].campaign])
    BY <1>4, <1>5, <1>6 DEF UploadsAreIngested
  <2>1. events[m].campaign \in Campaigns
    BY EventTypes DEF IntakeInv
  <2>2. CASE m = n
    <3>1. PhonesOf(IterValidContacts(object[c]))
            \subseteq PhonesOf(handler[l].todo) \cup PhonesOf(mine) \cup PhonesOf(contacts[c])
      BY <1>1, <2>2 DEF IntakeInv, FreshInv
    <3>2. PhonesOf(handler[l].todo) = {}
      BY <1>2 DEF PhonesOf
    <3>. QED
      BY <1>1, <1>4, <1>18, <2>2, <3>1, <3>2
  <2>3. CASE m # n
    BY <1>5, <1>16, <2>1, <2>3 DEF IntakeInv, UploadsAreIngested
  <2>. QED
    BY <2>2, <2>3
<1>. QED
  BY <1>8, <1>9, <1>10, <1>13, <1>14, <1>15, <1>17, <1>19, <1>20, <1>21 DEF IntakeInv
-----------------------------------------------------------------------------
(* The theorems. *)

LEMMA StutterKeeps ==
  ASSUME IntakeInv, UNCHANGED intakeVars
  PROVE  IntakeInv'
<1>0. UNCHANGED <<campaignStatus, counterRows, object, events, contacts, callTasks, handler>>
  BY DEF intakeVars
<1>1. IntakeTypeOK' /\ EventInv'
  BY <1>0 DEF IntakeInv, IntakeTypeOK, EventInv
<1>2. SortedInv' /\ DisjointInv' /\ TasksInv'
  BY <1>0 DEF IntakeInv, SortedInv, DisjointInv, TasksInv
<1>3. CountersInv' /\ OneContactPerPhone' /\ ContactsAreCallable'
  BY <1>0 DEF IntakeInv, CountersInv, OneContactPerPhone, ContactsAreCallable
<1>4. FreshInv' /\ UploadsAreIngested'
  BY <1>0 DEF IntakeInv, FreshInv, UploadsAreIngested, IsLastUpload
<1>. QED
  BY <1>1, <1>2, <1>3, <1>4 DEF IntakeInv

LEMMA NextKeeps == IntakeInv /\ [IntakeNext]_intakeVars => IntakeInv'
<1>. SUFFICES ASSUME IntakeInv, [IntakeNext]_intakeVars
              PROVE  IntakeInv'
  OBVIOUS
<1>1. CASE \E c \in Campaigns : CreateCampaign(c) \/ \E file \in Files : Upload(c, file)
  BY <1>1, CreateCampaignKeeps, UploadKeeps
<1>2. CASE \E l \in Lambdas : \E n \in 1..Len(events) : Invoke(l, n)
  BY <1>2, InvokeKeeps
<1>3. CASE \E l \in Lambdas : \E r \in ContactRows : Insert(l, r)
  BY <1>3, InsertKeeps
<1>4. CASE \E l \in Lambdas : CreateTasks(l) \/ Commit(l) \/ Abort(l)
  BY <1>4, CreateTasksKeeps, CommitKeeps, AbortKeeps
<1>5. CASE UNCHANGED intakeVars
  BY <1>5, StutterKeeps
<1>. QED
  BY <1>1, <1>2, <1>3, <1>4, <1>5 DEF IntakeNext

\* The dashboard only looks on.
LEMMA DashboardLooksOn == Spec => IntakeSpec
<1>1. Init => IntakeInit
  BY DEF Init
<1>2. [Next]_vars => [IntakeNext]_intakeVars
  BY DEF Next, Reserve, Release, Query, PollAgain, vars
<1>. QED
  BY <1>1, <1>2, PTL DEF Spec, IntakeSpec

LEMMA IntakeInvariant == Spec => []IntakeInv
<1>1. IntakeSpec => []IntakeInv
  BY InitKeeps, NextKeeps, PTL DEF IntakeSpec
<1>. QED
  BY <1>1, DashboardLooksOn, PTL

\* Campaigns, files, invocations and what they insert keep their types; above
\* all no contact without a phone number or a known timezone gets in.
THEOREM IntakeTypeCorrect == Spec => []IntakeTypeOK
<1>1. IntakeInv => IntakeTypeOK
  BY DEF IntakeInv
<1>. QED
  BY <1>1, IntakeInvariant, PTL

\* A campaign has each phone once, whatever is uploaded, invoked and retried.
THEOREM PhonesAreUnique == Spec => []OneContactPerPhone
<1>1. IntakeInv => OneContactPerPhone
  BY DEF IntakeInv
<1>. QED
  BY <1>1, IntakeInvariant, PTL

\* Contacts have their task, their campaign is ready and has its counter.
THEOREM ContactsStayCallable == Spec => []ContactsAreCallable
<1>1. IntakeInv => ContactsAreCallable
  BY DEF IntakeInv
<1>. QED
  BY <1>1, IntakeInvariant, PTL

\* The last file of a campaign is ingested in full once its event is done.
THEOREM LastUploadIsIngested == Spec => []UploadsAreIngested
<1>1. IntakeInv => UploadsAreIngested
  BY DEF IntakeInv
<1>. QED
  BY <1>1, IntakeInvariant, PTL

\* What is ingested of the file in a campaign's object is what the batch parser
\* calls valid, whatever the file, and the latter accounts for the other rows;
\* their line numbers are right in files without blank lines.
THEOREM ParsersAlwaysAgree == Spec => []ParsersAgree
<1>1. ASSUME IntakeTypeOK, NEW c \in Campaigns, object[c] # NoFile
      PROVE  SameContacts(object[c])
  <2>1. object[c] \in Files
    BY <1>1 DEF IntakeTypeOK
  <2>2. object[c].lines \in Seq(RawLines)
    BY <2>1
  <2>. QED
    BY <2>2, ParsersCollectTheSame
<1>2. IntakeTypeOK => ParsersAgree
  BY <1>1 DEF ParsersAgree
<1>. QED
  BY <1>2, IntakeTypeCorrect, PTL

\* Invocations never deadlock, however many run at once.
THEOREM InvocationsNeverDeadlock == Spec => []HandlersNeverDeadlock
<1>1. IntakeInv => HandlersNeverDeadlock
  BY NoCircle DEF IntakeInv
<1>. QED
  BY <1>1, IntakeInvariant, PTL
-----------------------------------------------------------------------------
(* Ingestion is atomic. What an open invocation has taken from its file is  *)
(* in its hands, or was passed over for a phone that the campaign has.      *)

FilesOf(evs, c) == {e.file : e \in {d \in ToSet(evs) : d.campaign = c}}

\* From the rows picked, todo and mine are in hand and the others are known.
TakenFrom(rows, todo, mine, known) ==
    /\ todo \cup mine \subseteq rows
    /\ \A r \in rows \ (todo \cup mine) : \E s \in known : s.phone = r.phone

PickedInv ==
    /\ \A c \in Campaigns : object[c] # NoFile => object[c] \in Uploaded[c]
    /\ \A l \in Lambdas : handler[l].pc # "free" =>
          \E file \in Uploaded[handler[l].campaign] : \E rows \in Picks[file] :
              TakenFrom(rows, handler[l].todo, handler[l].mine, contacts[handler[l].campaign])

LEMMA FilesOfEvents ==
  ASSUME NEW evs \in Seq(UploadEvents), NEW c
  PROVE  FilesOf(evs, c) = {evs[n].file : n \in {k \in 1..Len(evs) : evs[k].campaign = c}}
  BY DEF FilesOf, ToSet

\* A file is not taken back.
LEMMA UploadedKept ==
  ASSUME IntakeTypeOK, IntakeTypeOK', Len(events') = Len(events),
         \A n \in 1..Len(events) : /\ events'[n].campaign = events[n].campaign
                                   /\ events'[n].file = events[n].file
  PROVE  Uploaded' = Uploaded
<1>1. events \in Seq(UploadEvents) /\ events' \in Seq(UploadEvents)
  BY DEF IntakeTypeOK
<1>2. \A c \in Campaigns : FilesOf(events', c) = FilesOf(events, c)
  <2>. TAKE c \in Campaigns
  <2>1. /\ FilesOf(events, c) = {events[n].file : n \in {k \in 1..Len(events) : events[k].campaign = c}}
        /\ FilesOf(events', c) = {events'[n].file : n \in {k \in 1..Len(events') : events'[k].campaign = c}}
    BY <1>1, FilesOfEvents
  <2>2. {k \in 1..Len(events') : events'[k].campaign = c} = {k \in 1..Len(events) : events[k].campaign = c}
    OBVIOUS
  <2>. QED
    BY <2>1, <2>2
<1>. QED
  BY <1>2 DEF Uploaded, FilesOf

LEMMA UploadAdds ==
  ASSUME IntakeTypeOK, IntakeTypeOK', NEW c \in Campaigns, NEW file \in Files, Upload(c, file)
  PROVE  Uploaded' = [Uploaded EXCEPT ![c] = Uploaded[c] \cup {file}]
<1>. DEFINE e == [campaign |-> c, file |-> file, left |-> MaxTries, done |-> FALSE]
<1>1. e \in UploadEvents /\ e.campaign = c /\ e.file = file
  BY DEF UploadEvents
<1>2. events \in Seq(UploadEvents) /\ events' = Append(events, e)
  BY DEF IntakeTypeOK, Upload
<1>. HIDE DEF e
<1>3. ToSet(events') = ToSet(events) \cup {e}
  BY <1>1, <1>2, AppendAdds
<1>4. \A d \in Campaigns : FilesOf(events', d)
                             = IF d = c THEN FilesOf(events, d) \cup {file} ELSE FilesOf(events, d)
  BY <1>1, <1>3 DEF FilesOf
<1>. QED
  BY <1>4 DEF Uploaded, FilesOf

\* A step that leaves events, contacts and the other invocations alone.
LEMMA OneHandlerPicks ==
  ASSUME IntakeTypeOK, PickedInv, UNCHANGED <<object, contacts>>, Uploaded' = Uploaded,
         NEW l \in Lambdas, \A k \in Lambdas \ {l} : handler'[k] = handler[k],
         handler'[l].pc # "free" =>
            \E file \in Uploaded[handler'[l].campaign] : \E rows \in Picks[file] :
              TakenFrom(rows, handler'[l].todo, handler'[l].mine, contacts[handler'[l].campaign])
  PROVE  PickedInv'
<1>1. \A c \in Campaigns : object'[c] # NoFile => object'[c] \in Uploaded'[c]
  BY DEF PickedInv
<1>2. ASSUME NEW k \in Lambdas, handler'[k].pc # "free"
      PROVE  \E file \in Uploaded'[handler'[k].campaign] : \E rows \in Picks[file] :
               TakenFrom(rows, handler'[k].todo, handler'[k].mine, contacts'[handler'[k].campaign])
  BY <1>2 DEF PickedInv
<1>. QED
  BY <1>1, <1>2 DEF PickedInv

\* What the abstract specification sees.
IntakeView == <<Uploaded, contacts, callTasks, ReadyCampaigns>>

LEMMA UploadIngests ==
  ASSUME IntakeInv, IntakeInv', PickedInv, NEW c \in Campaigns, NEW file \in Files, Upload(c, file)
  PROVE  PickedInv' /\ Intake!Upload(c, file)
<1>0. /\ IntakeTypeOK /\ IntakeTypeOK'
      /\ UNCHANGED <<campaignStatus, contacts, callTasks, handler>>
      /\ object' = [object EXCEPT ![c] = file]
  BY DEF IntakeInv, Upload
<1>1. Uploaded' = [Uploaded EXCEPT ![c] = Uploaded[c] \cup {file}]
  BY <1>0, UploadAdds
<1>2. /\ \A d \in Campaigns : Uploaded[d] \subseteq Uploaded'[d]
      /\ file \in Uploaded'[c]
  BY <1>1 DEF Uploaded
<1>3. ASSUME NEW d \in Campaigns, object'[d] # NoFile
      PROVE  object'[d] \in Uploaded'[d]
  BY <1>0, <1>2, <1>3 DEF PickedInv, IntakeTypeOK
<1>4. ASSUME NEW l \in Lambdas, handler[l].pc # "free"
      PROVE  \E f \in Uploaded'[handler[l].campaign] : \E rows \in Picks[f] :
               TakenFrom(rows, handler[l].todo, handler[l].mine, contacts[handler[l].campaign])
  <2>1. handler[l].campaign \in Campaigns
    BY <1>4, OpenHandler DEF IntakeInv
  <2>. QED
    BY <1>2, <1>4, <2>1 DEF PickedInv
<1>5. PickedInv'
  BY <1>0, <1>3, <1>4 DEF PickedInv
<1>6. ReadyCampaigns' = ReadyCampaigns
  BY <1>0 DEF ReadyCampaigns
<1>. QED
  BY <1>0, <1>1, <1>5, <1>6 DEF Intake!Upload

LEMMA InvokeIngestsNothing ==
  ASSUME IntakeInv, IntakeInv', PickedInv, NEW l \in Lambdas, NEW n \in 1..Len(events), Invoke(l, n)
  PROVE  PickedInv' /\ UNCHANGED IntakeView
<1>. DEFINE c == events[n].campaign
<1>0. /\ IntakeTypeOK /\ IntakeTypeOK' /\ c \in Campaigns /\ object[c] \in Files
      /\ UNCHANGED <<campaignStatus, object, contacts, callTasks>>
  BY EventTypes DEF IntakeInv, EventInv, Invoke
<1>1. Uploaded' = Uploaded
  <2>. DEFINE e == [events[n] EXCEPT !.left = events[n].left - 1]
  <2>1. e.campaign = events[n].campaign /\ e.file = events[n].file
    BY <1>0, EventTypes DEF UploadEvents
  <2>2. events' = [events EXCEPT ![n] = e] /\ events \in Seq(UploadEvents)
    BY <1>0 DEF Invoke, IntakeTypeOK
  <2>. HIDE DEF e
  <2>3. Len(events') = Len(events)
        /\ \A m \in 1..Len(events) : /\ events'[m].campaign = events[m].campaign
                                     /\ events'[m].file = events[m].file
    BY <2>1, <2>2
  <2>. QED
    BY <1>0, <2>3, UploadedKept
<1>2. UNCHANGED IntakeView
  BY <1>0, <1>1 DEF IntakeView, ReadyCampaigns
<1>3. CASE UNCHANGED handler
  BY <1>0, <1>1, <1>2, <1>3 DEF PickedInv
<1>4. CASE handler' # handler
  <2>1. PICK rows \in DistinctOn(IterValidContacts(object[c])) :
          handler' = [handler EXCEPT ![l] = [NoHandler EXCEPT !.pc = "insert", !.campaign = c,
                                                             !.event = n, !.todo = rows]]
    BY <1>4 DEF Invoke
  <2>2. Readable(object[c])
    BY <1>4 DEF Invoke
  <2>3. /\ handler'[l].campaign = c /\ handler'[l].todo = rows /\ handler'[l].mine = {}
        /\ \A k \in Lambdas \ {l} : handler'[k] = handler[k]
    BY <1>0, <2>1 DEF NoHandler, IntakeTypeOK
  <2>4. rows \in Picks[object[c]]
    BY <1>0, <2>1, <2>2 DEF Picks
  <2>5. object[c] \in Uploaded[c]
    BY <1>0 DEF PickedInv
  <2>6. TakenFrom(rows, rows, {}, contacts[c])
    BY DEF TakenFrom
  <2>. QED
    BY <1>0, <1>1, <1>2, <2>3, <2>4, <2>5, <2>6, OneHandlerPicks
<1>. QED
  BY <1>2, <1>3, <1>4

LEMMA InsertIngestsNothing ==
  ASSUME IntakeInv, PickedInv, NEW l \in Lambdas, NEW r \in ContactRows, Insert(l, r)
  PROVE  PickedInv' /\ UNCHANGED IntakeView
<1>. DEFINE h == handler[l]
            c == h.campaign
            more == IF r.phone \in PhonesOf(contacts[c]) THEN {} ELSE {r}
<1>0. /\ IntakeTypeOK /\ h.pc # "free" /\ r \in h.todo
      /\ UNCHANGED <<campaignStatus, object, events, contacts, callTasks>>
      /\ h \in Invocations
      /\ handler' = [handler EXCEPT ![l] = [h EXCEPT !.todo = h.todo \ {r}, !.mine = h.mine \cup more]]
  BY DEF IntakeInv, IntakeTypeOK, Insert, NextRows
<1>1. UNCHANGED IntakeView
  BY <1>0 DEF IntakeView, Uploaded, ReadyCampaigns
<1>2. PICK file \in Uploaded[c] : \E rows \in Picks[file] :
        TakenFrom(rows, h.todo, h.mine, contacts[c])
  BY <1>0 DEF PickedInv
<1>3. PICK rows \in Picks[file] : TakenFrom(rows, h.todo, h.mine, contacts[c])
  BY <1>2
<1>4. more \subseteq {r} /\ (more = {} => \E s \in contacts[c] : s.phone = r.phone)
  BY DEF PhonesOf
<1>. HIDE DEF more
<1>5. TakenFrom(rows, h.todo \ {r}, h.mine \cup more, contacts[c])
  <2>1. (h.todo \ {r}) \cup (h.mine \cup more) \subseteq rows
    BY <1>0, <1>3, <1>4 DEF TakenFrom
  <2>2. ASSUME NEW t \in rows, t \notin (h.todo \ {r}) \cup (h.mine \cup more)
        PROVE  \E s \in contacts[c] : s.phone = t.phone
    <3>1. CASE t = r
      BY <1>4, <2>2, <3>1
    <3>2. CASE t # r
      BY <1>3, <2>2, <3>2 DEF TakenFrom
    <3>. QED
      BY <3>1, <3>2
  <2>. QED
    BY <2>1, <2>2 DEF TakenFrom
<1>6. /\ handler'[l].campaign = c /\ handler'[l].todo = h.todo \ {r}
      /\ handler'[l].mine = h.mine \cup more
      /\ \A k \in Lambdas \ {l} : handler'[k] = handler[k]
  BY <1>0 DEF IntakeTypeOK, Invocations
<1>7. Uploaded' = Uploaded
  BY <1>0 DEF Uploaded
<1>8. \E f \in Uploaded[handler'[l].campaign] : \E taken \in Picks[f] :
        TakenFrom(taken, handler'[l].todo, handler'[l].mine, contacts[handler'[l].campaign])
  BY <1>5, <1>6
<1>. HIDE DEF h
<1>9. PickedInv'
  BY <1>0, <1>6, <1>7, <1>8, OneHandlerPicks
<1>. QED
  BY <1>1, <1>9

LEMMA CreateTasksIngestsNothing ==
  ASSUME IntakeInv, PickedInv, NEW l \in Lambdas, CreateTasks(l) \/ Abort(l)
  PROVE  PickedInv' /\ UNCHANGED IntakeView
<1>1. CASE CreateTasks(l)
  <2>0. UNCHANGED <<campaignStatus, object, events, contacts, callTasks>>
    BY <1>1 DEF CreateTasks
  <2>. DEFINE tasks == PhonesOf(VisibleContacts(l)) \ callTasks[handler[l].campaign]
  <2>1. handler[l] \in Invocations /\ handler[l].pc # "free"
        /\ handler' = [handler EXCEPT ![l] = [handler[l] EXCEPT !.pc = "commit", !.tasks = tasks]]
    BY <1>1 DEF IntakeInv, IntakeTypeOK, CreateTasks
  <2>. HIDE DEF tasks
  <2>2. /\ handler'[l].campaign = handler[l].campaign /\ handler'[l].todo = handler[l].todo
        /\ handler'[l].mine = handler[l].mine
        /\ \A k \in Lambdas \ {l} : handler'[k] = handler[k]
    BY <2>1 DEF IntakeInv, IntakeTypeOK, Invocations
  <2>3. Uploaded' = Uploaded /\ UNCHANGED IntakeView
    BY <2>0 DEF IntakeView, Uploaded, ReadyCampaigns
  <2>4. \E file \in Uploaded[handler[l].campaign] : \E rows \in Picks[file] :
          TakenFrom(rows, handler[l].todo, handler[l].mine, contacts[handler[l].campaign])
    BY <2>1 DEF PickedInv
  <2>5. IntakeTypeOK
    BY DEF IntakeInv
  <2>. QED
    BY <2>0, <2>2, <2>3, <2>4, <2>5, OneHandlerPicks
<1>2. CASE Abort(l)
  <2>0. UNCHANGED <<campaignStatus, object, events, contacts, callTasks>>
    BY <1>2 DEF Abort
  <2>1. handler'[l].pc = "free" /\ \A k \in Lambdas \ {l} : handler'[k] = handler[k]
    BY <1>2 DEF Abort, IntakeInv, IntakeTypeOK, NoHandler
  <2>2. Uploaded' = Uploaded /\ UNCHANGED IntakeView
    BY <2>0 DEF IntakeView, Uploaded, ReadyCampaigns
  <2>3. IntakeTypeOK
    BY DEF IntakeInv
  <2>. QED
    BY <2>0, <2>1, <2>2, <2>3, OneHandlerPicks
<1>. QED
  BY <1>1, <1>2

LEMMA CommitIngests ==
  ASSUME IntakeInv, IntakeInv', PickedInv, NEW l \in Lambdas, Commit(l)
  PROVE  PickedInv' /\ \E c \in Campaigns : \E file \in Files : Intake!Ingest(c, file)
<1>. DEFINE h == handler[l]
            c == h.campaign
            n == h.event
<1>0. /\ IntakeTypeOK /\ IntakeTypeOK' /\ h.pc = "commit" /\ c \in Campaigns
      /\ n \in 1..Len(events) /\ object' = object
      /\ contacts' = [contacts EXCEPT ![c] = contacts[c] \cup h.mine]
      /\ callTasks' = [callTasks EXCEPT ![c] = callTasks[c] \cup h.tasks]
      /\ campaignStatus' = [campaignStatus EXCEPT ![c] = "ready"]
      /\ handler' = [handler EXCEPT ![l] = NoHandler]
  BY OpenHandler DEF IntakeInv, Commit
<1>1. h.todo = {} /\ PhonesOf(h.mine) \subseteq callTasks[c] \cup h.tasks
      /\ h.tasks \subseteq callTasks[c] \cup PhonesOf(h.mine)
  BY <1>0 DEF IntakeInv, TasksInv
<1>2. Uploaded' = Uploaded
  <2>. DEFINE e == [events[n] EXCEPT !.done = TRUE]
  <2>1. e.campaign = events[n].campaign /\ e.file = events[n].file
    BY <1>0, EventTypes DEF UploadEvents
  <2>2. events' = [events EXCEPT ![n] = e] /\ events \in Seq(UploadEvents)
    BY <1>0 DEF Commit, IntakeTypeOK
  <2>. HIDE DEF e, n
  <2>3. Len(events') = Len(events)
        /\ \A m \in 1..Len(events) : /\ events'[m].campaign = events[m].campaign
                                     /\ events'[m].file = events[m].file
    BY <1>0, <2>1, <2>2
  <2>. QED
    BY <1>0, <2>3, UploadedKept
<1>3. PICK file \in Uploaded[c] : \E rows \in Picks[file] : TakenFrom(rows, h.todo, h.mine, contacts[c])
  BY <1>0 DEF PickedInv
<1>4. PICK rows \in Picks[file] : TakenFrom(rows, h.todo, h.mine, contacts[c])
  BY <1>3
<1>5. file \in Files
  <2>1. Uploaded[c] = FilesOf(events, c)
    BY <1>0 DEF Uploaded, FilesOf
  <2>2. events \in Seq(UploadEvents)
    BY <1>0 DEF IntakeTypeOK
  <2>3. PICK k \in 1..Len(events) : file = events[k].file
    BY <1>3, <2>1, <2>2, FilesOfEvents
  <2>4. events[k] \in UploadEvents
    BY <2>2
  <2>. QED
    BY <2>3, <2>4 DEF UploadEvents
\* What it has inserted is what was new, and still is.
<1>6. h.mine = Intake!New(c, rows)
  <2>1. \A t \in h.mine : \A u \in contacts[c] : t.phone # u.phone
    BY DEF IntakeInv, DisjointInv
  <2>. QED
    BY <1>1, <1>4, <2>1 DEF TakenFrom, Intake!New
<1>7. callTasks[c] \cup h.tasks = callTasks[c] \cup {r.phone : r \in Intake!New(c, rows)}
  BY <1>1, <1>6 DEF PhonesOf
<1>8. ReadyCampaigns' = ReadyCampaigns \cup {c}
  BY <1>0 DEF ReadyCampaigns, IntakeTypeOK
<1>9. Intake!Ingest(c, file)
  <2>. HIDE DEF h, c
  <2>1. /\ contacts' = [contacts EXCEPT ![c] = contacts[c] \cup Intake!New(c, rows)]
        /\ callTasks' = [callTasks EXCEPT ![c] = callTasks[c] \cup {r.phone : r \in Intake!New(c, rows)}]
    BY <1>0, <1>6, <1>7
  <2>. QED
    BY <1>2, <1>3, <1>4, <1>8, <2>1 DEF Intake!Ingest
<1>10. ASSUME NEW k \in Lambdas, handler'[k].pc # "free"
       PROVE  \E f \in Uploaded[handler'[k].campaign] : \E taken \in Picks[f] :
                TakenFrom(taken, handler'[k].todo, handler'[k].mine, contacts'[handler'[k].campaign])
  <2>1. k # l /\ handler'[k] = handler[k]
    BY <1>0, <1>10 DEF NoHandler, IntakeTypeOK
  <2>2. handler[k].pc # "free" /\ handler[k].campaign \in Campaigns
    BY <1>10, <2>1, OpenHandler DEF IntakeInv
  <2>3. contacts[handler[k].campaign] \subseteq contacts'[handler[k].campaign]
    BY <1>0, <2>2 DEF IntakeTypeOK
  <2>4. PICK f \in Uploaded[handler[k].campaign] : \E taken \in Picks[f] :
          TakenFrom(taken, handler[k].todo, handler[k].mine, contacts[handler[k].campaign])
    BY <2>2 DEF PickedInv
  <2>5. PICK taken \in Picks[f] :
          TakenFrom(taken, handler[k].todo, handler[k].mine, contacts[handler[k].campaign])
    BY <2>4
  <2>6. TakenFrom(taken, handler[k].todo, handler[k].mine, contacts'[handler[k].campaign])
    BY <2>3, <2>5 DEF TakenFrom
  <2>. QED
    BY <2>1, <2>4, <2>5, <2>6
<1>11. PickedInv'
  BY <1>0, <1>2, <1>10 DEF PickedInv
<1>. QED
  BY <1>0, <1>5, <1>9, <1>11

LEMMA CreateCampaignIngestsNothing ==
  ASSUME IntakeInv, PickedInv, NEW c \in Campaigns, CreateCampaign(c)
  PROVE  PickedInv' /\ UNCHANGED IntakeView
<1>1. /\ UNCHANGED <<object, events, contacts, callTasks, handler>>
      /\ campaignStatus[c] = "none"
      /\ campaignStatus' = [campaignStatus EXCEPT ![c] = "created"]
      /\ IntakeTypeOK
  BY DEF CreateCampaign, IntakeInv
<1>2. ReadyCampaigns' = ReadyCampaigns
  BY <1>1 DEF ReadyCampaigns, IntakeTypeOK
<1>3. Uploaded' = Uploaded
  BY <1>1 DEF Uploaded
<1>4. PickedInv'
  BY <1>1, <1>3 DEF PickedInv
<1>. QED
  BY <1>1, <1>2, <1>3, <1>4 DEF IntakeView

LEMMA StutterIngestsNothing ==
  ASSUME PickedInv, UNCHANGED intakeVars
  PROVE  PickedInv' /\ UNCHANGED IntakeView
<1>1. UNCHANGED <<campaignStatus, object, events, contacts, callTasks, handler>>
  BY DEF intakeVars
<1>. QED
  BY <1>1 DEF PickedInv, IntakeView, Uploaded, ReadyCampaigns

LEMMA InitIngestsNothing == IntakeInit => PickedInv /\ Intake!Init
<1>. SUFFICES ASSUME IntakeInit
              PROVE  PickedInv /\ Intake!Init
  OBVIOUS
<1>1. \A c \in Campaigns : FilesOf(events, c) = {}
  BY DEF IntakeInit, FilesOf, ToSet
<1>2. Uploaded = [c \in Campaigns |-> {}]
  BY <1>1 DEF Uploaded, FilesOf
<1>3. ReadyCampaigns = {}
  BY DEF IntakeInit, ReadyCampaigns
<1>4. PickedInv
  BY DEF IntakeInit, PickedInv, NoHandler
<1>. QED
  BY <1>2, <1>3, <1>4 DEF IntakeInit, Intake!Init

LEMMA IngestStep ==
  ASSUME IntakeInv, IntakeInv', PickedInv, [IntakeNext]_intakeVars
  PROVE  PickedInv' /\ [Intake!Next]_(Intake!vars)
<1>0. Intake!vars = IntakeView /\ Intake!vars' = IntakeView'
  BY DEF Intake!vars, IntakeView
<1>1. ASSUME NEW c \in Campaigns, CreateCampaign(c)
      PROVE  PickedInv' /\ UNCHANGED IntakeView
  BY <1>1, CreateCampaignIngestsNothing
<1>2. ASSUME NEW c \in Campaigns, NEW file \in Files, Upload(c, file)
      PROVE  PickedInv' /\ Intake!Next
  BY <1>2, UploadIngests DEF Intake!Next
<1>3. ASSUME NEW l \in Lambdas, NEW n \in 1..Len(events), Invoke(l, n)
      PROVE  PickedInv' /\ UNCHANGED IntakeView
  BY <1>3, InvokeIngestsNothing
<1>4. ASSUME NEW l \in Lambdas, NEW r \in ContactRows, Insert(l, r)
      PROVE  PickedInv' /\ UNCHANGED IntakeView
  BY <1>4, InsertIngestsNothing
<1>5. ASSUME NEW l \in Lambdas, CreateTasks(l) \/ Abort(l)
      PROVE  PickedInv' /\ UNCHANGED IntakeView
  BY <1>5, CreateTasksIngestsNothing
<1>6. ASSUME NEW l \in Lambdas, Commit(l)
      PROVE  PickedInv' /\ Intake!Next
  BY <1>6, CommitIngests DEF Intake!Next
<1>7. CASE UNCHANGED intakeVars
  BY <1>0, <1>7, StutterIngestsNothing
<1>8. CASE IntakeNext
  BY <1>0, <1>1, <1>2, <1>3, <1>4, <1>5, <1>6, <1>8 DEF IntakeNext
<1>. QED
  BY <1>7, <1>8

\* Whatever the contents of the files, the instances of the lambda and the
\* tries, what invocations commit is what ingesting uploaded files one at a
\* time does.
THEOREM IngestionIsAtomic == Spec => IngestsAtomically
<1>1. IntakeSpec => [](IntakeInv /\ PickedInv)
  <2>1. IntakeInv /\ PickedInv /\ [IntakeNext]_intakeVars => (IntakeInv /\ PickedInv)'
    BY NextKeeps, IngestStep
  <2>. QED
    BY <2>1, InitKeeps, InitIngestsNothing, PTL DEF IntakeSpec
<1>2. IntakeInv /\ IntakeInv' /\ PickedInv /\ [IntakeNext]_intakeVars => [Intake!Next]_(Intake!vars)
  BY IngestStep
<1>3. IntakeSpec => Intake!Spec
  BY <1>1, <1>2, InitIngestsNothing, PTL DEF IntakeSpec, Intake!Spec
<1>. QED
  BY <1>3, DashboardLooksOn, PTL DEF IngestsAtomically
=============================================================================
