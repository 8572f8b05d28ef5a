--------------------------- MODULE DashboardProofs ---------------------------
(* A snapshot of the dashboard does not contradict itself, for any number   *)
(* of campaigns, files, lambdas and calls. What is read early is compared   *)
(* with a quantity that only grows: active calls with the slots of all      *)
(* campaigns, the funnel and the contacts with the call tasks.              *)
EXTENDS IntakeProofs

USE CapAssumption

\* All the slots there are, and all the call tasks.
Room == AllRows(Slots(Capacity))

Tasks == AllRows(callTasks)

PollerTypeOK ==
    /\ activeCount \in [Campaigns -> Nat]
    /\ next \in 1..(Len(Statements) + 1)
    /\ view \in [ToSet(Statements) -> Nat]

\* A call takes a slot that its campaign has.
CallsHaveRoom ==
    /\ \A c \in Campaigns : /\ activeCount[c] <= MaxConcurrency[c]
                            /\ activeCount[c] > 0 => campaignStatus[c] # "none"
    /\ \A c \in counterRows : campaignStatus[c] # "none"

\* There is no end of campaigns and files to come, but so far there are only
\* finitely many.
AllIsFinite ==
    /\ IsFiniteSet(Room)
    /\ IsFiniteSet(Tasks)
    /\ \A l \in Lambdas : /\ IsFiniteSet(handler[l].todo)
                          /\ IsFiniteSet(handler[l].mine)
                          /\ IsFiniteSet(handler[l].tasks)

\* What is read so far is no more than what is there now.
ReadIsCovered ==
    /\ HasRead({"active"}) => view.active <= Cardinality(Room)
    /\ HasRead({"funnel"}) => view.funnel <= Cardinality(Tasks)
    /\ HasRead({"contacts"}) => view.contacts <= Cardinality(Tasks)

SnapshotInv ==
    /\ PollerTypeOK
    /\ CallsHaveRoom
    /\ AllIsFinite
    /\ ReadIsCovered
    /\ SlotsWithinCapacity
    /\ FunnelWithinTotals
-----------------------------------------------------------------------------
(* What the poll has read. *)

LEMMA StatementsAre ==
  /\ Len(Statements) = 5
  /\ Statements[1] = "active" /\ Statements[2] = "capacity" /\ Statements[3] = "funnel"
  /\ Statements[4] = "contacts" /\ Statements[5] = "callTasks"
  /\ ToSet(Statements) = {"active", "capacity", "funnel", "contacts", "callTasks"}
<1>1. /\ Len(Statements) = 5
      /\ Statements[1] = "active" /\ Statements[2] = "capacity" /\ Statements[3] = "funnel"
      /\ Statements[4] = "contacts" /\ Statements[5] = "callTasks"
  BY DEF Statements
<1>2. DOMAIN Statements = 1..5
  BY DEF Statements
<1>3. ToSet(Statements) = {Statements[1], Statements[2], Statements[3], Statements[4], Statements[5]}
  BY <1>2 DEF ToSet
<1>. QED
  BY <1>1, <1>3

\* HasRead, with the poll at statement n.
HasReadBefore(n, S) == S \subseteq {Statements[i] : i \in 1..(n - 1)}

\* What has been read follows from where the poll is.
LEMMA ReadByNow ==
  ASSUME NEW n \in 1..6
  PROVE  /\ HasReadBefore(n, {"active"}) <=> n >= 2
         /\ HasReadBefore(n, {"funnel"}) <=> n >= 4
         /\ HasReadBefore(n, {"contacts"}) <=> n >= 5
         /\ HasReadBefore(n, {"active", "capacity"}) <=> n >= 3
         /\ HasReadBefore(n, {"funnel", "callTasks"}) <=> n >= 6
         /\ HasReadBefore(n, {"contacts", "callTasks"}) <=> n >= 6
<1>1. \A i \in 1..(n - 1) : i \in 1..5
  OBVIOUS
<1>2. /\ "active" \in {Statements[i] : i \in 1..(n - 1)} <=> n >= 2
      /\ "capacity" \in {Statements[i] : i \in 1..(n - 1)} <=> n >= 3
      /\ "funnel" \in {Statements[i] : i \in 1..(n - 1)} <=> n >= 4
      /\ "contacts" \in {Statements[i] : i \in 1..(n - 1)} <=> n >= 5
      /\ "callTasks" \in {Statements[i] : i \in 1..(n - 1)} <=> n >= 6
  <2>1. n = 1 \/ n = 2 \/ n = 3 \/ n = 4 \/ n = 5 \/ n = 6
    OBVIOUS
  <2>2. /\ n = 1 => 1..(n - 1) = {}
        /\ n = 2 => 1..(n - 1) = {1}
        /\ n = 3 => 1..(n - 1) = {1, 2}
        /\ n = 4 => 1..(n - 1) = {1, 2, 3}
        /\ n = 5 => 1..(n - 1) = {1, 2, 3, 4}
        /\ n = 6 => 1..(n - 1) = {1, 2, 3, 4, 5}
    OBVIOUS
  <2>. QED
    BY <2>1, <2>2, StatementsAre
<1>. QED
  BY <1>2 DEF HasReadBefore
-----------------------------------------------------------------------------
(* Counting rows. *)

LEMMA RowsInclude ==
  ASSUME NEW s, NEW t, \A c \in Campaigns : s[c] \subseteq t[c]
  PROVE  AllRows(s) \subseteq AllRows(t)
  BY DEF AllRows

\* Each contact has its call task.
LEMMA ContactsWithinTasks ==
  ASSUME IntakeInv, IsFiniteSet(Tasks)
  PROVE  /\ IsFiniteSet(AllRows(contacts))
         /\ CountAll(contacts) <= Cardinality(Tasks)
<1>. DEFINE f == [p \in AllRows(contacts) |-> <<p[1], p[2].phone>>]
<1>1. \A p \in AllRows(contacts) :
         \E c \in Campaigns : \E r \in contacts[c] : p = <<c, r>>
  BY DEF AllRows
<1>2. f \in [AllRows(contacts) -> Tasks]
  <2>. SUFFICES ASSUME NEW c \in Campaigns, NEW r \in contacts[c]
                PROVE  <<c, r.phone>> \in Tasks
    BY <1>1
  <2>1. r.phone \in callTasks[c]
    BY DEF IntakeInv, ContactsAreCallable, PhonesOf
  <2>. QED
    BY <2>1 DEF Tasks, AllRows
<1>3. \A p, q \in AllRows(contacts) : f[p] = f[q] => p = q
  <2>. SUFFICES ASSUME NEW p \in AllRows(contacts), NEW q \in AllRows(contacts), f[p] = f[q]
                PROVE  p = q
    OBVIOUS
  <2>1. PICK c \in Campaigns : \E r \in contacts[c] : p = <<c, r>>
    BY <1>1
  <2>2. PICK d \in Campaigns : \E s \in contacts[d] : q = <<d, s>>
    BY <1>1
  <2>3. PICK r \in contacts[c] : p = <<c, r>>
    BY <2>1
  <2>4. PICK s \in contacts[d] : q = <<d, s>>
    BY <2>2
  <2>5. c = d /\ r.phone = s.phone
    BY <2>3, <2>4
  <2>6. r = s
    BY <2>5 DEF IntakeInv, OneContactPerPhone
  <2>. QED
    BY <2>3, <2>4, <2>5, <2>6
<1>. HIDE DEF f
<1>4. f \in Injection(AllRows(contacts), Tasks)
  BY <1>2, <1>3 DEF Injection, IsInjective
<1>. QED
  BY <1>4, FS_Injection DEF CountAll

\* An active call is in one of the slots.
LEMMA ActiveWithinRoom ==
  ASSUME PollerTypeOK, CallsHaveRoom, IsFiniteSet(Room)
  PROVE  /\ IsFiniteSet(AllRows(Slots(activeCount)))
         /\ CountAll(Slots(activeCount)) <= Cardinality(Room)
<1>1. ASSUME NEW c \in Campaigns
      PROVE  Slots(activeCount)[c] \subseteq Slots(Capacity)[c]
  <2>1. activeCount[c] \in Nat /\ MaxConcurrency[c] \in Nat
    BY DEF PollerTypeOK
  <2>2. activeCount[c] <= MaxConcurrency[c] /\ (activeCount[c] > 0 => campaignStatus[c] # "none")
    BY DEF CallsHaveRoom
  <2>3. 1..activeCount[c] \subseteq 1..Capacity[c]
    BY <2>1, <2>2 DEF Capacity
  <2>. QED
    BY <2>3 DEF Slots
<1>2. AllRows(Slots(activeCount)) \subseteq Room
  BY <1>1, RowsInclude DEF Room
<1>. QED
  BY <1>2, FS_Subset DEF CountAll
-----------------------------------------------------------------------------
(* The invariant is kept. *)

LEMMA SnapshotInit == Init => SnapshotInv
<1>. SUFFICES ASSUME Init
              PROVE  SnapshotInv
  OBVIOUS
<1>1. next = 1 /\ \A c \in Campaigns : activeCount[c] = 0 /\ campaignStatus[c] = "none"
  BY DEF Init, IntakeInit
<1>2. PollerTypeOK
  BY <1>1, StatementsAre DEF Init, PollerTypeOK, NoView
<1>3. CallsHaveRoom
  BY <1>1 DEF CallsHaveRoom, Init, IntakeInit
<1>4. AllIsFinite
  <2>1. Room = {}
    <3>1. \A c \in Campaigns : Slots(Capacity)[c] = {}
      BY <1>1 DEF Slots, Capacity
    <3>. QED
      BY <3>1 DEF Room, AllRows
  <2>2. Tasks = {}
    BY DEF Tasks, AllRows, Init, IntakeInit
  <2>3. \A l \in Lambdas : handler[l].todo = {} /\ handler[l].mine = {} /\ handler[l].tasks = {}
    BY DEF Init, IntakeInit, NoHandler
  <2>. QED
    BY <2>1, <2>2, <2>3, FS_EmptySet DEF AllIsFinite
<1>5. ReadIsCovered /\ SlotsWithinCapacity /\ FunnelWithinTotals
  <2>1. 1 \in 1..6 /\ 1 = next
    BY <1>1
  <2>. QED
    BY <2>1, ReadByNow DEF ReadIsCovered, SlotsWithinCapacity, FunnelWithinTotals,
                          HasRead, HasReadBefore
<1>. QED
  BY <1>2, <1>3, <1>4, <1>5 DEF SnapshotInv

\* As slots and tasks only grow, what is read stays covered.
LEMMA GrowthKeepsCover ==
  ASSUME SnapshotInv, UNCHANGED <<next, view>>,
         Room \subseteq Room', Tasks \subseteq Tasks', IsFiniteSet(Room'), IsFiniteSet(Tasks')
  PROVE  ReadIsCovered' /\ SlotsWithinCapacity' /\ FunnelWithinTotals'
<1>1. /\ Cardinality(Room) <= Cardinality(Room') /\ Cardinality(Tasks) <= Cardinality(Tasks')
      /\ Cardinality(Room) \in Nat /\ Cardinality(Room') \in Nat
      /\ Cardinality(Tasks) \in Nat /\ Cardinality(Tasks') \in Nat
  BY FS_Subset, FS_CardinalityType
<1>2. view.active \in Nat /\ view.funnel \in Nat /\ view.contacts \in Nat
  BY StatementsAre DEF SnapshotInv, PollerTypeOK
<1>3. \A S : HasRead(S)' = HasRead(S)
  BY DEF HasRead
<1>4. ReadIsCovered'
  BY <1>1, <1>2, <1>3 DEF SnapshotInv, ReadIsCovered
<1>5. SlotsWithinCapacity' /\ FunnelWithinTotals'
  BY <1>3 DEF SnapshotInv, SlotsWithinCapacity, FunnelWithinTotals
<1>. QED
  BY <1>4, <1>5

\* A file has finitely many lines.
LEMMA FilesAreFinite ==
  ASSUME NEW file \in Files
  PROVE  IsFiniteSet(IterValidContacts(file))
<1>. DEFINE n == Len(file.lines)
            K == {i \in 1..n : ~file.lines[i].blank /\ IsContact(file.lines[i])}
            f == [i \in K |-> Contact(file.lines[i])]
<1>1. n \in Nat /\ DOMAIN file.lines = 1..n
  OBVIOUS
<1>2. IsFiniteSet(K)
  <2>1. IsFiniteSet(1..n)
    <3>1. 1 \in Int /\ n \in Int
      BY <1>1
    <3>. HIDE DEF n
    <3>. QED
      BY ONLY <3>1, FS_Interval
  <2>2. K \in SUBSET (1..n)
    OBVIOUS
  <2>. QED
    BY <2>1, <2>2, FS_Subset
<1>3. f \in Surjection(K, IterValidContacts(file))
  <2>1. f \in [K -> IterValidContacts(file)]
    BY <1>1 DEF IterValidContacts, ToSet
  <2>2. \A r \in IterValidContacts(file) : \E i \in K : f[i] = r
    BY <1>1 DEF IterValidContacts, ToSet
  <2>. QED
    BY <2>1, <2>2 DEF Surjection
<1>. QED
  BY <1>2, <1>3, FS_Surjection

\* As many phones as rows, at most.
LEMMA PhonesAreFinite ==
  ASSUME NEW rows, IsFiniteSet(rows)
  PROVE  IsFiniteSet(PhonesOf(rows))
<1>. DEFINE f == [r \in rows |-> r.phone]
<1>1. f \in Surjection(rows, PhonesOf(rows))
  BY DEF Surjection, PhonesOf
<1>. QED
  BY <1>1, FS_Surjection

\* An intake step adds finitely many slots and tasks and takes none away.
LEMMA IntakeGrows ==
  ASSUME IntakeInv, SnapshotInv, IntakeNext
  PROVE  /\ Room \subseteq Room' /\ Tasks \subseteq Tasks'
         /\ AllIsFinite'
         /\ \A c \in Campaigns : campaignStatus[c] # "none" => campaignStatus'[c] # "none"
         /\ \A c \in counterRows' : campaignStatus'[c] # "none"
<1>. DEFINE Goal == /\ Room \subseteq Room' /\ Tasks \subseteq Tasks'
                    /\ AllIsFinite'
                    /\ \A c \in Campaigns : campaignStatus[c] # "none" => campaignStatus'[c] # "none"
                    /\ \A c \in counterRows' : campaignStatus'[c] # "none"
<1>0. /\ IntakeTypeOK
      /\ IsFiniteSet(Room) /\ IsFiniteSet(Tasks)
      /\ \A l \in Lambdas : /\ IsFiniteSet(handler[l].todo) /\ IsFiniteSet(handler[l].mine)
                            /\ IsFiniteSet(handler[l].tasks)
      /\ \A c \in counterRows : campaignStatus[c] # "none"
      /\ counterRows \subseteq Campaigns
  BY DEF IntakeInv, IntakeTypeOK, SnapshotInv, AllIsFinite, CallsHaveRoom
<1>1. ASSUME NEW c \in Campaigns, CreateCampaign(c)
      PROVE  Goal
  <2>1. /\ campaignStatus'[c] = "created" /\ campaignStatus[c] = "none"
        /\ \A d \in Campaigns \ {c} : campaignStatus'[d] = campaignStatus[d]
        /\ counterRows' = counterRows \cup {c} /\ callTasks' = callTasks /\ handler' = handler
    BY <1>0, <1>1 DEF CreateCampaign, IntakeTypeOK
  <2>2. Room' = Room \cup ({c} \X (1..MaxConcurrency[c]))
    <3>1. /\ Slots(Capacity)'[c] = 1..MaxConcurrency[c] /\ Slots(Capacity)[c] = {}
          /\ \A d \in Campaigns \ {c} : Slots(Capacity)'[d] = Slots(Capacity)[d]
      BY <2>1 DEF Slots, Capacity
    <3>. QED
      BY <3>1 DEF Room, AllRows
  <2>3. Tasks' = Tasks
    BY <2>1 DEF Tasks
  <2>4. IsFiniteSet({c} \X (1..MaxConcurrency[c]))
    <3>1. 1 \in Int /\ MaxConcurrency[c] \in Int
      OBVIOUS
    <3>2. IsFiniteSet(1..MaxConcurrency[c])
      BY ONLY <3>1, FS_Interval
    <3>. QED
      BY <3>2, FS_Singleton, FS_Product
  <2>5. IsFiniteSet(Room')
    BY <1>0, <2>2, <2>4, FS_Union
  <2>6. AllIsFinite'
    BY <1>0, <2>1, <2>3, <2>5 DEF AllIsFinite
  <2>. QED
    BY <1>0, <2>1, <2>2, <2>3, <2>6
<1>2. ASSUME UNCHANGED <<campaignStatus, counterRows, callTasks>>,
             \A l \in Lambdas : /\ IsFiniteSet(handler'[l].todo) /\ IsFiniteSet(handler'[l].mine)
                                /\ IsFiniteSet(handler'[l].tasks)
      PROVE  Goal
  <2>1. Room' = Room /\ Tasks' = Tasks
    BY <1>2 DEF Room, Tasks, Capacity
  <2>. QED
    BY <1>0, <1>2, <2>1 DEF AllIsFinite
<1>3. ASSUME NEW c \in Campaigns, NEW file \in Files, Upload(c, file)
      PROVE  Goal
  BY <1>0, <1>2, <1>3 DEF Upload
<1>4. ASSUME NEW l \in Lambdas, NEW n \in 1..Len(events), Invoke(l, n)
      PROVE  Goal
  <2>1. CASE UNCHANGED handler
    BY <1>0, <1>2, <1>4, <2>1 DEF Invoke
  <2>2. CASE handler' # handler
    <3>. DEFINE c == events[n].campaign
    <3>1. PICK rows \in DistinctOn(IterValidContacts(object[c])) :
            handler' = [handler EXCEPT ![l] = [NoHandler EXCEPT !.pc = "insert", !.campaign = c,
                                                               !.event = n, !.todo = rows]]
      BY <1>4, <2>2 DEF Invoke
    <3>2. object[c] \in Files
      BY DEF IntakeInv, EventInv
    <3>3. IsFiniteSet(rows)
      BY <3>1, <3>2, FilesAreFinite, FS_Subset DEF DistinctOn
    <3>4. /\ handler'[l].todo = rows /\ handler'[l].mine = {} /\ handler'[l].tasks = {}
          /\ \A k \in Lambdas \ {l} : handler'[k] = handler[k]
      BY <1>0, <3>1 DEF NoHandler, IntakeTypeOK
    <3>5. \A k \in Lambdas : /\ IsFiniteSet(handler'[k].todo) /\ IsFiniteSet(handler'[k].mine)
                             /\ IsFiniteSet(handler'[k].tasks)
      BY <1>0, <3>3, <3>4, FS_EmptySet
    <3>. QED
      BY <1>2, <1>4, <3>5 DEF Invoke
  <2>. QED
    BY <2>1, <2>2
<1>5. ASSUME NEW l \in Lambdas, NEW r \in ContactRows, Insert(l, r)
      PROVE  Goal
  <2>. DEFINE more == IF r.phone \in PhonesOf(contacts[handler[l].campaign]) THEN {} ELSE {r}
  <2>1. handler' = [handler EXCEPT ![l] = [handler[l] EXCEPT !.todo = handler[l].todo \ {r},
                                                             !.mine = handler[l].mine \cup more]]
    BY <1>5 DEF Insert
  <2>. HIDE DEF more
  <2>2. /\ handler'[l].todo = handler[l].todo \ {r} /\ handler'[l].mine = handler[l].mine \cup more
        /\ handler'[l].tasks = handler[l].tasks
        /\ \A k \in Lambdas \ {l} : handler'[k] = handler[k]
    BY <1>0, <2>1 DEF IntakeTypeOK, Invocations
  <2>3. IsFiniteSet(more)
    BY FS_EmptySet, FS_Singleton DEF more
  <2>4. IsFiniteSet(handler'[l].todo) /\ IsFiniteSet(handler'[l].mine)
    <3>1. handler[l].todo \ {r} \in SUBSET handler[l].todo
      OBVIOUS
    <3>. QED
      BY <1>0, <2>2, <2>3, <3>1, FS_Subset, FS_Union
  <2>5. \A k \in Lambdas : /\ IsFiniteSet(handler'[k].todo) /\ IsFiniteSet(handler'[k].mine)
                           /\ IsFiniteSet(handler'[k].tasks)
    BY <1>0, <2>2, <2>4
  <2>. QED
    BY <1>2, <1>5, <2>5 DEF Insert
<1>6. ASSUME NEW l \in Lambdas, CreateTasks(l)
      PROVE  Goal
  <2>. DEFINE c == handler[l].campaign
              tasks == PhonesOf(VisibleContacts(l)) \ callTasks[c]
  <2>1. c \in Campaigns
    BY <1>6, OpenHandler DEF CreateTasks, IntakeInv
  <2>2. tasks \in SUBSET PhonesOf(handler[l].mine)
    BY <2>1 DEF IntakeInv, ContactsAreCallable, VisibleContacts, PhonesOf
  <2>3. IsFiniteSet(tasks)
    BY <1>0, <2>2, PhonesAreFinite, FS_Subset
  <2>4. handler' = [handler EXCEPT ![l] = [handler[l] EXCEPT !.pc = "commit", !.tasks = tasks]]
    BY <1>6 DEF CreateTasks
  <2>. HIDE DEF tasks
  <2>5. /\ handler'[l].todo = handler[l].todo /\ handler'[l].mine = handler[l].mine
        /\ handler'[l].tasks = tasks
        /\ \A k \in Lambdas \ {l} : handler'[k] = handler[k]
    BY <1>0, <2>4 DEF IntakeTypeOK, Invocations
  <2>6. \A k \in Lambdas : /\ IsFiniteSet(handler'[k].todo) /\ IsFiniteSet(handler'[k].mine)
                           /\ IsFiniteSet(handler'[k].tasks)
    BY <1>0, <2>3, <2>5
  <2>. QED
    BY <1>2, <1>6, <2>6 DEF CreateTasks
<1>7. ASSUME NEW l \in Lambdas, Commit(l)
      PROVE  Goal
  <2>. DEFINE c == handler[l].campaign
  <2>1. c \in Campaigns /\ campaignStatus[c] # "none"
    BY <1>7, OpenHandler DEF Commit, IntakeInv
  <2>2. /\ campaignStatus'[c] = "ready" /\ callTasks'[c] = callTasks[c] \cup handler[l].tasks
        /\ \A d \in Campaigns \ {c} : /\ campaignStatus'[d] = campaignStatus[d]
                                     /\ callTasks'[d] = callTasks[d]
        /\ handler'[l] = NoHandler /\ \A k \in Lambdas \ {l} : handler'[k] = handler[k]
        /\ counterRows' = counterRows
    BY <1>0, <1>7, <2>1 DEF Commit, IntakeTypeOK
  <2>3. Room' = Room
    <3>1. Capacity' = Capacity
      BY <2>1, <2>2 DEF Capacity
    <3>. QED
      BY <3>1 DEF Room, Slots
  <2>4. Tasks' = Tasks \cup ({c} \X handler[l].tasks)
    BY <2>1, <2>2 DEF Tasks, AllRows
  <2>5. IsFiniteSet(Tasks')
    BY <1>0, <2>4, FS_Singleton, FS_Product, FS_Union
  <2>6. \A k \in Lambdas : /\ IsFiniteSet(handler'[k].todo) /\ IsFiniteSet(handler'[k].mine)
                           /\ IsFiniteSet(handler'[k].tasks)
    <3>1. NoHandler.todo = {} /\ NoHandler.mine = {} /\ NoHandler.tasks = {}
      BY DEF NoHandler
    <3>. QED
      BY <1>0, <2>2, <3>1, FS_EmptySet
  <2>7. AllIsFinite'
    BY <1>0, <2>3, <2>5, <2>6 DEF AllIsFinite
  <2>. QED
    BY <1>0, <2>1, <2>2, <2>3, <2>4, <2>7
<1>8. ASSUME NEW l \in Lambdas, Abort(l)
      PROVE  Goal
  <2>1. \A k \in Lambdas : /\ IsFiniteSet(handler'[k].todo) /\ IsFiniteSet(handler'[k].mine)
                           /\ IsFiniteSet(handler'[k].tasks)
    BY <1>0, <1>8, FS_EmptySet DEF Abort, NoHandler, IntakeTypeOK
  <2>. QED
    BY <1>2, <1>8, <2>1 DEF Abort
<1>. HIDE DEF Goal
<1>9. Goal
  BY <1>1, <1>3, <1>4, <1>5, <1>6, <1>7, <1>8 DEF IntakeNext
<1>. QED
  BY <1>9 DEF Goal

\* The poller's own types and the calls' room are left alone by the intake.
LEMMA IntakeKeepsSnapshot ==
  ASSUME IntakeInv, SnapshotInv, IntakeNext, UNCHANGED dashboardVars
  PROVE  SnapshotInv'
<1>0. UNCHANGED <<activeCount, next, view>>
  BY DEF dashboardVars
<1>1. /\ Room \subseteq Room' /\ Tasks \subseteq Tasks' /\ AllIsFinite'
      /\ \A c \in Campaigns : campaignStatus[c] # "none" => campaignStatus'[c] # "none"
      /\ \A c \in counterRows' : campaignStatus'[c] # "none"
  BY IntakeGrows
<1>2. PollerTypeOK' /\ CallsHaveRoom'
  BY <1>0, <1>1 DEF SnapshotInv, PollerTypeOK, CallsHaveRoom
<1>3. ReadIsCovered' /\ SlotsWithinCapacity' /\ FunnelWithinTotals'
  BY <1>0, <1>1, GrowthKeepsCover DEF AllIsFinite
<1>. QED
  BY <1>1, <1>2, <1>3 DEF SnapshotInv

\* A call that begins or ends changes a counter within its bounds.
LEMMA CallsKeepSnapshot ==
  ASSUME SnapshotInv, NEW c \in Campaigns, Reserve(c) \/ Release(c)
  PROVE  SnapshotInv'
<1>0. UNCHANGED <<campaignStatus, counterRows, callTasks, handler, next, view>>
  BY DEF Reserve, Release, intakeVars
<1>1. Room' = Room /\ Tasks' = Tasks
  BY <1>0 DEF Room, Tasks, Capacity
<1>2. AllIsFinite'
  BY <1>0, <1>1 DEF SnapshotInv, AllIsFinite
<1>3. ReadIsCovered' /\ SlotsWithinCapacity' /\ FunnelWithinTotals'
  BY <1>0, <1>1, <1>2, GrowthKeepsCover DEF AllIsFinite
<1>4. activeCount \in [Campaigns -> Nat] /\ MaxConcurrency[c] \in Nat
  BY DEF SnapshotInv, PollerTypeOK
<1>5. /\ activeCount' \in [Campaigns -> Nat]
      /\ \A d \in Campaigns \ {c} : activeCount'[d] = activeCount[d]
      /\ activeCount'[c] <= MaxConcurrency[c]
      /\ activeCount'[c] > 0 => campaignStatus[c] # "none"
  <2>1. CASE Reserve(c)
    BY <1>4, <2>1 DEF Reserve, SnapshotInv, CallsHaveRoom
  <2>2. CASE Release(c)
    BY <1>4, <2>2 DEF Release, SnapshotInv, CallsHaveRoom
  <2>. QED
    BY <2>1, <2>2
<1>6. PollerTypeOK' /\ CallsHaveRoom'
  <2>1. PollerTypeOK'
    BY <1>0, <1>5 DEF SnapshotInv, PollerTypeOK
  <2>2. CallsHaveRoom'
    BY <1>0, <1>5 DEF SnapshotInv, CallsHaveRoom
  <2>. QED
    BY <2>1, <2>2
<1>. QED
  BY <1>2, <1>3, <1>6 DEF SnapshotInv

\* Each statement finds no less than the one it is compared with has found.
LEMMA QueryKeepsSnapshot ==
  ASSUME IntakeInv, SnapshotInv, Query
  PROVE  SnapshotInv'
<1>0. UNCHANGED <<campaignStatus, counterRows, contacts, callTasks, handler, activeCount>>
  BY DEF Query, intakeVars
<1>1. Room' = Room /\ Tasks' = Tasks
  BY <1>0 DEF Room, Tasks, Capacity
<1>2. IsFiniteSet(Room) /\ IsFiniteSet(Tasks)
      /\ Cardinality(Room) \in Nat /\ Cardinality(Tasks) \in Nat
  BY FS_CardinalityType DEF SnapshotInv, AllIsFinite
<1>3. /\ CountAll(Slots(activeCount)) \in Nat /\ CountAll(Slots(activeCount)) <= Cardinality(Room)
      /\ CountAll(contacts) \in Nat /\ CountAll(contacts) <= Cardinality(Tasks)
  BY <1>2, ActiveWithinRoom, ContactsWithinTasks, FS_CardinalityType DEF SnapshotInv, CountAll
<1>4. AllIsFinite' /\ CallsHaveRoom'
  BY <1>0, <1>1 DEF SnapshotInv, AllIsFinite, CallsHaveRoom
<1>. DEFINE n == next
            s == Statements[n]
<1>5. n \in 1..5 /\ n + 1 \in 1..6 /\ next' = n + 1
  BY StatementsAre DEF Query, SnapshotInv, PollerTypeOK
<1>6. s \in ToSet(Statements) /\ view' = [view EXCEPT ![s] = Result(s)]
  BY <1>5, StatementsAre DEF Query
<1>7. /\ s = "active" => Result(s) = CountAll(Slots(activeCount))
      /\ s = "capacity" => Result(s) = Cardinality(Room)
      /\ s = "funnel" => Result(s) = Cardinality(Tasks)
      /\ s = "contacts" => Result(s) = CountAll(contacts)
      /\ s = "callTasks" => Result(s) = Cardinality(Tasks)
  BY DEF Result, CountAll, Room, Tasks
<1>8. Result(s) \in Nat
  BY <1>2, <1>3, <1>6, <1>7, StatementsAre
<1>9. PollerTypeOK'
  BY <1>0, <1>5, <1>6, <1>8, StatementsAre DEF SnapshotInv, PollerTypeOK
<1>10. /\ view \in [ToSet(Statements) -> Nat]
       /\ view'[s] = Result(s)
       /\ \A t \in ToSet(Statements) \ {s} : view'[t] = view[t]
  BY <1>6 DEF SnapshotInv, PollerTypeOK
<1>11. n \in 1..6 /\ n = next
  BY <1>5
<1>12. /\ n >= 2 => view.active <= Cardinality(Room)
       /\ n >= 4 => view.funnel <= Cardinality(Tasks)
       /\ n >= 5 => view.contacts <= Cardinality(Tasks)
       /\ n >= 3 => view.active <= view.capacity
  BY <1>11, ReadByNow DEF SnapshotInv, ReadIsCovered, SlotsWithinCapacity, HasRead, HasReadBefore
<1>. HIDE DEF n, s
<1>13. /\ n + 1 >= 2 => view'.active <= Cardinality(Room)
       /\ n + 1 >= 4 => view'.funnel <= Cardinality(Tasks)
       /\ n + 1 >= 5 => view'.contacts <= Cardinality(Tasks)
       /\ n + 1 >= 3 => view'.active <= view'.capacity
       /\ n + 1 >= 6 => view'.funnel <= view'.callTasks /\ view'.contacts <= view'.callTasks
  <2>1. CASE n = 1 /\ s = "active"
    BY <1>2, <1>3, <1>7, <1>10, <2>1, StatementsAre
  <2>2. CASE n = 2 /\ s = "capacity"
    BY <1>2, <1>7, <1>10, <1>12, <2>2, StatementsAre
  <2>3. CASE n = 3 /\ s = "funnel"
    BY <1>2, <1>7, <1>10, <1>12, <2>3, StatementsAre
  <2>4. CASE n = 4 /\ s = "contacts"
    BY <1>2, <1>3, <1>7, <1>10, <1>12, <2>4, StatementsAre
  <2>5. CASE n = 5 /\ s = "callTasks"
    BY <1>2, <1>7, <1>10, <1>12, <2>5, StatementsAre
  <2>6. /\ n = 1 \/ n = 2 \/ n = 3 \/ n = 4 \/ n = 5
        /\ s = Statements[n]
    BY <1>5 DEF s
  <2>. QED
    BY <2>1, <2>2, <2>3, <2>4, <2>5, <2>6, StatementsAre
<1>14. /\ HasRead({"active"})' <=> n + 1 >= 2
       /\ HasRead({"funnel"})' <=> n + 1 >= 4
       /\ HasRead({"contacts"})' <=> n + 1 >= 5
       /\ HasRead({"active", "capacity"})' <=> n + 1 >= 3
       /\ HasRead({"funnel", "callTasks"})' <=> n + 1 >= 6
       /\ HasRead({"contacts", "callTasks"})' <=> n + 1 >= 6
  BY <1>5, ReadByNow DEF HasRead, HasReadBefore
<1>15. ReadIsCovered' /\ SlotsWithinCapacity' /\ FunnelWithinTotals'
  BY <1>1, <1>13, <1>14 DEF ReadIsCovered, SlotsWithinCapacity, FunnelWithinTotals
<1>. QED
  BY <1>4, <1>9, <1>15 DEF SnapshotInv

\* A new poll has read nothing.
LEMMA NewPollKeepsSnapshot ==
  ASSUME SnapshotInv, PollAgain
  PROVE  SnapshotInv'
<1>0. /\ UNCHANGED <<campaignStatus, counterRows, callTasks, handler, activeCount>>
      /\ next' = 1 /\ view' = NoView
  BY DEF PollAgain, intakeVars
<1>1. Room' = Room /\ Tasks' = Tasks
  BY <1>0 DEF Room, Tasks, Capacity
<1>2. PollerTypeOK' /\ CallsHaveRoom' /\ AllIsFinite'
  <2>1. PollerTypeOK'
    BY <1>0, StatementsAre DEF SnapshotInv, PollerTypeOK, NoView
  <2>2. CallsHaveRoom' /\ AllIsFinite'
    BY <1>0, <1>1 DEF SnapshotInv, CallsHaveRoom, AllIsFinite
  <2>. QED
    BY <2>1, <2>2
<1>3. ReadIsCovered' /\ SlotsWithinCapacity' /\ FunnelWithinTotals'
  <2>1. 1 \in 1..6
    OBVIOUS
  <2>. QED
    BY <1>0, <2>1, ReadByNow DEF ReadIsCovered, SlotsWithinCapacity, FunnelWithinTotals,
                                 HasRead, HasReadBefore
<1>. QED
  BY <1>2, <1>3 DEF SnapshotInv

LEMMA SnapshotStep == IntakeInv /\ SnapshotInv /\ [Next]_vars => SnapshotInv'
<1>. SUFFICES ASSUME IntakeInv, SnapshotInv, [Next]_vars
              PROVE  SnapshotInv'
  OBVIOUS
<1>1. CASE IntakeNext /\ UNCHANGED dashboardVars
  BY <1>1, IntakeKeepsSnapshot
<1>2. CASE \E c \in Campaigns : Reserve(c) \/ Release(c)
  BY <1>2, CallsKeepSnapshot
<1>3. CASE Query \/ PollAgain
  BY <1>3, QueryKeepsSnapshot, NewPollKeepsSnapshot
<1>4. CASE UNCHANGED vars
  <2>0. UNCHANGED <<campaignStatus, counterRows, callTasks, handler, activeCount, next, view>>
    BY <1>4 DEF vars, intakeVars, dashboardVars
  <2>1. Room' = Room /\ Tasks' = Tasks
    BY <2>0 DEF Room, Tasks, Capacity
  <2>2. PollerTypeOK' /\ CallsHaveRoom' /\ AllIsFinite'
    BY <2>0, <2>1 DEF SnapshotInv, PollerTypeOK, CallsHaveRoom, AllIsFinite
  <2>3. ReadIsCovered' /\ SlotsWithinCapacity' /\ FunnelWithinTotals'
    BY <2>0, <2>1 DEF SnapshotInv, ReadIsCovered, SlotsWithinCapacity, FunnelWithinTotals, HasRead
  <2>. QED
    BY <2>2, <2>3 DEF SnapshotInv
<1>. QED
  BY <1>1, <1>2, <1>3, <1>4 DEF Next

LEMMA SnapshotInvariant == Spec => []SnapshotInv
BY SnapshotInit, SnapshotStep, IntakeInvariant, PTL DEF Spec
-----------------------------------------------------------------------------
(* The theorems. *)

\* A snapshot never shows more active calls than slots, however many campaigns
\* are created and calls begun while it is taken.
THEOREM ActiveNeverExceedsCapacity == Spec => []SlotsWithinCapacity
<1>1. SnapshotInv => SlotsWithinCapacity
  BY DEF SnapshotInv
<1>. QED
  BY <1>1, SnapshotInvariant, PTL

\* Nor more tasks in the funnel, or contacts, than call tasks, whatever is
\* ingested meanwhile.
THEOREM FunnelNeverExceedsTotals == Spec => []FunnelWithinTotals
<1>1. SnapshotInv => FunnelWithinTotals
  BY DEF SnapshotInv
<1>. QED
  BY <1>1, SnapshotInvariant, PTL
=============================================================================
