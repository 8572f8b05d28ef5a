------------------------- MODULE CrmDeliveryProofs -------------------------
(* The delivery implements OutcomeDelivery and its log of attempts is       *)
(* truthful, for every value of the constants: any number of outcomes,      *)
(* workers and receives.                                                    *)
EXTENDS CrmDelivery, TLAPS

WorkerRecords ==
    [pc : {"loop", "delivered", "logged", "failed", "backoff", "stopped"},
     batch : SUBSET Receipts,
     current : Receipts \cup {NoReceipt}]

Busy(w) == crmWorker[w].pc \notin {"loop", "stopped"}

\* A busy worker has a receipt of an outcome in hand, and once its post was
\* accepted the CRM has that outcome on record.
BusyWorkersKnow ==
    \A w \in CrmWorkers :
        /\ Busy(w) => crmWorker[w].current \in Receipts /\ crmWorker[w].current.msg \in Outcomes
        /\ crmWorker[w].pc \in {"delivered", "logged"} => crmWorker[w].current.msg \in recorded

\* Only what was published is received, posted or recorded.
OnlyPublished ==
    /\ \A w \in CrmWorkers : \A r \in crmWorker[w].batch : place[r.msg] # "unsent"
    /\ \A o \in recorded \cup late : place[o] # "unsent"

DeliveryInv == CrmTypeOK /\ BusyWorkersKnow /\ OnlyPublished

\* What a worker's step leaves in its record.
LEMMA WorkerUpdated ==
    ASSUME crmWorker \in [CrmWorkers -> WorkerRecords], NEW w \in CrmWorkers,
           NEW new \in WorkerRecords, crmWorker' = [crmWorker EXCEPT ![w] = new]
    PROVE  /\ crmWorker' \in [CrmWorkers -> WorkerRecords]
           /\ crmWorker'[w] = new
           /\ \A v \in CrmWorkers \ {w} : crmWorker'[v] = crmWorker[v]
OBVIOUS

\* The invariant in terms of what may change: places only leave "unsent",
\* recorded only grows, and one worker's record is replaced.
LEMMA InvKept ==
    ASSUME DeliveryInv, NEW w \in CrmWorkers, NEW new \in WorkerRecords,
           crmWorker' = [crmWorker EXCEPT ![w] = new],
           \A m \in Messages : place[m] # "unsent" => place'[m] # "unsent",
           recorded \subseteq recorded', late' \in SUBSET Outcomes,
           recorded' \in SUBSET Outcomes,
           \A o \in (recorded' \cup late') \ (recorded \cup late) : place'[o] # "unsent",
           \A r \in new.batch : place'[r.msg] # "unsent",
           new.pc \notin {"loop", "stopped"} =>
               new.current \in Receipts /\ new.current.msg \in Outcomes,
           new.pc \in {"delivered", "logged"} => new.current.msg \in recorded'
    PROVE  BusyWorkersKnow' /\ OnlyPublished'
<1>1. crmWorker \in [CrmWorkers -> WorkerRecords]
  BY DEF DeliveryInv, CrmTypeOK, WorkerRecords
<1>2. /\ crmWorker'[w] = new
      /\ \A v \in CrmWorkers \ {w} : crmWorker'[v] = crmWorker[v]
  BY <1>1, WorkerUpdated
<1>3. \A v \in CrmWorkers : \A r \in crmWorker[v].batch : r.msg \in Messages
  BY <1>1 DEF WorkerRecords, Receipts
<1>4. BusyWorkersKnow'
  BY <1>2 DEF DeliveryInv, BusyWorkersKnow, Busy
<1>5. \A v \in CrmWorkers : \A r \in crmWorker'[v].batch : place'[r.msg] # "unsent"
  BY <1>2, <1>3 DEF DeliveryInv, OnlyPublished
<1>6. \A o \in recorded' \cup late' : place'[o] # "unsent"
  BY DEF DeliveryInv, OnlyPublished, Messages
<1>7. QED
  BY <1>4, <1>5, <1>6 DEF OnlyPublished
-----------------------------------------------------------------------------
(* A step of a worker. *)

LEMMA DeleteMessageType ==
    ASSUME CrmTypeOK, NEW r \in Receipts, DeleteMessage(r)
    PROVE  /\ place' \in [Messages -> {"unsent", "queued", "deleted", "dead"}]
           /\ UNCHANGED <<receives, hidden>>
           /\ \A m \in Messages : place[m] # "unsent" => place'[m] # "unsent"
<1>1. r.msg \in Messages
  BY DEF Receipts
<1>2. QED
  BY <1>1 DEF DeleteMessage, CrmTypeOK

LEMMA PostInv ==
    ASSUME DeliveryInv, NEW w \in CrmWorkers, NEW r \in crmWorker[w].batch,
           PostAccepted(w, r) \/ PostRefused(w, r) \/ PostTimesOut(w, r)
    PROVE  DeliveryInv'
<1> USE DEF DeliveryInv
<1>1. crmWorker \in [CrmWorkers -> WorkerRecords]
  BY DEF CrmTypeOK, WorkerRecords
<1>2. r \in Receipts /\ r.msg \in Outcomes /\ place[r.msg] # "unsent"
  BY <1>1 DEF PostAccepted, PostRefused, PostTimesOut, OnlyPublished, WorkerRecords
<1>3. PICK pc \in {"delivered", "failed"} :
        /\ TakeUp(w, r, pc)
        /\ UNCHANGED <<queueVars, deliveryLog, endVars>>
        /\ recorded' \in {recorded, recorded \cup {r.msg}}
        /\ late' \in {late, late \cup {r.msg}}
        /\ pc = "delivered" => r.msg \in recorded'
  BY DEF PostAccepted, PostRefused, PostTimesOut, serverVars
<1> DEFINE new == [pc |-> pc, batch |-> crmWorker[w].batch \ {r}, current |-> r]
<1>4. new \in WorkerRecords /\ crmWorker' = [crmWorker EXCEPT ![w] = new]
  BY <1>1, <1>2, <1>3 DEF TakeUp, WorkerRecords
<1>5. CrmTypeOK'
  <2>1. crmWorker' \in [CrmWorkers -> WorkerRecords]
    BY <1>1, <1>4, WorkerUpdated
  <2>2. recorded' \in SUBSET Outcomes /\ late' \in SUBSET Outcomes
    BY <1>2, <1>3 DEF CrmTypeOK
  <2>3. QED
    BY <1>3, <2>1, <2>2 DEF CrmTypeOK, WorkerRecords, queueVars, endVars
<1>6. \A q \in new.batch : place[q.msg] # "unsent"
  BY DEF OnlyPublished
<1>7. UNCHANGED place
  BY <1>3 DEF queueVars
<1>8. recorded' \in SUBSET Outcomes /\ late' \in SUBSET Outcomes
  BY <1>5 DEF CrmTypeOK
<1>9. BusyWorkersKnow' /\ OnlyPublished'
  BY <1>2, <1>3, <1>4, <1>6, <1>7, <1>8, InvKept
<1>10. QED
  BY <1>5, <1>9

LEMMA ReceiveInv ==
    ASSUME DeliveryInv, NEW w \in CrmWorkers, Receive(w)
    PROVE  DeliveryInv'
<1> USE DEF DeliveryInv
<1>1. crmWorker \in [CrmWorkers -> WorkerRecords]
  BY DEF CrmTypeOK, WorkerRecords
<1>2. PICK S \in SUBSET Receivable :
        /\ receives' = [m \in Messages |-> IF m \in S THEN receives[m] + 1 ELSE receives[m]]
        /\ hidden' = hidden \cup S
        /\ crmWorker' = [crmWorker EXCEPT
                            ![w].batch = {[msg |-> m, no |-> receives[m] + 1] : m \in S}]
  BY DEF Receive
<1>3. \A m \in S : m \in Messages /\ receives[m] + 1 \in 1..MaxReceives /\ place[m] = "queued"
  BY CrmAssumption DEF Receivable, Visible, CrmTypeOK
<1> DEFINE got == {[msg |-> m, no |-> receives[m] + 1] : m \in S}
           new == [crmWorker[w] EXCEPT !.batch = got]
<1>4. got \in SUBSET Receipts /\ \A r \in got : place[r.msg] = "queued"
  BY <1>3 DEF Receipts
<1>5. new \in WorkerRecords /\ crmWorker' = [crmWorker EXCEPT ![w] = new]
  BY <1>1, <1>2, <1>4 DEF WorkerRecords
<1>6. UNCHANGED <<place, serverVars, deliveryLog, endVars>>
  BY DEF Receive
<1>7. CrmTypeOK'
  <2>1. crmWorker' \in [CrmWorkers -> WorkerRecords]
    BY <1>1, <1>5, WorkerUpdated
  <2>2. receives' \in [Messages -> 0..MaxReceives]
    BY <1>2, <1>3, CrmAssumption DEF CrmTypeOK
  <2>3. hidden' \in SUBSET Messages
    BY <1>2, <1>3 DEF CrmTypeOK
  <2>4. QED
    BY <1>6, <2>1, <2>2, <2>3 DEF CrmTypeOK, WorkerRecords, serverVars, endVars
<1>8. new.pc = "loop" /\ new.batch = got
  BY <1>1 DEF Receive, Polling, WorkerRecords
<1> HIDE DEF got, new
<1>9. recorded' = recorded /\ late' = late /\ recorded \in SUBSET Outcomes /\ late \in SUBSET Outcomes
  BY <1>6 DEF serverVars, CrmTypeOK
<1>10. BusyWorkersKnow' /\ OnlyPublished'
  BY <1>4, <1>5, <1>6, <1>8, <1>9, InvKept
<1>11. QED
  BY <1>7, <1>10

\* The log, the queue and the end of an iteration.
LEMMA AfterPostInv ==
    ASSUME DeliveryInv, NEW w \in CrmWorkers,
           \/ LogDelivered(w) \/ LogFailed(w) \/ Acknowledge(w) \/ BackOff(w)
           \/ \E r \in crmWorker[w].batch : DiscardMalformed(w, r)
    PROVE  DeliveryInv'
<1> USE DEF DeliveryInv
<1>1. crmWorker \in [CrmWorkers -> WorkerRecords]
  BY DEF CrmTypeOK, WorkerRecords
<1>2. \A r \in crmWorker[w].batch : r \in Receipts
  BY <1>1 DEF WorkerRecords
<1>3. Busy(w) => crmWorker[w].current \in Receipts
  BY DEF BusyWorkersKnow
<1>4. /\ place' \in [Messages -> {"unsent", "queued", "deleted", "dead"}]
      /\ UNCHANGED <<receives, hidden>>
      /\ \A m \in Messages : place[m] # "unsent" => place'[m] # "unsent"
  <2>1. CASE UNCHANGED queueVars
    BY <2>1 DEF queueVars, CrmTypeOK
  <2>2. CASE Acknowledge(w)
    BY <1>3, <2>2, DeleteMessageType DEF Acknowledge, Busy
  <2>3. CASE \E r \in crmWorker[w].batch : DiscardMalformed(w, r)
    BY <1>2, <2>3, DeleteMessageType DEF DiscardMalformed
  <2>4. QED
    BY <2>1, <2>2, <2>3 DEF LogDelivered, LogFailed, BackOff
<1>5. deliveryLog' \in [Receipts -> Seq({"delivered", "failed"})]
  <2>1. CASE UNCHANGED deliveryLog
    BY <2>1 DEF CrmTypeOK
  <2>2. CASE LogDelivered(w) \/ LogFailed(w)
    <3>1. crmWorker[w].current \in Receipts
      BY <1>3, <2>2 DEF LogDelivered, LogFailed, Advance, Busy
    <3>2. PICK s \in {"delivered", "failed"} : Log(crmWorker[w].current, s)
      BY <2>2 DEF LogDelivered, LogFailed
    <3>3. Append(deliveryLog[crmWorker[w].current], s) \in Seq({"delivered", "failed"})
      BY <3>1 DEF CrmTypeOK
    <3>4. QED
      BY <3>1, <3>2, <3>3 DEF Log, CrmTypeOK
  <2>3. QED
    BY <2>1, <2>2 DEF Acknowledge, BackOff, DiscardMalformed
<1>6. PICK new \in WorkerRecords :
        /\ crmWorker' = [crmWorker EXCEPT ![w] = new]
        /\ new.batch \subseteq crmWorker[w].batch
        /\ \/ new.pc = "loop"
           \/ /\ new.pc = "logged" => crmWorker[w].pc = "delivered"
              /\ new.pc \in {"logged", "backoff"}
              /\ new.current = crmWorker[w].current /\ Busy(w)
  <2>1. CASE LogDelivered(w)
    <3>1. [crmWorker[w] EXCEPT !.pc = "logged"] \in WorkerRecords
      BY <1>1 DEF WorkerRecords
    <3>2. QED
      BY <1>1, <2>1, <3>1 DEF LogDelivered, Advance, Busy, WorkerRecords
  <2>2. CASE LogFailed(w)
    <3>1. [crmWorker[w] EXCEPT !.pc = "backoff"] \in WorkerRecords
      BY <1>1 DEF WorkerRecords
    <3>2. QED
      BY <1>1, <2>2, <3>1 DEF LogFailed, Advance, Busy, WorkerRecords
  <2>3. CASE Acknowledge(w) \/ BackOff(w)
    <3>1. [crmWorker[w] EXCEPT !.pc = "loop", !.current = NoReceipt] \in WorkerRecords
      BY <1>1 DEF WorkerRecords
    <3>2. crmWorker' = [crmWorker EXCEPT
                            ![w] = [crmWorker[w] EXCEPT !.pc = "loop", !.current = NoReceipt]]
      BY <1>1, <2>3 DEF Acknowledge, BackOff, Proceed
    <3>3. QED
      BY <1>1, <3>1, <3>2 DEF WorkerRecords
  <2>4. CASE \E r \in crmWorker[w].batch : DiscardMalformed(w, r)
    <3>1. PICK r \in crmWorker[w].batch : DiscardMalformed(w, r)
      BY <2>4
    <3>2. [crmWorker[w] EXCEPT !.batch = @ \ {r}] \in WorkerRecords
      BY <1>1 DEF WorkerRecords
    <3>3. QED
      BY <1>1, <3>1, <3>2 DEF DiscardMalformed, WorkerRecords
  <2>5. QED
    BY <2>1, <2>2, <2>3, <2>4
<1>7. UNCHANGED <<recorded, late, crashes, stops>>
  BY DEF LogDelivered, LogFailed, Acknowledge, BackOff, DiscardMalformed, serverVars, endVars
<1>8. CrmTypeOK'
  <2>1. crmWorker' \in [CrmWorkers -> WorkerRecords]
    BY <1>1, <1>6, WorkerUpdated
  <2>2. QED
    BY <1>4, <1>5, <1>7, <2>1 DEF CrmTypeOK, WorkerRecords
<1>9. \A r \in new.batch : place'[r.msg] # "unsent"
  <2>1. \A r \in new.batch : place[r.msg] # "unsent" /\ r.msg \in Messages
    BY <1>2, <1>6 DEF OnlyPublished, Receipts
  <2>2. QED
    BY <1>4, <2>1
<1>10. /\ new.pc \notin {"loop", "stopped"} =>
            new.current \in Receipts /\ new.current.msg \in Outcomes
       /\ new.pc \in {"delivered", "logged"} => new.current.msg \in recorded'
  BY <1>6, <1>7 DEF BusyWorkersKnow
<1>11. BusyWorkersKnow' /\ OnlyPublished'
  <2>1. recorded' = recorded /\ late' = late /\ recorded' \in SUBSET Outcomes /\ late' \in SUBSET Outcomes
    BY <1>7, <1>8 DEF CrmTypeOK
  <2>2. QED
    BY <1>4, <1>6, <1>9, <1>10, <2>1, InvKept
<1>12. QED
  BY <1>8, <1>11

\* A process that ends or starts forgets what it held.
LEMMA StopInv ==
    ASSUME DeliveryInv, NEW w \in CrmWorkers, BackOffRaises(w) \/ Crash(w) \/ Restart(w)
    PROVE  DeliveryInv'
<1> USE DEF DeliveryInv
<1>1. crmWorker \in [CrmWorkers -> WorkerRecords]
  BY DEF CrmTypeOK, WorkerRecords
<1>2. PICK pc \in {"loop", "stopped"} : crmWorker' = [crmWorker EXCEPT ![w] = Resting(pc)]
  BY DEF BackOffRaises, Crash, Restart, Stop
<1>3. /\ Resting(pc) \in WorkerRecords
      /\ Resting(pc).pc \in {"loop", "stopped"} /\ Resting(pc).batch = {}
  BY <1>2 DEF Resting, WorkerRecords
<1>4. UNCHANGED <<place, receives, hidden, recorded, late, deliveryLog>>
  BY DEF BackOffRaises, Crash, Restart, queueVars, serverVars
<1>5. CrmTypeOK'
  <2>1. crmWorker' \in [CrmWorkers -> WorkerRecords]
    BY <1>1, <1>2, <1>3, WorkerUpdated
  <2>2. crashes' \in 0..MaxCrashes /\ stops' \in Nat
    BY CrmAssumption DEF BackOffRaises, Crash, Restart, Stop, endVars, CrmTypeOK
  <2>3. QED
    BY <1>4, <2>1, <2>2 DEF CrmTypeOK, WorkerRecords
<1>6. recorded' \in SUBSET Outcomes /\ late' \in SUBSET Outcomes
  BY <1>5 DEF CrmTypeOK
<1>7. BusyWorkersKnow' /\ OnlyPublished'
  BY <1>2, <1>3, <1>4, <1>6, InvKept
<1>8. QED
  BY <1>5, <1>7
-----------------------------------------------------------------------------
(* The other steps: the queue's and the CRM's. *)

LEMMA QueueInv ==
    ASSUME DeliveryInv,
           \/ \E o \in Outcomes : Publish(o) \/ HandleLate(o)
           \/ \E m \in Messages : Reappear(m) \/ Redrive(m)
    PROVE  DeliveryInv'
<1> USE DEF DeliveryInv
<1>1. CrmTypeOK'
  BY DEF Publish, HandleLate, Reappear, Redrive, CrmTypeOK, queueVars, serverVars, endVars,
      Messages
<1>2. UNCHANGED crmWorker /\ recorded \subseteq recorded'
  BY DEF Publish, HandleLate, Reappear, Redrive, serverVars
<1>3. BusyWorkersKnow'
  BY <1>2 DEF BusyWorkersKnow, Busy
<1>4. \A m \in Messages : place[m] # "unsent" => place'[m] # "unsent"
  BY DEF Publish, HandleLate, Reappear, Redrive, queueVars, CrmTypeOK, Messages
<1>5. recorded' \cup late' \subseteq recorded \cup late /\ recorded \cup late \subseteq Messages
  BY DEF Publish, HandleLate, Reappear, Redrive, serverVars, CrmTypeOK, Messages
<1>6. \A w \in CrmWorkers : \A r \in crmWorker[w].batch : r.msg \in Messages
  BY DEF CrmTypeOK, Receipts
<1>7. OnlyPublished'
  BY <1>2, <1>4, <1>5, <1>6 DEF OnlyPublished
<1>8. QED
  BY <1>1, <1>3, <1>7

LEMMA DeliveryInit == Init => DeliveryInv
<1> SUFFICES ASSUME Init PROVE DeliveryInv
  OBVIOUS
<1>1. CrmTypeOK
  BY CrmAssumption DEF Init, CrmTypeOK, Resting
<1>2. BusyWorkersKnow /\ OnlyPublished
  BY DEF Init, Resting, BusyWorkersKnow, Busy, OnlyPublished
<1>3. QED
  BY <1>1, <1>2 DEF DeliveryInv

LEMMA DeliveryStep == DeliveryInv /\ [Next]_vars => DeliveryInv'
<1> SUFFICES ASSUME DeliveryInv, [Next]_vars PROVE DeliveryInv'
  OBVIOUS
<1>1. CASE \/ \E o \in Outcomes : Publish(o) \/ HandleLate(o)
           \/ \E m \in Messages : Reappear(m) \/ Redrive(m)
  BY <1>1, QueueInv
<1>2. CASE \E w \in CrmWorkers : Step(w)
  BY <1>2, ReceiveInv, PostInv, AfterPostInv, StopInv DEF Step
<1>3. CASE \E w \in CrmWorkers : Crash(w) \/ Restart(w)
  BY <1>3, StopInv
<1>4. CASE UNCHANGED vars
  BY <1>4 DEF vars, queueVars, serverVars, endVars, DeliveryInv, CrmTypeOK, BusyWorkersKnow,
      Busy, OnlyPublished
<1>5. QED
  BY <1>1, <1>2, <1>3, <1>4 DEF Next

LEMMA DeliveryInvCorrect == Spec => []DeliveryInv
BY DeliveryInit, DeliveryStep, PTL DEF Spec

\* Every variable of the delivery keeps its type.
THEOREM CrmTypeCorrect == Spec => []CrmTypeOK
<1>1. DeliveryInv => CrmTypeOK
  BY DEF DeliveryInv
<1>2. QED
  BY <1>1, DeliveryInvCorrect, PTL
-----------------------------------------------------------------------------
(* Refinement. *)

\* Moving one message moves the fate of its outcome, if it is one's.
LEMMA FateMoves ==
    ASSUME CrmTypeOK, NEW m \in Messages, NEW q,
           place' = [place EXCEPT ![m] = q]
    PROVE  IF m \in Outcomes THEN OutcomeFate' = [OutcomeFate EXCEPT ![m] = Fate(q)]
                             ELSE OutcomeFate' = OutcomeFate
<1>1. \A o \in Outcomes : place'[o] = IF o = m THEN q ELSE place[o]
  BY DEF CrmTypeOK, Messages
<1>2. OutcomeFate' = [o \in Outcomes |-> IF o = m THEN Fate(q) ELSE OutcomeFate[o]]
  <2>1. \A o \in Outcomes : Fate(place'[o]) = IF o = m THEN Fate(q) ELSE Fate(place[o])
    BY <1>1
  <2>2. QED
    BY <2>1, Zenon DEF OutcomeFate
<1>3. QED
  BY <1>2, OutcomeFate = [o \in Outcomes |-> OutcomeFate[o]], Zenon DEF OutcomeFate

\* Deleting a message delivers its outcome, which the CRM has on record.
LEMMA DeletionDelivers ==
    ASSUME CrmTypeOK, NEW r \in Receipts, DeleteMessage(r), UNCHANGED recorded,
           r.msg \in Outcomes => r.msg \in recorded
    PROVE  \/ OutcomeFate' = OutcomeFate
           \/ r.msg \in Outcomes /\ Delivery!Deliver(r.msg)
<1>1. r.msg \in Messages
  BY DEF Receipts
<1>2. CASE UNCHANGED place
  BY <1>2 DEF OutcomeFate
<1>3. CASE place[r.msg] = "queued" /\ place' = [place EXCEPT ![r.msg] = "deleted"]
  <2>1. CASE r.msg \in Outcomes
    <3>1. OutcomeFate' = [OutcomeFate EXCEPT ![r.msg] = "delivered"]
      BY <1>1, <1>3, <2>1, FateMoves DEF Fate
    <3>2. OutcomeFate[r.msg] = "pending"
      BY <1>3, <2>1 DEF OutcomeFate, Fate
    <3>3. QED
      BY <2>1, <3>1, <3>2 DEF Delivery!Deliver
  <2>2. CASE r.msg \notin Outcomes
    BY <1>1, <1>3, <2>2, FateMoves
  <2>3. QED
    BY <2>1, <2>2
<1>4. QED
  BY <1>2, <1>3 DEF DeleteMessage

\* Putting on record what was published is a step of the abstract CRM.
LEMMA RecordingRecords ==
    ASSUME DeliveryInv, NEW o \in Outcomes, place[o] # "unsent", UNCHANGED place,
           recorded' = recorded \cup {o}
    PROVE  Delivery!Record(o)
<1>1. OutcomeFate[o] # "unpublished"
  BY DEF OutcomeFate, Fate, DeliveryInv, CrmTypeOK, Messages
<1>2. OutcomeFate' = OutcomeFate
  BY DEF OutcomeFate
<1>3. QED
  BY <1>1, <1>2 DEF Delivery!Record

\* Every step of the delivery is a step of OutcomeDelivery or changes nothing
\* it can see.
LEMMA DeliverySimulates ==
    DeliveryInv /\ [Next]_vars => [Delivery!Next]_<<OutcomeFate, recorded>>
<1> SUFFICES ASSUME DeliveryInv, [Next]_vars
             PROVE  [Delivery!Next]_<<OutcomeFate, recorded>>
  OBVIOUS
<1> USE DEF DeliveryInv
<1>1. ASSUME UNCHANGED <<place, recorded>> PROVE UNCHANGED <<OutcomeFate, recorded>>
  BY <1>1 DEF OutcomeFate
<1>2. ASSUME NEW o \in Outcomes, Publish(o) PROVE Delivery!Publish(o)
  <2>1. OutcomeFate' = [OutcomeFate EXCEPT ![o] = "pending"]
    BY <1>2, FateMoves DEF Publish, Fate, Messages
  <2>2. OutcomeFate[o] = "unpublished" /\ UNCHANGED recorded
    BY <1>2 DEF Publish, OutcomeFate, Fate, serverVars
  <2>3. QED
    BY <2>1, <2>2 DEF Delivery!Publish
<1>3. ASSUME NEW o \in Outcomes, HandleLate(o)
      PROVE  Delivery!Record(o) \/ UNCHANGED <<OutcomeFate, recorded>>
  BY <1>1, <1>3, RecordingRecords DEF HandleLate, OnlyPublished, queueVars
<1>4. ASSUME NEW m \in Messages, Redrive(m)
      PROVE  \/ m \in Outcomes /\ Delivery!GiveUp(m)
             \/ UNCHANGED <<OutcomeFate, recorded>>
  <2>1. place' = [place EXCEPT ![m] = "dead"] /\ place[m] = "queued" /\ UNCHANGED recorded
    BY <1>4 DEF Redrive, Visible, serverVars
  <2>2. CASE m \in Outcomes
    <3>1. OutcomeFate' = [OutcomeFate EXCEPT ![m] = "dead"]
      BY <2>1, <2>2, FateMoves DEF Fate
    <3>2. OutcomeFate[m] = "pending"
      BY <2>1, <2>2 DEF OutcomeFate, Fate
    <3>3. QED
      BY <2>1, <2>2, <3>1, <3>2 DEF Delivery!GiveUp
  <2>3. CASE m \notin Outcomes
    BY <2>1, <2>3, FateMoves
  <2>4. QED
    BY <2>2, <2>3
<1>5. ASSUME NEW w \in CrmWorkers, NEW r \in crmWorker[w].batch, PostAccepted(w, r)
      PROVE  Delivery!Record(r.msg) /\ r.msg \in Outcomes
  BY <1>5, RecordingRecords DEF PostAccepted, OnlyPublished, queueVars
<1>6. ASSUME NEW w \in CrmWorkers, NEW r \in crmWorker[w].batch, DiscardMalformed(w, r)
      PROVE  UNCHANGED <<OutcomeFate, recorded>>
  <2>1. r \in Receipts /\ r.msg \notin Outcomes
    BY <1>6, CrmAssumption DEF DiscardMalformed, CrmTypeOK
  <2>2. QED
    BY <1>6, <2>1, DeletionDelivers DEF DiscardMalformed, serverVars
<1>7. ASSUME NEW w \in CrmWorkers, Acknowledge(w)
      PROVE  \/ \E o \in Outcomes : Delivery!Deliver(o)
             \/ UNCHANGED <<OutcomeFate, recorded>>
  <2>1. crmWorker[w].current \in Receipts /\ crmWorker[w].current.msg \in recorded
    BY <1>7 DEF Acknowledge, BusyWorkersKnow, Busy
  <2>2. QED
    BY <1>7, <2>1, DeletionDelivers DEF Acknowledge, serverVars
<1>8. ASSUME NEW w \in CrmWorkers, Step(w)
      PROVE  [Delivery!Next]_<<OutcomeFate, recorded>>
  <2>1. CASE UNCHANGED <<place, recorded>>
    BY <1>1, <2>1
  <2>2. CASE \E r \in crmWorker[w].batch : PostAccepted(w, r) \/ DiscardMalformed(w, r)
    BY <1>5, <1>6, <2>2 DEF Delivery!Next
  <2>3. CASE Acknowledge(w)
    BY <1>7, <2>3 DEF Delivery!Next
  <2>4. QED
    BY <1>8, <2>1, <2>2, <2>3 DEF Step, Receive, PostRefused, PostTimesOut, LogDelivered,
        LogFailed, BackOff, BackOffRaises, queueVars, serverVars
<1>9. CASE \E w \in CrmWorkers : Step(w) \/ Crash(w) \/ Restart(w)
  BY <1>1, <1>8, <1>9 DEF Crash, Restart, queueVars, serverVars
<1>10. CASE \E o \in Outcomes : Publish(o) \/ HandleLate(o)
  BY <1>2, <1>3, <1>10 DEF Delivery!Next
<1>11. CASE \E m \in Messages : Reappear(m) \/ Redrive(m)
  BY <1>1, <1>4, <1>11 DEF Delivery!Next, Reappear, serverVars
<1>12. CASE UNCHANGED vars
  BY <1>1, <1>12 DEF vars, queueVars, serverVars
<1>13. QED
  BY <1>9, <1>10, <1>11, <1>12 DEF Next

\* The queue, the workers and the CRM together implement OutcomeDelivery: an
\* outcome is deleted only after the CRM recorded it, its fate is settled once,
\* and the CRM records only what was published.
THEOREM DeliveryImplementsPromise == Spec => DeliversAsPromised
<1>1. Init => Delivery!Init
  BY CrmAssumption DEF Init, Delivery!Init, OutcomeFate, Fate, Messages
<1>2. QED
  BY <1>1, DeliverySimulates, DeliveryInvCorrect, PTL DEF Spec, DeliversAsPromised, Delivery!Spec
-----------------------------------------------------------------------------
(* The log of delivery attempts is truthful, and as long as no process has  *)
(* ended no receive is wasted.                                              *)

\* The receipts worker w is still going to use, given its record.
HeldIn(rec) ==
    rec.batch \cup (IF rec.pc \notin {"loop", "stopped"} THEN {rec.current} ELSE {})

Held(w) == HeldIn(crmWorker[w])

\* A receive is held by one worker, once; it is one that has taken place.
HeldOnce ==
    /\ \A w \in CrmWorkers : \A r \in Held(w) : r.no <= receives[r.msg]
    /\ \A w \in CrmWorkers : Busy(w) => crmWorker[w].current \notin crmWorker[w].batch
    /\ \A w, v \in CrmWorkers : w # v => Held(w) \cap Held(v) = {}

\* How far worker w is with a receipt shows in the log.
LoggedSoFar(w) ==
    /\ \A r \in crmWorker[w].batch : deliveryLog[r] = <<>>
    /\ crmWorker[w].pc \in {"delivered", "failed"} =>
           deliveryLog[crmWorker[w].current] = <<>>
    /\ crmWorker[w].pc = "logged" =>
           deliveryLog[crmWorker[w].current] = <<"delivered">>

LogInv ==
    /\ HeldOnce
    /\ \A w \in CrmWorkers : LoggedSoFar(w)
    /\ \A r \in Receipts : r.no > receives[r.msg] => deliveryLog[r] = <<>>
    /\ LogIsTruthful
-----------------------------------------------------------------------------
\* Types in the form the steps below use.
LEMMA LogTypes ==
    ASSUME DeliveryInv
    PROVE  /\ crmWorker \in [CrmWorkers -> WorkerRecords]
           /\ receives \in [Messages -> 0..MaxReceives]
           /\ deliveryLog \in [Receipts -> Seq({"delivered", "failed"})]
           /\ \A w \in CrmWorkers : crmWorker[w].batch \subseteq Receipts
           /\ \A w \in CrmWorkers : Held(w) \subseteq Receipts
<1>1. \A w \in CrmWorkers : crmWorker[w].batch \subseteq Receipts
  BY DEF DeliveryInv, CrmTypeOK
<1>2. \A w \in CrmWorkers : Busy(w) => crmWorker[w].current \in Receipts
  BY DEF DeliveryInv, BusyWorkersKnow
<1>3. \A w \in CrmWorkers : Held(w) \subseteq Receipts
  BY <1>1, <1>2 DEF Held, HeldIn, Busy
<1>4. QED
  BY <1>1, <1>3 DEF DeliveryInv, CrmTypeOK, WorkerRecords

\* A worker that takes nothing new leaves HeldOnce true.
LEMMA HeldOnceKept ==
    ASSUME DeliveryInv, HeldOnce, NEW w \in CrmWorkers, NEW new \in WorkerRecords,
           crmWorker' = [crmWorker EXCEPT ![w] = new], UNCHANGED receives,
           HeldIn(new) \subseteq Held(w),
           new.pc \notin {"loop", "stopped"} => new.current \notin new.batch
    PROVE  HeldOnce'
<1>1. /\ crmWorker'[w] = new
      /\ \A v \in CrmWorkers \ {w} : crmWorker'[v] = crmWorker[v]
  BY LogTypes, WorkerUpdated
<1>2. \A v \in CrmWorkers : Held(v)' \subseteq Held(v)
  BY <1>1 DEF Held, HeldIn
<1>3. \A v \in CrmWorkers : \A r \in Held(v)' : r.no <= receives'[r.msg]
  BY <1>2 DEF HeldOnce
<1>4. \A v \in CrmWorkers : Busy(v)' => crmWorker'[v].current \notin crmWorker'[v].batch
  BY <1>1 DEF HeldOnce, Busy
<1>5. \A u, v \in CrmWorkers : u # v => Held(u)' \cap Held(v)' = {}
  BY <1>2 DEF HeldOnce
<1>6. QED
  BY <1>3, <1>4, <1>5 DEF HeldOnce

\* A worker's step that does not touch the log.
LEMMA LogUntouched ==
    ASSUME DeliveryInv, LogInv, NEW w \in CrmWorkers, NEW new \in WorkerRecords,
           crmWorker' = [crmWorker EXCEPT ![w] = new],
           UNCHANGED <<receives, deliveryLog>>,
           HeldIn(new) \subseteq Held(w), new.batch \subseteq crmWorker[w].batch,
           new.pc \notin {"loop", "stopped"} => new.current \notin new.batch,
           new.pc \in {"delivered", "failed"} => deliveryLog[new.current] = <<>>,
           new.pc # "logged",
           recorded \subseteq recorded',
           \A o \in Outcomes : place'[o] = "deleted" =>
               \/ place[o] = "deleted"
               \/ \E n \in 1..MaxReceives : deliveryLog[[msg |-> o, no |-> n]] = <<"delivered">>
    PROVE  LogInv'
<1>1. /\ crmWorker'[w] = new
      /\ \A v \in CrmWorkers \ {w} : crmWorker'[v] = crmWorker[v]
  BY LogTypes, WorkerUpdated
<1>2. HeldOnce'
  BY HeldOnceKept DEF LogInv
<1>3. ASSUME NEW v \in CrmWorkers PROVE LoggedSoFar(v)'
  <2>1. CASE v = w
    BY <1>1, <2>1 DEF LogInv, LoggedSoFar
  <2>2. CASE v # w
    <3>1. LoggedSoFar(v) /\ crmWorker'[v] = crmWorker[v]
      BY <1>1, <2>2 DEF LogInv
    <3>2. QED
      BY <3>1 DEF LoggedSoFar
  <2>3. QED
    BY <2>1, <2>2
<1>4. \A r \in Receipts : r.no > receives'[r.msg] => deliveryLog'[r] = <<>>
  BY DEF LogInv
<1>5. LogIsTruthful'
  BY DEF LogInv, LogIsTruthful
<1>6. QED
  BY <1>2, <1>3, <1>4, <1>5 DEF LogInv

LEMMA PostLogInv ==
    ASSUME DeliveryInv, LogInv, NEW w \in CrmWorkers, NEW r \in crmWorker[w].batch,
           PostAccepted(w, r) \/ PostRefused(w, r) \/ PostTimesOut(w, r)
    PROVE  LogInv'
<1>1. PICK pc \in {"delivered", "failed"} :
        /\ TakeUp(w, r, pc)
        /\ UNCHANGED <<queueVars, deliveryLog>>
        /\ recorded \subseteq recorded'
  BY DEF PostAccepted, PostRefused, PostTimesOut, serverVars
<1> DEFINE new == [pc |-> pc, batch |-> crmWorker[w].batch \ {r}, current |-> r]
<1>2. new \in WorkerRecords /\ crmWorker' = [crmWorker EXCEPT ![w] = new]
  BY <1>1, LogTypes DEF TakeUp, WorkerRecords
<1>3. HeldIn(new) \subseteq Held(w) /\ new.batch \subseteq crmWorker[w].batch
  BY DEF HeldIn, Held
<1>4. deliveryLog[r] = <<>>
  BY DEF LogInv, LoggedSoFar
<1>5. UNCHANGED <<place, receives, deliveryLog>>
  BY <1>1 DEF queueVars
<1>6. /\ new.pc \notin {"loop", "stopped"} => new.current \notin new.batch
      /\ new.pc \in {"delivered", "failed"} => deliveryLog[new.current] = <<>>
      /\ new.pc # "logged"
  BY <1>4
<1> HIDE DEF new
<1>7. QED
  BY <1>1, <1>2, <1>3, <1>5, <1>6, LogUntouched

\* The steps after which the worker has nothing in hand.
LEMMA ReleaseLogInv ==
    ASSUME DeliveryInv, LogInv, NEW w \in CrmWorkers,
           \/ Acknowledge(w) \/ BackOff(w) \/ BackOffRaises(w) \/ Crash(w) \/ Restart(w)
           \/ \E r \in crmWorker[w].batch : DiscardMalformed(w, r)
    PROVE  LogInv'
<1>1. PICK new \in WorkerRecords :
        /\ crmWorker' = [crmWorker EXCEPT ![w] = new]
        /\ new.pc \in {"loop", "stopped"}
        /\ new.batch \subseteq crmWorker[w].batch
  <2>1. CASE Acknowledge(w) \/ BackOff(w)
    <3>1. [crmWorker[w] EXCEPT !.pc = "loop", !.current = NoReceipt] \in WorkerRecords
      BY LogTypes DEF WorkerRecords
    <3>2. crmWorker' = [crmWorker EXCEPT
                            ![w] = [crmWorker[w] EXCEPT !.pc = "loop", !.current = NoReceipt]]
      BY <2>1, LogTypes DEF Acknowledge, BackOff, Proceed
    <3>3. QED
      BY <3>1, <3>2, LogTypes DEF WorkerRecords
  <2>2. CASE \E r \in crmWorker[w].batch : DiscardMalformed(w, r)
    <3>1. PICK r \in crmWorker[w].batch : DiscardMalformed(w, r)
      BY <2>2
    <3>2. [crmWorker[w] EXCEPT !.batch = @ \ {r}] \in WorkerRecords
      BY LogTypes DEF WorkerRecords
    <3>3. QED
      BY <3>1, <3>2, LogTypes DEF DiscardMalformed, WorkerRecords
  <2>3. CASE BackOffRaises(w) \/ Crash(w) \/ Restart(w)
    <3>1. PICK pc \in {"loop", "stopped"} : crmWorker' = [crmWorker EXCEPT ![w] = Resting(pc)]
      BY <2>3 DEF BackOffRaises, Crash, Restart, Stop
    <3>2. Resting(pc) \in WorkerRecords /\ Resting(pc).pc = pc /\ Resting(pc).batch = {}
      BY <3>1 DEF Resting, WorkerRecords
    <3>3. QED
      BY <3>1, <3>2
  <2>4. QED
    BY <2>1, <2>2, <2>3
<1>2. HeldIn(new) \subseteq Held(w)
  BY <1>1 DEF HeldIn, Held
<1>3. UNCHANGED <<receives, deliveryLog>> /\ recorded \subseteq recorded'
  BY DEF Acknowledge, BackOff, BackOffRaises, Crash, Restart, DiscardMalformed, DeleteMessage,
      queueVars, serverVars
<1>4. ASSUME NEW o \in Outcomes, place'[o] = "deleted", place[o] # "deleted"
      PROVE  \E n \in 1..MaxReceives : deliveryLog[[msg |-> o, no |-> n]] = <<"delivered">>
  <2>1. PICK r \in Receipts : /\ DeleteMessage(r)
                              /\ \/ Acknowledge(w) /\ r = crmWorker[w].current
                                 \/ r.msg \in Malformed
    BY <1>4, LogTypes DEF Acknowledge, BackOff, BackOffRaises, Crash, Restart,
        DiscardMalformed, queueVars, Held, HeldIn
  <2>2. place \in [Messages -> {"unsent", "queued", "deleted", "dead"}] /\ r.msg \in Messages
    BY DEF DeliveryInv, CrmTypeOK, Receipts
  <2>3. r.msg = o
    BY <1>4, <2>1, <2>2 DEF DeleteMessage, Messages
  <2>4. r.msg \notin Malformed
    BY <2>3, CrmAssumption
  <2>5. deliveryLog[r] = <<"delivered">>
    BY <2>1, <2>4 DEF Acknowledge, LogInv, LoggedSoFar
  <2>6. r = [msg |-> o, no |-> r.no] /\ r.no \in 1..MaxReceives
    BY <2>3 DEF Receipts
  <2>7. QED
    BY <2>5, <2>6
<1>5. QED
  BY <1>1, <1>2, <1>3, <1>4, LogUntouched

\* Logging an attempt makes the one row of a receipt that had none.
LEMMA LogLogInv ==
    ASSUME DeliveryInv, LogInv, NEW w \in CrmWorkers, LogDelivered(w) \/ LogFailed(w)
    PROVE  LogInv'
<1> DEFINE r == crmWorker[w].current
<1>1. PICK s \in {"delivered", "failed"}, pc \in {"logged", "backoff"} :
        /\ crmWorker[w].pc \in {"delivered", "failed"}
        /\ crmWorker' = [crmWorker EXCEPT ![w].pc = pc]
        /\ Log(r, s)
        /\ s = "delivered" => pc = "logged" /\ crmWorker[w].pc = "delivered"
        /\ pc = "logged" => s = "delivered"
  BY DEF LogDelivered, LogFailed, Advance
<1>2. r \in Receipts /\ r \in Held(w) /\ r \notin crmWorker[w].batch
  BY <1>1, LogTypes DEF Held, HeldIn, LogInv, HeldOnce, Busy
<1>3. deliveryLog[r] = <<>>
  BY <1>1 DEF LogInv, LoggedSoFar
<1>4. /\ deliveryLog'[r] = <<s>>
      /\ \A q \in Receipts \ {r} : deliveryLog'[q] = deliveryLog[q]
  BY <1>1, <1>2, <1>3, LogTypes DEF Log
<1> DEFINE new == [crmWorker[w] EXCEPT !.pc = pc]
<1>5. /\ new \in WorkerRecords /\ crmWorker' = [crmWorker EXCEPT ![w] = new]
      /\ new.pc = pc /\ new.batch = crmWorker[w].batch /\ new.current = r
  BY <1>1, LogTypes DEF WorkerRecords
<1>6. UNCHANGED <<place, receives, recorded>>
  BY DEF LogDelivered, LogFailed, queueVars, serverVars
<1> HIDE DEF new
<1>7. HeldOnce'
  <2>1. HeldIn(new) \subseteq Held(w)
    BY <1>1, <1>5 DEF HeldIn, Held
  <2>2. QED
    BY <1>2, <1>5, <1>6, <2>1, HeldOnceKept DEF LogInv
<1>8. ASSUME NEW v \in CrmWorkers PROVE LoggedSoFar(v)'
  <2>1. CASE v = w
    <3>1. crmWorker'[v] = new
      BY <1>5, <2>1, LogTypes, WorkerUpdated
    <3>2. \A q \in crmWorker[w].batch : q \in Receipts \ {r} /\ deliveryLog[q] = <<>>
      BY <1>2, LogTypes DEF LogInv, LoggedSoFar
    <3>3. \A q \in new.batch : deliveryLog'[q] = <<>>
      BY <1>4, <1>5, <3>2
    <3>4. pc = "logged" => deliveryLog'[r] = <<"delivered">>
      BY <1>1, <1>4
    <3>5. QED
      BY <1>5, <3>1, <3>3, <3>4 DEF LoggedSoFar
  <2>2. CASE v # w
    <3>1. crmWorker'[v] = crmWorker[v]
      BY <1>5, <2>2, LogTypes, WorkerUpdated
    <3>2. r \notin Held(v)
      BY <1>2, <2>2 DEF LogInv, HeldOnce
    <3>3. \A q \in Held(v) : deliveryLog'[q] = deliveryLog[q]
      BY <1>4, <3>2, LogTypes
    <3>4. LoggedSoFar(v)
      BY DEF LogInv
    <3>5. QED
      BY <3>1, <3>3, <3>4 DEF LoggedSoFar, Held, HeldIn
  <2>3. QED
    BY <2>1, <2>2
<1>9. \A q \in Receipts : q.no > receives'[q.msg] => deliveryLog'[q] = <<>>
  <2>1. r.no \in Nat /\ receives[r.msg] \in Nat /\ r.no <= receives[r.msg]
    BY <1>2, LogTypes, CrmAssumption DEF LogInv, HeldOnce, Receipts
  <2>2. ~(r.no > receives[r.msg])
    BY <2>1
  <2>3. QED
    BY <1>4, <1>6, <2>2 DEF LogInv
<1>10. LogIsTruthful'
  <2>1. ASSUME NEW o \in Outcomes, place'[o] = "deleted"
        PROVE  \E n \in 1..MaxReceives : deliveryLog'[[msg |-> o, no |-> n]] = <<"delivered">>
    <3>1. PICK n \in 1..MaxReceives : deliveryLog[[msg |-> o, no |-> n]] = <<"delivered">>
      BY <1>6, <2>1 DEF LogInv, LogIsTruthful
    <3>2. [msg |-> o, no |-> n] \in Receipts
      BY DEF Receipts, Messages
    <3>3. [msg |-> o, no |-> n] # r
      <4>1. <<>> # <<"delivered">>
        OBVIOUS
      <4>2. QED
        BY <1>3, <3>1, <4>1
    <3>4. QED
      BY <1>4, <3>1, <3>2, <3>3
  <2>2. ASSUME NEW q \in Receipts
        PROVE  Len(deliveryLog'[q]) <= 1 /\ (deliveryLog'[q] = <<"delivered">> => q.msg \in recorded')
    <3>1. CASE q = r
      <4>1. s = "delivered" => r.msg \in recorded
        BY <1>1 DEF DeliveryInv, BusyWorkersKnow
      <4>2. Len(<<s>>) = 1 /\ (<<s>> = <<"delivered">> => s = "delivered")
        OBVIOUS
      <4>3. deliveryLog'[q] = <<s>> /\ q.msg = r.msg
        BY <1>4, <3>1
      <4>4. Len(deliveryLog'[q]) <= 1
        BY <4>2, <4>3
      <4>5. QED
        BY <1>6, <4>1, <4>2, <4>3, <4>4
    <3>2. CASE q # r
      BY <1>4, <1>6, <3>2 DEF LogInv, LogIsTruthful
    <3>3. QED
      BY <3>1, <3>2
  <2>3. QED
    BY <2>1, <2>2 DEF LogIsTruthful
<1>11. QED
  BY <1>7, <1>8, <1>9, <1>10 DEF LogInv

\* A receive makes receipts nobody has seen.
LEMMA ReceiveLogInv ==
    ASSUME DeliveryInv, LogInv, NEW w \in CrmWorkers, Receive(w)
    PROVE  LogInv'
<1>1. PICK S \in SUBSET Receivable :
        /\ receives' = [m \in Messages |-> IF m \in S THEN receives[m] + 1 ELSE receives[m]]
        /\ crmWorker' = [crmWorker EXCEPT
                            ![w].batch = {[msg |-> m, no |-> receives[m] + 1] : m \in S}]
  BY DEF Receive
<1> DEFINE got == {[msg |-> m, no |-> receives[m] + 1] : m \in S}
           new == [crmWorker[w] EXCEPT !.batch = got]
<1>2. /\ crmWorker' = [crmWorker EXCEPT ![w] = new]
      /\ crmWorker'[w] = new
      /\ \A v \in CrmWorkers \ {w} : crmWorker'[v] = crmWorker[v]
  BY <1>1, LogTypes DEF WorkerRecords
<1>3. new.pc = "loop" /\ new.batch = got
  BY LogTypes DEF Receive, Polling, WorkerRecords
<1>4. \A m \in Messages : receives[m] \in Nat /\ receives'[m] \in Nat /\ receives[m] <= receives'[m]
  BY <1>1, LogTypes, CrmAssumption
<1>5. \A r \in got : /\ r \in Receipts
                     /\ r.no = receives[r.msg] + 1 /\ r.no = receives'[r.msg]
  <2>1. \A m \in S : m \in Messages /\ receives[m] + 1 \in 1..MaxReceives
    BY LogTypes, CrmAssumption DEF Receivable, Visible
  <2>2. QED
    BY <1>1, <2>1 DEF Receipts
<1> HIDE DEF got, new
<1>6. UNCHANGED <<place, recorded, deliveryLog>>
  BY DEF Receive, serverVars
<1>7. Held(w)' = got
  BY <1>2, <1>3 DEF Held, HeldIn
<1>8. \A v \in CrmWorkers \ {w} : Held(v)' = Held(v)
  BY <1>2 DEF Held
<1>9. \A v \in CrmWorkers : \A r \in Held(v) : r \in Receipts /\ r.msg \in Messages /\ r.no \in Nat
  BY LogTypes DEF Receipts
<1>10. HeldOnce'
  <2>1. \A v \in CrmWorkers : \A r \in Held(v)' : r.no <= receives'[r.msg]
    <3>1. \A r \in Held(w)' : r.no <= receives'[r.msg]
      <4>1. \A r \in got : r.no \in Nat
        BY <1>5 DEF Receipts
      <4>2. QED
        BY <1>5, <1>7, <4>1
    <3>2. \A v \in CrmWorkers \ {w} : \A r \in Held(v) : r.no <= receives'[r.msg]
      <4>1. SUFFICES ASSUME NEW v \in CrmWorkers \ {w}, NEW r \in Held(v)
                     PROVE  r.no <= receives'[r.msg]
        OBVIOUS
      <4>2. r.no \in Nat /\ r.msg \in Messages /\ r.no <= receives[r.msg]
        BY <1>9 DEF LogInv, HeldOnce
      <4>3. QED
        BY <1>4, <4>2
    <3>3. QED
      BY <1>8, <3>1, <3>2
  <2>2. \A v \in CrmWorkers : Busy(v)' => crmWorker'[v].current \notin crmWorker'[v].batch
    BY <1>2, <1>3 DEF LogInv, HeldOnce, Busy
  <2>3. \A v \in CrmWorkers \ {w} : got \cap Held(v) = {}
    <3>1. \A v \in CrmWorkers : \A r \in Held(v) : r.no <= receives[r.msg]
      BY DEF LogInv, HeldOnce
    <3>2. \A r \in got : r.msg \in Messages /\ ~(r.no <= receives[r.msg])
      BY <1>4, <1>5 DEF Receipts
    <3>3. QED
      BY <3>1, <3>2
  <2>4. \A u, v \in CrmWorkers : u # v => Held(u)' \cap Held(v)' = {}
    BY <1>7, <1>8, <2>3 DEF LogInv, HeldOnce
  <2>5. QED
    BY <2>1, <2>2, <2>4 DEF HeldOnce
<1>11. \A r \in got : deliveryLog[r] = <<>>
  <2>1. \A r \in got : r.msg \in Messages /\ r.no > receives[r.msg]
    BY <1>4, <1>5 DEF Receipts
  <2>2. QED
    BY <1>5, <2>1 DEF LogInv
<1>12. ASSUME NEW v \in CrmWorkers PROVE LoggedSoFar(v)'
  <2>1. CASE v = w
    BY <1>2, <1>3, <1>6, <1>11, <2>1 DEF LoggedSoFar
  <2>2. CASE v # w
    BY <1>2, <1>6, <2>2 DEF LogInv, LoggedSoFar
  <2>3. QED
    BY <2>1, <2>2
<1>13. \A r \in Receipts : r.no > receives'[r.msg] => deliveryLog'[r] = <<>>
  <2>1. \A r \in Receipts : r.no \in Nat /\ r.msg \in Messages
    BY DEF Receipts
  <2>2. \A r \in Receipts : r.no > receives'[r.msg] => r.no > receives[r.msg]
    BY <1>4, <2>1
  <2>3. QED
    BY <1>6, <2>2 DEF LogInv
<1>14. LogIsTruthful'
  BY <1>6 DEF LogInv, LogIsTruthful
<1>15. QED
  BY <1>10, <1>12, <1>13, <1>14 DEF LogInv
-----------------------------------------------------------------------------
LEMMA LogInit == Init => LogInv
<1> SUFFICES ASSUME Init PROVE LogInv
  OBVIOUS
<1>1. \A w \in CrmWorkers : Held(w) = {} /\ crmWorker[w].pc = "loop" /\ crmWorker[w].batch = {}
  BY DEF Init, Resting, Held, HeldIn
<1>2. HeldOnce /\ \A w \in CrmWorkers : LoggedSoFar(w)
  BY <1>1 DEF HeldOnce, LoggedSoFar, Busy
<1>3. \A r \in Receipts : deliveryLog[r] = <<>>
  BY DEF Init
<1>4. \A o \in Outcomes : place[o] # "deleted"
  BY DEF Init, Messages
<1>5. Len(<<>>) = 0 /\ <<>> # <<"delivered">>
  OBVIOUS
<1>6. LogIsTruthful
  BY <1>3, <1>4, <1>5 DEF LogIsTruthful
<1>7. QED
  BY <1>2, <1>3, <1>6 DEF LogInv

LEMMA LogStep == DeliveryInv /\ LogInv /\ [Next]_vars => LogInv'
<1> SUFFICES ASSUME DeliveryInv, LogInv, [Next]_vars PROVE LogInv'
  OBVIOUS
<1>1. ASSUME UNCHANGED <<receives, deliveryLog, crmWorker>>, recorded \subseteq recorded',
             \A o \in Outcomes : place'[o] = "deleted" => place[o] = "deleted"
      PROVE  LogInv'
  BY <1>1 DEF LogInv, HeldOnce, Held, Busy, LoggedSoFar, LogIsTruthful
<1>2. CASE \/ \E o \in Outcomes : Publish(o) \/ HandleLate(o)
           \/ \E m \in Messages : Reappear(m) \/ Redrive(m)
  <2>1. UNCHANGED <<receives, deliveryLog, crmWorker>> /\ recorded \subseteq recorded'
    BY <1>2 DEF Publish, HandleLate, Reappear, Redrive, queueVars, serverVars
  <2>2. \A o \in Outcomes : place'[o] = "deleted" => place[o] = "deleted"
    BY <1>2 DEF Publish, HandleLate, Reappear, Redrive, queueVars, DeliveryInv, CrmTypeOK,
        Messages
  <2>3. QED
    BY <1>1, <2>1, <2>2
<1>3. CASE \E w \in CrmWorkers : Step(w)
  BY <1>3, ReceiveLogInv, PostLogInv, ReleaseLogInv, LogLogInv DEF Step
<1>4. CASE \E w \in CrmWorkers : Crash(w) \/ Restart(w)
  BY <1>4, ReleaseLogInv
<1>5. CASE UNCHANGED vars
  BY <1>1, <1>5 DEF vars, queueVars, serverVars
<1>6. QED
  BY <1>2, <1>3, <1>4, <1>5 DEF Next

\* The rows of crm_delivery_attempts are true: one row per attempt, delivered
\* only if the CRM has the outcome, and present for every deleted outcome.
THEOREM LogStaysTruthful == Spec => []LogIsTruthful
<1>1. LogInv => LogIsTruthful
  BY DEF LogInv
<1>2. QED
  BY <1>1, LogInit, LogStep, DeliveryInvCorrect, PTL DEF Spec
-----------------------------------------------------------------------------
(* While no process has ended, no receive is wasted. *)

\* Worker w, given its record, is still going to post or to log receipt r.
UnloggedIn(rec, r) ==
    \/ r \in rec.batch
    \/ rec.pc \in {"delivered", "failed"} /\ rec.current = r

Attempted(r) == deliveryLog[r] # <<>> \/ \E w \in CrmWorkers : UnloggedIn(crmWorker[w], r)

AttemptInv ==
    stops = 0 =>
        /\ \A w \in CrmWorkers : crmWorker[w].pc # "stopped"
        /\ \A r \in Receipts : r.msg \in Outcomes /\ r.no <= receives[r.msg] => Attempted(r)

\* A worker's step that receives nothing and drops no outcome's receipt.
LEMMA AttemptsKept ==
    ASSUME DeliveryInv, AttemptInv, NEW w \in CrmWorkers, NEW new \in WorkerRecords,
           crmWorker' = [crmWorker EXCEPT ![w] = new], new.pc # "stopped",
           UNCHANGED <<receives, stops>>,
           \A r \in Receipts : deliveryLog[r] # <<>> => deliveryLog'[r] # <<>>,
           \A r \in Receipts : r.msg \in Outcomes /\ UnloggedIn(crmWorker[w], r) =>
               UnloggedIn(new, r) \/ deliveryLog'[r] # <<>>
    PROVE  AttemptInv'
<1>1. /\ crmWorker'[w] = new
      /\ \A v \in CrmWorkers \ {w} : crmWorker'[v] = crmWorker[v]
  BY LogTypes, WorkerUpdated
<1>2. ASSUME NEW r \in Receipts, r.msg \in Outcomes, Attempted(r)
      PROVE  Attempted(r)'
  <2>1. CASE deliveryLog[r] # <<>>
    BY <2>1 DEF Attempted
  <2>2. ASSUME NEW v \in CrmWorkers, UnloggedIn(crmWorker[v], r)
        PROVE  Attempted(r)'
    <3>1. CASE v = w
      BY <1>1, <1>2, <2>2, <3>1 DEF Attempted
    <3>2. CASE v # w
      BY <1>1, <2>2, <3>2 DEF Attempted
    <3>3. QED
      BY <3>1, <3>2
  <2>3. QED
    BY <1>2, <2>1, <2>2 DEF Attempted
<1>3. QED
  BY <1>1, <1>2 DEF AttemptInv

LEMMA WorkerAttempts ==
    ASSUME DeliveryInv, AttemptInv, NEW w \in CrmWorkers,
           \/ LogDelivered(w) \/ LogFailed(w) \/ Acknowledge(w) \/ BackOff(w)
           \/ \E r \in crmWorker[w].batch : \/ DiscardMalformed(w, r)
                                            \/ PostAccepted(w, r)
                                            \/ PostRefused(w, r)
                                            \/ PostTimesOut(w, r)
    PROVE  AttemptInv'
<1>1. UNCHANGED <<receives, stops>>
  BY DEF LogDelivered, LogFailed, Acknowledge, BackOff, DiscardMalformed, DeleteMessage,
      PostAccepted, PostRefused, PostTimesOut, queueVars, endVars
<1>2. CASE LogDelivered(w) \/ LogFailed(w)
  <2>1. PICK s \in {"delivered", "failed"}, pc \in {"logged", "backoff"} :
          /\ crmWorker[w].pc \in {"delivered", "failed"}
          /\ crmWorker' = [crmWorker EXCEPT ![w].pc = pc]
          /\ Log(crmWorker[w].current, s)
    BY <1>2 DEF LogDelivered, LogFailed, Advance
  <2> DEFINE new == [crmWorker[w] EXCEPT !.pc = pc]
  <2>2. /\ new \in WorkerRecords /\ crmWorker' = [crmWorker EXCEPT ![w] = new]
        /\ new.pc = pc /\ new.batch = crmWorker[w].batch
    BY <2>1, LogTypes DEF WorkerRecords
  <2>3. crmWorker[w].current \in Receipts
    BY <2>1 DEF DeliveryInv, BusyWorkersKnow, Busy
  <2>4. \A q \in Seq({"delivered", "failed"}) : Append(q, s) # <<>>
    <3>1. SUFFICES ASSUME NEW q \in Seq({"delivered", "failed"}) PROVE Append(q, s) # <<>>
      OBVIOUS
    <3>2. Len(q) \in Nat /\ Len(Append(q, s)) = Len(q) + 1 /\ Len(<<>>) = 0
      OBVIOUS
    <3>3. QED
      BY <3>2
  <2>5. \A r \in Receipts :
            deliveryLog'[r] = IF r = crmWorker[w].current THEN Append(deliveryLog[r], s)
                              ELSE deliveryLog[r]
    BY <2>1, <2>3, LogTypes DEF Log
  <2>6. \A r \in Receipts : \/ deliveryLog'[r] = deliveryLog[r] /\ r # crmWorker[w].current
                            \/ deliveryLog'[r] # <<>>
    BY <2>4, <2>5, LogTypes
  <2> HIDE DEF new
  <2>7. \A r \in Receipts : UnloggedIn(crmWorker[w], r) => UnloggedIn(new, r) \/ deliveryLog'[r] # <<>>
    BY <2>2, <2>6 DEF UnloggedIn
  <2>8. new.pc # "stopped" /\ \A r \in Receipts : deliveryLog[r] # <<>> => deliveryLog'[r] # <<>>
    BY <2>1, <2>2, <2>6
  <2>9. QED
    BY <1>1, <2>2, <2>7, <2>8, AttemptsKept
<1>3. CASE Acknowledge(w) \/ BackOff(w)
  <2> DEFINE new == [crmWorker[w] EXCEPT !.pc = "loop", !.current = NoReceipt]
  <2>1. /\ new \in WorkerRecords /\ crmWorker' = [crmWorker EXCEPT ![w] = new]
        /\ new.pc = "loop" /\ new.batch = crmWorker[w].batch
    <3>1. Proceed(w)
      BY <1>3 DEF Acknowledge, BackOff
    <3>2. QED
      BY <3>1, LogTypes DEF WorkerRecords, Proceed
  <2>2. crmWorker[w].pc \in {"logged", "backoff"} /\ UNCHANGED deliveryLog
    BY <1>3 DEF Acknowledge, BackOff
  <2> HIDE DEF new
  <2>3. \A r \in Receipts : UnloggedIn(crmWorker[w], r) => UnloggedIn(new, r)
    BY <2>1, <2>2 DEF UnloggedIn
  <2>4. QED
    BY <1>1, <2>1, <2>2, <2>3, AttemptsKept
<1>4. CASE \E q \in crmWorker[w].batch : DiscardMalformed(w, q)
  <2>1. PICK q \in crmWorker[w].batch : DiscardMalformed(w, q)
    BY <1>4
  <2> DEFINE new == [crmWorker[w] EXCEPT !.batch = @ \ {q}]
  <2>2. /\ new \in WorkerRecords /\ crmWorker' = [crmWorker EXCEPT ![w] = new]
        /\ new.pc = "loop" /\ new.batch = crmWorker[w].batch \ {q}
    BY <2>1, LogTypes DEF WorkerRecords, DiscardMalformed
  <2>3. crmWorker[w].pc = "loop" /\ q.msg \notin Outcomes /\ UNCHANGED deliveryLog
    BY <2>1, CrmAssumption DEF DiscardMalformed
  <2> HIDE DEF new
  <2>4. \A r \in Receipts : r.msg \in Outcomes /\ UnloggedIn(crmWorker[w], r) => UnloggedIn(new, r)
    BY <2>2, <2>3 DEF UnloggedIn
  <2>5. QED
    BY <1>1, <2>2, <2>3, <2>4, AttemptsKept
<1>5. CASE \E q \in crmWorker[w].batch : PostAccepted(w, q) \/ PostRefused(w, q) \/ PostTimesOut(w, q)
  <2>1. PICK q \in crmWorker[w].batch, pc \in {"delivered", "failed"} :
          TakeUp(w, q, pc) /\ UNCHANGED deliveryLog
    BY <1>5 DEF PostAccepted, PostRefused, PostTimesOut
  <2> DEFINE new == [pc |-> pc, batch |-> crmWorker[w].batch \ {q}, current |-> q]
  <2>2. new \in WorkerRecords /\ crmWorker' = [crmWorker EXCEPT ![w] = new]
    BY <2>1, LogTypes DEF TakeUp, WorkerRecords
  <2>3. \A r \in Receipts : UnloggedIn(crmWorker[w], r) => UnloggedIn(new, r)
    BY <2>1 DEF UnloggedIn, TakeUp
  <2>4. new.pc # "stopped"
    OBVIOUS
  <2> HIDE DEF new
  <2>5. QED
    BY <1>1, <2>1, <2>2, <2>3, <2>4, AttemptsKept
<1>6. QED
  BY <1>2, <1>3, <1>4, <1>5

LEMMA ReceiveAttempts ==
    ASSUME DeliveryInv, AttemptInv, NEW w \in CrmWorkers, Receive(w)
    PROVE  AttemptInv'
<1>1. PICK S \in SUBSET Receivable :
        /\ receives' = [m \in Messages |-> IF m \in S THEN receives[m] + 1 ELSE receives[m]]
        /\ crmWorker' = [crmWorker EXCEPT
                            ![w].batch = {[msg |-> m, no |-> receives[m] + 1] : m \in S}]
  BY DEF Receive
<1> DEFINE got == {[msg |-> m, no |-> receives[m] + 1] : m \in S}
<1>2. /\ crmWorker'[w].batch = got /\ crmWorker'[w].pc = "loop"
      /\ crmWorker[w].batch = {} /\ crmWorker[w].pc = "loop"
      /\ \A v \in CrmWorkers \ {w} : crmWorker'[v] = crmWorker[v]
      /\ UNCHANGED <<deliveryLog, stops>>
  BY <1>1, LogTypes DEF Receive, Polling, WorkerRecords, endVars
<1>3. ASSUME NEW r \in Receipts, r.msg \in Outcomes, r.no <= receives'[r.msg],
             r.no <= receives[r.msg] => Attempted(r)
      PROVE  Attempted(r)'
  <2>1. r.msg \in Messages /\ r.no \in Nat /\ receives[r.msg] \in Nat
    BY LogTypes, CrmAssumption DEF Receipts
  <2>2. CASE r.no <= receives[r.msg]
    <3>1. ~UnloggedIn(crmWorker[w], r)
      BY <1>2 DEF UnloggedIn
    <3>2. QED
      BY <1>2, <1>3, <2>2, <3>1 DEF Attempted
  <2>3. CASE ~(r.no <= receives[r.msg])
    <3>1. r.msg \in S /\ r.no = receives[r.msg] + 1
      BY <1>1, <1>3, <2>1, <2>3
    <3>2. r = [msg |-> r.msg, no |-> r.no]
      BY DEF Receipts
    <3>3. r \in got
      BY <3>1, <3>2
    <3>4. QED
      BY <1>2, <3>3 DEF Attempted, UnloggedIn
  <2>4. QED
    BY <2>2, <2>3
<1>4. QED
  BY <1>2, <1>3 DEF AttemptInv

LEMMA AttemptStep == DeliveryInv /\ AttemptInv /\ [Next]_vars => AttemptInv'
<1> SUFFICES ASSUME DeliveryInv, AttemptInv, [Next]_vars PROVE AttemptInv'
  OBVIOUS
<1>1. ASSUME UNCHANGED <<receives, deliveryLog, crmWorker, stops>> PROVE AttemptInv'
  BY <1>1 DEF AttemptInv, Attempted
<1>2. ASSUME NEW w \in CrmWorkers, BackOffRaises(w) \/ Crash(w) PROVE AttemptInv'
  <2>1. stops \in Nat /\ stops' = stops + 1
    BY <1>2 DEF DeliveryInv, CrmTypeOK, BackOffRaises, Crash, Stop
  <2>2. stops' # 0
    BY <2>1
  <2>3. QED
    BY <2>2 DEF AttemptInv
<1>3. ASSUME NEW w \in CrmWorkers, Restart(w) PROVE AttemptInv'
  BY <1>3 DEF AttemptInv, Restart, endVars
<1>4. CASE \/ \E o \in Outcomes : Publish(o) \/ HandleLate(o)
           \/ \E m \in Messages : Reappear(m) \/ Redrive(m)
           \/ UNCHANGED vars
  BY <1>1, <1>4 DEF Publish, HandleLate, Reappear, Redrive, vars, queueVars, endVars
<1>5. CASE \E w \in CrmWorkers : Step(w)
  BY <1>2, <1>5, ReceiveAttempts, WorkerAttempts DEF Step
<1>6. QED
  BY <1>2, <1>3, <1>4, <1>5 DEF Next

\* While no process has ended, each receive of an outcome has made its row in
\* crm_delivery_attempts or a worker is still at it.
THEOREM NoReceiveIsWasted == Spec => []EveryReceiveIsAnAttempt
<1>1. Init => AttemptInv
  <2>1. ASSUME Init, NEW r \in Receipts, r.no <= receives[r.msg] PROVE FALSE
    BY <2>1, CrmAssumption DEF Init, Receipts
  <2>2. QED
    BY <2>1 DEF Init, AttemptInv, Resting
<1>2. DeliveryInv /\ AttemptInv => EveryReceiveIsAnAttempt
  <2>1. SUFFICES ASSUME DeliveryInv, AttemptInv, stops = 0, NEW o \in Outcomes,
                        NEW n \in 1..receives[o]
                 PROVE  Attempted([msg |-> o, no |-> n])
    BY DEF EveryReceiveIsAnAttempt, Attempted, Unlogged, UnloggedIn
  <2>2. receives[o] \in 0..MaxReceives
    BY <2>1, LogTypes DEF Messages
  <2>3. n \in 1..MaxReceives /\ n <= receives[o]
    BY <2>2, CrmAssumption
  <2>4. [msg |-> o, no |-> n] \in Receipts
    BY <2>3 DEF Receipts, Messages
  <2>5. QED
    BY <2>1, <2>3, <2>4 DEF AttemptInv
<1>3. QED
  BY <1>1, <1>2, AttemptStep, DeliveryInvCorrect, PTL DEF Spec
=============================================================================
