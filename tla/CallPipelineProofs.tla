------------------------- MODULE CallPipelineProofs -------------------------
(* Theorems about CallPipeline, for every value of its constants: types,   *)
(* and the slots of a campaign.                                             *)
EXTENDS CallPipeline, StoreLemmas

USE MaxAttemptsAssumption, DeploymentAssumption, QueueAssumption, SchedulerAssumption,
    WorkerAssumption

(* Type correctness, component by component. *)

LEMMA InitType == Init => TypeOK
<1> SUFFICES ASSUME Init PROVE TypeOK
  OBVIOUS
<1> USE DEF Init, TypeOK
<1>1. StoreTypeOK
  BY DEF StoreInit, StoreTypeOK, CallTaskStatus
<1>2. QueueTypeOK
  BY DEF QueueInit, QueueTypeOK
<1>3. SchedTypeOK
  BY DEF SchedInit, SchedTypeOK
<1>4. ProviderTypeOK
  BY DEF ProviderInit, ProviderTypeOK
<1>5. WorkerTypeOK
  BY DEF WorkerInit, WorkerTypeOK, Idle
<1>6. HookTypeOK
  BY DEF HookInit, HookTypeOK, Free
<1>7. QED
  BY <1>1, <1>2, <1>3, <1>4, <1>5, <1>6

\* A scheduler's step keeps the types.
LEMMA SchedulerType ==
    ASSUME TypeOK, NEW s \in Schedulers,
           ReapStep(s) \/ ClaimStep(s) \/ SendStep(s) \/ CrashStep(s)
    PROVE  TypeOK'
<1> USE DEF TypeOK
<1>1. CASE ReapStep(s)
  <2>1. PICK skipped : Reap(s, skipped)
    BY <1>1 DEF ReapStep
  <2>2. Stuck \ skipped \in SUBSET Tasks
    BY DEF Stuck
  <2>3. StoreTypeOK'
    <3>1. WriteRetry(Stuck \ skipped, attempts) /\ ReleaseSlots(Stuck \ skipped)
      BY <2>1 DEF Reap, ReapRows
    <3>2. attempts \in [Tasks -> Nat]
      BY DEF StoreTypeOK
    <3>3. activeCount' \in [Campaigns -> Nat]
      BY <2>2, <3>1, ReleaseSlotsType
    <3>4. QED
      BY <2>1, <3>1, <3>2, <3>3, WriteRetryType DEF StoreTypeOK, Reap, ReapRows
  <2>4. SchedTypeOK'
    BY <2>1 DEF Reap, ReapRows, SchedTypeOK
  <2>5. QED
    BY <1>1, <2>1, <2>3, <2>4 DEF ReapStep, Reap, ReapRows, queueVars, providerVars, workerVars,
        hookVars, QueueTypeOK, ProviderTypeOK, WorkerTypeOK, HookTypeOK
<1>2. CASE ClaimStep(s)
  <2>1. PICK open \in SUBSET Zones : \E skipped \in SUBSET Eligible(open) : Claim(s, open, skipped)
    BY <1>2 DEF ClaimStep
  <2>2. PICK taken \in SUBSET Eligible(open) :
          /\ Take(taken)
          /\ claimed' = [claimed EXCEPT ![s] = taken]
          /\ phase' = [phase EXCEPT ![s] = IF taken = {} THEN "reap" ELSE "send"]
    BY <2>1 DEF Claim, Batches, Reservable
  <2>3. taken \in SUBSET Tasks
    BY DEF Eligible
  <2>4. \A c \in Campaigns : Cardinality(OfCampaign(taken, c)) \in Nat
    BY <2>3, OfCampaignFinite
  <2>5. StoreTypeOK'
    <3>1. activeCount' \in [Campaigns -> Nat]
      BY <2>2, <2>4 DEF Take, StoreTypeOK
    <3>2. /\ status' \in [Tasks -> CallTaskStatus]
          /\ expired' \in [Tasks -> BOOLEAN]
      BY <2>2 DEF Take, StoreTypeOK, CallTaskStatus
    <3>3. UNCHANGED <<attempts, providerCallId, providerEvents, outcomes>>
      BY <2>1 DEF Claim
    <3>4. QED
      BY <3>1, <3>2, <3>3 DEF StoreTypeOK
  <2>6. SchedTypeOK'
    BY <2>1, <2>2, <2>3 DEF Claim, SchedTypeOK
  <2>7. QED
    BY <1>2, <2>1, <2>5, <2>6 DEF ClaimStep, Claim, queueVars, providerVars, workerVars,
        hookVars, QueueTypeOK, ProviderTypeOK, WorkerTypeOK, HookTypeOK
<1>3. CASE SendStep(s)
  <2>1. PICK t \in Tasks : Send(s, t)
    BY <1>3 DEF SendStep
  <2>2. QueueTypeOK'
    BY <2>1, EnqueueType DEF Send
  <2>3. SchedTypeOK'
    BY <2>1 DEF Send, SchedTypeOK
  <2>4. QED
    BY <1>3, <2>1, <2>2, <2>3 DEF SendStep, Send, storeVars, taskVars, providerVars,
        workerVars, hookVars, StoreTypeOK, ProviderTypeOK, WorkerTypeOK, HookTypeOK
<1>4. CASE CrashStep(s)
  <2>1. SchedTypeOK'
    BY <1>4 DEF CrashStep, SchedulerCrash, Forget, SchedTypeOK
  <2>2. QED
    BY <1>4, <2>1 DEF CrashStep, SchedulerCrash, Forget, storeVars, taskVars, queueVars,
        providerVars, workerVars, hookVars, StoreTypeOK, QueueTypeOK, ProviderTypeOK,
        WorkerTypeOK, HookTypeOK
<1>5. QED
  BY <1>1, <1>2, <1>3, <1>4

\* A placed call belongs to the task it was placed for.
LEMMA AcceptCallType ==
    ASSUME ProviderTypeOK, NEW c \in Calls, NEW t \in Tasks \cup {NoTask}, AcceptCall(c, t)
    PROVE  ProviderTypeOK'
BY DEF ProviderTypeOK, AcceptCall, Verdicts

\* A worker's step keeps the types, and a busy worker's order in its hand.
LEMMA WorkerType ==
    ASSUME TypeOK, BusyWorkersHoldOrders, NEW w \in Workers, WorkerStep(w)
    PROVE  TypeOK' /\ BusyWorkersHoldOrders'
<1> USE DEF TypeOK
<1> DEFINE Pc == {"idle", "received", "placed", "marked"}
           Rec == [pc : Pc, order : Orders \cup {NoOrder}, call : Calls \cup {NoCall}]
<1>0. /\ worker \in [Workers -> Rec]
      /\ worker[w] \in Rec
  BY DEF WorkerTypeOK
<1>1. UNCHANGED <<schedVars, hookVars>>
  BY DEF WorkerStep
<1>2. SchedTypeOK' /\ HookTypeOK'
  BY <1>1 DEF schedVars, hookVars, SchedTypeOK, HookTypeOK
<1>3. ASSUME NEW r \in Rec, worker' = [worker EXCEPT ![w] = r],
             r.pc # "idle" => r.order \in Orders
      PROVE  WorkerTypeOK' /\ BusyWorkersHoldOrders'
  <2>1. worker' \in [Workers -> Rec]
    BY <1>0, <1>3
  <2>2. \A v \in Workers : worker'[v] = IF v = w THEN r ELSE worker[v]
    BY <1>0, <1>3
  <2>3. QED
    BY <1>3, <2>1, <2>2 DEF WorkerTypeOK, BusyWorkersHoldOrders
<1>4. Idle \in Rec /\ Idle.pc = "idle"
  BY DEF Idle
<1>5. ASSUME UNCHANGED storeVars PROVE StoreTypeOK'
  BY <1>5 DEF storeVars, taskVars, StoreTypeOK
<1>6. ASSUME UNCHANGED queueVars PROVE QueueTypeOK'
  BY <1>6 DEF queueVars, QueueTypeOK
<1>7. ASSUME UNCHANGED providerVars PROVE ProviderTypeOK'
  BY <1>7 DEF providerVars, ProviderTypeOK
<1>8. ASSUME worker[w].pc # "idle" PROVE TaskInHand(w) \in Tasks
  BY <1>8 DEF BusyWorkersHoldOrders, TaskInHand, Orders
<1>9. ASSUME NEW m, Remove(m) PROVE QueueTypeOK'
  BY <1>9 DEF Remove, QueueTypeOK
<1>a. CASE Receive(w)
  <2>1. PICK m \in dispatchQueue \ Poison :
          worker' = [worker EXCEPT ![w] = [pc |-> "received", order |-> m, call |-> NoCall]]
    BY <1>a DEF Receive
  <2>2. m \in Orders
    BY DEF QueueTypeOK
  <2>3. WorkerTypeOK' /\ BusyWorkersHoldOrders'
    BY <1>3, <2>1, <2>2
  <2>4. QED
    BY <1>a, <1>2, <1>5, <1>6, <1>7, <2>3 DEF Receive
<1>b. CASE DiscardPoison(w)
  BY <1>b, <1>2, <1>5, <1>7, <1>9 DEF DiscardPoison, workerVars, WorkerTypeOK,
      BusyWorkersHoldOrders
<1>c. CASE \E c \in Calls : Place(w, c)
  <2>1. PICK c \in Calls : Place(w, c)
    BY <1>c
  <2>2. ProviderTypeOK'
    BY <1>8, <2>1, AcceptCallType DEF Place
  <2>3. worker' = [worker EXCEPT ![w] = [worker[w] EXCEPT !.pc = "placed", !.call = c]]
    BY <1>0, <2>1 DEF Place
  <2>4. [worker[w] EXCEPT !.pc = "placed", !.call = c] \in Rec
    BY <1>0
  <2>5. [worker[w] EXCEPT !.pc = "placed", !.call = c].order \in Orders
    BY <1>0, <2>1 DEF Place, BusyWorkersHoldOrders
  <2>6. WorkerTypeOK' /\ BusyWorkersHoldOrders'
    BY <1>3, <2>3, <2>4, <2>5
  <2>7. QED
    BY <1>2, <1>5, <1>6, <2>1, <2>2, <2>6 DEF Place
<1>d. CASE PlaceRefused(w)
  BY <1>d, <1>2, <1>3, <1>4, <1>5, <1>6, <1>7 DEF PlaceRefused
<1>e. CASE \E c \in Calls : PlaceAnswerLost(w, c)
  <2>1. PICK c \in Calls : PlaceAnswerLost(w, c)
    BY <1>e
  <2>2. ProviderTypeOK'
    BY <1>8, <2>1, AcceptCallType DEF PlaceAnswerLost
  <2>3. WorkerTypeOK' /\ BusyWorkersHoldOrders'
    BY <1>3, <1>4, <2>1 DEF PlaceAnswerLost
  <2>4. QED
    BY <1>2, <1>5, <1>6, <2>1, <2>2, <2>3 DEF PlaceAnswerLost
<1>f. CASE MarkCalling(w)
  <2>1. worker' = [worker EXCEPT ![w] = [worker[w] EXCEPT !.pc = "marked"]]
    BY <1>0, <1>f DEF MarkCalling
  <2>2. /\ [worker[w] EXCEPT !.pc = "marked"] \in Rec
        /\ [worker[w] EXCEPT !.pc = "marked"].order \in Orders
    BY <1>0, <1>f DEF MarkCalling, BusyWorkersHoldOrders
  <2>3. WorkerTypeOK' /\ BusyWorkersHoldOrders'
    BY <1>3, <2>1, <2>2
  <2>4. StoreTypeOK'
    BY <1>0, <1>f DEF MarkCalling, StoreTypeOK, CallTaskStatus
  <2>5. QED
    BY <1>f, <1>2, <1>6, <1>7, <2>3, <2>4 DEF MarkCalling
<1>g. CASE Delete(w)
  BY <1>g, <1>2, <1>3, <1>4, <1>5, <1>7, <1>9 DEF Delete
<1>h. CASE WorkerCrash(w)
  BY <1>h, <1>2, <1>3, <1>4, <1>5, <1>6, <1>7 DEF WorkerCrash
<1>i. QED
  BY <1>a, <1>b, <1>c, <1>d, <1>e, <1>f, <1>g, <1>h DEF WorkerStep

LEMMA ProviderType ==
    ASSUME TypeOK, NEW c \in Calls, ProviderStep(c)
    PROVE  TypeOK'
<1> USE DEF TypeOK
<1>1. ProviderTypeOK'
  BY DEF ProviderStep, EndCall, DropCallback, ProviderTypeOK, Verdicts
<1>2. QED
  BY <1>1 DEF ProviderStep, storeVars, taskVars, queueVars, schedVars, workerVars,
      hookVars, StoreTypeOK, QueueTypeOK, SchedTypeOK, WorkerTypeOK, HookTypeOK

LEMMA ClockType ==
    ASSUME TypeOK, ClockStep
    PROVE  TypeOK'
<1> USE DEF TypeOK
<1>1. StoreTypeOK'
  BY DEF ClockStep, Expire, StoreTypeOK
<1>2. QED
  BY <1>1 DEF ClockStep, queueVars, schedVars, providerVars, workerVars, hookVars,
      QueueTypeOK, SchedTypeOK, ProviderTypeOK, WorkerTypeOK, HookTypeOK

\* The updates common to the three commits keep the types.
LEMMA EndTransactionType ==
    ASSUME TypeOK, BusyHooksKnowTheirTask, NEW h \in Hooks, EndTransaction(h)
    PROVE  /\ hook[h].task \in Tasks
           /\ hook[h].call \in Calls
           /\ hook[h].attempts \in Nat
           /\ providerEvents' \in SUBSET Calls
           /\ activeCount' \in [Campaigns -> Nat]
           /\ staleCommits' \in SUBSET Tasks
           /\ outcomeQueue' \in SUBSET Calls
           /\ ProviderTypeOK'
<1> USE DEF TypeOK
<1>1. hook[h].task \in Tasks /\ hook[h].call \in Calls
  BY DEF BusyHooksKnowTheirTask, EndTransaction
<1>2. hook[h].attempts \in Nat
  BY DEF HookTypeOK
<1>3. activeCount' \in [Campaigns -> Nat]
  BY <1>1, ReleaseSlotsType DEF EndTransaction
<1>4. ProviderTypeOK'
  BY DEF EndTransaction, providerVars, ProviderTypeOK
<1>5. /\ providerEvents' \in SUBSET Calls
      /\ staleCommits' \in SUBSET Tasks
  BY <1>1 DEF EndTransaction, RecordEvent, StoreTypeOK, HookTypeOK
<1>6. outcomeQueue' \in SUBSET Calls
  BY DEF EndTransaction, StoreTypeOK, HookTypeOK
<1>7. QED
  BY <1>1, <1>2, <1>3, <1>4, <1>5, <1>6

\* A webhook thread's step keeps the types, and what a busy thread knows.
LEMMA HookType ==
    ASSUME TypeOK, BusyHooksKnowTheirTask, NEW h \in Hooks, HookStep(h)
    PROVE  TypeOK' /\ BusyHooksKnowTheirTask'
<1> USE DEF TypeOK
<1> DEFINE Rec == [pc       : {"free", "open", "committed"},
                   call     : Calls \cup {NoCall},
                   task     : Tasks \cup {NoTask},
                   attempts : Nat]
<1>1. /\ hook \in [Hooks -> Rec]
      /\ hook[h] \in Rec
  BY DEF HookTypeOK
<1>2. QueueTypeOK' /\ SchedTypeOK' /\ WorkerTypeOK'
  BY DEF HookStep, queueVars, schedVars, workerVars, QueueTypeOK, SchedTypeOK, WorkerTypeOK
<1>3. ASSUME NEW r \in Rec, hook' = [hook EXCEPT ![h] = r],
             r.pc # "free" => r.task \in Tasks /\ r.call \in Calls
      PROVE  hook' \in [Hooks -> Rec] /\ BusyHooksKnowTheirTask'
  <2>1. \A g \in Hooks : hook'[g] = IF g = h THEN r ELSE hook[g]
    BY <1>1, <1>3
  <2>2. QED
    BY <1>1, <1>3, <2>1 DEF BusyHooksKnowTheirTask
<1>4. Free \in Rec /\ Free.pc = "free"
  BY DEF Free
<1>5. ASSUME UNCHANGED hookVars PROVE HookTypeOK' /\ BusyHooksKnowTheirTask'
  BY <1>5 DEF hookVars, HookTypeOK, BusyHooksKnowTheirTask
<1>6. ASSUME UNCHANGED storeVars PROVE StoreTypeOK'
  BY <1>6 DEF storeVars, taskVars, StoreTypeOK
<1>7. ASSUME UNCHANGED providerVars PROVE ProviderTypeOK'
  BY <1>7 DEF providerVars, ProviderTypeOK
<1>8. ASSUME NEW c \in Calls, Deliver(h, c) PROVE ProviderTypeOK'
  BY <1>8 DEF Deliver, ProviderTypeOK
<1>9. ASSUME EndTransaction(h), InsertOutcome(h)
      PROVE  /\ hook' \in [Hooks -> Rec] /\ BusyHooksKnowTheirTask'
             /\ outcomes' \in [Calls -> Nat]
  <2>1. hook' = [hook EXCEPT ![h] = [hook[h] EXCEPT !.pc = "committed"]]
    BY <1>1, <1>9 DEF InsertOutcome
  <2>2. [hook[h] EXCEPT !.pc = "committed"] \in Rec
    BY <1>1
  <2>3. /\ [hook[h] EXCEPT !.pc = "committed"].task \in Tasks
        /\ [hook[h] EXCEPT !.pc = "committed"].call \in Calls
    BY <1>1, <1>9, EndTransactionType
  <2>4. outcomes' \in [Calls -> Nat]
    <3>1. hook[h].call \in Calls
      BY <1>9, EndTransactionType
    <3>2. outcomes \in [Calls -> Nat]
      BY DEF StoreTypeOK
    <3>3. QED
      BY <1>9, <3>1, <3>2 DEF InsertOutcome
  <2>5. QED
    BY <1>3, <2>1, <2>2, <2>3, <2>4
<1>a. CASE \E c \in Calls : Duplicate(h, c)
  BY <1>a, <1>2, <1>5, <1>6, <1>8 DEF Duplicate
<1>b. CASE \E c \in Calls : Unknown(h, c)
  <2>1. PICK c \in Calls : Unknown(h, c)
    BY <1>b
  <2>2. StoreTypeOK'
    BY <2>1 DEF Unknown, taskVars, StoreTypeOK
  <2>3. HookTypeOK' /\ BusyHooksKnowTheirTask'
    BY <1>5, <2>1 DEF Unknown
  <2>4. QED
    BY <1>2, <1>8, <2>1, <2>2, <2>3 DEF Unknown
<1>c. CASE \E c \in Calls : Correlate(h, c)
  <2>1. PICK c \in Calls : Correlate(h, c)
    BY <1>c
  <2>2. PICK t \in Correlated(c) :
          hook' = [hook EXCEPT ![h] = [pc |-> "open", call |-> c, task |-> t,
                                       attempts |-> attempts[t]]]
    BY <2>1 DEF Correlate
  <2>3. t \in Tasks /\ attempts[t] \in Nat
    BY DEF Correlated, StoreTypeOK
  <2>4. hook' \in [Hooks -> Rec] /\ BusyHooksKnowTheirTask'
    BY <1>3, <2>2, <2>3
  <2>5. HookTypeOK'
    BY <2>1, <2>4 DEF Correlate, HookTypeOK
  <2>6. QED
    BY <1>2, <1>6, <1>8, <2>1, <2>4, <2>5 DEF Correlate
<1>d. CASE CommitCompleted(h)
  <2>1. EndTransaction(h) /\ InsertOutcome(h)
    BY <1>d DEF CommitCompleted
  <2>2. StoreTypeOK'
    <3>1. /\ providerEvents' \in SUBSET Calls
          /\ activeCount' \in [Campaigns -> Nat]
          /\ outcomes' \in [Calls -> Nat]
      BY <1>9, <2>1, EndTransactionType
    <3>2. /\ status' = [status EXCEPT ![hook[h].task] = "completed"]
          /\ UNCHANGED <<attempts, providerCallId, expired>>
      BY <1>d DEF CommitCompleted
    <3>3. status' \in [Tasks -> CallTaskStatus]
      BY <3>2 DEF StoreTypeOK, CallTaskStatus
    <3>4. QED
      BY <3>1, <3>2, <3>3 DEF StoreTypeOK
  <2>3. HookTypeOK' /\ BusyHooksKnowTheirTask'
    BY <1>9, <2>1, EndTransactionType DEF HookTypeOK
  <2>4. QED
    BY <1>2, <2>1, <2>2, <2>3, EndTransactionType
<1>e. ASSUME EndTransaction(h), WriteRetry({hook[h].task}, [t \in Tasks |-> hook[h].attempts]),
             outcomes' \in [Calls -> Nat]
      PROVE  StoreTypeOK'
  <2>1. [t \in Tasks |-> hook[h].attempts] \in [Tasks -> Nat]
    BY <1>1
  <2>2. QED
    BY <1>e, <2>1, EndTransactionType, WriteRetryType DEF StoreTypeOK
<1>f. CASE CommitRetry(h)
  <2>1. StoreTypeOK'
    BY <1>e, <1>f DEF CommitRetry, StoreTypeOK
  <2>2. HookTypeOK' /\ BusyHooksKnowTheirTask'
    BY <1>3, <1>4, <1>f, EndTransactionType DEF CommitRetry, HookTypeOK
  <2>3. QED
    BY <1>2, <1>f, <2>1, <2>2, EndTransactionType DEF CommitRetry
<1>g. CASE CommitExhausted(h)
  <2>1. EndTransaction(h) /\ InsertOutcome(h)
    BY <1>g DEF CommitExhausted
  <2>2. StoreTypeOK'
    BY <1>e, <1>g, <1>9, <2>1 DEF CommitExhausted
  <2>3. HookTypeOK' /\ BusyHooksKnowTheirTask'
    BY <1>9, <2>1, EndTransactionType DEF HookTypeOK
  <2>4. QED
    BY <1>2, <2>1, <2>2, <2>3, EndTransactionType
<1>h. CASE Publish(h)
  <2>1. hook[h].call \in Calls
    BY <1>h DEF Publish, BusyHooksKnowTheirTask
  <2>2. hook' \in [Hooks -> Rec] /\ BusyHooksKnowTheirTask'
    BY <1>3, <1>4, <1>h DEF Publish
  <2>3. HookTypeOK'
    BY <1>h, <2>1, <2>2 DEF Publish, HookTypeOK
  <2>4. QED
    BY <1>2, <1>6, <1>7, <1>h, <2>2, <2>3 DEF Publish
<1>i. CASE Abort(h)
  <2>1. hook' \in [Hooks -> Rec] /\ BusyHooksKnowTheirTask'
    BY <1>3, <1>4, <1>i DEF Abort
  <2>2. HookTypeOK'
    BY <1>i, <2>1 DEF Abort, HookTypeOK
  <2>3. QED
    BY <1>2, <1>6, <1>7, <1>i, <2>1, <2>2 DEF Abort
<1>j. QED
  BY <1>a, <1>b, <1>c, <1>d, <1>f, <1>g, <1>h, <1>i DEF HookStep

\* Types, and what busy workers and threads hold, are preserved by every step.
LEMMA TypeStep == TypeInv /\ [Next]_vars => TypeInv'
<1> SUFFICES ASSUME TypeInv, [Next]_vars PROVE TypeInv'
  OBVIOUS
<1> USE DEF TypeInv
<1>1. ASSUME UNCHANGED workerVars PROVE BusyWorkersHoldOrders'
  BY <1>1 DEF workerVars, BusyWorkersHoldOrders
<1>2. ASSUME UNCHANGED hookVars PROVE BusyHooksKnowTheirTask'
  BY <1>2 DEF hookVars, BusyHooksKnowTheirTask
<1>3. CASE \E s \in Schedulers : ReapStep(s) \/ ClaimStep(s) \/ SendStep(s) \/ CrashStep(s)
  BY <1>3, <1>1, <1>2, SchedulerType DEF ReapStep, ClaimStep, SendStep, CrashStep
<1>4. CASE \E w \in Workers : WorkerStep(w)
  BY <1>4, <1>2, WorkerType DEF WorkerStep
<1>5. CASE \E h \in Hooks : HookStep(h)
  BY <1>5, <1>1, HookType DEF HookStep
<1>6. CASE \E c \in Calls : ProviderStep(c)
  BY <1>6, <1>1, <1>2, ProviderType DEF ProviderStep
<1>7. CASE ClockStep
  BY <1>7, <1>1, <1>2, ClockType DEF ClockStep
<1>8. CASE UNCHANGED vars
  BY <1>8, <1>1, <1>2 DEF vars, storeVars, taskVars, queueVars, schedVars,
      providerVars, workerVars, hookVars, TypeOK, StoreTypeOK, QueueTypeOK, SchedTypeOK,
      ProviderTypeOK, WorkerTypeOK, HookTypeOK
<1>9. QED
  BY <1>3, <1>4, <1>5, <1>6, <1>7, <1>8 DEF Next

LEMMA TypeInvCorrect == Spec => []TypeInv
<1>1. Init => TypeInv
  BY InitType DEF Init, TypeInv, WorkerInit, Idle, BusyWorkersHoldOrders, HookInit, Free,
      BusyHooksKnowTheirTask
<1>2. QED
  BY <1>1, TypeStep, PTL DEF Spec

\* In every run every variable keeps a value of its column, queue or record.
THEOREM TypeCorrect == Spec => []TypeOK
<1>1. TypeInv => TypeOK
  BY DEF TypeInv
<1>2. QED
  BY <1>1, TypeInvCorrect, PTL
-----------------------------------------------------------------------------
(* The slots of a campaign: active_count never counts more than the tasks   *)
(* in flight nor passes the cap, and it counts exactly those tasks until a  *)
(* webhook commits over a stale read.                                       *)

\* The rows S leave flight and their slots are released. Exactness survives
\* for a campaign whose released rows were all in flight.
LEMMA SlotsReleased ==
    ASSUME TypeOK, SlotInv, NEW S \in SUBSET Tasks,
           FlightTasks' = FlightTasks \ S, ReleaseSlots(S),
           \A c \in Campaigns : OfCampaign(staleCommits', c) = {} =>
               /\ OfCampaign(staleCommits, c) = {}
               /\ OfCampaign(S, c) \subseteq FlightTasks
    PROVE  SlotInv'
<1> SUFFICES ASSUME NEW c \in Campaigns
             PROVE  /\ activeCount'[c] <= Cardinality(InFlight(c)')
                    /\ activeCount'[c] <= MaxConcurrency[c]
                    /\ OfCampaign(staleCommits', c) = {} =>
                         /\ activeCount'[c] = Cardinality(InFlight(c)')
                         /\ Cardinality(InFlight(c)') <= MaxConcurrency[c]
  BY DEF SlotInv, NoSlotLeak, CounterWithinCap, SlotAccounting
<1> DEFINE a == activeCount[c]
           f == Cardinality(InFlight(c))
           s == Cardinality(OfCampaign(S, c))
           r == Cardinality(OfCampaign(FlightTasks \ S, c))
<1>1. a \in Nat /\ MaxConcurrency[c] \in Nat
  BY DeploymentAssumption DEF TypeOK, StoreTypeOK
<1>2. /\ a <= f /\ a <= MaxConcurrency[c]
      /\ OfCampaign(staleCommits, c) = {} => a = f
  BY DEF SlotInv, NoSlotLeak, CounterWithinCap, SlotAccounting
<1>3. FlightTasks \in SUBSET Tasks
  BY DEF FlightTasks
<1>4. /\ f \in Nat /\ s \in Nat /\ r \in Nat
      /\ f <= r + s
      /\ OfCampaign(S, c) \subseteq FlightTasks => f = r + s
  <2>1. f = Cardinality(OfCampaign(FlightTasks, c))
    BY DEF InFlight
  <2>. QED
    BY ONLY <1>3, <2>1, S \in SUBSET Tasks, CountRemoved
<1>5. activeCount'[c] = Released(a, s)
  BY DEF ReleaseSlots
<1>6. InFlight(c)' = OfCampaign(FlightTasks \ S, c)
  BY DEF InFlight, OfCampaign
<1> HIDE DEF a, f, s, r
<1>7. /\ Released(a, s) <= r /\ Released(a, s) <= MaxConcurrency[c]
      /\ a = f /\ f = r + s => Released(a, s) = r
  BY <1>1, <1>2, <1>4 DEF Released
<1>8. QED
  BY <1>1, <1>2, <1>4, <1>5, <1>6, <1>7 DEF r

\* Reserving the slots of the rows that go into flight.
LEMMA SlotsTaken ==
    ASSUME TypeOK, SlotInv, NEW open \in SUBSET Zones, NEW rows \in SUBSET Eligible(open),
           NEW taken \in Reservable(rows), Take(taken), UNCHANGED staleCommits
    PROVE  SlotInv'
<1> SUFFICES ASSUME NEW c \in Campaigns
             PROVE  /\ activeCount'[c] <= Cardinality(InFlight(c)')
                    /\ activeCount'[c] <= MaxConcurrency[c]
                    /\ OfCampaign(staleCommits, c) = {} =>
                         /\ activeCount'[c] = Cardinality(InFlight(c)')
                         /\ Cardinality(InFlight(c)') <= MaxConcurrency[c]
  BY DEF SlotInv, NoSlotLeak, CounterWithinCap, SlotAccounting
<1> DEFINE a == activeCount[c]
           f == Cardinality(InFlight(c))
           k == Cardinality(OfCampaign(taken, c))
<1>1. a \in Nat /\ MaxConcurrency[c] \in Nat
  BY DeploymentAssumption DEF TypeOK, StoreTypeOK
<1>2. /\ a <= f /\ a <= MaxConcurrency[c]
      /\ OfCampaign(staleCommits, c) = {} => a = f
  BY DEF SlotInv, NoSlotLeak, CounterWithinCap, SlotAccounting
<1>3. /\ taken \in SUBSET Eligible(open) /\ taken \in SUBSET Tasks
      /\ rows \in SUBSET Tasks
      /\ FlightTasks \in SUBSET Tasks
      /\ FlightTasks \cap taken = {}
  BY DEF Reservable, Eligible, FlightTasks, InFlightStatus
<1>4. FlightTasks' = FlightTasks \cup taken
  BY <1>3 DEF Take, FlightTasks, InFlightStatus
<1>5. Cardinality(InFlight(c)') = f + k
  <2>1. InFlight(c)' = OfCampaign(FlightTasks \cup taken, c)
    BY <1>4 DEF InFlight, OfCampaign
  <2>2. QED
    BY <1>3, <2>1, CountAdded DEF InFlight
<1>6. f \in Nat /\ k \in Nat /\ Cardinality(OfCampaign(rows, c)) \in Nat
  BY <1>3, OfCampaignFinite DEF InFlight
<1>7. activeCount'[c] = a + k
  BY DEF Take
<1>8. k = Least(Cardinality(OfCampaign(rows, c)), Headroom(c))
  BY DEF Reservable
<1>9. a + k <= MaxConcurrency[c]
  BY <1>1, <1>2, <1>6, <1>8 DEF Least, Headroom
<1> HIDE DEF a, f, k
<1>10. QED
  BY <1>1, <1>2, <1>5, <1>6, <1>7, <1>9

\* A step that moves no task in or out of flight and leaves the counters.
LEMMA SlotsUntouched ==
    ASSUME SlotInv, FlightTasks' = FlightTasks, UNCHANGED <<activeCount, staleCommits>>
    PROVE  SlotInv'
<1>1. \A c : InFlight(c)' = InFlight(c)
  BY DEF InFlight, OfCampaign
<1>2. QED
  BY <1>1 DEF SlotInv, NoSlotLeak, CounterWithinCap, SlotAccounting, OfCampaign
-----------------------------------------------------------------------------
\* The commit of a webhook's transaction releases the slot of a task that it
\* takes out of flight, or that had left it already.
LEMMA CommitReleases ==
    ASSUME TypeInv, SlotInv, NEW h \in Hooks, Commit(h)
    PROVE  SlotInv'
<1> USE DEF TypeInv
<1> DEFINE t == hook[h].task
<1>1. EndTransaction(h)
  BY DEF Commit, CommitCompleted, CommitRetry, CommitExhausted
<1>2. t \in Tasks /\ hook[h].attempts \in Nat
  BY <1>1, EndTransactionType
<1>3. FlightTasks' = FlightTasks \ {t}
  <2>1. CASE CommitCompleted(h)
    BY <2>1, <1>2 DEF CommitCompleted, FlightTasks, InFlightStatus, TypeOK, StoreTypeOK
  <2>2. CASE CommitRetry(h) \/ CommitExhausted(h)
    <3>1. WriteRetry({t}, [u \in Tasks |-> hook[h].attempts])
      BY <2>2 DEF CommitRetry, CommitExhausted
    <3>2. [u \in Tasks |-> hook[h].attempts] \in [Tasks -> Nat]
      BY <1>2
    <3>3. QED
      BY <1>2, <3>1, <3>2, RetryLeavesFlight
  <2>3. QED
    BY <2>1, <2>2 DEF Commit
<1>4. ReleaseSlots({t})
  BY <1>1 DEF EndTransaction
<1>5. ASSUME NEW c \in Campaigns, OfCampaign(staleCommits', c) = {}
      PROVE  /\ OfCampaign(staleCommits, c) = {}
             /\ OfCampaign({t}, c) \subseteq FlightTasks
  <2>1. CASE t \in Correlated(hook[h].call)
    <3>1. t \in FlightTasks
      BY <2>1 DEF Correlated, FlightTasks, InFlightStatus
    <3>2. QED
      BY <1>1, <1>5, <2>1, <3>1 DEF EndTransaction, OfCampaign
  <2>2. CASE t \notin Correlated(hook[h].call)
    <3>1. staleCommits' = staleCommits \cup {t}
      BY <1>1, <2>2 DEF EndTransaction
    <3>2. QED
      BY <1>5, <3>1 DEF OfCampaign
  <2>3. QED
    BY <2>1, <2>2
<1>6. QED
  BY <1>2, <1>3, <1>4, <1>5, SlotsReleased

\* The reaper releases the slots of the rows it takes out of flight.
LEMMA ReapReleases ==
    ASSUME TypeOK, SlotInv, NEW s \in Schedulers, ReapStep(s)
    PROVE  SlotInv'
<1>1. PICK skipped : Reap(s, skipped)
  BY DEF ReapStep
<1> DEFINE S == Stuck \ skipped
<1>2. S \in SUBSET Tasks /\ S \subseteq FlightTasks
  BY DEF Stuck, FlightTasks
<1>3. WriteRetry(S, attempts) /\ ReleaseSlots(S)
  BY <1>1 DEF Reap, ReapRows
<1>4. attempts \in [Tasks -> Nat]
  BY DeploymentAssumption DEF TypeOK, StoreTypeOK
<1>5. FlightTasks' = FlightTasks \ S
  BY <1>2, <1>3, <1>4, RetryLeavesFlight
<1>6. staleCommits' = staleCommits
  BY DEF ReapStep, hookVars
<1>7. \A c \in Campaigns : OfCampaign(S, c) \subseteq FlightTasks
  BY <1>2 DEF OfCampaign
<1> HIDE DEF S
<1>8. \A c \in Campaigns : OfCampaign(staleCommits', c) = {} =>
          OfCampaign(staleCommits, c) = {} /\ OfCampaign(S, c) \subseteq FlightTasks
  BY <1>6, <1>7
<1>9. QED
  BY <1>2, <1>3, <1>5, <1>8, SlotsReleased

\* The slots stay accounted for in every step.
LEMMA SlotStep == TypeInv /\ SlotInv /\ [Next]_vars => SlotInv'
<1> SUFFICES ASSUME TypeInv, SlotInv, [Next]_vars PROVE SlotInv'
  OBVIOUS
<1> USE DEF TypeInv
<1>1. ASSUME UNCHANGED <<status, activeCount, staleCommits>> PROVE SlotInv'
  BY <1>1, SlotsUntouched DEF FlightTasks
<1>2. CASE \E s \in Schedulers : ReapStep(s)
  BY <1>2, ReapReleases
<1>3. CASE \E s \in Schedulers : ClaimStep(s)
  <2>0. PICK s \in Schedulers : ClaimStep(s)
    BY <1>3
  <2>1. PICK open \in SUBSET Zones : \E skipped \in SUBSET Eligible(open) : Claim(s, open, skipped)
    BY <2>0 DEF ClaimStep
  <2>2. PICK rows \in SUBSET Eligible(open) : \E taken \in Reservable(rows) : Take(taken)
    BY <2>1 DEF Claim, Batches
  <2>3. UNCHANGED staleCommits
    BY <2>0 DEF ClaimStep, hookVars
  <2>4. QED
    BY <2>2, <2>3, SlotsTaken
<1>4. CASE \E s \in Schedulers : SendStep(s) \/ CrashStep(s)
  BY <1>1, <1>4 DEF SendStep, Send, CrashStep, SchedulerCrash, Forget, storeVars, taskVars, hookVars
<1>5. CASE \E w \in Workers : WorkerStep(w)
  <2>1. PICK w \in Workers : WorkerStep(w)
    BY <1>5
  <2>2. CASE MarkCalling(w)
    <3>1. FlightTasks' = FlightTasks
      BY <2>2 DEF MarkCalling, Markable, FlightTasks, InFlightStatus, TypeOK, StoreTypeOK
    <3>2. UNCHANGED <<activeCount, staleCommits>>
      BY <2>1, <2>2 DEF WorkerStep, MarkCalling, hookVars
    <3>3. QED
      BY <3>1, <3>2, SlotsUntouched
  <2>3. CASE ~MarkCalling(w)
    BY <1>1, <2>1, <2>3 DEF WorkerStep, Receive, DiscardPoison, Place, PlaceRefused,
        PlaceAnswerLost, Delete, WorkerCrash, storeVars, taskVars, hookVars
  <2>4. QED
    BY <2>2, <2>3
<1>6. CASE \E h \in Hooks : HookStep(h)
  <2>1. PICK h \in Hooks : HookStep(h)
    BY <1>6
  <2>2. CASE Commit(h)
    BY <2>2, CommitReleases
  <2>3. CASE ~Commit(h)
    BY <1>1, <2>1, <2>3 DEF HookStep, Commit, Duplicate, Unknown, Correlate, Publish, Abort,
        storeVars, taskVars, hookVars
  <2>4. QED
    BY <2>2, <2>3
<1>7. CASE \E c \in Calls : ProviderStep(c)
  BY <1>1, <1>7 DEF ProviderStep, storeVars, taskVars, hookVars
<1>8. CASE ClockStep
  BY <1>1, <1>8 DEF ClockStep, Expire, taskVars, hookVars
<1>9. CASE UNCHANGED vars
  BY <1>1, <1>9 DEF vars, storeVars, taskVars, hookVars
<1>10. QED
  BY <1>2, <1>3, <1>4, <1>5, <1>6, <1>7, <1>8, <1>9 DEF Next

LEMMA SlotInit == Init => SlotInv
<1> SUFFICES ASSUME Init PROVE SlotInv
  OBVIOUS
<1>1. \A c \in Campaigns : activeCount[c] = 0 /\ MaxConcurrency[c] \in Nat
  BY DeploymentAssumption DEF Init, StoreInit
<1>2. \A c : InFlight(c) = {}
  BY DEF Init, StoreInit, InFlight, OfCampaign, FlightTasks, InFlightStatus
<1>3. QED
  BY <1>1, <1>2, FS_EmptySet DEF SlotInv, NoSlotLeak, CounterWithinCap, SlotAccounting

LEMMA SlotInvCorrect == Spec => []SlotInv
BY SlotInit, SlotStep, TypeInvCorrect, PTL DEF Spec
-----------------------------------------------------------------------------
\* active_count never exceeds the tasks in flight, whatever is reaped, lost or
\* committed late: no slot is lost for good.
THEOREM SlotsNeverLeak == Spec => []NoSlotLeak
<1>1. SlotInv => NoSlotLeak
  BY DEF SlotInv
<1>2. QED
  BY <1>1, SlotInvCorrect, PTL

\* The reservation never takes the counter past max_concurrency.
THEOREM CounterStaysWithinCap == Spec => []CounterWithinCap
<1>1. SlotInv => CounterWithinCap
  BY DEF SlotInv
<1>2. QED
  BY <1>1, SlotInvCorrect, PTL

\* The cap on tasks in flight holds in every campaign until a webhook writes
\* one of its tasks from a stale read.
THEOREM CapHoldsUntilStaleCommit == Spec => []SlotAccounting
<1>1. SlotInv => SlotAccounting
  BY DEF SlotInv
<1>2. QED
  BY <1>1, SlotInvCorrect, PTL
=============================================================================
