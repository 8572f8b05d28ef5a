--------------------------- MODULE AttemptProofs ---------------------------
(* The attempts of a task and the outcomes of a call: the retry budget, the *)
(* declared transitions, the count of ended attempts, one outcomes row per  *)
(* provider event, the dispatch orders of an attempt, one outcome per task. *)
EXTENDS CallPipelineProofs

Open == {h \in Hooks : hook[h].pc = "open"}

Placed == {w \in Workers : worker[w].pc = "placed"}

\* AttemptsWithinBudget is inductive once what an open webhook has read is
\* known to be the count of a live task.
ReadsWithinBudget == \A h \in Open : hook[h].attempts < MaxAttempts

BudgetInv == AttemptsWithinBudget /\ ReadsWithinBudget

\* A call is written into at most one row, once: a worker that is about to
\* write its call is the only one to know it.
MarkedOnce ==
    /\ \A t \in Tasks : \A c \in Calls : providerCallId[t] = c => callState[c] # "unused"
    /\ \A h \in Open : callState[hook[h].call] # "unused"
    /\ \A w \in Placed : /\ worker[w].call \in Calls
                         /\ callState[worker[w].call] # "unused"
                         /\ \A t \in Tasks : providerCallId[t] # worker[w].call
                         /\ \A h \in Open : hook[h].call # worker[w].call
                         /\ \A v \in Placed \ {w} : worker[v].call # worker[w].call

\* Hence a row that is still in the call a webhook read it in has not been
\* written since.
ReadsAreFresh ==
    \A h \in Open : hook[h].task \in Correlated(hook[h].call) =>
        attempts[hook[h].task] = hook[h].attempts

FreshInv == MarkedOnce /\ ReadsAreFresh

\* At most one open transaction has inserted an event, and none that a
\* committed one inserted.
EventInv ==
    /\ OneOutcomePerCall
    /\ \A c \in Calls : outcomes[c] > 0 => c \in providerEvents
    /\ \A h \in Open : hook[h].call \notin providerEvents
    /\ \A h, g \in Open : hook[h].call = hook[g].call => h = g
-----------------------------------------------------------------------------
(* What a step does to the columns status, attempts and provider_call_id of *)
(* a row: one of five things.                                               *)

Untouched(t) ==
    /\ status'[t] = status[t]
    /\ attempts'[t] = attempts[t]
    /\ providerCallId'[t] = providerCallId[t]

\* plan_retry's decision for a row read with n attempts.
Decided(t, n) ==
    /\ status'[t] = PlanRetry(n).status
    /\ attempts'[t] = PlanRetry(n).attempts
    /\ providerCallId'[t] = NoCall

Reaped(t) == status[t] \in InFlightStatus /\ Decided(t, attempts[t])

Taken(t) ==
    /\ status[t] = "pending" /\ status'[t] = "dispatching"
    /\ attempts'[t] = attempts[t]
    /\ providerCallId'[t] = providerCallId[t]

MarkedBy(w, t) ==
    /\ w \in Placed /\ worker' = [worker EXCEPT ![w].pc = "marked"]
    /\ t = TaskInHand(w)
    /\ status[t] = "dispatching" /\ status'[t] = "calling"
    /\ attempts'[t] = attempts[t]
    /\ providerCallId'[t] = worker[w].call

CommittedBy(h, t) ==
    /\ h \in Open /\ hook'[h].pc # "open" /\ hook[h].task = t
    /\ t \in Correlated(hook[h].call) \/ t \in staleCommits'
    /\ \/ /\ status'[t] = "completed"
          /\ attempts'[t] = attempts[t]
          /\ providerCallId'[t] = providerCallId[t]
       \/ Decided(t, hook[h].attempts)

\* A webhook's commit writes the row it read, from what it read.
LEMMA CommitWrites ==
    ASSUME TypeInv, NEW h \in Hooks, Commit(h), NEW t \in Tasks
    PROVE  Untouched(t) \/ CommittedBy(h, t)
<1> USE DEF TypeInv
<1>1. EndTransaction(h)
  BY DEF Commit, CommitCompleted, CommitRetry, CommitExhausted
<1>2. h \in Open /\ hook[h].task \in Tasks
  BY <1>1, EndTransactionType DEF EndTransaction, Open
<1>3. hook'[h].pc # "open"
  BY DEF Commit, CommitCompleted, CommitRetry, CommitExhausted, InsertOutcome, Free, TypeOK,
      HookTypeOK
<1>4. hook[h].task \in Correlated(hook[h].call) \/ hook[h].task \in staleCommits'
  BY <1>1 DEF EndTransaction
<1>5. CASE CommitCompleted(h)
  <2>1. /\ status' = [status EXCEPT ![hook[h].task] = "completed"]
        /\ UNCHANGED <<attempts, providerCallId>>
    BY <1>5 DEF CommitCompleted
  <2>2. status \in [Tasks -> CallTaskStatus]
    BY DEF TypeOK, StoreTypeOK
  <2>3. QED
    BY <1>2, <1>3, <1>4, <2>1, <2>2 DEF Untouched, CommittedBy
<1>6. CASE CommitRetry(h) \/ CommitExhausted(h)
  <2>1. WriteRetry({hook[h].task}, [u \in Tasks |-> hook[h].attempts])
    BY <1>6 DEF CommitRetry, CommitExhausted
  <2>2. t # hook[h].task => Untouched(t)
    BY <2>1 DEF WriteRetry, Untouched
  <2>3. t = hook[h].task => Decided(t, hook[h].attempts)
    BY <2>1 DEF WriteRetry, Decided
  <2>4. QED
    BY <1>2, <1>3, <1>4, <2>2, <2>3 DEF CommittedBy
<1>7. QED
  BY <1>5, <1>6 DEF Commit

\* A tick's reap and claim.
LEMMA TickWrites ==
    ASSUME TypeInv, NEW s \in Schedulers, ReapStep(s) \/ ClaimStep(s), NEW t \in Tasks
    PROVE  Untouched(t) \/ Reaped(t) \/ Taken(t)
<1>1. CASE ReapStep(s)
  <2>1. PICK skipped : Reap(s, skipped)
    BY <1>1 DEF ReapStep
  <2>2. QED
    BY <2>1 DEF Reap, ReapRows, WriteRetry, Stuck, Untouched, Reaped, Decided
<1>2. CASE ClaimStep(s)
  <2>1. PICK open \in SUBSET Zones : \E skipped \in SUBSET Eligible(open) : Claim(s, open, skipped)
    BY <1>2 DEF ClaimStep
  <2>2. PICK taken \in SUBSET Eligible(open) : Take(taken)
    BY <2>1 DEF Claim, Batches, Reservable
  <2>3. QED
    BY <2>1, <2>2 DEF Claim, Take, Eligible, Untouched, Taken
<1>3. QED
  BY <1>1, <1>2

\* A worker's update.
LEMMA MarkWrites ==
    ASSUME TypeInv, NEW w \in Workers, MarkCalling(w), NEW t \in Tasks
    PROVE  Untouched(t) \/ MarkedBy(w, t)
<1>1. /\ status \in [Tasks -> CallTaskStatus]
      /\ providerCallId \in [Tasks -> Calls \cup {NoCall}]
  BY DEF TypeInv, TypeOK, StoreTypeOK
<1>2. QED
  BY <1>1 DEF MarkCalling, Markable, Untouched, MarkedBy, Placed

\* No other step writes a row.
LEMMA OtherRowMoves ==
    ASSUME TypeInv, [Next]_vars, ~\E h \in Hooks : Commit(h), NEW t \in Tasks
    PROVE  Untouched(t) \/ Reaped(t) \/ Taken(t) \/ \E w \in Workers : MarkedBy(w, t)
<1>1. CASE \E s \in Schedulers : ReapStep(s) \/ ClaimStep(s)
  BY <1>1, TickWrites
<1>2. CASE \E s \in Schedulers : SendStep(s) \/ CrashStep(s)
  BY <1>2 DEF SendStep, Send, CrashStep, SchedulerCrash, Forget, storeVars, taskVars, Untouched
<1>3. CASE \E w \in Workers : WorkerStep(w)
  <2>1. PICK w \in Workers : WorkerStep(w)
    BY <1>3
  <2>2. CASE MarkCalling(w)
    BY <2>2, MarkWrites
  <2>3. CASE ~MarkCalling(w)
    BY <2>1, <2>3 DEF WorkerStep, Receive, DiscardPoison, Place, PlaceRefused,
        PlaceAnswerLost, Delete, WorkerCrash, storeVars, taskVars, Untouched
  <2>4. QED
    BY <2>2, <2>3
<1>4. CASE \E h \in Hooks : HookStep(h)
  BY <1>4 DEF HookStep, Commit, Duplicate, Unknown, Correlate, Publish, Abort, storeVars,
      taskVars, Untouched
<1>5. CASE (\E c \in Calls : ProviderStep(c)) \/ ClockStep \/ UNCHANGED vars
  BY <1>5 DEF ProviderStep, ClockStep, Expire, vars, storeVars, taskVars, Untouched
<1>6. QED
  BY <1>1, <1>2, <1>3, <1>4, <1>5 DEF Next

LEMMA RowMoves ==
    ASSUME TypeInv, [Next]_vars, NEW t \in Tasks
    PROVE  \/ Untouched(t)
           \/ Reaped(t)
           \/ Taken(t)
           \/ \E w \in Workers : MarkedBy(w, t)
           \/ \E h \in Hooks : CommittedBy(h, t)
BY CommitWrites, OtherRowMoves
-----------------------------------------------------------------------------
(* What a step does to the threads, the workers and the calls.              *)

\* A thread with an open transaction has had it open, or has just read its task.
LEMMA ThreadMoves ==
    ASSUME TypeInv, [Next]_vars, NEW h \in Hooks, hook'[h].pc = "open"
    PROVE  \/ h \in Open /\ hook'[h] = hook[h]
           \/ /\ hook'[h].task \in Correlated(hook'[h].call)
              /\ hook'[h].call \in Calls \ providerEvents
              /\ Unblocked(hook'[h].call)
              /\ hook'[h].attempts = attempts[hook'[h].task]
              /\ UNCHANGED <<storeVars, workerVars, callState>>
              /\ \A g \in Hooks \ {h} : hook'[g] = hook[g]
<1>1. hook \in [Hooks -> [pc : {"free", "open", "committed"}, call : Calls \cup {NoCall},
                          task : Tasks \cup {NoTask}, attempts : Nat]]
  BY DEF TypeInv, TypeOK, HookTypeOK
<1>2. CASE UNCHANGED hook
  BY <1>2 DEF Open
<1>3. CASE \E g \in Hooks : HookStep(g)
  <2>1. PICK g \in Hooks : HookStep(g)
    BY <1>3
  <2>2. CASE \E c \in Calls : Correlate(g, c)
    <3>1. PICK c \in Calls : Correlate(g, c)
      BY <2>2
    <3>2. PICK t \in Correlated(c) :
            hook' = [hook EXCEPT ![g] = [pc |-> "open", call |-> c, task |-> t,
                                         attempts |-> attempts[t]]]
      BY <3>1 DEF Correlate
    <3>3. CASE g = h
      <4>1. hook'[h] = [pc |-> "open", call |-> c, task |-> t, attempts |-> attempts[t]]
        BY <1>1, <3>2, <3>3
      <4>2. \A i \in Hooks \ {h} : hook'[i] = hook[i]
        BY <1>1, <3>2, <3>3
      <4>3. c \in Calls \ providerEvents /\ Unblocked(c)
        BY <3>1 DEF Correlate, Deliver
      <4>4. UNCHANGED <<storeVars, workerVars, callState>>
        BY <2>1, <3>1 DEF HookStep, Correlate, Deliver
      <4>5. QED
        BY <4>1, <4>2, <4>3, <4>4
    <3>4. CASE g # h
      BY <1>1, <3>2, <3>4 DEF Open
    <3>5. QED
      BY <3>3, <3>4
  <2>3. CASE ~\E c \in Calls : Correlate(g, c)
    BY <1>1, <2>1, <2>3 DEF HookStep, Duplicate, Unknown, CommitCompleted, CommitRetry,
        CommitExhausted, InsertOutcome, Publish, Abort, Free, hookVars, Open
  <2>4. QED
    BY <2>2, <2>3
<1>4. QED
  BY <1>2, <1>3 DEF Next, ReapStep, ClaimStep, SendStep, CrashStep, WorkerStep, ProviderStep,
      ClockStep, vars, hookVars

\* A worker about to mark has been so, or has just placed a fresh call.
LEMMA WorkerMoves ==
    ASSUME TypeInv, [Next]_vars, NEW w \in Workers, worker'[w].pc = "placed"
    PROVE  \/ w \in Placed /\ worker'[w] = worker[w]
           \/ /\ worker'[w].call \in Calls
              /\ callState[worker'[w].call] = "unused"
              /\ callState'[worker'[w].call] # "unused"
              /\ callTask'[worker'[w].call] = TaskInHand(w)'
              /\ UNCHANGED <<storeVars, hookVars>>
              /\ \A v \in Workers \ {w} : worker'[v] = worker[v]
<1>1. worker \in [Workers -> [pc    : {"idle", "received", "placed", "marked"},
                              order : Orders \cup {NoOrder},
                              call  : Calls \cup {NoCall}]]
  BY DEF TypeInv, TypeOK, WorkerTypeOK
<1>2. CASE UNCHANGED worker
  BY <1>2 DEF Placed
<1>3. CASE \E v \in Workers : WorkerStep(v)
  <2>1. PICK v \in Workers : WorkerStep(v)
    BY <1>3
  <2>2. CASE \E c \in Calls : Place(v, c)
    <3>1. PICK c \in Calls : Place(v, c)
      BY <2>2
    <3>2. worker' = [worker EXCEPT ![v].pc = "placed", ![v].call = c]
      BY <3>1 DEF Place
    <3>3. CASE v = w
      <4>1. /\ worker'[w].call = c /\ worker'[w].order = worker[w].order
            /\ \A u \in Workers \ {w} : worker'[u] = worker[u]
        BY <1>1, <3>2, <3>3
      <4>2. callState[c] = "unused" /\ callState'[c] # "unused"
        BY <3>1 DEF Place, AcceptCall, TypeInv, TypeOK, ProviderTypeOK
      <4>3. UNCHANGED <<storeVars, hookVars>>
        BY <2>1, <3>1 DEF WorkerStep, Place
      <4>4. callTask'[c] = TaskInHand(w)
        BY <3>1, <3>3 DEF Place, AcceptCall, TypeInv, TypeOK, ProviderTypeOK
      <4>5. QED
        BY <4>1, <4>2, <4>3, <4>4 DEF TaskInHand
    <3>4. CASE v # w
      BY <1>1, <3>2, <3>4 DEF Placed
    <3>5. QED
      BY <3>3, <3>4
  <2>3. CASE ~\E c \in Calls : Place(v, c)
    BY <1>1, <2>1, <2>3 DEF WorkerStep, Receive, DiscardPoison, PlaceRefused,
        PlaceAnswerLost, MarkCalling, Delete, WorkerCrash, Idle, workerVars, Placed
  <2>4. QED
    BY <2>2, <2>3
<1>4. QED
  BY <1>2, <1>3 DEF Next, ReapStep, ClaimStep, SendStep, CrashStep, HookStep, ProviderStep,
      ClockStep, vars, workerVars

\* A call once placed stays placed.
LEMMA CallsStayUsed ==
    ASSUME TypeInv, [Next]_vars, NEW c \in Calls, callState[c] # "unused"
    PROVE  callState'[c] # "unused"
<1>1. callState \in [Calls -> {"unused", "talking", "dropped"} \cup Verdicts]
  BY DEF TypeInv, TypeOK, ProviderTypeOK
<1>2. ASSUME NEW d \in Calls, NEW t, AcceptCall(d, t) PROVE callState'[c] # "unused"
  BY <1>1, <1>2 DEF AcceptCall
<1>3. ASSUME NEW d \in Calls, EndCall(d) \/ DropCallback(d) PROVE callState'[c] # "unused"
  BY <1>1, <1>3 DEF EndCall, DropCallback, Verdicts
<1>4. CASE UNCHANGED callState
  BY <1>4
<1>5. CASE \E w \in Workers : WorkerStep(w)
  BY <1>2, <1>4, <1>5 DEF WorkerStep, Receive, DiscardPoison, Place, PlaceRefused,
      PlaceAnswerLost, MarkCalling, Delete, WorkerCrash, providerVars
<1>6. CASE \E h \in Hooks : HookStep(h)
  BY <1>4, <1>6 DEF HookStep, Duplicate, Unknown, Correlate, Deliver, CommitCompleted,
      CommitRetry, CommitExhausted, EndTransaction, Publish, Abort, providerVars
<1>7. CASE \E d \in Calls : ProviderStep(d)
  BY <1>3, <1>7 DEF ProviderStep
<1>8. QED
  BY <1>4, <1>5, <1>6, <1>7 DEF Next, ReapStep, ClaimStep, SendStep, CrashStep, ClockStep,
      vars, providerVars
-----------------------------------------------------------------------------
(* The budget of attempts. *)

LEMMA BudgetInit == Init => BudgetInv
BY MaxAttemptsAssumption DEF Init, StoreInit, HookInit, Free, BudgetInv, AttemptsWithinBudget,
    ReadsWithinBudget, Open, TerminalStatus

\* Every decision and every read stays within the budget.
LEMMA BudgetStep == TypeInv /\ BudgetInv /\ [Next]_vars => BudgetInv'
<1> SUFFICES ASSUME TypeInv, BudgetInv, [Next]_vars PROVE BudgetInv'
  OBVIOUS
<1>1. /\ attempts \in [Tasks -> Nat] /\ MaxAttempts \in Nat \ {0}
      /\ \A h \in Hooks : hook[h].attempts \in Nat
  BY MaxAttemptsAssumption DEF TypeInv, TypeOK, StoreTypeOK, HookTypeOK
<1>2. ASSUME NEW t \in Tasks
      PROVE  /\ attempts'[t] <= MaxAttempts
             /\ status'[t] \notin TerminalStatus => attempts'[t] < MaxAttempts
             /\ status'[t] = "exhausted" => attempts'[t] = MaxAttempts
  <2>1. /\ attempts[t] <= MaxAttempts
        /\ status[t] \notin TerminalStatus => attempts[t] < MaxAttempts
        /\ status[t] = "exhausted" => attempts[t] = MaxAttempts
    BY DEF BudgetInv, AttemptsWithinBudget
  <2>2. ASSUME NEW n \in Nat, n < MaxAttempts, Decided(t, n)
        PROVE  /\ attempts'[t] <= MaxAttempts
               /\ status'[t] \notin TerminalStatus => attempts'[t] < MaxAttempts
               /\ status'[t] = "exhausted" => attempts'[t] = MaxAttempts
    BY <1>1, <2>2 DEF Decided, PlanRetry, TerminalStatus
  <2>3. CASE Untouched(t)
    BY <2>1, <2>3 DEF Untouched
  <2>4. CASE Reaped(t)
    BY <1>1, <2>1, <2>2, <2>4 DEF Reaped, InFlightStatus, TerminalStatus
  <2>5. CASE Taken(t)
    BY <2>1, <2>5 DEF Taken, TerminalStatus
  <2>6. CASE \E w \in Workers : MarkedBy(w, t)
    BY <2>1, <2>6 DEF MarkedBy, TerminalStatus
  <2>7. CASE \E h \in Hooks : CommittedBy(h, t)
    <3>1. PICK h \in Hooks : CommittedBy(h, t)
      BY <2>7
    <3>2. hook[h].attempts \in Nat /\ hook[h].attempts < MaxAttempts
      BY <1>1, <3>1 DEF CommittedBy, BudgetInv, ReadsWithinBudget
    <3>3. QED
      BY <2>1, <2>2, <3>1, <3>2 DEF CommittedBy, TerminalStatus
  <2>8. QED
    BY <2>3, <2>4, <2>5, <2>6, <2>7, RowMoves
<1>3. ASSUME NEW h \in Hooks, hook'[h].pc = "open"
      PROVE  hook'[h].attempts < MaxAttempts
  <2>1. CASE h \in Open /\ hook'[h] = hook[h]
    BY <2>1 DEF BudgetInv, ReadsWithinBudget
  <2>2. CASE /\ hook'[h].task \in Correlated(hook'[h].call)
             /\ hook'[h].attempts = attempts[hook'[h].task]
    BY <2>2 DEF Correlated, TerminalStatus, BudgetInv, AttemptsWithinBudget
  <2>3. QED
    BY <1>3, <2>1, <2>2, ThreadMoves
<1>4. QED
  BY <1>2, <1>3 DEF BudgetInv, AttemptsWithinBudget, ReadsWithinBudget, Open

\* A live task has an attempt left and an exhausted one none, also after a
\* commit over a stale read.
THEOREM AttemptsStayWithinBudget == Spec => []AttemptsWithinBudget
<1>1. BudgetInv => AttemptsWithinBudget
  BY DEF BudgetInv
<1>2. QED
  BY <1>1, BudgetInit, BudgetStep, TypeInvCorrect, PTL DEF Spec
-----------------------------------------------------------------------------
(* The declared transitions. *)

\* A step that writes a row moves its status as declared, or commits over a
\* stale read.
LEMMA MoveStep ==
    ASSUME TypeInv, [Next]_vars, NEW t \in Tasks
    PROVE  MovesAsDeclared(t)
<1> USE DEF CanTransition, AllowedTransitions
<1>1. \A n \in Nat : Decided(t, n) => status'[t] \in {"pending", "exhausted"}
  BY PlanRetryType DEF Decided
<1>2. attempts[t] \in Nat /\ \A h \in Hooks : hook[h].attempts \in Nat
  BY DEF TypeInv, TypeOK, StoreTypeOK, HookTypeOK
<1>3. CASE Untouched(t)
  BY <1>3 DEF Untouched, MovesAsDeclared
<1>4. CASE Reaped(t)
  BY <1>1, <1>2, <1>4 DEF Reaped, InFlightStatus, MovesAsDeclared
<1>5. CASE Taken(t) \/ \E w \in Workers : MarkedBy(w, t)
  BY <1>5 DEF Taken, MarkedBy, MovesAsDeclared
<1>6. CASE \E h \in Hooks : CommittedBy(h, t)
  <2>1. PICK h \in Hooks : CommittedBy(h, t)
    BY <1>6
  <2>2. CommitsOver(t)
    BY <2>1 DEF CommittedBy, CommitsOver, Open
  <2>3. status'[t] \in {"completed", "pending", "exhausted"}
    BY <1>1, <1>2, <2>1 DEF CommittedBy
  <2>4. CASE t \in Correlated(hook[h].call)
    BY <2>3, <2>4 DEF Correlated, MovesAsDeclared
  <2>5. CASE t \in staleCommits'
    BY <2>2, <2>5 DEF MovesAsDeclared
  <2>6. QED
    BY <2>1, <2>4, <2>5 DEF CommittedBy
<1>7. QED
  BY <1>3, <1>4, <1>5, <1>6, RowMoves

\* The status of a task moves as ALLOWED_TRANSITIONS says, apart from a commit
\* over a stale read and the reaper's dispatching to exhausted, which the table
\* does not have (call_task.py:18) and test_reaper.py:80 expects.
THEOREM StatusOnlyMovesAsDeclared == Spec => StatusMovesAsDeclared
<1>1. TypeInv /\ [Next]_vars => [\A t \in Tasks : MovesAsDeclared(t)]_vars
  BY MoveStep
<1>2. QED
  BY <1>1, TypeInvCorrect, PTL DEF Spec, StatusMovesAsDeclared
-----------------------------------------------------------------------------
(* Counting the attempts. *)

LEMMA FreshInit == Init => FreshInv
<1> SUFFICES ASSUME Init PROVE FreshInv
  OBVIOUS
<1>1. Open = {} /\ Placed = {}
  BY DEF Init, HookInit, WorkerInit, Free, Idle, Open, Placed
<1>2. \A t \in Tasks : providerCallId[t] \notin Calls
  BY DeploymentAssumption DEF Init, StoreInit
<1>3. QED
  BY <1>1, <1>2 DEF FreshInv, MarkedOnce, ReadsAreFresh

\* The call id a step puts in a row is NULL or comes from a worker that had it
\* to itself.
LEMMA IdWritten ==
    ASSUME TypeInv, [Next]_vars, NEW t \in Tasks
    PROVE  \/ providerCallId'[t] = providerCallId[t]
           \/ providerCallId'[t] = NoCall
           \/ \E w \in Placed : /\ providerCallId'[t] = worker[w].call
                                /\ t = TaskInHand(w)
                                /\ worker' = [worker EXCEPT ![w].pc = "marked"]
BY RowMoves DEF Untouched, Reaped, Taken, MarkedBy, CommittedBy, Decided

\* A call keeps being known in one place only.
LEMMA MarkedOnceStep == TypeInv /\ MarkedOnce /\ [Next]_vars => MarkedOnce'
<1> SUFFICES ASSUME TypeInv, MarkedOnce, [Next]_vars PROVE MarkedOnce'
  OBVIOUS
<1>1. /\ NoCall \notin Calls
      /\ worker \in [Workers -> [pc    : {"idle", "received", "placed", "marked"},
                                 order : Orders \cup {NoOrder},
                                 call  : Calls \cup {NoCall}]]
      /\ \A h \in Open : hook[h].call \in Calls
  BY DeploymentAssumption DEF TypeInv, TypeOK, WorkerTypeOK, BusyHooksKnowTheirTask, Open
<1>2. \A t \in Tasks : \A c \in Calls : providerCallId'[t] = c => callState'[c] # "unused"
  BY <1>1, IdWritten, CallsStayUsed DEF MarkedOnce
<1>3. ASSUME NEW h \in Hooks, hook'[h].pc = "open" PROVE callState'[hook'[h].call] # "unused"
  <2>1. CASE h \in Open /\ hook'[h] = hook[h]
    BY <1>1, <2>1, CallsStayUsed DEF MarkedOnce
  <2>2. CASE hook'[h].task \in Correlated(hook'[h].call) /\ hook'[h].call \in Calls
    BY <2>2, CallsStayUsed DEF Correlated, MarkedOnce
  <2>3. QED
    BY <1>3, <2>1, <2>2, ThreadMoves
<1>4. ASSUME NEW w \in Workers, worker'[w].pc = "placed"
      PROVE  /\ worker'[w].call \in Calls
             /\ callState'[worker'[w].call] # "unused"
             /\ \A t \in Tasks : providerCallId'[t] # worker'[w].call
             /\ \A h \in Hooks : hook'[h].pc = "open" => hook'[h].call # worker'[w].call
             /\ \A v \in Workers \ {w} :
                    worker'[v].pc = "placed" => worker'[v].call # worker'[w].call
  <2> DEFINE c == worker'[w].call
  <2>1. CASE w \in Placed /\ worker'[w] = worker[w]
    <3>1. /\ c \in Calls /\ callState[c] # "unused"
          /\ \A t \in Tasks : providerCallId[t] # c
          /\ \A h \in Open : hook[h].call # c
          /\ \A v \in Placed \ {w} : worker[v].call # c
      BY <2>1 DEF MarkedOnce
    <3>2. callState'[c] # "unused"
      BY <3>1, CallsStayUsed
    <3>3. \A t \in Tasks : providerCallId'[t] # c
      <4>1. \A v \in Placed : worker' = [worker EXCEPT ![v].pc = "marked"] => v # w
        BY <1>1, <1>4 DEF Placed
      <4>2. ASSUME NEW v \in Placed, worker' = [worker EXCEPT ![v].pc = "marked"]
            PROVE  worker[v].call # c
        BY <3>1, <4>1, <4>2
      <4>3. SUFFICES ASSUME NEW t \in Tasks PROVE providerCallId'[t] # c
        OBVIOUS
      <4>4. providerCallId[t] # c /\ NoCall # c
        BY <1>1, <3>1
      <4> HIDE DEF c
      <4>5. QED
        BY <4>2, <4>4, IdWritten
    <3>4. \A h \in Hooks : hook'[h].pc = "open" => hook'[h].call # c
      BY <3>1, ThreadMoves DEF Correlated
    <3>5. \A v \in Workers \ {w} : worker'[v].pc = "placed" => worker'[v].call # c
      BY <3>1, WorkerMoves
    <3>6. QED
      BY <3>1, <3>2, <3>3, <3>4, <3>5
  <2>2. CASE /\ c \in Calls /\ callState[c] = "unused" /\ callState'[c] # "unused"
             /\ UNCHANGED <<storeVars, hookVars>>
             /\ \A v \in Workers \ {w} : worker'[v] = worker[v]
    BY <2>2 DEF MarkedOnce, Open, Placed, storeVars, taskVars, hookVars
  <2>3. QED
    BY <1>4, <2>1, <2>2, WorkerMoves
<1>5. QED
  BY <1>2, <1>3, <1>4 DEF MarkedOnce, Open, Placed

\* A row that changes under an open webhook leaves the call it was read in.
LEMMA ReadsAreFreshStep == TypeInv /\ FreshInv /\ [Next]_vars => ReadsAreFresh'
<1> SUFFICES ASSUME TypeInv, FreshInv, [Next]_vars,
                    NEW h \in Hooks, hook'[h].pc = "open",
                    hook'[h].task \in Tasks, hook'[h].call \in Calls,
                    status'[hook'[h].task] = "calling",
                    providerCallId'[hook'[h].task] = hook'[h].call
             PROVE  attempts'[hook'[h].task] = hook'[h].attempts
  <2>1. TypeInv /\ [Next]_vars => BusyHooksKnowTheirTask'
    BY TypeStep DEF TypeInv
  <2>2. QED
    BY <2>1 DEF ReadsAreFresh, Open, Correlated, BusyHooksKnowTheirTask
<1> DEFINE t == hook'[h].task
           c == hook'[h].call
<1>1. CASE h \in Open /\ hook'[h] = hook[h]
  <2>1. NoCall \notin Calls
    BY DeploymentAssumption
  <2>2. ~ \E n \in Nat : Decided(t, n)
    BY <2>1 DEF Decided
  <2>3. attempts[t] \in Nat /\ \A g \in Hooks : hook[g].attempts \in Nat
    BY DEF TypeInv, TypeOK, StoreTypeOK, HookTypeOK
  <2>4. ~Reaped(t) /\ ~Taken(t) /\ \A g \in Hooks : ~CommittedBy(g, t)
    BY <2>2, <2>3 DEF Reaped, Taken, CommittedBy
  <2>5. \A w \in Workers : ~MarkedBy(w, t)
    BY <1>1 DEF MarkedBy, FreshInv, MarkedOnce
  <2>6. Untouched(t)
    BY <2>4, <2>5, RowMoves
  <2>7. t \in Correlated(hook[h].call)
    BY <1>1, <2>6 DEF Untouched, Correlated
  <2>8. QED
    BY <1>1, <2>6, <2>7 DEF Untouched, FreshInv, ReadsAreFresh
<1>2. CASE hook'[h].attempts = attempts[t] /\ UNCHANGED storeVars
  BY <1>2 DEF storeVars, taskVars
<1>3. QED
  BY <1>1, <1>2, ThreadMoves

LEMMA FreshInvCorrect == Spec => []FreshInv
<1>1. TypeInv /\ FreshInv /\ [Next]_vars => FreshInv'
  BY MarkedOnceStep, ReadsAreFreshStep DEF FreshInv
<1>2. QED
  BY <1>1, FreshInit, TypeInvCorrect, PTL DEF Spec

\* A step counts an attempt exactly when it ends one that did not complete.
LEMMA CountStep ==
    ASSUME TypeInv, FreshInv, [Next]_vars, NEW t \in Tasks
    PROVE  AttemptCounted(t)
<1>1. /\ attempts[t] \in Nat /\ \A h \in Hooks : hook[h].attempts \in Nat
      /\ status[t] \in CallTaskStatus
  BY DEF TypeInv, TypeOK, StoreTypeOK, HookTypeOK
<1>2. \A n \in Nat : Decided(t, n) =>
          attempts'[t] = n + 1 /\ status'[t] \in {"pending", "exhausted"}
  BY PlanRetryType DEF Decided, PlanRetry
<1>3. CASE Untouched(t)
  BY <1>1, <1>3 DEF Untouched, AttemptCounted, InFlightStatus
<1>4. CASE Reaped(t)
  BY <1>1, <1>2, <1>4 DEF Reaped, AttemptCounted
<1>5. CASE Taken(t) \/ \E w \in Workers : MarkedBy(w, t)
  BY <1>1, <1>5 DEF Taken, MarkedBy, AttemptCounted
<1>6. CASE \E h \in Hooks : CommittedBy(h, t)
  <2>1. PICK h \in Hooks : CommittedBy(h, t)
    BY <1>6
  <2>2. CommitsOver(t)
    BY <2>1 DEF CommittedBy, CommitsOver, Open
  <2>3. CASE t \in Correlated(hook[h].call)
    <3>1. attempts[t] = hook[h].attempts /\ status[t] = "calling"
      BY <2>1, <2>3 DEF CommittedBy, FreshInv, ReadsAreFresh, Correlated
    <3>2. CASE status'[t] = "completed" /\ attempts'[t] = attempts[t]
      BY <1>1, <3>2 DEF AttemptCounted
    <3>3. CASE Decided(t, hook[h].attempts)
      BY <1>1, <1>2, <3>1, <3>3 DEF AttemptCounted, InFlightStatus
    <3>4. QED
      BY <2>1, <3>2, <3>3 DEF CommittedBy
  <2>4. CASE t \in staleCommits'
    BY <2>2, <2>4 DEF AttemptCounted
  <2>5. QED
    BY <2>1, <2>3, <2>4 DEF CommittedBy
<1>7. QED
  BY <1>3, <1>4, <1>5, <1>6, RowMoves

\* Every attempt that ends without completing is counted once, and nothing
\* else moves the count, apart from a commit over a stale read.
THEOREM EveryEndedAttemptIsCounted == Spec => EndedAttemptIsCounted
<1>1. TypeInv /\ FreshInv /\ [Next]_vars => [\A t \in Tasks : AttemptCounted(t)]_vars
  BY CountStep
<1>2. QED
  BY <1>1, TypeInvCorrect, FreshInvCorrect, PTL DEF Spec, EndedAttemptIsCounted
-----------------------------------------------------------------------------
(* One outcomes row per event. *)

LEMMA EventInit == Init => EventInv
BY DEF Init, StoreInit, HookInit, Free, EventInv, OneOutcomePerCall, Open

\* What a step inserts into provider_events and outcomes.
LEMMA EventMoves ==
    ASSUME TypeInv, [Next]_vars
    PROVE  \/ UNCHANGED <<providerEvents, outcomes>>
           \/ \E c \in Calls : /\ Unblocked(c)
                               /\ providerEvents' = providerEvents \cup {c}
                               /\ UNCHANGED <<outcomes, hook>>
           \/ \E h \in Open : /\ hook[h].call \in Calls
                              /\ hook'[h].pc # "open"
                              /\ providerEvents' = providerEvents \cup {hook[h].call}
                              /\ \/ UNCHANGED outcomes
                                 \/ outcomes' = [outcomes EXCEPT ![hook[h].call] = @ + 1]
<1>1. CASE \E w \in Workers : WorkerStep(w)
  BY <1>1 DEF WorkerStep, Receive, DiscardPoison, Place, PlaceRefused, PlaceAnswerLost,
      MarkCalling, Delete, WorkerCrash, storeVars
<1>2. CASE \E h \in Hooks : HookStep(h)
  <2>1. PICK h \in Hooks : HookStep(h)
    BY <1>2
  <2>2. CASE Commit(h)
    <3>1. EndTransaction(h)
      BY <2>2 DEF Commit, CommitCompleted, CommitRetry, CommitExhausted
    <3>2. h \in Open /\ hook[h].call \in Calls
      BY <3>1, EndTransactionType DEF EndTransaction, Open, TypeInv
    <3>3. hook'[h].pc # "open"
      BY <2>2 DEF Commit, CommitCompleted, CommitRetry, CommitExhausted, InsertOutcome, Free,
          TypeInv, TypeOK, HookTypeOK
    <3>4. providerEvents' = providerEvents \cup {hook[h].call}
      BY <3>1 DEF EndTransaction, RecordEvent
    <3>5. UNCHANGED outcomes \/ outcomes' = [outcomes EXCEPT ![hook[h].call] = @ + 1]
      BY <2>2 DEF Commit, CommitCompleted, CommitRetry, CommitExhausted, InsertOutcome
    <3>6. QED
      BY <3>2, <3>3, <3>4, <3>5
  <2>3. CASE \E c \in Calls : Unknown(h, c)
    BY <2>3 DEF Unknown, Deliver, hookVars
  <2>4. CASE ~Commit(h) /\ ~\E c \in Calls : Unknown(h, c)
    BY <2>1, <2>4 DEF HookStep, Commit, Duplicate, Correlate, Publish, Abort, storeVars
  <2>5. QED
    BY <2>2, <2>3, <2>4
<1>3. CASE \E s \in Schedulers : ReapStep(s) \/ ClaimStep(s) \/ SendStep(s) \/ CrashStep(s)
  BY <1>3 DEF ReapStep, Reap, ReapRows, ClaimStep, Claim, SendStep, Send, CrashStep, SchedulerCrash, Forget,
      storeVars
<1>4. CASE (\E c \in Calls : ProviderStep(c)) \/ ClockStep \/ UNCHANGED vars
  BY <1>4 DEF ProviderStep, ClockStep, Expire, vars, storeVars
<1>5. QED
  BY <1>1, <1>2, <1>3, <1>4 DEF Next

\* Only the one transaction that has inserted an event adds its outcome.
LEMMA EventStep == TypeInv /\ EventInv /\ [Next]_vars => EventInv'
<1> SUFFICES ASSUME TypeInv, EventInv, [Next]_vars PROVE EventInv'
  OBVIOUS
<1>1. outcomes \in [Calls -> Nat]
  BY DEF TypeInv, TypeOK, StoreTypeOK
<1>2. \A h, g \in Hooks : hook'[h].pc = "open" /\ hook'[g].pc = "open" /\ h # g =>
          hook'[h].call # hook'[g].call
  BY ThreadMoves DEF EventInv, Open, Unblocked
<1>3. ASSUME NEW c \in Calls
      PROVE outcomes'[c] <= 1 /\ (outcomes'[c] > 0 => c \in providerEvents')
  <2>1. outcomes[c] <= 1 /\ (outcomes[c] > 0 => c \in providerEvents) /\ outcomes[c] \in Nat
    BY <1>1 DEF EventInv, OneOutcomePerCall
  <2>2. CASE UNCHANGED outcomes /\ providerEvents \subseteq providerEvents'
    BY <2>1, <2>2
  <2>3. CASE \E h \in Open : /\ hook[h].call \in Calls
                             /\ providerEvents' = providerEvents \cup {hook[h].call}
                             /\ outcomes' = [outcomes EXCEPT ![hook[h].call] = @ + 1]
    <3>1. PICK h \in Open : /\ hook[h].call \in Calls
                            /\ providerEvents' = providerEvents \cup {hook[h].call}
                            /\ outcomes' = [outcomes EXCEPT ![hook[h].call] = @ + 1]
      BY <2>3
    <3>2. hook[h].call = c => outcomes[c] = 0
      BY <2>1, <3>1 DEF EventInv
    <3>3. QED
      BY <1>1, <2>1, <3>1, <3>2
  <2>4. QED
    BY <2>2, <2>3, EventMoves
<1>4. ASSUME NEW h \in Hooks, hook'[h].pc = "open" PROVE hook'[h].call \notin providerEvents'
  <2>1. CASE h \in Open /\ hook'[h] = hook[h]
    BY <1>4, <2>1, EventMoves DEF EventInv, Unblocked, Open
  <2>2. CASE /\ hook'[h].call \in Calls \ providerEvents
             /\ UNCHANGED storeVars
    BY <2>2 DEF storeVars
  <2>3. QED
    BY <1>4, <2>1, <2>2, ThreadMoves
<1>5. QED
  BY <1>2, <1>3, <1>4 DEF EventInv, OneOutcomePerCall, Open

\* However often its webhook is handled, a call has at most one outcomes row.
THEOREM EventsMakeOneOutcome == Spec => []OneOutcomePerCall
<1>1. EventInv => OneOutcomePerCall
  BY DEF EventInv
<1>2. QED
  BY <1>1, EventInit, EventStep, TypeInvCorrect, PTL DEF Spec
-----------------------------------------------------------------------------
(* The dispatch orders of a task. *)

\* Between its sends a scheduler has nothing claimed.
ClaimsAreSent == \A s \in Schedulers : phase[s] # "send" => claimed[s] = {}

\* The orders in the queue and in the workers' hands are among those sent.
OrdersAreNumbered ==
    /\ \A m \in dispatchQueue \ Poison : m.no <= sent[m.task]
    /\ \A w \in Workers : worker[w].pc # "idle" => worker[w].order.no <= sent[TaskInHand(w)]

ToBeDeleted(m) == \E w \in Workers : worker[w].pc = "marked" /\ worker[w].order = m

\* A dispatching task has an order that no worker is about to delete: a worker
\* that gets to delete an order has seen its task leave dispatching, and the
\* order of its next attempt is another one.
OrdersAreKept ==
    crashes = 0 =>
        \A t \in Tasks : status[t] = "dispatching" =>
            \/ \E m \in OrdersFor(t) : ~ToBeDeleted(m)
            \/ \E s \in Schedulers : t \in claimed[s]

OrderInv == ClaimsAreSent /\ OrdersAreNumbered /\ OrdersAreKept

LEMMA OrderTypes ==
    ASSUME TypeInv
    PROVE  /\ dispatchQueue \ Poison \subseteq Orders
           /\ \A w \in Workers : worker[w].pc # "idle" =>
                 worker[w].order \in Orders /\ TaskInHand(w) \in Tasks
           /\ \A m \in Orders : m.task \in Tasks /\ m.no \in Nat /\ m \notin Poison
           /\ sent \in [Tasks -> Nat]
           /\ status \in [Tasks -> CallTaskStatus]
           /\ claimed \in [Schedulers -> SUBSET Tasks]
           /\ phase \in [Schedulers -> {"reap", "claim", "send"}]
           /\ worker \in [Workers -> [pc    : {"idle", "received", "placed", "marked"},
                                      order : Orders \cup {NoOrder},
                                      call  : Calls \cup {NoCall}]]
BY QueueAssumption DEF TypeInv, TypeOK, StoreTypeOK, QueueTypeOK, SchedTypeOK, WorkerTypeOK,
    BusyWorkersHoldOrders, TaskInHand, Orders

LEMMA OrderInit == Init => OrderInv
BY DEF Init, StoreInit, QueueInit, SchedInit, WorkerInit, Idle, OrderInv, ClaimsAreSent,
    OrdersAreNumbered, OrdersAreKept

\* Nothing but a claim makes a task dispatching.
LEMMA DispatchingMoves ==
    ASSUME TypeInv, [Next]_vars, NEW t \in Tasks, status'[t] = "dispatching",
           status[t] # "dispatching"
    PROVE  \E s \in Schedulers : ClaimStep(s)
<1>1. /\ attempts[t] \in Nat
      /\ \A h \in Hooks : hook[h].attempts \in Nat
  BY DEF TypeInv, TypeOK, StoreTypeOK, HookTypeOK
<1>2. \A n \in Nat : ~Decided(t, n)
  BY PlanRetryType DEF Decided
<1>3. status[t] = "pending"
  BY <1>1, <1>2, RowMoves DEF Untouched, Reaped, Taken, MarkedBy, CommittedBy
<1>4. CASE \E s \in Schedulers : ReapStep(s)
  <2>1. PICK s \in Schedulers, skipped \in SUBSET Stuck : Reap(s, skipped)
    BY <1>4 DEF ReapStep
  <2>2. status'[t] = status[t]
    BY <1>3, <2>1 DEF Reap, ReapRows, WriteRetry, Stuck, InFlightStatus
  <2>3. QED
    BY <2>2
<1>5. CASE \E w \in Workers : WorkerStep(w)
  BY <1>3, <1>5 DEF WorkerStep, Receive, DiscardPoison, Place, PlaceRefused, PlaceAnswerLost,
      MarkCalling, Markable, Delete, WorkerCrash, storeVars, taskVars, TypeInv, TypeOK, StoreTypeOK
<1>6. CASE \E h \in Hooks : HookStep(h)
  <2>1. PICK h \in Hooks : HookStep(h)
    BY <1>6
  <2>2. CASE Commit(h)
    BY <1>1, <1>2, <2>2, CommitWrites DEF Untouched, CommittedBy
  <2>3. CASE ~Commit(h)
    BY <2>1, <2>3 DEF HookStep, Commit, Duplicate, Unknown, Correlate, Publish, Abort,
        storeVars, taskVars
  <2>4. QED
    BY <2>2, <2>3
<1>7. CASE \/ \E s \in Schedulers : SendStep(s) \/ CrashStep(s)
           \/ \E c \in Calls : ProviderStep(c)
           \/ ClockStep
           \/ UNCHANGED vars
  BY <1>7 DEF SendStep, Send, CrashStep, SchedulerCrash, Forget, ProviderStep, ClockStep, Expire,
      vars, storeVars, taskVars
<1>8. QED
  BY <1>4, <1>5, <1>6, <1>7 DEF Next

\* A scheduler's step.
LEMMA SchedulerOrders ==
    ASSUME TypeInv, OrderInv, NEW s \in Schedulers,
           ReapStep(s) \/ ClaimStep(s) \/ SendStep(s) \/ CrashStep(s)
    PROVE  OrderInv'
<1> USE OrderTypes
<1>1. UNCHANGED worker /\ [Next]_vars
  BY DEF ReapStep, ClaimStep, SendStep, CrashStep, workerVars, Next
<1>2. CASE ReapStep(s)
  <2>1. PICK skipped : Reap(s, skipped)
    BY <1>2 DEF ReapStep
  <2>2. /\ phase[s] = "reap" /\ phase' = [phase EXCEPT ![s] = "claim"]
        /\ UNCHANGED <<dispatchQueue, sent, claimed, crashes>>
    BY <2>1 DEF Reap, ReapRows, queueVars
  <2>3. \A t \in Tasks : status'[t] = "dispatching" => status[t] = "dispatching"
    BY <2>1, PlanRetryType DEF Reap, ReapRows, WriteRetry, TypeInv, TypeOK, StoreTypeOK
  <2>4. ClaimsAreSent'
    BY <2>2 DEF OrderInv, ClaimsAreSent
  <2>5. OrdersAreNumbered'
    BY <1>1, <2>2 DEF OrderInv, OrdersAreNumbered, TaskInHand
  <2>6. OrdersAreKept'
    BY <1>1, <2>2, <2>3 DEF OrderInv, OrdersAreKept, OrdersFor, ToBeDeleted
  <2>7. QED
    BY <2>4, <2>5, <2>6 DEF OrderInv
<1>3. CASE ClaimStep(s)
  <2>1. PICK open \in SUBSET Zones : \E skipped \in SUBSET Eligible(open) : Claim(s, open, skipped)
    BY <1>3 DEF ClaimStep
  <2>2. PICK taken \in SUBSET Eligible(open) :
          /\ Take(taken)
          /\ claimed' = [claimed EXCEPT ![s] = taken]
          /\ phase' = [phase EXCEPT ![s] = IF taken = {} THEN "reap" ELSE "send"]
    BY <2>1 DEF Claim, Batches, Reservable
  <2>3. /\ phase[s] = "claim" /\ UNCHANGED <<dispatchQueue, sent, crashes>>
    BY <2>1 DEF Claim, queueVars
  <2>4. claimed[s] = {} /\ claimed'[s] = taken /\ \A r \in Schedulers \ {s} : claimed'[r] = claimed[r]
    BY <2>2, <2>3 DEF OrderInv, ClaimsAreSent
  <2>5. \A t \in Tasks : status'[t] = "dispatching" => t \in taken \/ status[t] = "dispatching"
    BY <2>2 DEF Take
  <2>6. ClaimsAreSent'
    BY <2>2, <2>4 DEF OrderInv, ClaimsAreSent
  <2>7. OrdersAreNumbered'
    BY <1>1, <2>3 DEF OrderInv, OrdersAreNumbered, TaskInHand
  <2>8. OrdersAreKept'
    BY <1>1, <2>3, <2>4, <2>5 DEF OrderInv, OrdersAreKept, OrdersFor, ToBeDeleted
  <2>9. QED
    BY <2>6, <2>7, <2>8 DEF OrderInv
<1>4. CASE SendStep(s)
  <2>1. PICK u \in Tasks : Send(s, u)
    BY <1>4 DEF SendStep
  <2> DEFINE m == [task |-> u, no |-> sent[u] + 1]
  <2>2. /\ phase[s] = "send" /\ u \in claimed[s]
        /\ sent' = [sent EXCEPT ![u] = sent[u] + 1]
        /\ dispatchQueue' = dispatchQueue \cup {m}
        /\ claimed' = [claimed EXCEPT ![s] = claimed[s] \ {u}]
        /\ phase' = [phase EXCEPT ![s] = IF claimed[s] = {u} THEN "reap" ELSE "send"]
        /\ UNCHANGED <<status, crashes>>
    BY <2>1 DEF Send, Enqueue, storeVars, taskVars
  <2>3. m \in Orders /\ m.task = u /\ m.no = sent[u] + 1 /\ m \notin Poison
    BY <2>1 DEF Orders
  <2> HIDE DEF m
  <2>4. \A t \in Tasks : sent[t] \in Nat /\ sent'[t] \in Nat /\ sent[t] <= sent'[t]
                         /\ (t = u => sent'[t] = sent[u] + 1)
    BY <2>2
  <2>5. ClaimsAreSent'
    BY <2>2 DEF OrderInv, ClaimsAreSent
  <2>6. OrdersAreNumbered'
    <3>1. \A x \in dispatchQueue' \ Poison : x.no <= sent'[x.task]
      <4>1. m.no <= sent'[m.task]
        BY <2>3, <2>4
      <4>2. ASSUME NEW x \in dispatchQueue \ Poison PROVE x.no <= sent'[x.task]
        <5>1. x \in Orders /\ x.task \in Tasks /\ x.no \in Nat /\ x.no <= sent[x.task]
          BY DEF OrderInv, OrdersAreNumbered
        <5>2. QED
          BY <2>4, <5>1
      <4>3. QED
        BY <2>2, <4>1, <4>2
    <3>2. ASSUME NEW w \in Workers, worker[w].pc # "idle"
          PROVE  worker[w].order.no <= sent'[TaskInHand(w)]
      <4>1. TaskInHand(w) \in Tasks /\ worker[w].order.no \in Nat
            /\ worker[w].order.no <= sent[TaskInHand(w)]
        BY <3>2 DEF OrderInv, OrdersAreNumbered
      <4>2. QED
        BY <2>4, <4>1
    <3>3. QED
      BY <1>1, <3>1, <3>2 DEF OrdersAreNumbered, TaskInHand
  <2>7. ~ToBeDeleted(m)
    <3>1. SUFFICES ASSUME NEW w \in Workers, worker[w].pc = "marked", worker[w].order = m
                   PROVE  FALSE
      BY DEF ToBeDeleted
    <3>2. worker[w].order.no <= sent[u]
      BY <2>3, <3>1 DEF OrderInv, OrdersAreNumbered, TaskInHand
    <3>3. QED
      BY <2>3, <2>4, <3>1, <3>2
  <2>8. OrdersAreKept'
    <3>1. SUFFICES ASSUME crashes = 0, NEW t \in Tasks, status[t] = "dispatching"
                   PROVE  \/ \E x \in dispatchQueue' \ Poison : x.task = t /\ ~ToBeDeleted(x)
                          \/ \E r \in Schedulers : t \in claimed'[r]
      BY <1>1, <2>2 DEF OrdersAreKept, OrdersFor, ToBeDeleted
    <3>2. CASE t = u
      BY <2>2, <2>3, <2>7, <3>2
    <3>3. CASE t # u
      BY <2>2, <3>1, <3>3 DEF OrderInv, OrdersAreKept, OrdersFor
    <3>4. QED
      BY <3>2, <3>3
  <2>9. QED
    BY <2>5, <2>6, <2>8 DEF OrderInv
<1>5. CASE CrashStep(s)
  <2>1. /\ phase' = [phase EXCEPT ![s] = "reap"]
        /\ claimed' = [claimed EXCEPT ![s] = {}]
        /\ crashes' = crashes + 1
        /\ UNCHANGED <<dispatchQueue, sent>>
    BY <1>5 DEF CrashStep, SchedulerCrash, Forget, queueVars
  <2>2. crashes' # 0
    BY <2>1 DEF TypeInv, TypeOK, SchedTypeOK
  <2>3. ClaimsAreSent'
    BY <2>1 DEF OrderInv, ClaimsAreSent
  <2>4. OrdersAreNumbered'
    BY <1>1, <2>1 DEF OrderInv, OrdersAreNumbered, TaskInHand
  <2>5. QED
    BY <2>2, <2>3, <2>4 DEF OrderInv, OrdersAreKept
<1>6. QED
  BY <1>2, <1>3, <1>4, <1>5

\* A worker's step. What it may hold and delete is put in terms of worker[w].
LEMMA WorkerOrders ==
    ASSUME TypeInv, OrderInv, NEW w \in Workers, WorkerStep(w)
    PROVE  OrderInv'
<1> USE OrderTypes
<1>1. UNCHANGED schedVars /\ [Next]_vars
  BY DEF WorkerStep, Next
<1>2. ClaimsAreSent'
  BY <1>1 DEF OrderInv, ClaimsAreSent, schedVars
<1>3. sent' = sent /\ dispatchQueue' \subseteq dispatchQueue
  BY DEF WorkerStep, Receive, DiscardPoison, Place, PlaceRefused, PlaceAnswerLost, MarkCalling,
      Delete, WorkerCrash, Remove, queueVars
<1>4. \A v \in Workers \ {w} : worker'[v] = worker[v]
  BY DEF WorkerStep, Receive, DiscardPoison, Place, PlaceRefused, PlaceAnswerLost, MarkCalling,
      Delete, WorkerCrash, workerVars
<1>5. \/ worker'[w].pc = "idle"
      \/ worker'[w].order \in dispatchQueue \ Poison
      \/ worker[w].pc # "idle" /\ worker'[w].order = worker[w].order
  BY DEF WorkerStep, Receive, DiscardPoison, Place, PlaceRefused, PlaceAnswerLost, MarkCalling,
      Delete, WorkerCrash, workerVars, Idle
<1>6. OrdersAreNumbered'
  <2>1. ASSUME NEW v \in Workers, worker'[v].pc # "idle"
        PROVE  worker'[v].order.no <= sent[worker'[v].order.task]
    <3>1. CASE v = w
      BY <1>5, <2>1, <3>1 DEF OrderInv, OrdersAreNumbered, TaskInHand
    <3>2. CASE v # w
      BY <1>4, <2>1, <3>2 DEF OrderInv, OrdersAreNumbered, TaskInHand
    <3>3. QED
      BY <3>1, <3>2
  <2>2. QED
    BY <1>3, <2>1 DEF OrderInv, OrdersAreNumbered, TaskInHand
<1>7. \A t \in Tasks : status'[t] = "dispatching" => status[t] = "dispatching"
  <2>1. CASE MarkCalling(w)
    BY <2>1 DEF MarkCalling
  <2>2. CASE ~MarkCalling(w)
    BY <2>2 DEF WorkerStep, Receive, DiscardPoison, Place, PlaceRefused, PlaceAnswerLost,
        Delete, WorkerCrash, storeVars, taskVars
  <2>3. QED
    BY <2>1, <2>2
<1>8. ASSUME NEW t \in Tasks, status'[t] = "dispatching", NEW m \in OrdersFor(t),
             ~ToBeDeleted(m)
      PROVE  m \in OrdersFor(t)' /\ ~ToBeDeleted(m)'
  <2>1. m \in dispatchQueue \ Poison /\ m.task = t
    BY <1>8 DEF OrdersFor
  <2>2. worker'[w].pc = "marked" => worker'[w].order # m
    <3>1. CASE MarkCalling(w)
      <4>1. TaskInHand(w) \in Tasks /\ status'[TaskInHand(w)] # "dispatching"
        BY <3>1 DEF MarkCalling, Markable
      <4>2. worker'[w].order = worker[w].order
        BY <3>1 DEF MarkCalling
      <4>3. QED
        BY <1>8, <2>1, <4>1, <4>2 DEF TaskInHand
    <3>2. CASE ~MarkCalling(w)
      <4>1. worker'[w].pc = "marked" => worker'[w] = worker[w]
        BY <3>2 DEF WorkerStep, Receive, DiscardPoison, Place, PlaceRefused, PlaceAnswerLost,
            Delete, WorkerCrash, workerVars, Idle
      <4>2. QED
        BY <1>8, <4>1 DEF ToBeDeleted
    <3>3. QED
      BY <3>1, <3>2
  <2>3. m \in dispatchQueue'
    <3>1. CASE Delete(w)
      BY <1>8, <2>1, <3>1 DEF Delete, Remove, ToBeDeleted
    <3>2. CASE ~Delete(w)
      BY <2>1, <3>2 DEF WorkerStep, Receive, DiscardPoison, Place, PlaceRefused,
          PlaceAnswerLost, MarkCalling, WorkerCrash, Remove, queueVars
    <3>3. QED
      BY <3>1, <3>2
  <2>4. QED
    BY <1>4, <1>8, <2>1, <2>2, <2>3 DEF OrdersFor, ToBeDeleted
<1>9. OrdersAreKept'
  BY <1>1, <1>7, <1>8 DEF OrderInv, OrdersAreKept, schedVars
<1>10. QED
  BY <1>2, <1>6, <1>9 DEF OrderInv

LEMMA OrderStep == TypeInv /\ OrderInv /\ [Next]_vars => OrderInv'
<1> SUFFICES ASSUME TypeInv, OrderInv, [Next]_vars PROVE OrderInv'
  OBVIOUS
<1>1. CASE \E s \in Schedulers : ReapStep(s) \/ ClaimStep(s) \/ SendStep(s) \/ CrashStep(s)
  BY <1>1, SchedulerOrders
<1>2. CASE \E w \in Workers : WorkerStep(w)
  BY <1>2, WorkerOrders
<1>3. CASE ~\E s \in Schedulers : ClaimStep(s)
  <2>1. \A t \in Tasks : status'[t] = "dispatching" => status[t] = "dispatching"
    BY <1>3, DispatchingMoves
  <2>2. CASE UNCHANGED <<queueVars, schedVars, workerVars>>
    <3>1. UNCHANGED <<dispatchQueue, sent, phase, claimed, crashes, worker>>
      BY <2>2 DEF queueVars, schedVars, workerVars
    <3>2. ClaimsAreSent' /\ OrdersAreNumbered'
      BY <3>1 DEF OrderInv, ClaimsAreSent, OrdersAreNumbered, TaskInHand
    <3>3. OrdersAreKept'
      BY <2>1, <3>1 DEF OrderInv, OrdersAreKept, OrdersFor, ToBeDeleted
    <3>4. QED
      BY <3>2, <3>3 DEF OrderInv
  <2>3. QED
    BY <1>1, <1>2, <2>2 DEF Next, HookStep, ProviderStep, ClockStep, vars
<1>4. QED
  BY <1>1, <1>3

LEMMA OrderInvCorrect == Spec => []OrderInv
BY OrderInit, OrderStep, TypeInvCorrect, PTL DEF Spec

\* While no scheduler has died between its commit and its sends, a dispatching
\* task has a message that will place its call, for any redeliveries.
THEOREM NoOrderIsLost == Spec => []NoOrderLost
<1>1. OrderInv => NoOrderLost
  BY DEF OrderInv, OrdersAreKept, NoOrderLost
<1>2. QED
  BY <1>1, OrderInvCorrect, PTL
-----------------------------------------------------------------------------
(* One order per attempt. *)

Senders(t) == {s \in Schedulers : t \in claimed[s]}

\* The attempts of t that have begun: those that ended, and the one in flight
\* or completed.
Begun(t) == attempts[t] + (IF status[t] \in InFlightStatus \cup {"completed"} THEN 1 ELSE 0)

SendersInv ==
    /\ \A t \in Tasks : IsFiniteSet(Senders(t))
    /\ OneOrderPerAttempt

\* A row that no stale commit writes begins an attempt when it is claimed, and
\* no attempt is undone.
LEMMA BegunGrows ==
    ASSUME TypeInv, FreshInv, [Next]_vars, NEW t \in Tasks \ staleCommits'
    PROVE  Begun(t)' = Begun(t) + (IF Taken(t) THEN 1 ELSE 0)
<1>1. /\ attempts[t] \in Nat /\ \A h \in Hooks : hook[h].attempts \in Nat
      /\ status[t] \in CallTaskStatus
  BY DEF TypeInv, TypeOK, StoreTypeOK, HookTypeOK
<1>2. \A n \in Nat : Decided(t, n) =>
          attempts'[t] = n + 1 /\ status'[t] \in {"pending", "exhausted"}
  BY PlanRetryType DEF Decided, PlanRetry
<1>3. CASE Untouched(t)
  BY <1>1, <1>3 DEF Untouched, Taken, Begun
<1>4. CASE Reaped(t)
  BY <1>1, <1>2, <1>4 DEF Reaped, Taken, Begun, InFlightStatus
<1>5. CASE Taken(t)
  BY <1>1, <1>5 DEF Taken, Begun, InFlightStatus
<1>6. CASE \E w \in Workers : MarkedBy(w, t)
  BY <1>1, <1>6 DEF MarkedBy, Taken, Begun, InFlightStatus
<1>7. CASE \E h \in Hooks : CommittedBy(h, t)
  <2>1. PICK h \in Hooks : CommittedBy(h, t)
    BY <1>7
  <2>2. attempts[t] = hook[h].attempts /\ status[t] = "calling"
    BY <2>1 DEF CommittedBy, FreshInv, ReadsAreFresh, Correlated
  <2>3. CASE status'[t] = "completed" /\ attempts'[t] = attempts[t]
    BY <1>1, <2>2, <2>3 DEF Begun, Taken, InFlightStatus
  <2>4. CASE Decided(t, hook[h].attempts)
    BY <1>1, <1>2, <2>2, <2>4 DEF Begun, Taken, InFlightStatus
  <2>5. QED
    BY <2>1, <2>3, <2>4 DEF CommittedBy
<1>8. QED
  BY <1>3, <1>4, <1>5, <1>6, <1>7, RowMoves

\* The orders of t, sent or to be sent, grow by at most one, and only when t is
\* claimed.
LEMMA OrdersGrow ==
    ASSUME TypeInv, OrderInv, [Next]_vars, NEW t \in Tasks, IsFiniteSet(Senders(t))
    PROVE  /\ IsFiniteSet(Senders(t)')
           /\ sent'[t] + Cardinality(Senders(t)')
                <= sent[t] + Cardinality(Senders(t)) + (IF Taken(t) THEN 1 ELSE 0)
<1> DEFINE n == Cardinality(Senders(t))
<1>1. n \in Nat /\ sent[t] \in Nat
  BY FS_CardinalityType, OrderTypes
<1>2. CASE UNCHANGED <<sent, claimed>>
  <2>1. Senders(t)' = Senders(t)
    BY <1>2 DEF Senders
  <2> HIDE DEF n
  <2>2. QED
    BY <1>1, <1>2, <2>1 DEF n
<1>3. CASE \E s \in Schedulers : ClaimStep(s)
  <2>0. PICK s \in Schedulers : ClaimStep(s)
    BY <1>3
  <2>1. PICK open \in SUBSET Zones : \E skipped \in SUBSET Eligible(open) : Claim(s, open, skipped)
    BY <2>0 DEF ClaimStep
  <2>2. PICK taken \in SUBSET Eligible(open) :
          /\ Take(taken)
          /\ claimed' = [claimed EXCEPT ![s] = taken]
    BY <2>1 DEF Claim, Batches, Reservable
  <2>3. claimed[s] = {} /\ UNCHANGED <<sent, attempts, providerCallId>>
    BY <2>1 DEF Claim, queueVars, OrderInv, ClaimsAreSent
  <2>4. CASE t \in taken
    <3>1. Taken(t)
      BY <2>2, <2>3, <2>4 DEF Take, Eligible, Taken
    <3>2. Senders(t)' = Senders(t) \cup {s} /\ s \notin Senders(t)
      BY <2>2, <2>3, <2>4, OrderTypes DEF Senders
    <3>3. IsFiniteSet(Senders(t)') /\ Cardinality(Senders(t)') = n + 1
      BY <3>2, FS_AddElement
    <3> HIDE DEF n
    <3>4. QED
      BY <1>1, <2>3, <3>1, <3>3 DEF n
  <2>5. CASE t \notin taken
    <3>1. Senders(t)' = Senders(t)
      BY <2>2, <2>3, <2>5, OrderTypes DEF Senders
    <3> HIDE DEF n
    <3>2. QED
      BY <1>1, <2>3, <3>1 DEF n
  <2>6. QED
    BY <2>4, <2>5
<1>4. CASE \E s \in Schedulers : SendStep(s)
  <2>1. PICK s \in Schedulers, u \in Tasks : Send(s, u)
    BY <1>4 DEF SendStep
  <2>2. /\ u \in claimed[s]
        /\ sent' = [sent EXCEPT ![u] = sent[u] + 1]
        /\ claimed' = [claimed EXCEPT ![s] = claimed[s] \ {u}]
    BY <2>1 DEF Send, Enqueue
  <2>3. CASE t = u
    <3>1. Senders(t)' = Senders(t) \ {s} /\ s \in Senders(t)
      BY <2>2, <2>3, OrderTypes DEF Senders
    <3>2. IsFiniteSet(Senders(t)') /\ Cardinality(Senders(t)') = n - 1
      BY <3>1, FS_RemoveElement
    <3>3. sent'[t] = sent[t] + 1
      BY <2>2, <2>3, OrderTypes
    <3> HIDE DEF n
    <3>4. QED
      BY <1>1, <3>2, <3>3 DEF n
  <2>4. CASE t # u
    <3>1. Senders(t)' = Senders(t) /\ sent'[t] = sent[t]
      BY <2>2, <2>4, OrderTypes DEF Senders
    <3> HIDE DEF n
    <3>2. QED
      BY <1>1, <3>1 DEF n
  <2>5. QED
    BY <2>3, <2>4
<1>5. CASE \E s \in Schedulers : CrashStep(s)
  <2>1. PICK s \in Schedulers : claimed' = [claimed EXCEPT ![s] = {}] /\ sent' = sent
    BY <1>5 DEF CrashStep, SchedulerCrash, Forget, queueVars
  <2>2. Senders(t)' \subseteq Senders(t)
    BY <2>1, OrderTypes DEF Senders
  <2>3. /\ IsFiniteSet(Senders(t)')
        /\ Cardinality(Senders(t)') \in Nat /\ Cardinality(Senders(t)') <= n
    BY <2>2, FS_Subset, FS_CardinalityType
  <2> HIDE DEF n
  <2>4. QED
    BY <1>1, <2>1, <2>3 DEF n
<1>6. CASE \E w \in Workers : WorkerStep(w)
  <2>1. UNCHANGED <<sent, claimed>>
    BY <1>6 DEF WorkerStep, Receive, DiscardPoison, Place, PlaceRefused, PlaceAnswerLost,
        MarkCalling, Delete, WorkerCrash, Remove, queueVars, schedVars
  <2>2. QED
    BY <1>2, <2>1
<1>7. CASE \/ \E s \in Schedulers : ReapStep(s)
           \/ \E h \in Hooks : HookStep(h)
           \/ \E c \in Calls : ProviderStep(c)
           \/ ClockStep
           \/ UNCHANGED vars
  <2>1. UNCHANGED <<sent, claimed>>
    BY <1>7 DEF ReapStep, Reap, ReapRows, HookStep, ProviderStep, ClockStep, vars, queueVars, schedVars
  <2>2. QED
    BY <1>2, <2>1
<1>8. QED
  BY <1>3, <1>4, <1>5, <1>6, <1>7 DEF Next

\* What no stale commit has written by the next state none has written by now.
LEMMA StaleStays == TypeInv /\ [Next]_vars => staleCommits \subseteq staleCommits'
<1> SUFFICES ASSUME [Next]_vars PROVE staleCommits \subseteq staleCommits'
  OBVIOUS
<1>1. CASE \E h \in Hooks : HookStep(h)
  BY <1>1 DEF HookStep, Duplicate, Unknown, Correlate, CommitCompleted, CommitRetry,
      CommitExhausted, EndTransaction, Publish, Abort, hookVars
<1>2. CASE ~\E h \in Hooks : HookStep(h)
  BY <1>2 DEF Next, ReapStep, ClaimStep, SendStep, CrashStep, WorkerStep, ProviderStep,
      ClockStep, vars, hookVars
<1>3. QED
  BY <1>1, <1>2

LEMMA SendersStep == TypeInv /\ FreshInv /\ OrderInv /\ SendersInv /\ [Next]_vars => SendersInv'
<1> SUFFICES ASSUME TypeInv, FreshInv, OrderInv, SendersInv, [Next]_vars PROVE SendersInv'
  OBVIOUS
<1>1. ASSUME NEW t \in Tasks PROVE IsFiniteSet(Senders(t)')
  BY OrdersGrow DEF SendersInv
<1>2. ASSUME NEW t \in Tasks \ staleCommits'
      PROVE  sent'[t] + Cardinality(Senders(t)') <= Begun(t)'
  <2> DEFINE n == Cardinality(Senders(t))
             m == Cardinality(Senders(t)')
             b == Begun(t)
             e == Begun(t)'
             k == IF Taken(t) THEN 1 ELSE 0
  <2>1. sent[t] + n <= b
    BY StaleStays DEF SendersInv, OneOrderPerAttempt, Senders, Begun
  <2>2. sent'[t] + m <= sent[t] + n + k
    BY OrdersGrow DEF SendersInv
  <2>3. e = b + k
    BY <1>2, BegunGrows
  <2>4. sent'[t] \in Nat /\ sent[t] \in Nat
    <3>1. TypeInv'
      BY TypeStep
    <3>2. QED
      BY <3>1 DEF TypeInv, TypeOK, QueueTypeOK
  <2>5. n \in Nat /\ m \in Nat
    BY OrdersGrow, FS_CardinalityType DEF SendersInv
  <2>6. b \in Nat /\ k \in Nat
    BY DEF Begun, TypeInv, TypeOK, StoreTypeOK
  <2> HIDE DEF n, m, b, e, k
  <2>7. sent'[t] + m <= e
    BY <2>1, <2>2, <2>3, <2>4, <2>5, <2>6
  <2>8. QED
    BY <2>7 DEF m, e
<1>3. OneOrderPerAttempt'
  BY <1>2 DEF OneOrderPerAttempt, Senders, Begun
<1>4. QED
  BY <1>1, <1>3 DEF SendersInv

LEMMA SendersInit == Init => SendersInv
<1> SUFFICES ASSUME Init PROVE SendersInv
  OBVIOUS
<1>1. \A t \in Tasks : Senders(t) = {} /\ IsFiniteSet(Senders(t)) /\ Cardinality(Senders(t)) = 0
  BY FS_EmptySet DEF Init, SchedInit, Senders
<1>2. \A t \in Tasks : sent[t] = 0 /\ attempts[t] = 0 /\ status[t] = "pending"
  BY DEF Init, StoreInit, QueueInit
<1>3. ASSUME NEW t \in Tasks PROVE sent[t] + Cardinality(Senders(t)) <= Begun(t)
  <2>1. Begun(t) = 0
    BY <1>2 DEF Begun, InFlightStatus
  <2>2. QED
    BY <1>1, <1>2, <2>1
<1>4. OneOrderPerAttempt
  BY <1>3 DEF OneOrderPerAttempt, Senders, Begun
<1>5. QED
  BY <1>1, <1>4 DEF SendersInv

\* No number of schedulers, crashes and reaps sends more orders for a task than
\* it has begun attempts, as long as no webhook writes it from a stale read.
THEOREM AttemptsAreOrderedOnce == Spec => []OneOrderPerAttempt
<1>1. SendersInv => OneOrderPerAttempt
  BY DEF SendersInv
<1>2. QED
  BY <1>1, SendersInit, SendersStep, TypeInvCorrect, FreshInvCorrect, OrderInvCorrect, PTL DEF Spec
-----------------------------------------------------------------------------
(* One outcome per task. *)

\* Rows, workers and threads agree with the provider on whose call it is, and
\* only calls that were placed have outcomes.
CallsAreKnown ==
    /\ \A t \in Tasks : \A c \in Calls : providerCallId[t] = c => callTask[c] = t
    /\ \A w \in Placed : callTask[worker[w].call] = TaskInHand(w)
    /\ \A h \in Open : callTask[hook[h].call] = hook[h].task
    /\ \A c \in Calls : outcomes[c] > 0 => callState[c] # "unused"

\* A placed call stays the call of its task.
LEMMA CallsKeepTasks ==
    ASSUME TypeInv, [Next]_vars, NEW c \in Calls, callState[c] # "unused"
    PROVE  callTask'[c] = callTask[c]
<1>1. ASSUME NEW d \in Calls, NEW t, AcceptCall(d, t) PROVE callTask'[c] = callTask[c]
  BY <1>1 DEF AcceptCall, TypeInv, TypeOK, ProviderTypeOK
<1>2. CASE UNCHANGED callTask
  BY <1>2
<1>3. CASE \E w \in Workers : WorkerStep(w)
  BY <1>1, <1>2, <1>3 DEF WorkerStep, Receive, DiscardPoison, Place, PlaceRefused,
      PlaceAnswerLost, MarkCalling, Delete, WorkerCrash, providerVars
<1>4. CASE \E h \in Hooks : HookStep(h)
  BY <1>2, <1>4 DEF HookStep, Duplicate, Unknown, Correlate, Deliver, CommitCompleted,
      CommitRetry, CommitExhausted, EndTransaction, Publish, Abort, providerVars
<1>5. CASE \E d \in Calls : ProviderStep(d)
  BY <1>2, <1>5 DEF ProviderStep, EndCall, DropCallback
<1>6. QED
  BY <1>2, <1>3, <1>4, <1>5 DEF Next, ReapStep, ClaimStep, SendStep, CrashStep, ClockStep,
      vars, providerVars

LEMMA CallsInit == Init => CallsAreKnown
<1> SUFFICES ASSUME Init PROVE CallsAreKnown
  OBVIOUS
<1>1. Open = {} /\ Placed = {}
  BY DEF Init, HookInit, WorkerInit, Free, Idle, Open, Placed
<1>2. /\ \A t \in Tasks : providerCallId[t] \notin Calls
      /\ \A c \in Calls : outcomes[c] = 0
  BY DeploymentAssumption DEF Init, StoreInit
<1>3. QED
  BY <1>1, <1>2 DEF CallsAreKnown

LEMMA CallsStep == TypeInv /\ MarkedOnce /\ CallsAreKnown /\ [Next]_vars => CallsAreKnown'
<1> SUFFICES ASSUME TypeInv, MarkedOnce, CallsAreKnown, [Next]_vars PROVE CallsAreKnown'
  OBVIOUS
<1>0. /\ NoCall \notin Calls
      /\ \A h \in Open : hook[h].call \in Calls
      /\ outcomes \in [Calls -> Nat]
  BY DeploymentAssumption DEF TypeInv, TypeOK, StoreTypeOK, BusyHooksKnowTheirTask, Open
<1>1. ASSUME NEW t \in Tasks, NEW c \in Calls, providerCallId'[t] = c
      PROVE  callTask'[c] = t
  <2>1. CASE providerCallId[t] = c
    BY <2>1, CallsKeepTasks DEF MarkedOnce, CallsAreKnown
  <2>2. CASE \E w \in Placed : c = worker[w].call /\ t = TaskInHand(w)
    BY <2>2, CallsKeepTasks DEF MarkedOnce, CallsAreKnown
  <2>3. QED
    BY <1>0, <1>1, <2>1, <2>2, IdWritten
<1>2. ASSUME NEW w \in Workers, worker'[w].pc = "placed"
      PROVE  callTask'[worker'[w].call] = TaskInHand(w)'
  <2>1. CASE w \in Placed /\ worker'[w] = worker[w]
    <3>1. worker[w].call \in Calls /\ callState[worker[w].call] # "unused"
      BY <2>1 DEF MarkedOnce
    <3>2. QED
      BY <2>1, <3>1, CallsKeepTasks DEF CallsAreKnown, TaskInHand
  <2>2. QED
    BY <1>2, <2>1, WorkerMoves
<1>3. ASSUME NEW h \in Hooks, hook'[h].pc = "open"
      PROVE  callTask'[hook'[h].call] = hook'[h].task
  <2>1. CASE h \in Open /\ hook'[h] = hook[h]
    BY <1>0, <2>1, CallsKeepTasks DEF MarkedOnce, CallsAreKnown
  <2>2. CASE hook'[h].task \in Correlated(hook'[h].call) /\ hook'[h].call \in Calls
    BY <2>2, CallsKeepTasks DEF Correlated, MarkedOnce, CallsAreKnown
  <2>3. QED
    BY <1>3, <2>1, <2>2, ThreadMoves
<1>4. ASSUME NEW c \in Calls, outcomes'[c] > 0
      PROVE  callState'[c] # "unused"
  <2>1. outcomes'[c] = outcomes[c] \/ \E h \in Open : c = hook[h].call
    BY <1>0, EventMoves
  <2>2. callState[c] # "unused"
    BY <1>4, <2>1 DEF MarkedOnce, CallsAreKnown
  <2>3. QED
    BY <2>2, CallsStayUsed
<1>5. QED
  BY <1>1, <1>2, <1>3, <1>4 DEF CallsAreKnown, Open, Placed

LEMMA CallsAreKnownCorrect == Spec => []CallsAreKnown
<1>1. FreshInv => MarkedOnce
  BY DEF FreshInv
<1>2. QED
  BY <1>1, CallsInit, CallsStep, TypeInvCorrect, FreshInvCorrect, PTL DEF Spec

\* A step that commits no webhook makes no outcomes.
LEMMA NoCommitNoOutcome ==
    ASSUME TypeInv, CallsAreKnown, [Next]_vars, ~\E h \in Hooks : Commit(h), NEW t \in Tasks
    PROVE  OutcomesOf(t)' = OutcomesOf(t)
<1>1. UNCHANGED outcomes
  BY DEF Next, ReapStep, Reap, ReapRows, ClaimStep, Claim, SendStep, Send, CrashStep, SchedulerCrash, Forget,
      WorkerStep, Receive, DiscardPoison, Place, PlaceRefused, PlaceAnswerLost, MarkCalling,
      Delete, WorkerCrash, HookStep, Commit, Duplicate, Unknown, Correlate, Publish, Abort,
      ProviderStep, ClockStep, Expire, vars, storeVars
<1>2. \A c \in Calls : outcomes[c] > 0 => callTask'[c] = callTask[c]
  BY CallsKeepTasks DEF CallsAreKnown
<1>3. QED
  BY <1>1, <1>2 DEF OutcomesOf

\* A webhook that finds its task in the call ends the task with the one
\* outcome it makes, or leaves it alive without one.
LEMMA CommitOutcome ==
    ASSUME TypeInv, CallsAreKnown, OneOutcomePerTask, NEW h \in Hooks, Commit(h),
           NEW t \in Tasks \ staleCommits'
    PROVE  \/ status'[t] = status[t] /\ OutcomesOf(t)' = OutcomesOf(t)
           \/ status'[t] = "pending" /\ OutcomesOf(t)' = {}
           \/ /\ status'[t] \in {"completed", "exhausted"}
              /\ OutcomesOf(t)' = {hook[h].call}
<1> DEFINE c == hook[h].call
<1>1. EndTransaction(h)
  BY DEF Commit, CommitCompleted, CommitRetry, CommitExhausted
<1>2. h \in Open /\ c \in Calls /\ callTask[c] = hook[h].task /\ hook[h].attempts \in Nat
  BY <1>1 DEF EndTransaction, Open, TypeInv, TypeOK, HookTypeOK, BusyHooksKnowTheirTask,
      CallsAreKnown
<1>3. UNCHANGED callTask /\ outcomes \in [Calls -> Nat]
  BY <1>1 DEF EndTransaction, providerVars, TypeInv, TypeOK, StoreTypeOK
<1>4. CASE t # hook[h].task
  <2>1. status'[t] = status[t]
    BY <1>4 DEF Commit, CommitCompleted, CommitRetry, CommitExhausted, WriteRetry, TypeInv,
        TypeOK, StoreTypeOK
  <2>2. \A d \in Calls \ {c} : outcomes'[d] = outcomes[d]
    BY <1>3 DEF Commit, CommitCompleted, CommitRetry, CommitExhausted, InsertOutcome
  <2>3. QED
    BY <1>2, <1>3, <1>4, <2>1, <2>2 DEF OutcomesOf
<1>5. CASE t = hook[h].task
  <2>1. t \in Correlated(c)
    BY <1>1, <1>5 DEF EndTransaction
  <2>2. t \notin staleCommits /\ status[t] = "calling"
    BY <1>1, <2>1 DEF EndTransaction, Correlated
  <2>3. OutcomesOf(t) = {}
    BY <2>2 DEF OneOutcomePerTask, TerminalStatus
  <2>4. outcomes' = [outcomes EXCEPT ![c] = outcomes[c] + 1] => OutcomesOf(t)' = {c}
    <3>1. SUFFICES ASSUME outcomes' = [outcomes EXCEPT ![c] = outcomes[c] + 1]
                   PROVE  OutcomesOf(t)' = {c}
      OBVIOUS
    <3>2. outcomes'[c] > 0 /\ \A d \in Calls \ {c} : outcomes'[d] = outcomes[d]
      BY <1>2, <1>3, <3>1
    <3>3. QED
      BY <1>2, <1>3, <1>5, <2>3, <3>2 DEF OutcomesOf
  <2>5. CASE CommitCompleted(h)
    BY <1>5, <2>4, <2>5 DEF CommitCompleted, InsertOutcome, TypeInv, TypeOK, StoreTypeOK
  <2>6. CASE CommitExhausted(h)
    <3>1. status'[t] = "exhausted"
      BY <1>5, <2>6 DEF CommitExhausted, WriteRetry, Decision
    <3>2. QED
      BY <2>4, <2>6, <3>1 DEF CommitExhausted, InsertOutcome
  <2>7. CASE CommitRetry(h)
    <3>1. status'[t] = "pending" /\ UNCHANGED outcomes
      BY <1>5, <2>7 DEF CommitRetry, WriteRetry, Decision
    <3>2. QED
      BY <1>3, <2>3, <3>1 DEF OutcomesOf
  <2>8. QED
    BY <2>5, <2>6, <2>7 DEF Commit
<1>6. QED
  BY <1>4, <1>5

LEMMA OutcomeStep ==
    TypeInv /\ CallsAreKnown /\ OneOutcomePerTask /\ [Next]_vars => OneOutcomePerTask'
<1> SUFFICES ASSUME TypeInv, CallsAreKnown, OneOutcomePerTask, [Next]_vars,
                    NEW t \in Tasks \ staleCommits'
             PROVE  /\ status'[t] \notin TerminalStatus => OutcomesOf(t)' = {}
                    /\ status'[t] = "completed" => Cardinality(OutcomesOf(t)') = 1
                    /\ Cardinality(OutcomesOf(t)') <= 1
  BY DEF OneOutcomePerTask
<1>1. /\ status[t] \notin TerminalStatus => OutcomesOf(t) = {}
      /\ status[t] = "completed" => Cardinality(OutcomesOf(t)) = 1
      /\ Cardinality(OutcomesOf(t)) <= 1
  BY StaleStays DEF OneOutcomePerTask
<1>2. Cardinality({}) = 0 /\ \A c : Cardinality({c}) = 1
  BY FS_EmptySet, FS_Singleton
<1>3. CASE \E h \in Hooks : Commit(h)
  <2>1. PICK h \in Hooks : Commit(h)
    BY <1>3
  <2>2. \/ status'[t] = status[t] /\ OutcomesOf(t)' = OutcomesOf(t)
        \/ status'[t] = "pending" /\ OutcomesOf(t)' = {}
        \/ /\ status'[t] \in {"completed", "exhausted"}
           /\ OutcomesOf(t)' = {hook[h].call}
    BY <2>1, CommitOutcome
  <2> DEFINE S == OutcomesOf(t)
             T == OutcomesOf(t)'
  <2> HIDE DEF S, T
  <2>3. \/ status'[t] = status[t] /\ T = S
        \/ status'[t] = "pending" /\ T = {}
        \/ status'[t] \in {"completed", "exhausted"} /\ T = {hook[h].call}
    BY <2>2 DEF S, T
  <2>4. /\ status[t] \notin TerminalStatus => S = {}
        /\ status[t] = "completed" => Cardinality(S) = 1
        /\ Cardinality(S) <= 1
    BY <1>1 DEF S
  <2>5. /\ status'[t] \notin TerminalStatus => T = {}
        /\ status'[t] = "completed" => Cardinality(T) = 1
        /\ Cardinality(T) <= 1
    <3>1. CASE status'[t] = status[t] /\ T = S
      BY <2>4, <3>1
    <3>2. CASE status'[t] = "pending" /\ T = {}
      <4>1. Cardinality(T) = 0
        BY <1>2, <3>2
      <4>2. QED
        BY <3>2, <4>1
    <3>3. CASE status'[t] \in {"completed", "exhausted"} /\ T = {hook[h].call}
      <4>1. Cardinality(T) = 1
        BY <1>2, <3>3
      <4>2. QED
        BY <3>3, <4>1 DEF TerminalStatus
    <3>4. QED
      BY <2>3, <3>1, <3>2, <3>3
  <2>6. QED
    BY <2>5 DEF T
<1>4. CASE ~\E h \in Hooks : Commit(h)
  <2>1. OutcomesOf(t)' = OutcomesOf(t)
    BY <1>4, NoCommitNoOutcome
  <2>2. \/ status'[t] = status[t]
        \/ status[t] \notin TerminalStatus /\ status'[t] # "completed"
    <3>1. attempts[t] \in Nat
      BY DEF TypeInv, TypeOK, StoreTypeOK
    <3>2. QED
      BY <1>4, <3>1, OtherRowMoves, PlanRetryType DEF Untouched, Reaped, Decided, Taken, MarkedBy,
          InFlightStatus, TerminalStatus
  <2>3. QED
    BY <1>1, <1>2, <2>1, <2>2
<1>5. QED
  BY <1>3, <1>4

LEMMA OutcomeInit == Init => OneOutcomePerTask
<1> SUFFICES ASSUME Init, NEW t \in Tasks
             PROVE  status[t] = "pending" /\ OutcomesOf(t) = {} /\ Cardinality(OutcomesOf(t)) = 0
  BY DEF OneOutcomePerTask
<1>1. OutcomesOf(t) = {}
  BY DEF Init, StoreInit, OutcomesOf
<1>2. QED
  BY <1>1, FS_EmptySet DEF Init, StoreInit

\* A task that no stale commit wrote gets no outcome while it is live, and one
\* when it ends, whoever retries, reaps or redelivers.
THEOREM TasksHaveOneOutcome == Spec => []OneOutcomePerTask
BY OutcomeInit, OutcomeStep, TypeInvCorrect, CallsAreKnownCorrect, PTL DEF Spec
-----------------------------------------------------------------------------
(* The pipeline implements CallAttempts. *)

\* A webhook whose task has left the call it was read in was overtaken by the
\* reaper, so an attempt of the task is counted.
OvertakenInv ==
    \A h \in Open : hook[h].task \notin Correlated(hook[h].call) => attempts[hook[h].task] > 0

LEMMA OvertakenStep ==
    TypeInv /\ EventInv /\ OvertakenInv /\ [Next]_vars => OvertakenInv'
<1> SUFFICES ASSUME TypeInv, EventInv, OvertakenInv, [Next]_vars,
                    NEW h \in Hooks, (h \in Open)',
                    (hook[h].task \notin Correlated(hook[h].call))'
             PROVE  (attempts[hook[h].task])' > 0
  BY DEF OvertakenInv, Open
<1> DEFINE t == hook[h].task
           c == hook[h].call
<1>1. h \in Open /\ hook'[h] = hook[h]
  <2>1. ~(hook'[h].task \in Correlated(hook'[h].call) /\ UNCHANGED storeVars)
    BY DEF storeVars, taskVars, Correlated
  <2>2. hook'[h].pc = "open"
    BY DEF Open
  <2>3. QED
    BY <2>1, <2>2, ThreadMoves
<1>2. t \in Tasks /\ attempts[t] \in Nat /\ t \notin Correlated(c)'
  BY <1>1 DEF Open, TypeInv, TypeOK, StoreTypeOK, BusyHooksKnowTheirTask
<1>3. t \notin Correlated(c) => attempts[t] > 0
  BY <1>1 DEF OvertakenInv
<1>4. CASE Untouched(t)
  BY <1>1, <1>2, <1>3, <1>4 DEF Untouched, Correlated
<1>5. CASE Reaped(t)
  BY <1>1, <1>2, <1>5 DEF Reaped, Decided, PlanRetry
<1>6. CASE Taken(t) \/ \E w \in Workers : MarkedBy(w, t)
  BY <1>1, <1>2, <1>3, <1>6 DEF Taken, MarkedBy, Correlated
<1>7. ASSUME NEW g \in Hooks, CommittedBy(g, t)
      PROVE  attempts'[t] > 0
  <2>1. /\ g \in Open /\ g # h /\ hook[g].task = t
        /\ t \notin Correlated(hook[g].call) => attempts[t] > 0
    BY <1>1, <1>7 DEF CommittedBy, OvertakenInv, Open
  <2>2. CASE Decided(t, hook[g].attempts)
    <3>1. hook[g].attempts \in Nat
      BY <2>1 DEF Open, TypeInv, TypeOK, HookTypeOK
    <3>2. QED
      BY <2>2, <3>1 DEF Decided, PlanRetry
  <2>3. CASE attempts'[t] = attempts[t]
    <3>1. t \in Correlated(hook[g].call) => t \notin Correlated(c)
      BY <1>1, <2>1 DEF Correlated, EventInv
    <3>2. QED
      BY <1>3, <2>1, <2>3, <3>1
  <2>4. QED
    BY <1>7, <2>2, <2>3 DEF CommittedBy
<1>8. QED
  BY <1>1, <1>2, <1>4, <1>5, <1>6, <1>7, RowMoves

\* What the abstract specification sees.
AttemptsView == <<Standing, attempts, providerEvents, Answers, staleCommits>>

LEMMA StandingIs ==
    ASSUME NEW st \in CallTaskStatus
    PROVE  /\ StandingOf(st) = "waiting" <=> st = "pending"
           /\ StandingOf(st) = "running" <=> st \in InFlightStatus
           /\ st \in TerminalStatus => StandingOf(st) = st
BY DEF StandingOf, CallTaskStatus, InFlightStatus, TerminalStatus

\* plan_retry in the words of the abstract specification.
LEMMA RetryStands ==
    ASSUME NEW n \in Nat
    PROVE  /\ StandingOf(PlanRetry(n).status) = Attempts!After(n)
           /\ PlanRetry(n).attempts = n + 1
           /\ PlanRetry(n).status = "exhausted" <=> Attempts!After(n) = "exhausted"
BY MaxAttemptsAssumption DEF StandingOf, PlanRetry, Attempts!After, InFlightStatus, TerminalStatus

LEMMA ReapTimesOut ==
    ASSUME TypeInv, NEW s \in Schedulers, NEW skipped, Reap(s, skipped),
           UNCHANGED <<Answers, staleCommits>>
    PROVE  Attempts!TimeOut(Stuck \ skipped)
<1> DEFINE S == Stuck \ skipped
<1>1. /\ \A t \in S : t \in Tasks /\ status[t] \in InFlightStatus
      /\ \A t \in Tasks : status[t] \in CallTaskStatus /\ attempts[t] \in Nat
  BY DEF Stuck, TypeInv, TypeOK, StoreTypeOK
<1>2. /\ status' = [t \in Tasks |-> IF t \in S THEN PlanRetry(attempts[t]).status ELSE status[t]]
      /\ attempts' = [t \in Tasks |-> IF t \in S THEN PlanRetry(attempts[t]).attempts ELSE attempts[t]]
      /\ UNCHANGED providerEvents
  BY DEF Reap, ReapRows, WriteRetry
<1> HIDE DEF S
<1>3. \A t \in S : Standing[t] = "running"
  BY <1>1, StandingIs DEF Standing
<1>4. Standing' = [t \in Tasks |-> IF t \in S THEN Attempts!After(attempts[t]) ELSE Standing[t]]
  BY <1>1, <1>2, RetryStands DEF Standing
<1>5. attempts' = [t \in Tasks |-> IF t \in S THEN attempts[t] + 1 ELSE attempts[t]]
  BY <1>1, <1>2, RetryStands
<1>6. Attempts!TimeOut(S)
  BY <1>2, <1>3, <1>4, <1>5 DEF Attempts!TimeOut
<1>7. QED
  BY <1>6 DEF S

LEMMA ClaimBegins ==
    ASSUME TypeInv, TypeInv', SlotInv', NEW s \in Schedulers, NEW open, NEW skipped, Claim(s, open, skipped),
           UNCHANGED <<Answers, staleCommits>>
    PROVE  \E S \in SUBSET Tasks : Attempts!Begin(S)
<1>1. PICK taken \in SUBSET Eligible(open) : Take(taken)
  BY DEF Claim, Batches, Reservable
<1>2. /\ taken \subseteq Tasks /\ \A t \in taken : status[t] = "pending"
      /\ \A t \in Tasks : status[t] \in CallTaskStatus /\ status'[t] \in CallTaskStatus
      /\ status' = [t \in Tasks |-> IF t \in taken THEN "dispatching" ELSE status[t]]
      /\ UNCHANGED <<attempts, providerEvents>>
  BY <1>1 DEF Eligible, Take, Claim, TypeInv, TypeOK, StoreTypeOK
<1>3. \A t \in taken : Standing[t] = "waiting"
  BY <1>2, StandingIs DEF Standing
<1>4. StandingOf("dispatching") = "running"
  BY StandingIs DEF CallTaskStatus, InFlightStatus
<1>5. Standing' = [t \in Tasks |-> IF t \in taken THEN "running" ELSE Standing[t]]
  BY <1>2, <1>4 DEF Standing
<1>6. ASSUME NEW c \in Campaigns, Attempts!InOrder(c)
      PROVE  Cardinality(Attempts!Running(c)') <= MaxConcurrency[c]
  <2>1. OfCampaign(staleCommits, c)' = {}
    BY <1>6 DEF OfCampaign, Attempts!InOrder
  <2>2. Attempts!Running(c)' = InFlight(c)'
    BY <1>2, StandingIs DEF Attempts!Running, Standing, InFlight, OfCampaign, FlightTasks
  <2>3. QED
    BY <2>1, <2>2 DEF SlotInv, SlotAccounting
<1>7. Attempts!Begin(taken)
  BY <1>2, <1>3, <1>5, <1>6 DEF Attempts!Begin, Attempts!Cardinality, Cardinality
<1>8. QED
  BY <1>2, <1>7

\* A commit makes an outcome for the task it writes, or none.
LEMMA CommitAnswers ==
    ASSUME TypeInv, CallsAreKnown, NEW h \in Open, UNCHANGED callTask
    PROVE  /\ UNCHANGED outcomes => UNCHANGED Answers
           /\ outcomes' = [outcomes EXCEPT ![hook[h].call] = @ + 1] =>
                Answers' = [Answers EXCEPT ![hook[h].task] = @ \cup {hook[h].call}]
<1> DEFINE c == hook[h].call
           u == hook[h].task
<1>1. c \in Calls /\ u \in Tasks /\ callTask[c] = u /\ outcomes \in [Calls -> Nat]
  BY DEF Open, TypeInv, TypeOK, StoreTypeOK, BusyHooksKnowTheirTask, CallsAreKnown
<1>2. UNCHANGED outcomes => UNCHANGED Answers
  BY DEF Answers, OutcomesOf
<1>3. ASSUME outcomes' = [outcomes EXCEPT ![c] = @ + 1]
      PROVE  Answers' = [Answers EXCEPT ![u] = @ \cup {c}]
  <2>1. outcomes'[c] > 0 /\ \A d \in Calls \ {c} : outcomes'[d] = outcomes[d]
    BY <1>1, <1>3
  <2>2. \A t \in Tasks : OutcomesOf(t)' = IF t = u THEN OutcomesOf(t) \cup {c} ELSE OutcomesOf(t)
    BY <1>1, <2>1 DEF OutcomesOf
  <2>3. QED
    BY <1>1, <2>2 DEF Answers
<1>4. QED
  BY <1>2, <1>3

\* What a commit writes is what a report says, after the attempts it has read.
LEMMA CommitSays ==
    ASSUME TypeInv, CallsAreKnown, NEW h \in Hooks, Commit(h)
    PROVE  \/ Attempts!Succeed(hook[h].task, hook[h].call)
           \/ Attempts!Fail(hook[h].task, hook[h].call, hook[h].attempts)
<1> DEFINE c == hook[h].call
           u == hook[h].task
           n == hook[h].attempts
<1>1. EndTransaction(h)
  BY DEF Commit, CommitCompleted, CommitRetry, CommitExhausted
<1>2. h \in Open /\ u \in Tasks /\ n \in Nat /\ UNCHANGED callTask
  BY <1>1 DEF EndTransaction, Open, providerVars, TypeInv, TypeOK, HookTypeOK, BusyHooksKnowTheirTask
<1>3. status \in [Tasks -> CallTaskStatus] /\ attempts \in [Tasks -> Nat]
  BY DEF TypeInv, TypeOK, StoreTypeOK
<1>4. CASE CommitCompleted(h)
  <2>1. /\ status' = [status EXCEPT ![u] = "completed"] /\ UNCHANGED attempts
        /\ outcomes' = [outcomes EXCEPT ![c] = @ + 1]
    BY <1>4 DEF CommitCompleted, InsertOutcome
  <2>2. StandingOf("completed") = "completed"
    BY StandingIs DEF CallTaskStatus, TerminalStatus
  <2>3. Standing' = [Standing EXCEPT ![u] = "completed"]
    BY <1>2, <1>3, <2>1, <2>2 DEF Standing
  <2>4. Answers' = [Answers EXCEPT ![u] = @ \cup {c}]
    BY <1>2, <2>1, CommitAnswers
  <2>5. QED
    BY <2>1, <2>3, <2>4 DEF Attempts!Succeed, Attempts!Answer
<1>5. CASE CommitRetry(h) \/ CommitExhausted(h)
  <2>1. WriteRetry({u}, [t \in Tasks |-> n])
    BY <1>5 DEF CommitRetry, CommitExhausted
  <2>2. /\ status' = [t \in Tasks |-> IF t = u THEN PlanRetry(n).status ELSE status[t]]
        /\ attempts' = [t \in Tasks |-> IF t = u THEN PlanRetry(n).attempts ELSE attempts[t]]
    BY <2>1 DEF WriteRetry
  <2>3. Standing' = [Standing EXCEPT ![u] = Attempts!After(n)]
    BY <1>2, <1>3, <2>2, RetryStands DEF Standing
  <2>4. attempts' = [attempts EXCEPT ![u] = n + 1]
    BY <1>2, <1>3, <2>2, RetryStands
  <2>5. IF Attempts!After(n) = "exhausted"
          THEN Answers' = [Answers EXCEPT ![u] = @ \cup {c}]
          ELSE UNCHANGED Answers
    <3>1. CASE CommitRetry(h)
      BY <1>2, <3>1, CommitAnswers, RetryStands DEF CommitRetry, Decision
    <3>2. CASE CommitExhausted(h)
      BY <1>2, <3>2, CommitAnswers, RetryStands DEF CommitExhausted, Decision, InsertOutcome
    <3>3. QED
      BY <1>5, <3>1, <3>2
  <2>6. QED
    BY <2>3, <2>4, <2>5 DEF Attempts!Fail, Attempts!Answer
<1>6. QED
  BY <1>4, <1>5 DEF Commit

LEMMA CommitReports ==
    ASSUME TypeInv, BudgetInv, FreshInv, EventInv, CallsAreKnown, OvertakenInv,
           NEW h \in Hooks, Commit(h)
    PROVE  \E c \in Calls : \E t \in Tasks : Attempts!Report(t, c) \/ Attempts!Overwrite(t, c)
<1> DEFINE c == hook[h].call
           u == hook[h].task
           n == hook[h].attempts
<1>1. EndTransaction(h)
  BY DEF Commit, CommitCompleted, CommitRetry, CommitExhausted
<1>2. h \in Open /\ u \in Tasks /\ c \in Calls /\ n \in Nat
  BY <1>1 DEF EndTransaction, Open, TypeInv, TypeOK, HookTypeOK, BusyHooksKnowTheirTask
<1>3. Attempts!Hear(c)
  BY <1>1, <1>2 DEF EndTransaction, RecordEvent, EventInv, Attempts!Hear
<1>4. Attempts!Succeed(u, c) \/ Attempts!Fail(u, c, n)
  BY CommitSays
<1>5. CASE u \in Correlated(c)
  <2>1. attempts[u] = n /\ UNCHANGED staleCommits
    BY <1>1, <1>2, <1>5 DEF FreshInv, ReadsAreFresh, EndTransaction
  <2>2. Standing[u] = "running"
    BY <1>2, <1>5, StandingIs DEF Correlated, Standing, InFlightStatus, CallTaskStatus
  <2>3. Attempts!Report(u, c)
    BY <1>3, <1>4, <2>1, <2>2 DEF Attempts!Report
  <2>4. QED
    BY <1>2, <2>3
<1>6. CASE u \notin Correlated(c)
  <2>1. attempts[u] > 0 /\ staleCommits' = staleCommits \cup {u}
    BY <1>1, <1>2, <1>6 DEF OvertakenInv, EndTransaction
  <2>2. n \in 0..(MaxAttempts - 1)
    BY <1>2, MaxAttemptsAssumption DEF BudgetInv, ReadsWithinBudget
  <2>3. Attempts!Overwrite(u, c)
    BY <1>3, <1>4, <2>1, <2>2 DEF Attempts!Overwrite
  <2>4. QED
    BY <1>2, <2>3
<1>7. QED
  BY <1>5, <1>6

LEMMA MarkIsHidden ==
    ASSUME TypeInv, TypeInv', NEW w \in Workers, MarkCalling(w)
    PROVE  UNCHANGED <<Standing, attempts, providerEvents>>
<1>1. \A t \in Tasks : status[t] \in CallTaskStatus /\ status'[t] \in CallTaskStatus
  BY DEF TypeInv, TypeOK, StoreTypeOK
<1>2. \A t \in Tasks : \/ status'[t] = status[t]
                       \/ {status[t], status'[t]} \subseteq InFlightStatus
  BY MarkWrites DEF Untouched, MarkedBy, InFlightStatus
<1>3. \A t \in Tasks : StandingOf(status'[t]) = StandingOf(status[t])
  BY <1>1, <1>2, StandingIs
<1>4. QED
  BY <1>3 DEF Standing, MarkCalling

LEMMA PromiseInit == Init => Attempts!Init /\ OvertakenInv
<1> SUFFICES ASSUME Init PROVE Attempts!Init /\ OvertakenInv
  OBVIOUS
<1>1. StandingOf("pending") = "waiting"
  BY StandingIs DEF CallTaskStatus
<1>2. Standing = [t \in Tasks |-> "waiting"]
  BY <1>1 DEF Init, StoreInit, Standing
<1>3. Answers = [t \in Tasks |-> {}]
  BY DEF Init, StoreInit, Answers, OutcomesOf
<1>4. Open = {}
  BY DEF Init, HookInit, Free, Open
<1>5. QED
  BY <1>2, <1>3, <1>4 DEF Init, StoreInit, HookInit, Attempts!Init, OvertakenInv

LEMMA PromiseStep ==
    ASSUME TypeInv, TypeInv', SlotInv', BudgetInv, FreshInv, EventInv, CallsAreKnown,
           OvertakenInv, [Next]_vars
    PROVE  [Attempts!Next]_(Attempts!vars)
<1>0. Attempts!vars = AttemptsView /\ Attempts!vars' = AttemptsView'
  BY DEF Attempts!vars, AttemptsView
<1>1. CASE \E h \in Hooks : Commit(h)
  BY <1>1, CommitReports DEF Attempts!Next
<1>2. CASE ~\E h \in Hooks : Commit(h)
  <2>1. UNCHANGED Answers
    BY <1>2, NoCommitNoOutcome DEF Answers
  <2>2. ASSUME NEW s \in Schedulers, ReapStep(s) PROVE Attempts!Next
    <3>1. PICK skipped \in SUBSET Stuck : Reap(s, skipped)
      BY <2>2 DEF ReapStep
    <3>2. Attempts!TimeOut(Stuck \ skipped)
      BY <2>1, <2>2, <3>1, ReapTimesOut DEF ReapStep, hookVars
    <3>3. Stuck \ skipped \in SUBSET Tasks
      BY DEF Stuck
    <3>4. QED
      BY <3>2, <3>3 DEF Attempts!Next
  <2>3. ASSUME NEW s \in Schedulers, ClaimStep(s) PROVE Attempts!Next
    <3>1. PICK open \in SUBSET Zones : \E skipped \in SUBSET Eligible(open) : Claim(s, open, skipped)
      BY <2>3 DEF ClaimStep
    <3>2. \E S \in SUBSET Tasks : Attempts!Begin(S)
      BY <2>1, <2>3, <3>1, ClaimBegins DEF ClaimStep, hookVars
    <3>3. QED
      BY <3>2 DEF Attempts!Next
  <2>4. ASSUME NEW h \in Hooks, NEW c \in Calls, Unknown(h, c) PROVE Attempts!Next
    <3>1. c \notin providerEvents /\ providerEvents' = providerEvents \cup {c}
          /\ UNCHANGED <<status, attempts, staleCommits>>
      BY <2>4 DEF Unknown, taskVars, hookVars
    <3>2. Attempts!Ignore(c)
      BY <2>1, <3>1 DEF Attempts!Ignore, Attempts!Hear, Standing
    <3>3. QED
      BY <3>2 DEF Attempts!Next
  <2>5. CASE UNCHANGED <<status, attempts, providerEvents, staleCommits>>
    BY <1>0, <2>1, <2>5 DEF AttemptsView, Standing
  <2>6. ASSUME NEW w \in Workers, MarkCalling(w), UNCHANGED hookVars
        PROVE  UNCHANGED (Attempts!vars)
    BY <1>0, <2>1, <2>6, MarkIsHidden DEF AttemptsView, hookVars
  <2>7. CASE \E s \in Schedulers : SendStep(s) \/ CrashStep(s)
    BY <2>5, <2>7 DEF SendStep, Send, CrashStep, SchedulerCrash, Forget, storeVars, taskVars, hookVars
  <2>8. CASE \E w \in Workers : WorkerStep(w)
    BY <2>5, <2>6, <2>8 DEF WorkerStep, Receive, DiscardPoison, Place, PlaceRefused,
        PlaceAnswerLost, Delete, WorkerCrash, storeVars, taskVars, hookVars
  <2>9. CASE \E h \in Hooks : HookStep(h)
    BY <1>2, <2>4, <2>5, <2>9 DEF HookStep, Commit, Duplicate, Correlate, Publish, Abort,
        storeVars, taskVars, hookVars
  <2>10. CASE (\E c \in Calls : ProviderStep(c)) \/ ClockStep \/ UNCHANGED vars
    BY <2>5, <2>10 DEF ProviderStep, ClockStep, Expire, vars, storeVars, taskVars, hookVars
  <2>11. QED
    BY <2>2, <2>3, <2>7, <2>8, <2>9, <2>10 DEF Next
<1>3. QED
  BY <1>1, <1>2

\* Whatever the deployment, the pipeline begins and ends attempts as promised.
THEOREM PipelineKeepsPromise == Spec => AttemptsAsPromised
<1>1. Spec => [](BudgetInv /\ EventInv /\ OvertakenInv)
  BY BudgetInit, BudgetStep, EventInit, EventStep, PromiseInit, OvertakenStep, TypeInvCorrect,
     PTL DEF Spec
<1>2. TypeInv /\ TypeInv' /\ SlotInv' /\ BudgetInv /\ FreshInv /\ EventInv /\ CallsAreKnown
        /\ OvertakenInv /\ [Next]_vars => [Attempts!Next]_(Attempts!vars)
  BY PromiseStep
<1>3. QED
  BY <1>1, <1>2, PromiseInit, TypeInvCorrect, SlotInvCorrect, FreshInvCorrect,
     CallsAreKnownCorrect, PTL DEF Spec, AttemptsAsPromised, Attempts!Spec
=============================================================================
