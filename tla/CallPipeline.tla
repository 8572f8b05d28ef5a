---------------------------- MODULE CallPipeline ----------------------------
(* The call pipeline: schedulers, dispatch workers, the provider and the    *)
(* outcome service around the store and the dispatch queue. Each component  *)
(* is a module; this one interleaves their steps, lets time pass, and says  *)
(* what the whole must never do.                                            *)
EXTENDS Scheduler, DispatchWorker, OutcomeService

vars == <<storeVars, queueVars, schedVars, providerVars, workerVars, hookVars>>

Init ==
    /\ StoreInit
    /\ QueueInit
    /\ SchedInit
    /\ ProviderInit
    /\ WorkerInit
    /\ HookInit

\* A transaction of s may leave out any row: one that another transaction had
\* locked, or that was not due yet, when it selected.
ReapStep(s) ==
    /\ \E skipped \in SUBSET Stuck : Reap(s, skipped)
    /\ UNCHANGED <<providerVars, workerVars, hookVars>>

ClaimStep(s) ==
    /\ \E open \in SUBSET Zones : \E skipped \in SUBSET Eligible(open) :
          Claim(s, open, skipped)
    /\ UNCHANGED <<providerVars, workerVars, hookVars>>

SendStep(s) ==
    /\ \E t \in Tasks : Send(s, t)
    /\ UNCHANGED <<providerVars, workerVars, hookVars>>

CrashStep(s) ==
    /\ SchedulerCrash(s)
    /\ UNCHANGED <<providerVars, workerVars, hookVars>>

WorkerStep(w) ==
    /\ \/ Receive(w)
       \/ DiscardPoison(w)
       \/ \E c \in Calls : Place(w, c)
       \/ PlaceRefused(w)
       \/ \E c \in Calls : PlaceAnswerLost(w, c)
       \/ MarkCalling(w)
       \/ Delete(w)
       \/ WorkerCrash(w)
    /\ UNCHANGED <<schedVars, hookVars>>

HookStep(h) ==
    /\ \/ \E c \in Calls : Duplicate(h, c) \/ Unknown(h, c) \/ Correlate(h, c)
       \/ CommitCompleted(h)
       \/ CommitRetry(h)
       \/ CommitExhausted(h)
       \/ Publish(h)
       \/ Abort(h)
    /\ UNCHANGED <<queueVars, schedVars, workerVars>>

ProviderStep(c) ==
    /\ EndCall(c) \/ DropCallback(c)
    /\ UNCHANGED <<storeVars, queueVars, schedVars, workerVars, hookVars>>

ClockStep ==
    /\ \E t \in Tasks : Expire(t)
    /\ UNCHANGED <<queueVars, schedVars, providerVars, workerVars, hookVars>>

Next ==
    \/ \E s \in Schedulers :
          ReapStep(s) \/ ClaimStep(s) \/ SendStep(s) \/ CrashStep(s)
    \/ \E w \in Workers : WorkerStep(w)
    \/ \E h \in Hooks : HookStep(h)
    \/ \E c \in Calls : ProviderStep(c)
    \/ ClockStep

Spec == Init /\ [][Next]_vars
-----------------------------------------------------------------------------
(* Fairness. The scheduler ticks every poll_interval_seconds for ever, so    *)
(* each of its phases ends. A transaction takes milliseconds, so again and   *)
(* again a reap leaves out no row but those another transaction may hold. A  *)
(* zone's calling hours last 13 hours a day, many ticks long, so again and   *)
(* again there is such a claim in them too (ClaimIn). Timers run out. A      *)
(* transaction that holds or will write a row ends, one way or another.      *)
(* Nothing is assumed of the provider, of the delivery of webhooks or of the *)
(* dispatch queue, and MaxCrashes bounds the scheduler's crashes.            *)

\* Rows of call_tasks that another transaction may hold when s selects with
\* SKIP LOCKED: a webhook's or a worker's row between its update and its
\* commit, and the rows another scheduler has selected.
LockedRows(s) ==
    {hook[h].task : h \in {g \in Hooks : hook[g].pc = "open"}}
    \cup {TaskInHand(w) : w \in {v \in Workers : worker[v].pc = "placed"}}
    \cup UNION {CASE phase[o] = "reap"  -> Stuck
                  [] phase[o] = "claim" -> Eligible(Zones)
                  [] OTHER              -> {} : o \in Schedulers \ {s}}

PromptReap(s) ==
    /\ \E skipped \in SUBSET (Stuck \cap LockedRows(s)) : Reap(s, skipped)
    /\ UNCHANGED <<providerVars, workerVars, hookVars>>

ClaimIn(s, z) ==
    /\ \E open \in {o \in SUBSET Zones : z \in o} :
          \E skipped \in SUBSET (Eligible(open) \cap LockedRows(s)) : Claim(s, open, skipped)
    /\ UNCHANGED <<providerVars, workerVars, hookVars>>

ExpireStep(t) ==
    Expire(t) /\ UNCHANGED <<queueVars, schedVars, providerVars, workerVars, hookVars>>

LeaveRow(w) == MarkCalling(w) /\ UNCHANGED <<schedVars, hookVars>>

EndHook(h) ==
    (Commit(h) \/ Publish(h) \/ Abort(h)) /\ UNCHANGED <<queueVars, schedVars, workerVars>>

Fairness ==
    /\ \A s \in Schedulers : /\ SF_vars(PromptReap(s))
                             /\ \A z \in Zones : SF_vars(ClaimIn(s, z))
                             /\ WF_vars(SendStep(s))
    /\ \A t \in Tasks : WF_vars(ExpireStep(t))
    /\ \A w \in Workers : WF_vars(LeaveRow(w))
    /\ \A h \in Hooks : WF_vars(EndHook(h))

FairSpec == Spec /\ Fairness
-----------------------------------------------------------------------------
(* Properties. *)

\* Every variable holds a value of its column, queue or record.
TypeOK ==
    /\ StoreTypeOK
    /\ QueueTypeOK
    /\ SchedTypeOK
    /\ ProviderTypeOK
    /\ WorkerTypeOK
    /\ HookTypeOK

\* A worker past receive_message has an order in hand, and a webhook thread past
\* its SELECT a task and a call: with them TypeOK is inductive.
BusyWorkersHoldOrders ==
    \A w \in Workers : worker[w].pc # "idle" => worker[w].order \in Orders

BusyHooksKnowTheirTask ==
    \A h \in Hooks : hook[h].pc # "free" => hook[h].task \in Tasks /\ hook[h].call \in Calls

TypeInv == TypeOK /\ BusyWorkersHoldOrders /\ BusyHooksKnowTheirTask

\* A slot is never lost for good: active_count counts at most the tasks in
\* flight, whatever commits late, is reaped or crashes. If it could exceed
\* them, the campaign would run below its cap for ever (claim.py _RESERVE_SQL,
\* reaper.py _RELEASE_SQL, processing.py _release).
NoSlotLeak ==
    \A c \in Campaigns : activeCount[c] <= Cardinality(InFlight(c))

\* The reservation never lets the counter pass the cap (claim.py _RESERVE_SQL).
CounterWithinCap ==
    \A c \in Campaigns : activeCount[c] <= MaxConcurrency[c]

\* A campaign none of whose tasks a webhook wrote from a stale read has its
\* slots exactly accounted for, hence at most max_concurrency tasks in flight.
\* This is the race-free cap the code does keep; CapHolds is the one it claims.
SlotAccounting ==
    \A c \in Campaigns :
        OfCampaign(staleCommits, c) = {} =>
            /\ activeCount[c] = Cardinality(InFlight(c))
            /\ Cardinality(InFlight(c)) <= MaxConcurrency[c]

\* With TypeInv it is inductive: each of the three parts leans on the others.
SlotInv == NoSlotLeak /\ CounterWithinCap /\ SlotAccounting

\* A live task has an attempt left, an exhausted one has used them all: also
\* when a stale commit has put attempts back, the two columns agree
\* (call_task.py plan_retry, MAX_ATTEMPTS).
AttemptsWithinBudget ==
    \A t \in Tasks :
        /\ attempts[t] <= MaxAttempts
        /\ status[t] \notin TerminalStatus => attempts[t] < MaxAttempts
        /\ status[t] = "exhausted" => attempts[t] = MaxAttempts

\* One provider event makes at most one outcomes row, however many copies of
\* its webhook are handled, at once or after a rollback (processing.py:42-50).
OneOutcomePerCall == \A c \in Calls : outcomes[c] <= 1

OutcomesOf(t) == {c \in Calls : callTask[c] = t /\ outcomes[c] > 0}

\* A task that no stale commit wrote has no outcome while it is live, exactly
\* one when it is completed, and at most one when it is exhausted (the reaper
\* writes none). Two of them would be delivered to the CRM as two outcomes.
OneOutcomePerTask ==
    \A t \in Tasks \ staleCommits :
        /\ status[t] \notin TerminalStatus => OutcomesOf(t) = {}
        /\ status[t] = "completed" => Cardinality(OutcomesOf(t)) = 1
        /\ Cardinality(OutcomesOf(t)) <= 1

\* No attempt is dispatched twice by the schedulers: the messages sent and
\* about to be sent for a task never outnumber the attempts it has begun.
OneOrderPerAttempt ==
    \A t \in Tasks \ staleCommits :
        sent[t] + Cardinality({s \in Schedulers : t \in claimed[s]})
            <= attempts[t] + (IF status[t] \in InFlightStatus \cup {"completed"} THEN 1 ELSE 0)

\* A task is dispatching only while a message that will place its call is in
\* the queue or about to be sent, unless a scheduler died between the commit
\* and the send (scheduler/main.py:29-31): the worker never deletes the last
\* message of a task it has not moved on.
NoOrderLost ==
    crashes = 0 =>
        \A t \in Tasks : status[t] = "dispatching" =>
            OrdersFor(t) # {} \/ \E s \in Schedulers : t \in claimed[s]

\* A webhook that read t before this step ends its transaction in it.
CommitsOver(t) ==
    \E h \in Hooks : hook[h].pc = "open" /\ hook[h].task = t /\ hook'[h].pc # "open"

MovesAsDeclared(t) ==
    status'[t] # status[t] =>
        \/ CanTransition(status[t], status'[t])
        \/ status[t] = "dispatching" /\ status'[t] = "exhausted"
        \/ CommitsOver(t) /\ t \in staleCommits'

\* The status of a task moves only as ALLOWED_TRANSITIONS says, or from
\* dispatching to exhausted by the reaper (which test_reaper.py:80 expects and
\* the table does not have); the one exception is a webhook that writes the
\* task from a stale read, and may even take it out of a terminal status.
StatusMovesAsDeclared == [][\A t \in Tasks : MovesAsDeclared(t)]_vars

AttemptCounted(t) ==
    ~(CommitsOver(t) /\ t \in staleCommits') =>
        attempts'[t] = attempts[t] +
            (IF status[t] \in InFlightStatus /\ status'[t] \in {"pending", "exhausted"}
               THEN 1 ELSE 0)

\* Every attempt that ends without completing is counted, once, whoever ends it
\* (reaper or webhook), and nothing else moves attempts: retries stay within
\* MAX_ATTEMPTS. The exception is again a stale commit, which can take
\* attempts back.
EndedAttemptIsCounted == [][\A t \in Tasks : AttemptCounted(t)]_vars

StandingOf(st) == CASE st = "pending"         -> "waiting"
                    [] st \in InFlightStatus -> "running"
                    [] st \in TerminalStatus -> st

Standing == [t \in Tasks |-> StandingOf(status[t])]

Answers == [t \in Tasks |-> OutcomesOf(t)]

Attempts == INSTANCE CallAttempts WITH
                standing <- Standing, tries <- attempts, heard <- providerEvents,
                answers <- Answers, overwritten <- staleCommits

\* Every interleaving of schedulers, workers, webhooks and the clock, with the
\* crashes, losses and duplicates there are, does no more than begin attempts
\* within the cap and end each of them once, by the reaper or by one webhook,
\* whose task and outcome move together; what is more takes a webhook that was
\* overtaken by the reaper (claim.py:49-70, reaper.py:25-47, processing.py:36-106).
AttemptsAsPromised == Attempts!Spec

\* The stuck-task reaper guarantees liveness (README): whatever crashes or is
\* lost, in the end every task is completed or exhausted for good, and every
\* slot is free again.
EverythingSettles ==
    <>[](/\ \A t \in Tasks : status[t] \in TerminalStatus
         /\ \A c \in Campaigns : activeCount[c] = 0)
-----------------------------------------------------------------------------
(* What the repository says of the pipeline and the code does not do. *)

\* README.md:118 "Per-campaign concurrency caps - a race-free atomic counter":
\* at most max_concurrency tasks of a campaign in flight.
CapHolds == \A c \in Campaigns : Cardinality(InFlight(c)) <= MaxConcurrency[c]

\* The same cap on the calls that are really talking: a redelivered or late
\* message, or a lost answer, places a call no slot was reserved for.
LiveCallsWithinCap ==
    \A c \in Campaigns :
        Cardinality({k \in Talking : CampaignOf[callTask[k]] = c}) <= MaxConcurrency[c]

\* README.md:117 "At-least-once delivery": a committed outcome has been
\* published, or the thread that committed it is about to publish it.
OutcomesArePublished ==
    \A c \in Calls : outcomes[c] > 0 =>
        \/ c \in outcomeQueue
        \/ \E h \in Hooks : hook[h].pc = "committed" /\ hook[h].call = c

\* README.md:6 "capture each outcome, and deliver it back": a completed call
\* whose webhook was accepted has its outcome recorded.
AcceptedWebhooksCount ==
    \A c \in Calls :
        c \in providerEvents /\ callState[c] = "completed" => outcomes[c] > 0
=============================================================================
