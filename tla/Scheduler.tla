----------------------------- MODULE Scheduler -----------------------------
(* The scheduler loop (scheduler/main.py run_tick): reap the stuck tasks    *)
(* and commit, claim due tasks under their campaigns' caps and commit, then *)
(* send one dispatch message per claimed task, for ever.                    *)
(*                                                                          *)
(* Reap and Claim select with FOR UPDATE SKIP LOCKED and hold their rows to *)
(* the commit, so each is one step, the commit (TickTx takes it apart);     *)
(* "skipped" is the set of rows that have the right state by then, but were *)
(* locked by another transaction, or not due yet, when it selected, or left *)
(* pending since their campaign was at its cap when the claim looked.       *)
EXTENDS CallStore, DispatchQueue

CONSTANTS
    Schedulers,
    BatchSize,          \* settings.batch_size, the LIMIT of the claim
    MaxCrashes          \* bound: scheduler crashes in a run

ASSUME SchedulerAssumption == BatchSize \in Nat \ {0} /\ MaxCrashes \in Nat

VARIABLES
    phase,              \* where each scheduler is in run_tick
    claimed,            \* tasks it claimed and has not sent yet
    crashes             \* scheduler crashes so far

schedVars == <<phase, claimed, crashes>>

SchedTypeOK ==
    /\ phase \in [Schedulers -> {"reap", "claim", "send"}]
    /\ claimed \in [Schedulers -> SUBSET Tasks]
    /\ crashes \in 0..MaxCrashes

SchedInit ==
    /\ phase = [s \in Schedulers |-> "reap"]
    /\ claimed = [s \in Schedulers |-> {}]
    /\ crashes = 0

Least(a, b) == IF a <= b THEN a ELSE b
-----------------------------------------------------------------------------
\* _FIND_SQL that looks at tasks in the call only.
StuckCallingOnly == {t \in Tasks : status[t] = "calling" /\ expired[t]}

\* The rows _FIND_SQL of the reaper selects.
Stuck == {t \in Tasks : status[t] \in InFlightStatus /\ expired[t]}

\* reap_stuck_tasks but for the counters: plan_retry on each of the rows. An
\* exhausted row gets no outcomes row, and nothing is published.
ReapRows(s, rows) ==
    /\ phase[s] = "reap"
    /\ WriteRetry(rows, attempts)
    /\ phase' = [phase EXCEPT ![s] = "claim"]
    /\ UNCHANGED <<providerEvents, outcomes, queueVars, claimed, crashes>>

\* reap_stuck_tasks and the commit after it: each row's slot is released too.
Reap(s, skipped) ==
    /\ ReapRows(s, Stuck \ skipped)
    /\ ReleaseSlots(Stuck \ skipped)
-----------------------------------------------------------------------------
\* _CLAIM_SQL without its status test.
EligibleWhateverStatus(open) ==
    {t \in Tasks : /\ status[t] \notin InFlightStatus
                   /\ expired[t]
                   /\ ZoneOf[t] \in open}

\* The rows _CLAIM_SQL may return: pending, due, and in a zone of "open", those
\* within their calling hours at the tick's "now". Nothing else looks at the
\* hours, so a tick may find any zones open; whether they still are when its
\* claim commits makes no difference.
Eligible(open) ==
    {t \in Tasks : /\ status[t] = "pending"
                   /\ expired[t]
                   /\ ZoneOf[t] \in open}

\* _RESERVE_SQL with <= for <.
HeadroomOffByOne(c) ==
    IF activeCount[c] <= MaxConcurrency[c] THEN MaxConcurrency[c] + 1 - activeCount[c] ELSE 0

\* How many times _RESERVE_SQL still succeeds for campaign c.
Headroom(c) ==
    IF activeCount[c] < MaxConcurrency[c] THEN MaxConcurrency[c] - activeCount[c] ELSE 0

\* The loop of claim_and_reserve over a batch of rows: each row takes a slot of
\* its campaign, or is left pending once the cap is reached. Which rows come
\* first (ORDER BY next_eligible_at) is left open.
Reservable(rows) ==
    {taken \in SUBSET rows :
        \A c \in Campaigns :
            Cardinality(OfCampaign(taken, c)) =
                Least(Cardinality(OfCampaign(rows, c)), Headroom(c))}

Batches(due) ==
    {rows \in SUBSET due : Cardinality(rows) = Least(BatchSize, Cardinality(due))}

\* Reserve a slot for each task of "taken" (_RESERVE_SQL) and mark it
\* dispatching as of now (_MARK_SQL).
Take(taken) ==
    /\ activeCount' = [c \in Campaigns |->
                         activeCount[c] + Cardinality(OfCampaign(taken, c))]
    /\ status' = [t \in Tasks |-> IF t \in taken THEN "dispatching" ELSE status[t]]
    /\ expired' = [t \in Tasks |-> IF t \in taken THEN FALSE ELSE expired[t]]

\* claim_and_reserve and the commit after it.
Claim(s, open, skipped) ==
    /\ phase[s] = "claim"
    /\ \E rows \in Batches(Eligible(open) \ skipped) : \E taken \in Reservable(rows) :
        /\ Take(taken)
        /\ claimed' = [claimed EXCEPT ![s] = taken]
        /\ phase' = [phase EXCEPT ![s] = IF taken = {} THEN "reap" ELSE "send"]
    /\ UNCHANGED <<attempts, providerCallId, providerEvents, outcomes, queueVars, crashes>>
-----------------------------------------------------------------------------
\* One iteration of the send loop; after the last the tick ends.
Send(s, t) ==
    /\ phase[s] = "send"
    /\ t \in claimed[s]
    /\ Enqueue(t)
    /\ claimed' = [claimed EXCEPT ![s] = @ \ {t}]
    /\ phase' = [phase EXCEPT ![s] = IF claimed[s] = {t} THEN "reap" ELSE "send"]
    /\ UNCHANGED <<storeVars, crashes>>

\* The process dies after the reap or the claim has committed and is started
\* again: what it had claimed and not sent is forgotten. (Before a commit the
\* transaction rolls back, and nothing has happened.)
Forget(s) ==
    /\ phase[s] # "reap"
    /\ phase' = [phase EXCEPT ![s] = "reap"]
    /\ claimed' = [claimed EXCEPT ![s] = {}]
    /\ UNCHANGED <<storeVars, queueVars>>

SchedulerCrash(s) ==
    /\ crashes < MaxCrashes
    /\ Forget(s)
    /\ crashes' = crashes + 1
=============================================================================
