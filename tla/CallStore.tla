----------------------------- MODULE CallStore -----------------------------
(* The operational store: the tables of common/models.py that the pipeline  *)
(* reads and writes, one variable per column, and the timers as the queries *)
(* see them. A transaction is one step of the component that runs it; the row *)
(* locks that make this sound are the subject of each component's comments. *)
EXTENDS CallTask, Deployment

VARIABLES
    status,             \* call_tasks.status
    attempts,           \* call_tasks.attempts
    providerCallId,     \* call_tasks.provider_call_id
    expired,            \* the row's timer has run out: next_eligible_at <= now
                        \* while it is pending, last_attempt_at < now - stuck_after
                        \* while it is in flight
    activeCount,        \* campaign_concurrency.active_count
    providerEvents,     \* events in provider_events, named by the call they report
    outcomes            \* number of outcomes rows whose payload names the call

taskVars  == <<status, attempts, providerCallId, expired>>
storeVars == <<taskVars, activeCount, providerEvents, outcomes>>

StoreTypeOK ==
    /\ status \in [Tasks -> CallTaskStatus]
    /\ attempts \in [Tasks -> Nat]
    /\ providerCallId \in [Tasks -> Calls \cup {NoCall}]
    /\ expired \in [Tasks -> BOOLEAN]
    /\ activeCount \in [Campaigns -> Nat]
    /\ providerEvents \in SUBSET Calls
    /\ outcomes \in [Calls -> Nat]

\* As ingestion leaves the tables: every task pending with next_eligible_at
\* NULL (due at once), no slot taken.
StoreInit ==
    /\ status = [t \in Tasks |-> "pending"]
    /\ attempts = [t \in Tasks |-> 0]
    /\ providerCallId = [t \in Tasks |-> NoCall]
    /\ expired = [t \in Tasks |-> TRUE]
    /\ activeCount = [c \in Campaigns |-> 0]
    /\ providerEvents = {}
    /\ outcomes = [c \in Calls |-> 0]
-----------------------------------------------------------------------------
OfCampaign(S, c) == {t \in S : CampaignOf[t] = c}

FlightTasks == {t \in Tasks : status[t] \in InFlightStatus}

InFlight(c) == OfCampaign(FlightTasks, c)

\* The release forgets one of the slots it should give back.
ReleasedOneShort(n, k) == IF n >= k /\ k > 0 THEN n - (k - 1) ELSE n

\* The release without its WHERE active_count > 0.
ReleasedUnguarded(n, k) == n - k

\* active_count - 1 WHERE active_count > 0, k times.
Released(n, k) == IF n >= k THEN n - k ELSE 0

\* Give back the slots of the rows S.
ReleaseSlots(S) ==
    activeCount' = [c \in Campaigns |->
                        Released(activeCount[c], Cardinality(OfCampaign(S, c)))]

\* Write plan_retry's decision into the rows S, with read[t] the attempts
\* the writer read for t. provider_call_id becomes NULL and a new backoff
\* starts (it means nothing in an exhausted row).
WriteRetry(S, read) ==
    /\ status' = [t \in Tasks |->
                    IF t \in S THEN PlanRetry(read[t]).status ELSE status[t]]
    /\ attempts' = [t \in Tasks |->
                    IF t \in S THEN PlanRetry(read[t]).attempts ELSE attempts[t]]
    /\ providerCallId' = [t \in Tasks |-> IF t \in S THEN NoCall ELSE providerCallId[t]]
    /\ expired' = [t \in Tasks |-> IF t \in S THEN FALSE ELSE expired[t]]
-----------------------------------------------------------------------------
(* Time. *)

\* The timer of a live row runs out.
Expire(t) ==
    /\ status[t] \notin TerminalStatus
    /\ ~expired[t]
    /\ expired' = [expired EXCEPT ![t] = TRUE]
    /\ UNCHANGED <<status, attempts, providerCallId, activeCount, providerEvents, outcomes>>
=============================================================================
