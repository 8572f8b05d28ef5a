-------------------------- MODULE OutcomeService --------------------------
(* The outcome service (outcome_service/processing.py process_event), one   *)
(* thread per webhook being handled. Its transaction inserts the event,     *)
(* reads the task with a plain SELECT, uploads the transcript, and only     *)
(* then updates the row it read, without looking at it again: the step that *)
(* reads and the step that writes are apart, and any other component may    *)
(* commit between them. Publication follows the commit.                     *)
EXTENDS CallStore, Provider

CONSTANTS Hooks         \* threads of the web server's pool

VARIABLES
    hook,               \* what each thread is doing
    outcomeQueue,       \* calls whose outcome was sent to outcome-delivery
    staleCommits        \* history: tasks some commit wrote although the row was
                        \* no longer the one that had been read

hookVars == <<hook, outcomeQueue, staleCommits>>

Free == [pc |-> "free", call |-> NoCall, task |-> NoTask, attempts |-> 0]

HookTypeOK ==
    /\ hook \in [Hooks -> [pc       : {"free", "open", "committed"},
                           call     : Calls \cup {NoCall},
                           task     : Tasks \cup {NoTask},
                           attempts : Nat]]
    /\ outcomeQueue \in SUBSET Calls
    /\ staleCommits \in SUBSET Tasks

HookInit ==
    /\ hook = [h \in Hooks |-> Free]
    /\ outcomeQueue = {}
    /\ staleCommits = {}
-----------------------------------------------------------------------------
\* The task a webhook for call c is about: only one still in that call.
Correlated(c) == {t \in Tasks : providerCallId[t] = c /\ status[t] = "calling"}

\* No transaction waits for any other that inserts the same event.
NeverBlocked(c) == TRUE

\* The INSERT of the event goes ahead: it waits while another transaction has
\* inserted the same event and not ended.
Unblocked(c) == \A h \in Hooks : ~(hook[h].pc = "open" /\ hook[h].call = c)

\* A delivery for call c reaches the free thread h, and the INSERT returns.
Deliver(h, c) ==
    /\ hook[h].pc = "free"
    /\ posts[c] > 0
    /\ Unblocked(c)
    /\ posts' = [posts EXCEPT ![c] = @ - 1]
    /\ UNCHANGED <<callTask, callState>>

\* The event is already recorded.
Duplicate(h, c) ==
    /\ Deliver(h, c)
    /\ c \in providerEvents
    /\ UNCHANGED <<storeVars, hookVars>>

\* The event is new but no task is in that call: the event is recorded all
\* the same.
Unknown(h, c) ==
    /\ Deliver(h, c)
    /\ c \notin providerEvents
    /\ Correlated(c) = {}
    /\ providerEvents' = providerEvents \cup {c}
    /\ UNCHANGED <<taskVars, activeCount, outcomes, hookVars>>

\* The task is found; its attempts are what plan_retry will be given. The
\* transaction stays open (over put_text, when the call completed).
Correlate(h, c) ==
    /\ Deliver(h, c)
    /\ c \notin providerEvents
    /\ \E t \in Correlated(c) :
        hook' = [hook EXCEPT ![h] = [pc |-> "open", call |-> c, task |-> t,
                                     attempts |-> attempts[t]]]
    /\ UNCHANGED <<storeVars, outcomeQueue, staleCommits>>
-----------------------------------------------------------------------------
\* The event becomes durable with the effects of its transaction.
RecordEvent(c) == providerEvents' = providerEvents \cup {c}

\* The updates and the commit, common to the three endings: the row's lock and
\* the counter's are taken by the updates and held to the commit.
EndTransaction(h) ==
    /\ hook[h].pc = "open"
    /\ RecordEvent(hook[h].call)
    /\ ReleaseSlots({hook[h].task})
    /\ staleCommits' = IF hook[h].task \in Correlated(hook[h].call)
                         THEN staleCommits ELSE staleCommits \cup {hook[h].task}
    /\ UNCHANGED <<outcomeQueue, providerVars>>

\* INSERT INTO outcomes; the thread goes on to publish it.
InsertOutcome(h) ==
    /\ outcomes' = [outcomes EXCEPT ![hook[h].call] = @ + 1]
    /\ hook' = [hook EXCEPT ![h].pc = "committed"]

Decision(h) == PlanRetry(hook[h].attempts).status

\* 3a. The call completed.
CommitCompleted(h) ==
    /\ EndTransaction(h)
    /\ callState[hook[h].call] = "completed"
    /\ status' = [status EXCEPT ![hook[h].task] = "completed"]
    /\ InsertOutcome(h)
    /\ UNCHANGED <<attempts, providerCallId, expired>>

\* 3b. It failed, and the task has attempts left.
CommitRetry(h) ==
    /\ EndTransaction(h)
    /\ callState[hook[h].call] = "failed"
    /\ Decision(h) = "pending"
    /\ WriteRetry({hook[h].task}, [t \in Tasks |-> hook[h].attempts])
    /\ hook' = [hook EXCEPT ![h] = Free]
    /\ UNCHANGED outcomes

\* 3b. It failed on the last attempt.
CommitExhausted(h) ==
    /\ EndTransaction(h)
    /\ callState[hook[h].call] = "failed"
    /\ Decision(h) = "exhausted"
    /\ WriteRetry({hook[h].task}, [t \in Tasks |-> hook[h].attempts])
    /\ InsertOutcome(h)

Commit(h) == CommitCompleted(h) \/ CommitRetry(h) \/ CommitExhausted(h)

\* _publish
Publish(h) ==
    /\ hook[h].pc = "committed"
    /\ outcomeQueue' = outcomeQueue \cup {hook[h].call}
    /\ hook' = [hook EXCEPT ![h] = Free]
    /\ UNCHANGED <<storeVars, providerVars, staleCommits>>

\* An exception (S3, the database, SQS) or the death of the process: an open
\* transaction rolls back, event included; a committed outcome is not
\* published, now or later.
Abort(h) ==
    /\ hook[h].pc # "free"
    /\ hook' = [hook EXCEPT ![h] = Free]
    /\ UNCHANGED <<storeVars, providerVars, outcomeQueue, staleCommits>>
=============================================================================
