------------------------------ MODULE CallTask ------------------------------
(* The state machine of one call task (common/call_task.py): its statuses,  *)
(* the transitions the code declares legal, and plan_retry, the decision    *)
(* taken after an attempt that did not complete.                            *)
EXTENDS Integers

CONSTANT MaxAttempts        \* MAX_ATTEMPTS

ASSUME MaxAttemptsAssumption == MaxAttempts \in Nat \ {0}

CallTaskStatus == {"pending", "dispatching", "calling", "completed", "exhausted"}

\* The statuses of a task that holds one of its campaign's slots.
InFlightStatus == {"dispatching", "calling"}

TerminalStatus == {"completed", "exhausted"}

AllowedTransitions ==
    [pending     |-> {"dispatching"},
     dispatching |-> {"calling", "pending"},
     calling     |-> {"completed", "pending", "exhausted"},
     completed   |-> {},
     exhausted   |-> {}]

CanTransition(src, dst) == dst \in AllowedTransitions[src]

\* plan_retry grants one attempt too many.
PlanRetryOffByOne(currentAttempts) ==
    [status   |-> IF currentAttempts + 1 > MaxAttempts THEN "exhausted" ELSE "pending",
     attempts |-> currentAttempts + 1]

\* plan_retry hands back the count it was given.
PlanRetryUncounted(currentAttempts) ==
    [status   |-> IF currentAttempts + 1 >= MaxAttempts THEN "exhausted" ELSE "pending",
     attempts |-> currentAttempts]

\* next_eligible_at = now + backoff is the row's timer, restarted by whoever
\* writes this decision (CallStore!expired).
PlanRetry(currentAttempts) ==
    [status   |-> IF currentAttempts + 1 >= MaxAttempts THEN "exhausted" ELSE "pending",
     attempts |-> currentAttempts + 1]
=============================================================================
