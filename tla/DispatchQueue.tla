--------------------------- MODULE DispatchQueue ---------------------------
(* The dispatch SQS queue: at-least-once and unordered. A message stays in  *)
(* the queue until it is deleted, so until then it may be received again    *)
(* (its visibility timeout is 10 s and it has no dead-letter queue).        *)
EXTENDS Deployment

CONSTANT Poison         \* messages whose body is not a dispatch order

VARIABLES
    dispatchQueue,      \* messages not deleted yet
    sent                \* sent[t]: messages sent for t so far (tells copies apart)

queueVars == <<dispatchQueue, sent>>

Orders == [task : Tasks, no : Nat]

ASSUME QueueAssumption == \A m \in Poison : m \notin Orders

QueueTypeOK ==
    /\ dispatchQueue \in SUBSET (Orders \cup Poison)
    /\ sent \in [Tasks -> Nat]

QueueInit ==
    /\ dispatchQueue = Poison
    /\ sent = [t \in Tasks |-> 0]

\* send_message
Enqueue(t) ==
    /\ sent' = [sent EXCEPT ![t] = @ + 1]
    /\ dispatchQueue' = dispatchQueue \cup {[task |-> t, no |-> sent[t] + 1]}

\* delete_message; deleting a message that is gone is not an error.
Remove(m) ==
    /\ dispatchQueue' = dispatchQueue \ {m}
    /\ UNCHANGED sent

\* The orders waiting for t.
OrdersFor(t) == {m \in dispatchQueue \ Poison : m.task = t}
=============================================================================
