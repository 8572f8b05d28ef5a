-------------------------- MODULE DispatchWorker --------------------------
(* The dispatch worker (dispatch_worker/main.py run_tick): for each message *)
(* received, place the call, mark the task calling, delete the message. It  *)
(* never looks at the task before it places the call.                       *)
EXTENDS CallStore, DispatchQueue, Provider

CONSTANTS
    Workers,
    NoOrder             \* no message in hand

ASSUME WorkerAssumption == NoOrder \notin Orders

VARIABLES worker        \* each worker's place in the loop body, message and call

workerVars == <<worker>>

Idle == [pc |-> "idle", order |-> NoOrder, call |-> NoCall]

WorkerTypeOK ==
    worker \in [Workers -> [pc    : {"idle", "received", "placed", "marked"},
                            order : Orders \cup {NoOrder},
                            call  : Calls \cup {NoCall}]]

WorkerInit == worker = [w \in Workers |-> Idle]

TaskInHand(w) == worker[w].order.task
-----------------------------------------------------------------------------
\* receive_message: any message not deleted, also one that this worker or
\* another received before. (The ten of a batch are handled one by one.)
Receive(w) ==
    /\ worker[w].pc = "idle"
    /\ \E m \in dispatchQueue \ Poison :
        worker' = [worker EXCEPT ![w] = [pc |-> "received", order |-> m, call |-> NoCall]]
    /\ UNCHANGED <<storeVars, queueVars, providerVars>>

\* A malformed body is deleted so that it cannot be redelivered for ever.
DiscardPoison(w) ==
    /\ worker[w].pc = "idle"
    /\ \E m \in dispatchQueue \cap Poison : Remove(m)
    /\ UNCHANGED <<storeVars, providerVars, workerVars>>

\* place_call returns the provider's call id.
Place(w, c) ==
    /\ worker[w].pc = "received"
    /\ AcceptCall(c, TaskInHand(w))
    /\ worker' = [worker EXCEPT ![w].pc = "placed", ![w].call = c]
    /\ UNCHANGED <<storeVars, queueVars>>

\* place_call fails and the message is deleted all the same.
PlaceRefusedDeletes(w) ==
    /\ worker[w].pc = "received"
    /\ Remove(worker[w].order)
    /\ worker' = [worker EXCEPT ![w] = Idle]
    /\ UNCHANGED <<storeVars, providerVars>>

\* place_call fails (not 200, or the request does not arrive): the message is
\* left for redelivery.
PlaceRefused(w) ==
    /\ worker[w].pc = "received"
    /\ worker' = [worker EXCEPT ![w] = Idle]
    /\ UNCHANGED <<storeVars, queueVars, providerVars>>

\* The provider accepts the call but the answer is lost or comes after the
\* client's 10 s timeout: an httpx.HTTPError, the same branch.
PlaceAnswerLost(w, c) ==
    /\ worker[w].pc = "received"
    /\ AcceptCall(c, TaskInHand(w))
    /\ worker' = [worker EXCEPT ![w] = Idle]
    /\ UNCHANGED <<storeVars, queueVars>>

\* _MARK_CALLING without its status test.
MarkableAlways(t) == TRUE

\* The row _MARK_CALLING updates.
Markable(t) == status[t] = "dispatching"

\* _MARK_CALLING and the commit; the number of rows it hit is not looked at.
MarkCalling(w) ==
    /\ worker[w].pc = "placed"
    /\ IF Markable(TaskInHand(w))
         THEN /\ status' = [status EXCEPT ![TaskInHand(w)] = "calling"]
              /\ providerCallId' = [providerCallId EXCEPT ![TaskInHand(w)] = worker[w].call]
         ELSE UNCHANGED <<status, providerCallId>>
    /\ worker' = [worker EXCEPT ![w].pc = "marked"]
    /\ UNCHANGED <<attempts, expired, activeCount, providerEvents, outcomes,
                   queueVars, providerVars>>

\* delete_message
Delete(w) ==
    /\ worker[w].pc = "marked"
    /\ Remove(worker[w].order)
    /\ worker' = [worker EXCEPT ![w] = Idle]
    /\ UNCHANGED <<storeVars, providerVars>>

\* The process dies with a message in hand and is started again; an open
\* transaction rolls back and the message is still in the queue.
WorkerCrash(w) ==
    /\ worker[w].pc \in {"placed", "marked"}
    /\ worker' = [worker EXCEPT ![w] = Idle]
    /\ UNCHANGED <<storeVars, queueVars, providerVars>>
=============================================================================
