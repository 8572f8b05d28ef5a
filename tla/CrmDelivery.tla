---------------------------- MODULE CrmDelivery ----------------------------
(* The delivery of outcomes to the client's CRM: the outcome-delivery queue *)
(* with its redrive to crm-dlq, the CRM workers (crm_worker/main.py         *)
(* run_tick) that post each message and log the attempt, and the CRM, which *)
(* keeps one record per idempotency key (mock_crm/main.py).                 *)
EXTENDS Integers, FiniteSets, Sequences

CONSTANTS
    Outcomes,           \* outcomes the outcome service may publish; their
                        \* message and their idempotency key have the same name
    Malformed,          \* messages in the queue with no outcome_id
    CrmWorkers,
    MaxReceives,        \* redrive_policy.maxReceiveCount
    BatchMax,           \* MaxNumberOfMessages of a receive
    NoReceipt,          \* no message in hand
    MaxCrashes          \* bound: worker processes killed in a run

Messages == Outcomes \cup Malformed

\* A receipt handle names the message and which of its receives it is; the
\* number is its ApproximateReceiveCount.
Receipts == [msg : Messages, no : 1..MaxReceives]

ASSUME CrmAssumption ==
    /\ MaxReceives \in Nat \ {0}
    /\ BatchMax \in Nat \ {0}
    /\ MaxCrashes \in Nat
    /\ Outcomes \cap Malformed = {}
    /\ NoReceipt \notin Receipts

VARIABLES
    place,              \* where each message is
    receives,           \* its receive count
    hidden,             \* messages received whose visibility timeout is running
    recorded,           \* _received of the CRM
    late,               \* posts the client gave up on and the CRM has yet to handle
    deliveryLog,        \* crm_delivery_attempts: the statuses logged for a receipt
    crmWorker,          \* what each worker is doing
    crashes,            \* processes killed so far
    stops               \* history: processes that ended, for whatever reason

queueVars  == <<place, receives, hidden>>
serverVars == <<recorded, late>>
endVars    == <<crashes, stops>>
vars       == <<queueVars, serverVars, deliveryLog, crmWorker, endVars>>

Resting(pc) == [pc |-> pc, batch |-> {}, current |-> NoReceipt]

CrmTypeOK ==
    /\ place \in [Messages -> {"unsent", "queued", "deleted", "dead"}]
    /\ receives \in [Messages -> 0..MaxReceives]
    /\ hidden \in SUBSET Messages
    /\ recorded \in SUBSET Outcomes
    /\ late \in SUBSET Outcomes
    /\ deliveryLog \in [Receipts -> Seq({"delivered", "failed"})]
    /\ crmWorker \in [CrmWorkers -> [pc : {"loop", "delivered", "logged", "failed",
                                           "backoff", "stopped"},
                                     batch : SUBSET Receipts,
                                     current : Receipts \cup {NoReceipt}]]
    /\ crashes \in 0..MaxCrashes
    /\ stops \in Nat

Init ==
    /\ place = [m \in Messages |-> IF m \in Malformed THEN "queued" ELSE "unsent"]
    /\ receives = [m \in Messages |-> 0]
    /\ hidden = {}
    /\ recorded = {}
    /\ late = {}
    /\ deliveryLog = [r \in Receipts |-> <<>>]
    /\ crmWorker = [w \in CrmWorkers |-> Resting("loop")]
    /\ crashes = 0
    /\ stops = 0
-----------------------------------------------------------------------------
(* The queue. *)

\* The outcome service publishes o (OutcomeService!Publish).
Publish(o) ==
    /\ place[o] = "unsent"
    /\ place' = [place EXCEPT ![o] = "queued"]
    /\ UNCHANGED <<receives, hidden, serverVars, deliveryLog, crmWorker, endVars>>

\* The visibility timeout, or the backoff set over it, runs out.
Reappear(m) ==
    /\ place[m] = "queued"
    /\ m \in hidden
    /\ hidden' = hidden \ {m}
    /\ UNCHANGED <<place, receives, serverVars, deliveryLog, crmWorker, endVars>>

Visible == {m \in Messages : place[m] = "queued" /\ m \notin hidden}

\* A worker at receive_message: its batch is done.
Polling(w) == crmWorker[w].pc = "loop" /\ crmWorker[w].batch = {}

\* The queue has no redrive policy.
RedriveMissing(m) == FALSE

\* A worker polls, and the queue moves a message that has been received often
\* enough to crm-dlq instead of handing it out again.
Redrive(m) ==
    /\ m \in Visible
    /\ receives[m] = MaxReceives
    /\ \E w \in CrmWorkers : Polling(w)
    /\ place' = [place EXCEPT ![m] = "dead"]
    /\ UNCHANGED <<receives, hidden, serverVars, deliveryLog, crmWorker, endVars>>

\* Messages a receive would hand out if there were no redrive.
ReceivableForEver == Visible

Receivable == {m \in Visible : receives[m] < MaxReceives}

\* delete_message with receipt r. Of a message that was received again since,
\* SQS may or may not delete; one that is in crm-dlq stays there.
DeleteMessage(r) ==
    /\ \/ /\ place[r.msg] = "queued"
          /\ place' = [place EXCEPT ![r.msg] = "deleted"]
       \/ /\ place[r.msg] # "queued" \/ r.no # receives[r.msg]
          /\ UNCHANGED place
    /\ UNCHANGED <<receives, hidden>>
-----------------------------------------------------------------------------
(* The worker. *)

\* receive_message hands out some of the visible messages. All their timeouts
\* start now, also that of the message the loop will come to last.
Receive(w) ==
    /\ Polling(w)
    /\ \E S \in SUBSET Receivable :
        /\ S # {}
        /\ Cardinality(S) <= BatchMax
        /\ receives' = [m \in Messages |-> IF m \in S THEN receives[m] + 1 ELSE receives[m]]
        /\ hidden' = hidden \cup S
        /\ crmWorker' = [crmWorker EXCEPT
                            ![w].batch = {[msg |-> m, no |-> receives[m] + 1] : m \in S}]
    /\ UNCHANGED <<place, serverVars, deliveryLog, endVars>>

\* The loop turns to receipt r of its batch, and gets to pc with it.
TakeUp(w, r, pc) ==
    /\ crmWorker[w].pc = "loop"
    /\ r \in crmWorker[w].batch
    /\ crmWorker' = [crmWorker EXCEPT
                        ![w] = [pc |-> pc, batch |-> @.batch \ {r}, current |-> r]]

\* The first except branch leaves the loop instead of going on with it.
DiscardMalformedEndsBatch(w, r) ==
    /\ r.msg \in Malformed
    /\ crmWorker[w].pc = "loop"
    /\ r \in crmWorker[w].batch
    /\ crmWorker' = [crmWorker EXCEPT ![w] = Resting("loop")]
    /\ DeleteMessage(r)
    /\ UNCHANGED <<serverVars, deliveryLog, endVars>>

\* A message without an outcome_id is deleted, so that it cannot come back.
DiscardMalformed(w, r) ==
    /\ r.msg \in Malformed
    /\ crmWorker[w].pc = "loop"
    /\ r \in crmWorker[w].batch
    /\ crmWorker' = [crmWorker EXCEPT ![w].batch = @ \ {r}]
    /\ DeleteMessage(r)
    /\ UNCHANGED <<serverVars, deliveryLog, endVars>>

\* deliver returns a 2xx: the CRM recorded the outcome, or had it already.
PostAccepted(w, r) ==
    /\ r.msg \in Outcomes
    /\ TakeUp(w, r, "delivered")
    /\ recorded' = recorded \cup {r.msg}
    /\ UNCHANGED <<late, queueVars, deliveryLog, endVars>>

\* deliver does not look at the status of the answer.
PostRefusedUnnoticed(w, r) ==
    /\ r.msg \in Outcomes
    /\ TakeUp(w, r, "delivered")
    /\ UNCHANGED <<serverVars, queueVars, deliveryLog, endVars>>

\* deliver raises a CrmError (any other status) or cannot connect.
PostRefused(w, r) ==
    /\ r.msg \in Outcomes
    /\ TakeUp(w, r, "failed")
    /\ UNCHANGED <<serverVars, queueVars, deliveryLog, endVars>>

\* deliver raises because no answer came within the client's 10 s; the CRM has
\* the request.
PostTimesOut(w, r) ==
    /\ r.msg \in Outcomes
    /\ TakeUp(w, r, "failed")
    /\ late' = late \cup {r.msg}
    /\ UNCHANGED <<recorded, queueVars, deliveryLog, endVars>>

\* A branch goes on from one pc to the next.
Advance(w, from, to) ==
    /\ crmWorker[w].pc = from
    /\ crmWorker' = [crmWorker EXCEPT ![w].pc = to]

\* _log and its commit.
Log(r, s) == deliveryLog' = [deliveryLog EXCEPT ![r] = Append(@, s)]

LogDelivered(w) ==
    /\ Advance(w, "delivered", "logged")
    /\ Log(crmWorker[w].current, "delivered")
    /\ UNCHANGED <<queueVars, serverVars, endVars>>

\* The except branch has no continue.
LogFailedFallsThrough(w) ==
    /\ Advance(w, "failed", "delivered")
    /\ Log(crmWorker[w].current, "failed")
    /\ UNCHANGED <<queueVars, serverVars, endVars>>

LogFailed(w) ==
    /\ Advance(w, "failed", "backoff")
    /\ Log(crmWorker[w].current, "failed")
    /\ UNCHANGED <<queueVars, serverVars, endVars>>

\* The loop is done with the message in hand.
Proceed(w) == crmWorker' = [crmWorker EXCEPT ![w].pc = "loop", ![w].current = NoReceipt]

Acknowledge(w) ==
    /\ crmWorker[w].pc = "logged"
    /\ DeleteMessage(crmWorker[w].current)
    /\ Proceed(w)
    /\ UNCHANGED <<serverVars, deliveryLog, endVars>>

InHiding(m) == place[m] = "queued" /\ m \in hidden

\* change_message_visibility starts another timeout for a message that is
\* still hidden, by this receive or by a later one.
BackOff(w) ==
    /\ crmWorker[w].pc = "backoff"
    /\ InHiding(crmWorker[w].current.msg)
    /\ Proceed(w)
    /\ UNCHANGED <<queueVars, serverVars, deliveryLog, endVars>>

\* The process ends, and its batch with it.
Stop(w) ==
    /\ crmWorker' = [crmWorker EXCEPT ![w] = Resting("stopped")]
    /\ stops' = stops + 1

\* change_message_visibility raises for a message that is not hidden any more,
\* and nothing catches it.
BackOffRaises(w) ==
    /\ crmWorker[w].pc = "backoff"
    /\ ~InHiding(crmWorker[w].current.msg)
    /\ Stop(w)
    /\ UNCHANGED <<queueVars, serverVars, deliveryLog, crashes>>

\* The process is killed, or the database fails it.
Crash(w) ==
    /\ crashes < MaxCrashes
    /\ crmWorker[w].pc # "stopped"
    /\ Stop(w)
    /\ crashes' = crashes + 1
    /\ UNCHANGED <<queueVars, serverVars, deliveryLog>>

\* An operator starts it again (docker-compose.yml has no restart policy).
Restart(w) ==
    /\ crmWorker[w].pc = "stopped"
    /\ crmWorker' = [crmWorker EXCEPT ![w] = Resting("loop")]
    /\ UNCHANGED <<queueVars, serverVars, deliveryLog, endVars>>
-----------------------------------------------------------------------------
(* The CRM, slow. *)

\* It gets to a post nobody waits for any more, and records it or fails.
HandleLate(o) ==
    /\ o \in late
    /\ late' = late \ {o}
    /\ recorded' = recorded \cup {o} \/ UNCHANGED recorded
    /\ UNCHANGED <<queueVars, deliveryLog, crmWorker, endVars>>
-----------------------------------------------------------------------------
Step(w) ==
    \/ Receive(w)
    \/ \E r \in crmWorker[w].batch : \/ DiscardMalformed(w, r)
                                     \/ PostAccepted(w, r)
                                     \/ PostRefused(w, r)
                                     \/ PostTimesOut(w, r)
    \/ LogDelivered(w)
    \/ Acknowledge(w)
    \/ LogFailed(w)
    \/ BackOff(w)
    \/ BackOffRaises(w)

Next ==
    \/ \E o \in Outcomes : Publish(o) \/ HandleLate(o)
    \/ \E m \in Messages : Reappear(m) \/ Redrive(m)
    \/ \E w \in CrmWorkers : Step(w) \/ Crash(w) \/ Restart(w)

Spec == Init /\ [][Next]_vars

(* Fairness. A running worker goes on with its loop, timeouts run out, and a *)
(* polled queue redrives. Nobody is obliged to start a stopped process again,*)
(* and nothing is assumed of the CRM.                                        *)
Fairness ==
    /\ \A w \in CrmWorkers : WF_vars(Step(w))
    /\ \A m \in Messages : WF_vars(Reappear(m)) /\ WF_vars(Redrive(m))

FairSpec == Spec /\ Fairness
-----------------------------------------------------------------------------
(* Properties. *)

\* The delivery implements its abstract specification: the fate of an outcome
\* is where its message is.
Fate(p) == CASE p = "unsent"  -> "unpublished"
             [] p = "queued"  -> "pending"
             [] p = "deleted" -> "delivered"
             [] p = "dead"    -> "dead"

OutcomeFate == [o \in Outcomes |-> Fate(place[o])]

Delivery == INSTANCE OutcomeDelivery WITH fate <- OutcomeFate

\* Whoever deletes the message of an outcome, on whatever receipt, the CRM has
\* it on record by then, and it is pending before (crm_worker/main.py:46-59).
DeliversAsPromised == Delivery!Spec

\* The rows of crm_delivery_attempts tell the truth: a deleted outcome has a
\* row that says delivered, such a row means the CRM has the outcome, and one
\* receive never makes two rows.
LogIsTruthful ==
    /\ \A o \in Outcomes : place[o] = "deleted" =>
        \E n \in 1..MaxReceives : deliveryLog[[msg |-> o, no |-> n]] = <<"delivered">>
    /\ \A r \in Receipts : /\ Len(deliveryLog[r]) <= 1
                           /\ deliveryLog[r] = <<"delivered">> => r.msg \in recorded

\* Receipt r is still to be posted, or posted and still to be logged.
Unlogged(r) ==
    \E w \in CrmWorkers :
        \/ r \in crmWorker[w].batch
        \/ crmWorker[w].pc \in {"delivered", "failed"} /\ crmWorker[w].current = r

\* While no process has ended, a receive is never wasted: it leads to a post
\* and a row in the log, so that the receives the redrive counts are attempts.
EveryReceiveIsAnAttempt ==
    stops = 0 =>
        \A o \in Outcomes : \A n \in 1..receives[o] :
            LET r == [msg |-> o, no |-> n]
            IN  deliveryLog[r] # <<>> \/ Unlogged(r)

Settled(m) == place[m] \in {"deleted", "dead"}

\* As long as some worker runs, every published outcome is delivered or given
\* up, and a malformed message disappears: none circulates for ever.
DeliverySettles ==
    (\E w \in CrmWorkers : <>[](crmWorker[w].pc # "stopped"))
        => \A m \in Messages : place[m] = "queued" ~> Settled(m)
-----------------------------------------------------------------------------
\* README.md:119 "Retry with backoff - both for failed call outcomes and CRM
\* delivery (visibility-timeout backoff -> DLQ)": an outcome that cannot be
\* delivered ends as a dead letter, and one that can is delivered.
RetriesEnd == \A o \in Outcomes : place[o] = "queued" ~> Settled(o)
=============================================================================
