-------------------------- MODULE OutcomeDelivery --------------------------
(* What the delivery of outcomes promises. A published outcome is pending   *)
(* until it is delivered or given up as a dead letter, once and for good.   *)
(* The client's CRM keeps one record per outcome, of published ones only,   *)
(* and a delivered outcome is one it has on record. An outcome given up may *)
(* be on record too: the answer that said so was lost.                      *)
CONSTANT Outcomes

VARIABLES
    fate,               \* of each outcome
    recorded            \* outcomes the CRM has on record

Fates == {"unpublished", "pending", "delivered", "dead"}

Init ==
    /\ fate = [o \in Outcomes |-> "unpublished"]
    /\ recorded = {}

Publish(o) ==
    /\ fate[o] = "unpublished"
    /\ fate' = [fate EXCEPT ![o] = "pending"]
    /\ UNCHANGED recorded

Record(o) ==
    /\ fate[o] # "unpublished"
    /\ recorded' = recorded \cup {o}
    /\ UNCHANGED fate

Deliver(o) ==
    /\ fate[o] = "pending"
    /\ o \in recorded
    /\ fate' = [fate EXCEPT ![o] = "delivered"]
    /\ UNCHANGED recorded

GiveUp(o) ==
    /\ fate[o] = "pending"
    /\ fate' = [fate EXCEPT ![o] = "dead"]
    /\ UNCHANGED recorded

Next == \E o \in Outcomes : Publish(o) \/ Record(o) \/ Deliver(o) \/ GiveUp(o)

Spec == Init /\ [][Next]_<<fate, recorded>>
=============================================================================
