--------------------------- MODULE MCCallPipeline ---------------------------
(* Small instances of CallPipeline for TLC.                                 *)
EXTENDS CallPipeline, TLC

CONSTANTS c1, t1, t2, z1, z2

\* Every task in one campaign.
OneCampaign == [t \in Tasks |-> c1]

OneSlotEach == [c \in Campaigns |-> 1]

\* A zone for each task.
ZoneEach == (t1 :> z1) @@ (t2 :> z2)

SameZone == [t \in Tasks |-> z1]

Symmetric == Permutations(Calls) \cup Permutations(Workers)
             \cup Permutations(Hooks) \cup Permutations(Schedulers)

\* Tasks of one campaign and zone are interchangeable.
SymmetricTasks == Symmetric \cup Permutations(Tasks)
=============================================================================
