------------------------------ MODULE MCTickTx ------------------------------
(* Small instances of TickTx for TLC.                                       *)
EXTENDS TickTx, TLC

CONSTANTS c1, c2, t1, t2, t3, t4, z1

\* Two tasks of one campaign and one of another.
TwoAndOne == (t1 :> c1) @@ (t2 :> c1) @@ (t3 :> c2)

\* Two campaigns of two tasks each.
TwoByTwo == (t1 :> c1) @@ (t2 :> c1) @@ (t3 :> c2) @@ (t4 :> c2)

OneSlotEach == [c \in Campaigns |-> 1]

TwoSlotsEach == [c \in Campaigns |-> 2]

SameZone == [t \in Tasks |-> z1]

InterchangeableOfC1 == Permutations(Schedulers) \cup Permutations(Hooks) \cup Permutations({t1, t2})

\* Tasks of one campaign are interchangeable, and so are the two campaigns.
SwappedCampaigns ==
    (c1 :> c2) @@ (c2 :> c1) @@ (t1 :> t3) @@ (t3 :> t1) @@ (t2 :> t4) @@ (t4 :> t2)

Interchangeable == Permutations(Schedulers) \cup Permutations(Hooks)
                   \cup Permutations({t1, t2}) \cup Permutations({t3, t4})
                   \cup {SwappedCampaigns}
=============================================================================
