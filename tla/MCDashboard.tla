----------------------------- MODULE MCDashboard -----------------------------
(* Small instances of Dashboard, and with it Ingestion, for TLC.            *)
EXTENDS Dashboard

CONSTANTS c1, c2, east, west

PhoneCell == {"1", " 2 ", "2", "", "3"}

PhoneOfCell == ("1" :> 1) @@ (" 2 " :> 2) @@ ("2" :> 2) @@ ("3" :> 3) @@ ("" :> NoPhone)

ZoneOfCell == ("east" :> east) @@ (" west " :> west) @@ ("Mars/Base" :> "Mars/Base") @@ ("" :> "")

BothColumns == {"phone", "timezone", "name"}

\* One phone twice, with different zones, and one line of each kind that is not
\* a contact.
MessyFile ==
    [columns |-> BothColumns,
     lines   |-> <<Line(" 2 ", "east"), BlankLine, Line("", "east"), Line("1", "east"),
                   Line("3", "Mars/Base"), Line("2", " west ")>>]

\* Where an error is on the line the parser says: no blank lines.
RejectingFile ==
    [columns |-> BothColumns,
     lines   |-> <<Line("1", ""), Line(" 2 ", " west "), Line("", "Mars/Base")>>]

NoZoneFile == [columns |-> {"phone", "name"}, lines |-> <<Line("1", "")>>]

AllFiles == {MessyFile, RejectingFile, NoZoneFile}

OneSlotEach == [c \in Campaigns |-> 1]

Interchangeable == Permutations(Lambdas) \cup Permutations(Campaigns)
=============================================================================
