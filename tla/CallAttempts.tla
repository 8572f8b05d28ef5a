---------------------------- MODULE CallAttempts ----------------------------
(* What the call pipeline promises of each task, whatever becomes of its    *)
(* messages, processes and calls: attempts begin, in a campaign that is in  *)
(* order never more at once than its cap; each ends once, by a timeout or   *)
(* by the report of a call; each report is heard once. A report may also    *)
(* overwrite a task one of whose attempts has timed out: this is the only   *)
(* way to put a campaign out of order.                                      *)
EXTENDS Integers, FiniteSets

CONSTANTS
    Campaigns,
    Tasks,
    CampaignOf,
    MaxConcurrency,
    MaxAttempts,
    Calls

VARIABLES
    standing,           \* of each task: an attempt is running, or will, or none
    tries,              \* attempts that ended without success
    heard,              \* calls whose report has come
    answers,            \* the calls that decided a task
    overwritten         \* history: tasks overwritten by a late report

vars == <<standing, tries, heard, answers, overwritten>>

Init ==
    /\ standing = [t \in Tasks |-> "waiting"]
    /\ tries = [t \in Tasks |-> 0]
    /\ heard = {}
    /\ answers = [t \in Tasks |-> {}]
    /\ overwritten = {}

Running(c) == {t \in Tasks : CampaignOf[t] = c /\ standing[t] = "running"}

InOrder(c) == \A t \in overwritten : CampaignOf[t] # c

\* Attempts begin for the tasks S.
Begin(S) ==
    /\ \A t \in S : standing[t] = "waiting"
    /\ standing' = [t \in Tasks |-> IF t \in S THEN "running" ELSE standing[t]]
    /\ \A c \in Campaigns : InOrder(c) => Cardinality(Running(c)') <= MaxConcurrency[c]
    /\ UNCHANGED <<tries, heard, answers, overwritten>>

\* Where a task stands after n attempts and one more, in vain.
After(n) == IF n + 1 < MaxAttempts THEN "waiting" ELSE "exhausted"

\* The running attempts of the tasks S have taken too long.
TimeOut(S) ==
    /\ \A t \in S : standing[t] = "running"
    /\ standing' = [t \in Tasks |-> IF t \in S THEN After(tries[t]) ELSE standing[t]]
    /\ tries' = [t \in Tasks |-> IF t \in S THEN tries[t] + 1 ELSE tries[t]]
    /\ UNCHANGED <<heard, answers, overwritten>>

Hear(c) == c \notin heard /\ heard' = heard \cup {c}

Answer(t, c) == answers' = [answers EXCEPT ![t] = @ \cup {c}]

\* The report of call c completes task t.
Succeed(t, c) ==
    /\ standing' = [standing EXCEPT ![t] = "completed"]
    /\ Answer(t, c)
    /\ UNCHANGED tries

\* The report says that an attempt after n others was in vain.
Fail(t, c, n) ==
    /\ standing' = [standing EXCEPT ![t] = After(n)]
    /\ tries' = [tries EXCEPT ![t] = n + 1]
    /\ IF After(n) = "exhausted" THEN Answer(t, c) ELSE UNCHANGED answers

\* The report ends the attempt that is running.
Report(t, c) ==
    /\ Hear(c)
    /\ standing[t] = "running"
    /\ Succeed(t, c) \/ Fail(t, c, tries[t])
    /\ UNCHANGED overwritten

\* The report was read for an attempt that has timed out meanwhile.
Overwrite(t, c) ==
    /\ Hear(c)
    /\ tries[t] > 0
    /\ Succeed(t, c) \/ \E n \in 0..(MaxAttempts - 1) : Fail(t, c, n)
    /\ overwritten' = overwritten \cup {t}

\* The report comes too early or too late to say anything of a task.
Ignore(c) == Hear(c) /\ UNCHANGED <<standing, tries, answers, overwritten>>

Next ==
    \/ \E S \in SUBSET Tasks : Begin(S) \/ TimeOut(S)
    \/ \E c \in Calls : Ignore(c) \/ \E t \in Tasks : Report(t, c) \/ Overwrite(t, c)

Spec == Init /\ [][Next]_vars
=============================================================================
