------------------------------ MODULE Dashboard ------------------------------
(* The dashboard's view of a store that moves while it looks. A snapshot is *)
(* a series of statements on one connection (stats.py), but READ COMMITTED  *)
(* gives each of them a snapshot of its own, so figures that belong         *)
(* together are read at different moments. Campaigns come and are ingested  *)
(* meanwhile (Ingestion), and calls begin and end.                          *)
EXTENDS Ingestion

CONSTANT MaxConcurrency     \* campaigns.max_concurrency

ASSUME CapAssumption == MaxConcurrency \in [Campaigns -> Nat \ {0}]

VARIABLES
    activeCount,        \* campaign_concurrency.active_count
    next,               \* the statement the poller comes to
    view                \* what the poll has read so far

dashboardVars == <<activeCount, next, view>>

vars == <<intakeVars, dashboardVars>>

\* A swap of _concurrency's two statements.
StatementsCapacityFirst == <<"capacity", "active", "funnel", "contacts", "callTasks">>

\* _totals before _task_funnel.
StatementsTotalsFirst == <<"active", "capacity", "contacts", "callTasks", "funnel">>

\* The statements of collect_stats. (Queue depths, deliveries and the number of
\* campaigns are read too, and nothing here is said about them.)
Statements == <<"active", "capacity", "funnel", "contacts", "callTasks">>

\* Tables of all campaigns together, and how many rows they have.
AllRows(table) == UNION {{c} \X table[c] : c \in Campaigns}

CountAll(table) == Cardinality(AllRows(table))

\* A SUM is the number of all the units that it sums: here slots.
Slots(count) == [c \in Campaigns |-> 1..count[c]]

Capacity == [c \in Campaigns |-> IF campaignStatus[c] = "none" THEN 0 ELSE MaxConcurrency[c]]

\* What a statement returns now. The funnel is taken for the sum of its counts.
Result(statement) ==
    CASE statement = "active"   -> CountAll(Slots(activeCount))
      [] statement = "capacity" -> CountAll(Slots(Capacity))
      [] statement = "contacts" -> CountAll(contacts)
      [] statement \in {"funnel", "callTasks"} -> CountAll(callTasks)

NoView == [statement \in ToSet(Statements) |-> 0]

Init ==
    /\ IntakeInit
    /\ activeCount = [c \in Campaigns |-> 0]
    /\ next = 1
    /\ view = NoView
-----------------------------------------------------------------------------
\* A task that is not in flight is claimed: its campaign has a counter, and
\* that is below its cap.
Reserve(c) ==
    /\ activeCount[c] < Cardinality(callTasks[c])
    /\ c \in counterRows
    /\ activeCount[c] < MaxConcurrency[c]
    /\ activeCount' = [activeCount EXCEPT ![c] = @ + 1]
    /\ UNCHANGED <<intakeVars, next, view>>

\* Its attempt is over; the task may be due again later.
Release(c) ==
    /\ activeCount[c] > 0
    /\ activeCount' = [activeCount EXCEPT ![c] = @ - 1]
    /\ UNCHANGED <<intakeVars, next, view>>

\* The next statement of collect_stats.
Query ==
    /\ next <= Len(Statements)
    /\ view' = [view EXCEPT ![Statements[next]] = Result(Statements[next])]
    /\ next' = next + 1
    /\ UNCHANGED <<intakeVars, activeCount>>

\* The stream has sent the snapshot, or has caught the exception a statement
\* raised and sent an error; after the interval it polls again.
PollAgain ==
    /\ next > 1
    /\ next' = 1
    /\ view' = NoView
    /\ UNCHANGED <<intakeVars, activeCount>>

Next ==
    \/ IntakeNext /\ UNCHANGED dashboardVars
    \/ \E c \in Campaigns : Reserve(c) \/ Release(c)
    \/ Query
    \/ PollAgain

Spec == Init /\ [][Next]_vars
-----------------------------------------------------------------------------
(* Properties. *)

HasRead(S) == S \subseteq {Statements[i] : i \in 1..(next - 1)}

\* A snapshot never shows more calls than slots, although campaigns are created
\* and filled while it is taken: what is active is read first, and capacity
\* only grows (stats.py:27-30).
SlotsWithinCapacity == HasRead({"active", "capacity"}) => view.active <= view.capacity

\* Nor does it show more tasks in the funnel, or more contacts, than call
\* tasks, although a file may be ingested between the statements: contacts and
\* tasks are committed together and read in this order (stats.py:55-60, 64-71).
FunnelWithinTotals ==
    /\ HasRead({"funnel", "callTasks"}) => view.funnel <= view.callTasks
    /\ HasRead({"contacts", "callTasks"}) => view.contacts <= view.callTasks
=============================================================================
