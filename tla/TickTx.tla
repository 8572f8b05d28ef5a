------------------------------- MODULE TickTx -------------------------------
(* The two transactions of a scheduler's tick, statement by statement, with *)
(* the row locks they take (READ COMMITTED): the SELECT locks its rows of   *)
(* call_tasks and skips those locked by others, the UPDATEs of              *)
(* campaign_concurrency take the rows they hit one after the other and wait *)
(* for those locked by others, and everything is held to the commit.        *)
(* Webhooks lock a task's row and then its campaign's counter.              *)
(*                                                                          *)
(* Scheduler takes each transaction for one step, its commit; here that is  *)
(* a property (but for counters that a late webhook has put wrong), and so  *)
(* is who can wait for whom in a circle.                                    *)
EXTENDS Scheduler

CONSTANT Hooks          \* webhook threads

ASSUME ThreadAssumption == Schedulers \cap Hooks = {}

VARIABLES
    tx,                 \* the open transaction of each scheduler
    hookTx,             \* what each webhook has read, and the locks it holds
    lateWrites          \* history: tasks a webhook wrote although they were no
                        \* longer in a call; the reaper had released their slot

txVars == <<storeVars, queueVars, schedVars, tx, hookTx, lateWrites>>

\* rows: selected and locked; read: attempts as selected; todo: rows its loop
\* has not come to; current: the row whose statement on campaign_concurrency is
\* under way; done: rows whose statement updated the counter; slots: rows of
\* campaign_concurrency it holds.
NoTx == [open |-> FALSE, rows |-> {}, read |-> [t \in Tasks |-> 0], todo |-> {},
         current |-> NoTask, done |-> {}, slots |-> {}]

\* missed: _release met the counter at 0 and left it there.
NoHookTx == [task |-> NoTask, read |-> 0, holds |-> {}, missed |-> FALSE]

Transactions ==
    [open    : BOOLEAN,
     rows    : SUBSET Tasks,
     read    : [Tasks -> Nat],
     todo    : SUBSET Tasks,
     current : Tasks \cup {NoTask},
     done    : SUBSET Tasks,
     slots   : SUBSET Campaigns]

HookTransactions ==
    [task   : Tasks \cup {NoTask},
     read   : Nat,
     holds  : SUBSET {"row", "slot"},
     missed : BOOLEAN]

TickTypeOK ==
    /\ StoreTypeOK
    /\ QueueTypeOK
    /\ SchedTypeOK
    /\ \A c \in Campaigns : activeCount[c] <= MaxConcurrency[c]
    /\ tx \in [Schedulers -> Transactions]
    /\ hookTx \in [Hooks -> HookTransactions]
    /\ lateWrites \subseteq Tasks

Init ==
    /\ StoreInit
    /\ QueueInit
    /\ SchedInit
    /\ tx = [s \in Schedulers |-> NoTx]
    /\ hookTx = [h \in Hooks |-> NoHookTx]
    /\ lateWrites = {}
-----------------------------------------------------------------------------
(* Row locks. *)

\* The thread that holds the row of t, and the counter of campaign c.
RowHeldBy(t) ==
    {s \in Schedulers : t \in tx[s].rows}
    \cup {h \in Hooks : hookTx[h].task = t /\ "row" \in hookTx[h].holds}

SlotHeldBy(c) ==
    {s \in Schedulers : c \in tx[s].slots}
    \cup {h \in Hooks : "slot" \in hookTx[h].holds /\ CampaignOf[hookTx[h].task] = c}

\* The rows a SELECT returns without FOR UPDATE SKIP LOCKED.
SelectableLockedOrNot(due) == due

Selectable(due) == {t \in due : RowHeldBy(t) = {}}
-----------------------------------------------------------------------------
(* The transactions of scheduler s. *)

\* What the SELECT of the reaper, or of the claim, may return.
Selections(s) ==
    IF phase[s] = "reap"
      THEN {Selectable(Stuck)}
      ELSE UNION {Batches(Selectable(Eligible(open))) : open \in SUBSET Zones}

Select(s) ==
    /\ phase[s] \in {"reap", "claim"}
    /\ ~tx[s].open
    /\ \E rows \in Selections(s) :
          tx' = [tx EXCEPT ![s] = [NoTx EXCEPT !.open = TRUE, !.rows = rows,
                                               !.todo = rows, !.read = attempts]]
    /\ UNCHANGED <<storeVars, queueVars, schedVars, hookTx, lateWrites>>

\* How often s has updated the counter of c in this transaction.
Counted(s, c) == Cardinality(OfCampaign(tx[s].done, c))

\* <= for < in _RESERVE_SQL.
HasHeadroomOffByOne(s, c) == activeCount[c] + Counted(s, c) <= MaxConcurrency[c]

\* What _RESERVE_SQL tests: the committed counter and the transaction's own
\* increments are below the cap.
HasHeadroom(s, c) == activeCount[c] + Counted(s, c) < MaxConcurrency[c]

\* active_count > 1 for > 0 in _RELEASE_SQL.
HasSlotOffByOne(s, c) == activeCount[c] > Counted(s, c) + 1

\* What _RELEASE_SQL tests: the committed counter less the transaction's own
\* decrements is above 0.
HasSlot(s, c) == activeCount[c] > Counted(s, c)

\* The WHERE of s's statement on the counter of c holds of the committed row.
Hits(s, c) ==
    \/ phase[s] = "reap"  /\ HasSlot(s, c)
    \/ phase[s] = "claim" /\ HasHeadroom(s, c)

\* The loop comes to row t. A statement that does not hit the counter as it is
\* committed now locks nothing and waits for nobody: the claim leaves the row
\* pending, the reaper has already written it. Any other goes on to lock it.
ComeTo(s, t) ==
    /\ tx[s].current = NoTask
    /\ t \in tx[s].todo
    /\ tx' = [tx EXCEPT ![s] =
                 [tx[s] EXCEPT !.todo = tx[s].todo \ {t},
                               !.current = IF Hits(s, CampaignOf[t]) THEN t ELSE NoTask]]
    /\ UNCHANGED <<storeVars, queueVars, schedVars, hookTx, lateWrites>>

\* The statement updates the row it locked by what it saw before it waited.
StillHitsUnchecked(s) == TRUE

\* Having waited, the statement tests the row again as the holder left it.
StillHits(s) == Hits(s, CampaignOf[tx[s].current])

\* The statement gets the counter, which stays locked also when the statement
\* no longer hits. (The task's row, which s holds, is written after it by
\* _MARK_SQL, or was before it by the reaper.)
LockSlot(s) ==
    /\ tx[s].current # NoTask
    /\ LET c == CampaignOf[tx[s].current]
           hit == IF StillHits(s) THEN {tx[s].current} ELSE {}
       IN
         /\ SlotHeldBy(c) \subseteq {s}
         /\ tx' = [tx EXCEPT ![s] =
                      [tx[s] EXCEPT !.current = NoTask,
                                    !.slots = tx[s].slots \cup {c},
                                    !.done = tx[s].done \cup hit]]
    /\ UNCHANGED <<storeVars, queueVars, schedVars, hookTx, lateWrites>>

LoopDone(s) == tx[s].open /\ tx[s].todo = {} /\ tx[s].current = NoTask

\* Every row is written, also one whose release missed.
CommitReap(s) ==
    /\ phase[s] = "reap"
    /\ LoopDone(s)
    /\ WriteRetry(tx[s].rows, tx[s].read)
    /\ ReleaseSlots(tx[s].done)
    /\ phase' = [phase EXCEPT ![s] = "claim"]
    /\ tx' = [tx EXCEPT ![s] = NoTx]
    /\ UNCHANGED <<providerEvents, outcomes, queueVars, claimed, crashes, hookTx, lateWrites>>

CommitClaim(s) ==
    /\ phase[s] = "claim"
    /\ LoopDone(s)
    /\ Take(tx[s].done)
    /\ claimed' = [claimed EXCEPT ![s] = tx[s].done]
    /\ phase' = [phase EXCEPT ![s] = IF tx[s].done = {} THEN "reap" ELSE "send"]
    /\ tx' = [tx EXCEPT ![s] = NoTx]
    /\ UNCHANGED <<attempts, providerCallId, providerEvents, outcomes,
                   queueVars, crashes, hookTx, lateWrites>>

\* The transaction fails: s is the victim of a deadlock, loses its connection,
\* or dies. Nothing catches the exception; the process is started again.
RollBack(s) ==
    /\ tx[s].open
    /\ IF phase[s] = "reap" THEN UNCHANGED <<storeVars, queueVars, phase, claimed>>
                            ELSE Forget(s)
    /\ tx' = [tx EXCEPT ![s] = NoTx]
    /\ UNCHANGED <<crashes, hookTx, lateWrites>>

SendOrder(s, t) == Send(s, t) /\ UNCHANGED <<tx, hookTx, lateWrites>>
-----------------------------------------------------------------------------
(* Webhooks, workers and time. *)

\* A webhook reads a task in a call, and locks nothing.
Read(h, t) ==
    /\ hookTx[h].task = NoTask
    /\ status[t] = "calling"
    /\ hookTx' = [hookTx EXCEPT ![h].task = t, ![h].read = attempts[t]]
    /\ UNCHANGED <<storeVars, queueVars, schedVars, tx, lateWrites>>

\* The webhook would release the slot before it writes the task.
NextLockSlotFirst(h) ==
    IF "slot" \notin hookTx[h].holds THEN {"slot"} ELSE {"row"} \ hookTx[h].holds

\* process_event writes the task (or an outcome that refers to it) first, and
\* then releases its slot, unless that has missed.
NextLock(h) ==
    IF "row" \notin hookTx[h].holds THEN {"row"}
    ELSE {l \in {"slot"} : l \notin hookTx[h].holds /\ ~hookTx[h].missed}

HoldersOf(h, lock) ==
    IF lock = "row" THEN RowHeldBy(hookTx[h].task) ELSE SlotHeldBy(CampaignOf[hookTx[h].task])

NoSlotLeft(h) == activeCount[CampaignOf[hookTx[h].task]] = 0

\* It gets the lock, perhaps after a wait; _release tests the counter again.
HookLock(h) ==
    /\ hookTx[h].task # NoTask
    /\ \E lock \in NextLock(h) :
         /\ HoldersOf(h, lock) = {}
         /\ hookTx' = [hookTx EXCEPT ![h].holds = @ \cup {lock},
                                     ![h].missed = lock = "slot" /\ NoSlotLeft(h)]
    /\ UNCHANGED <<storeVars, queueVars, schedVars, tx, lateWrites>>

\* _release meets a counter that is 0 by what is committed: it does not hit,
\* locks nothing and waits for nobody.
PassSlot(h) ==
    /\ hookTx[h].task # NoTask
    /\ "slot" \in NextLock(h)
    /\ NoSlotLeft(h)
    /\ hookTx' = [hookTx EXCEPT ![h].missed = TRUE]
    /\ UNCHANGED <<storeVars, queueVars, schedVars, tx, lateWrites>>

\* Its commit, after a call that completed or one that did not. It writes the
\* task by its id, whatever has become of it since it was read: with the
\* attempts it read, and releasing a slot that the reaper may have released.
CommitHook(h) ==
    /\ hookTx[h].task # NoTask
    /\ NextLock(h) = {}
    /\ \/ /\ status' = [status EXCEPT ![hookTx[h].task] = "completed"]
          /\ UNCHANGED <<attempts, providerCallId, expired>>
       \/ WriteRetry({hookTx[h].task}, [t \in Tasks |-> hookTx[h].read])
    /\ ReleaseSlots(IF hookTx[h].missed THEN {} ELSE {hookTx[h].task})
    /\ lateWrites' = lateWrites \cup
                         (IF status[hookTx[h].task] = "calling" THEN {} ELSE {hookTx[h].task})
    /\ hookTx' = [hookTx EXCEPT ![h] = NoHookTx]
    /\ UNCHANGED <<providerEvents, outcomes, queueVars, schedVars, tx>>

RollBackHook(h) ==
    /\ hookTx[h].task # NoTask
    /\ hookTx' = [hookTx EXCEPT ![h] = NoHookTx]
    /\ UNCHANGED <<storeVars, queueVars, schedVars, tx, lateWrites>>

\* _MARK_CALLING of a worker, which commits at once.
Mark(t, c) ==
    /\ status[t] = "dispatching"
    /\ RowHeldBy(t) = {}
    /\ status' = [status EXCEPT ![t] = "calling"]
    /\ providerCallId' = [providerCallId EXCEPT ![t] = c]
    /\ UNCHANGED <<attempts, expired, activeCount, providerEvents, outcomes,
                   queueVars, schedVars, tx, hookTx, lateWrites>>

TimeOut(t) == Expire(t) /\ UNCHANGED <<queueVars, schedVars, tx, hookTx, lateWrites>>

Next ==
    \/ \E s \in Schedulers :
          \/ Select(s)
          \/ \E t \in Tasks : ComeTo(s, t)
          \/ LockSlot(s)
          \/ CommitReap(s)
          \/ CommitClaim(s)
          \/ RollBack(s)
          \/ \E t \in Tasks : SendOrder(s, t)
    \/ \E h \in Hooks :
          \/ \E t \in Tasks : Read(h, t)
          \/ HookLock(h)
          \/ PassSlot(h)
          \/ CommitHook(h)
          \/ RollBackHook(h)
    \/ \E t \in Tasks : TimeOut(t) \/ \E c \in Calls : Mark(t, c)

Spec == Init /\ [][Next]_txVars
-----------------------------------------------------------------------------
(* Properties. *)

\* No release and no reservation is lost on the way: the counter never counts
\* more than the tasks in flight, although the statements of one reap test it
\* one by one, while claims and webhooks move it in between, and miss when a
\* late webhook has taken a slot too many (reaper.py and processing.py WHERE
\* active_count > 0). What it counts too much would be lost to the campaign.
NoSlotLost ==
    \A c \in Campaigns : activeCount[c] <= Cardinality(InFlight(c))

\* In a campaign none of whose tasks was written by a webhook after the reaper
\* had them, the counter is exactly the tasks in flight: two schedulers never
\* take slots for one row, and none of the releases misses (claim.py and
\* reaper.py FOR UPDATE SKIP LOCKED). A late webhook releases a slot twice:
\* the cap run of CallPipeline shows what comes of that.
CounterMatchesRows ==
    \A c \in Campaigns :
        OfCampaign(lateWrites, c) = {} => activeCount[c] = Cardinality(InFlight(c))

\* The counters after the reap of "rows": each row's slot released, or some of
\* them missed in a campaign whose counter a late webhook has put wrong.
ReleasedButForLate(rows) ==
    \A c \in Campaigns :
        LET n == activeCount[c]
            k == Cardinality(OfCampaign(rows, c))
        IN  IF OfCampaign(lateWrites, c) = {}
              THEN activeCount'[c] = Released(n, k)
              ELSE activeCount'[c] \in Released(n, k)..n

AtomicTick(s) ==
    \/ \E skipped \in SUBSET Stuck :
          ReapRows(s, Stuck \ skipped) /\ ReleasedButForLate(Stuck \ skipped)
    \/ \E open \in SUBSET Zones : \E skipped \in SUBSET Eligible(open) : Claim(s, open, skipped)
    \/ \E t \in Tasks : Send(s, t)
    \/ Forget(s) /\ UNCHANGED crashes

\* What a transaction other than a scheduler's does to a task.
OthersWrite(t) ==
    \/ status[t] = "dispatching" /\ status'[t] = "calling"
    \/ /\ status'[t] \in {"completed", "pending", "exhausted"}
       /\ status[t] = "calling" \/ t \in lateWrites'
    \/ ~expired[t] /\ expired'[t]

\* A scheduler's transactions are atomic although their locks come one by one,
\* counters move while they wait: all they do to the store is one Reap or one
\* Claim of module Scheduler, as of the commit and by the calling hours of the
\* SELECT (scheduler/main.py:17-29). The one exception is openly stated: how
\* many releases of a reap miss in a campaign that a late webhook has hit.
TicksAreAtomic ==
    [][\/ \E s \in Schedulers : AtomicTick(s)
       \/ UNCHANGED <<queueVars, schedVars>> /\ \E t \in Tasks : OthersWrite(t)
      ]_<<storeVars, queueVars, schedVars>>

\* The holders a thread waits for.
WaitsFor(a) ==
    IF a \in Schedulers
      THEN IF tx[a].current # NoTask THEN SlotHeldBy(CampaignOf[tx[a].current]) \ {a} ELSE {}
      ELSE IF hookTx[a].task # NoTask THEN UNION {HoldersOf(a, lock) : lock \in NextLock(a)} ELSE {}

\* Threads that wait for each other and for nobody else: Postgres aborts one.
Circle(S) ==
    /\ S # {}
    /\ \A a \in S : (\E b \in S : b \in WaitsFor(a)) /\ (\E b \in S : a \in WaitsFor(b))

\* A webhook is never part of a deadlock, in whatever order schedulers take the
\* counters: it holds a task's row before it asks for a counter, and then
\* nothing more (processing.py:75-76). A webhook that was aborted could leave
\* the call's outcome to the provider's next delivery, if there is one.
HooksNeverDeadlock ==
    \A S \in SUBSET (Schedulers \cup Hooks) : Circle(S) => S \cap Hooks = {}

\* claim.py:7 "SKIP LOCKED lets many schedulers run concurrently": no two of
\* them block each other.
SchedulersRunConcurrently ==
    \A S \in SUBSET Schedulers : ~Circle(S)
=============================================================================
