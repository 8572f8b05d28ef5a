---------------------------- MODULE TickTxProofs ----------------------------
(* Theorems about TickTx, for every value of its constants: no slot is lost *)
(* between the statements of transactions, the counter is exact where no    *)
(* webhook came late, a scheduler's transactions are atomic, and no webhook *)
(* takes part in a deadlock.                                                *)
EXTENDS TickTx, StoreLemmas

USE MaxAttemptsAssumption, DeploymentAssumption, QueueAssumption, SchedulerAssumption,
    ThreadAssumption

\* What a transaction knows about the rows it has selected: they are as they
\* were when it selected them.
SelectionHolds ==
    \A s \in Schedulers :
        /\ ~tx[s].open => tx[s] = NoTx
        /\ tx[s].open => phase[s] \in {"reap", "claim"}
        /\ tx[s].done \subseteq tx[s].rows
        /\ tx[s].todo \subseteq tx[s].rows
        /\ tx[s].current # NoTask => tx[s].current \in tx[s].rows
        /\ tx[s].todo \cap tx[s].done = {}
        /\ tx[s].current \notin tx[s].todo \cup tx[s].done
        /\ tx[s].open /\ phase[s] = "reap" =>
              \A t \in tx[s].rows : t \in Stuck /\ tx[s].read[t] = attempts[t]
        /\ tx[s].open /\ phase[s] = "claim" =>
              tx[s].rows \subseteq Eligible(Zones) /\ Cardinality(tx[s].rows) <= BatchSize

\* No two threads hold one row of call_tasks.
RowsExclusive ==
    /\ \A s, r \in Schedulers : s # r => tx[s].rows \cap tx[r].rows = {}
    /\ \A s \in Schedulers : \A h \in Hooks :
          "row" \in hookTx[h].holds => hookTx[h].task \notin tx[s].rows

\* Who has counted a row of a campaign holds the campaign's counter, and no
\* other scheduler does.
SlotsExclusive ==
    /\ \A s \in Schedulers : \A t \in tx[s].done : CampaignOf[t] \in tx[s].slots
    /\ \A s, r \in Schedulers : s # r => tx[s].slots \cap tx[r].slots = {}

\* The reservations of an open claim fit under the cap.
ReservationsFit ==
    \A s \in Schedulers : \A c \in Campaigns :
        tx[s].open /\ phase[s] = "claim" /\ OfCampaign(tx[s].done, c) # {} =>
            activeCount[c] + Cardinality(OfCampaign(tx[s].done, c)) <= MaxConcurrency[c]

\* A webhook locks its task's row first, and then locks or misses the counter.
HookOrder ==
    \A h \in Hooks :
        /\ hookTx[h].task = NoTask => hookTx[h].holds = {} /\ ~hookTx[h].missed
        /\ "slot" \in hookTx[h].holds \/ hookTx[h].missed => "row" \in hookTx[h].holds

TickInv ==
    /\ TickTypeOK
    /\ SelectionHolds
    /\ RowsExclusive
    /\ SlotsExclusive
    /\ ReservationsFit
    /\ HookOrder
-----------------------------------------------------------------------------
(* Webhooks and deadlock. *)

\* Whom a webhook waits for, whom it keeps waiting, cannot be in a circle.
LEMMA NoHookInCircle ==
    ASSUME TickTypeOK, HookOrder
    PROVE  HooksNeverDeadlock
<1> SUFFICES ASSUME NEW S \in SUBSET (Schedulers \cup Hooks), Circle(S),
                    NEW h \in S \cap Hooks
             PROVE  FALSE
  BY DEF HooksNeverDeadlock
<1>1. \A k \in Hooks : k \notin Schedulers
  BY ThreadAssumption
<1>2. \A k \in Hooks : hookTx[k].holds \in SUBSET {"row", "slot"}
  BY DEF TickTypeOK, HookTransactions
\* A webhook that holds a counter waits for nobody, so none in S does.
<1>3. \A k \in S \cap Hooks : "slot" \notin hookTx[k].holds
  <2> SUFFICES ASSUME NEW k \in S \cap Hooks, "slot" \in hookTx[k].holds PROVE FALSE
    OBVIOUS
  <2>1. NextLock(k) = {}
    BY DEF NextLock, HookOrder
  <2>2. WaitsFor(k) = {}
    BY <1>1, <2>1 DEF WaitsFor
  <2>3. QED
    BY <2>2 DEF Circle
\* So whoever waits for one waits for the row it holds ...
<1>4. \A k \in S \cap Hooks : "row" \in hookTx[k].holds
  <2> SUFFICES ASSUME NEW k \in S \cap Hooks PROVE "row" \in hookTx[k].holds
    OBVIOUS
  <2>1. PICK b \in S : k \in WaitsFor(b)
    BY DEF Circle
  <2>2. CASE b \in Schedulers
    <3>1. k \in SlotHeldBy(CampaignOf[tx[b].current])
      BY <2>1, <2>2 DEF WaitsFor
    <3>2. QED
      BY <1>1, <1>3, <3>1 DEF SlotHeldBy
  <2>3. CASE b \in Hooks
    <3>1. PICK lock \in NextLock(b) : k \in HoldersOf(b, lock)
      BY <1>1, <2>1, <2>3 DEF WaitsFor
    <3>2. QED
      BY <1>1, <1>3, <3>1 DEF HoldersOf, RowHeldBy, SlotHeldBy
  <2>4. QED
    BY <2>2, <2>3
\* ... and is a webhook that holds nothing, which is impossible.
<1>5. PICK b \in S : h \in WaitsFor(b)
  BY DEF Circle
<1>6. CASE b \in Schedulers
  <2>1. h \in SlotHeldBy(CampaignOf[tx[b].current])
    BY <1>5, <1>6 DEF WaitsFor
  <2>2. QED
    BY <1>1, <1>3, <2>1 DEF SlotHeldBy
<1>7. CASE b \in Hooks
  <2>1. PICK lock \in NextLock(b) : h \in HoldersOf(b, lock)
    BY <1>1, <1>5, <1>7 DEF WaitsFor
  <2>2. lock = "slot"
    BY <1>4, <1>7, <2>1 DEF NextLock
  <2>3. h \in SlotHeldBy(CampaignOf[hookTx[b].task])
    BY <2>1, <2>2 DEF HoldersOf
  <2>4. QED
    BY <1>1, <1>3, <2>3 DEF SlotHeldBy
<1>8. QED
  BY <1>6, <1>7
-----------------------------------------------------------------------------
(* The invariant. *)

LEMMA InitInv == Init => TickInv
<1> SUFFICES ASSUME Init PROVE TickInv
  OBVIOUS
<1> USE DEF Init
<1>1. NoTx \in Transactions
  BY DEF NoTx, Transactions
<1>2. TickTypeOK
  <2>1. StoreTypeOK
    BY DEF StoreInit, StoreTypeOK, CallTaskStatus
  <2>2. QueueTypeOK
    BY DEF QueueInit, QueueTypeOK
  <2>3. SchedTypeOK
    BY DEF SchedInit, SchedTypeOK
  <2>4. \A c \in Campaigns : activeCount[c] <= MaxConcurrency[c]
    BY DEF StoreInit
  <2>5. QED
    BY <1>1, <2>1, <2>2, <2>3, <2>4 DEF TickTypeOK, NoHookTx, HookTransactions
<1>3. \A s \in Schedulers : tx[s] = NoTx
  OBVIOUS
<1>4. \A h \in Hooks : hookTx[h] = NoHookTx
  OBVIOUS
<1>5. SelectionHolds
  BY <1>3 DEF SelectionHolds, NoTx
<1>6. RowsExclusive /\ SlotsExclusive /\ ReservationsFit /\ HookOrder
  BY <1>3, <1>4 DEF RowsExclusive, SlotsExclusive, ReservationsFit, HookOrder, NoTx, NoHookTx
<1>7. QED
  BY <1>2, <1>5, <1>6 DEF TickInv

\* A step that leaves the store, the queue and the schedulers alone.
StoreIdle == UNCHANGED <<storeVars, queueVars, schedVars, lateWrites>>

LEMMA SelectInv ==
    ASSUME TickInv, NEW s \in Schedulers, Select(s)
    PROVE  TickInv'
<1> USE DEF TickInv
<1>1. PICK rows \in Selections(s) :
        tx' = [tx EXCEPT ![s] = [NoTx EXCEPT !.open = TRUE, !.rows = rows,
                                             !.todo = rows, !.read = attempts]]
  BY DEF Select
<1>2. StoreIdle /\ hookTx' = hookTx /\ phase[s] \in {"reap", "claim"} /\ ~tx[s].open
  BY DEF Select, StoreIdle
<1>3. /\ rows \subseteq Tasks /\ \A t \in rows : RowHeldBy(t) = {}
      /\ phase[s] = "reap" => rows \subseteq Stuck
      /\ phase[s] = "claim" => rows \subseteq Eligible(Zones) /\ Cardinality(rows) <= BatchSize
  <2>1. CASE phase[s] = "reap"
    BY <2>1 DEF Selections, Selectable, Stuck
  <2>2. CASE phase[s] = "claim"
    <3>1. PICK open \in SUBSET Zones : rows \in Batches(Selectable(Eligible(open)))
      BY <2>2 DEF Selections
    <3> DEFINE due == Selectable(Eligible(open))
               n   == Cardinality(due)
    <3>2. /\ due \subseteq Eligible(Zones) /\ due \subseteq Tasks
          /\ \A t \in due : RowHeldBy(t) = {}
      BY DEF Selectable, Eligible
    <3>3. n \in Nat
      BY <3>2, FS_Subset, FS_CardinalityType, DeploymentAssumption
    <3>4. rows \subseteq due /\ Cardinality(rows) = Least(BatchSize, n)
      BY <3>1 DEF Batches
    <3> HIDE DEF n, due
    <3>5. Cardinality(rows) <= BatchSize
      BY <3>3, <3>4, SchedulerAssumption DEF Least
    <3>6. QED
      BY <2>2, <3>2, <3>4, <3>5
  <2>3. QED
    BY <1>2, <2>1, <2>2
<1>4. tx \in [Schedulers -> Transactions] /\ attempts \in [Tasks -> Nat]
  BY DEF TickTypeOK, StoreTypeOK
<1>5. /\ tx'[s] = [open |-> TRUE, rows |-> rows, read |-> attempts, todo |-> rows,
                   current |-> NoTask, done |-> {}, slots |-> {}]
      /\ \A r \in Schedulers : r # s => tx'[r] = tx[r]
  BY <1>1, <1>4 DEF NoTx
<1>6. TickTypeOK'
  <2>1. tx'[s] \in Transactions
    BY <1>3, <1>4, <1>5 DEF Transactions
  <2>2. tx' \in [Schedulers -> Transactions]
    BY <1>1, <1>4, <1>5, <2>1
  <2>3. QED
    BY <1>2, <2>2 DEF TickTypeOK, StoreIdle, StoreTypeOK, QueueTypeOK, SchedTypeOK, storeVars,
        taskVars, queueVars, schedVars
<1>7. SelectionHolds'
  <2>1. Stuck' = Stuck /\ Eligible(Zones)' = Eligible(Zones) /\ phase' = phase /\ attempts' = attempts
    BY <1>2 DEF StoreIdle, Stuck, Eligible, storeVars, taskVars, schedVars
  <2>2. NoTask \notin rows
    BY <1>3, DeploymentAssumption
  <2>3. QED
    BY <1>2, <1>3, <1>5, <2>1, <2>2 DEF SelectionHolds
<1>8. RowsExclusive'
  BY <1>2, <1>3, <1>5 DEF RowsExclusive, RowHeldBy
<1>9. SlotsExclusive'
  BY <1>5 DEF SlotsExclusive
<1>10. ReservationsFit'
  BY <1>2, <1>5 DEF ReservationsFit, OfCampaign, StoreIdle, storeVars, schedVars
<1>11. HookOrder'
  BY <1>2 DEF HookOrder
<1>12. QED
  BY <1>6, <1>7, <1>8, <1>9, <1>10, <1>11

\* ComeTo and LockSlot move only their transaction's loop on.
LEMMA ComeToMoves ==
    ASSUME TickTypeOK, NEW s \in Schedulers, NEW t \in Tasks, ComeTo(s, t)
    PROVE  /\ t \in tx[s].todo /\ tx[s].current = NoTask
           /\ StoreIdle /\ hookTx' = hookTx
           /\ tx' \in [Schedulers -> Transactions]
           /\ tx'[s].todo = tx[s].todo \ {t}
           /\ tx'[s].current = IF Hits(s, CampaignOf[t]) THEN t ELSE NoTask
           /\ \A r \in Schedulers : /\ tx'[r].open = tx[r].open
                                    /\ tx'[r].rows = tx[r].rows
                                    /\ tx'[r].read = tx[r].read
                                    /\ tx'[r].done = tx[r].done
                                    /\ tx'[r].slots = tx[r].slots
                                    /\ r # s => tx'[r] = tx[r]
<1> DEFINE cur == IF Hits(s, CampaignOf[t]) THEN t ELSE NoTask
           x   == tx[s]
           y   == [x EXCEPT !.todo = x.todo \ {t}, !.current = cur]
<1>1. /\ t \in tx[s].todo /\ tx[s].current = NoTask /\ StoreIdle /\ hookTx' = hookTx
      /\ tx' = [tx EXCEPT ![s] = y]
  BY DEF ComeTo, StoreIdle
<1>2. tx \in [Schedulers -> Transactions] /\ x \in Transactions
  BY DEF TickTypeOK
<1>3. cur = NoTask \/ cur = t
  OBVIOUS
<1> HIDE DEF cur, x
<1>4. /\ y \in Transactions
      /\ y.todo = x.todo \ {t} /\ y.current = cur
      /\ y.open = x.open /\ y.rows = x.rows /\ y.read = x.read
      /\ y.done = x.done /\ y.slots = x.slots
  BY <1>2, <1>3 DEF Transactions
<1> HIDE DEF y
<1>5. tx'[s] = y /\ (\A r \in Schedulers : r # s => tx'[r] = tx[r])
      /\ tx' \in [Schedulers -> Transactions]
  BY <1>1, <1>2, <1>4
<1>6. QED
  BY <1>1, <1>4, <1>5 DEF x, cur

LEMMA ComeToInv ==
    ASSUME TickInv, NEW s \in Schedulers, NEW t \in Tasks, ComeTo(s, t)
    PROVE  TickInv'
<1> USE DEF TickInv
<1> DEFINE cur == IF Hits(s, CampaignOf[t]) THEN t ELSE NoTask
<1>1. t \in tx[s].todo /\ StoreIdle /\ hookTx' = hookTx
  BY ComeToMoves
<1>2. tx \in [Schedulers -> Transactions]
  BY DEF TickTypeOK
<1>3. cur = NoTask \/ cur = t
  OBVIOUS
<1>4. /\ tx' \in [Schedulers -> Transactions]
      /\ tx'[s].todo = tx[s].todo \ {t} /\ tx'[s].current = cur
      /\ \A r \in Schedulers : /\ tx'[r].open = tx[r].open
                               /\ tx'[r].rows = tx[r].rows
                               /\ tx'[r].read = tx[r].read
                               /\ tx'[r].done = tx[r].done
                               /\ tx'[r].slots = tx[r].slots
                               /\ r # s => tx'[r] = tx[r]
  BY ComeToMoves
<1> HIDE DEF cur
<1>5. TickTypeOK'
  BY <1>1, <1>4 DEF TickTypeOK, StoreIdle, StoreTypeOK, QueueTypeOK, SchedTypeOK, storeVars,
      taskVars, queueVars, schedVars
<1>6. SelectionHolds'
  <2>1. Stuck' = Stuck /\ Eligible(Zones)' = Eligible(Zones) /\ phase' = phase /\ attempts' = attempts
    BY <1>1 DEF StoreIdle, Stuck, Eligible, storeVars, taskVars, schedVars
  <2>2. tx[s].open
    BY <1>1 DEF SelectionHolds, NoTx
  <2>3. t \in tx[s].rows /\ t \notin tx[s].done /\ NoTask \notin tx[s].rows
    BY <1>1, DeploymentAssumption DEF SelectionHolds, TickTypeOK, Transactions
  <2> SUFFICES ASSUME NEW r \in Schedulers PROVE SelectionHolds!(r)'
    BY DEF SelectionHolds
  <2>4. CASE r = s
    <3>1. /\ tx[s].todo \subseteq tx[s].rows /\ tx[s].done \subseteq tx[s].rows
          /\ tx[s].todo \cap tx[s].done = {}
      BY DEF SelectionHolds
    <3>2. /\ tx'[s].todo \subseteq tx'[s].rows /\ tx'[s].done \subseteq tx'[s].rows
          /\ tx'[s].current # NoTask => tx'[s].current \in tx'[s].rows
          /\ tx'[s].todo \cap tx'[s].done = {}
          /\ tx'[s].current \notin tx'[s].todo \cup tx'[s].done
      BY <1>3, <1>4, <2>3, <3>1
    <3>3. QED
      BY <1>4, <2>1, <2>2, <2>4, <3>2 DEF SelectionHolds
  <2>5. CASE r # s
    <3>1. NoTx' = NoTx
      BY DEF NoTx
    <3>2. QED
      BY <1>4, <2>1, <2>5, <3>1 DEF SelectionHolds
  <2>6. QED
    BY <2>4, <2>5
<1>7. RowsExclusive' /\ SlotsExclusive' /\ HookOrder'
  BY <1>1, <1>4 DEF RowsExclusive, SlotsExclusive, HookOrder
<1>8. ReservationsFit'
  BY <1>1, <1>4 DEF ReservationsFit, OfCampaign, StoreIdle, storeVars, schedVars
<1>9. QED
  BY <1>5, <1>6, <1>7, <1>8

LEMMA LockSlotMoves ==
    ASSUME TickInv, NEW s \in Schedulers, LockSlot(s)
    PROVE  /\ tx[s].current \in Tasks /\ tx[s].current \in tx[s].rows
           /\ StoreIdle /\ hookTx' = hookTx
           /\ tx' \in [Schedulers -> Transactions]
           /\ tx'[s].current = NoTask
           /\ tx'[s].slots = tx[s].slots \cup {CampaignOf[tx[s].current]}
           /\ tx'[s].done = tx[s].done \cup (IF StillHits(s) THEN {tx[s].current} ELSE {})
           /\ \A r \in Schedulers : /\ tx'[r].open = tx[r].open
                                    /\ tx'[r].rows = tx[r].rows
                                    /\ tx'[r].read = tx[r].read
                                    /\ tx'[r].todo = tx[r].todo
                                    /\ r # s => tx'[r] = tx[r]
<1> USE DEF TickInv
<1> DEFINE t == tx[s].current
           c == CampaignOf[t]
           done == tx[s].done \cup (IF StillHits(s) THEN {t} ELSE {})
           x == tx[s]
           y == [x EXCEPT !.current = NoTask, !.slots = x.slots \cup {c}, !.done = done]
<1>1. t # NoTask /\ tx' = [tx EXCEPT ![s] = y] /\ StoreIdle /\ hookTx' = hookTx
  BY DEF LockSlot, StoreIdle
<1>2. tx \in [Schedulers -> Transactions] /\ x \in Transactions
  BY DEF TickTypeOK
<1>3. t \in Tasks /\ c \in Campaigns /\ t \in tx[s].rows /\ done \in SUBSET Tasks
  BY <1>1, <1>2, DeploymentAssumption DEF Transactions, SelectionHolds
<1> HIDE DEF done, x, t, c
<1>4. /\ y \in Transactions
      /\ y.current = NoTask /\ y.slots = x.slots \cup {c} /\ y.done = done
      /\ y.open = x.open /\ y.rows = x.rows /\ y.read = x.read /\ y.todo = x.todo
  BY <1>2, <1>3 DEF Transactions
<1> HIDE DEF y
<1>5. tx'[s] = y /\ (\A r \in Schedulers : r # s => tx'[r] = tx[r])
      /\ tx' \in [Schedulers -> Transactions]
  BY <1>1, <1>2, <1>4
<1>6. QED
  BY <1>1, <1>3, <1>4, <1>5 DEF x, t, c, done

LEMMA LockSlotInv ==
    ASSUME TickInv, NEW s \in Schedulers, LockSlot(s)
    PROVE  TickInv'
<1> USE DEF TickInv
<1> DEFINE t == tx[s].current
           c == CampaignOf[t]
           done == tx[s].done \cup (IF StillHits(s) THEN {t} ELSE {})
<1>1. /\ t # NoTask
      /\ SlotHeldBy(c) \subseteq {s}
      /\ StoreIdle
      /\ hookTx' = hookTx
  BY DEF LockSlot, StoreIdle
<1>2. tx \in [Schedulers -> Transactions]
  BY DEF TickTypeOK
<1>3. t \in Tasks /\ c \in Campaigns /\ t \in tx[s].rows
  BY <1>1, <1>2, DeploymentAssumption DEF Transactions, SelectionHolds
<1>4. done \subseteq tx[s].done \cup {t} /\ tx[s].done \subseteq done
  OBVIOUS
<1>5. phase[s] = "claim" =>
        \/ done = tx[s].done
        \/ HasHeadroom(s, c) /\ done = tx[s].done \cup {t}
  BY DEF StillHits, Hits
<1>6. /\ tx' \in [Schedulers -> Transactions]
      /\ tx'[s].current = NoTask
      /\ tx'[s].slots = tx[s].slots \cup {c}
      /\ tx'[s].done = done
      /\ \A r \in Schedulers : /\ tx'[r].open = tx[r].open
                               /\ tx'[r].rows = tx[r].rows
                               /\ tx'[r].read = tx[r].read
                               /\ tx'[r].todo = tx[r].todo
                               /\ r # s => tx'[r] = tx[r]
  BY LockSlotMoves
<1> HIDE DEF done
<1>7. TickTypeOK'
  BY <1>1, <1>6 DEF TickTypeOK, StoreIdle, StoreTypeOK, QueueTypeOK, SchedTypeOK, storeVars,
      taskVars, queueVars, schedVars
<1>8. SelectionHolds'
  <2>1. Stuck' = Stuck /\ Eligible(Zones)' = Eligible(Zones) /\ phase' = phase /\ attempts' = attempts
    BY <1>1 DEF StoreIdle, Stuck, Eligible, storeVars, taskVars, schedVars
  <2>2. tx[s].open
    BY <1>1 DEF SelectionHolds, NoTx
  <2>3. done \subseteq tx[s].rows
    BY <1>3, <1>4 DEF SelectionHolds
  <2>4. /\ tx[s].todo \subseteq tx[s].rows /\ t \notin tx[s].todo
        /\ tx[s].todo \cap tx[s].done = {} /\ NoTask \notin tx[s].rows
    BY <1>1, DeploymentAssumption DEF SelectionHolds, TickTypeOK, Transactions
  <2> HIDE DEF t, c
  <2> SUFFICES ASSUME NEW r \in Schedulers PROVE SelectionHolds!(r)'
    BY DEF SelectionHolds
  <2>5. CASE r = s
    <3>1. /\ tx'[s].todo \subseteq tx'[s].rows /\ tx'[s].done \subseteq tx'[s].rows
          /\ tx'[s].current = NoTask
          /\ tx'[s].todo \cap tx'[s].done = {}
          /\ tx'[s].current \notin tx'[s].todo \cup tx'[s].done
      BY <1>4, <1>6, <2>3, <2>4
    <3>2. QED
      BY <1>6, <2>1, <2>2, <2>5, <3>1 DEF SelectionHolds
  <2>6. CASE r # s
    <3>1. NoTx' = NoTx
      BY DEF NoTx
    <3>2. QED
      BY <1>6, <2>1, <2>6, <3>1 DEF SelectionHolds
  <2>7. QED
    BY <2>5, <2>6
<1>9. RowsExclusive' /\ HookOrder'
  BY <1>1, <1>6 DEF RowsExclusive, HookOrder
<1>10. SlotsExclusive'
  <2>1. \A r \in Schedulers : r # s => c \notin tx[r].slots
    BY <1>1 DEF SlotHeldBy
  <2>2. \A u \in done : CampaignOf[u] \in tx[s].slots \cup {c}
    BY <1>4 DEF SlotsExclusive
  <2> HIDE DEF t, c
  <2>3. QED
    BY <1>6, <2>1, <2>2 DEF SlotsExclusive
<1>11. ReservationsFit'
  <2>1. activeCount' = activeCount /\ phase' = phase
    BY <1>1 DEF StoreIdle, storeVars, schedVars
  <2> SUFFICES ASSUME NEW r \in Schedulers, NEW b \in Campaigns,
                      tx[r].open, phase[r] = "claim", OfCampaign(tx'[r].done, b) # {}
               PROVE  activeCount[b] + Cardinality(OfCampaign(tx'[r].done, b)) <= MaxConcurrency[b]
    BY <1>6, <2>1 DEF ReservationsFit, OfCampaign
  <2>2. CASE r # s \/ done = tx[s].done \/ b # c
    <3>1. OfCampaign(tx'[r].done, b) = OfCampaign(tx[r].done, b)
      <4>1. CASE r # s
        BY <1>6, <4>1
      <4>2. CASE r = s /\ done = tx[s].done
        BY <1>6, <4>2
      <4>3. CASE r = s /\ b # c
        BY <1>4, <1>6, <4>3 DEF OfCampaign
      <4>4. QED
        BY <2>2, <4>1, <4>2, <4>3
    <3>2. QED
      BY <3>1 DEF ReservationsFit
  <2>4. CASE r = s /\ b = c /\ HasHeadroom(s, c) /\ done = tx[s].done \cup {t}
    <3> DEFINE D == OfCampaign(tx[s].done, c)
               n == Cardinality(D)
               m == Cardinality(D \cup {t})
    <3>1. IsFiniteSet(D) /\ n \in Nat
      <4>1. tx[s].done \in SUBSET Tasks
        BY <1>2 DEF Transactions
      <4>2. QED
        BY <4>1, OfCampaignFinite
    <3>2. m = n \/ m = n + 1
      BY <3>1, FS_AddElement
    <3>3. activeCount[c] + n < MaxConcurrency[c] /\ activeCount[c] \in Nat
          /\ MaxConcurrency[c] \in Nat
      BY <1>3, <2>4, DeploymentAssumption DEF HasHeadroom, Counted, TickTypeOK, StoreTypeOK
    <3>4. OfCampaign(tx'[r].done, b) = D \cup {t}
      BY <1>3, <1>6, <2>4 DEF OfCampaign
    <3> HIDE DEF n, D
    <3>5. activeCount[c] + m <= MaxConcurrency[c]
      <4> HIDE DEF c, t, m
      <4>1. QED
        BY <3>1, <3>2, <3>3
    <3>6. QED
      BY <2>4, <3>4, <3>5
  <2>5. QED
    BY <1>5, <2>2, <2>4
<1>12. QED
  BY <1>7, <1>8, <1>9, <1>10, <1>11

\* The transaction s ends, whatever becomes of the store: the rows and counters
\* of the others stay their own.
LEMMA TxEnds ==
    ASSUME TickInv, NEW s \in Schedulers, tx' = [tx EXCEPT ![s] = NoTx], hookTx' = hookTx
    PROVE  /\ tx' \in [Schedulers -> Transactions]
           /\ tx'[s] = NoTx
           /\ \A r \in Schedulers : r # s => tx'[r] = tx[r]
           /\ RowsExclusive'
           /\ SlotsExclusive'
           /\ HookOrder'
<1> USE DEF TickInv
<1>1. tx \in [Schedulers -> Transactions] /\ NoTx \in Transactions
  BY DEF TickTypeOK, NoTx, Transactions
<1>2. /\ tx' \in [Schedulers -> Transactions]
      /\ tx'[s] = NoTx
      /\ \A r \in Schedulers : r # s => tx'[r] = tx[r]
  BY <1>1
<1>3. NoTx.rows = {} /\ NoTx.done = {} /\ NoTx.slots = {}
  BY DEF NoTx
<1>4. RowsExclusive' /\ SlotsExclusive' /\ HookOrder'
  BY <1>2, <1>3 DEF RowsExclusive, SlotsExclusive, HookOrder
<1>5. QED
  BY <1>2, <1>4

LEMMA RollBackInv ==
    ASSUME TickInv, NEW s \in Schedulers, RollBack(s)
    PROVE  TickInv'
<1> USE DEF TickInv
<1>1. /\ tx' = [tx EXCEPT ![s] = NoTx] /\ hookTx' = hookTx
      /\ UNCHANGED <<storeVars, queueVars, crashes, lateWrites>>
      /\ phase' \in [Schedulers -> {"reap", "claim", "send"}]
      /\ claimed' \in [Schedulers -> SUBSET Tasks]
      /\ \A r \in Schedulers : r # s => phase'[r] = phase[r]
  BY DEF RollBack, Forget, TickTypeOK, SchedTypeOK
<1>2. /\ tx' \in [Schedulers -> Transactions]
      /\ tx'[s] = NoTx
      /\ \A r \in Schedulers : r # s => tx'[r] = tx[r]
      /\ RowsExclusive' /\ SlotsExclusive' /\ HookOrder'
  BY <1>1, TxEnds
<1>3. NoTx.done = {} /\ NoTx.todo = {} /\ NoTx.rows = {} /\ NoTx.current = NoTask /\ ~NoTx.open
  BY DEF NoTx
<1>4. TickTypeOK'
  BY <1>1, <1>2 DEF TickTypeOK, StoreTypeOK, QueueTypeOK, SchedTypeOK, storeVars,
      taskVars, queueVars
<1>5. SelectionHolds'
  <2>1. Stuck' = Stuck /\ Eligible(Zones)' = Eligible(Zones) /\ attempts' = attempts
    BY <1>1 DEF Stuck, Eligible, storeVars, taskVars
  <2>2. SUFFICES ASSUME NEW r \in Schedulers PROVE SelectionHolds!(r)'
    BY DEF SelectionHolds
  <2>3. NoTx' = NoTx
    BY DEF NoTx
  <2>4. CASE r = s
    BY <1>2, <1>3, <2>3, <2>4
  <2>5. CASE r # s
    BY <1>1, <1>2, <2>1, <2>3, <2>5 DEF SelectionHolds
  <2>6. QED
    BY <2>4, <2>5
<1>6. ReservationsFit'
  BY <1>1, <1>2, <1>3 DEF ReservationsFit, OfCampaign, storeVars
<1>7. QED
  BY <1>2, <1>4, <1>5, <1>6

\* The steps of a webhook that do not commit.
LEMMA HookLocksInv ==
    ASSUME TickInv, NEW h \in Hooks,
           (\E t \in Tasks : Read(h, t)) \/ HookLock(h) \/ PassSlot(h) \/ RollBackHook(h)
    PROVE  TickInv'
<1> USE DEF TickInv
<1>1. StoreIdle /\ tx' = tx
  BY DEF Read, HookLock, PassSlot, RollBackHook, StoreIdle
<1>2. hookTx \in [Hooks -> HookTransactions] /\ hookTx[h] \in HookTransactions
  BY DEF TickTypeOK
<1>3. /\ hookTx' \in [Hooks -> HookTransactions]
      /\ \A k \in Hooks : k # h => hookTx'[k] = hookTx[k]
      /\ hookTx'[h].task = NoTask => hookTx'[h].holds = {} /\ ~hookTx'[h].missed
      /\ "slot" \in hookTx'[h].holds \/ hookTx'[h].missed => "row" \in hookTx'[h].holds
      /\ "row" \in hookTx'[h].holds => \A s \in Schedulers : hookTx'[h].task \notin tx[s].rows
  <2>1. CASE \E t \in Tasks : Read(h, t)
    <3>1. PICK t \in Tasks : Read(h, t)
      BY <2>1
    <3>2. t # NoTask /\ attempts[t] \in Nat
      BY DeploymentAssumption DEF TickTypeOK, StoreTypeOK
    <3>3. /\ hookTx'[h].task = t /\ hookTx'[h].holds = {} /\ ~hookTx'[h].missed
          /\ hookTx' \in [Hooks -> HookTransactions]
          /\ \A k \in Hooks : k # h => hookTx'[k] = hookTx[k]
      BY <1>2, <3>1, <3>2 DEF Read, HookOrder, HookTransactions
    <3>4. QED
      BY <3>2, <3>3
  <2>2. CASE HookLock(h)
    <3>1. PICK lock \in NextLock(h) :
            /\ HoldersOf(h, lock) = {}
            /\ hookTx' = [hookTx EXCEPT ![h].holds = @ \cup {lock},
                                        ![h].missed = lock = "slot" /\ NoSlotLeft(h)]
      BY <2>2 DEF HookLock
    <3>2. /\ hookTx[h].task # NoTask
          /\ lock \in {"row", "slot"}
          /\ lock = "slot" => "row" \in hookTx[h].holds
          /\ lock = "row" => \A s \in Schedulers : hookTx[h].task \notin tx[s].rows
      BY <2>2, <3>1 DEF HookLock, NextLock, HoldersOf, RowHeldBy
    <3>3. /\ hookTx'[h].task = hookTx[h].task
          /\ hookTx'[h].holds = hookTx[h].holds \cup {lock}
          /\ hookTx'[h].missed => lock = "slot"
          /\ hookTx' \in [Hooks -> HookTransactions]
          /\ \A k \in Hooks : k # h => hookTx'[k] = hookTx[k]
      BY <1>2, <3>1, <3>2 DEF HookTransactions
    <3>4. QED
      BY <3>2, <3>3 DEF HookOrder, RowsExclusive
  <2>3. CASE PassSlot(h)
    <3>1. "row" \in hookTx[h].holds /\ hookTx[h].task # NoTask
      BY <2>3 DEF PassSlot, NextLock
    <3>2. /\ hookTx'[h].task = hookTx[h].task /\ hookTx'[h].holds = hookTx[h].holds
          /\ hookTx' \in [Hooks -> HookTransactions]
          /\ \A k \in Hooks : k # h => hookTx'[k] = hookTx[k]
      BY <1>2, <2>3 DEF PassSlot, HookTransactions
    <3>3. QED
      BY <3>1, <3>2 DEF RowsExclusive
  <2>4. CASE RollBackHook(h)
    BY <1>2, <2>4 DEF RollBackHook, NoHookTx, HookTransactions
  <2>5. QED
    BY <2>1, <2>2, <2>3, <2>4
<1>4. TickTypeOK'
  BY <1>1, <1>3 DEF TickTypeOK, StoreIdle, StoreTypeOK, QueueTypeOK, SchedTypeOK, storeVars,
      taskVars, queueVars, schedVars
<1>5. RowsExclusive' /\ HookOrder'
  <2>1. \A k \in Hooks : k # h => hookTx'[k] = hookTx[k]
    BY <1>3
  <2>2. RowsExclusive'
    BY <1>1, <1>3, <2>1 DEF RowsExclusive
  <2>3. HookOrder'
    BY <1>3, <2>1 DEF HookOrder
  <2>4. QED
    BY <2>2, <2>3
<1>6. SelectionHolds' /\ SlotsExclusive' /\ ReservationsFit'
  <2>1. /\ Stuck' = Stuck /\ Eligible(Zones)' = Eligible(Zones) /\ phase' = phase /\ attempts' = attempts
        /\ activeCount' = activeCount
    BY <1>1 DEF StoreIdle, Stuck, Eligible, storeVars, taskVars, schedVars
  <2>2. NoTx' = NoTx
    BY DEF NoTx
  <2>3. QED
    BY <1>1, <2>1, <2>2 DEF SelectionHolds, SlotsExclusive, ReservationsFit, OfCampaign
<1>7. QED
  BY <1>4, <1>5, <1>6

\* Others may write any row but those r has selected.
LEMMA SelectionKept ==
    ASSUME TickInv, NEW r \in Schedulers, tx'[r] = tx[r], phase'[r] = phase[r],
           \A t \in tx[r].rows : /\ status'[t] = status[t]
                                 /\ attempts'[t] = attempts[t]
                                 /\ expired[t] => expired'[t]
    PROVE  SelectionHolds!(r)'
<1> USE DEF TickInv
<1>1. NoTx' = NoTx
  BY DEF NoTx
<1>2. \A t \in tx[r].rows : /\ t \in Stuck => t \in Stuck'
                            /\ t \in Eligible(Zones) => t \in Eligible(Zones)'
  BY DEF Stuck, Eligible
<1>3. QED
  BY <1>1, <1>2 DEF SelectionHolds

LEMMA NoTxHolds ==
    ASSUME NEW s \in Schedulers, tx'[s] = NoTx
    PROVE  SelectionHolds!(s)'
BY DEF NoTx

\* The end of s's transaction, with the rows it held as the only ones written.
LEMMA CommitKeepsSelections ==
    ASSUME TickInv, NEW s \in Schedulers, tx' = [tx EXCEPT ![s] = NoTx], hookTx' = hookTx,
           \A r \in Schedulers : r # s => phase'[r] = phase[r],
           \A t \in Tasks \ tx[s].rows : /\ status'[t] = status[t]
                                         /\ attempts'[t] = attempts[t]
                                         /\ expired'[t] = expired[t]
    PROVE  SelectionHolds'
<1> USE DEF TickInv
<1> SUFFICES ASSUME NEW r \in Schedulers PROVE SelectionHolds!(r)'
  BY DEF SelectionHolds
<1>1. tx'[s] = NoTx /\ (r # s => tx'[r] = tx[r])
  BY TxEnds
<1>2. CASE r = s
  BY <1>1, <1>2, NoTxHolds
<1>3. CASE r # s
  <2>1. \A t \in tx[r].rows : t \in Tasks /\ t \notin tx[s].rows
    BY <1>3 DEF RowsExclusive, TickTypeOK, Transactions
  <2>2. QED
    BY <1>1, <1>3, <2>1, SelectionKept
<1>4. QED
  BY <1>2, <1>3

LEMMA CommitReapInv ==
    ASSUME TickInv, NEW s \in Schedulers, CommitReap(s)
    PROVE  TickInv'
<1> USE DEF TickInv
<1> DEFINE done == tx[s].done
           rows == tx[s].rows
<1>1. /\ WriteRetry(rows, tx[s].read) /\ ReleaseSlots(done)
      /\ phase' = [phase EXCEPT ![s] = "claim"]
      /\ tx' = [tx EXCEPT ![s] = NoTx] /\ hookTx' = hookTx
      /\ UNCHANGED <<providerEvents, outcomes, queueVars, claimed, crashes, lateWrites>>
  BY DEF CommitReap
<1>2. /\ tx' \in [Schedulers -> Transactions]
      /\ tx'[s] = NoTx
      /\ \A r \in Schedulers : r # s => tx'[r] = tx[r]
      /\ RowsExclusive' /\ SlotsExclusive' /\ HookOrder'
  BY <1>1, TxEnds
<1>3. done \in SUBSET Tasks /\ rows \in SUBSET Tasks /\ tx[s].read \in [Tasks -> Nat] /\ done \subseteq rows
  BY DEF TickTypeOK, Transactions, SelectionHolds
<1>4. StoreTypeOK /\ phase \in [Schedulers -> {"reap", "claim", "send"}]
  BY DEF TickTypeOK, SchedTypeOK
<1>5. \A c \in Campaigns : activeCount'[c] <= activeCount[c]
  <2> SUFFICES ASSUME NEW c \in Campaigns PROVE activeCount'[c] <= activeCount[c]
    OBVIOUS
  <2>1. Cardinality(OfCampaign(done, c)) \in Nat
    BY <1>3, OfCampaignFinite
  <2>2. activeCount[c] \in Nat /\ activeCount'[c] = Released(activeCount[c], Cardinality(OfCampaign(done, c)))
    BY <1>1, <1>4 DEF StoreTypeOK, ReleaseSlots
  <2>3. \A n, k \in Nat : Released(n, k) <= n
    BY DEF Released
  <2>4. QED
    BY <2>1, <2>2, <2>3
<1>6. activeCount' \in [Campaigns -> Nat] /\ activeCount \in [Campaigns -> Nat]
  BY <1>1, <1>3, <1>4, ReleaseSlotsType DEF StoreTypeOK
<1>7. TickTypeOK'
  <2>1. StoreTypeOK'
    BY <1>1, <1>3, <1>4, <1>6, WriteRetryType DEF StoreTypeOK
  <2>2. \A c \in Campaigns : activeCount'[c] <= MaxConcurrency[c]
    BY <1>5, <1>6, DeploymentAssumption DEF TickTypeOK
  <2>3. QED
    BY <1>1, <1>2, <1>4, <2>1, <2>2 DEF TickTypeOK, QueueTypeOK, SchedTypeOK, queueVars
<1>8. SelectionHolds'
  <2>1. \A t \in Tasks \ rows : /\ status'[t] = status[t]
                                      /\ attempts'[t] = attempts[t]
                                      /\ expired'[t] = expired[t]
    BY <1>1, <1>3 DEF WriteRetry
  <2>2. \A r \in Schedulers : r # s => phase'[r] = phase[r]
    BY <1>1
  <2>3. QED
    BY <1>1, <2>1, <2>2, CommitKeepsSelections
<1>9. ReservationsFit'
  <2> SUFFICES ASSUME NEW r \in Schedulers, NEW c \in Campaigns,
                      tx'[r].open, phase'[r] = "claim", OfCampaign(tx'[r].done, c) # {}
               PROVE  activeCount'[c] + Cardinality(OfCampaign(tx'[r].done, c)) <= MaxConcurrency[c]
    BY DEF ReservationsFit, OfCampaign
  <2>1. r # s /\ tx'[r] = tx[r] /\ phase[r] = "claim"
    BY <1>1, <1>2 DEF NoTx
  <2>2. activeCount[c] + Cardinality(OfCampaign(tx[r].done, c)) <= MaxConcurrency[c]
    BY <2>1 DEF ReservationsFit
  <2>3. Cardinality(OfCampaign(tx[r].done, c)) \in Nat
    <3>1. tx[r].done \in SUBSET Tasks
      BY DEF TickTypeOK, Transactions
    <3>2. QED
      BY <3>1, OfCampaignFinite
  <2>4. QED
    BY <1>5, <1>6, <2>1, <2>2, <2>3, DeploymentAssumption
<1>10. QED
  BY <1>2, <1>7, <1>8, <1>9

LEMMA CommitClaimInv ==
    ASSUME TickInv, NEW s \in Schedulers, CommitClaim(s)
    PROVE  TickInv'
<1> USE DEF TickInv
<1> DEFINE done == tx[s].done
           n(c) == Cardinality(OfCampaign(done, c))
<1>1. /\ Take(done)
      /\ claimed' = [claimed EXCEPT ![s] = done]
      /\ phase' = [phase EXCEPT ![s] = IF done = {} THEN "reap" ELSE "send"]
      /\ tx' = [tx EXCEPT ![s] = NoTx] /\ hookTx' = hookTx
      /\ UNCHANGED <<attempts, providerCallId, providerEvents, outcomes,
                     queueVars, crashes, lateWrites>>
      /\ phase[s] = "claim" /\ tx[s].open
  BY DEF CommitClaim, LoopDone
<1>2. /\ tx' \in [Schedulers -> Transactions]
      /\ tx'[s] = NoTx
      /\ \A r \in Schedulers : r # s => tx'[r] = tx[r]
      /\ RowsExclusive' /\ SlotsExclusive' /\ HookOrder'
  BY <1>1, TxEnds
<1>3. done \in SUBSET Tasks /\ done \subseteq tx[s].rows
  BY DEF TickTypeOK, Transactions, SelectionHolds
<1>4. StoreTypeOK /\ SchedTypeOK
  BY DEF TickTypeOK
<1>5. \A c \in Campaigns : n(c) \in Nat /\ (OfCampaign(done, c) = {} => n(c) = 0)
  BY <1>3, OfCampaignFinite, FS_EmptySet
<1>6. \A c \in Campaigns : activeCount[c] + n(c) <= MaxConcurrency[c]
  <2> SUFFICES ASSUME NEW c \in Campaigns PROVE activeCount[c] + n(c) <= MaxConcurrency[c]
    OBVIOUS
  <2>1. CASE OfCampaign(done, c) = {}
    <3>1. n(c) = 0 /\ activeCount[c] <= MaxConcurrency[c] /\ activeCount[c] \in Nat
      BY <1>4, <1>5, <2>1 DEF TickTypeOK, StoreTypeOK
    <3> HIDE DEF n
    <3>2. QED
      BY <3>1
  <2>2. CASE OfCampaign(done, c) # {}
    BY <1>1, <2>2 DEF ReservationsFit
  <2>3. QED
    BY <2>1, <2>2
<1>7. \A c \in Campaigns : activeCount'[c] = activeCount[c] + n(c)
  BY <1>1 DEF Take
<1>8. activeCount' = [c \in Campaigns |-> activeCount[c] + n(c)] /\ activeCount \in [Campaigns -> Nat]
  BY <1>1, <1>4 DEF Take, StoreTypeOK
<1> HIDE DEF n
<1>9. TickTypeOK'
  <2>1. activeCount' \in [Campaigns -> Nat]
    BY <1>5, <1>8
  <2>2. /\ status' \in [Tasks -> CallTaskStatus]
        /\ expired' \in [Tasks -> BOOLEAN]
    BY <1>1, <1>4 DEF Take, StoreTypeOK, CallTaskStatus
  <2>3. StoreTypeOK'
    BY <1>1, <1>4, <2>1, <2>2 DEF StoreTypeOK
  <2>4. \A c \in Campaigns : activeCount'[c] <= MaxConcurrency[c]
    BY <1>6, <1>7
  <2>5. SchedTypeOK'
    BY <1>1, <1>3, <1>4 DEF SchedTypeOK
  <2>6. QED
    BY <1>1, <1>2, <2>3, <2>4, <2>5 DEF TickTypeOK, QueueTypeOK, queueVars
<1>10. SelectionHolds'
  <2>1. \A t \in Tasks \ tx[s].rows : /\ status'[t] = status[t]
                                      /\ attempts'[t] = attempts[t]
                                      /\ expired'[t] = expired[t]
    BY <1>1, <1>3 DEF Take
  <2>2. \A r \in Schedulers : r # s => phase'[r] = phase[r]
    BY <1>1, <1>4 DEF SchedTypeOK
  <2>3. QED
    BY <1>1, <2>1, <2>2, CommitKeepsSelections
<1>11. ReservationsFit'
  <2> SUFFICES ASSUME NEW r \in Schedulers, NEW c \in Campaigns,
                      tx'[r].open, phase'[r] = "claim", OfCampaign(tx'[r].done, c) # {}
               PROVE  activeCount'[c] + Cardinality(OfCampaign(tx'[r].done, c)) <= MaxConcurrency[c]
    BY DEF ReservationsFit, OfCampaign
  <2>1. r # s /\ tx'[r] = tx[r] /\ phase[r] = "claim"
    BY <1>1, <1>2, <1>4 DEF NoTx, SchedTypeOK
  <2>2. activeCount[c] + Cardinality(OfCampaign(tx[r].done, c)) <= MaxConcurrency[c]
    BY <2>1 DEF ReservationsFit
  <2>3. OfCampaign(done, c) = {}
    BY <2>1 DEF SlotsExclusive, OfCampaign
  <2>4. activeCount[c] \in Nat /\ n(c) = 0
    BY <1>5, <1>8, <2>3
  <2>5. activeCount'[c] = activeCount[c]
    BY <1>7, <2>4
  <2>6. QED
    BY <2>1, <2>2, <2>5
<1>12. QED
  BY <1>2, <1>9, <1>10, <1>11

\* Its commit writes the one row the webhook holds.
LEMMA CommitHookInv ==
    ASSUME TickInv, NEW h \in Hooks, CommitHook(h)
    PROVE  TickInv'
<1> USE DEF TickInv
<1> DEFINE t == hookTx[h].task
           read == [u \in Tasks |-> hookTx[h].read]
           freed == IF hookTx[h].missed THEN {} ELSE {t}
<1>1. /\ t # NoTask /\ "row" \in hookTx[h].holds
      /\ ReleaseSlots(freed)
      /\ hookTx' = [hookTx EXCEPT ![h] = NoHookTx]
      /\ UNCHANGED <<providerEvents, outcomes, queueVars, schedVars, tx>>
      /\ \/ /\ status' = [status EXCEPT ![t] = "completed"]
            /\ UNCHANGED <<attempts, providerCallId, expired>>
         \/ WriteRetry({t}, read)
  BY DEF CommitHook, NextLock
<1>2. StoreTypeOK /\ hookTx \in [Hooks -> HookTransactions]
  BY DEF TickTypeOK
<1>3. t \in Tasks /\ read \in [Tasks -> Nat] /\ lateWrites' \subseteq Tasks
      /\ freed \in SUBSET Tasks
  <2>1. t \in Tasks /\ hookTx[h].read \in Nat
    BY <1>1, <1>2 DEF HookTransactions
  <2>2. QED
    BY <2>1 DEF CommitHook, TickTypeOK
<1> HIDE DEF read, freed
<1>4. \A c \in Campaigns : activeCount'[c] <= activeCount[c]
  <2> SUFFICES ASSUME NEW c \in Campaigns PROVE activeCount'[c] <= activeCount[c]
    OBVIOUS
  <2>1. Cardinality(OfCampaign(freed, c)) \in Nat
    BY <1>3, OfCampaignFinite
  <2>2. activeCount[c] \in Nat /\ activeCount'[c] = Released(activeCount[c], Cardinality(OfCampaign(freed, c)))
    BY <1>1, <1>2 DEF StoreTypeOK, ReleaseSlots
  <2>3. \A n, k \in Nat : Released(n, k) <= n
    BY DEF Released
  <2>4. QED
    BY <2>1, <2>2, <2>3
<1>5. activeCount' \in [Campaigns -> Nat] /\ activeCount \in [Campaigns -> Nat]
  BY <1>1, <1>2, <1>3, ReleaseSlotsType DEF StoreTypeOK
<1>6. StoreTypeOK'
  <2>1. CASE WriteRetry({t}, read)
    BY <1>1, <1>2, <1>3, <1>5, <2>1, WriteRetryType DEF StoreTypeOK
  <2>2. CASE ~WriteRetry({t}, read)
    BY <1>1, <1>2, <1>3, <1>5, <2>2 DEF StoreTypeOK, CallTaskStatus
  <2>3. QED
    BY <2>1, <2>2
<1>7. TickTypeOK'
  <2>1. \A c \in Campaigns : activeCount'[c] <= MaxConcurrency[c]
    BY <1>4, <1>5, DeploymentAssumption DEF TickTypeOK
  <2>2. QED
    BY <1>1, <1>3, <1>6, <2>1 DEF TickTypeOK, NoHookTx, HookTransactions, QueueTypeOK,
        SchedTypeOK, queueVars, schedVars
<1>8. SelectionHolds'
  <2> SUFFICES ASSUME NEW r \in Schedulers PROVE SelectionHolds!(r)'
    BY DEF SelectionHolds
  <2>1. \A u \in tx[r].rows : u \in Tasks /\ u # t
    BY <1>1 DEF RowsExclusive, TickTypeOK, Transactions
  <2>2. \A u \in tx[r].rows : /\ status'[u] = status[u]
                              /\ attempts'[u] = attempts[u]
                              /\ expired'[u] = expired[u]
    BY <1>1, <1>2, <2>1 DEF WriteRetry, StoreTypeOK
  <2>3. QED
    BY <1>1, <2>2, SelectionKept DEF schedVars
<1>9. RowsExclusive' /\ SlotsExclusive' /\ HookOrder'
  BY <1>1 DEF RowsExclusive, SlotsExclusive, HookOrder, NoHookTx, TickTypeOK
<1>10. ReservationsFit'
  <2> SUFFICES ASSUME NEW r \in Schedulers, NEW c \in Campaigns,
                      tx[r].open, phase[r] = "claim", OfCampaign(tx[r].done, c) # {}
               PROVE  activeCount'[c] + Cardinality(OfCampaign(tx[r].done, c)) <= MaxConcurrency[c]
    BY <1>1 DEF ReservationsFit, OfCampaign, schedVars
  <2>1. activeCount[c] + Cardinality(OfCampaign(tx[r].done, c)) <= MaxConcurrency[c]
    BY DEF ReservationsFit
  <2>2. Cardinality(OfCampaign(tx[r].done, c)) \in Nat
    <3>1. tx[r].done \in SUBSET Tasks
      BY DEF TickTypeOK, Transactions
    <3>2. QED
      BY <3>1, OfCampaignFinite
  <2>3. QED
    BY <1>4, <1>5, <2>1, <2>2, DeploymentAssumption
<1>11. QED
  BY <1>7, <1>8, <1>9, <1>10

\* Steps that leave transactions, webhooks and counters alone.
LEMMA EnvironmentInv ==
    ASSUME TickInv,
           \/ \E t \in Tasks : TimeOut(t) \/ \E c \in Calls : Mark(t, c)
           \/ \E s \in Schedulers, t \in Tasks : SendOrder(s, t)
    PROVE  TickInv'
<1> USE DEF TickInv
<1>1. UNCHANGED <<tx, hookTx, lateWrites, activeCount>>
  BY DEF TimeOut, Expire, Mark, SendOrder, Send, storeVars
<1>2. TickTypeOK'
  <2>1. CASE \E t \in Tasks : TimeOut(t) \/ \E c \in Calls : Mark(t, c)
    <3>1. /\ status' \in [Tasks -> CallTaskStatus]
          /\ providerCallId' \in [Tasks -> Calls \cup {NoCall}]
          /\ expired' \in [Tasks -> BOOLEAN]
      <4>1. CASE \E t \in Tasks : TimeOut(t)
        BY <4>1 DEF TimeOut, Expire, TickTypeOK, StoreTypeOK
      <4>2. CASE \E t \in Tasks, c \in Calls : Mark(t, c)
        BY <4>2 DEF Mark, TickTypeOK, StoreTypeOK, CallTaskStatus
      <4>3. QED
        BY <2>1, <4>1, <4>2
    <3>2. UNCHANGED <<attempts, providerEvents, outcomes, queueVars, schedVars>>
      BY <2>1 DEF TimeOut, Expire, Mark
    <3>3. StoreTypeOK'
      BY <1>1, <3>1, <3>2 DEF TickTypeOK, StoreTypeOK
    <3>4. QED
      BY <1>1, <3>2, <3>3 DEF TickTypeOK, QueueTypeOK, SchedTypeOK, queueVars, schedVars
  <2>2. CASE \E s \in Schedulers, t \in Tasks : SendOrder(s, t)
    <3>1. PICK s \in Schedulers, t \in Tasks : Send(s, t)
      BY <2>2 DEF SendOrder
    <3>2. QueueTypeOK'
      BY <3>1, EnqueueType DEF Send, TickTypeOK
    <3>3. SchedTypeOK'
      BY <3>1 DEF Send, SchedTypeOK, TickTypeOK
    <3>4. QED
      BY <1>1, <3>1, <3>2, <3>3 DEF Send, TickTypeOK, StoreTypeOK, storeVars, taskVars
  <2>3. QED
    BY <2>1, <2>2
<1>3. SelectionHolds'
  <2> SUFFICES ASSUME NEW r \in Schedulers PROVE SelectionHolds!(r)'
    BY DEF SelectionHolds
  <2>1. tx[r].rows \subseteq Tasks
    BY DEF TickTypeOK, Transactions
  <2>2. CASE \E t \in Tasks : TimeOut(t) \/ \E c \in Calls : Mark(t, c)
    <3>1. \A u \in tx[r].rows : /\ status'[u] = status[u]
                                /\ attempts'[u] = attempts[u]
                                /\ expired[u] => expired'[u]
      BY <2>1, <2>2 DEF TimeOut, Expire, Mark, RowHeldBy, TickTypeOK, StoreTypeOK
    <3>2. phase' = phase
      BY <2>2 DEF TimeOut, Mark, schedVars
    <3>3. QED
      BY <1>1, <3>1, <3>2, SelectionKept
  <2>3. CASE \E s \in Schedulers, t \in Tasks : SendOrder(s, t)
    <3>1. PICK s \in Schedulers, t \in Tasks : Send(s, t)
      BY <2>3 DEF SendOrder
    <3>2. CASE r = s
      <4>1. ~tx[r].open
        BY <3>1, <3>2 DEF Send, SelectionHolds
      <4>2. tx'[r] = NoTx
        BY <1>1, <4>1 DEF SelectionHolds
      <4>3. QED
        BY <4>2, NoTxHolds
    <3>3. CASE r # s
      <4>1. phase'[r] = phase[r]
        BY <3>1, <3>3 DEF Send, TickTypeOK, SchedTypeOK
      <4>2. UNCHANGED <<status, attempts, expired>>
        BY <3>1 DEF Send, storeVars, taskVars
      <4>3. QED
        BY <1>1, <4>1, <4>2, SelectionKept
    <3>4. QED
      BY <3>2, <3>3
  <2>4. QED
    BY <2>2, <2>3
<1>4. RowsExclusive' /\ SlotsExclusive' /\ HookOrder'
  BY <1>1 DEF RowsExclusive, SlotsExclusive, HookOrder
<1>5. ReservationsFit'
  <2>1. \A r \in Schedulers : tx[r].open /\ phase'[r] = "claim" => phase[r] = "claim"
    BY DEF TimeOut, Mark, SendOrder, Send, SelectionHolds, TickTypeOK, SchedTypeOK, schedVars
  <2>2. QED
    BY <1>1, <2>1 DEF ReservationsFit, OfCampaign
<1>6. QED
  BY <1>2, <1>3, <1>4, <1>5

LEMMA NextInv == TickInv /\ [Next]_txVars => TickInv'
<1> SUFFICES ASSUME TickInv, [Next]_txVars PROVE TickInv'
  OBVIOUS
<1>1. CASE Next
  <2>1. CASE \E s \in Schedulers :
                \/ Select(s) \/ (\E t \in Tasks : ComeTo(s, t)) \/ LockSlot(s)
                \/ CommitReap(s) \/ CommitClaim(s) \/ RollBack(s)
    BY <2>1, SelectInv, ComeToInv, LockSlotInv, CommitReapInv, CommitClaimInv, RollBackInv
  <2>2. CASE \E h \in Hooks :
                \/ (\E t \in Tasks : Read(h, t)) \/ HookLock(h) \/ PassSlot(h)
                \/ CommitHook(h) \/ RollBackHook(h)
    BY <2>2, HookLocksInv, CommitHookInv
  <2>3. CASE \/ \E t \in Tasks : TimeOut(t) \/ \E c \in Calls : Mark(t, c)
             \/ \E s \in Schedulers, t \in Tasks : SendOrder(s, t)
    BY <2>3, EnvironmentInv
  <2>4. QED
    BY <1>1, <2>1, <2>2, <2>3 DEF Next
<1>2. CASE UNCHANGED txVars
  BY <1>2 DEF txVars, storeVars, taskVars, queueVars, schedVars, TickInv, TickTypeOK,
      StoreTypeOK, QueueTypeOK, SchedTypeOK, SelectionHolds, NoTx, Stuck, Eligible,
      RowsExclusive, SlotsExclusive, ReservationsFit, OfCampaign, HookOrder
<1>3. QED
  BY <1>1, <1>2

\* TickInv holds throughout: locked rows and counters have one holder, what a
\* transaction has selected and reserved is still as it found it.
THEOREM TickInvariant == Spec => []TickInv
<1>1. QED
  BY InitInv, NextInv, PTL DEF Spec

\* The counters stay within the caps and every variable keeps its type, however
\* the statements of schedulers and webhooks interleave (claim.py _RESERVE_SQL).
THEOREM TickTypeCorrect == Spec => []TickTypeOK
<1>1. TickInv => TickTypeOK
  BY DEF TickInv
<1>2. QED
  BY <1>1, TickInvariant, PTL

\* No deadlock takes a webhook, whatever schedulers do (processing.py:75-76).
THEOREM WebhooksNeverDeadlock == Spec => []HooksNeverDeadlock
<1>1. TickInv => HooksNeverDeadlock
  BY NoHookInCircle DEF TickInv
<1>2. QED
  BY <1>1, TickInvariant, PTL

\* Schedulers that wait for each other wait for counters of two campaigns: each
\* holds one and waits for another.
LEMMA CircleSpansCampaigns ==
    ASSUME TickInv, NEW S \in SUBSET Schedulers, Circle(S)
    PROVE  \E c, d \in Campaigns : c # d
<1>1. ASSUME NEW a \in S, NEW b \in S, b \in WaitsFor(a)
      PROVE  /\ a # b /\ tx[a].current \in Tasks
             /\ CampaignOf[tx[a].current] \in tx[b].slots
  <2>1. tx[a].current # NoTask /\ b \in SlotHeldBy(CampaignOf[tx[a].current]) \ {a}
    BY <1>1 DEF WaitsFor
  <2>2. tx[a].current \in Tasks
    BY <2>1 DEF TickInv, TickTypeOK, Transactions
  <2>3. b \in Schedulers /\ b \notin Hooks
    BY ThreadAssumption
  <2>4. QED
    BY <2>1, <2>2, <2>3 DEF SlotHeldBy
<1>2. PICK a \in S : TRUE
  BY DEF Circle
<1>3. PICK b \in S : b \in WaitsFor(a)
  BY DEF Circle
<1>4. PICK e \in S : e \in WaitsFor(b)
  BY DEF Circle
<1>5. /\ CampaignOf[tx[a].current] \in tx[b].slots /\ CampaignOf[tx[a].current] \in Campaigns
      /\ CampaignOf[tx[b].current] \in tx[e].slots /\ CampaignOf[tx[b].current] \in Campaigns
      /\ b # e
  BY <1>1, <1>3, <1>4
<1>6. tx[b].slots \cap tx[e].slots = {}
  BY <1>5 DEF TickInv, SlotsExclusive
<1>7. QED
  BY <1>5, <1>6

\* With a single campaign schedulers never block each other, however many there
\* are and whatever they have in their batches: the deadlock takes two.
THEOREM OneCampaignNeverDeadlocks ==
    ASSUME \A c, d \in Campaigns : c = d
    PROVE  Spec => []SchedulersRunConcurrently
<1>1. TickInv => SchedulersRunConcurrently
  BY CircleSpansCampaigns DEF SchedulersRunConcurrently
<1>2. QED
  BY <1>1, TickInvariant, PTL
-----------------------------------------------------------------------------
(* The counters, and the rows whose release has missed. *)

\* Rows that s, in an open reap, has come to and could release no slot for.
MissedBy(s) ==
    IF tx[s].open /\ phase[s] = "reap"
      THEN tx[s].rows \ (tx[s].todo \cup tx[s].done \cup {tx[s].current})
      ELSE {}

\* Tasks that will leave flight at a commit and release nothing.
Missed ==
    {t \in Tasks : \/ \E s \in Schedulers : t \in MissedBy(s)
                   \/ \E h \in Hooks : hookTx[h].missed /\ hookTx[h].task = t}

\* A counter counts no more than the tasks in flight that still have a slot to
\* release: NoSlotLost, strengthened for the commits to come.
Holding == FlightTasks \ Missed

SlotsCovered ==
    \A c \in Campaigns : activeCount[c] <= Cardinality(OfCampaign(Holding, c))

\* Slots for S are released, and nobody but S leaves the tasks F.
LEMMA CoverReleased ==
    ASSUME NEW F \in SUBSET Tasks, NEW S \in SUBSET Tasks, NEW G \in SUBSET Tasks, F \ S \subseteq G,
           NEW c, NEW a \in Nat, a <= Cardinality(OfCampaign(F, c))
    PROVE  Released(a, Cardinality(OfCampaign(S, c))) <= Cardinality(OfCampaign(G, c))
<1> DEFINE f == Cardinality(OfCampaign(F, c))
           s == Cardinality(OfCampaign(S, c))
           r == Cardinality(OfCampaign(F \ S, c))
           g == Cardinality(OfCampaign(G, c))
<1>1. f \in Nat /\ s \in Nat /\ r \in Nat /\ f <= r + s
  BY CountRemoved
<1>2. r <= g /\ g \in Nat
  <2>1. OfCampaign(F \ S, c) \subseteq OfCampaign(G, c)
    BY DEF OfCampaign
  <2>2. QED
    BY <2>1, OfCampaignFinite, FS_Subset
<1> HIDE DEF f, s, r, g
<1>3. a <= f => Released(a, s) <= g
  BY <1>1, <1>2 DEF Released
<1>4. QED
  BY <1>3 DEF f, s, g

\* Where no counter moves, more tasks may come to hold a slot.
LEMMA CoverKept ==
    ASSUME SlotsCovered, activeCount \in [Campaigns -> Nat], UNCHANGED activeCount,
           Holding \subseteq Holding'
    PROVE  SlotsCovered'
<1>1. Holding \in SUBSET Tasks /\ Holding' \in SUBSET Tasks
  BY DEF Holding, FlightTasks
<1> SUFFICES ASSUME NEW c \in Campaigns
             PROVE  activeCount[c] <= Cardinality(OfCampaign(Holding', c))
  BY DEF SlotsCovered, OfCampaign
<1> DEFINE a == activeCount[c]
           f == Cardinality(OfCampaign(Holding, c))
           g == Cardinality(OfCampaign(Holding', c))
<1>2. a \in Nat /\ a <= f
  BY DEF SlotsCovered
<1>3. f \in Nat /\ g \in Nat /\ f <= g
  <2>1. OfCampaign(Holding, c) \subseteq OfCampaign(Holding', c)
    BY DEF OfCampaign
  <2>2. QED
    BY <1>1, <2>1, OfCampaignFinite, FS_Subset
<1> HIDE DEF a, f, g
<1>4. a <= g
  BY <1>2, <1>3
<1>5. QED
  BY <1>4 DEF a, g

\* Where slots are released, only for tasks that leave.
LEMMA CoverCommitted ==
    ASSUME TickTypeOK, SlotsCovered, NEW S \in SUBSET Tasks, ReleaseSlots(S),
           Holding \ S \subseteq Holding'
    PROVE  SlotsCovered'
<1>1. Holding \in SUBSET Tasks /\ Holding' \in SUBSET Tasks
  BY DEF Holding, FlightTasks
<1> SUFFICES ASSUME NEW c \in Campaigns
             PROVE  activeCount'[c] <= Cardinality(OfCampaign(Holding', c))
  BY DEF SlotsCovered, OfCampaign
<1>2. activeCount[c] \in Nat /\ activeCount[c] <= Cardinality(OfCampaign(Holding, c))
  BY DEF SlotsCovered, TickTypeOK, StoreTypeOK
<1>3. activeCount'[c] = Released(activeCount[c], Cardinality(OfCampaign(S, c)))
  BY DEF ReleaseSlots
<1>4. QED
  BY <1>1, <1>2, <1>3, CoverReleased

\* A row that a transaction of s has counted still has its slot.
LEMMA CountedHold ==
    ASSUME TickInv, NEW s \in Schedulers, tx[s].open, phase[s] = "reap"
    PROVE  tx[s].done \subseteq Holding
<1> USE DEF TickInv
<1> SUFFICES ASSUME NEW u \in tx[s].done PROVE u \in FlightTasks /\ u \notin Missed
  BY DEF Holding
<1>1. u \in tx[s].rows /\ u \in Stuck
  BY DEF SelectionHolds
<1>2. u \in FlightTasks
  BY <1>1 DEF Stuck, FlightTasks
<1>3. \A r \in Schedulers : u \notin MissedBy(r)
  BY <1>1 DEF MissedBy, RowsExclusive
<1>4. \A h \in Hooks : ~(hookTx[h].missed /\ hookTx[h].task = u)
  BY <1>1 DEF HookOrder, RowsExclusive
<1>5. QED
  BY <1>2, <1>3, <1>4 DEF Missed

\* The task t loses its slot with the counter where it is, which counts no more
\* than the others.
LEMMA SlotMissed ==
    ASSUME TickInv, SlotsCovered, NEW t \in Tasks,
           UNCHANGED activeCount, Holding \ {t} \subseteq Holding',
           activeCount[CampaignOf[t]] <= Cardinality(OfCampaign(Holding', CampaignOf[t]))
    PROVE  SlotsCovered'
<1>1. Holding \in SUBSET Tasks /\ Holding' \in SUBSET Tasks
      /\ activeCount \in [Campaigns -> Nat]
  BY DEF Holding, FlightTasks, TickInv, TickTypeOK, StoreTypeOK
<1> SUFFICES ASSUME NEW c \in Campaigns, c # CampaignOf[t]
             PROVE  activeCount[c] <= Cardinality(OfCampaign(Holding', c))
  BY DEF SlotsCovered, OfCampaign
<1> DEFINE f == Cardinality(OfCampaign(Holding, c))
           g == Cardinality(OfCampaign(Holding', c))
<1>2. OfCampaign(Holding, c) \subseteq OfCampaign(Holding', c)
  BY DEF OfCampaign
<1>3. f \in Nat /\ g \in Nat /\ f <= g
  BY <1>1, <1>2, OfCampaignFinite, FS_Subset
<1>4. activeCount[c] \in Nat /\ activeCount[c] <= f
  BY <1>1 DEF SlotsCovered
<1> HIDE DEF f, g
<1>5. activeCount[c] <= g
  BY <1>3, <1>4
<1>6. QED
  BY <1>5 DEF g

\* A release of s for row t misses: the counter counts at most the rows of
\* which s has released the slots, and t is none of them.
LEMMA ReapMisses ==
    ASSUME TickInv, SlotsCovered, NEW s \in Schedulers, NEW t \in Tasks,
           tx[s].open, phase[s] = "reap",
           ~HasSlot(s, CampaignOf[t]), t \notin tx[s].done,
           UNCHANGED activeCount, Holding \ {t} \subseteq Holding'
    PROVE  SlotsCovered'
<1> DEFINE c == CampaignOf[t]
           D == OfCampaign(tx[s].done, c)
           n == Cardinality(D)
           g == Cardinality(OfCampaign(Holding', c))
<1>1. Holding' \in SUBSET Tasks /\ c \in Campaigns /\ activeCount \in [Campaigns -> Nat]
      /\ tx[s].done \in SUBSET Tasks
  BY DeploymentAssumption DEF Holding, FlightTasks, TickInv, TickTypeOK, StoreTypeOK, Transactions
<1>2. D \subseteq OfCampaign(Holding', c)
  BY CountedHold DEF OfCampaign
<1>3. n \in Nat /\ g \in Nat /\ n <= g
  BY <1>1, <1>2, OfCampaignFinite, FS_Subset
<1>4. ~(activeCount[c] > n) /\ activeCount[c] \in Nat
  BY <1>1 DEF HasSlot, Counted
<1> HIDE DEF n, g
<1>5. activeCount[c] <= g
  BY <1>3, <1>4
<1>6. QED
  BY <1>5, SlotMissed DEF g

\* The tasks that miss after a step of s, or of h.
LEMMA MissedAfter ==
    ASSUME NEW s \in Schedulers, NEW X, hookTx' = hookTx,
           \A r \in Schedulers : r # s => tx'[r] = tx[r] /\ phase'[r] = phase[r],
           MissedBy(s)' \subseteq MissedBy(s) \cup X
    PROVE  Missed' \subseteq Missed \cup X
<1>1. \A r \in Schedulers : r # s => MissedBy(r)' = MissedBy(r)
  BY DEF MissedBy
<1>2. QED
  BY <1>1 DEF Missed

LEMMA MissedAfterHook ==
    ASSUME NEW h \in Hooks, NEW X, tx' = tx, phase' = phase,
           \A k \in Hooks : k # h => hookTx'[k] = hookTx[k],
           hookTx'[h].missed => hookTx'[h].task \in X
    PROVE  Missed' \subseteq Missed \cup X
<1>1. \A r \in Schedulers : MissedBy(r)' = MissedBy(r)
  BY DEF MissedBy
<1>2. QED
  BY <1>1 DEF Missed

\* The loops of the transactions.
LEMMA LoopCovers ==
    ASSUME TickInv, SlotsCovered, NEW s \in Schedulers,
           Select(s) \/ (\E t \in Tasks : ComeTo(s, t)) \/ LockSlot(s)
    PROVE  SlotsCovered'
<1>1. StoreIdle /\ hookTx' = hookTx
  BY DEF Select, ComeTo, LockSlot, StoreIdle
<1>2. /\ activeCount' = activeCount /\ activeCount \in [Campaigns -> Nat]
      /\ FlightTasks' = FlightTasks /\ phase' = phase
  BY <1>1 DEF StoreIdle, storeVars, taskVars, schedVars, FlightTasks, TickInv, TickTypeOK,
      StoreTypeOK
<1>3. tx \in [Schedulers -> Transactions]
  BY DEF TickInv, TickTypeOK
<1>4. CASE Select(s)
  <2>1. /\ \A r \in Schedulers : r # s => tx'[r] = tx[r]
        /\ tx'[s].rows = tx'[s].todo
    <3>1. PICK rows : tx' = [tx EXCEPT ![s] = [NoTx EXCEPT !.open = TRUE, !.rows = rows,
                                                           !.todo = rows, !.read = attempts]]
      BY <1>4 DEF Select
    <3>2. QED
      BY <1>3, <3>1 DEF NoTx
  <2>2. MissedBy(s)' \subseteq MissedBy(s) \cup {}
    BY <2>1 DEF MissedBy
  <2>3. Missed' \subseteq Missed
    BY <1>1, <1>2, <2>1, <2>2, MissedAfter
  <2>4. QED
    BY <1>2, <2>3, CoverKept DEF Holding
<1>5. CASE \E t \in Tasks : ComeTo(s, t)
  <2>1. PICK t \in Tasks : ComeTo(s, t)
    BY <1>5
  <2> DEFINE X == IF Hits(s, CampaignOf[t]) THEN {} ELSE {t}
  <2>2. /\ t \in tx[s].todo /\ tx[s].current = NoTask
        /\ tx'[s].todo = tx[s].todo \ {t}
        /\ tx'[s].current = IF Hits(s, CampaignOf[t]) THEN t ELSE NoTask
        /\ tx'[s].rows = tx[s].rows /\ tx'[s].done = tx[s].done /\ tx'[s].open = tx[s].open
        /\ \A r \in Schedulers : r # s => tx'[r] = tx[r]
    BY <2>1, ComeToMoves DEF TickInv
  <2>3. MissedBy(s)' \subseteq MissedBy(s) \cup X
    <3>1. NoTask \notin tx[s].rows
      BY <1>3, DeploymentAssumption DEF Transactions
    <3>2. QED
      BY <1>2, <2>2, <3>1 DEF MissedBy
  <2>4. Missed' \subseteq Missed \cup X
    BY <1>1, <1>2, <2>2, <2>3, MissedAfter
  <2>5. CASE Hits(s, CampaignOf[t])
    BY <1>2, <2>4, <2>5, CoverKept DEF Holding
  <2>6. CASE ~Hits(s, CampaignOf[t]) /\ phase[s] = "reap"
    <3>1. ~HasSlot(s, CampaignOf[t])
      BY <2>6 DEF Hits
    <3>2. tx[s].open /\ t \notin tx[s].done
      BY <2>2 DEF TickInv, SelectionHolds, NoTx
    <3>3. Holding \ {t} \subseteq Holding'
      BY <1>2, <2>4 DEF Holding
    <3>4. QED
      BY <1>2, <2>6, <3>1, <3>2, <3>3, ReapMisses
  <2>7. CASE phase[s] # "reap"
    <3>1. MissedBy(s)' \subseteq MissedBy(s) \cup {}
      BY <1>2, <2>7 DEF MissedBy
    <3>2. Missed' \subseteq Missed
      BY <1>1, <1>2, <2>2, <3>1, MissedAfter
    <3>3. QED
      BY <1>2, <3>2, CoverKept DEF Holding
  <2>8. QED
    BY <2>5, <2>6, <2>7
<1>6. CASE LockSlot(s)
  <2> DEFINE t == tx[s].current
             X == IF StillHits(s) THEN {} ELSE {t}
  <2>1. /\ t \in Tasks /\ t \in tx[s].rows
        /\ tx'[s].current = NoTask
        /\ tx'[s].done = tx[s].done \cup (IF StillHits(s) THEN {t} ELSE {})
        /\ tx'[s].rows = tx[s].rows /\ tx'[s].todo = tx[s].todo /\ tx'[s].open = tx[s].open
        /\ \A r \in Schedulers : r # s => tx'[r] = tx[r]
    BY <1>6, LockSlotMoves
  <2> HIDE DEF t
  <2>2. MissedBy(s)' \subseteq MissedBy(s) \cup X
    BY <1>2, <2>1 DEF MissedBy, t
  <2>3. Missed' \subseteq Missed \cup X
    BY <1>1, <1>2, <2>1, <2>2, MissedAfter
  <2>4. CASE StillHits(s)
    BY <1>2, <2>3, <2>4, CoverKept DEF Holding
  <2>5. CASE ~StillHits(s) /\ phase[s] = "reap"
    <3>1. ~HasSlot(s, CampaignOf[t])
      BY <2>5 DEF StillHits, Hits, t
    <3>2. tx[s].open /\ t \notin tx[s].done
      BY <2>1 DEF TickInv, SelectionHolds, NoTx, t
    <3>3. Holding \ {t} \subseteq Holding'
      BY <1>2, <2>3 DEF Holding
    <3>4. QED
      BY <1>2, <2>1, <2>5, <3>1, <3>2, <3>3, ReapMisses
  <2>6. CASE phase[s] # "reap"
    <3>1. MissedBy(s)' \subseteq MissedBy(s) \cup {}
      BY <1>2, <2>6 DEF MissedBy
    <3>2. Missed' \subseteq Missed
      BY <1>1, <1>2, <2>1, <3>1, MissedAfter
    <3>3. QED
      BY <1>2, <3>2, CoverKept DEF Holding
  <2>7. QED
    BY <2>4, <2>5, <2>6
<1>7. QED
  BY <1>4, <1>5, <1>6

\* A reap's commit takes its rows out of flight, and releases slots for those
\* that did not miss.
LEMMA CommitReapCovers ==
    ASSUME TickInv, SlotsCovered, NEW s \in Schedulers, CommitReap(s)
    PROVE  SlotsCovered'
<1>1. /\ phase[s] = "reap" /\ tx[s].open /\ tx[s].todo = {} /\ tx[s].current = NoTask
      /\ WriteRetry(tx[s].rows, tx[s].read) /\ ReleaseSlots(tx[s].done)
      /\ tx' = [tx EXCEPT ![s] = NoTx] /\ hookTx' = hookTx
  BY DEF CommitReap, LoopDone
<1>2. /\ tx[s].rows \in SUBSET Tasks /\ tx[s].done \in SUBSET Tasks
      /\ tx[s].read \in [Tasks -> Nat]
  BY DEF TickInv, TickTypeOK, Transactions
<1>3. FlightTasks' = FlightTasks \ tx[s].rows
  BY <1>1, <1>2, RetryLeavesFlight
<1>4. Missed' \subseteq Missed
  <2>1. \A r \in Schedulers : r # s => tx'[r] = tx[r] /\ phase'[r] = phase[r]
    BY <1>1, TxEnds DEF CommitReap
  <2>2. MissedBy(s)' \subseteq MissedBy(s) \cup {}
    BY <1>1, TxEnds DEF MissedBy, NoTx
  <2>3. QED
    BY <1>1, <2>1, <2>2, MissedAfter
<1>5. tx[s].rows \subseteq tx[s].done \cup Missed
  <2>1. NoTask \notin tx[s].rows
    BY <1>2, DeploymentAssumption
  <2>2. QED
    BY <1>1, <1>2, <2>1 DEF MissedBy, Missed
<1>6. Holding \ tx[s].done \subseteq Holding'
  BY <1>3, <1>4, <1>5 DEF Holding
<1>7. QED
  BY <1>1, <1>2, <1>6, CoverCommitted DEF TickInv

\* A claim's commit takes a slot for each task that it puts in flight.
LEMMA CommitClaimCovers ==
    ASSUME TickInv, SlotsCovered, NEW s \in Schedulers, CommitClaim(s)
    PROVE  SlotsCovered'
<1> DEFINE done == tx[s].done
<1>1. /\ phase[s] = "claim" /\ tx[s].open /\ Take(done)
      /\ tx' = [tx EXCEPT ![s] = NoTx] /\ hookTx' = hookTx
  BY DEF CommitClaim, LoopDone
<1>2. done \in SUBSET Tasks /\ done \subseteq tx[s].rows
  BY DEF TickInv, TickTypeOK, Transactions, SelectionHolds
<1>3. Missed' \subseteq Missed
  <2>1. \A r \in Schedulers : r # s => tx'[r] = tx[r] /\ phase'[r] = phase[r]
    BY <1>1, TxEnds DEF CommitClaim
  <2>2. MissedBy(s)' \subseteq MissedBy(s) \cup {}
    BY <1>1, TxEnds DEF MissedBy, NoTx
  <2>3. QED
    BY <1>1, <2>1, <2>2, MissedAfter
<1>4. done \cap Missed = {}
  BY <1>1, <1>2 DEF Missed, MissedBy, TickInv, RowsExclusive, HookOrder
<1>5. done \cap FlightTasks = {}
  BY <1>1, <1>2 DEF TickInv, SelectionHolds, Eligible, FlightTasks, InFlightStatus
<1>6. FlightTasks' = FlightTasks \cup done
  BY <1>1, <1>2 DEF Take, FlightTasks, InFlightStatus
<1>7. Holding \cup done \subseteq Holding' /\ Holding \cap done = {}
  BY <1>3, <1>4, <1>5, <1>6 DEF Holding
<1>8. Holding \in SUBSET Tasks /\ Holding' \in SUBSET Tasks
  BY DEF Holding, FlightTasks
<1> SUFFICES ASSUME NEW c \in Campaigns
             PROVE  activeCount'[c] <= Cardinality(OfCampaign(Holding', c))
  BY DEF SlotsCovered, OfCampaign
<1> DEFINE f == Cardinality(OfCampaign(Holding, c))
           k == Cardinality(OfCampaign(done, c))
           u == Cardinality(OfCampaign(Holding \cup done, c))
           g == Cardinality(OfCampaign(Holding', c))
<1>9. f \in Nat /\ k \in Nat /\ u \in Nat /\ g \in Nat
  BY <1>2, <1>8, OfCampaignFinite
<1>10. u = f + k
  BY <1>2, <1>7, <1>8, CountAdded
<1>11. u <= g
  <2>1. OfCampaign(Holding \cup done, c) \subseteq OfCampaign(Holding', c)
    BY <1>7 DEF OfCampaign
  <2>2. QED
    BY <1>8, <2>1, OfCampaignFinite, FS_Subset
<1>12. activeCount'[c] = activeCount[c] + k
  BY <1>1 DEF Take
<1>13. activeCount[c] \in Nat /\ activeCount[c] <= f
  BY DEF SlotsCovered, TickInv, TickTypeOK, StoreTypeOK
<1> HIDE DEF f, k, u, g
<1>14. activeCount'[c] <= g
  BY <1>9, <1>10, <1>11, <1>12, <1>13
<1>15. QED
  BY <1>14 DEF g

\* The steps of a webhook before its commit.
LEMMA HookCovers ==
    ASSUME TickInv, SlotsCovered, NEW h \in Hooks,
           (\E t \in Tasks : Read(h, t)) \/ HookLock(h) \/ PassSlot(h) \/ RollBackHook(h)
    PROVE  SlotsCovered'
<1> DEFINE t == hookTx[h].task
           misses == hookTx'[h].missed
<1>1. StoreIdle /\ tx' = tx /\ \A k \in Hooks : k # h => hookTx'[k] = hookTx[k]
  <2>1. hookTx \in [Hooks -> HookTransactions]
    BY DEF TickInv, TickTypeOK
  <2>2. QED
    BY <2>1 DEF Read, HookLock, PassSlot, RollBackHook, StoreIdle
<1>2. /\ activeCount' = activeCount /\ activeCount \in [Campaigns -> Nat]
      /\ FlightTasks' = FlightTasks /\ phase' = phase
  BY <1>1 DEF StoreIdle, storeVars, taskVars, schedVars, FlightTasks, TickInv, TickTypeOK,
      StoreTypeOK
<1>3. hookTx[h] \in HookTransactions /\ hookTx \in [Hooks -> HookTransactions]
  BY DEF TickInv, TickTypeOK
<1>4. misses => t \in Tasks /\ hookTx'[h].task = t /\ activeCount[CampaignOf[t]] = 0
  <2>1. CASE \E u \in Tasks : Read(h, u)
    <3>1. PICK u \in Tasks : Read(h, u)
      BY <2>1
    <3>2. hookTx' = [hookTx EXCEPT ![h].task = u, ![h].read = attempts[u]] /\ t = NoTask
      BY <3>1 DEF Read
    <3>3. hookTx'[h].missed = hookTx[h].missed
      BY <1>3, <3>2 DEF HookTransactions
    <3>4. QED
      BY <3>2, <3>3 DEF TickInv, HookOrder
  <2>2. CASE HookLock(h)
    <3>1. PICK lock \in NextLock(h) :
            hookTx' = [hookTx EXCEPT ![h].holds = @ \cup {lock},
                                     ![h].missed = lock = "slot" /\ NoSlotLeft(h)]
      BY <2>2 DEF HookLock
    <3>2. hookTx'[h].task = t /\ misses = (lock = "slot" /\ NoSlotLeft(h))
      BY <1>3, <3>1 DEF HookTransactions
    <3>3. t \in Tasks
      BY <1>3, <2>2 DEF HookLock, HookTransactions
    <3>4. QED
      BY <3>2, <3>3 DEF NoSlotLeft
  <2>3. CASE PassSlot(h)
    <3>1. hookTx'[h].task = t
      BY <1>3, <2>3 DEF PassSlot, HookTransactions
    <3>2. QED
      BY <1>3, <2>3, <3>1 DEF PassSlot, NoSlotLeft, HookTransactions
  <2>4. CASE RollBackHook(h)
    BY <1>3, <2>4 DEF RollBackHook, NoHookTx
  <2>5. QED
    BY <2>1, <2>2, <2>3, <2>4
<1>5. CASE misses
  <2>1. Missed' \subseteq Missed \cup {t}
    BY <1>1, <1>2, <1>4, <1>5, MissedAfterHook
  <2>2. Holding \ {t} \subseteq Holding'
    BY <1>2, <2>1 DEF Holding
  <2>3. Cardinality(OfCampaign(Holding', CampaignOf[t])) \in Nat
    <3>1. Holding' \in SUBSET Tasks
      BY DEF Holding, FlightTasks
    <3>2. QED
      BY <3>1, OfCampaignFinite
  <2>4. QED
    BY <1>2, <1>4, <1>5, <2>2, <2>3, SlotMissed
<1>6. CASE ~misses
  <2>1. Missed' \subseteq Missed \cup {}
    BY <1>1, <1>2, <1>6, MissedAfterHook
  <2>2. QED
    BY <1>2, <2>1, CoverKept DEF Holding
<1>7. QED
  BY <1>5, <1>6

\* What a webhook's commit does to the store and to what has missed.
LEMMA CommitHookWrites ==
    ASSUME TickInv, NEW h \in Hooks, CommitHook(h)
    PROVE  LET t == hookTx[h].task
           IN  /\ t \in Tasks
               /\ FlightTasks' = FlightTasks \ {t}
               /\ status'[t] \in {"completed", "pending", "exhausted"}
               /\ ReleaseSlots(IF hookTx[h].missed THEN {} ELSE {t})
               /\ Missed' \subseteq Missed
<1> DEFINE t == hookTx[h].task
           read == [u \in Tasks |-> hookTx[h].read]
<1>1. /\ t \in Tasks /\ read \in [Tasks -> Nat]
      /\ status \in [Tasks -> CallTaskStatus]
      /\ hookTx \in [Hooks -> HookTransactions]
  BY DEF CommitHook, TickInv, TickTypeOK, HookTransactions, StoreTypeOK
<1>2. /\ ReleaseSlots(IF hookTx[h].missed THEN {} ELSE {t})
      /\ status' = [status EXCEPT ![t] = "completed"] \/ WriteRetry({t}, read)
      /\ hookTx' = [hookTx EXCEPT ![h] = NoHookTx]
      /\ tx' = tx /\ phase' = phase
  BY DEF CommitHook, schedVars
<1> HIDE DEF read
<1>3. FlightTasks' = FlightTasks \ {t} /\ status'[t] \in {"completed", "pending", "exhausted"}
  <2>1. CASE status' = [status EXCEPT ![t] = "completed"]
    BY <1>1, <2>1 DEF FlightTasks, InFlightStatus
  <2>2. CASE WriteRetry({t}, read)
    <3>1. FlightTasks' = FlightTasks \ {t}
      BY <1>1, <2>2, RetryLeavesFlight
    <3>2. status'[t] \in {"pending", "exhausted"}
      BY <1>1, <2>2, PlanRetryType DEF WriteRetry
    <3>3. QED
      BY <3>1, <3>2
  <2>3. QED
    BY <1>2, <2>1, <2>2
<1>4. Missed' \subseteq Missed \cup {}
  <2>1. ~hookTx'[h].missed /\ \A k \in Hooks : k # h => hookTx'[k] = hookTx[k]
    BY <1>1, <1>2 DEF NoHookTx
  <2>2. QED
    BY <1>2, <2>1, MissedAfterHook
<1>5. QED
  BY <1>1, <1>2, <1>3, <1>4

LEMMA CommitHookCovers ==
    ASSUME TickInv, SlotsCovered, NEW h \in Hooks, CommitHook(h)
    PROVE  SlotsCovered'
<1> DEFINE t == hookTx[h].task
           freed == IF hookTx[h].missed THEN {} ELSE {t}
<1>1. /\ t \in Tasks /\ FlightTasks' = FlightTasks \ {t} /\ ReleaseSlots(freed)
      /\ Missed' \subseteq Missed
  BY CommitHookWrites
<1>2. Holding \ freed \subseteq Holding'
  BY <1>1 DEF Holding, Missed
<1>3. freed \in SUBSET Tasks
  BY <1>1
<1>4. QED
  BY <1>1, <1>2, <1>3, CoverCommitted DEF TickInv

\* Steps that move no counter, and no task out of flight.
LEMMA OthersCover ==
    ASSUME TickInv, SlotsCovered,
           \/ \E s \in Schedulers : RollBack(s) \/ \E t \in Tasks : SendOrder(s, t)
           \/ \E t \in Tasks : TimeOut(t) \/ \E c \in Calls : Mark(t, c)
           \/ UNCHANGED txVars
    PROVE  SlotsCovered'
<1>1. /\ activeCount' = activeCount /\ activeCount \in [Campaigns -> Nat]
      /\ hookTx' = hookTx
  BY DEF RollBack, Forget, SendOrder, Send, TimeOut, Expire, Mark, txVars, storeVars, TickInv,
      TickTypeOK, StoreTypeOK
<1>2. FlightTasks' = FlightTasks
  <2>1. CASE \E t \in Tasks, c \in Calls : Mark(t, c)
    BY <2>1 DEF Mark, FlightTasks, InFlightStatus, TickInv, TickTypeOK, StoreTypeOK
  <2>2. CASE ~\E t \in Tasks, c \in Calls : Mark(t, c)
    <3>1. status' = status
      BY <2>2 DEF RollBack, Forget, SendOrder, Send, TimeOut, Expire, txVars, storeVars, taskVars
    <3>2. QED
      BY <3>1 DEF FlightTasks
  <2>3. QED
    BY <2>1, <2>2
<1>3. Missed' \subseteq Missed
  <2>1. CASE \E s \in Schedulers : RollBack(s) \/ \E t \in Tasks : SendOrder(s, t)
    <3>1. PICK s \in Schedulers : RollBack(s) \/ \E t \in Tasks : SendOrder(s, t)
      BY <2>1
    <3>2. \A r \in Schedulers : r # s => tx'[r] = tx[r] /\ phase'[r] = phase[r]
      BY <3>1 DEF RollBack, Forget, SendOrder, Send, schedVars, TickInv, TickTypeOK, SchedTypeOK
    <3>3. ~tx'[s].open
      <4>1. CASE RollBack(s)
        BY <1>1, <4>1, TxEnds DEF RollBack, NoTx
      <4>2. CASE \E t \in Tasks : SendOrder(s, t)
        BY <4>2 DEF SendOrder, Send, TickInv, SelectionHolds
      <4>3. QED
        BY <3>1, <4>1, <4>2
    <3>4. MissedBy(s)' \subseteq MissedBy(s) \cup {}
      BY <3>3 DEF MissedBy
    <3>5. QED
      BY <1>1, <3>2, <3>4, MissedAfter
  <2>2. CASE UNCHANGED <<tx, phase>>
    <3>1. \A r \in Schedulers : MissedBy(r)' = MissedBy(r)
      BY <2>2 DEF MissedBy
    <3>2. QED
      BY <1>1, <3>1 DEF Missed
  <2>3. QED
    BY <2>1, <2>2 DEF TimeOut, Mark, txVars, schedVars
<1>4. QED
  BY <1>1, <1>2, <1>3, CoverKept DEF Holding

LEMMA CoverStep == TickInv /\ SlotsCovered /\ [Next]_txVars => SlotsCovered'
<1> SUFFICES ASSUME TickInv, SlotsCovered, [Next]_txVars PROVE SlotsCovered'
  OBVIOUS
<1>1. CASE \E s \in Schedulers :
              \/ Select(s) \/ (\E t \in Tasks : ComeTo(s, t)) \/ LockSlot(s)
              \/ CommitReap(s) \/ CommitClaim(s)
  BY <1>1, LoopCovers, CommitReapCovers, CommitClaimCovers
<1>2. CASE \E h \in Hooks :
              \/ (\E t \in Tasks : Read(h, t)) \/ HookLock(h) \/ PassSlot(h)
              \/ RollBackHook(h) \/ CommitHook(h)
  BY <1>2, HookCovers, CommitHookCovers
<1>3. CASE \/ \E s \in Schedulers : RollBack(s) \/ \E t \in Tasks : SendOrder(s, t)
           \/ \E t \in Tasks : TimeOut(t) \/ \E c \in Calls : Mark(t, c)
           \/ UNCHANGED txVars
  BY <1>3, OthersCover
<1>4. QED
  BY <1>1, <1>2, <1>3 DEF Next

LEMMA CoverInit == Init => SlotsCovered
<1> SUFFICES ASSUME Init, NEW c \in Campaigns
             PROVE  activeCount[c] <= Cardinality(OfCampaign(Holding, c))
  BY DEF SlotsCovered
<1>1. OfCampaign(Holding, c) = {}
  BY DEF Init, StoreInit, Holding, OfCampaign, FlightTasks, InFlightStatus
<1>2. QED
  BY <1>1, FS_EmptySet DEF Init, StoreInit

LEMMA SlotsStayCovered == Spec => []SlotsCovered
BY CoverInit, CoverStep, TickInvariant, PTL DEF Spec

\* However the statements of ticks and webhooks interleave, and whatever a late
\* webhook has done to the counter, active_count never exceeds the campaign's
\* tasks in flight: no slot is lost to it (WHERE active_count > 0 of reaper.py
\* and processing.py, tested at every statement).
THEOREM SlotsAreNeverLost == Spec => []NoSlotLost
<1>1. ASSUME TickInv, SlotsCovered PROVE NoSlotLost
  <2> SUFFICES ASSUME NEW c \in Campaigns
               PROVE  activeCount[c] <= Cardinality(InFlight(c))
    BY DEF NoSlotLost
  <2> DEFINE f == Cardinality(OfCampaign(Holding, c))
             g == Cardinality(InFlight(c))
  <2>1. f \in Nat /\ g \in Nat /\ f <= g
    <3>1. /\ Holding \in SUBSET Tasks /\ FlightTasks \in SUBSET Tasks
          /\ OfCampaign(Holding, c) \subseteq OfCampaign(FlightTasks, c)
      BY DEF Holding, FlightTasks, OfCampaign
    <3>2. QED
      BY <3>1, OfCampaignFinite, FS_Subset DEF InFlight
  <2>2. activeCount[c] \in Nat /\ activeCount[c] <= f
    BY <1>1 DEF SlotsCovered, TickInv, TickTypeOK, StoreTypeOK
  <2> HIDE DEF f, g
  <2>3. activeCount[c] <= g
    BY <2>1, <2>2
  <2>4. QED
    BY <2>3 DEF g
<1>2. QED
  BY <1>1, TickInvariant, SlotsStayCovered, PTL
-----------------------------------------------------------------------------
(* The counter is exact in a campaign without late webhooks. *)

\* Where the counter is exact no release has missed.
LEMMA NothingMissed ==
    ASSUME TickInv, SlotsCovered, NEW c \in Campaigns,
           activeCount[c] = Cardinality(InFlight(c))
    PROVE  \A t \in FlightTasks : CampaignOf[t] = c => t \notin Missed
<1> DEFINE A == OfCampaign(Holding, c)
           B == OfCampaign(FlightTasks, c)
           a == Cardinality(A)
           b == Cardinality(B)
<1>1. A \subseteq B
  BY DEF Holding, OfCampaign
<1>2. IsFiniteSet(B) /\ a \in Nat /\ b \in Nat
  <2>1. Holding \in SUBSET Tasks /\ FlightTasks \in SUBSET Tasks
    BY DEF Holding, FlightTasks
  <2>2. QED
    BY <2>1, OfCampaignFinite
<1>3. a <= b /\ (a = b => A = B)
  BY <1>1, <1>2, FS_Subset
<1>4. b <= a
  BY DEF SlotsCovered, InFlight
<1>5. A = B
  <2> HIDE DEF a, b, A, B
  <2>1. a = b
    BY <1>2, <1>3, <1>4
  <2>2. QED
    BY <1>3, <2>1
<1>6. QED
  BY <1>5 DEF Holding, OfCampaign

\* The rows S of c leave flight, none that was not in it, and release their
\* slots.
LEMMA ExactReleased ==
    ASSUME TickTypeOK, NEW c \in Campaigns, activeCount[c] = Cardinality(InFlight(c)),
           NEW S \in SUBSET Tasks, OfCampaign(S, c) \subseteq FlightTasks,
           FlightTasks' = FlightTasks \ S,
           NEW D \in SUBSET Tasks, OfCampaign(D, c) = OfCampaign(S, c), ReleaseSlots(D)
    PROVE  activeCount'[c] = Cardinality(InFlight(c)')
<1> DEFINE f == Cardinality(OfCampaign(FlightTasks, c))
           s == Cardinality(OfCampaign(S, c))
           r == Cardinality(OfCampaign(FlightTasks \ S, c))
<1>1. FlightTasks \in SUBSET Tasks
  BY DEF FlightTasks
<1>2. s \in Nat /\ r \in Nat /\ f = r + s
  BY <1>1, CountRemoved
<1>3. activeCount'[c] = Released(f, s)
  BY DEF ReleaseSlots, InFlight
<1>4. Cardinality(InFlight(c)') = r
  BY DEF InFlight, OfCampaign
<1> HIDE DEF f, s, r
<1>5. Released(f, s) = r
  BY <1>2 DEF Released
<1>6. QED
  BY <1>3, <1>4, <1>5

LEMMA ExactTaken ==
    ASSUME TickTypeOK, NEW c \in Campaigns, activeCount[c] = Cardinality(InFlight(c)),
           NEW S \in SUBSET Tasks, S \cap FlightTasks = {}, Take(S)
    PROVE  activeCount'[c] = Cardinality(InFlight(c)')
<1>1. FlightTasks \in SUBSET Tasks
  BY DEF FlightTasks
<1>2. FlightTasks' = FlightTasks \cup S
  BY DEF Take, FlightTasks, InFlightStatus
<1>3. InFlight(c)' = OfCampaign(FlightTasks \cup S, c)
  BY <1>2 DEF InFlight, OfCampaign
<1>4. QED
  BY <1>1, <1>3, CountAdded DEF Take, InFlight

\* Once it is exact, a reap has released the slot of every row it has selected
\* of the campaign.
LEMMA ReapMissesNothing ==
    ASSUME TickInv, SlotsCovered, NEW s \in Schedulers, CommitReap(s), NEW c \in Campaigns,
           activeCount[c] = Cardinality(InFlight(c))
    PROVE  /\ OfCampaign(tx[s].done, c) = OfCampaign(tx[s].rows, c)
           /\ OfCampaign(tx[s].rows, c) \subseteq FlightTasks
<1>1. /\ phase[s] = "reap" /\ tx[s].open /\ tx[s].todo = {} /\ tx[s].current = NoTask
      /\ tx[s].rows \in SUBSET Tasks
  BY DEF CommitReap, LoopDone, TickInv, TickTypeOK, Transactions
<1>2. tx[s].done \subseteq tx[s].rows /\ tx[s].rows \subseteq FlightTasks
  BY <1>1 DEF TickInv, SelectionHolds, Stuck, FlightTasks
<1>3. tx[s].rows \subseteq tx[s].done \cup Missed
  <2>1. NoTask \notin tx[s].rows
    BY <1>1, DeploymentAssumption
  <2>2. QED
    BY <1>1, <2>1 DEF MissedBy, Missed
<1>4. \A t \in tx[s].rows : CampaignOf[t] = c => t \in tx[s].done
  BY <1>2, <1>3, NothingMissed
<1>5. QED
  BY <1>2, <1>4 DEF OfCampaign

LEMMA ExactStep ==
    ASSUME TickInv, SlotsCovered, [Next]_txVars, NEW c \in Campaigns,
           OfCampaign(lateWrites', c) = {}, activeCount[c] = Cardinality(InFlight(c))
    PROVE  activeCount'[c] = Cardinality(InFlight(c)')
<1>0. /\ TickTypeOK
      /\ status \in [Tasks -> CallTaskStatus]
  BY DEF TickInv, TickTypeOK, StoreTypeOK
<1>1. CASE \E s \in Schedulers : CommitReap(s)
  <2>1. PICK s \in Schedulers : CommitReap(s)
    BY <1>1
  <2>2. /\ tx[s].rows \in SUBSET Tasks /\ tx[s].done \in SUBSET Tasks
        /\ tx[s].read \in [Tasks -> Nat]
    BY <1>0 DEF TickTypeOK, Transactions
  <2>3. WriteRetry(tx[s].rows, tx[s].read) /\ ReleaseSlots(tx[s].done)
    BY <2>1 DEF CommitReap
  <2>4. FlightTasks' = FlightTasks \ tx[s].rows
    BY <2>2, <2>3, RetryLeavesFlight
  <2>5. /\ OfCampaign(tx[s].done, c) = OfCampaign(tx[s].rows, c)
        /\ OfCampaign(tx[s].rows, c) \subseteq FlightTasks
    BY <2>1, ReapMissesNothing
  <2>6. QED
    BY <1>0, <2>2, <2>3, <2>4, <2>5, ExactReleased
<1>2. CASE \E s \in Schedulers : CommitClaim(s)
  <2>1. PICK s \in Schedulers : CommitClaim(s)
    BY <1>2
  <2>2. tx[s].done \in SUBSET Tasks /\ tx[s].done \cap FlightTasks = {} /\ Take(tx[s].done)
    BY <2>1 DEF CommitClaim, LoopDone, TickInv, TickTypeOK, Transactions, SelectionHolds,
        Eligible, FlightTasks, InFlightStatus
  <2>3. QED
    BY <1>0, <2>2, ExactTaken
<1>3. CASE \E h \in Hooks : CommitHook(h)
  <2>1. PICK h \in Hooks : CommitHook(h)
    BY <1>3
  <2> DEFINE t == hookTx[h].task
             freed == IF hookTx[h].missed THEN {} ELSE {t}
  <2>2. t \in Tasks /\ FlightTasks' = FlightTasks \ {t} /\ ReleaseSlots(freed)
    BY <2>1, CommitHookWrites
  <2>3. CampaignOf[t] = c => t \in FlightTasks
    <3>1. status[t] = "calling" \/ t \in lateWrites'
      BY <2>1 DEF CommitHook
    <3>2. QED
      BY <2>2, <3>1 DEF OfCampaign, FlightTasks, InFlightStatus
  <2>4. OfCampaign(freed, c) = OfCampaign({t}, c)
    <3>1. CampaignOf[t] = c => t \notin Missed
      BY <2>3, NothingMissed
    <3>2. hookTx[h].missed => t \in Missed
      BY <2>2 DEF Missed
    <3>3. QED
      BY <3>1, <3>2 DEF OfCampaign
  <2>5. OfCampaign({t}, c) \subseteq FlightTasks /\ freed \in SUBSET Tasks /\ {t} \in SUBSET Tasks
    BY <2>2, <2>3 DEF OfCampaign
  <2> HIDE DEF freed, t
  <2>6. QED
    BY <1>0, <2>2, <2>4, <2>5, ExactReleased
<1>4. ASSUME FlightTasks' = FlightTasks, UNCHANGED activeCount
      PROVE  activeCount'[c] = Cardinality(InFlight(c)')
  <2>1. InFlight(c)' = InFlight(c)
    BY <1>4 DEF InFlight, OfCampaign
  <2>2. QED
    BY <1>4, <2>1
<1>5. CASE \E t \in Tasks : \E d \in Calls : Mark(t, d)
  <2>1. FlightTasks' = FlightTasks /\ UNCHANGED activeCount
    BY <1>0, <1>5 DEF Mark, FlightTasks, InFlightStatus
  <2>2. QED
    BY <1>4, <2>1
<1>6. ASSUME UNCHANGED <<status, activeCount>>
      PROVE  activeCount'[c] = Cardinality(InFlight(c)')
  BY <1>4, <1>6 DEF FlightTasks
<1>7. CASE \E s \in Schedulers :
              \/ Select(s) \/ (\E t \in Tasks : ComeTo(s, t)) \/ LockSlot(s) \/ RollBack(s)
              \/ \E t \in Tasks : SendOrder(s, t)
  BY <1>6, <1>7 DEF Select, ComeTo, LockSlot, RollBack, Forget, SendOrder, Send, storeVars, taskVars
<1>8. CASE \/ \E h \in Hooks :
                (\E t \in Tasks : Read(h, t)) \/ HookLock(h) \/ PassSlot(h) \/ RollBackHook(h)
           \/ \E t \in Tasks : TimeOut(t)
           \/ UNCHANGED txVars
  BY <1>6, <1>8 DEF Read, HookLock, PassSlot, RollBackHook, TimeOut, Expire, txVars, storeVars, taskVars
<1>9. QED
  BY <1>1, <1>2, <1>3, <1>5, <1>7, <1>8 DEF Next

LEMMA LateWritesGrow == [Next]_txVars => lateWrites \subseteq lateWrites'
<1> SUFFICES ASSUME [Next]_txVars PROVE lateWrites \subseteq lateWrites'
  OBVIOUS
<1>1. CASE Next
  BY <1>1 DEF Next, Select, ComeTo, LockSlot, CommitReap, CommitClaim, RollBack, SendOrder,
      Read, HookLock, PassSlot, CommitHook, RollBackHook, TimeOut, Mark
<1>2. CASE UNCHANGED txVars
  BY <1>2 DEF txVars
<1>3. QED
  BY <1>1, <1>2

LEMMA CounterStep ==
    TickInv /\ SlotsCovered /\ CounterMatchesRows /\ [Next]_txVars => CounterMatchesRows'
<1> SUFFICES ASSUME TickInv, SlotsCovered, CounterMatchesRows, [Next]_txVars,
                    NEW c \in Campaigns, OfCampaign(lateWrites', c) = {}
             PROVE  activeCount'[c] = Cardinality(InFlight(c)')
  BY DEF CounterMatchesRows, OfCampaign
<1>1. OfCampaign(lateWrites, c) = {}
  BY LateWritesGrow DEF OfCampaign
<1>2. QED
  BY <1>1, ExactStep DEF CounterMatchesRows

LEMMA CounterInit == Init => CounterMatchesRows
<1> SUFFICES ASSUME Init, NEW c \in Campaigns
             PROVE  activeCount[c] = Cardinality(InFlight(c))
  BY DEF CounterMatchesRows
<1>1. InFlight(c) = {}
  BY DEF Init, StoreInit, InFlight, OfCampaign, FlightTasks, InFlightStatus
<1>2. QED
  BY <1>1, FS_EmptySet DEF Init, StoreInit

\* However the statements of ticks and webhooks interleave, active_count is the
\* number of the campaign's tasks in flight, in every campaign none of whose
\* tasks a webhook has written after the reaper had taken it back.
THEOREM CounterAlwaysMatchesRows == Spec => []CounterMatchesRows
BY CounterInit, CounterStep, TickInvariant, SlotsStayCovered, PTL DEF Spec
-----------------------------------------------------------------------------
(* Atomicity. *)

\* The commit of a reap is a Reap that skipped all but the rows it wrote, and
\* released their slots, each of them where no webhook came late.
LEMMA CommitReapIsReap ==
    ASSUME TickInv, SlotsCovered, CounterMatchesRows, NEW s \in Schedulers, CommitReap(s)
    PROVE  \E skipped \in SUBSET Stuck :
              ReapRows(s, Stuck \ skipped) /\ ReleasedButForLate(Stuck \ skipped)
<1> DEFINE rows == tx[s].rows
           done == tx[s].done
<1>1. /\ phase[s] = "reap"
      /\ tx[s].open
      /\ WriteRetry(rows, tx[s].read)
      /\ ReleaseSlots(done)
      /\ phase' = [phase EXCEPT ![s] = "claim"]
      /\ UNCHANGED <<providerEvents, outcomes, queueVars, claimed, crashes>>
  BY DEF CommitReap, LoopDone
<1>2. \A t \in rows : t \in Stuck /\ tx[s].read[t] = attempts[t]
  BY <1>1 DEF TickInv, SelectionHolds
<1>3. Stuck \ (Stuck \ rows) = rows
  BY <1>2
<1>4. WriteRetry(rows, attempts)
  BY <1>1, <1>2 DEF WriteRetry
<1>5. ReapRows(s, rows)
  BY <1>1, <1>4 DEF ReapRows
<1>6. ReleasedButForLate(rows)
  <2> SUFFICES ASSUME NEW c \in Campaigns
               PROVE  IF OfCampaign(lateWrites, c) = {}
                        THEN activeCount'[c] = Released(activeCount[c], Cardinality(OfCampaign(rows, c)))
                        ELSE activeCount'[c] \in
                                Released(activeCount[c], Cardinality(OfCampaign(rows, c)))..activeCount[c]
    BY DEF ReleasedButForLate
  <2> DEFINE n == activeCount[c]
             k == Cardinality(OfCampaign(rows, c))
             d == Cardinality(OfCampaign(done, c))
  <2>1. activeCount'[c] = Released(n, d) /\ n \in Nat
    BY <1>1 DEF ReleaseSlots, TickInv, TickTypeOK, StoreTypeOK
  <2>2. d \in Nat /\ k \in Nat /\ d <= k
    <3>1. rows \in SUBSET Tasks /\ done \in SUBSET Tasks
          /\ OfCampaign(done, c) \subseteq OfCampaign(rows, c)
      BY DEF TickInv, TickTypeOK, Transactions, SelectionHolds, OfCampaign
    <3>2. QED
      BY <3>1, OfCampaignFinite, FS_Subset
  <2>3. OfCampaign(lateWrites, c) = {} => d = k
    BY ReapMissesNothing DEF CounterMatchesRows
  <2> HIDE DEF n, k, d
  <2>4. Released(n, d) \in Released(n, k)..n
    BY <2>1, <2>2 DEF Released
  <2>5. QED
    BY <2>1, <2>3, <2>4 DEF n, k
<1>7. QED
  BY <1>3, <1>5, <1>6

\* The commit of a claim is a Claim of exactly the rows it marked: they were
\* eligible all along, and the counters it held leave room for them.
LEMMA CommitClaimIsClaim ==
    ASSUME TickInv, NEW s \in Schedulers, CommitClaim(s)
    PROVE  \E open \in SUBSET Zones : \E skipped \in SUBSET Eligible(open) :
              Claim(s, open, skipped)
<1> DEFINE done == tx[s].done
           due  == Eligible(Zones)
<1>1. /\ phase[s] = "claim"
      /\ tx[s].open
      /\ Take(done)
      /\ claimed' = [claimed EXCEPT ![s] = done]
      /\ phase' = [phase EXCEPT ![s] = IF done = {} THEN "reap" ELSE "send"]
      /\ UNCHANGED <<attempts, providerCallId, providerEvents, outcomes,
                     queueVars, crashes>>
  BY DEF CommitClaim, LoopDone
<1>2. /\ done \subseteq tx[s].rows
      /\ tx[s].rows \subseteq due
      /\ Cardinality(tx[s].rows) <= BatchSize
  BY <1>1 DEF TickInv, SelectionHolds
<1>3. done \in SUBSET Tasks /\ tx[s].rows \in SUBSET Tasks
  BY DEF TickInv, TickTypeOK, Transactions
<1>4. due \ (due \ done) = done
  BY <1>2
<1>5. done \in Batches(done)
  <2> DEFINE d == Cardinality(done)
             k == Cardinality(tx[s].rows)
  <2>1. d \in Nat /\ k \in Nat /\ d <= k
    <3>1. IsFiniteSet(tx[s].rows)
      BY <1>3, FS_Subset, DeploymentAssumption
    <3>2. QED
      BY <1>2, <3>1, FS_Subset, FS_CardinalityType
  <2>2. k <= BatchSize
    BY <1>2
  <2> HIDE DEF d, k
  <2>3. d = Least(BatchSize, d)
    BY <2>1, <2>2, SchedulerAssumption DEF Least
  <2>4. QED
    BY <2>3 DEF Batches, d
<1>6. done \in Reservable(done)
  <2> SUFFICES ASSUME NEW c \in Campaigns
               PROVE  Cardinality(OfCampaign(done, c))
                        = Least(Cardinality(OfCampaign(done, c)), Headroom(c))
    BY DEF Reservable
  <2> DEFINE n == Cardinality(OfCampaign(done, c))
  <2>1. n \in Nat /\ (OfCampaign(done, c) = {} => n = 0)
    BY <1>3, OfCampaignFinite, FS_EmptySet
  <2>2. OfCampaign(done, c) # {} => activeCount[c] + n <= MaxConcurrency[c]
    BY <1>1 DEF TickInv, ReservationsFit
  <2>3. activeCount[c] \in Nat /\ MaxConcurrency[c] \in Nat
    BY DeploymentAssumption DEF TickInv, TickTypeOK, StoreTypeOK
  <2> HIDE DEF n
  <2>4. n = Least(n, Headroom(c))
    BY <2>1, <2>2, <2>3 DEF Least, Headroom
  <2>5. QED
    BY <2>4 DEF n
<1>7. Claim(s, Zones, due \ done)
  BY <1>1, <1>4, <1>5, <1>6 DEF Claim
<1>8. QED
  BY <1>7

Atomic ==
    \/ \E s \in Schedulers : AtomicTick(s)
    \/ UNCHANGED <<queueVars, schedVars>> /\ \E t \in Tasks : OthersWrite(t)

LEMMA HookWrites ==
    ASSUME TickInv, NEW h \in Hooks, CommitHook(h)
    PROVE  Atomic
<1> DEFINE t == hookTx[h].task
<1>1. t \in Tasks /\ status'[t] \in {"completed", "pending", "exhausted"}
  BY CommitHookWrites
<1>2. /\ status[t] = "calling" \/ t \in lateWrites'
      /\ UNCHANGED <<queueVars, schedVars>>
  BY DEF CommitHook
<1>3. QED
  BY <1>1, <1>2 DEF Atomic, OthersWrite

LEMMA NextIsAtomic ==
    ASSUME TickInv, SlotsCovered, CounterMatchesRows, Next
    PROVE  Atomic \/ UNCHANGED <<storeVars, queueVars, schedVars>>
<1>1. CASE \E s \in Schedulers :
              Select(s) \/ (\E t \in Tasks : ComeTo(s, t)) \/ LockSlot(s)
  BY <1>1 DEF Select, ComeTo, LockSlot
<1>2. CASE \E h \in Hooks :
              (\E t \in Tasks : Read(h, t)) \/ HookLock(h) \/ PassSlot(h) \/ RollBackHook(h)
  BY <1>2 DEF Read, HookLock, PassSlot, RollBackHook
<1>3. CASE \E h \in Hooks : CommitHook(h)
  BY <1>3, HookWrites
<1>4. CASE \E s \in Schedulers : CommitReap(s) \/ CommitClaim(s)
  BY <1>4, CommitReapIsReap, CommitClaimIsClaim DEF Atomic, AtomicTick
<1>5. CASE \E s \in Schedulers : RollBack(s)
  <2>1. PICK s \in Schedulers : RollBack(s)
    BY <1>5
  <2>2. CASE phase[s] = "reap"
    BY <2>1, <2>2 DEF RollBack, schedVars
  <2>3. CASE phase[s] # "reap"
    BY <2>1, <2>3 DEF RollBack, Atomic, AtomicTick
  <2>4. QED
    BY <2>2, <2>3
<1>6. CASE \E s \in Schedulers, t \in Tasks : SendOrder(s, t)
  BY <1>6 DEF SendOrder, Atomic, AtomicTick
<1>7. CASE \E t \in Tasks : TimeOut(t) \/ \E c \in Calls : Mark(t, c)
  <2>1. PICK t \in Tasks : TimeOut(t) \/ \E c \in Calls : Mark(t, c)
    BY <1>7
  <2>2. OthersWrite(t) /\ UNCHANGED <<queueVars, schedVars>>
    BY <2>1 DEF TimeOut, Expire, Mark, OthersWrite, TickInv, TickTypeOK, StoreTypeOK
  <2>3. QED
    BY <2>2 DEF Atomic
<1>8. QED
  BY <1>1, <1>2, <1>3, <1>4, <1>5, <1>6, <1>7 DEF Next

\* What a scheduler's transactions do to the store is one Reap or one Claim, for
\* any number of schedulers, tasks and webhooks, late ones among them, and
\* whatever moves while they wait (scheduler/main.py:17-29). Only in a campaign
\* that a late webhook has hit may some of a reap's releases miss one by one.
THEOREM TransactionsAreAtomic == Spec => TicksAreAtomic
<1>1. TickInv /\ SlotsCovered /\ CounterMatchesRows /\ [Next]_txVars
        => [Atomic]_<<storeVars, queueVars, schedVars>>
  BY NextIsAtomic DEF txVars
<1>2. QED
  BY <1>1, TickInvariant, SlotsStayCovered, CounterAlwaysMatchesRows, PTL
      DEF Spec, TicksAreAtomic, Atomic
=============================================================================
