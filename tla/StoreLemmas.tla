---------------------------- MODULE StoreLemmas ----------------------------
(* Lemmas about the operators on the store and the dispatch queue, for the  *)
(* proofs of every module built from them.                                  *)
EXTENDS Scheduler, FiniteSetTheorems, TLAPS

USE MaxAttemptsAssumption, DeploymentAssumption, QueueAssumption, SchedulerAssumption

\* What plan_retry decides is a status out of flight, and a count.
LEMMA PlanRetryType ==
    ASSUME NEW n \in Nat
    PROVE  /\ PlanRetry(n).status \in {"pending", "exhausted"}
           /\ PlanRetry(n).attempts \in Nat
BY DEF PlanRetry

\* Writing a decision keeps the columns of the task table typed.
LEMMA WriteRetryType ==
    ASSUME StoreTypeOK, NEW S, NEW read \in [Tasks -> Nat], WriteRetry(S, read)
    PROVE  /\ status' \in [Tasks -> CallTaskStatus]
           /\ attempts' \in [Tasks -> Nat]
           /\ providerCallId' \in [Tasks -> Calls \cup {NoCall}]
           /\ expired' \in [Tasks -> BOOLEAN]
<1>1. \A t \in Tasks : /\ PlanRetry(read[t]).status \in CallTaskStatus
                       /\ PlanRetry(read[t]).attempts \in Nat
  BY PlanRetryType DEF CallTaskStatus
<1>2. QED
  BY <1>1 DEF StoreTypeOK, WriteRetry

\* The rows of one campaign among finitely many tasks are finitely many.
LEMMA OfCampaignFinite ==
    ASSUME NEW S \in SUBSET Tasks, NEW c
    PROVE  /\ IsFiniteSet(OfCampaign(S, c))
           /\ Cardinality(OfCampaign(S, c)) \in Nat
<1>1. OfCampaign(S, c) \subseteq Tasks
  BY DEF OfCampaign
<1>2. IsFiniteSet(OfCampaign(S, c))
  BY <1>1, FS_Subset
<1>3. QED
  BY <1>2, FS_CardinalityType

\* A written decision takes its rows out of flight.
LEMMA RetryLeavesFlight ==
    ASSUME NEW S \in SUBSET Tasks, NEW read \in [Tasks -> Nat], WriteRetry(S, read)
    PROVE  FlightTasks' = FlightTasks \ S
<1>1. \A t \in S : PlanRetry(read[t]).status \notin InFlightStatus
  BY PlanRetryType DEF InFlightStatus
<1>2. \A t \in Tasks : status'[t] \in InFlightStatus <=>
                          status[t] \in InFlightStatus /\ t \notin S
  BY <1>1 DEF WriteRetry
<1>3. QED
  BY <1>2 DEF FlightTasks

\* Releasing slots keeps the counters natural numbers.
LEMMA ReleaseSlotsType ==
    ASSUME StoreTypeOK, NEW S \in SUBSET Tasks, ReleaseSlots(S)
    PROVE  activeCount' \in [Campaigns -> Nat]
<1>1. \A c \in Campaigns : Cardinality(OfCampaign(S, c)) \in Nat
  BY OfCampaignFinite
<1>2. \A n, k \in Nat : Released(n, k) \in Nat
  BY DEF Released
<1>3. QED
  BY <1>1, <1>2 DEF StoreTypeOK, ReleaseSlots

\* A message keeps the queue typed.
LEMMA EnqueueType ==
    ASSUME QueueTypeOK, NEW t \in Tasks, Enqueue(t)
    PROVE  QueueTypeOK'
<1>1. [task |-> t, no |-> sent[t] + 1] \in Orders
  BY DEF QueueTypeOK, Orders
<1>2. QED
  BY <1>1 DEF QueueTypeOK, Enqueue

\* Counting the rows of a campaign when some rows S leave the set F.
LEMMA CountRemoved ==
    ASSUME NEW F \in SUBSET Tasks, NEW S \in SUBSET Tasks, NEW c
    PROVE  LET f == Cardinality(OfCampaign(F, c))
               s == Cardinality(OfCampaign(S, c))
               r == Cardinality(OfCampaign(F \ S, c))
           IN  /\ f \in Nat /\ s \in Nat /\ r \in Nat
               /\ f <= r + s
               /\ OfCampaign(S, c) \subseteq F => f = r + s
<1> DEFINE A == OfCampaign(F, c)
           B == OfCampaign(S, c)
<1>1. /\ IsFiniteSet(A) /\ Cardinality(A) \in Nat
      /\ IsFiniteSet(B) /\ Cardinality(B) \in Nat
  BY OfCampaignFinite
<1>2. OfCampaign(F \ S, c) = A \ B
  BY DEF OfCampaign
<1>3. /\ IsFiniteSet(A \ B)
      /\ Cardinality(A \ B) = Cardinality(A) - Cardinality(A \cap B)
  BY <1>1, FS_Difference
<1>4. Cardinality(A \ B) \in Nat
  BY <1>3, FS_CardinalityType
<1>5. A \cap B \subseteq B
  OBVIOUS
<1>6. /\ Cardinality(A \cap B) \in Nat
      /\ Cardinality(A \cap B) <= Cardinality(B)
  BY <1>1, <1>5, FS_Subset, FS_CardinalityType
<1>7. B \subseteq F => A \cap B = B
  BY DEF OfCampaign
<1> DEFINE f == Cardinality(A)
           s == Cardinality(B)
           r == Cardinality(OfCampaign(F \ S, c))
           x == Cardinality(A \cap B)
<1>8. /\ f \in Nat /\ s \in Nat /\ r \in Nat /\ x \in Nat
      /\ r = f - x /\ x <= s
      /\ B \subseteq F => x = s
  BY <1>1, <1>2, <1>3, <1>4, <1>6, <1>7
<1> HIDE DEF f, s, r, x
<1>9. f <= r + s /\ (B \subseteq F => f = r + s)
  BY <1>8
<1>10. QED
  BY <1>8, <1>9 DEF f, s, r

\* Counting them when the rows S, none of them in F, join F.
LEMMA CountAdded ==
    ASSUME NEW F \in SUBSET Tasks, NEW S \in SUBSET Tasks, F \cap S = {}, NEW c
    PROVE  Cardinality(OfCampaign(F \cup S, c))
               = Cardinality(OfCampaign(F, c)) + Cardinality(OfCampaign(S, c))
<1> DEFINE A == OfCampaign(F, c)
           B == OfCampaign(S, c)
<1>1. /\ IsFiniteSet(A) /\ Cardinality(A) \in Nat
      /\ IsFiniteSet(B) /\ Cardinality(B) \in Nat
  BY OfCampaignFinite
<1>2. OfCampaign(F \cup S, c) = A \cup B /\ A \cap B = {}
  BY DEF OfCampaign
<1>3. Cardinality(A \cup B) = Cardinality(A) + Cardinality(B) - Cardinality(A \cap B)
  BY <1>1, FS_Union
<1>4. Cardinality(A \cap B) = 0
  BY <1>2, FS_EmptySet
<1>5. Cardinality(A \cup B) = Cardinality(A) + Cardinality(B)
  <2> DEFINE a == Cardinality(A)
             b == Cardinality(B)
  <2>1. a \in Nat /\ b \in Nat /\ Cardinality(A \cup B) = a + b - 0
    BY <1>1, <1>3, <1>4
  <2> HIDE DEF a, b
  <2>2. Cardinality(A \cup B) = a + b
    BY <2>1
  <2>3. QED
    BY <2>2 DEF a, b
<1>6. QED
  BY <1>2, <1>5
=============================================================================
