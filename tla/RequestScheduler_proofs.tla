------------------------ MODULE RequestScheduler_proofs ------------------------
(***************************************************************************)
(* Proofs about RequestScheduler, for every set of tasks and repositories, *)
(* all limits and every burst: the permit counts are balanced, no limit is *)
(* ever exceeded, no permit lies idle while a waiter could have it, a      *)
(* refresh waits its turn, and the waiters of a repository are served in   *)
(* the order in which they came.                                           *)
(***************************************************************************)
EXTENDS RequestScheduler, FiniteSetTheorems, SequenceTheorems, WellFoundedInduction, TLAPS

\* The first eligible index exists: Min is defined on every set of naturals.
LEMMA MinDef ==
    ASSUME NEW S \in SUBSET Nat, S # {}
    PROVE  Min(S) \in S /\ \A x \in S : Min(S) <= x
PROOF
  <1>1. PICK x \in S : \A y \in S : <<y, x>> \notin OpToRel(<, Nat)
    BY NatLessThanWellFounded, WFMin
  <1>2. \A y \in S : x <= y
    <2> SUFFICES ASSUME NEW y \in S PROVE x <= y
      OBVIOUS
    <2>1. ~(y < x)
      BY <1>1 DEF OpToRel
    <2> QED
      BY <2>1
  <1>3. \E z \in S : \A y \in S : z <= y
    BY <1>2
  <1> QED
    BY <1>3 DEF Min

\* What a queue is without one of its waiters.
LEMMA RemoveAtDef ==
    ASSUME NEW S, NEW q \in Seq(S), NEW i \in DOMAIN q
    PROVE  /\ RemoveAt(q, i) \in Seq(S)
           /\ DOMAIN RemoveAt(q, i) = 1 .. Len(q) - 1
           /\ \A j \in 1 .. Len(q) - 1 :
                 RemoveAt(q, i)[j] = IF j < i THEN q[j] ELSE q[j + 1]
PROOF
  <1>1. i \in 1 .. Len(q) /\ Len(q) \in Nat
    OBVIOUS
  <1>2. SubSeq(q, 1, i - 1) \in Seq(S) /\ Len(SubSeq(q, 1, i - 1)) = i - 1
        /\ \A j \in 1 .. i - 1 : SubSeq(q, 1, i - 1)[j] = q[j]
    BY <1>1
  <1>3. SubSeq(q, i + 1, Len(q)) \in Seq(S) /\ Len(SubSeq(q, i + 1, Len(q))) = Len(q) - i
        /\ \A j \in 1 .. Len(q) - i : SubSeq(q, i + 1, Len(q))[j] = q[j + i]
    BY <1>1
  <1> DEFINE a == SubSeq(q, 1, i - 1)
             b == SubSeq(q, i + 1, Len(q))
  <1> HIDE DEF a, b
  <1>4. a \o b \in Seq(S) /\ Len(a \o b) = Len(q) - 1 /\ DOMAIN (a \o b) = 1 .. Len(q) - 1
    <2>1. a \in Seq(S) /\ b \in Seq(S) /\ Len(a) = i - 1 /\ Len(b) = Len(q) - i
      BY <1>2, <1>3 DEF a, b
    <2>2. a \o b \in Seq(S) /\ Len(a \o b) = Len(a) + Len(b)
      BY <2>1, ConcatProperties
    <2>3. Len(a \o b) = Len(q) - 1
      BY <1>1, <2>1, <2>2
    <2> QED
      BY <2>2, <2>3, LenProperties
  <1>5. \A j \in 1 .. Len(q) - 1 : (a \o b)[j] = IF j < i THEN a[j] ELSE b[j - (i - 1)]
    <2>1. a \in Seq(S) /\ b \in Seq(S) /\ Len(a) = i - 1 /\ Len(b) = Len(q) - i
      BY <1>2, <1>3 DEF a, b
    <2>2. \A j \in 1 .. Len(a) + Len(b) : (a \o b)[j] = IF j <= Len(a) THEN a[j] ELSE b[j - Len(a)]
      BY <2>1
    <2> QED
      BY <1>1, <2>1, <2>2
  <1>6. ASSUME NEW j \in 1 .. Len(q) - 1
        PROVE  (a \o b)[j] = IF j < i THEN q[j] ELSE q[j + 1]
    <2>1. CASE j < i
      <3>1. j \in 1 .. i - 1
        BY <1>1, <2>1
      <3> QED
        BY <1>2, <1>5, <2>1, <3>1 DEF a
    <2>2. CASE ~(j < i)
      <3>1. j - (i - 1) \in 1 .. Len(q) - i /\ j - (i - 1) + i = j + 1
        BY <1>1, <2>2
      <3>2. b[j - (i - 1)] = q[j + 1]
        BY <1>3, <3>1 DEF b
      <3> QED
        BY <1>5, <2>2, <3>2
    <2> QED
      BY <2>1, <2>2
  <1> QED
    BY <1>4, <1>6 DEF RemoveAt, a, b

-----------------------------------------------------------------------------
(* Queues                                                                   *)

InQueue == {"waiting", "dropped"}

\* A queue of group G when the tasks are where p says: it holds each waiter of
\* the group, dropped ones too, once, and nobody else.
QueueOK(q, G, p) ==
    /\ \A i \in DOMAIN q : p[q[i]] \in InQueue
    /\ \A i, j \in DOMAIN q : q[i] = q[j] => i = j
    /\ \A t \in G : p[t] \in InQueue => \E i \in DOMAIN q : q[i] = t

LEMMA Unmoved ==
    ASSUME NEW G, NEW q \in Seq(G), NEW p1, NEW p2, QueueOK(q, G, p1),
           \A t \in G : p2[t] \in InQueue <=> p1[t] \in InQueue
    PROVE  QueueOK(q, G, p2)
PROOF
  <1>1. \A i \in DOMAIN q : q[i] \in G
    OBVIOUS
  <1> QED
    BY <1>1 DEF QueueOK

LEMMA Enqueue ==
    ASSUME NEW T, NEW G \in SUBSET T, NEW p \in [T -> PCs], NEW q \in Seq(G), QueueOK(q, G, p),
           NEW t \in G, p[t] = "idle"
    PROVE  Append(q, t) \in Seq(G) /\ QueueOK(Append(q, t), G, [p EXCEPT ![t] = "waiting"])
PROOF
  <1> DEFINE r == Append(q, t)
             p2 == [p EXCEPT ![t] = "waiting"]
  <1>1. /\ r \in Seq(G) /\ DOMAIN r = 1 .. Len(q) + 1 /\ DOMAIN q = 1 .. Len(q) /\ Len(q) \in Nat
        /\ \A i \in DOMAIN q : r[i] = q[i]
        /\ r[Len(q) + 1] = t
    BY AppendProperties, LenProperties
  <1>2. \A u \in G : p2[u] = IF u = t THEN "waiting" ELSE p[u]
    OBVIOUS
  <1>3. \A i \in DOMAIN q : q[i] \in G /\ q[i] # t /\ p[q[i]] \in InQueue
    BY DEF QueueOK, InQueue
  <1> HIDE DEF r, p2
  <1>4. \A i \in DOMAIN r : i \in DOMAIN q \/ i = Len(q) + 1
    BY <1>1
  <1>5. \A i \in DOMAIN r : p2[r[i]] \in InQueue
    BY <1>1, <1>2, <1>3, <1>4 DEF InQueue
  <1>6. \A i, j \in DOMAIN r : r[i] = r[j] => i = j
    BY <1>1, <1>3, <1>4 DEF QueueOK
  <1>7. \A u \in G : p2[u] \in InQueue => \E i \in DOMAIN r : r[i] = u
    <2> SUFFICES ASSUME NEW u \in G, p2[u] \in InQueue
                 PROVE  \E i \in DOMAIN r : r[i] = u
      OBVIOUS
    <2>1. CASE u = t
      <3>1. Len(q) + 1 \in DOMAIN r
        BY <1>1
      <3> QED
        BY <1>1, <2>1, <3>1
    <2>2. CASE u # t
      <3>1. PICK i \in DOMAIN q : q[i] = u
        BY <1>2, <2>2 DEF QueueOK
      <3>2. i \in DOMAIN r
        BY <1>1
      <3> QED
        BY <1>1, <3>1, <3>2
    <2> QED
      BY <2>1, <2>2
  <1> QED
    BY <1>1, <1>5, <1>6, <1>7 DEF QueueOK, r, p2

LEMMA Dequeue ==
    ASSUME NEW T, NEW G \in SUBSET T, NEW p \in [T -> PCs], NEW q \in Seq(G), QueueOK(q, G, p),
           NEW i \in DOMAIN q, NEW at \in PCs \ InQueue
    PROVE  RemoveAt(q, i) \in Seq(G) /\ QueueOK(RemoveAt(q, i), G, [p EXCEPT ![q[i]] = at])
PROOF
  <1> DEFINE r == RemoveAt(q, i)
             p2 == [p EXCEPT ![q[i]] = at]
             old(j) == IF j < i THEN j ELSE j + 1
  <1>1. /\ r \in Seq(G) /\ DOMAIN r = 1 .. Len(q) - 1 /\ DOMAIN q = 1 .. Len(q) /\ Len(q) \in Nat
        /\ i \in 1 .. Len(q)
        /\ \A j \in DOMAIN r : r[j] = IF j < i THEN q[j] ELSE q[j + 1]
    BY RemoveAtDef, LenProperties
  <1>2. \A j \in DOMAIN r : old(j) \in DOMAIN q /\ old(j) # i /\ r[j] = q[old(j)]
    <2> SUFFICES ASSUME NEW j \in DOMAIN r
                 PROVE  old(j) \in DOMAIN q /\ old(j) # i /\ r[j] = q[old(j)]
      OBVIOUS
    <2>1. old(j) \in DOMAIN q /\ old(j) # i
      BY <1>1
    <2>2. r[j] = q[old(j)]
      BY <1>1
    <2> QED
      BY <2>1, <2>2
  <1>3. \A j \in DOMAIN q : q[j] \in G /\ p[q[j]] \in InQueue
    BY DEF QueueOK
  <1>4. \A u \in T : p2[u] = IF u = q[i] THEN at ELSE p[u]
    OBVIOUS
  <1>5. \A j, k \in DOMAIN q : q[j] = q[k] => j = k
    BY DEF QueueOK
  <1>6. \A j, k \in DOMAIN r : old(j) = old(k) => j = k
    BY <1>1
  <1>7. \A k \in DOMAIN q : k # i => \E j \in DOMAIN r : old(j) = k
    <2> SUFFICES ASSUME NEW k \in DOMAIN q, k # i
                 PROVE  \E j \in DOMAIN r : old(j) = k
      OBVIOUS
    <2>1. CASE k < i
      <3>1. k \in DOMAIN r /\ old(k) = k
        BY <1>1, <2>1
      <3> QED
        BY <3>1
    <2>2. CASE ~(k < i)
      <3>1. k - 1 \in DOMAIN r /\ old(k - 1) = k
        BY <1>1, <2>2
      <3> QED
        BY <3>1
    <2> QED
      BY <2>1, <2>2
  <1> HIDE DEF r, p2, old
  <1>8. \A j \in DOMAIN r : p2[r[j]] \in InQueue
    BY <1>2, <1>3, <1>4, <1>5
  <1>9. \A j, k \in DOMAIN r : r[j] = r[k] => j = k
    BY <1>2, <1>5, <1>6
  <1>10. \A u \in G : p2[u] \in InQueue => \E j \in DOMAIN r : r[j] = u
    <2> SUFFICES ASSUME NEW u \in G, p2[u] \in InQueue
                 PROVE  \E j \in DOMAIN r : r[j] = u
      OBVIOUS
    <2>1. u # q[i] /\ p[u] \in InQueue
      BY <1>4
    <2>2. PICK k \in DOMAIN q : q[k] = u
      BY <2>1 DEF QueueOK
    <2>3. PICK j \in DOMAIN r : old(j) = k
      BY <1>7, <2>1, <2>2
    <2> QED
      BY <1>2, <2>2, <2>3
  <1> QED
    BY <1>1, <1>8, <1>9, <1>10 DEF QueueOK, r, p2

-----------------------------------------------------------------------------
(* Counts                                                                   *)

LEMMA HoldingFinite ==
    /\ IsFiniteSet(Holding) /\ Cardinality(Holding) \in Nat
    /\ \A r \in Repositories : IsFiniteSet(HoldingAt(r)) /\ Cardinality(HoldingAt(r)) \in Nat
PROOF
  <1>1. IsFiniteSet(Tasks)
    BY LimitsAssumption, FS_Union DEF Tasks
  <1>2. Holding \subseteq Tasks /\ \A r \in Repositories : HoldingAt(r) \subseteq Holding
    BY DEF Holding, HoldingAt
  <1>3. IsFiniteSet(Holding)
    BY <1>1, <1>2, FS_Subset
  <1>4. \A r \in Repositories : IsFiniteSet(HoldingAt(r))
    BY <1>2, <1>3, FS_Subset
  <1> QED
    BY <1>3, <1>4, FS_CardinalityType

\* A permit more.
LEMMA Granted ==
    ASSUME TypeOK, NEW t \in Tasks, pc[t] # "holding", pc' = [pc EXCEPT ![t] = "holding"],
           UNCHANGED repository
    PROVE  /\ Cardinality(Holding') = Cardinality(Holding) + 1
           /\ \A r \in Repositories :
                 Cardinality(HoldingAt(r)') =
                    Cardinality(HoldingAt(r)) + (IF r = repository[t] THEN 1 ELSE 0)
PROOF
  <1>1. Holding' = Holding \cup {t} /\ t \notin Holding
    BY DEF Holding, TypeOK
  <1>2. \A r \in Repositories :
          /\ HoldingAt(r)' = IF r = repository[t] THEN HoldingAt(r) \cup {t} ELSE HoldingAt(r)
          /\ t \notin HoldingAt(r)
    BY <1>1 DEF HoldingAt
  <1>3. Cardinality(Holding \cup {t}) = Cardinality(Holding) + 1
    BY <1>1, HoldingFinite, FS_AddElement
  <1>4. ASSUME NEW r \in Repositories
        PROVE  Cardinality(HoldingAt(r)') =
                  Cardinality(HoldingAt(r)) + (IF r = repository[t] THEN 1 ELSE 0)
    <2>1. CASE r = repository[t]
      <3>1. Cardinality(HoldingAt(r) \cup {t}) = Cardinality(HoldingAt(r)) + 1
        BY <1>2, HoldingFinite, FS_AddElement
      <3> QED
        BY <1>2, <2>1, <3>1
    <2>2. CASE r # repository[t]
      BY <1>2, <2>2, HoldingFinite
    <2> QED
      BY <2>1, <2>2
  <1> QED
    BY <1>1, <1>3, <1>4

\* A permit less: there was one.
LEMMA Released ==
    ASSUME TypeOK, NEW t \in Tasks, pc[t] = "holding", pc' = [pc EXCEPT ![t] = "idle"],
           UNCHANGED repository
    PROVE  /\ Cardinality(Holding') = Cardinality(Holding) - 1 /\ Cardinality(Holding) > 0
           /\ Cardinality(HoldingAt(repository[t])) > 0
           /\ \A r \in Repositories :
                 Cardinality(HoldingAt(r)') =
                    Cardinality(HoldingAt(r)) - (IF r = repository[t] THEN 1 ELSE 0)
PROOF
  <1>1. Holding' = Holding \ {t} /\ t \in Holding
    BY DEF Holding, TypeOK
  <1>2. \A r \in Repositories :
          /\ HoldingAt(r)' = IF r = repository[t] THEN HoldingAt(r) \ {t} ELSE HoldingAt(r)
          /\ r = repository[t] => t \in HoldingAt(r)
    BY <1>1 DEF HoldingAt
  <1>3. Cardinality(Holding \ {t}) = Cardinality(Holding) - 1 /\ Cardinality(Holding) # 0
    BY <1>1, HoldingFinite, FS_RemoveElement, FS_EmptySet
  <1>4. ASSUME NEW r \in Repositories
        PROVE  /\ Cardinality(HoldingAt(r)') =
                     Cardinality(HoldingAt(r)) - (IF r = repository[t] THEN 1 ELSE 0)
               /\ r = repository[t] => Cardinality(HoldingAt(r)) # 0
    <2>1. CASE r = repository[t]
      <3>1. /\ Cardinality(HoldingAt(r) \ {t}) = Cardinality(HoldingAt(r)) - 1
            /\ Cardinality(HoldingAt(r)) # 0
        BY <1>2, <2>1, HoldingFinite, FS_RemoveElement, FS_EmptySet
      <3> QED
        BY <1>2, <2>1, <3>1
    <2>2. CASE r # repository[t]
      BY <1>2, <2>2, HoldingFinite
    <2> QED
      BY <2>1, <2>2
  <1>5. repository[t] \in Repositories
    BY DEF TypeOK
  <1> QED
    BY <1>1, <1>3, <1>4, <1>5, HoldingFinite

\* A task that neither had a permit nor gets one.
LEMMA NoGrant ==
    ASSUME TypeOK, NEW t \in Tasks, pc[t] # "holding", NEW at \in PCs \ {"holding"},
           pc' = [pc EXCEPT ![t] = at],
           \A u \in Tasks : u # t => repository'[u] = repository[u]
    PROVE  Holding' = Holding /\ \A r \in Repositories : HoldingAt(r)' = HoldingAt(r)
PROOF
  <1>1. Holding' = Holding /\ t \notin Holding
    BY DEF Holding, TypeOK
  <1> QED
    BY <1>1 DEF HoldingAt, Holding

-----------------------------------------------------------------------------
(* The invariant                                                            *)

Queues == QueueOK(foreground, Foreground, pc) /\ QueueOK(background, Background, pc)

WithinLimits ==
    /\ globalInUse <= GlobalLimit
    /\ \A r \in Repositories : repositoryInUse[r] <= RepositoryLimit[r]

IInv == TypeOK /\ Queues /\ PermitsBalanced /\ WithinLimits /\ WorkConserving

LEMMA InitIInv == Init => IInv
PROOF
  <1> SUFFICES ASSUME Init PROVE IInv
    OBVIOUS
  <1>1. TypeOK
    <2>1. 0 \in 0 .. Burst
      BY LimitsAssumption
    <2>2. pc \in [Tasks -> PCs] /\ repositoryInUse \in [Repositories -> Nat]
      BY DEF Init, PCs
    <2>3. foreground \in Seq(Foreground) /\ background \in Seq(Background)
      BY DEF Init
    <2> QED
      BY <2>1, <2>2, <2>3 DEF Init, TypeOK
  <1>2. Holding = {} /\ \A r \in Repositories : HoldingAt(r) = {}
    BY DEF Init, Holding, HoldingAt
  <1>3. PermitsBalanced
    BY <1>2, FS_EmptySet DEF Init, PermitsBalanced
  <1>4. Queues
    BY DEF Init, Queues, QueueOK, InQueue, Tasks
  <1>5. WithinLimits
    <2>1. \A r \in Repositories : RepositoryLimit[r] \in Nat
      BY LimitsAssumption
    <2>2. \A r \in Repositories : repositoryInUse[r] = 0
      BY DEF Init
    <2> QED
      BY <2>1, <2>2, LimitsAssumption DEF Init, WithinLimits
  <1>6. WorkConserving
    BY DEF Init, WorkConserving, Queued
  <1> QED
    BY <1>1, <1>3, <1>4, <1>5, <1>6 DEF IInv

\* The end of the loop finds no waiter that could have a permit.
LEMMA EndOfLoop ==
    ASSUME IInv, EndSchedule
    PROVE  \A t \in Queued :
               \/ Cardinality(Holding) = GlobalLimit
               \/ Cardinality(HoldingAt(repository[t])) = RepositoryLimit[repository[t]]
PROOF
  <1> SUFFICES ASSUME NEW t \in Queued, Cardinality(Holding) # GlobalLimit
               PROVE  Cardinality(HoldingAt(repository[t])) = RepositoryLimit[repository[t]]
    OBVIOUS
  <1>1. t \in Tasks /\ pc[t] \in InQueue /\ repository[t] \in Repositories
    BY DEF Queued, InQueue, IInv, TypeOK
  <1>2. globalInUse < GlobalLimit
    BY HoldingFinite, LimitsAssumption DEF IInv, PermitsBalanced, WithinLimits
  <1>3. Eligible(foreground) = {} /\ Eligible(background) = {}
    BY <1>2 DEF EndSchedule, GlobalRoom
  <1>4. ~Room(repository[t])
    <2>1. CASE t \in Foreground
      <3>1. PICK i \in DOMAIN foreground : foreground[i] = t
        BY <1>1, <2>1 DEF IInv, Queues, QueueOK
      <3> QED
        BY <1>3, <3>1 DEF Eligible
    <2>2. CASE t \in Background
      <3>1. PICK i \in DOMAIN background : background[i] = t
        BY <1>1, <2>2 DEF IInv, Queues, QueueOK
      <3> QED
        BY <1>3, <3>1 DEF Eligible
    <2> QED
      BY <1>1, <2>1, <2>2 DEF Tasks
  <1>5. /\ repositoryInUse[repository[t]] = RepositoryLimit[repository[t]]
        /\ repositoryInUse[repository[t]] = Cardinality(HoldingAt(repository[t]))
    BY <1>1, <1>4, LimitsAssumption, HoldingFinite
       DEF IInv, Room, WithinLimits, PermitsBalanced, TypeOK
  <1> QED
    BY <1>5

LEMMA EligibleFirst ==
    ASSUME NEW G, NEW q \in Seq(G), Eligible(q) # {}
    PROVE  /\ EligibleIndex(q) \in DOMAIN q
           /\ Room(repository[q[EligibleIndex(q)]])
PROOF
  <1>1. Eligible(q) \in SUBSET Nat
    <2>1. DOMAIN q = 1 .. Len(q) /\ Len(q) \in Nat
      OBVIOUS
    <2> QED
      BY <2>1 DEF Eligible
  <1>2. EligibleIndex(q) \in Eligible(q)
    BY <1>1, MinDef DEF EligibleIndex
  <1> QED
    BY <1>2 DEF Eligible

\* A permit sent to a waiter that has room, received or not, keeps the counts.
LEMMA SendStep ==
    ASSUME IInv, NEW t \in Tasks, pc[t] \in InQueue, Room(repository[t]), GlobalRoom, Send(t),
           UNCHANGED repository
    PROVE  /\ \E at \in {"holding", "idle"} : pc' = [pc EXCEPT ![t] = at]
           /\ globalInUse' \in Nat /\ repositoryInUse' \in [Repositories -> Nat]
           /\ PermitsBalanced' /\ WithinLimits'
PROOF
  <1> DEFINE r == repository[t]
  <1>1. /\ r \in Repositories /\ repositoryInUse[r] \in Nat /\ globalInUse \in Nat
        /\ RepositoryLimit[r] \in Nat /\ GlobalLimit \in Nat
    BY LimitsAssumption DEF IInv, TypeOK
  <1>2. CASE pc[t] = "waiting"
    <2>1. /\ pc' = [pc EXCEPT ![t] = "holding"]
          /\ globalInUse' = globalInUse + 1
          /\ repositoryInUse' = [repositoryInUse EXCEPT ![r] = @ + 1]
      BY <1>2 DEF Send, Counts
    <2>2. globalInUse' \in Nat /\ repositoryInUse' \in [Repositories -> Nat]
      BY <1>1, <2>1 DEF IInv, TypeOK
    <2>3. /\ Cardinality(Holding') = Cardinality(Holding) + 1
          /\ \A s \in Repositories :
                Cardinality(HoldingAt(s)') = Cardinality(HoldingAt(s)) + (IF s = r THEN 1 ELSE 0)
      BY <1>2, <2>1, Granted DEF IInv
    <2>4. \A s \in Repositories :
             repositoryInUse'[s] = repositoryInUse[s] + (IF s = r THEN 1 ELSE 0)
      BY <2>1 DEF IInv, TypeOK
    <2>5. PermitsBalanced'
      BY <2>1, <2>3, <2>4 DEF IInv, PermitsBalanced
    <2>6. globalInUse' <= GlobalLimit
      BY <1>1, <2>1 DEF GlobalRoom
    <2>7. \A s \in Repositories : repositoryInUse'[s] <= RepositoryLimit[s]
      <3> SUFFICES ASSUME NEW s \in Repositories
                   PROVE  repositoryInUse'[s] <= RepositoryLimit[s]
        OBVIOUS
      <3>1. repositoryInUse[s] \in Nat /\ RepositoryLimit[s] \in Nat
            /\ repositoryInUse[s] <= RepositoryLimit[s]
        BY LimitsAssumption DEF IInv, TypeOK, WithinLimits
      <3>2. s = r => repositoryInUse[s] < RepositoryLimit[s]
        BY DEF Room
      <3> QED
        BY <2>4, <3>1, <3>2
    <2> QED
      BY <2>1, <2>2, <2>5, <2>6, <2>7 DEF WithinLimits
  <1>3. CASE pc[t] # "waiting"
    <2>1. pc' = [pc EXCEPT ![t] = "idle"] /\ UNCHANGED <<globalInUse, repositoryInUse>>
      BY <1>3 DEF Send, Counts
    <2>2. Holding' = Holding /\ \A s \in Repositories : HoldingAt(s)' = HoldingAt(s)
      BY <2>1, NoGrant DEF IInv, InQueue, PCs
    <2> QED
      BY <2>1, <2>2 DEF IInv, TypeOK, PermitsBalanced, WithinLimits
  <1> QED
    BY <1>2, <1>3

\* Every step keeps the invariant.
LEMMA NextIInv == IInv /\ [Next]_vars => IInv'
PROOF
  <1> SUFFICES ASSUME IInv, [Next]_vars PROVE IInv'
    OBVIOUS
  <1> USE LimitsAssumption
  <1>0. Foreground \subseteq Tasks /\ Background \subseteq Tasks
    BY DEF Tasks
  <1>1. ASSUME NEW t \in Tasks, NEW r \in Repositories, Acquire(t, r)
        PROVE  IInv'
    <2>1. pc[t] = "idle" /\ pc' = [pc EXCEPT ![t] = "waiting"]
          /\ repository' = [repository EXCEPT ![t] = r]
      BY <1>1 DEF Acquire
    <2>2. Queues' /\ foreground' \in Seq(Foreground) /\ background' \in Seq(Background)
      <3>1. CASE t \in Foreground
        <4>1. foreground' = Append(foreground, t) /\ background' = background
          BY <1>1, <3>1 DEF Acquire, IsForeground
        <4>2. foreground' \in Seq(Foreground) /\ QueueOK(foreground', Foreground, pc')
          BY <1>0, <2>1, <3>1, <4>1, Enqueue DEF IInv, TypeOK, Queues
        <4>3. QueueOK(background', Background, pc')
          <5>1. \A u \in Background : pc'[u] \in InQueue <=> pc[u] \in InQueue
            BY <1>0, <2>1, <3>1 DEF IInv, TypeOK
          <5> QED
            BY <4>1, <5>1, Unmoved DEF IInv, TypeOK, Queues
        <4> QED
          BY <4>1, <4>2, <4>3 DEF Queues, IInv, TypeOK
      <3>2. CASE t \notin Foreground
        <4>1. background' = Append(background, t) /\ foreground' = foreground /\ t \in Background
          BY <1>1, <3>2 DEF Acquire, IsForeground, Tasks
        <4>2. background' \in Seq(Background) /\ QueueOK(background', Background, pc')
          BY <1>0, <2>1, <4>1, Enqueue DEF IInv, TypeOK, Queues
        <4>3. QueueOK(foreground', Foreground, pc')
          <5>1. \A u \in Foreground : pc'[u] \in InQueue <=> pc[u] \in InQueue
            BY <1>0, <2>1, <3>2 DEF IInv, TypeOK
          <5> QED
            BY <4>1, <5>1, Unmoved DEF IInv, TypeOK, Queues
        <4> QED
          BY <4>1, <4>2, <4>3 DEF Queues, IInv, TypeOK
      <3> QED
        BY <3>1, <3>2
    <2>3. Holding' = Holding /\ \A s \in Repositories : HoldingAt(s)' = HoldingAt(s)
      BY <2>1, NoGrant DEF IInv, TypeOK, PCs
    <2>4. TypeOK'
      BY <1>1, <2>1, <2>2 DEF Acquire, IInv, TypeOK, PCs
    <2>5. PermitsBalanced' /\ WithinLimits'
      BY <1>1, <2>3 DEF Acquire, IInv, PermitsBalanced, WithinLimits
    <2>6. WorkConserving'
      BY <1>1 DEF Acquire, WorkConserving
    <2> QED
      BY <2>2, <2>4, <2>5, <2>6 DEF IInv
  <1>2. CASE GrantForeground
    <2> DEFINE i == EligibleIndex(foreground)
               t == foreground[i]
    <2>1. i \in DOMAIN foreground /\ Room(repository[t])
      BY <1>2, EligibleFirst DEF GrantForeground, IInv, TypeOK
    <2>2. t \in Foreground /\ t \in Tasks /\ pc[t] \in InQueue
      BY <1>0, <2>1 DEF IInv, TypeOK, Queues, QueueOK
    <2>3. /\ GlobalRoom /\ Send(t) /\ UNCHANGED repository
          /\ foreground' = RemoveAt(foreground, i) /\ background' = background
          /\ scheduling' = scheduling /\ scheduling
      BY <1>2 DEF GrantForeground
    <2> HIDE DEF i
    <2>4. PICK at \in {"holding", "idle"} : pc' = [pc EXCEPT ![t] = at]
      BY <2>1, <2>2, <2>3, SendStep
    <2>5. /\ globalInUse' \in Nat /\ repositoryInUse' \in [Repositories -> Nat]
          /\ PermitsBalanced' /\ WithinLimits'
      BY <2>1, <2>2, <2>3, SendStep
    <2>6. at \in PCs \ InQueue
      BY DEF PCs, InQueue
    <2>7. foreground' \in Seq(Foreground) /\ QueueOK(foreground', Foreground, pc')
      BY <1>0, <2>1, <2>3, <2>4, <2>6, Dequeue DEF IInv, TypeOK, Queues
    <2>8. QueueOK(background', Background, pc')
      <3>1. \A u \in Background : pc'[u] \in InQueue <=> pc[u] \in InQueue
        BY <1>0, <2>2, <2>4 DEF IInv, TypeOK
      <3> QED
        BY <2>3, <3>1, Unmoved DEF IInv, TypeOK, Queues
    <2>9. consecutiveForeground' \in Nat /\ sinceBackground' \in 0 .. Burst
      <3>1. CASE UNCHANGED <<consecutiveForeground, sinceBackground>>
        BY <3>1 DEF IInv, TypeOK
      <3>2. CASE ~UNCHANGED <<consecutiveForeground, sinceBackground>>
        <4>1. /\ consecutiveForeground' = IF Passing THEN consecutiveForeground + 1 ELSE 0
              /\ sinceBackground' = Min({Burst, sinceBackground + 1})
          BY <1>2, <3>2 DEF GrantForeground
        <4>2. {Burst, sinceBackground + 1} \in SUBSET Nat /\ consecutiveForeground \in Nat
          BY DEF IInv, TypeOK
        <4>3. /\ Min({Burst, sinceBackground + 1}) \in {Burst, sinceBackground + 1}
              /\ Min({Burst, sinceBackground + 1}) <= Burst
          BY <4>2, MinDef
        <4> QED
          BY <4>1, <4>2, <4>3
      <3> QED
        BY <3>1, <3>2
    <2>10. TypeOK'
      <3>1. pc' \in [Tasks -> PCs]
        BY <2>4, <2>6 DEF IInv, TypeOK
      <3> QED
        BY <2>3, <2>5, <2>7, <2>9, <3>1 DEF IInv, TypeOK
    <2>11. WorkConserving'
      BY <2>3 DEF WorkConserving
    <2> QED
      BY <2>5, <2>7, <2>8, <2>10, <2>11 DEF IInv, Queues
  <1>3. CASE GrantBackground
    <2> DEFINE i == EligibleIndex(background)
               t == background[i]
    <2>1. i \in DOMAIN background /\ Room(repository[t])
      BY <1>3, EligibleFirst DEF GrantBackground, IInv, TypeOK
    <2>2. t \in Background /\ t \in Tasks /\ pc[t] \in InQueue
      BY <1>0, <2>1 DEF IInv, TypeOK, Queues, QueueOK
    <2>3. /\ GlobalRoom /\ Send(t) /\ UNCHANGED repository
          /\ background' = RemoveAt(background, i) /\ foreground' = foreground
          /\ scheduling' = scheduling /\ scheduling
      BY <1>3 DEF GrantBackground
    <2>4. consecutiveForeground' \in Nat /\ sinceBackground' \in 0 .. Burst
      BY <1>3 DEF GrantBackground, ConsecutiveReset, IInv, TypeOK
    <2> HIDE DEF i
    <2>5. PICK at \in {"holding", "idle"} : pc' = [pc EXCEPT ![t] = at]
      BY <2>1, <2>2, <2>3, SendStep
    <2>6. /\ globalInUse' \in Nat /\ repositoryInUse' \in [Repositories -> Nat]
          /\ PermitsBalanced' /\ WithinLimits'
      BY <2>1, <2>2, <2>3, SendStep
    <2>7. at \in PCs \ InQueue
      BY DEF PCs, InQueue
    <2>8. background' \in Seq(Background) /\ QueueOK(background', Background, pc')
      BY <1>0, <2>1, <2>3, <2>5, <2>7, Dequeue DEF IInv, TypeOK, Queues
    <2>9. QueueOK(foreground', Foreground, pc')
      <3>1. \A u \in Foreground : pc'[u] \in InQueue <=> pc[u] \in InQueue
        BY <1>0, <2>2, <2>5 DEF IInv, TypeOK
      <3> QED
        BY <2>3, <3>1, Unmoved DEF IInv, TypeOK, Queues
    <2>10. TypeOK'
      <3>1. pc' \in [Tasks -> PCs]
        BY <2>5, <2>7 DEF IInv, TypeOK
      <3> QED
        BY <2>3, <2>4, <2>6, <2>8, <3>1 DEF IInv, TypeOK
    <2>11. WorkConserving'
      BY <2>3 DEF WorkConserving
    <2> QED
      BY <2>6, <2>8, <2>9, <2>10, <2>11 DEF IInv, Queues
  <1>4. CASE EndSchedule
    <2>1. /\ UNCHANGED <<pc, repository, foreground, background, globalInUse, repositoryInUse,
                         consecutiveForeground, sinceBackground>>
          /\ scheduling' = FALSE
      BY <1>4 DEF EndSchedule
    <2>2. Holding' = Holding /\ Queued' = Queued /\ \A r : HoldingAt(r)' = HoldingAt(r)
      BY <2>1 DEF Holding, Queued, HoldingAt
    <2>3. WorkConserving'
      BY <1>4, <2>1, <2>2, EndOfLoop DEF WorkConserving
    <2>4. TypeOK' /\ Queues' /\ PermitsBalanced' /\ WithinLimits'
      BY <2>1, <2>2 DEF IInv, TypeOK, Queues, PermitsBalanced, WithinLimits
    <2> QED
      BY <2>3, <2>4 DEF IInv
  <1>5. ASSUME NEW t \in Tasks, Release(t)
        PROVE  IInv'
    <2> DEFINE r == repository[t]
    <2>1. /\ pc[t] = "holding" /\ pc' = [pc EXCEPT ![t] = "idle"]
          /\ globalInUse' = globalInUse - 1
          /\ repositoryInUse' = [repositoryInUse EXCEPT ![r] = @ - 1]
          /\ UNCHANGED <<repository, foreground, background, consecutiveForeground, sinceBackground>>
          /\ scheduling' = TRUE
      BY <1>5 DEF Release, WakeWaiters
    <2>2. /\ Cardinality(Holding') = Cardinality(Holding) - 1 /\ Cardinality(Holding) > 0
          /\ Cardinality(HoldingAt(r)) > 0
          /\ \A s \in Repositories :
                Cardinality(HoldingAt(s)') = Cardinality(HoldingAt(s)) - (IF s = r THEN 1 ELSE 0)
      BY <2>1, Released DEF IInv
    <2>3. globalInUse' \in Nat /\ globalInUse' <= GlobalLimit
      BY <2>1, <2>2, HoldingFinite DEF IInv, PermitsBalanced, WithinLimits
    <2>4. ASSUME NEW s \in Repositories
          PROVE  /\ repositoryInUse'[s] = repositoryInUse[s] - (IF s = r THEN 1 ELSE 0)
                 /\ repositoryInUse'[s] \in Nat
                 /\ repositoryInUse'[s] <= RepositoryLimit[s]
      <3>1. /\ repositoryInUse[s] \in Nat /\ RepositoryLimit[s] \in Nat
            /\ repositoryInUse[s] <= RepositoryLimit[s]
            /\ repositoryInUse[s] = Cardinality(HoldingAt(s))
        BY DEF IInv, TypeOK, WithinLimits, PermitsBalanced
      <3>2. repositoryInUse'[s] = repositoryInUse[s] - (IF s = r THEN 1 ELSE 0)
        BY <2>1, <3>1 DEF IInv, TypeOK
      <3>3. s = r => repositoryInUse[s] > 0
        BY <2>2, <3>1
      <3> QED
        BY <3>1, <3>2, <3>3
    <2>5. PermitsBalanced'
      BY <2>1, <2>2, <2>4 DEF IInv, PermitsBalanced
    <2>6. WithinLimits'
      BY <2>3, <2>4 DEF WithinLimits
    <2>7. Queues'
      <3>1. \A u \in Tasks : pc'[u] \in InQueue <=> pc[u] \in InQueue
        BY <2>1 DEF IInv, TypeOK, InQueue
      <3> QED
        BY <1>0, <2>1, <3>1, Unmoved DEF IInv, TypeOK, Queues
    <2>8. TypeOK'
      <3>1. pc' \in [Tasks -> PCs]
        BY <2>1 DEF IInv, TypeOK, PCs
      <3>2. repositoryInUse' \in [Repositories -> Nat]
        BY <2>1, <2>4 DEF IInv, TypeOK
      <3> QED
        BY <2>1, <2>3, <3>1, <3>2 DEF IInv, TypeOK
    <2>9. WorkConserving'
      BY <2>1 DEF WorkConserving
    <2> QED
      BY <2>5, <2>6, <2>7, <2>8, <2>9 DEF IInv
  <1>6. ASSUME NEW t \in Foreground, DropReceiver(t)
        PROVE  IInv'
    <2>1. /\ t \in Tasks /\ pc[t] = "waiting" /\ pc' = [pc EXCEPT ![t] = "dropped"]
          /\ UNCHANGED <<repository, foreground, background, globalInUse, repositoryInUse,
                         consecutiveForeground, scheduling, sinceBackground>>
      BY <1>0, <1>6 DEF DropReceiver
    <2>2. Holding' = Holding /\ \A s \in Repositories : HoldingAt(s)' = HoldingAt(s)
      BY <2>1, NoGrant DEF IInv, PCs
    <2>3. Queued' = Queued
      BY <2>1 DEF Queued, IInv, TypeOK
    <2>4. Queues'
      <3>1. \A u \in Tasks : pc'[u] \in InQueue <=> pc[u] \in InQueue
        BY <2>1 DEF IInv, TypeOK, InQueue
      <3> QED
        BY <1>0, <2>1, <3>1, Unmoved DEF IInv, TypeOK, Queues
    <2>5. TypeOK'
      BY <2>1 DEF IInv, TypeOK, PCs
    <2>6. PermitsBalanced' /\ WithinLimits'
      BY <2>1, <2>2 DEF IInv, PermitsBalanced, WithinLimits
    <2>7. WorkConserving'
      <3>1. \A u \in Queued : repository[u] \in Repositories
        BY DEF Queued, IInv, TypeOK
      <3> QED
        BY <2>1, <2>2, <2>3, <3>1 DEF IInv, WorkConserving
    <2> QED
      BY <2>4, <2>5, <2>6, <2>7 DEF IInv
  <1>7. CASE UNCHANGED vars
    <2>1. UNCHANGED <<Holding, Queued>> /\ \A r : HoldingAt(r)' = HoldingAt(r)
      BY <1>7 DEF vars, Holding, Queued, HoldingAt
    <2>2. TypeOK' /\ Queues' /\ PermitsBalanced' /\ WithinLimits' /\ WorkConserving'
      BY <1>7, <2>1 DEF vars, IInv, TypeOK, Queues, PermitsBalanced, WithinLimits, WorkConserving
    <2> QED
      BY <2>2 DEF IInv
  <1> QED
    BY <1>1, <1>2, <1>3, <1>4, <1>5, <1>6, <1>7 DEF Next, Schedule

LEMMA Invariant == Spec => []IInv
PROOF
  BY InitIInv, NextIInv, PTL DEF Spec

\* The types of the scheduler's state: no count becomes negative ("checked_sub",
\* upstream.rs:171-180).
THEOREM SchedulerTyped == Spec => []TypeOK
PROOF
  <1>1. IInv => TypeOK
    BY DEF IInv
  <1> QED
    BY <1>1, Invariant, PTL

\* The counts of permits are exactly the permits that exist (PermitsBalanced):
\* no order of acquire, release and dropped receivers leaks or invents one.
THEOREM SchedulerBalanced == Spec => []PermitsBalanced
PROOF
  <1>1. IInv => PermitsBalanced
    BY DEF IInv
  <1> QED
    BY <1>1, Invariant, PTL

\* Neither the global limit nor the limit of any repository is ever exceeded by
\* the requests in flight (LimitsRespected).
THEOREM SchedulerLimits == Spec => []LimitsRespected
PROOF
  <1>1. IInv => LimitsRespected
    BY DEF IInv, PermitsBalanced, WithinLimits, LimitsRespected
  <1> QED
    BY <1>1, Invariant, PTL

\* No wakeup is lost (WorkConserving): with the mutex free, whoever waits is kept
\* out by a limit that is reached.
THEOREM SchedulerConserves == Spec => []WorkConserving
PROOF
  <1>1. IInv => WorkConserving
    BY DEF IInv
  <1> QED
    BY <1>1, Invariant, PTL

-----------------------------------------------------------------------------
(* The turn of the refreshes                                                *)

\* The burst counts only downloads granted since the last refresh.
Earned == consecutiveForeground <= Burst /\ consecutiveForeground <= sinceBackground

LEMMA EarnedSteps == TypeOK /\ Earned /\ [Next]_vars => Earned'
PROOF
  <1> SUFFICES ASSUME TypeOK, Earned, [Next]_vars PROVE Earned'
    OBVIOUS
  <1>1. CASE GrantForeground
    <2>1. CASE UNCHANGED <<consecutiveForeground, sinceBackground>>
      BY <2>1 DEF Earned
    <2>2. CASE ~UNCHANGED <<consecutiveForeground, sinceBackground>>
      <3>1. /\ consecutiveForeground' = IF Passing THEN consecutiveForeground + 1 ELSE 0
            /\ sinceBackground' = Min({Burst, sinceBackground + 1})
            /\ Eligible(background) = {} \/ ~BackgroundTurn
        BY <1>1, <2>2 DEF GrantForeground
      <3>2. /\ {Burst, sinceBackground + 1} \in SUBSET Nat
            /\ consecutiveForeground \in Nat /\ sinceBackground \in Nat /\ Burst \in Nat
        BY LimitsAssumption DEF TypeOK
      <3>3. Min({Burst, sinceBackground + 1}) \in {Burst, sinceBackground + 1}
        BY <3>2, MinDef
      <3>4. Passing => consecutiveForeground < Burst
        BY <3>1, <3>2 DEF Passing, BackgroundTurn
      <3> QED
        BY <3>1, <3>2, <3>3, <3>4 DEF Earned
    <2> QED
      BY <2>1, <2>2
  <1>2. CASE GrantBackground
    <2>1. \/ UNCHANGED <<consecutiveForeground, sinceBackground>>
          \/ consecutiveForeground' = 0 /\ sinceBackground' = 0
      BY <1>2 DEF GrantBackground, ConsecutiveReset
    <2> QED
      BY <2>1, LimitsAssumption DEF Earned
  <1>3. CASE UNCHANGED <<consecutiveForeground, sinceBackground>>
    BY <1>3 DEF Earned
  <1> QED
    BY <1>1, <1>2, <1>3 DEF Next, Schedule, Acquire, Release, DropReceiver, EndSchedule, vars

\* A refresh passes an eligible first-time download only after Burst grants of
\* downloads since the last refresh (RefreshWaitsItsTurn).
THEOREM RefreshTurn == Spec => RefreshWaitsItsTurn
PROOF
  <1>1. Init => Earned
    BY LimitsAssumption DEF Init, Earned
  <1>2. ASSUME TypeOK, Earned, [Next]_vars
        PROVE  [Len(background') < Len(background) /\ Eligible(foreground) # {}
                  => sinceBackground = Burst]_vars
    <2> SUFFICES ASSUME Next, Len(background') < Len(background), Eligible(foreground) # {}
                 PROVE  sinceBackground = Burst
      BY <1>2
    <2>1. CASE GrantBackground
      <3>1. consecutiveForeground >= Burst
        BY <2>1 DEF GrantBackground, BackgroundTurn
      <3> QED
        BY <1>2, <3>1, LimitsAssumption DEF Earned, TypeOK
    <2>2. CASE background' = background
      BY <1>2, <2>2 DEF TypeOK
    <2>3. ASSUME NEW t \in Tasks, NEW r \in Repositories, Acquire(t, r), background' # background
          PROVE  FALSE
      <3>1. t \in Background /\ background' = Append(background, t)
        BY <2>3 DEF Acquire, IsForeground, Tasks
      <3>2. Len(background') = Len(background) + 1 /\ Len(background) \in Nat
        BY <1>2, <3>1, AppendProperties, LenProperties DEF TypeOK
      <3> QED
        BY <3>2
    <2> QED
      BY <2>1, <2>2, <2>3 DEF Next, Schedule, GrantForeground, EndSchedule, Release, DropReceiver
  <1> QED
    BY <1>1, <1>2, EarnedSteps, SchedulerTyped, PTL DEF Spec, RefreshWaitsItsTurn

-----------------------------------------------------------------------------
(* The order of the queues                                                  *)

\* Who is served in a step that grants to the waiter at EligibleIndex of a queue
\* stands there, and nobody before it asks for the same repository.
LEMMA ServedFirst ==
    ASSUME IInv, NEW G \in SUBSET Tasks, NEW q \in Seq(G), QueueOK(q, G, pc), Eligible(q) # {},
           Send(q[EligibleIndex(q)])
    PROVE  InOrder(q)
PROOF
  <1> DEFINE e == EligibleIndex(q)
  <1>1. e \in DOMAIN q /\ Room(repository[q[e]])
    BY EligibleFirst
  <1>2. \A i \in DOMAIN q : Room(repository[q[i]]) => e <= i
    <2>1. Eligible(q) \in SUBSET Nat
      <3>1. DOMAIN q = 1 .. Len(q) /\ Len(q) \in Nat
        OBVIOUS
      <3> QED
        BY <3>1 DEF Eligible
    <2> QED
      BY <2>1, MinDef DEF EligibleIndex, Eligible
  <1>3. \A i \in DOMAIN q : i \in Nat
    <2>1. DOMAIN q = 1 .. Len(q) /\ Len(q) \in Nat
      OBVIOUS
    <2> QED
      BY <2>1
  <1>4. Send(q[e])
    OBVIOUS
  <1> HIDE DEF e
  <1>5. \A t \in Tasks : Served(t) => t = q[e]
    BY <1>4 DEF Send, Served, IInv, TypeOK
  <1> SUFFICES ASSUME NEW i \in DOMAIN q, NEW j \in DOMAIN q, i < j, Served(q[j])
               PROVE  repository[q[i]] # repository[q[j]]
    BY DEF InOrder
  <1>6. q[j] \in Tasks
    OBVIOUS
  <1>7. j = e
    BY <1>1, <1>5, <1>6 DEF QueueOK
  <1>8. ~(e <= i)
    BY <1>1, <1>3, <1>7
  <1> QED
    BY <1>1, <1>2, <1>7, <1>8

\* Nobody of the other queue is served in that step, and nobody in any other.
LEMMA NotServed ==
    ASSUME NEW q, \A i \in DOMAIN q : ~Served(q[i])
    PROVE  InOrder(q)
PROOF
  BY DEF InOrder

\* Requests of one priority for one repository are served in their order
\* (FirstComeFirstServed): eligible_index takes the first waiter whose repository
\* has room, so it passes over a waiter only when that one's repository has none.
THEOREM SchedulerInOrder == Spec => FirstComeFirstServed
PROOF
  <1>1. ASSUME IInv, Next
        PROVE  InOrder(foreground) /\ InOrder(background)
    <2>1. /\ Foreground \subseteq Tasks /\ Background \subseteq Tasks
          /\ Foreground \cap Background = {}
      BY LimitsAssumption DEF Tasks
    <2>2. /\ foreground \in Seq(Foreground) /\ QueueOK(foreground, Foreground, pc)
          /\ background \in Seq(Background) /\ QueueOK(background, Background, pc)
          /\ pc \in [Tasks -> PCs]
      BY <1>1 DEF IInv, TypeOK, Queues
    <2>3. /\ \A i \in DOMAIN foreground : foreground[i] \in Foreground
          /\ \A i \in DOMAIN background : background[i] \in Background
      BY <2>2
    <2>4. CASE GrantForeground
      <3>1. Eligible(foreground) # {} /\ Send(foreground[EligibleIndex(foreground)])
        BY <2>4 DEF GrantForeground
      <3>2. EligibleIndex(foreground) \in DOMAIN foreground
        BY <2>2, <3>1, EligibleFirst
      <3>3. \A u \in Tasks : Served(u) => u = foreground[EligibleIndex(foreground)]
        BY <2>2, <3>1 DEF Send, Served
      <3>4. \A i \in DOMAIN background : ~Served(background[i])
        BY <2>1, <2>3, <3>2, <3>3
      <3> QED
        BY <1>1, <2>1, <2>2, <3>1, <3>4, ServedFirst, NotServed
    <2>5. CASE GrantBackground
      <3>1. Eligible(background) # {} /\ Send(background[EligibleIndex(background)])
        BY <2>5 DEF GrantBackground
      <3>2. EligibleIndex(background) \in DOMAIN background
        BY <2>2, <3>1, EligibleFirst
      <3>3. \A u \in Tasks : Served(u) => u = background[EligibleIndex(background)]
        BY <2>2, <3>1 DEF Send, Served
      <3>4. \A i \in DOMAIN foreground : ~Served(foreground[i])
        BY <2>1, <2>3, <3>2, <3>3
      <3> QED
        BY <1>1, <2>1, <2>2, <3>1, <3>4, ServedFirst, NotServed
    <2>6. CASE ~(GrantForeground \/ GrantBackground)
      <3>1. \A u \in Tasks : ~Served(u)
        <4>1. \/ \E t \in Tasks : \/ pc' = [pc EXCEPT ![t] = "waiting"]
                                  \/ pc' = [pc EXCEPT ![t] = "idle"]
                                  \/ pc' = [pc EXCEPT ![t] = "dropped"]
              \/ pc' = pc
          BY <1>1, <2>1, <2>6
             DEF Next, Schedule, Acquire, Release, DropReceiver, EndSchedule
        <4> QED
          BY <2>2, <4>1 DEF Served
      <3> QED
        BY <2>1, <2>3, <3>1, NotServed
    <2> QED
      BY <2>4, <2>5, <2>6
  <1>2. IInv /\ [Next]_vars => [InOrder(foreground) /\ InOrder(background)]_vars
    BY <1>1
  <1> QED
    BY <1>2, Invariant, PTL DEF Spec, FirstComeFirstServed

-----------------------------------------------------------------------------
(* The abstract specification                                               *)

LEMMA AdmissionStates ==
    /\ AdmissionOf("idle") = "idle" /\ AdmissionOf("dropped") = "idle"
    /\ AdmissionOf("waiting") = "waiting" /\ AdmissionOf("holding") = "admitted"
    /\ \A at \in PCs : AdmissionOf(at) = "admitted" => at = "holding"
PROOF
  BY DEF AdmissionOf, PCs

\* Admission counts as the scheduler does.
LEMMA SameCardinality == \A S : Abstract!Cardinality(S) = Cardinality(S)
PROOF
  BY DEF Abstract!Cardinality, Cardinality

\* A task that moves, moves in Admission.
LEMMA Moved ==
    ASSUME NEW t \in Tasks, NEW at, TypeOK, pc' = [pc EXCEPT ![t] = at]
    PROVE  AdmissionState' = [AdmissionState EXCEPT ![t] = AdmissionOf(at)]
PROOF
  BY DEF TypeOK, AdmissionState

\* Whom Admission has admitted are those who hold a permit.
LEMMA SameHolders ==
    ASSUME TypeOK
    PROVE  Abstract!Admitted = Holding
           /\ \A r \in Repositories : Abstract!AdmittedTo(r) = HoldingAt(r)
PROOF
  <1>1. Abstract!Admitted = Holding
    BY AdmissionStates DEF Abstract!Admitted, AdmissionState, Holding, TypeOK
  <1> QED
    BY <1>1 DEF Abstract!AdmittedTo, HoldingAt

\* A permit sent to a waiter is an Admit, to one that was dropped a stutter.
LEMMA SendRefines ==
    ASSUME IInv, NEW t \in Tasks, pc[t] \in InQueue, Room(repository[t]), GlobalRoom, Send(t),
           UNCHANGED repository
    PROVE  [Abstract!Next]_<<AdmissionState, repository>>
PROOF
  <1>1. TypeOK /\ repository[t] \in Repositories
    BY DEF IInv, TypeOK
  <1>2. CASE pc[t] = "waiting"
    <2>1. AdmissionState[t] = "waiting"
      BY <1>2, AdmissionStates DEF AdmissionState
    <2>2. AdmissionState' = [AdmissionState EXCEPT ![t] = "admitted"]
      BY <1>1, <1>2, Moved, AdmissionStates DEF Send
    <2>3. /\ Cardinality(Abstract!Admitted) < GlobalLimit
          /\ Cardinality(Abstract!AdmittedTo(repository[t])) < RepositoryLimit[repository[t]]
      BY <1>1, SameHolders DEF IInv, PermitsBalanced, GlobalRoom, Room
    <2>4. Abstract!Admit(t)
      BY <2>1, <2>2, <2>3, SameCardinality DEF Abstract!Admit
    <2> QED
      BY <2>4 DEF Abstract!Next
  <1>3. CASE pc[t] # "waiting"
    <2>1. pc[t] = "dropped" /\ pc' = [pc EXCEPT ![t] = "idle"]
      BY <1>3 DEF Send, InQueue
    <2>2. AdmissionState' = [AdmissionState EXCEPT ![t] = "idle"]
      BY <1>1, <2>1, Moved, AdmissionStates
    <2>3. AdmissionState' = AdmissionState
      BY <2>1, <2>2, AdmissionStates DEF AdmissionState
    <2> QED
      BY <2>3
  <1> QED
    BY <1>2, <1>3

LEMMA StepRefines ==
    IInv /\ [Next]_vars => [Abstract!Next]_<<AdmissionState, repository>>
PROOF
  <1> SUFFICES ASSUME IInv, [Next]_vars
               PROVE  [Abstract!Next]_<<AdmissionState, repository>>
    OBVIOUS
  <1>0. TypeOK /\ Foreground \subseteq Tasks /\ Background \subseteq Tasks
    BY DEF IInv, Tasks
  <1>1. ASSUME NEW t \in Tasks, NEW r \in Repositories, Acquire(t, r)
        PROVE  Abstract!Ask(t, r)
    <2>1. AdmissionState[t] = "idle"
      BY <1>1, AdmissionStates DEF Acquire, AdmissionState
    <2>2. AdmissionState' = [AdmissionState EXCEPT ![t] = "waiting"]
      BY <1>0, <1>1, Moved, AdmissionStates DEF Acquire
    <2> QED
      BY <1>1, <2>1, <2>2 DEF Acquire, Abstract!Ask
  <1>2. ASSUME NEW t \in Tasks, Release(t)
        PROVE  Abstract!GiveBack(t)
    <2>1. AdmissionState[t] = "admitted"
      BY <1>2, AdmissionStates DEF Release, AdmissionState
    <2>2. AdmissionState' = [AdmissionState EXCEPT ![t] = "idle"]
      BY <1>0, <1>2, Moved, AdmissionStates DEF Release
    <2> QED
      BY <1>2, <2>1, <2>2 DEF Release, Abstract!GiveBack
  <1>3. ASSUME NEW t \in Foreground, DropReceiver(t)
        PROVE  Abstract!GiveBack(t)
    <2>1. t \in Tasks /\ AdmissionState[t] = "waiting"
      BY <1>0, <1>3, AdmissionStates DEF DropReceiver, AdmissionState
    <2>2. AdmissionState' = [AdmissionState EXCEPT ![t] = "idle"]
      BY <1>0, <1>3, <2>1, Moved, AdmissionStates DEF DropReceiver
    <2> QED
      BY <1>3, <2>1, <2>2 DEF DropReceiver, Abstract!GiveBack
  <1>4. CASE GrantForeground
    <2> DEFINE i == EligibleIndex(foreground)
    <2>1. i \in DOMAIN foreground /\ Room(repository[foreground[i]])
      BY <1>0, <1>4, EligibleFirst DEF GrantForeground, TypeOK
    <2>2. foreground[i] \in Tasks /\ pc[foreground[i]] \in InQueue
      BY <1>0, <2>1 DEF IInv, TypeOK, Queues, QueueOK
    <2>3. GlobalRoom /\ Send(foreground[i]) /\ UNCHANGED repository
      BY <1>4 DEF GrantForeground
    <2> HIDE DEF i
    <2> QED
      BY <2>1, <2>2, <2>3, SendRefines
  <1>5. CASE GrantBackground
    <2> DEFINE i == EligibleIndex(background)
    <2>1. i \in DOMAIN background /\ Room(repository[background[i]])
      BY <1>0, <1>5, EligibleFirst DEF GrantBackground, TypeOK
    <2>2. background[i] \in Tasks /\ pc[background[i]] \in InQueue
      BY <1>0, <2>1 DEF IInv, TypeOK, Queues, QueueOK
    <2>3. GlobalRoom /\ Send(background[i]) /\ UNCHANGED repository
      BY <1>5 DEF GrantBackground
    <2> HIDE DEF i
    <2> QED
      BY <2>1, <2>2, <2>3, SendRefines
  <1>6. CASE UNCHANGED <<pc, repository>>
    BY <1>6 DEF AdmissionState
  <1>7. CASE EndSchedule \/ UNCHANGED vars
    BY <1>6, <1>7 DEF EndSchedule, vars
  <1>8. (\E t \in Tasks : \/ \E r \in Repositories : Abstract!Ask(t, r)
                          \/ Abstract!GiveBack(t))
        => Abstract!Next
    BY DEF Abstract!Next
  <1> QED
    BY <1>0, <1>1, <1>2, <1>3, <1>4, <1>5, <1>7, <1>8 DEF Next, Schedule

\* The scheduler implements Admission (ImplementsAdmission): its queues, its burst,
\* its counts and the waiters whose receiver is gone show only in the order in which
\* it admits whom the limits admit.
THEOREM RefinesAdmission == Spec => ImplementsAdmission
PROOF
  <1>1. Init => Abstract!Init
    BY AdmissionStates DEF Init, Abstract!Init, AdmissionState
  <1> QED
    BY <1>1, StepRefines, Invariant, PTL DEF Spec, ImplementsAdmission, Abstract!Spec
===============================================================================
