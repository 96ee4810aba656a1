---------------------- MODULE ImapCommandQueue_proofs ----------------------
(***************************************************************************)
(* What enqueue does to a queue of any length, and that a queue driven by  *)
(* any calls holds what the log of requests says should wait.              *)
(***************************************************************************)
EXTENDS MCImapCommandQueue, FiniteSetTheorems, TLAPS

\* The elements kept by erase_if, and their ranks.
Kept(q, t) == {i \in DOMAIN q : q[i] # t}
Rank(q, t, i) == Cardinality({j \in 1..i : q[j] # t})

\* Ranks are counted from 1 and grow from each kept element to the next.
LEMMA RankProperties ==
  ASSUME NEW S, NEW q \in Seq(S), NEW t
  PROVE  /\ IsFiniteSet(Kept(q, t))
         /\ Cardinality(Kept(q, t)) \in Nat
         /\ \A i \in Kept(q, t) : Rank(q, t, i) \in 1..Cardinality(Kept(q, t))
         /\ \A i, j \in Kept(q, t) : i < j => Rank(q, t, i) < Rank(q, t, j)
<1> DEFINE Upto(i) == {j \in 1..i : q[j] # t}
<1>1. \A i \in Nat : IsFiniteSet(1..i)
  BY FS_Interval
<1>2. DOMAIN q = 1..Len(q) /\ Len(q) \in Nat
  OBVIOUS
<1>3. Kept(q, t) = Upto(Len(q))
  BY <1>2 DEF Kept
<1>4. \A i \in Nat : IsFiniteSet(Upto(i)) /\ Cardinality(Upto(i)) \in Nat
  <2> SUFFICES ASSUME NEW i \in Nat
               PROVE  IsFiniteSet(Upto(i)) /\ Cardinality(Upto(i)) \in Nat
    OBVIOUS
  <2>1. Upto(i) \in SUBSET (1..i)
    OBVIOUS
  <2>2. IsFiniteSet(Upto(i))
    BY <1>1, <2>1, FS_Subset
  <2> QED  BY <2>2, FS_CardinalityType
<1>5. ASSUME NEW i \in Nat, NEW j \in Nat, i <= j
      PROVE  Cardinality(Upto(i)) <= Cardinality(Upto(j))
  <2>1. Upto(i) \in SUBSET Upto(j)
    BY <1>5
  <2> QED  BY <1>4, <2>1, FS_Subset
<1>6. ASSUME NEW i \in Kept(q, t)
      PROVE  Rank(q, t, i) \in 1..Cardinality(Kept(q, t))
  <2>1. i \in 1..Len(q) /\ q[i] # t
    BY <1>2 DEF Kept
  <2>2. i \in Upto(i)
    BY <2>1
  <2>3. Cardinality(Upto(i)) # 0
    BY <2>1, <2>2, <1>4, FS_EmptySet
  <2>4. Cardinality(Upto(i)) <= Cardinality(Upto(Len(q)))
    BY <2>1, <1>2, <1>5
  <2> QED  BY <2>1, <2>3, <2>4, <1>2, <1>3, <1>4 DEF Rank
<1>7. ASSUME NEW i \in Kept(q, t), NEW j \in Kept(q, t), i < j
      PROVE  Rank(q, t, i) < Rank(q, t, j)
  <2>1. i \in 1..Len(q) /\ j \in 1..Len(q) /\ q[j] # t
    BY <1>2 DEF Kept
  <2>2. Upto(i) \in SUBSET Upto(j)
    BY <1>7, <2>1
  <2>3. j \in Upto(j) /\ j \notin Upto(i)
    BY <1>7, <2>1
  <2>4. Cardinality(Upto(i)) <= Cardinality(Upto(j))
    BY <1>5, <1>7, <2>1
  <2>5. IsFiniteSet(Upto(j)) /\ Upto(i) # Upto(j)
    BY <1>4, <2>1, <2>3
  <2>6. Cardinality(Upto(i)) # Cardinality(Upto(j))
    BY ONLY <2>2, <2>5, FS_Subset
  <2>7. i \in Nat /\ j \in Nat
    BY <2>1
  <2>8. Cardinality(Upto(i)) \in Nat /\ Cardinality(Upto(j)) \in Nat
    BY ONLY <2>7, <1>4
  <2>9. Cardinality(Upto(i)) < Cardinality(Upto(j))
    BY ONLY <2>4, <2>6, <2>8
  <2> QED  BY <2>9 DEF Rank
<1> QED  BY <1>2, <1>3, <1>4, <1>6, <1>7

\* Every k up to the number of kept elements is the rank of one of them.
LEMMA KeptPositionProperties ==
  ASSUME NEW S, NEW q \in Seq(S), NEW t,
         NEW k \in 1..Cardinality(Kept(q, t))
  PROVE  /\ KeptPosition(q, t, k) \in Kept(q, t)
         /\ Rank(q, t, KeptPosition(q, t, k)) = k
<1> DEFINE K == Kept(q, t)
           R == [i \in K |-> Rank(q, t, i)]
           n == Cardinality(K)
<1>1. /\ IsFiniteSet(K) /\ n \in Nat
      /\ \A i \in K : Rank(q, t, i) \in 1..n
      /\ \A i, j \in K : i < j => Rank(q, t, i) < Rank(q, t, j)
  BY RankProperties
<1>2. K \subseteq Nat
  BY DEF Kept
<1>3. IsFiniteSet(1..n) /\ Cardinality(1..n) = n
  BY <1>1, FS_Interval
<1>4. R \in Injection(K, 1..n)
  <2>1. R \in [K -> 1..n]
    BY <1>1
  <2>2. ASSUME NEW i \in K, NEW j \in K, R[i] = R[j]
        PROVE  i = j
    <3>1. Rank(q, t, i) = Rank(q, t, j) /\ Rank(q, t, i) \in Nat
      BY <2>2, <1>1
    <3>2. ~(i < j) /\ ~(j < i)
      BY <3>1, <1>1
    <3> QED  BY <3>2, <1>2
  <2> QED  BY <2>1, <2>2 DEF Injection, IsInjective
<1>5. R \in Surjection(K, 1..n)
  BY <1>1, <1>3, <1>4, FS_Injection
<1>6. PICK i \in K : R[i] = k
  BY <1>5 DEF Surjection
<1>7. i \in DOMAIN q /\ q[i] # t /\ Cardinality({j \in 1..i : q[j] # t}) = k
  BY <1>6 DEF Kept, Rank
<1> DEFINE p == KeptPosition(q, t, k)
<1>8. p \in DOMAIN q /\ q[p] # t /\ Cardinality({j \in 1..p : q[j] # t}) = k
  BY <1>7 DEF KeptPosition
<1> QED  BY <1>8 DEF Kept, Rank

\* std::erase_if removes every element equal to t and nothing else, and keeps
\* the order of the rest: ImapCommandQueue::enqueue loses no operation of
\* another type when it coalesces.
THEOREM WithoutProperties ==
  ASSUME NEW S, NEW q \in Seq(S), NEW t
  PROVE  /\ Without(q, t) \in Seq(S)
         /\ DOMAIN Without(q, t) = 1..Cardinality(Kept(q, t))
         /\ \A k \in DOMAIN Without(q, t) :
               /\ KeptPosition(q, t, k) \in Kept(q, t)
               /\ Without(q, t)[k] = q[KeptPosition(q, t, k)]
               /\ Without(q, t)[k] # t
         /\ \A j, k \in DOMAIN Without(q, t) :
               j < k => KeptPosition(q, t, j) < KeptPosition(q, t, k)
         /\ \A i \in Kept(q, t) : \E k \in DOMAIN Without(q, t) :
               KeptPosition(q, t, k) = i
<1> DEFINE K == Kept(q, t)
           n == Cardinality(K)
           W == Without(q, t)
           P(k) == KeptPosition(q, t, k)
<1>1. /\ IsFiniteSet(K) /\ n \in Nat
      /\ \A i \in K : Rank(q, t, i) \in 1..n
      /\ \A i, j \in K : i < j => Rank(q, t, i) < Rank(q, t, j)
  BY RankProperties
<1>2. \A k \in 1..n : P(k) \in K /\ Rank(q, t, P(k)) = k
  BY KeptPositionProperties
<1>3. W = [k \in 1..n |-> q[P(k)]]
  BY DEF Without, Kept
<1>4. \A k \in 1..n : q[P(k)] \in S /\ q[P(k)] # t
  BY <1>2 DEF Kept
<1>5. W \in Seq(S) /\ DOMAIN W = 1..n
  BY <1>1, <1>3, <1>4
<1>6. K \subseteq Nat
  BY DEF Kept
<1>7. ASSUME NEW i \in K, NEW j \in K, Rank(q, t, i) = Rank(q, t, j)
      PROVE  i = j
  <2>1. Rank(q, t, i) \in Nat /\ ~(i < j) /\ ~(j < i)
    BY <1>1, <1>7
  <2> QED  BY <2>1, <1>6
<1>8. ASSUME NEW j \in 1..n, NEW k \in 1..n, j < k
      PROVE  P(j) < P(k)
  <2>1. P(j) \in K /\ P(k) \in K /\ Rank(q, t, P(j)) = j /\ Rank(q, t, P(k)) = k
    BY <1>2
  <2>2. P(j) \in Nat /\ P(k) \in Nat
    BY <2>1, <1>6
  <2>3. P(j) # P(k)
    BY <2>1, <1>8
  <2>4. ~(P(k) < P(j))
    BY <2>1, <1>1, <1>8
  <2> QED  BY <2>2, <2>3, <2>4
<1>9. ASSUME NEW i \in K
      PROVE  \E k \in 1..n : P(k) = i
  <2>1. Rank(q, t, i) \in 1..n
    BY <1>1
  <2>2. P(Rank(q, t, i)) \in K /\ Rank(q, t, P(Rank(q, t, i))) = Rank(q, t, i)
    BY <2>1, <1>2
  <2>3. P(Rank(q, t, i)) = i
    BY <2>2, <1>7
  <2> QED  BY <2>1, <2>3
<1> QED  BY <1>2, <1>3, <1>4, <1>5, <1>8, <1>9

\* The queue enqueue returns holds operations only, and is never empty.
THEOREM EnqueueType ==
  ASSUME NEW q \in Seq(ImapOpType), NEW op \in ImapOpType
  PROVE  Enqueue(q, op) \in Seq(ImapOpType) /\ Enqueue(q, op) # <<>>
<1>1. Without(q, op) \in Seq(ImapOpType)
  BY WithoutProperties
<1>2. CASE op = "SelectMailbox"
  <2>1. Enqueue(q, op) = <<op>>
    BY <1>2 DEF Enqueue, Coalesced
  <2> QED  BY <2>1
<1>3. CASE op # "SelectMailbox" /\ op \in Coalesced
  BY <1>1, <1>3 DEF Enqueue
<1>4. CASE op # "SelectMailbox" /\ op \notin Coalesced
  BY <1>4 DEF Enqueue
<1> QED  BY <1>2, <1>3, <1>4

\* ImapCommandQueue::enqueue keeps the queue coalesced whatever the queue holds
\* and whatever is enqueued: the last LoadEmail and the last FetchMailboxPage
\* replace the earlier ones, and a SelectMailbox drops all before it.
THEOREM EnqueueCoalesces ==
  ASSUME NEW q \in Seq(ImapOpType), NEW op \in ImapOpType, QueueCoalesced(q)
  PROVE  QueueCoalesced(Enqueue(q, op))
<1>1. CASE op = "SelectMailbox"
  <2>1. Enqueue(q, op) = <<op>>
    BY <1>1 DEF Enqueue, Coalesced
  <2>2. DOMAIN <<op>> = {1}
    OBVIOUS
  <2> QED  BY <2>1, <2>2 DEF QueueCoalesced
<1>2. CASE op # "SelectMailbox" /\ op \in Coalesced
  <2> DEFINE W == Without(q, op)
             P(k) == KeptPosition(q, op, k)
  <2>1. W \in Seq(ImapOpType)
    BY WithoutProperties
  <2>2. \A k \in DOMAIN W : P(k) \in DOMAIN q /\ W[k] = q[P(k)] /\ W[k] # op
    <3>1. \A k \in DOMAIN W : P(k) \in Kept(q, op) /\ W[k] = q[P(k)] /\ W[k] # op
      BY WithoutProperties
    <3> HIDE DEF W, P
    <3> QED  BY <3>1 DEF Kept
  <2>3. \A j, k \in DOMAIN W : j < k => P(j) < P(k)
    BY WithoutProperties
  <2>4. Enqueue(q, op) = Append(W, op)
    BY <1>2 DEF Enqueue
  <2>5. ASSUME NEW j \in DOMAIN W, NEW k \in DOMAIN W,
               W[j] = W[k], W[j] \in Coalesced
        PROVE  j = k
    <3>1. P(j) = P(k)
      BY <2>2, <2>5 DEF QueueCoalesced
    <3>2. j \in Nat /\ k \in Nat /\ P(j) \in Nat
      BY <2>1, <2>2
    <3> QED  BY <2>3, <3>1, <3>2
  <2>6. ASSUME NEW k \in DOMAIN W, W[k] = "SelectMailbox"
        PROVE  k = 1
    <3>1. P(k) = 1
      BY <2>2, <2>6 DEF QueueCoalesced
    <3>2. 1 \in DOMAIN W /\ P(1) \in DOMAIN q /\ k \in Nat /\ k >= 1
      BY <2>1, <2>2
    <3>3. P(1) >= 1
      BY <3>2
    <3> QED  BY <2>3, <3>1, <3>2, <3>3
  <2> HIDE DEF W, P
  <2>7. \A i \in DOMAIN Append(W, op) :
          \/ i \in DOMAIN W /\ Append(W, op)[i] = W[i]
          \/ i = Len(W) + 1 /\ Append(W, op)[i] = op
    BY <2>1
  <2>8. \A k \in DOMAIN W : W[k] # op
    BY <2>2
  <2> QED  BY <1>2, <2>4, <2>5, <2>6, <2>7, <2>8 DEF QueueCoalesced
<1>3. CASE op # "SelectMailbox" /\ op \notin Coalesced
  <2>1. \A i \in DOMAIN Append(q, op) :
          \/ i \in DOMAIN q /\ Append(q, op)[i] = q[i]
          \/ i = Len(q) + 1 /\ Append(q, op)[i] = op
    OBVIOUS
  <2> QED  BY <1>3, <2>1 DEF Enqueue, QueueCoalesced
<1> QED  BY <1>1, <1>2, <1>3

\* tryPop keeps the queue coalesced.
LEMMA TailCoalesced ==
  ASSUME NEW q \in Seq(ImapOpType), q # <<>>, QueueCoalesced(q)
  PROVE  /\ Head(q) \in ImapOpType
         /\ Tail(q) \in Seq(ImapOpType)
         /\ QueueCoalesced(Tail(q))
<1>1. /\ Head(q) \in ImapOpType /\ Tail(q) \in Seq(ImapOpType)
      /\ Len(q) \in Nat /\ Len(Tail(q)) = Len(q) - 1
      /\ \A i \in 1..Len(q)-1 : Tail(q)[i] = q[i+1]
      /\ DOMAIN q = 1..Len(q) /\ DOMAIN Tail(q) = 1..Len(q)-1
  OBVIOUS
<1>2. \A i, j \in DOMAIN Tail(q) :
        Tail(q)[i] = Tail(q)[j] /\ Tail(q)[i] \in Coalesced => i = j
  <2> SUFFICES ASSUME NEW i \in 1..Len(q)-1, NEW j \in 1..Len(q)-1,
                      q[i+1] = q[j+1], q[i+1] \in Coalesced
               PROVE  i = j
    BY <1>1
  <2>1. i + 1 = j + 1
    BY <1>1 DEF QueueCoalesced
  <2> QED  BY <2>1
<1>3. \A i \in DOMAIN Tail(q) : Tail(q)[i] = "SelectMailbox" => i = 1
  <2> SUFFICES ASSUME NEW i \in 1..Len(q)-1, q[i+1] = "SelectMailbox"
               PROVE  FALSE
    BY <1>1
  <2> QED  BY <1>1 DEF QueueCoalesced
<1> QED  BY <1>1, <1>2, <1>3 DEF QueueCoalesced

-----------------------------------------------------------------------------
(* A finite set of positions in ascending order.                           *)

\* The positions in W up to i, and the k-th position of W.
UpTo(W, i) == {j \in W : j <= i}
Place(W, k) == CHOOSE i \in W : Cardinality(UpTo(W, i)) = k

LEMMA UpToRanks ==
  ASSUME NEW W \in SUBSET Nat, IsFiniteSet(W)
  PROVE  /\ Cardinality(W) \in Nat
         /\ \A i \in W : Cardinality(UpTo(W, i)) \in 1..Cardinality(W)
         /\ \A i, j \in W : i < j => Cardinality(UpTo(W, i)) < Cardinality(UpTo(W, j))
         /\ \A k \in 1..Cardinality(W) : \E i \in W : Cardinality(UpTo(W, i)) = k
<1> DEFINE n == Cardinality(W)
           rank == [i \in W |-> Cardinality(UpTo(W, i))]
<1>1. n \in Nat
  BY FS_CardinalityType
<1>2. ASSUME NEW i \in W
      PROVE  IsFiniteSet(UpTo(W, i)) /\ Cardinality(UpTo(W, i)) \in 1..n
  <2>1. UpTo(W, i) \in SUBSET W /\ i \in UpTo(W, i)
    BY DEF UpTo
  <2>2. IsFiniteSet(UpTo(W, i)) /\ Cardinality(UpTo(W, i)) <= n
    BY <2>1, FS_Subset
  <2>3. Cardinality(UpTo(W, i)) \in Nat /\ Cardinality(UpTo(W, i)) # 0
    BY <2>1, <2>2, FS_CardinalityType, FS_EmptySet
  <2> QED  BY <1>1, <2>2, <2>3
<1>3. ASSUME NEW i \in W, NEW j \in W, i < j
      PROVE  Cardinality(UpTo(W, i)) < Cardinality(UpTo(W, j))
  <2>1. UpTo(W, i) \in SUBSET UpTo(W, j) /\ j \in UpTo(W, j) /\ j \notin UpTo(W, i)
    <3>1. \A x \in W : x \in Nat /\ i \in Nat /\ j \in Nat /\ (x <= i => x <= j) /\ ~(j <= i) /\ j <= j
      BY <1>3
    <3> QED  BY <3>1 DEF UpTo
  <2>2. IsFiniteSet(UpTo(W, j)) /\ UpTo(W, i) # UpTo(W, j)
    BY <1>2, <2>1
  <2>3. /\ Cardinality(UpTo(W, i)) <= Cardinality(UpTo(W, j))
        /\ Cardinality(UpTo(W, j)) # Cardinality(UpTo(W, i))
    BY <2>1, <2>2, FS_Subset
  <2> QED  BY <1>1, <1>2, <2>3
<1>4. rank \in Injection(W, 1..n)
  <2>1. rank \in [W -> 1..n]
    BY <1>2
  <2>2. ASSUME NEW i \in W, NEW j \in W, rank[i] = rank[j] PROVE i = j
    <3>1. Cardinality(UpTo(W, i)) = Cardinality(UpTo(W, j)) /\ Cardinality(UpTo(W, i)) \in Nat
      BY <1>1, <1>2, <2>2
    <3>2. ~(i < j) /\ ~(j < i)
      BY <1>3, <3>1
    <3> QED  BY <3>2
  <2> HIDE DEF rank
  <2> QED  BY <2>1, <2>2 DEF Injection, IsInjective
<1>5. IsFiniteSet(1..n) /\ Cardinality(1..n) = n
  BY <1>1, FS_Interval
<1>6. rank \in Surjection(W, 1..n)
  <2> HIDE DEF rank
  <2> QED  BY <1>4, <1>5, FS_Injection
<1>7. ASSUME NEW k \in 1..n PROVE \E i \in W : Cardinality(UpTo(W, i)) = k
  <2>1. PICK i \in W : rank[i] = k
    BY <1>6 DEF Surjection
  <2> QED  BY <2>1
<1> QED  BY <1>1, <1>2, <1>3, <1>7

\* The places run through the set in ascending order.
LEMMA PlacesAscend ==
  ASSUME NEW W \in SUBSET Nat, IsFiniteSet(W), NEW n, n = Cardinality(W)
  PROVE  /\ n \in Nat
         /\ \A k \in 1..n : Place(W, k) \in W /\ Cardinality(UpTo(W, Place(W, k))) = k
         /\ \A j, k \in 1..n : j < k => Place(W, j) < Place(W, k)
         /\ \A i \in W : \E k \in 1..n : Place(W, k) = i
<1>1. /\ n \in Nat
      /\ \A i \in W : Cardinality(UpTo(W, i)) \in 1..n
      /\ \A i, j \in W : i < j => Cardinality(UpTo(W, i)) < Cardinality(UpTo(W, j))
      /\ \A k \in 1..n : \E i \in W : Cardinality(UpTo(W, i)) = k
  BY UpToRanks
<1>2. ASSUME NEW k \in 1..n PROVE Place(W, k) \in W /\ Cardinality(UpTo(W, Place(W, k))) = k
  <2>1. \E i \in W : Cardinality(UpTo(W, i)) = k
    BY <1>1
  <2> QED  BY <2>1 DEF Place
<1>3. ASSUME NEW j \in 1..n, NEW k \in 1..n, j < k PROVE Place(W, j) < Place(W, k)
  <2>1. PICK a \in W, b \in W : a = Place(W, j) /\ b = Place(W, k)
    BY <1>2
  <2>2. Cardinality(UpTo(W, a)) = j /\ Cardinality(UpTo(W, b)) = k
    BY <1>2, <2>1
  <2>3. ~(b < a) /\ a # b /\ a \in Nat /\ b \in Nat
    BY <1>1, <1>3, <2>2
  <2>4. a < b
    BY <2>3
  <2> QED  BY <2>1, <2>4
<1>4. ASSUME NEW i \in W PROVE \E k \in 1..n : Place(W, k) = i
  <2>1. PICK k \in 1..n : k = Cardinality(UpTo(W, i))
    BY <1>1
  <2>2. PICK a \in W : a = Place(W, k) /\ Cardinality(UpTo(W, a)) = k
    BY <1>2
  <2>3. ~(a < i) /\ ~(i < a) /\ a \in Nat /\ i \in Nat
    BY <1>1, <2>1, <2>2
  <2>4. a = i
    BY <2>3
  <2> QED  BY <2>2, <2>4
<1> QED  BY <1>1, <1>2, <1>3, <1>4

\* There is one way only to run through a set in ascending order.
LEMMA AscendingIsPlaces ==
  ASSUME NEW W \in SUBSET Nat, IsFiniteSet(W), NEW m \in Nat, NEW s \in [1..m -> W],
         \A j, k \in 1..m : j < k => s[j] < s[k],
         \A i \in W : \E k \in 1..m : s[k] = i
  PROVE  Cardinality(W) = m /\ \A k \in 1..m : Place(W, k) = s[k]
<1>1. \A j \in 1..m, k \in 1..m : s[j] = s[k] => j = k
  <2> SUFFICES ASSUME NEW j \in 1..m, NEW k \in 1..m, s[j] = s[k] PROVE j = k
    OBVIOUS
  <2>1. s[j] \in W
    OBVIOUS
  <2>2. PICK a \in W : a = s[j] /\ a = s[k]
    BY <2>1
  <2>3. a \in Nat /\ ~(a < a)
    OBVIOUS
  <2>4. ~(s[j] < s[k]) /\ ~(s[k] < s[j])
    BY <2>2, <2>3
  <2>5. ~(j < k) /\ ~(k < j)
    BY <2>4
  <2> QED  BY <2>5
<1>2. ASSUME NEW k \in 1..m PROVE Cardinality(UpTo(W, s[k])) = k
  <2> DEFINE f == [j \in 1..k |-> s[j]]
  <2>1. k \in Nat /\ \A j \in 1..k : j \in 1..m /\ (j < k \/ j = k)
    OBVIOUS
  <2>2. ASSUME NEW j \in 1..k PROVE s[j] \in UpTo(W, s[k])
    <3>1. PICK a \in Nat, b \in Nat : a = s[j] /\ b = s[k] /\ a \in W /\ b \in W
      BY <2>1
    <3>2. a < b \/ a = b
      BY <2>1, <3>1
    <3>3. a <= b
      BY <3>2
    <3> QED  BY <3>1, <3>3 DEF UpTo
  <2>3. ASSUME NEW i \in UpTo(W, s[k]) PROVE \E j \in 1..k : s[j] = i
    <3>1. i \in W /\ i <= s[k] /\ i \in Nat /\ s[k] \in Nat
      BY DEF UpTo
    <3>2. PICK j \in 1..m : s[j] = i
      BY <3>1
    <3>3. ~(s[k] < s[j])
      BY <3>1, <3>2
    <3>4. ~(k < j)
      BY <3>3
    <3>5. j \in 1..k
      BY <3>4
    <3> QED  BY <3>2, <3>5
  <2>4. f \in [1..k -> UpTo(W, s[k])]
    BY <2>2
  <2>5. f \in Injection(1..k, UpTo(W, s[k]))
    <3>1. \A a, b \in 1..k : f[a] = f[b] => a = b
      BY <1>1, <2>1
    <3> HIDE DEF f
    <3> QED  BY <2>4, <3>1 DEF Injection, IsInjective
  <2>6. f \in Surjection(1..k, UpTo(W, s[k]))
    <3>1. \A i \in UpTo(W, s[k]) : \E j \in 1..k : f[j] = i
      BY <2>3
    <3> HIDE DEF f
    <3> QED  BY <2>4, <3>1 DEF Surjection
  <2>7. ExistsBijection(1..k, UpTo(W, s[k]))
    <3> HIDE DEF f
    <3> QED  BY <2>5, <2>6 DEF ExistsBijection, Bijection
  <2> QED  BY <2>1, <2>7, FS_CountingElements
<1>3. PICK n : n = Cardinality(W)
  OBVIOUS
<1>4. /\ n \in Nat
      /\ \A k \in 1..n : Place(W, k) \in W /\ Cardinality(UpTo(W, Place(W, k))) = k
      /\ \A i \in W : \E k \in 1..n : Place(W, k) = i
  BY <1>3, PlacesAscend
<1>5. ASSUME NEW k \in 1..m PROVE k \in 1..n /\ Place(W, k) = s[k]
  <2>1. PICK j \in 1..n : Place(W, j) = s[k]
    BY <1>4
  <2>2. j = k
    BY <1>2, <1>4, <2>1
  <2> QED  BY <2>1, <2>2
<1>6. ASSUME NEW k \in 1..n PROVE k \in 1..m
  <2>1. PICK j \in 1..m : s[j] = Place(W, k)
    BY <1>4
  <2>2. j = k
    BY <1>2, <1>4, <2>1
  <2> QED  BY <2>2
<1>7. n = m
  <2>1. m # 0 => m \in 1..n
    BY <1>5
  <2>2. n # 0 => n \in 1..m
    BY <1>4, <1>6
  <2> QED  BY <1>4, <2>1, <2>2
<1> QED  BY <1>3, <1>5, <1>7

-----------------------------------------------------------------------------
(* The queue beside a log of all that was enqueued.                        *)

\* The positions in the log of what has been neither taken nor replaced.
Awaited(asked, gone) == {i \in DOMAIN asked \ gone : Current(asked, i)}

HoldsAwaited(queue, asked, gone) ==
  queue = [k \in 1..Cardinality(Awaited(asked, gone)) |-> asked[Place(Awaited(asked, gone), k)]]

\* A queue of m operations stands at the positions s, in order, and those are
\* all of W.
Listed(queue, asked, W, m, s) ==
  /\ \A j, k \in 1..m : j < k => s[j] < s[k]
  /\ \A i \in W : \E k \in 1..m : s[k] = i
  /\ queue = [k \in 1..m |-> asked[s[k]]]
  /\ queue \in Seq(ImapOpType) /\ Len(queue) = m

LEMMA AppendedTo ==
  ASSUME NEW q \in Seq(ImapOpType), NEW op \in ImapOpType
  PROVE  /\ Append(q, op) \in Seq(ImapOpType)
         /\ Len(Append(q, op)) = Len(q) + 1
         /\ Append(q, op)[Len(q) + 1] = op
         /\ \A k \in 1..Len(q) : Append(q, op)[k] = q[k]
  OBVIOUS

LEMMA TailOf ==
  ASSUME NEW q \in Seq(ImapOpType), q # <<>>
  PROVE  /\ Tail(q) \in Seq(ImapOpType)
         /\ Len(Tail(q)) = Len(q) - 1
         /\ \A k \in 1..Len(Tail(q)) : Tail(q)[k] = q[k + 1]
  OBVIOUS

LEMMA SeqIsFunction ==
  ASSUME NEW q \in Seq(ImapOpType)
  PROVE  q = [k \in 1..Len(q) |-> q[k]]
  OBVIOUS

LEMMA AwaitedType ==
  ASSUME NEW asked \in Seq(ImapOpType), NEW gone
  PROVE  /\ Awaited(asked, gone) \in SUBSET (1..Len(asked))
         /\ Awaited(asked, gone) \in SUBSET Nat
         /\ IsFiniteSet(Awaited(asked, gone))
<1>1. Len(asked) \in Nat /\ DOMAIN asked = 1..Len(asked)
  OBVIOUS
<1>2. IsFiniteSet(1..Len(asked))
  BY <1>1, FS_Interval
<1>3. Awaited(asked, gone) \in SUBSET (1..Len(asked)) /\ 1..Len(asked) \in SUBSET Nat
  BY <1>1 DEF Awaited
<1> QED  BY <1>2, <1>3, FS_Subset

\* A queue holds what is awaited if its elements are found at ascending
\* positions of the log that are all those awaited.
LEMMA HoldsIf ==
  ASSUME NEW asked \in Seq(ImapOpType), NEW gone, NEW m \in Nat,
         NEW s \in [1..m -> Awaited(asked, gone)],
         \A j, k \in 1..m : j < k => s[j] < s[k],
         \A i \in Awaited(asked, gone) : \E k \in 1..m : s[k] = i,
         NEW queue, queue = [k \in 1..m |-> asked[s[k]]]
  PROVE  HoldsAwaited(queue, asked, gone)
<1>1. PICK W \in SUBSET Nat : W = Awaited(asked, gone) /\ IsFiniteSet(W)
  BY AwaitedType
<1>2. Cardinality(W) = m /\ \A k \in 1..m : Place(W, k) = s[k]
  BY <1>1, AscendingIsPlaces
<1> QED  BY <1>1, <1>2 DEF HoldsAwaited

\* And the other way round.
LEMMA HoldsThen ==
  ASSUME NEW asked \in Seq(ImapOpType), NEW gone, NEW queue, HoldsAwaited(queue, asked, gone)
  PROVE  \E m \in Nat : \E s \in [1..m -> Awaited(asked, gone)] :
           Listed(queue, asked, Awaited(asked, gone), m, s)
<1>1. PICK W \in SUBSET Nat : W = Awaited(asked, gone) /\ IsFiniteSet(W)
  BY AwaitedType
<1>2. PICK n : n = Cardinality(W)
  OBVIOUS
<1>3. /\ n \in Nat
      /\ \A k \in 1..n : Place(W, k) \in W
      /\ \A j, k \in 1..n : j < k => Place(W, j) < Place(W, k)
      /\ \A i \in W : \E k \in 1..n : Place(W, k) = i
  BY <1>1, <1>2, PlacesAscend
<1> DEFINE s == [k \in 1..n |-> Place(W, k)]
<1>4. s \in [1..n -> W]
  BY <1>3
<1>5. (\A j, k \in 1..n : j < k => s[j] < s[k]) /\ \A i \in W : \E k \in 1..n : s[k] = i
  BY <1>3
<1>6. queue = [k \in 1..n |-> asked[s[k]]]
  BY <1>1, <1>2 DEF HoldsAwaited
<1> HIDE DEF s
<1>7. queue \in Seq(ImapOpType) /\ Len(queue) = n
  <2>1. W \in SUBSET (1..Len(asked)) /\ Len(asked) \in Nat
    BY <1>1, AwaitedType
  <2>2. \A k \in 1..n : asked[s[k]] \in ImapOpType
    <3>1. \A k \in 1..n : s[k] \in 1..Len(asked)
      BY <1>4, <2>1
    <3>2. \A i \in 1..Len(asked) : asked[i] \in ImapOpType
      BY <2>1
    <3> QED  BY <3>1, <3>2
  <2>3. queue \in [1..n -> ImapOpType]
    BY <1>6, <2>2
  <2> QED  BY <1>3, <2>3
<1>8. Listed(queue, asked, W, n, s)
  BY <1>5, <1>6, <1>7 DEF Listed
<1> QED  BY <1>1, <1>3, <1>4, <1>8


\* What enqueueing an operation leaves awaited, and itself.
LEMMA AwaitedAfter ==
  ASSUME NEW asked \in Seq(ImapOpType), NEW gone \in SUBSET (1..Len(asked)), NEW op \in ImapOpType
  PROVE  /\ Append(asked, op) \in Seq(ImapOpType) /\ Len(Append(asked, op)) = Len(asked) + 1
         /\ Append(asked, op)[Len(asked) + 1] = op
         /\ \A i \in 1..Len(asked) : Append(asked, op)[i] = asked[i]
         /\ Awaited(Append(asked, op), gone) =
              {i \in Awaited(asked, gone) : op # "SelectMailbox" /\ (op \in Coalesced => asked[i] # op)}
                \cup {Len(asked) + 1}
<1> DEFINE n == Len(asked)
           new == Append(asked, op)
<1>1. /\ n \in Nat /\ DOMAIN asked = 1..n
      /\ new \in Seq(ImapOpType) /\ Len(new) = n + 1 /\ DOMAIN new = 1..(n + 1)
      /\ new[n + 1] = op /\ \A i \in 1..n : new[i] = asked[i]
  OBVIOUS
<1> HIDE DEF n, new
<1>2. \A i \in 1..(n + 1) : i \in 1..n \/ i = n + 1
  BY <1>1
<1>3. ASSUME NEW i \in 1..n
      PROVE  Current(new, i) <=> Current(asked, i) /\ op # "SelectMailbox" /\ (op \in Coalesced => asked[i] # op)
  <2>1. i \in Nat /\ n + 1 \in i + 1 .. n + 1 /\ \A j \in i + 1 .. n : j \in 1..n /\ j \in i + 1 .. n + 1
    BY <1>1
  <2>2. \A j \in i + 1 .. n + 1 : j = n + 1 \/ j \in i + 1 .. n
    BY <1>1
  <2>3. new[i] = asked[i] /\ Len(asked) = n
    BY <1>1 DEF n
  <2>4. ASSUME Current(new, i)
        PROVE  Current(asked, i) /\ op # "SelectMailbox" /\ (op \in Coalesced => asked[i] # op)
    <3>1. \A j \in i + 1 .. n + 1 : new[j] # "SelectMailbox" /\ (asked[i] \in Coalesced => new[j] # asked[i])
      BY <1>1, <2>3, <2>4 DEF Current
    <3>2. op # "SelectMailbox" /\ (op \in Coalesced => asked[i] # op)
      BY <1>1, <2>1, <3>1
    <3>3. \A j \in i + 1 .. n : asked[j] # "SelectMailbox" /\ (asked[i] \in Coalesced => asked[j] # asked[i])
      BY <1>1, <2>1, <3>1
    <3> QED  BY <2>3, <3>2, <3>3 DEF Current
  <2>5. ASSUME Current(asked, i), op # "SelectMailbox", op \in Coalesced => asked[i] # op
        PROVE  Current(new, i)
    <3>1. \A j \in i + 1 .. n : asked[j] # "SelectMailbox" /\ (asked[i] \in Coalesced => asked[j] # asked[i])
      BY <2>3, <2>5 DEF Current
    <3>2. \A j \in i + 1 .. n + 1 : new[j] # "SelectMailbox" /\ (asked[i] \in Coalesced => new[j] # asked[i])
      BY <1>1, <2>1, <2>2, <2>5, <3>1
    <3> QED  BY <1>1, <2>3, <3>2 DEF Current
  <2> QED  BY <2>4, <2>5
<1>4. Current(new, n + 1) /\ n + 1 \notin gone
  <2>1. n + 1 + 1 .. n + 1 = {} /\ n + 1 \notin 1..n
    BY <1>1
  <2>2. gone \in SUBSET (1..n)
    BY DEF n
  <2> QED  BY <1>1, <2>1, <2>2 DEF Current
<1>5. \A i \in 1..n : i \in 1..(n + 1)
  BY <1>1
<1>6. n + 1 \in 1..(n + 1)
  BY <1>1
<1>7. Awaited(new, gone) =
        {i \in Awaited(asked, gone) : op # "SelectMailbox" /\ (op \in Coalesced => asked[i] # op)} \cup {n + 1}
  <2> DEFINE kept == {i \in Awaited(asked, gone) : op # "SelectMailbox" /\ (op \in Coalesced => asked[i] # op)}
  <2>1. ASSUME NEW i \in Awaited(new, gone) PROVE i \in kept \cup {n + 1}
    <3>1. i \in 1..(n + 1) /\ i \notin gone /\ Current(new, i)
      BY <1>1 DEF Awaited
    <3> QED  BY <1>1, <1>2, <1>3, <3>1 DEF Awaited
  <2>2. ASSUME NEW i \in kept PROVE i \in Awaited(new, gone)
    <3>1. i \in 1..n /\ i \notin gone /\ Current(asked, i) /\ op # "SelectMailbox" /\ (op \in Coalesced => asked[i] # op)
      BY <1>1 DEF Awaited
    <3> QED  BY <1>1, <1>3, <1>5, <3>1 DEF Awaited
  <2>3. n + 1 \in Awaited(new, gone)
    BY <1>1, <1>4, <1>6 DEF Awaited
  <2> HIDE DEF kept
  <2>4. Awaited(new, gone) = kept \cup {n + 1}
    BY <2>1, <2>2, <2>3
  <2> QED  BY <2>4 DEF kept
<1> QED  BY <1>1, <1>7 DEF n, new

\* One more position at the end.
LEMMA LongerHolds ==
  ASSUME NEW asked \in Seq(ImapOpType), NEW gone \in SUBSET (1..Len(asked)), NEW op \in ImapOpType,
         NEW rest \in Seq(ImapOpType), NEW m \in Nat, NEW s \in [1..m -> 1..Len(asked)],
         \A j, k \in 1..m : j < k => s[j] < s[k],
         \A i \in 1..Len(asked) :
           i \in Awaited(Append(asked, op), gone) <=> \E k \in 1..m : s[k] = i,
         rest = [k \in 1..m |-> asked[s[k]]]
  PROVE  HoldsAwaited(Append(rest, op), Append(asked, op), gone)
<1> DEFINE n == Len(asked)
           t == [k \in 1..(m + 1) |-> IF k = m + 1 THEN n + 1 ELSE s[k]]
<1>1. PICK new \in Seq(ImapOpType) : new = Append(asked, op)
  BY AwaitedAfter
<1>2. /\ n \in Nat /\ Len(new) = n + 1 /\ new[n + 1] = op
      /\ \A i \in 1..n : new[i] = asked[i]
      /\ n + 1 \in Awaited(new, gone)
  <2>1. /\ Len(Append(asked, op)) = Len(asked) + 1
        /\ Append(asked, op)[Len(asked) + 1] = op
        /\ \A i \in 1..Len(asked) : Append(asked, op)[i] = asked[i]
    BY AwaitedAfter
  <2>2. Awaited(Append(asked, op), gone) =
          {i \in Awaited(asked, gone) : op # "SelectMailbox" /\ (op \in Coalesced => asked[i] # op)}
            \cup {Len(asked) + 1}
    BY AwaitedAfter
  <2>3. Len(asked) + 1 \in Awaited(new, gone)
    BY <1>1, <2>2
  <2> QED  BY <1>1, <2>1, <2>3
<1>3. PICK W : W = Awaited(new, gone)
  OBVIOUS
<1>4. W \in SUBSET (1..(n + 1))
  BY <1>2, <1>3, AwaitedType
<1>5. \A k \in 1..(m + 1) : k \in 1..m \/ k = m + 1
  OBVIOUS
<1>6. \A k \in 1..m : k \in 1..(m + 1) /\ k # m + 1
  OBVIOUS
<1>7. m + 1 \in 1..(m + 1)
  OBVIOUS
<1>8. \A k \in 1..m : s[k] \in W
  BY <1>1, <1>3
<1>9. t \in [1..(m + 1) -> W]
  <2> SUFFICES ASSUME NEW k \in 1..(m + 1) PROVE t[k] \in W
    OBVIOUS
  <2> HIDE DEF n
  <2> QED  BY <1>2, <1>3, <1>5, <1>8
<1>10. (\A k \in 1..m : t[k] = s[k]) /\ t[m + 1] = n + 1
  <2> HIDE DEF n
  <2> QED  BY <1>6, <1>7
<1> HIDE DEF t, n
<1>11. ASSUME NEW j \in 1..(m + 1), NEW k \in 1..(m + 1), j < k PROVE t[j] < t[k]
  <2>1. j \in 1..m
    BY <1>11
  <2>2. CASE k \in 1..m
    BY <1>10, <1>11, <2>1, <2>2
  <2>3. CASE k = m + 1
    <3>1. t[j] \in 1..n /\ t[k] = n + 1
      BY <1>10, <2>1, <2>3 DEF n
    <3> QED  BY <1>2, <3>1
  <2> QED  BY <1>5, <2>2, <2>3
<1>12. ASSUME NEW i \in W PROVE \E k \in 1..(m + 1) : t[k] = i
  <2>1. CASE i = n + 1
    BY <1>7, <1>10, <2>1
  <2>2. CASE i # n + 1
    <3>1. i \in 1..n
      BY <1>2, <1>4, <2>2
    <3>2. PICK k \in 1..m : s[k] = i
      BY <1>1, <1>3, <3>1 DEF n
    <3> QED  BY <1>6, <1>10, <3>2
  <2> QED  BY <2>1, <2>2
<1>13. Append(rest, op) = [k \in 1..(m + 1) |-> new[t[k]]]
  <2>1. Len(rest) = m /\ \A k \in 1..m : rest[k] = asked[s[k]]
    OBVIOUS
  <2>2. /\ Append(rest, op) \in Seq(ImapOpType)
        /\ Len(Append(rest, op)) = Len(rest) + 1
        /\ Append(rest, op)[Len(rest) + 1] = op
        /\ \A k \in 1..Len(rest) : Append(rest, op)[k] = rest[k]
    BY AppendedTo, Zenon
  <2>3. PICK q \in Seq(ImapOpType) : q = Append(rest, op)
    BY <2>2
  <2>4. Len(q) = m + 1 /\ q[m + 1] = op /\ \A k \in 1..m : q[k] = rest[k]
    <3>1. /\ Len(q) = Len(rest) + 1 /\ q[Len(rest) + 1] = op
          /\ \A k \in 1..Len(rest) : q[k] = rest[k]
      BY <2>2, <2>3, Zenon
    <3> QED  BY <2>1, <3>1
  <2>5. ASSUME NEW k \in 1..(m + 1) PROVE q[k] = new[t[k]]
    <3>1. CASE k = m + 1
      BY <1>2, <1>10, <2>4, <3>1
    <3>2. CASE k \in 1..m
      <4>1. s[k] \in 1..n
        BY <3>2 DEF n
      <4>2. new[s[k]] = asked[s[k]]
        BY <1>2, <4>1
      <4> QED  BY <1>10, <2>1, <2>4, <3>2, <4>2
    <3> QED  BY <1>5, <3>1, <3>2
  <2>6. q = [k \in 1..(m + 1) |-> q[k]]
    BY <2>4
  <2> QED  BY <2>3, <2>5, <2>6
<1>14. PICK l \in Nat : l = m + 1
  OBVIOUS
<1>15. HoldsAwaited(Append(rest, op), new, gone)
  <2>1. /\ t \in [1..l -> Awaited(new, gone)]
        /\ \A j, k \in 1..l : j < k => t[j] < t[k]
        /\ \A i \in Awaited(new, gone) : \E k \in 1..l : t[k] = i
    BY <1>3, <1>9, <1>11, <1>12, <1>14
  <2>2. Append(rest, op) = [k \in 1..l |-> new[t[k]]]
    BY <1>13, <1>14
  <2> QED  BY <2>1, <2>2, HoldsIf, Zenon
<1> QED  BY <1>1, <1>15

LEMMA EnqueueHolds ==
  ASSUME NEW asked \in Seq(ImapOpType), NEW gone \in SUBSET (1..Len(asked)), NEW op \in ImapOpType,
         NEW queue, HoldsAwaited(queue, asked, gone)
  PROVE  HoldsAwaited(Enqueue(queue, op), Append(asked, op), gone)
<1> DEFINE n == Len(asked)
           new == Append(asked, op)
           W == Awaited(asked, gone)
           V == Awaited(new, gone)
<1>1. n \in Nat /\ W \in SUBSET (1..n) /\ n + 1 \notin 1..n
  BY AwaitedType
<1>2. V = {i \in W : op # "SelectMailbox" /\ (op \in Coalesced => asked[i] # op)} \cup {n + 1}
  BY AwaitedAfter
<1> HIDE DEF V, W, n, new
<1>3. PICK m \in Nat : \E s \in [1..m -> W] : Listed(queue, asked, W, m, s)
  BY HoldsThen DEF W
<1>4. PICK s \in [1..m -> W] :
         /\ \A j, k \in 1..m : j < k => s[j] < s[k]
         /\ \A i \in W : \E k \in 1..m : s[k] = i
         /\ queue = [k \in 1..m |-> asked[s[k]]]
         /\ queue \in Seq(ImapOpType) /\ Len(queue) = m
  BY <1>3 DEF Listed
<1>5. \A k \in 1..m : s[k] \in W /\ s[k] \in 1..n
  BY <1>1
<1> USE DEF n, new
<1>6. CASE op = "SelectMailbox"
  <2>1. PICK zero \in Nat : zero = 0
    OBVIOUS
  <2>2. PICK r \in [1..zero -> 1..n] : TRUE
    <3>1. [k \in 1..0 |-> 1] \in [1..0 -> 1..n]
      OBVIOUS
    <3> QED  BY <2>1, <3>1
  <2>3. 1..0 = {} /\ 1..zero = {} /\ zero \in Nat
    BY <2>1
  <2>4. <<>> = [k \in 1..zero |-> asked[r[k]]] /\ <<>> \in Seq(ImapOpType)
    BY <2>3
  <2>5. \A i \in 1..n : i \in V <=> \E k \in 1..zero : r[k] = i
    BY <1>1, <1>2, <1>6, <2>3
  <2>6. \A j, k \in 1..zero : j < k => r[j] < r[k]
    BY <2>3
  <2>7. HoldsAwaited(Append(<<>>, op), new, gone)
    <3> HIDE DEF new
    <3>1. \A i \in 1..n : i \in Awaited(Append(asked, op), gone) <=> \E k \in 1..zero : r[k] = i
      BY <2>5 DEF V, new
    <3> HIDE DEF n
    <3>2. HoldsAwaited(Append(<<>>, op), Append(asked, op), gone)
      BY <2>3, <2>4, <2>6, <3>1, LongerHolds DEF n
    <3> QED  BY <3>2 DEF new
  <2>8. Enqueue(queue, op) = <<op>> /\ Append(<<>>, op) = <<op>>
    BY <1>6 DEF Enqueue, Coalesced
  <2> QED  BY <2>7, <2>8 DEF new
<1>7. CASE op # "SelectMailbox" /\ op \in Coalesced
  <2> DEFINE K == Kept(queue, op)
             P(k) == KeptPosition(queue, op, k)
  <2>1. PICK l : l = Cardinality(K)
    OBVIOUS
  <2>2. PICK q \in Seq(ImapOpType) : q = Without(queue, op)
    BY <1>4, WithoutProperties
  <2>3. /\ DOMAIN q = 1..l
        /\ \A k \in 1..l : P(k) \in K /\ q[k] = queue[P(k)]
        /\ \A j, k \in 1..l : j < k => P(j) < P(k)
        /\ \A i \in K : \E k \in 1..l : P(k) = i
    <3>1. queue \in Seq(ImapOpType)
      BY <1>4
    <3>2. /\ DOMAIN Without(queue, op) = 1..Cardinality(Kept(queue, op))
          /\ \A k \in DOMAIN Without(queue, op) :
                KeptPosition(queue, op, k) \in Kept(queue, op)
                /\ Without(queue, op)[k] = queue[KeptPosition(queue, op, k)]
          /\ \A j, k \in DOMAIN Without(queue, op) :
                j < k => KeptPosition(queue, op, j) < KeptPosition(queue, op, k)
          /\ \A i \in Kept(queue, op) : \E k \in DOMAIN Without(queue, op) :
                KeptPosition(queue, op, k) = i
      BY <3>1, WithoutProperties
    <3> QED  BY <2>1, <2>2, <3>2
  <2>4. l \in Nat
    BY <1>4, <2>1, RankProperties
  <2>5. \A i : i \in K <=> i \in 1..m /\ asked[s[i]] # op
    BY <1>4 DEF Kept
  <2> HIDE DEF K, P
  <2> DEFINE r == [k \in 1..l |-> s[P(k)]]
  <2>6. \A k \in 1..l : P(k) \in 1..m /\ r[k] = s[P(k)] /\ r[k] \in 1..n /\ r[k] \in W
    BY <1>5, <2>3, <2>5
  <2>7. r \in [1..l -> 1..n]
    BY <2>6
  <2>8. q = [k \in 1..l |-> asked[r[k]]]
    <3>1. \A k \in 1..l : q[k] = asked[r[k]]
      BY <1>4, <2>3, <2>6
    <3>2. q = [k \in 1..l |-> q[k]]
      BY <2>2, <2>3
    <3> QED  BY <3>1, <3>2
  <2> HIDE DEF r
  <2>9. \A j, k \in 1..l : j < k => r[j] < r[k]
    BY <1>4, <2>3, <2>6
  <2>10. \A i \in 1..n : i \in V <=> \E k \in 1..l : r[k] = i
    <3> SUFFICES ASSUME NEW i \in 1..n PROVE i \in V <=> \E k \in 1..l : r[k] = i
      OBVIOUS
    <3>1. i \in V <=> i \in W /\ asked[i] # op
      BY <1>1, <1>2, <1>7
    <3>2. ASSUME i \in W, asked[i] # op PROVE \E k \in 1..l : r[k] = i
      <4>1. PICK j \in 1..m : s[j] = i
        BY <1>4, <3>2
      <4>2. j \in K
        BY <2>5, <3>2, <4>1
      <4>3. PICK k \in 1..l : P(k) = j
        BY <2>3, <4>2
      <4> QED  BY <2>6, <4>1, <4>3
    <3>3. ASSUME NEW k \in 1..l, r[k] = i PROVE i \in W /\ asked[i] # op
      BY <2>3, <2>5, <2>6, <3>3
    <3> QED  BY <3>1, <3>2, <3>3
  <2>11. HoldsAwaited(Append(q, op), Append(asked, op), gone)
    <3>1. \A i \in 1..Len(asked) : i \in Awaited(Append(asked, op), gone) <=> \E k \in 1..l : r[k] = i
      BY <2>10 DEF V
    <3>2. r \in [1..l -> 1..Len(asked)]
      BY <2>7
    <3> QED  BY <2>4, <2>8, <2>9, <3>1, <3>2, LongerHolds
  <2>12. Enqueue(queue, op) = Append(q, op)
    BY <1>7, <2>2 DEF Enqueue
  <2> QED  BY <2>11, <2>12
<1>8. CASE op # "SelectMailbox" /\ op \notin Coalesced
  <2>1. s \in [1..m -> 1..Len(asked)]
    BY <1>5
  <2>2. \A i \in 1..Len(asked) : i \in Awaited(Append(asked, op), gone) <=> \E k \in 1..m : s[k] = i
    <3>1. \A i \in 1..n : i \in V <=> i \in W
      BY <1>1, <1>2, <1>8
    <3>2. \A i \in 1..n : i \in W <=> \E k \in 1..m : s[k] = i
      BY <1>4, <1>5
    <3> QED  BY <3>1, <3>2 DEF V
  <2>3. HoldsAwaited(Append(queue, op), Append(asked, op), gone)
    BY <1>4, <2>1, <2>2, LongerHolds
  <2>4. Enqueue(queue, op) = Append(queue, op)
    BY <1>8 DEF Enqueue
  <2> QED  BY <2>3, <2>4
<1> QED  BY <1>6, <1>7, <1>8

\* tryPop returns the operation that has been waiting longest.
LEMMA PopHolds ==
  ASSUME NEW asked \in Seq(ImapOpType), NEW gone \in SUBSET (1..Len(asked)),
         NEW queue, HoldsAwaited(queue, asked, gone), queue # <<>>,
         NEW least, least = (CHOOSE i \in Awaited(asked, gone) : \A j \in Awaited(asked, gone) : i <= j)
  PROVE  /\ least \in 1..Len(asked) /\ Head(queue) = asked[least]
         /\ HoldsAwaited(Tail(queue), asked, gone \cup {least})
<1>1. PICK W : W = Awaited(asked, gone)
  OBVIOUS
<1>2. W \in SUBSET (1..Len(asked)) /\ Len(asked) \in Nat /\ \A i \in W : i \in Nat
  BY <1>1, AwaitedType
<1>3. PICK m \in Nat : \E s \in [1..m -> W] : Listed(queue, asked, W, m, s)
  BY <1>1, HoldsThen
<1>4. PICK s \in [1..m -> W] :
         /\ \A j, k \in 1..m : j < k => s[j] < s[k]
         /\ \A i \in W : \E k \in 1..m : s[k] = i
         /\ queue = [k \in 1..m |-> asked[s[k]]]
         /\ queue \in Seq(ImapOpType) /\ Len(queue) = m
  BY <1>3 DEF Listed
<1>5. m # 0 /\ 1 \in 1..m
  <2>1. m # 0
    BY <1>4
  <2> QED  BY <2>1
<1>6. \A k \in 1..m : s[k] \in W /\ s[k] \in Nat
  <2>1. \A i \in W : i \in Nat
    BY <1>2
  <2>2. \A k \in 1..m : s[k] \in W
    OBVIOUS
  <2> QED  BY <2>1, <2>2
<1>7. \A i \in W : s[1] <= i
  <2> SUFFICES ASSUME NEW i \in W PROVE s[1] <= i
    OBVIOUS
  <2>1. PICK k \in 1..m : s[k] = i
    BY <1>4
  <2>2. k = 1 \/ 1 < k
    OBVIOUS
  <2>3. s[1] = i \/ s[1] < i
    BY <1>4, <1>5, <2>1, <2>2
  <2>4. s[1] \in Nat /\ i \in Nat
    BY <1>5, <1>6, <2>1
  <2> QED  BY <2>3, <2>4
<1>8. least = s[1]
  <2>1. PICK a \in W : a = s[1] /\ a \in Nat
    BY <1>5, <1>6
  <2>2. least \in W /\ \A j \in W : least <= j
    <3>1. \E i \in W : \A j \in W : i <= j
      BY <1>7, <2>1
    <3> QED  BY <1>1, <3>1
  <2>3. least <= a /\ a <= least
    BY <1>7, <2>1, <2>2
  <2>4. least \in Nat
    BY <1>2, <2>2, Zenon
  <2> QED  BY <2>1, <2>3, <2>4
<1>9. least \in 1..Len(asked) /\ Head(queue) = asked[least]
  <2>1. least \in W
    BY <1>5, <1>6, <1>8
  <2>2. queue[1] = asked[s[1]]
    BY <1>4, <1>5
  <2>3. Head(queue) = queue[1]
    BY <1>4 DEF Head
  <2> QED  BY <1>2, <1>8, <2>1, <2>2, <2>3
<1> DEFINE t == [k \in 1..(m - 1) |-> s[k + 1]]
           V == Awaited(asked, gone \cup {least})
<1>10. m - 1 \in Nat /\ \A k \in 1..(m - 1) : k + 1 \in 1..m /\ 1 < k + 1
  BY <1>5
<1>11. \A i : i \in V <=> i \in W /\ i # least
  BY <1>1 DEF Awaited
<1>12. \A k \in 1..(m - 1) : t[k] = s[k + 1]
  OBVIOUS
<1> HIDE DEF V
<1>13. t \in [1..(m - 1) -> V]
  <2> SUFFICES ASSUME NEW k \in 1..(m - 1) PROVE s[k + 1] \in V
    OBVIOUS
  <2>1. s[k + 1] \in W /\ s[1] < s[k + 1] /\ s[1] \in Nat /\ s[k + 1] \in Nat
    BY <1>4, <1>5, <1>6, <1>10
  <2>2. s[k + 1] # s[1]
    BY <2>1
  <2> QED  BY <1>8, <1>11, <2>1, <2>2
<1> HIDE DEF t
<1>14. \A j, k \in 1..(m - 1) : j < k => t[j] < t[k]
  <2> SUFFICES ASSUME NEW j \in 1..(m - 1), NEW k \in 1..(m - 1), j < k PROVE t[j] < t[k]
    OBVIOUS
  <2>1. j + 1 \in 1..m /\ k + 1 \in 1..m /\ j + 1 < k + 1
    BY <1>10
  <2> QED  BY <1>4, <1>12, <2>1
<1>15. \A i \in V : \E k \in 1..(m - 1) : t[k] = i
  <2> SUFFICES ASSUME NEW i \in V PROVE \E k \in 1..(m - 1) : t[k] = i
    OBVIOUS
  <2>1. PICK k \in 1..m : s[k] = i
    BY <1>4, <1>11
  <2>2. k # 1
    BY <1>8, <1>11, <2>1
  <2>3. k - 1 \in 1..(m - 1) /\ (k - 1) + 1 = k
    BY <2>2
  <2> QED  BY <1>12, <2>1, <2>3
<1>16. Tail(queue) = [k \in 1..(m - 1) |-> asked[t[k]]]
  <2>1. queue \in Seq(ImapOpType) /\ Len(queue) = m
    BY <1>4
  <2>2. PICK q \in Seq(ImapOpType) : q = Tail(queue)
    BY <2>1, TailOf, Zenon
  <2>3. Len(q) = m - 1 /\ \A k \in 1..(m - 1) : q[k] = queue[k + 1]
    <3>1. Len(q) = Len(queue) - 1 /\ \A k \in 1..Len(q) : q[k] = queue[k + 1]
      BY <2>1, <2>2, TailOf, Zenon
    <3> QED  BY <2>1, <3>1
  <2>4. \A k \in 1..(m - 1) : q[k] = asked[t[k]]
    BY <1>4, <1>10, <1>12, <2>3
  <2>5. q = [k \in 1..Len(q) |-> q[k]]
    BY SeqIsFunction
  <2>6. q = [k \in 1..(m - 1) |-> q[k]]
    BY <2>3, <2>5
  <2> QED  BY <2>2, <2>4, <2>6
<1>17. HoldsAwaited(Tail(queue), asked, gone \cup {least})
  <2>1. PICK l \in Nat : l = m - 1
    BY <1>10
  <2>2. /\ t \in [1..l -> V]
        /\ \A j, k \in 1..l : j < k => t[j] < t[k]
        /\ \A i \in V : \E k \in 1..l : t[k] = i
    BY <1>13, <1>14, <1>15, <2>1
  <2>3. Tail(queue) = [k \in 1..l |-> asked[t[k]]]
    BY <1>16, <2>1
  <2>4. PICK q, left : q = Tail(queue) /\ left = gone \cup {least}
    OBVIOUS
  <2>5. V = Awaited(asked, left)
    BY <2>4 DEF V
  <2>6. q = [k \in 1..l |-> asked[t[k]]]
    BY <2>3, <2>4
  <2>7. HoldsAwaited(q, asked, left)
    BY <2>2, <2>5, <2>6, HoldsIf
  <2> QED  BY <2>4, <2>7
<1> QED  BY <1>9, <1>17

-----------------------------------------------------------------------------
\* For a log of any length, whatever is enqueued and popped: the queue holds, in
\* the order they were asked for, exactly the operations that were not taken and
\* that no later operation replaced.  This is what ImapCommandQueue::enqueue and
\* tryPop promise to the pump of the session.
THEOREM HoldsTheorem == QueueSpec => []HoldsWhatIsWaiting
<1> DEFINE Inv == /\ log \in Seq(ImapOpType)
                  /\ taken \in SUBSET (1..Len(log))
                  /\ HoldsAwaited(queue_, log, taken)
<1>1. QueueInit => Inv
  <2> SUFFICES ASSUME QueueInit PROVE Inv
    OBVIOUS
  <2>1. log \in Seq(ImapOpType) /\ taken \in SUBSET (1..Len(log))
    BY DEF QueueInit
  <2>2. Awaited(log, taken) = {}
    BY DEF QueueInit, Awaited
  <2>3. Cardinality(Awaited(log, taken)) = 0
    BY <2>2, FS_EmptySet
  <2>4. queue_ = [k \in 1..0 |-> log[Place(Awaited(log, taken), k)]]
    BY DEF QueueInit
  <2> QED  BY <2>1, <2>3, <2>4 DEF HoldsAwaited
<1>2. Inv /\ [QueueNext]_queueVars => Inv'
  <2> SUFFICES ASSUME Inv, [QueueNext]_queueVars PROVE Inv'
    OBVIOUS
  <2>1. CASE DoEnqueue
    <3>1. PICK op \in ImapOpType :
            queue_' = Enqueue(queue_, op) /\ log' = Append(log, op) /\ taken' = taken
      BY <2>1 DEF DoEnqueue
    <3>2. log' \in Seq(ImapOpType) /\ taken' \in SUBSET (1..Len(log'))
      BY <3>1
    <3>3. HoldsAwaited(queue_', log', taken')
      BY <3>1, EnqueueHolds
    <3> QED  BY <3>2, <3>3
  <2>2. CASE TryPop
    <3>1. PICK least : least = (CHOOSE i \in Awaited(log, taken) : \A j \in Awaited(log, taken) : i <= j)
      OBVIOUS
    <3>2. queue_ # <<>> /\ queue_' = Tail(queue_) /\ log' = log /\ taken' = taken \cup {least}
      BY <2>2, <3>1 DEF TryPop, QueueEmpty, Waiting, Awaited
    <3>3. least \in 1..Len(log) /\ HoldsAwaited(Tail(queue_), log, taken \cup {least})
      BY <3>1, <3>2, PopHolds
    <3> QED  BY <3>2, <3>3
  <2>3. CASE UNCHANGED queueVars
    BY <2>3 DEF queueVars, HoldsAwaited, Awaited, Current
  <2> QED  BY <2>1, <2>2, <2>3 DEF QueueNext
<1>3. Inv => HoldsWhatIsWaiting
  BY DEF HoldsAwaited, HoldsWhatIsWaiting, Waiting, Awaited, Place, UpTo
<1> QED  BY <1>1, <1>2, <1>3, PTL DEF QueueSpec

=============================================================================
