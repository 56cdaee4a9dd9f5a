---------------------------- MODULE IoTypeProofs ----------------------------
(***************************************************************************)
(* Proofs about the objects of I/O completion, for every number of ports,  *)
(* packets, factories, threads and targets.                                *)
(*                                                                         *)
(* The first part is about values: the sets that InOrder sorts, how often  *)
(* a queue has a message before and after each operation on it, and Core,  *)
(* which says that references, queues, packets and factories agree.  Core  *)
(* is kept by each change the code makes to them (a packet is tied,        *)
(* completed or freed; a factory is created, changed or closed; a message  *)
(* joins or leaves a queue).                                               *)
(*                                                                         *)
(* The second part proves what holds whatever guest code does: the types,  *)
(* that a queued completion uses up a signal of its target, and that a     *)
(* factory stays within its limits.                                        *)
(***************************************************************************)
EXTENDS IoCompletion, FiniteSetTheorems, TLAPS

\* Leaves are proved by Zenon unless they name another prover.
USE Zenon

\* How many elements of S come before k
Rank(S, key, k) == Cardinality({i \in S : key[i] < key[k]})

\* A finite set whose elements have keys, and no two of them the same
Keyed(S, key) ==
    /\ IsFiniteSet(S)
    /\ \A k \in S : key[k] \in Nat
    /\ \A j, k \in S : key[j] = key[k] => j = k

\* Elements of a finite set with different indices are ranked 0, 1, 2 ...: no
\* two have the same number of predecessors.
LEMMA RankInjective ==
    ASSUME NEW S, NEW key, Keyed(S, key)
    PROVE  \A j, k \in S :
              /\ Rank(S, key, k) \in Nat
              /\ key[j] < key[k] => Rank(S, key, j) < Rank(S, key, k)
              /\ Rank(S, key, j) = Rank(S, key, k) => j = k
<1> DEFINE Below(k) == {i \in S : key[i] < key[k]}
<1>1. \A k \in S : IsFiniteSet(Below(k)) /\ Cardinality(Below(k)) \in Nat
  BY FS_Subset, FS_CardinalityType DEF Keyed
<1>2. ASSUME NEW j \in S, NEW k \in S, key[j] < key[k]
      PROVE  Cardinality(Below(j)) < Cardinality(Below(k))
  <2>1. Below(j) \in SUBSET Below(k) /\ j \in Below(k) /\ j \notin Below(j)
    BY <1>2, SMT DEF Keyed
  <2>2. Cardinality(Below(j)) <= Cardinality(Below(k)) /\ Cardinality(Below(j)) # Cardinality(Below(k))
    BY <2>1, <1>1, FS_Subset
  <2> QED
    BY <2>2, <1>1, SMT
<1>3. \A k \in S : Rank(S, key, k) = Cardinality(Below(k))
  BY DEF Rank
<1> HIDE DEF Below
<1>4. \A j, k \in S : Rank(S, key, k) \in Nat /\ (key[j] < key[k] => Rank(S, key, j) < Rank(S, key, k))
  BY <1>1, <1>2, <1>3
<1>5. ASSUME NEW j \in S, NEW k \in S, j # k
      PROVE  Rank(S, key, j) # Rank(S, key, k)
  <2>1. key[j] \in Nat /\ key[k] \in Nat /\ key[j] # key[k]
    BY <1>5 DEF Keyed
  <2>2. key[j] < key[k] \/ key[k] < key[j]
    BY <2>1, SMT
  <2> QED
    BY <2>2, <1>4, SMT
<1> QED
  BY <1>4, <1>5

\* At most n elements of a finite set have fewer than n predecessors.
LEMMA FirstOfThem ==
    ASSUME NEW S, NEW key, Keyed(S, key), NEW n \in Nat
    PROVE  /\ IsFiniteSet({k \in S : Rank(S, key, k) < n})
           /\ Cardinality({k \in S : Rank(S, key, k) < n}) <= n
<1> DEFINE T == {k \in S : Rank(S, key, k) < n}
           f == [k \in T |-> Rank(S, key, k)]
<1>1. \A j, k \in S : Rank(S, key, k) \in Nat /\ (Rank(S, key, j) = Rank(S, key, k) => j = k)
  BY RankInjective
<1>2. f \in [T -> 0 .. (n - 1)]
  BY <1>1, SMT
<1>3. \A j, k \in T : f[j] = f[k] => j = k
  BY <1>1
<1>4. f \in Injection(T, 0 .. (n - 1))
  BY <1>2, <1>3 DEF Injection, IsInjective
<1>5. IsFiniteSet(0 .. (n - 1)) /\ Cardinality(0 .. (n - 1)) = n
  BY FS_Interval, SMT
<1> QED
  BY <1>4, <1>5, FS_Injection, SMT

\* InOrder lists every element of a finite set of packets once.
LEMMA InOrderEnumerates ==
    ASSUME NEW S \in SUBSET Packets, IsFiniteSet(S)
    PROVE  /\ InOrder(S) \in [1 .. Cardinality(S) -> S]
           /\ \A i, j \in 1 .. Cardinality(S) : i # j => InOrder(S)[i] # InOrder(S)[j]
           /\ \A k \in S : \E i \in 1 .. Cardinality(S) : InOrder(S)[i] = k
<1> DEFINE key == [k \in Packets |-> k[2]]
           g   == [k \in S |-> Rank(S, key, k) + 1]
<1>n. PICK n \in Nat : n = Cardinality(S)
  BY FS_CardinalityType
<1>2. /\ \A k \in S : key[k] \in Nat /\ key[k] = k[2]
      /\ \A j, k \in S : key[j] = key[k] => j = k
  BY SMT DEF Packets
<1> HIDE DEF key
<1>3. Keyed(S, key)
  BY <1>2 DEF Keyed
<1>4. \A j, k \in S :
         /\ Rank(S, key, k) \in Nat
         /\ key[j] < key[k] => Rank(S, key, j) < Rank(S, key, k)
         /\ Rank(S, key, j) = Rank(S, key, k) => j = k
  BY <1>3, RankInjective
<1>5. ASSUME NEW k \in S
      PROVE  Rank(S, key, k) < n
  <2> DEFINE B == {i \in S : key[i] < key[k]}
  <2>1. B \in SUBSET S /\ k \notin B /\ Cardinality(B) = Rank(S, key, k)
    BY <1>2, SMT DEF Rank
  <2> HIDE DEF B
  <2>2. Rank(S, key, k) <= n /\ Rank(S, key, k) # n
    BY <2>1, <1>n, FS_Subset
  <2> QED
    BY <2>2, <1>4, SMT
<1>6. g \in [S -> 1 .. n] /\ \A j, k \in S : g[j] = g[k] => j = k
  BY <1>4, <1>5, SMT
<1>7. IsFiniteSet(1 .. n) /\ Cardinality(1 .. n) = n
  BY FS_Interval, SMT
<1>8. g \in Injection(S, 1 .. n)
  BY <1>6 DEF Injection, IsInjective
<1>9. g \in Surjection(S, 1 .. n)
  BY <1>8, <1>7, <1>n, FS_Injection
<1> DEFINE s == [i \in 1 .. n |-> CHOOSE k \in S : g[k] = i]
<1>10. \A i \in 1 .. n : s[i] \in S /\ Rank(S, key, s[i]) + 1 = i
  BY <1>9 DEF Surjection
<1>11. s \in [1 .. n -> S]
  BY <1>10
<1> HIDE DEF s
<1>12. ASSUME NEW i \in 1 .. n, NEW j \in 1 .. n, i < j
       PROVE  s[i][2] < s[j][2]
  <2>1. s[i] \in S /\ s[j] \in S /\ Rank(S, key, s[i]) < Rank(S, key, s[j])
    BY <1>4, <1>10, <1>12, SMT
  <2>2. ~(key[s[j]] < key[s[i]]) /\ key[s[i]] # key[s[j]]
    BY <2>1, <1>2, <1>4, SMT
  <2> QED
    BY <2>1, <2>2, <1>2, SMT
<1> DEFINE o == InOrder(S)
<1>13. o \in [1 .. n -> S] /\ \A i, j \in 1 .. n : i < j => o[i][2] < o[j][2]
  BY <1>n, <1>11, <1>12 DEF InOrder
<1> HIDE DEF o
<1>14. ASSUME NEW i \in 1 .. n, NEW j \in 1 .. n, i # j
       PROVE  o[i] # o[j]
  <2>1. o[i] \in S /\ o[j] \in S /\ (o[i][2] < o[j][2] \/ o[j][2] < o[i][2])
    BY <1>13, <1>14, SMT
  <2> QED
    BY <2>1, <1>2, SMT
<1>15. o \in Injection(1 .. n, S)
  BY <1>13, <1>14 DEF Injection, IsInjective
<1>16. o \in Surjection(1 .. n, S)
  BY <1>15, <1>7, <1>n, FS_Injection
<1> QED
  BY <1>n, <1>13, <1>14, <1>16 DEF Surjection, o

----------------------------------------------------------------------------
(* The objects.                                                            *)

\* The types of objects differ.
LEMMA Kinds ==
    /\ \A o \in Ports : o \in Objects /\ o \notin Packets /\ o \notin Factories /\ o \notin Targets /\ o # NoHandle
    /\ \A o \in Packets : o \in Objects /\ o \notin Ports /\ o \notin Factories /\ o \notin Targets /\ o # NoHandle
    /\ \A o \in Factories : o \in Objects /\ o \notin Ports /\ o \notin Packets /\ o \notin Targets /\ o # NoHandle
    /\ \A o \in Targets : o \in Objects /\ o \notin Ports /\ o \notin Packets /\ o \notin Factories /\ o # NoHandle
    /\ \A o \in Objects : o \in Ports \/ o \in Packets \/ o \in Factories \/ o \in Targets
<1>1. /\ \A o \in Ports : o[1] = "port"
      /\ \A o \in Packets : o[1] = "packet"
      /\ \A o \in Factories : o[1] = "factory"
      /\ NoHandle[1] = "none"
  BY SMT DEF Ports, Packets, Factories, NoHandle
<1>2. Targets \cap (Ports \cup Packets \cup Factories \cup {NoHandle}) = {}
  BY TargetsAssumption
<1> QED
  BY <1>1, <1>2 DEF Objects

\* A message is of a packet, of a factory or of neither.
LEMMA MessageKinds ==
    /\ Post \in Messages /\ Post.packet = NoHandle /\ Post.release = NoHandle
    /\ \A k \in Packets : OfPacket(k) \in Messages /\ OfPacket(k).packet = k /\ OfPacket(k).release = NoHandle
    /\ \A f \in Factories : Release(f) \in Messages /\ Release(f).packet = NoHandle /\ Release(f).release = f
    /\ \A m \in Messages :
          /\ m.packet = NoHandle \/ (m.packet \in Packets /\ m = OfPacket(m.packet))
          /\ m.release = NoHandle \/ (m.release \in Factories /\ m = Release(m.release))
  BY SMT DEF Messages, Post, OfPacket, Release

\* The stores have finitely many slots.
LEMMA FiniteStores == IsFiniteSet(Packets) /\ IsFiniteSet(Factories)
<1>1. ASSUME NEW n \in Nat, NEW a
      PROVE  IsFiniteSet({<<a, i>> : i \in 1 .. n})
  <2> DEFINE S == {<<a, i>> : i \in 1 .. n}
             f == [o \in S |-> o[2]]
  <2>1. f \in Injection(S, 1 .. n)
    BY SMT DEF Injection, IsInjective
  <2>2. IsFiniteSet(1 .. n)
    BY FS_Interval, SMT
  <2> QED
    BY <2>1, <2>2, FS_Injection
<1> QED
  BY <1>1, SizesAssumption DEF Packets, Factories

----------------------------------------------------------------------------
(* Queues.                                                                 *)

\* n and m count things before and after one of them changed: was and is say
\* whether it counted.
Recounted(n, m, was, is) ==
    /\ n \in Nat /\ m \in Nat
    /\ (was <=> is) => m = n
    /\ ~was /\ is => m = n + 1
    /\ was /\ ~is => n = m + 1

\* A count that starts from nothing
LEMMA FromNone ==
    ASSUME NEW n, NEW m, n = 0, NEW x, Recounted(n, m, FALSE, x)
    PROVE  m = IF x THEN 1 ELSE 0
  BY SMT DEF Recounted

\* A count that nothing changes
LEMMA NotRecounted ==
    ASSUME NEW n \in Nat, NEW x, ~x
    PROVE  Recounted(n, n, FALSE, x)
  BY DEF Recounted

\* A count that is not zero stays so when it is kept or goes up.
LEMMA StillCounted ==
    ASSUME NEW n \in Nat, n > 0, NEW m, m = n + 1 \/ m = n
    PROVE  m # 0
  BY SMT

\* Two finite sets that differ in one element at most
LEMMA OneMore ==
    ASSUME NEW S, IsFiniteSet(S), NEW T, IsFiniteSet(T), NEW k, \A j : j # k => (j \in S <=> j \in T)
    PROVE  Recounted(Cardinality(S), Cardinality(T), k \in S, k \in T)
<1>1. Cardinality(S) \in Nat /\ Cardinality(T) \in Nat
  BY FS_CardinalityType
<1>2. (k \in S <=> k \in T) => T = S
  BY SMT
<1>3. ASSUME k \in T, k \notin S
      PROVE  Cardinality(T) = Cardinality(S) + 1
  <2>1. T = S \cup {k}
    BY <1>3
  <2> QED
    BY <2>1, <1>3, FS_AddElement
<1>4. ASSUME k \in S, k \notin T
      PROVE  Cardinality(S) = Cardinality(T) + 1
  <2>1. S = T \cup {k}
    BY <1>4
  <2> QED
    BY <2>1, <1>4, FS_AddElement
<1> QED
  BY <1>1, <1>2, <1>3, <1>4 DEF Recounted

\* Where a queue has message m
Positions(s, m) == {i \in 1 .. Len(s) : s[i] = m}

\* A queue has finitely many messages.
LEMMA PositionsFinite ==
    ASSUME NEW s \in Seq(Messages), NEW m
    PROVE  /\ IsFiniteSet(Positions(s, m)) /\ Occurrences(s, m) = Cardinality(Positions(s, m))
           /\ Occurrences(s, m) \in Nat
           /\ Occurrences(s, m) > 0 <=> \E i \in 1 .. Len(s) : s[i] = m
<1>1. Occurrences(s, m) = Cardinality(Positions(s, m))
  BY DEF Occurrences, Positions
<1>2. IsFiniteSet(1 .. Len(s)) /\ Positions(s, m) \in SUBSET (1 .. Len(s))
  BY FS_Interval, SMT DEF Positions
<1>3. IsFiniteSet(Positions(s, m))
  BY <1>2, FS_Subset
<1>4. Occurrences(s, m) \in Nat
  BY <1>1, <1>3, FS_CardinalityType
<1>5. Occurrences(s, m) = 0 <=> Positions(s, m) = {}
  BY <1>1, <1>3, FS_EmptySet
<1>6. Positions(s, m) = {} <=> ~(\E i \in 1 .. Len(s) : s[i] = m)
  BY DEF Positions
<1> QED
  BY <1>1, <1>3, <1>4, <1>5, <1>6, SMT

\* s2 is s without its element i.
Without(s, i, s2) ==
    /\ s2 \in Seq(Messages) /\ i \in 1 .. Len(s) /\ Len(s2) = Len(s) - 1
    /\ \A j \in 1 .. Len(s2) : s2[j] = s[IF j < i THEN j ELSE j + 1]

\* s2 has message x once more than s, and as many of the others.
Gained(s, x, s2) ==
    /\ s2 \in Seq(Messages)
    /\ \A m : Recounted(Occurrences(s, m), Occurrences(s2, m), FALSE, m = x)

\* A message leaves a queue.
LEMMA WithoutIsLoss ==
    ASSUME NEW s \in Seq(Messages), NEW s2, NEW i, Without(s, i, s2)
    PROVE  Gained(s2, s[i], s)
<1>1. Len(s) \in Nat /\ Len(s2) \in Nat /\ i \in 1 .. Len(s) /\ Len(s2) = Len(s) - 1 /\ s2 \in Seq(Messages)
  BY SMT DEF Without
<1>2. ASSUME NEW m
      PROVE  Recounted(Occurrences(s2, m), Occurrences(s, m), FALSE, m = s[i])
  <2> DEFINE A == Positions(s2, m)
             B == Positions(s, m) \ {i}
             f == [j \in A |-> IF j < i THEN j ELSE j + 1]
  <2>1. ASSUME NEW j \in A
        PROVE  f[j] = (IF j < i THEN j ELSE j + 1) /\ f[j] \in B
    <3>1. j \in 1 .. Len(s2) /\ s2[j] = m
      BY DEF Positions
    <3>2. CASE j < i
      <4>1. j \in 1 .. Len(s) /\ j # i
        BY <3>1, <3>2, <1>1, SMT
      <4>2. s2[j] = s[j]
        BY <3>1, <3>2 DEF Without
      <4> QED
        BY <3>1, <3>2, <4>1, <4>2 DEF Positions
    <3>3. CASE ~(j < i)
      <4>1. j + 1 \in 1 .. Len(s) /\ j + 1 # i
        BY <3>1, <3>3, <1>1, SMT
      <4>2. s2[j] = s[j + 1]
        BY <3>1, <3>3 DEF Without
      <4> QED
        BY <3>1, <3>3, <4>1, <4>2 DEF Positions
    <3> QED
      BY <3>2, <3>3
  <2>2. \A j, g \in A : f[j] = f[g] => j = g
    BY <1>1, SMT DEF Positions
  <2>3. ASSUME NEW g \in B
        PROVE  \E j \in A : f[j] = g
    <3>1. g \in 1 .. Len(s) /\ s[g] = m /\ g # i
      BY <2>3 DEF Positions
    <3>2. CASE g < i
      <4>1. g \in 1 .. Len(s2) /\ s2[g] = s[g]
        BY <3>1, <3>2, <1>1, SMT DEF Without
      <4>2. g \in A
        BY <4>1, <3>1 DEF Positions
      <4> QED
        BY <4>2, <2>1, <3>2
    <3>3. CASE ~(g < i)
      <4>1. g - 1 \in 1 .. Len(s2) /\ ~(g - 1 < i) /\ (g - 1) + 1 = g
        BY <3>1, <3>3, <1>1, SMT
      <4>2. s2[g - 1] = s[g]
        BY <4>1 DEF Without
      <4>3. g - 1 \in A
        BY <4>1, <4>2, <3>1 DEF Positions
      <4> QED
        BY <4>1, <4>3, <2>1
    <3> QED
      BY <3>2, <3>3
  <2>4. f \in [A -> B]
    BY <2>1
  <2> HIDE DEF f
  <2>5. f \in Bijection(A, B)
    BY <2>2, <2>3, <2>4 DEF Bijection, Injection, Surjection, IsInjective
  <2>6. Cardinality(B) = Cardinality(A)
    BY <2>5, <1>1, PositionsFinite, FS_Bijection DEF ExistsBijection
  <2>7. IsFiniteSet(B) /\ IsFiniteSet(Positions(s, m))
    BY PositionsFinite, FS_Subset
  <2>8. Recounted(Cardinality(B), Cardinality(Positions(s, m)), i \in B, i \in Positions(s, m))
    BY <2>7, OneMore
  <2>9. i \in Positions(s, m) <=> m = s[i]
    BY <1>1 DEF Positions
  <2> QED
    BY <2>6, <2>8, <2>9, <1>1, PositionsFinite DEF Recounted
<1> QED
  BY <1>2 DEF Gained

\* The first message leaves a queue.
LEMMA TailLoses ==
    ASSUME NEW s \in Seq(Messages), s # <<>>
    PROVE  Gained(Tail(s), Head(s), s) /\ Tail(s) \in Seq(Messages) /\ Head(s) \in Messages
<1>1. Len(s) \in Nat \ {0} /\ s[1] = Head(s) /\ Without(s, 1, Tail(s)) /\ Tail(s) \in Seq(Messages)
  BY SMT DEF Without
<1>2. Head(s) \in Messages
  BY <1>1, SMT
<1> QED
  BY <1>1, <1>2, WithoutIsLoss

\* A sequence cut at i and joined again
LEMMA CutIsWithout ==
    ASSUME NEW s \in Seq(Messages), NEW i \in 1 .. Len(s)
    PROVE  Without(s, i, SubSeq(s, 1, i - 1) \o SubSeq(s, i + 1, Len(s)))
<1> DEFINE a == SubSeq(s, 1, i - 1)
           b == SubSeq(s, i + 1, Len(s))
<1>1. Len(s) \in Nat /\ i \in Nat \ {0} /\ i <= Len(s)
  BY SMT
<1>2. a \in Seq(Messages) /\ Len(a) = i - 1 /\ \A j \in 1 .. (i - 1) : a[j] = s[j]
  BY <1>1, SMT
<1>3. b \in Seq(Messages) /\ Len(b) = Len(s) - i /\ \A j \in 1 .. (Len(s) - i) : b[j] = s[j + i]
  BY <1>1, SMT
<1> HIDE DEF a, b
<1>t. a \in Seq(Messages) /\ b \in Seq(Messages) /\ Len(a) = i - 1 /\ Len(b) = Len(s) - i
  BY <1>2, <1>3
<1>u. a \o b \in Seq(Messages) /\ Len(a \o b) = Len(a) + Len(b)
  BY <1>t, SMT
<1>4. a \o b \in Seq(Messages) /\ Len(a \o b) = Len(a) + Len(b) /\ Len(a \o b) = Len(s) - 1
  BY <1>1, <1>t, <1>u, SMT
<1>5. ASSUME NEW j \in 1 .. Len(a \o b)
      PROVE  (a \o b)[j] = s[IF j < i THEN j ELSE j + 1]
  <2>1. CASE j < i
    BY <2>1, <1>1, <1>2, <1>3, <1>4, SMT
  <2>2. CASE ~(j < i)
    <3>1. j - Len(a) \in 1 .. (Len(s) - i) /\ (j - Len(a)) + i = j + 1
      BY <2>2, <1>1, <1>2, <1>4, SMT
    <3>2. (a \o b)[j] = b[j - Len(a)]
      BY <2>2, <1>1, <1>2, <1>3, <1>4, SMT
    <3> QED
      BY <2>2, <3>1, <3>2, <1>3
  <2> QED
    BY <2>1, <2>2
<1> QED
  BY <1>4, <1>5 DEF Without, a, b

\* remove_by_wait_packet takes the only message of a packet.
LEMMA RemoveLoses ==
    ASSUME NEW s \in Seq(Messages), NEW k, Occurrences(s, OfPacket(k)) = 1
    PROVE  HasMessage(s, k) /\ Gained(RemoveByPacket(s, k), OfPacket(k), s)
           /\ RemoveByPacket(s, k) \in Seq(Messages)
<1>1. PICK i : Positions(s, OfPacket(k)) = {i}
  BY PositionsFinite, FS_Singleton
<1>2. i \in 1 .. Len(s) /\ s[i] = OfPacket(k)
  BY <1>1 DEF Positions
<1>3. {j \in 1 .. Len(s) : s[j] = OfPacket(k)} = {i}
  BY <1>1 DEF Positions
<1>4. Min({i}) = i
  BY <1>2, SMT DEF Min
<1>5. RemoveByPacket(s, k) = SubSeq(s, 1, i - 1) \o SubSeq(s, i + 1, Len(s))
  BY <1>3, <1>4 DEF RemoveByPacket
<1>6. Without(s, i, SubSeq(s, 1, i - 1) \o SubSeq(s, i + 1, Len(s)))
  BY <1>2, CutIsWithout
<1>7. Gained(RemoveByPacket(s, k), s[i], s)
  BY <1>5, <1>6, WithoutIsLoss
<1>8. RemoveByPacket(s, k) \in Seq(Messages)
  BY <1>5, <1>6 DEF Without
<1> QED
  BY <1>2, <1>7, <1>8 DEF HasMessage

\* A message is appended.
LEMMA AppendGains ==
    ASSUME NEW s \in Seq(Messages), NEW x \in Messages
    PROVE  Gained(s, x, Append(s, x)) /\ Append(s, x) \in Seq(Messages)
<1> DEFINE s2 == Append(s, x)
<1>1. /\ Len(s) \in Nat /\ s2 \in Seq(Messages) /\ Len(s2) = Len(s) + 1 /\ s2[Len(s) + 1] = x
      /\ \A i \in 1 .. Len(s) : s2[i] = s[i]
  BY SMT
<1> HIDE DEF s2
<1>2. ASSUME NEW m
      PROVE  Recounted(Occurrences(s, m), Occurrences(s2, m), FALSE, m = x)
  <2> DEFINE n == Len(s) + 1
  <2>1. \A j : j # n => (j \in Positions(s, m) <=> j \in Positions(s2, m))
    BY <1>1, SMT DEF Positions
  <2>2. n \notin Positions(s, m) /\ (n \in Positions(s2, m) <=> m = x)
    BY <1>1, SMT DEF Positions
  <2> HIDE DEF n
  <2>3. Recounted(Cardinality(Positions(s, m)), Cardinality(Positions(s2, m)), n \in Positions(s, m), n \in Positions(s2, m))
    BY <2>1, <1>1, PositionsFinite, OneMore
  <2> QED
    BY <2>2, <2>3, <1>1, PositionsFinite, SMT DEF Recounted
<1> QED
  BY <1>1, <1>2 DEF Gained, s2

\* s2 has the messages of the packets of S once more than s, and as many of
\* the others.
GainedAll(s, S, s2) ==
    /\ s2 \in Seq(Messages)
    /\ \A m : Recounted(Occurrences(s, m), Occurrences(s2, m), FALSE, \E k \in S : m = OfPacket(k))

\* What materialize_signaled_wait_packets appends
LEMMA ConcatGainsAll ==
    ASSUME NEW s \in Seq(Messages), NEW S \in SUBSET Packets
    PROVE  GainedAll(s, S, s \o [i \in 1 .. Cardinality(S) |-> OfPacket(InOrder(S)[i])])
<1>f. IsFiniteSet(S) /\ Cardinality(S) \in Nat
  BY FiniteStores, FS_Subset, FS_CardinalityType
<1> DEFINE o == InOrder(S)
<1>n. PICK n \in Nat : n = Cardinality(S)
  BY <1>f
<1>1. /\ o \in [1 .. n -> S]
      /\ \A i, j \in 1 .. n : i # j => o[i] # o[j]
      /\ \A k \in S : \E i \in 1 .. n : o[i] = k
  BY <1>f, <1>n, InOrderEnumerates
<1> HIDE DEF o
<1> DEFINE t == [i \in 1 .. n |-> OfPacket(o[i])]
<1>2. \A i \in 1 .. n : o[i] \in S /\ OfPacket(o[i]) \in Messages
  BY <1>1, MessageKinds
<1>3. t \in Seq(Messages) /\ Len(t) = n /\ \A i \in 1 .. n : t[i] = OfPacket(o[i])
  BY <1>2, SMT
<1> HIDE DEF t
<1>4. /\ s \o t \in Seq(Messages) /\ Len(s) \in Nat /\ Len(s \o t) = Len(s) + n
      /\ \A i \in 1 .. Len(s) : (s \o t)[i] = s[i]
      /\ \A i \in 1 .. Len(s \o t) : i > Len(s) => i - Len(s) \in 1 .. n /\ (s \o t)[i] = t[i - Len(s)]
      /\ \A i \in 1 .. n : Len(s) + i \in 1 .. Len(s \o t) /\ (s \o t)[Len(s) + i] = t[i]
  BY <1>3, SMT
<1> DEFINE s2 == s \o t
<1>5. s2 \in Seq(Messages)
  BY <1>4
<1>6. ASSUME NEW m, ~(\E k \in S : m = OfPacket(k))
      PROVE  Positions(s2, m) = Positions(s, m)
  <2>1. \A i \in 1 .. n : t[i] # m
    BY <1>2, <1>3, <1>6
  <2> QED
    BY <2>1, <1>4, SMT DEF Positions
<1>7. ASSUME NEW k \in S
      PROVE  \E x : /\ x \notin Positions(s, OfPacket(k)) /\ x \in Positions(s2, OfPacket(k))
                    /\ \A j : j # x => (j \in Positions(s, OfPacket(k)) <=> j \in Positions(s2, OfPacket(k)))
  <2>1. PICK i \in 1 .. n : o[i] = k
    BY <1>1
  <2>2. ASSUME NEW j \in 1 .. n, t[j] = OfPacket(k)
        PROVE  j = i
    <3>1. o[j] \in Packets /\ k \in Packets /\ OfPacket(o[j]) = OfPacket(k)
      BY <2>2, <1>2, <1>3
    <3>2. o[j] = k
      BY <3>1, MessageKinds
    <3> QED
      BY <3>2, <2>1, <1>1
  <2>3. t[i] = OfPacket(k)
    BY <2>1, <1>3
  <2>4. Len(s) + i \notin 1 .. Len(s) /\ Len(s) + i \in 1 .. Len(s2) /\ s2[Len(s) + i] = OfPacket(k)
    BY <2>3, <1>4, SMT
  <2>5. ASSUME NEW j, j # Len(s) + i
        PROVE  j \in Positions(s, OfPacket(k)) <=> j \in Positions(s2, OfPacket(k))
    <3>1. CASE j \in 1 .. Len(s)
      BY <3>1, <1>4, SMT DEF Positions
    <3>2. CASE j \notin 1 .. Len(s) /\ j \in 1 .. Len(s2)
      <4>1. j - Len(s) \in 1 .. n /\ s2[j] = t[j - Len(s)] /\ j - Len(s) # i
        BY <3>2, <2>5, <1>4, SMT
      <4> QED
        BY <4>1, <3>2, <2>2 DEF Positions
    <3>3. CASE j \notin 1 .. Len(s) /\ j \notin 1 .. Len(s2)
      BY <3>3 DEF Positions
    <3> QED
      BY <3>1, <3>2, <3>3
  <2>6. Len(s) + i \notin Positions(s, OfPacket(k)) /\ Len(s) + i \in Positions(s2, OfPacket(k))
    BY <2>4 DEF Positions
  <2> QED
    BY <2>5, <2>6
<1> HIDE DEF s2
<1>8. ASSUME NEW m
      PROVE  Recounted(Occurrences(s, m), Occurrences(s2, m), FALSE, \E k \in S : m = OfPacket(k))
  <2>1. CASE \E k \in S : m = OfPacket(k)
    <3>1. PICK x : /\ x \notin Positions(s, m) /\ x \in Positions(s2, m)
                   /\ \A j : j # x => (j \in Positions(s, m) <=> j \in Positions(s2, m))
      BY <2>1, <1>7
    <3>2. Recounted(Cardinality(Positions(s, m)), Cardinality(Positions(s2, m)), x \in Positions(s, m), x \in Positions(s2, m))
      BY <3>1, <1>5, PositionsFinite, OneMore
    <3> QED
      BY <3>1, <3>2, <2>1, <1>5, PositionsFinite DEF Recounted
  <2>2. CASE ~(\E k \in S : m = OfPacket(k))
    <3>1. Occurrences(s, m) \in Nat
      BY PositionsFinite
    <3>2. Occurrences(s2, m) = Occurrences(s, m)
      BY <2>2, <1>6 DEF Occurrences, Positions
    <3> QED
      BY <2>2, <3>1, <3>2, NotRecounted
  <2> QED
    BY <2>1, <2>2
<1>9. GainedAll(s, S, s2)
  BY <1>5, <1>8 DEF GainedAll
<1> QED
  BY <1>9, <1>n DEF o, t, s2

----------------------------------------------------------------------------
(* The invariant as a predicate of five values.                            *)

PacketsOn(pk, p)   == {k \in Packets : pk[k].port = p}
PacketsFor(pk, x)  == {k \in Packets : pk[k].target = x}
FactoriesOn(fc, p) == {f \in Factories : fc[f].port = p}

\* The types of the counts, queues, packets and factories
Typed(r, h, q, pk, fc) ==
    /\ r \in [Objects -> Nat] /\ h \in [Objects -> 0 .. MaxHandles]
    /\ q \in [Ports -> Seq(Messages)]
    /\ pk \in [Packets -> PacketType] /\ fc \in [Factories -> FactoryType]

\* What an erased object leaves behind, and what the others refer to
Shaped(r, pk, fc) ==
    /\ \A k \in Packets :
          /\ r[k] = 0 => pk[k] = IdlePacket
          /\ pk[k].port # NoHandle <=> pk[k].associated \/ pk[k].queued
          /\ pk[k].target # NoHandle <=> pk[k].associated
    /\ \A f \in Factories : IF r[f] > 0 THEN fc[f].port \in Ports ELSE fc[f] = NoFactory

\* An erased port has no queue.
Cleared(r, q) == \A p \in Ports : r[p] = 0 => q[p] = <<>>

\* A packet whose completion is queued has one message, at its port.
Placed(q, pk) ==
    \A k \in Packets, p \in Ports :
        Occurrences(q[p], OfPacket(k)) = IF pk[k].queued /\ pk[k].port = p THEN 1 ELSE 0

\* Every reference is accounted for, object type by object type.
Counts(r, h, pk, fc) ==
    /\ \A k \in Packets : r[k] = h[k] + (IF pk[k].queued THEN 1 ELSE 0)
    /\ \A p \in Ports : r[p] = h[p] + Cardinality(PacketsOn(pk, p)) + Cardinality(FactoriesOn(fc, p))
    /\ \A x \in Targets : r[x] = h[x] + Cardinality(PacketsFor(pk, x))
    /\ \A f \in Factories : r[f] = h[f]

\* A factory with releases has a release message under way.
Announced(r, q, fc) ==
    \A f \in Factories : r[f] > 0 =>
        /\ fc[f].pending => Occurrences(q[fc[f].port], Release(f)) > 0
        /\ fc[f].releases > 0 /\ ~fc[f].shutdown => fc[f].pending

\* References, queues, packets and factories agree.
Core(r, h, q, pk, fc) ==
    /\ Typed(r, h, q, pk, fc) /\ Shaped(r, pk, fc) /\ Placed(q, pk)
    /\ Counts(r, h, pk, fc) /\ Announced(r, q, fc)

\* Sets of packets and factories have cardinalities.
LEMMA CountsTyped ==
    ASSUME NEW pk, NEW fc, NEW o
    PROVE  /\ IsFiniteSet(PacketsOn(pk, o)) /\ Cardinality(PacketsOn(pk, o)) \in Nat
           /\ IsFiniteSet(PacketsFor(pk, o)) /\ Cardinality(PacketsFor(pk, o)) \in Nat
           /\ IsFiniteSet(FactoriesOn(fc, o)) /\ Cardinality(FactoriesOn(fc, o)) \in Nat
<1>1. /\ PacketsOn(pk, o) \in SUBSET Packets /\ PacketsFor(pk, o) \in SUBSET Packets
      /\ FactoriesOn(fc, o) \in SUBSET Factories
  BY DEF PacketsOn, PacketsFor, FactoriesOn
<1> QED
  BY <1>1, FiniteStores, FS_Subset, FS_CardinalityType

\* One packet changes: the packets of every port and of every target are one
\* more, one less or as many.
LEMMA ChangedPacket ==
    ASSUME NEW pk \in [Packets -> PacketType], NEW k \in Packets, NEW a \in PacketType, NEW o
    PROVE  /\ Recounted(Cardinality(PacketsOn(pk, o)), Cardinality(PacketsOn([pk EXCEPT ![k] = a], o)),
                        pk[k].port = o, a.port = o)
           /\ Recounted(Cardinality(PacketsFor(pk, o)), Cardinality(PacketsFor([pk EXCEPT ![k] = a], o)),
                        pk[k].target = o, a.target = o)
<1> DEFINE new == [pk EXCEPT ![k] = a]
<1>1. /\ \A j : j # k => (j \in PacketsOn(pk, o) <=> j \in PacketsOn(new, o))
      /\ \A j : j # k => (j \in PacketsFor(pk, o) <=> j \in PacketsFor(new, o))
      /\ k \in PacketsOn(pk, o) <=> pk[k].port = o
      /\ k \in PacketsOn(new, o) <=> a.port = o
      /\ k \in PacketsFor(pk, o) <=> pk[k].target = o
      /\ k \in PacketsFor(new, o) <=> a.target = o
  BY DEF PacketsOn, PacketsFor
<1> HIDE DEF new
<1>2. /\ IsFiniteSet(PacketsOn(pk, o)) /\ IsFiniteSet(PacketsFor(pk, o))
      /\ IsFiniteSet(PacketsOn(new, o)) /\ IsFiniteSet(PacketsFor(new, o))
  BY CountsTyped
<1>3. Recounted(Cardinality(PacketsOn(pk, o)), Cardinality(PacketsOn(new, o)), pk[k].port = o, a.port = o)
  BY <1>1, <1>2, OneMore, SMT
<1>4. Recounted(Cardinality(PacketsFor(pk, o)), Cardinality(PacketsFor(new, o)), pk[k].target = o, a.target = o)
  BY <1>1, <1>2, OneMore, SMT
<1> QED
  BY <1>3, <1>4 DEF new

\* One factory changes.
LEMMA ChangedFactory ==
    ASSUME NEW fc \in [Factories -> FactoryType], NEW f \in Factories, NEW a \in FactoryType, NEW o
    PROVE  Recounted(Cardinality(FactoriesOn(fc, o)), Cardinality(FactoriesOn([fc EXCEPT ![f] = a], o)),
                     fc[f].port = o, a.port = o)
<1> DEFINE new == [fc EXCEPT ![f] = a]
<1>1. /\ \A j : j # f => (j \in FactoriesOn(fc, o) <=> j \in FactoriesOn(new, o))
      /\ f \in FactoriesOn(fc, o) <=> fc[f].port = o
      /\ f \in FactoriesOn(new, o) <=> a.port = o
  BY DEF FactoriesOn
<1> HIDE DEF new
<1>2. IsFiniteSet(FactoriesOn(fc, o)) /\ IsFiniteSet(FactoriesOn(new, o))
  BY CountsTyped
<1>3. Recounted(Cardinality(FactoriesOn(fc, o)), Cardinality(FactoriesOn(new, o)), fc[f].port = o, a.port = o)
  BY <1>1, <1>2, OneMore, SMT
<1> QED
  BY <1>3 DEF new

\* The guest gets a handle: to an object it has, or to a new port, packet or target.
LEMMA AddHandle ==
    ASSUME NEW r, NEW h, NEW q, NEW pk, NEW fc, Core(r, h, q, pk, fc), Cleared(r, q),
           NEW o \in Objects, h[o] < MaxHandles, o \in Factories => r[o] > 0,
           NEW r2, r2 = [r EXCEPT ![o] = @ + 1], NEW h2, h2 = [h EXCEPT ![o] = @ + 1]
    PROVE  Core(r2, h2, q, pk, fc) /\ Cleared(r2, q)
<1>1. Typed(r2, h2, q, pk, fc)
  BY SizesAssumption, SMT DEF Core, Typed
<1>2. \A b \in Objects : r[b] \in Nat /\ h[b] \in Nat /\ r2[b] = (IF b = o THEN r[b] + 1 ELSE r[b])
                         /\ h2[b] = (IF b = o THEN h[b] + 1 ELSE h[b])
  BY SMT DEF Core, Typed
<1>3. Shaped(r2, pk, fc) /\ Cleared(r2, q) /\ Announced(r2, q, fc)
  BY <1>2, Kinds, SMT DEF Core, Shaped, Cleared, Announced
<1>4. Counts(r2, h2, pk, fc)
  BY <1>2, Kinds, CountsTyped, SMT DEF Core, Counts
<1> QED
  BY <1>1, <1>3, <1>4 DEF Core

\* One reference and one handle to o less
OneLess(r, h, r2, h2, o) ==
    /\ \A b \in Objects : r[b] \in Nat /\ h[b] \in Nat
    /\ \A b \in Objects \ {o} : r2[b] = r[b] /\ h2[b] = h[b]
    /\ r2[o] = r[o] - 1 /\ h2[o] = h[o] - 1

\* One reference less and one handle less is the same difference.
LEMMA CountsKept ==
    ASSUME NEW r, NEW h, NEW pk, NEW fc, Counts(r, h, pk, fc), NEW o \in Objects, NEW r2, NEW h2,
           OneLess(r, h, r2, h2, o)
    PROVE  Counts(r2, h2, pk, fc)
<1> USE DEF OneLess
<1>1. ASSUME NEW c \in Nat, r[o] = h[o] + c
      PROVE  r2[o] = h2[o] + c
  BY <1>1, SMT
<1>2. \A b \in Objects, c \in Nat : r[b] = h[b] + c => r2[b] = h2[b] + c
  BY <1>1
<1>3. \A b \in Objects : r[b] = h[b] => r2[b] = h2[b]
  OBVIOUS
<1>4. ASSUME NEW p \in Ports
      PROVE  r2[p] = h2[p] + Cardinality(PacketsOn(pk, p)) + Cardinality(FactoriesOn(fc, p))
  <2> SUFFICES ASSUME NEW a \in Nat, NEW b \in Nat,
                      a = Cardinality(PacketsOn(pk, p)), b = Cardinality(FactoriesOn(fc, p))
               PROVE  r2[p] = h2[p] + a + b
    BY CountsTyped
  <2>1. r[p] = h[p] + a + b /\ p \in Objects
    BY Kinds DEF Counts
  <2> QED
    BY <2>1, SMT
<1>5. \A k \in Packets : r2[k] = h2[k] + (IF pk[k].queued THEN 1 ELSE 0)
  BY <1>2, Kinds, SMT DEF Counts
<1>6. \A x \in Targets : r2[x] = h2[x] + Cardinality(PacketsFor(pk, x))
  BY <1>2, Kinds, CountsTyped DEF Counts
<1>7. \A f \in Factories : r2[f] = h2[f]
  BY <1>3, Kinds DEF Counts
<1> QED
  BY <1>4, <1>5, <1>6, <1>7 DEF Counts

\* A handle is closed, and it is not the last reference to a packet or a
\* factory that still refers to something.
LEMMA DropHandle ==
    ASSUME NEW r, NEW h, NEW q, NEW pk, NEW fc, Core(r, h, q, pk, fc),
           NEW o \in Objects, h[o] > 0, o \in Packets => r[o] # 1 \/ pk[o] = IdlePacket,
           o \in Factories => r[o] # 1,
           NEW r2, r2 = Erase(r, {o}), NEW h2, h2 = [h EXCEPT ![o] = @ - 1]
    PROVE  Core(r2, h2, q, pk, fc)
<1>1. \A b \in Objects : r[b] \in Nat /\ h[b] \in 0 .. MaxHandles /\ h[b] \in Nat
  BY SizesAssumption, SMT DEF Core, Typed
<1>2. r[o] > 0
  BY <1>1, Kinds, CountsTyped, SMT DEF Core, Counts
<1>3. /\ \A b \in Objects \ {o} : r2[b] = r[b] /\ h2[b] = h[b]
      /\ r2[o] = r[o] - 1 /\ h2[o] = h[o] - 1
  BY <1>2 DEF Core, Typed, Erase
<1>4. Typed(r2, h2, q, pk, fc)
  BY <1>1, <1>2, SizesAssumption, SMT DEF Core, Typed, Erase
<1>5. /\ \A f \in Factories : (r2[f] > 0 <=> r[f] > 0)
      /\ \A k \in Packets : r2[k] = 0 => r[k] = 0 \/ pk[k] = IdlePacket
  <2>1. o \in Factories => r[o] > 1 /\ r2[o] > 0
    BY <1>1, <1>2, <1>3, SMT
  <2>2. o \in Packets /\ r2[o] = 0 => pk[o] = IdlePacket
    BY <1>1, <1>2, <1>3, SMT
  <2> QED
    BY <2>1, <2>2, <1>2, <1>3, Kinds
<1>6. Shaped(r2, pk, fc)
  BY <1>5 DEF Core, Shaped
<1>7. Announced(r2, q, fc)
  BY <1>5 DEF Core, Announced
<1>8. Counts(r2, h2, pk, fc)
  <2>1. Counts(r, h, pk, fc)
    BY DEF Core
  <2>2. OneLess(r, h, r2, h2, o)
    BY <1>1, <1>3 DEF OneLess
  <2> QED
    BY <2>1, <2>2, CountsKept
<1> QED
  BY <1>4, <1>6, <1>7, <1>8 DEF Core

\* The queue of a port that is gone goes with it: it has no message anybody counts on.
LEMMA ClearQueues ==
    ASSUME NEW r, NEW h, NEW q, NEW pk, NEW fc, Core(r, h, q, pk, fc)
    PROVE  Core(r, h, Queues(q, r), pk, fc) /\ Cleared(r, Queues(q, r))
<1> DEFINE q2 == Queues(q, r)
<1>1. \A p \in Ports : q2[p] = IF r[p] = 0 THEN <<>> ELSE q[p]
  BY DEF Queues
<1>2. Cleared(r, q2)
  BY <1>1 DEF Cleared
<1>3. Typed(r, h, q2, pk, fc)
  BY SMT DEF Core, Typed, Queues
<1> HIDE DEF q2
<1>4. ASSUME NEW p \in Ports, r[p] = 0
      PROVE  PacketsOn(pk, p) = {} /\ FactoriesOn(fc, p) = {}
  <2>1. r[p] = h[p] + Cardinality(PacketsOn(pk, p)) + Cardinality(FactoriesOn(fc, p)) /\ h[p] \in Nat
    BY SizesAssumption, Kinds, SMT DEF Core, Typed, Counts
  <2>2. Cardinality(PacketsOn(pk, p)) = 0 /\ Cardinality(FactoriesOn(fc, p)) = 0
    <3>1. Cardinality(PacketsOn(pk, p)) \in Nat /\ Cardinality(FactoriesOn(fc, p)) \in Nat
      BY CountsTyped
    <3> QED
      BY <3>1, <2>1, <1>4, SMT
  <2> QED
    BY <2>2, CountsTyped, FS_EmptySet
<1>5. ASSUME NEW p \in Ports, r[p] = 0, NEW m
      PROVE  Occurrences(q2[p], m) = 0
  <2>1. q2[p] = <<>> /\ <<>> \in Seq(Messages) /\ Len(<<>>) = 0
    BY <1>1, <1>5, SMT
  <2>2. ~(\E i \in 1 .. Len(<<>>) : <<>>[i] = m)
    BY <2>1, SMT
  <2>3. Occurrences(<<>>, m) \in Nat /\ ~(Occurrences(<<>>, m) > 0)
    BY <2>1, <2>2, PositionsFinite
  <2> QED
    BY <2>1, <2>3, SMT
<1>6. Placed(q2, pk)
  <2> SUFFICES ASSUME NEW k \in Packets, NEW p \in Ports
               PROVE  Occurrences(q2[p], OfPacket(k)) = IF pk[k].queued /\ pk[k].port = p THEN 1 ELSE 0
    BY DEF Placed
  <2>1. CASE r[p] = 0
    <3>1. pk[k].port # p
      BY <2>1, <1>4 DEF PacketsOn
    <3> QED
      BY <3>1, <2>1, <1>5
  <2>2. CASE r[p] # 0
    BY <2>2, <1>1, SMT DEF Core, Placed
  <2> QED
    BY <2>1, <2>2
<1>7. ASSUME NEW f \in Factories, r[f] > 0
      PROVE  q2[fc[f].port] = q[fc[f].port]
  <2>1. fc[f].port \in Ports
    BY <1>7 DEF Core, Shaped
  <2>2. f \in FactoriesOn(fc, fc[f].port)
    BY DEF FactoriesOn
  <2> QED
    BY <2>1, <2>2, <1>1, <1>4
<1>8. Announced(r, q2, fc)
  BY <1>7 DEF Core, Announced
<1> QED
  BY <1>2, <1>3, <1>6, <1>8 DEF Core, q2

\* r2 counts the references of packet k after it changed from b to a.
Rereferenced(r, r2, k, b, a) ==
    /\ r \in [Objects -> Nat] /\ r2 \in [Objects -> Nat]
    /\ \A p \in Ports : Recounted(r[p], r2[p], b.port = p, a.port = p)
    /\ \A x \in Targets : Recounted(r[x], r2[x], b.target = x, a.target = x)
    /\ Recounted(r[k], r2[k], b.queued, a.queued)
    /\ \A j \in Packets \ {k} : r2[j] = r[j]
    /\ \A f \in Factories : r2[f] = r[f]

\* Then the references are counted again.
LEMMA CountsPacket ==
    ASSUME NEW r, NEW r2, NEW h \in [Objects -> 0 .. MaxHandles], NEW pk \in [Packets -> PacketType], NEW fc,
           Counts(r, h, pk, fc), NEW k \in Packets, NEW a \in PacketType,
           Rereferenced(r, r2, k, pk[k], a)
    PROVE  Counts(r2, h, [pk EXCEPT ![k] = a], fc)
<1> DEFINE new == [pk EXCEPT ![k] = a]
<1>h. \A o \in Objects : h[o] \in Nat
  BY SizesAssumption, SMT
<1>1. ASSUME NEW p \in Ports
      PROVE  r2[p] = h[p] + Cardinality(PacketsOn(new, p)) + Cardinality(FactoriesOn(fc, p))
  <2>1. /\ Recounted(Cardinality(PacketsOn(pk, p)), Cardinality(PacketsOn(new, p)), pk[k].port = p, a.port = p)
        /\ Recounted(r[p], r2[p], pk[k].port = p, a.port = p)
        /\ r[p] = h[p] + Cardinality(PacketsOn(pk, p)) + Cardinality(FactoriesOn(fc, p))
        /\ h[p] \in Nat /\ Cardinality(FactoriesOn(fc, p)) \in Nat
    BY <1>h, ChangedPacket, CountsTyped, Kinds DEF Rereferenced, Counts
  <2> HIDE DEF new
  <2> QED
    BY <2>1, SMT DEF Recounted
<1>2. ASSUME NEW x \in Targets
      PROVE  r2[x] = h[x] + Cardinality(PacketsFor(new, x))
  <2>1. /\ Recounted(Cardinality(PacketsFor(pk, x)), Cardinality(PacketsFor(new, x)), pk[k].target = x, a.target = x)
        /\ Recounted(r[x], r2[x], pk[k].target = x, a.target = x)
        /\ r[x] = h[x] + Cardinality(PacketsFor(pk, x))
        /\ h[x] \in Nat
    BY <1>h, ChangedPacket, Kinds DEF Rereferenced, Counts
  <2> HIDE DEF new
  <2> QED
    BY <2>1, SMT DEF Recounted
<1>3. r2[k] = h[k] + (IF new[k].queued THEN 1 ELSE 0)
  <2>1. /\ r[k] = h[k] + (IF pk[k].queued THEN 1 ELSE 0) /\ h[k] \in Nat /\ new[k] = a
        /\ Recounted(r[k], r2[k], pk[k].queued, a.queued)
        /\ pk[k].queued \in BOOLEAN /\ a.queued \in BOOLEAN
    BY <1>h, Kinds DEF Counts, Rereferenced, PacketType
  <2> HIDE DEF new
  <2> QED
    BY <2>1, SMT DEF Recounted
<1>4. \A j \in Packets \ {k} : r2[j] = h[j] + (IF new[j].queued THEN 1 ELSE 0)
  BY SMT DEF Counts, Rereferenced
<1>5. \A f \in Factories : r2[f] = h[f]
  BY DEF Counts, Rereferenced
<1> HIDE DEF new
<1>6. Counts(r2, h, new, fc)
  BY <1>1, <1>2, <1>3, <1>4, <1>5 DEF Counts
<1> QED
  BY <1>6 DEF new

\* The queues q2 have the messages that the queues q have, but for those of k.
SameButPacket(q, q2, k) ==
    /\ q2 \in [Ports -> Seq(Messages)]
    /\ \A p \in Ports :
          /\ \A j \in Packets \ {k} : Occurrences(q2[p], OfPacket(j)) = Occurrences(q[p], OfPacket(j))
          /\ \A f \in Factories : Occurrences(q2[p], Release(f)) = Occurrences(q[p], Release(f))

\* What Core says of packet k, if it is a
PacketWell(r, q, k, a) ==
    /\ a \in PacketType
    /\ r[k] = 0 => a = IdlePacket
    /\ a.port # NoHandle <=> a.associated \/ a.queued
    /\ a.target # NoHandle <=> a.associated
    /\ \A p \in Ports : Occurrences(q[p], OfPacket(k)) = IF a.queued /\ a.port = p THEN 1 ELSE 0

\* A packet is tied to a port or a target, or lets go of them, together with
\* its references and its message.
LEMMA ChangePacket ==
    ASSUME NEW r, NEW h, NEW q, NEW pk, NEW fc, Core(r, h, q, pk, fc), NEW k \in Packets,
           NEW a, NEW r2, NEW q2, Rereferenced(r, r2, k, pk[k], a), SameButPacket(q, q2, k), PacketWell(r2, q2, k, a)
    PROVE  Core(r2, h, q2, [pk EXCEPT ![k] = a], fc)
<1> DEFINE new == [pk EXCEPT ![k] = a]
<1>0. /\ h \in [Objects -> 0 .. MaxHandles] /\ pk \in [Packets -> PacketType]
      /\ fc \in [Factories -> FactoryType] /\ a \in PacketType /\ Counts(r, h, pk, fc)
  BY DEF Core, Typed, PacketWell
<1>1. new \in [Packets -> PacketType] /\ new[k] = a /\ \A j \in Packets \ {k} : new[j] = pk[j]
  BY <1>0
<1>2. Counts(r2, h, new, fc)
  BY <1>0, CountsPacket
<1> HIDE DEF new
<1>3. Typed(r2, h, q2, new, fc)
  BY <1>0, <1>1 DEF Typed, Rereferenced, SameButPacket
<1>4. (\A j \in Packets \ {k} : r2[j] = r[j]) /\ (\A f \in Factories : r2[f] = r[f])
  BY DEF Rereferenced
<1>5. Shaped(r2, new, fc)
  <2>1. \A j \in Packets :
           /\ r2[j] = 0 => new[j] = IdlePacket
           /\ new[j].port # NoHandle <=> new[j].associated \/ new[j].queued
           /\ new[j].target # NoHandle <=> new[j].associated
    <3> SUFFICES ASSUME NEW j \in Packets
                 PROVE  /\ r2[j] = 0 => new[j] = IdlePacket
                        /\ new[j].port # NoHandle <=> new[j].associated \/ new[j].queued
                        /\ new[j].target # NoHandle <=> new[j].associated
      OBVIOUS
    <3>1. CASE j = k
      BY <3>1, <1>1 DEF PacketWell
    <3>2. CASE j # k
      <4>1. new[j] = pk[j] /\ r2[j] = r[j]
        BY <3>2, <1>1, <1>4
      <4> QED
        BY <4>1 DEF Core, Shaped
    <3> QED
      BY <3>1, <3>2
  <2> QED
    BY <2>1, <1>4 DEF Core, Shaped
<1>6. Placed(q2, new)
  BY <1>1, SMT DEF Core, Placed, SameButPacket, PacketWell
<1>7. Announced(r2, q2, fc)
  <2>1. \A f \in Factories : r[f] > 0 => fc[f].port \in Ports
    BY DEF Core, Shaped
  <2> QED
    BY <2>1, <1>4 DEF Core, Announced, SameButPacket
<1> QED
  BY <1>2, <1>3, <1>5, <1>6, <1>7 DEF Core, new

\* r2 and h2 count what refers to the objects when factory f becomes a.
Refactored(r, h, r2, h2, f, b, a) ==
    /\ r \in [Objects -> Nat] /\ r2 \in [Objects -> Nat]
    /\ h \in [Objects -> 0 .. MaxHandles] /\ h2 \in [Objects -> 0 .. MaxHandles]
    /\ \A p \in Ports : Recounted(r[p], r2[p], b.port = p, a.port = p) /\ h2[p] = h[p]
    /\ r2[f] = h2[f]
    /\ \A o \in Objects \ {f} : o \notin Ports => r2[o] = r[o] /\ h2[o] = h[o]

\* What Core says of factory f, if it is a and has n references
FactoryWell(q, f, a, n) ==
    /\ a \in FactoryType
    /\ IF n > 0 THEN a.port \in Ports ELSE a = NoFactory
    /\ a.pending => Occurrences(q[a.port], Release(f)) > 0
    /\ a.releases > 0 /\ ~a.shutdown => a.pending

\* The queues q2 have the messages of packets and of the factories of S that
\* the queues q have.
SameOf(q, q2, S) ==
    /\ q2 \in [Ports -> Seq(Messages)]
    /\ \A p \in Ports :
          /\ \A k \in Packets : Occurrences(q2[p], OfPacket(k)) = Occurrences(q[p], OfPacket(k))
          /\ \A f \in S : Occurrences(q2[p], Release(f)) = Occurrences(q[p], Release(f))

\* Two counts that change alike
Alike(n, m, s, t) ==
    /\ n \in Nat /\ m \in Nat /\ s \in Nat /\ t \in Nat
    /\ (t = s /\ m = n) \/ (t = s + 1 /\ m = n + 1) \/ (s = t + 1 /\ n = m + 1)

\* A sum changes with its last part.
LEMMA SumChanges ==
    ASSUME NEW n, NEW m, NEW s, NEW t, Alike(n, m, s, t), NEW c \in Nat, NEW d \in Nat, s = c + d + n
    PROVE  t = c + d + m
  BY SMT DEF Alike

\* A factory is created, closed or changed, together with its references and
\* its release message.
LEMMA ChangeFactory ==
    ASSUME NEW r, NEW h, NEW q, NEW pk, NEW fc, Core(r, h, q, pk, fc), NEW f \in Factories,
           NEW a, NEW r2, NEW h2, NEW q2, Refactored(r, h, r2, h2, f, fc[f], a),
           FactoryWell(q2, f, a, r2[f]), SameOf(q, q2, Factories \ {f})
    PROVE  Core(r2, h2, q2, pk, [fc EXCEPT ![f] = a])
<1> DEFINE new == [fc EXCEPT ![f] = a]
<1>0. pk \in [Packets -> PacketType] /\ fc \in [Factories -> FactoryType] /\ a \in FactoryType
  BY DEF Core, Typed, FactoryWell
<1>1. new \in [Factories -> FactoryType] /\ new[f] = a /\ \A g \in Factories \ {f} : new[g] = fc[g]
  BY <1>0
<1>2. \A p \in Ports :
        Recounted(Cardinality(FactoriesOn(fc, p)), Cardinality(FactoriesOn(new, p)), fc[f].port = p, a.port = p)
  BY <1>0, ChangedFactory
<1> HIDE DEF new
<1>3. Typed(r2, h2, q2, pk, new)
  BY <1>0, <1>1 DEF Typed, Refactored, SameOf
<1>4. \A o \in Packets \cup Targets \cup (Factories \ {f}) : r2[o] = r[o] /\ h2[o] = h[o]
  BY Kinds DEF Refactored
<1>5. Shaped(r2, pk, new)
  <2>1. \A g \in Factories : IF r2[g] > 0 THEN new[g].port \in Ports ELSE new[g] = NoFactory
    BY <1>1, <1>4 DEF Core, Shaped, FactoryWell
  <2> QED
    BY <2>1, <1>4 DEF Core, Shaped
<1>6. Announced(r2, q2, new)
  <2>1. \A g \in Factories : r[g] > 0 => fc[g].port \in Ports
    BY DEF Core, Shaped
  <2> QED
    BY <2>1, <1>1, <1>4, SMT DEF Core, Announced, FactoryWell, SameOf
<1>7. ASSUME NEW p \in Ports
      PROVE  r2[p] = h2[p] + Cardinality(PacketsOn(pk, p)) + Cardinality(FactoriesOn(new, p))
  <2>1. /\ Recounted(Cardinality(FactoriesOn(fc, p)), Cardinality(FactoriesOn(new, p)), fc[f].port = p, a.port = p)
        /\ Recounted(r[p], r2[p], fc[f].port = p, a.port = p)
        /\ r[p] = h2[p] + Cardinality(PacketsOn(pk, p)) + Cardinality(FactoriesOn(fc, p))
        /\ h2[p] \in Nat /\ Cardinality(PacketsOn(pk, p)) \in Nat
    <3>1. r[p] = h[p] + Cardinality(PacketsOn(pk, p)) + Cardinality(FactoriesOn(fc, p))
      BY DEF Core, Counts
    <3>2. Recounted(r[p], r2[p], fc[f].port = p, a.port = p) /\ h2[p] = h[p] /\ h2[p] \in 0 .. MaxHandles
      BY Kinds DEF Refactored
    <3>3. h2[p] \in Nat
      BY <3>2, SizesAssumption, SMT
    <3> QED
      BY <1>2, <3>1, <3>2, <3>3, CountsTyped
  <2>2. Alike(Cardinality(FactoriesOn(fc, p)), Cardinality(FactoriesOn(new, p)), r[p], r2[p])
    BY <2>1 DEF Recounted, Alike
  <2> QED
    BY <2>1, <2>2, SumChanges, SMT
<1>8. Counts(r2, h2, pk, new)
  <2>1. \A k \in Packets : r2[k] = h2[k] + (IF pk[k].queued THEN 1 ELSE 0)
    BY <1>4 DEF Core, Counts
  <2>2. \A x \in Targets : r2[x] = h2[x] + Cardinality(PacketsFor(pk, x))
    BY <1>4 DEF Core, Counts
  <2>3. \A g \in Factories \ {f} : r[g] = h[g]
    BY DEF Core, Counts
  <2>4. \A g \in Factories : r2[g] = h2[g]
    BY <1>4, <2>3 DEF Refactored
  <2> QED
    BY <1>7, <2>1, <2>2, <2>4 DEF Counts
<1>9. Placed(q2, pk)
  BY DEF Core, Placed, SameOf
<1> QED
  BY <1>3, <1>5, <1>6, <1>8, <1>9 DEF Core, new

\* A message that is nobody's comes or goes.
LEMMA ChangeQueue ==
    ASSUME NEW r, NEW h, NEW q, NEW pk, NEW fc, Core(r, h, q, pk, fc),
           NEW q2, SameOf(q, q2, {f \in Factories : r[f] > 0})
    PROVE  Core(r, h, q2, pk, fc)
<1>1. \A f \in Factories : r[f] > 0 => fc[f].port \in Ports
  BY DEF Core, Shaped
<1>2. Announced(r, q2, fc)
  BY <1>1 DEF Core, Announced, SameOf
<1>3. Typed(r, h, q2, pk, fc)
  BY DEF Core, Typed, SameOf
<1>4. Placed(q2, pk)
  BY DEF Core, Placed, SameOf
<1> QED
  BY <1>2, <1>3, <1>4 DEF Core

\* The packets of S are tied to port p, and their completions are not queued.
ReadyOn(pk, p, S) == \A k \in S : k \in Packets /\ pk[k].associated /\ ~pk[k].queued /\ pk[k].port = p

\* Then q2 has their messages in the queue of p, too.
JoinedBy(q, q2, p, S) ==
    /\ q2 \in [Ports -> Seq(Messages)] /\ \A o \in Ports \ {p} : q2[o] = q[o]
    /\ GainedAll(q[p], S, q2[p])

\* The packets of S have their completions queued.
MarkQueued(pk, S) == [k \in Packets |-> IF k \in S THEN [pk[k] EXCEPT !.queued = TRUE] ELSE pk[k]]

\* The completions of the packets of S are queued.
LEMMA QueuePackets ==
    ASSUME NEW r, NEW h, NEW q, NEW pk, NEW fc, Core(r, h, q, pk, fc), NEW p \in Ports, NEW S,
           ReadyOn(pk, p, S), NEW q2, JoinedBy(q, q2, p, S)
    PROVE  Core(Retain(r, S), h, q2, MarkQueued(pk, S), fc)
<1> DEFINE new == MarkQueued(pk, S)
           r2  == Retain(r, S)
<1>0. /\ r \in [Objects -> Nat] /\ h \in [Objects -> 0 .. MaxHandles]
      /\ pk \in [Packets -> PacketType] /\ fc \in [Factories -> FactoryType] /\ S \in SUBSET Packets
  BY DEF Core, Typed, ReadyOn
<1>1. /\ new \in [Packets -> PacketType]
      /\ \A k \in S : new[k].queued = TRUE
      /\ \A k \in Packets \ S : new[k] = pk[k]
      /\ \A k \in Packets : new[k].port = pk[k].port /\ new[k].target = pk[k].target
                            /\ new[k].associated = pk[k].associated
  BY <1>0 DEF PacketType, MarkQueued
<1>2. /\ r2 \in [Objects -> Nat]
      /\ \A o \in Objects \ S : r2[o] = r[o]
      /\ \A k \in S : r2[k] = r[k] + 1
  BY <1>0, Kinds, SMT DEF Retain
<1> HIDE DEF new, r2
<1>3. Typed(r2, h, q2, new, fc)
  BY <1>0, <1>1, <1>2 DEF Typed, JoinedBy
<1>4. \A o \in Objects : o \notin Packets => r2[o] = r[o]
  BY <1>0, <1>2
<1>5. Shaped(r2, new, fc)
  <2>1. \A k \in S : r2[k] # 0 /\ new[k].port # NoHandle /\ new[k].associated
    BY <1>0, <1>1, <1>2, Kinds, SMT DEF ReadyOn
  <2>2. \A k \in Packets \ S : r2[k] = r[k] /\ new[k] = pk[k]
    BY <1>1, <1>2, Kinds
  <2>3. \A k \in Packets :
           /\ r2[k] = 0 => new[k] = IdlePacket
           /\ new[k].port # NoHandle <=> new[k].associated \/ new[k].queued
           /\ new[k].target # NoHandle <=> new[k].associated
    <3> SUFFICES ASSUME NEW k \in Packets
                 PROVE  /\ r2[k] = 0 => new[k] = IdlePacket
                        /\ new[k].port # NoHandle <=> new[k].associated \/ new[k].queued
                        /\ new[k].target # NoHandle <=> new[k].associated
      OBVIOUS
    <3>1. /\ r[k] = 0 => pk[k] = IdlePacket
          /\ pk[k].port # NoHandle <=> pk[k].associated \/ pk[k].queued
          /\ pk[k].target # NoHandle <=> pk[k].associated
      BY DEF Core, Shaped
    <3>2. CASE k \in S
      BY <3>1, <3>2, <2>1, <1>1
    <3>3. CASE k \notin S
      BY <3>1, <3>3, <2>2
    <3> QED
      BY <3>2, <3>3
  <2> QED
    BY <2>3, <1>4, Kinds DEF Core, Shaped
<1>6. ASSUME NEW o \in Ports, NEW m
      PROVE  Recounted(Occurrences(q[o], m), Occurrences(q2[o], m), FALSE, o = p /\ \E k \in S : m = OfPacket(k))
  <2>1. CASE o = p
    BY <2>1 DEF JoinedBy, GainedAll
  <2>2. CASE o # p
    <3>1. q2[o] = q[o] /\ q[o] \in Seq(Messages)
      BY <2>2 DEF JoinedBy, Core, Typed
    <3>2. Occurrences(q[o], m) \in Nat
      BY <3>1, PositionsFinite
    <3> QED
      BY <2>2, <3>1, <3>2 DEF Recounted
  <2> QED
    BY <2>1, <2>2
<1>7. Placed(q2, new)
  <2> SUFFICES ASSUME NEW k \in Packets, NEW o \in Ports
               PROVE  Occurrences(q2[o], OfPacket(k)) = IF new[k].queued /\ new[k].port = o THEN 1 ELSE 0
    BY DEF Placed
  <2>1. (\E j \in S : OfPacket(k) = OfPacket(j)) <=> k \in S
    BY <1>0, MessageKinds
  <2>2. /\ Recounted(Occurrences(q[o], OfPacket(k)), Occurrences(q2[o], OfPacket(k)), FALSE, o = p /\ k \in S)
        /\ Occurrences(q[o], OfPacket(k)) = IF pk[k].queued /\ pk[k].port = o THEN 1 ELSE 0
    BY <2>1, <1>6 DEF Core, Placed
  <2>3. CASE k \in S
    <3>1. ~pk[k].queued /\ new[k].queued /\ new[k].port = p
      BY <2>3, <1>1 DEF ReadyOn
    <3>2. Occurrences(q[o], OfPacket(k)) = 0
      BY <3>1, <2>2
    <3>3. Occurrences(q2[o], OfPacket(k)) = IF o = p /\ k \in S THEN 1 ELSE 0
      BY <3>2, <2>2, FromNone
    <3> QED
      BY <3>1, <3>3, <2>3
  <2>4. CASE k \notin S
    BY <2>2, <2>4, <1>1 DEF Recounted
  <2> QED
    BY <2>3, <2>4
<1>8. Announced(r2, q2, fc)
  <2>1. \A f \in Factories : r2[f] = r[f] /\ (r[f] > 0 => fc[f].port \in Ports)
    BY <1>4, Kinds DEF Core, Shaped
  <2>2. \A o \in Ports, f \in Factories : Occurrences(q2[o], Release(f)) = Occurrences(q[o], Release(f))
    <3> SUFFICES ASSUME NEW o \in Ports, NEW f \in Factories
                 PROVE  Occurrences(q2[o], Release(f)) = Occurrences(q[o], Release(f))
      OBVIOUS
    <3>1. ~(\E k \in S : Release(f) = OfPacket(k))
      BY <1>0, MessageKinds, Kinds
    <3> QED
      BY <3>1, <1>6 DEF Recounted
  <2> QED
    BY <2>1, <2>2 DEF Core, Announced
<1>9. Counts(r2, h, new, fc)
  <2>1. \A o : PacketsOn(new, o) = PacketsOn(pk, o) /\ PacketsFor(new, o) = PacketsFor(pk, o)
    BY <1>1 DEF PacketsOn, PacketsFor
  <2>2. ASSUME NEW k \in Packets
        PROVE  r2[k] = h[k] + (IF new[k].queued THEN 1 ELSE 0)
    <3>1. h[k] \in Nat /\ r[k] = h[k] + (IF pk[k].queued THEN 1 ELSE 0)
      BY <1>0, SizesAssumption, Kinds, SMT DEF Core, Counts
    <3>2. k \in S => ~pk[k].queued
      BY DEF ReadyOn
    <3> QED
      BY <3>1, <3>2, <1>1, <1>2, Kinds, SMT
  <2> QED
    BY <2>1, <2>2, <1>4, Kinds DEF Core, Counts
<1> QED
  BY <1>3, <1>5, <1>7, <1>8, <1>9 DEF Core, new, r2

----------------------------------------------------------------------------
(* The operations on packets.                                              *)

\* What a packet, a factory or the guest refers to has references.
LEMMA Referenced ==
    ASSUME NEW r, NEW h, NEW q, NEW pk, NEW fc, Core(r, h, q, pk, fc)
    PROVE  /\ \A k \in Packets : pk[k].port \in Ports => r[pk[k].port] > 0
           /\ \A k \in Packets : pk[k].target \in Targets => r[pk[k].target] > 0
           /\ \A k \in Packets : pk[k].queued => r[k] > 0
           /\ \A f \in Factories : fc[f].port \in Ports => r[fc[f].port] > 0
           /\ \A o \in Objects : h[o] > 0 => r[o] > 0
<1>1. \A o \in Objects : h[o] \in Nat
  BY SizesAssumption, SMT DEF Core, Typed
<1>2. Counts(r, h, pk, fc)
  BY DEF Core
<1>3. ASSUME NEW S, IsFiniteSet(S), NEW e \in S
      PROVE  Cardinality(S) \in Nat /\ Cardinality(S) > 0
  BY <1>3, FS_CardinalityType, FS_EmptySet, SMT
<1>4. ASSUME NEW p \in Ports, NEW a \in Nat, NEW b \in Nat, r[p] = h[p] + a + b, a > 0 \/ b > 0 \/ h[p] > 0
      PROVE  r[p] > 0
  <2>1. h[p] \in Nat
    BY <1>1, Kinds
  <2> QED
    BY <1>4, <2>1, SMT
<1>5. ASSUME NEW p \in Ports, PacketsOn(pk, p) # {} \/ FactoriesOn(fc, p) # {} \/ h[p] > 0
      PROVE  r[p] > 0
  <2>1. /\ Cardinality(PacketsOn(pk, p)) \in Nat /\ Cardinality(FactoriesOn(fc, p)) \in Nat
        /\ r[p] = h[p] + Cardinality(PacketsOn(pk, p)) + Cardinality(FactoriesOn(fc, p))
    BY <1>2, CountsTyped DEF Counts
  <2>2. Cardinality(PacketsOn(pk, p)) > 0 \/ Cardinality(FactoriesOn(fc, p)) > 0 \/ h[p] > 0
    BY <1>3, <1>5, CountsTyped
  <2> QED
    BY <2>1, <2>2, <1>4
<1>6. ASSUME NEW x \in Targets, PacketsFor(pk, x) # {} \/ h[x] > 0
      PROVE  r[x] > 0
  <2>1. Cardinality(PacketsFor(pk, x)) \in Nat /\ r[x] = h[x] + Cardinality(PacketsFor(pk, x)) /\ h[x] \in Nat
    BY <1>1, <1>2, CountsTyped, Kinds DEF Counts
  <2>2. Cardinality(PacketsFor(pk, x)) > 0 \/ h[x] > 0
    BY <1>3, <1>6, CountsTyped
  <2> QED
    BY <2>1, <2>2, SMT
<1>7. \A k \in Packets : r[k] = h[k] + (IF pk[k].queued THEN 1 ELSE 0) /\ h[k] \in Nat
  BY <1>1, <1>2, Kinds DEF Counts
<1>8. \A k \in Packets : pk[k].queued \/ h[k] > 0 => r[k] > 0
  BY <1>7, SMT
<1>9. \A f \in Factories : r[f] = h[f]
  BY <1>2 DEF Counts
<1>10. \A k \in Packets : k \in PacketsOn(pk, pk[k].port) /\ k \in PacketsFor(pk, pk[k].target)
  BY DEF PacketsOn, PacketsFor
<1>11. \A f \in Factories : f \in FactoriesOn(fc, fc[f].port)
  BY DEF FactoriesOn
<1>12. \A o \in Objects : h[o] > 0 => r[o] > 0
  BY <1>5, <1>6, <1>8, <1>9, Kinds
<1> QED
  BY <1>5, <1>6, <1>8, <1>10, <1>11, <1>12

\* Packet k, which is b, gives up its references.
LetGo(r, r2, k, b) ==
    /\ r2 \in [Objects -> Nat]
    /\ \A o \in Objects :
          r2[o] = IF o = b.port \/ o = b.target \/ (o = k /\ b.queued) THEN r[o] - 1 ELSE r[o]

\* Its message leaves the queue of its port.
DropsMessage(q, q2, k, b) ==
    /\ ~b.queued => q2 = q
    /\ b.queued => /\ q2 \in [Ports -> Seq(Messages)] /\ \A p \in Ports \ {b.port} : q2[p] = q[p]
                   /\ Gained(q2[b.port], OfPacket(k), q[b.port])

\* A packet is cleared (clear_wait_packet_completion_state), together with
\* its references and its message.
LEMMA FreePacket ==
    ASSUME NEW r, NEW h, NEW q, NEW pk, NEW fc, Core(r, h, q, pk, fc), NEW k \in Packets,
           NEW r2, LetGo(r, r2, k, pk[k]), NEW q2, DropsMessage(q, q2, k, pk[k])
    PROVE  Core(r2, h, q2, [pk EXCEPT ![k] = IdlePacket], fc)
<1> DEFINE b == pk[k]
<1>1. /\ r \in [Objects -> Nat] /\ q \in [Ports -> Seq(Messages)] /\ b \in PacketType
      /\ b.port \in Ports \cup {NoHandle} /\ b.target \in Targets \cup {NoHandle} /\ b.queued \in BOOLEAN
  BY DEF Core, Typed, PacketType
<1>2. /\ b.port \in Ports => r[b.port] > 0
      /\ b.target \in Targets => r[b.target] > 0
      /\ b.queued => r[k] > 0
      /\ b.queued => b.port \in Ports
  <2>1. b.queued => b.port \in Ports
    BY <1>1 DEF Core, Shaped
  <2> QED
    BY <2>1, Referenced
<1>3. /\ IdlePacket \in PacketType /\ IdlePacket.port = NoHandle /\ IdlePacket.target = NoHandle
      /\ IdlePacket.queued = FALSE /\ IdlePacket.associated = FALSE
  BY DEF IdlePacket, PacketType
<1>4. \A k2 \in Packets, p \in Ports : Occurrences(q[p], OfPacket(k2)) = IF pk[k2].queued /\ pk[k2].port = p THEN 1 ELSE 0
  BY DEF Core, Placed
<1> HIDE DEF b
<1>5. \A o \in Objects : r[o] \in Nat /\ r2[o] \in Nat
  BY <1>1 DEF LetGo
<1>6. Rereferenced(r, r2, k, b, IdlePacket)
  <2>1. ASSUME NEW p \in Ports
        PROVE  r2[p] = IF b.port = p THEN r[p] - 1 ELSE r[p]
    <3>1. p \in Objects /\ p # b.target /\ p # k
      BY <1>1, Kinds
    <3> QED
      BY <3>1 DEF LetGo, b
  <2>2. ASSUME NEW x \in Targets
        PROVE  r2[x] = IF b.target = x THEN r[x] - 1 ELSE r[x]
    <3>1. x \in Objects /\ x # b.port /\ x # k
      BY <1>1, Kinds
    <3> QED
      BY <3>1 DEF LetGo, b
  <2>3. ASSUME NEW j \in Packets
        PROVE  r2[j] = IF j = k /\ b.queued THEN r[j] - 1 ELSE r[j]
    <3>1. j \in Objects /\ j # b.port /\ j # b.target
      BY <1>1, Kinds
    <3> QED
      BY <3>1 DEF LetGo, b
  <2>4. ASSUME NEW f \in Factories
        PROVE  r2[f] = r[f]
    <3>1. f \in Objects /\ f # b.port /\ f # b.target /\ f # k
      BY <1>1, Kinds
    <3> QED
      BY <3>1 DEF LetGo, b
  <2>5. \A p \in Ports : Recounted(r[p], r2[p], b.port = p, IdlePacket.port = p)
    <3>1. \A p \in Ports : IdlePacket.port # p /\ r[p] \in Nat /\ r2[p] \in Nat
      BY <1>3, <1>5, Kinds
    <3> QED
      BY <3>1, <2>1, <1>2, SMT DEF Recounted
  <2>6. \A x \in Targets : Recounted(r[x], r2[x], b.target = x, IdlePacket.target = x)
    <3>1. \A x \in Targets : IdlePacket.target # x /\ r[x] \in Nat /\ r2[x] \in Nat
      BY <1>3, <1>5, Kinds
    <3> QED
      BY <3>1, <2>2, <1>2, SMT DEF Recounted
  <2>7. Recounted(r[k], r2[k], b.queued, IdlePacket.queued)
    <3>1. r[k] \in Nat /\ r2[k] \in Nat
      BY <1>5, Kinds
    <3> QED
      BY <3>1, <2>3, <1>1, <1>2, <1>3, SMT DEF Recounted
  <2> QED
    BY <1>1, <2>3, <2>4, <2>5, <2>6, <2>7 DEF Rereferenced, LetGo
<1>7. ASSUME NEW p \in Ports, NEW m
      PROVE  Recounted(Occurrences(q2[p], m), Occurrences(q[p], m), FALSE, b.queued /\ b.port = p /\ m = OfPacket(k))
  <2>1. CASE b.queued /\ b.port = p
    <3>1. Gained(q2[p], OfPacket(k), q[p])
      BY <2>1 DEF DropsMessage, b
    <3> QED
      BY <3>1, <2>1 DEF Gained, Recounted
  <2>2. CASE ~(b.queued /\ b.port = p)
    <3>1. q2[p] = q[p] /\ q[p] \in Seq(Messages)
      BY <2>2, <1>1 DEF DropsMessage, b
    <3>2. Occurrences(q[p], m) \in Nat
      BY <3>1, PositionsFinite
    <3> QED
      BY <2>2, <3>1, <3>2 DEF Recounted
  <2> QED
    BY <2>1, <2>2
<1>8. SameButPacket(q, q2, k)
  <2>1. q2 \in [Ports -> Seq(Messages)]
    BY <1>1 DEF DropsMessage, b
  <2>2. \A p \in Ports : \A m : m # OfPacket(k) => Occurrences(q2[p], m) = Occurrences(q[p], m)
    BY <1>7 DEF Recounted
  <2>3. /\ \A j \in Packets \ {k} : OfPacket(j) # OfPacket(k)
        /\ \A f \in Factories : Release(f) # OfPacket(k)
    BY MessageKinds, Kinds
  <2> QED
    BY <2>1, <2>2, <2>3 DEF SameButPacket
<1>9. PacketWell(r2, q2, k, IdlePacket)
  <2>1. \A p \in Ports : Occurrences(q2[p], OfPacket(k)) = 0
    <3> SUFFICES ASSUME NEW p \in Ports
                 PROVE  Occurrences(q2[p], OfPacket(k)) = 0
      OBVIOUS
    <3>1. Recounted(Occurrences(q2[p], OfPacket(k)), Occurrences(q[p], OfPacket(k)), FALSE, b.queued /\ b.port = p)
      BY <1>7
    <3>2. Occurrences(q[p], OfPacket(k)) = IF b.queued /\ b.port = p THEN 1 ELSE 0
      BY <1>4 DEF b
    <3> QED
      BY <3>1, <3>2, SMT DEF Recounted
  <2> QED
    BY <2>1, <1>3 DEF PacketWell
<1> QED
  BY <1>6, <1>8, <1>9, ChangePacket DEF b

\* Packet k becomes a: it takes references ...
Takes(r, r2, k, a) ==
    /\ r2 \in [Objects -> Nat]
    /\ \A o \in Objects :
          r2[o] = IF o = a.port \/ o = a.target \/ (o = k /\ a.queued) THEN r[o] + 1 ELSE r[o]

\* ... and its message joins the queue of its port.
AddsMessage(q, q2, k, a) ==
    /\ q2 \in [Ports -> Seq(Messages)]
    /\ ~a.queued => q2 = q
    /\ a.queued => /\ \A p \in Ports \ {a.port} : q2[p] = q[p]
                   /\ Gained(q[a.port], OfPacket(k), q2[a.port])

\* A packet that is tied to a port and waits for a target or is complete
InUse(a) ==
    /\ a \in PacketType /\ a.port \in Ports
    /\ a.target # NoHandle <=> a.associated
    /\ a.associated \/ a.queued

\* A packet that is idle and exists is tied to a port and a target, or
\* completes at once.
LEMMA TiePacket ==
    ASSUME NEW r, NEW h, NEW q, NEW pk, NEW fc, Core(r, h, q, pk, fc), NEW k \in Packets, r[k] > 0,
           ~pk[k].associated, ~pk[k].queued, NEW a, InUse(a),
           NEW r2, Takes(r, r2, k, a), NEW q2, AddsMessage(q, q2, k, a)
    PROVE  Core(r2, h, q2, [pk EXCEPT ![k] = a], fc)
<1>1. /\ r \in [Objects -> Nat] /\ q \in [Ports -> Seq(Messages)]
      /\ a.target \in Targets \cup {NoHandle} /\ a.queued \in BOOLEAN /\ a.associated \in BOOLEAN
  BY DEF Core, Typed, PacketType, InUse
<1>2. pk[k].port = NoHandle /\ pk[k].target = NoHandle
  BY DEF Core, Shaped
<1>3. a.port \in Ports
  BY DEF InUse
<1>5. \A o \in Objects : r[o] \in Nat /\ r2[o] \in Nat
  BY <1>1 DEF Takes
<1>6. Rereferenced(r, r2, k, pk[k], a)
  <2>1. ASSUME NEW p \in Ports
        PROVE  r2[p] = IF a.port = p THEN r[p] + 1 ELSE r[p]
    <3>1. p \in Objects /\ p # a.target /\ p # k
      BY <1>1, Kinds
    <3> QED
      BY <3>1 DEF Takes
  <2>2. ASSUME NEW x \in Targets
        PROVE  r2[x] = IF a.target = x THEN r[x] + 1 ELSE r[x]
    <3>1. x \in Objects /\ x # a.port /\ x # k
      BY <1>3, Kinds
    <3> QED
      BY <3>1 DEF Takes
  <2>3. ASSUME NEW j \in Packets
        PROVE  r2[j] = IF j = k /\ a.queued THEN r[j] + 1 ELSE r[j]
    <3>1. j \in Objects /\ j # a.port /\ j # a.target
      BY <1>1, <1>3, Kinds
    <3> QED
      BY <3>1 DEF Takes
  <2>4. ASSUME NEW f \in Factories
        PROVE  r2[f] = r[f]
    <3>1. f \in Objects /\ f # a.port /\ f # a.target /\ f # k
      BY <1>1, <1>3, Kinds
    <3> QED
      BY <3>1 DEF Takes
  <2>5. \A p \in Ports : Recounted(r[p], r2[p], pk[k].port = p, a.port = p)
    <3>1. \A p \in Ports : pk[k].port # p /\ r[p] \in Nat /\ r2[p] \in Nat
      BY <1>2, <1>5, Kinds
    <3> QED
      BY <3>1, <2>1 DEF Recounted
  <2>6. \A x \in Targets : Recounted(r[x], r2[x], pk[k].target = x, a.target = x)
    <3>1. \A x \in Targets : pk[k].target # x /\ r[x] \in Nat /\ r2[x] \in Nat
      BY <1>2, <1>5, Kinds
    <3> QED
      BY <3>1, <2>2 DEF Recounted
  <2>7. Recounted(r[k], r2[k], pk[k].queued, a.queued)
    <3>1. r[k] \in Nat /\ r2[k] \in Nat
      BY <1>5, Kinds
    <3> QED
      BY <3>1, <2>3, <1>1 DEF Recounted
  <2> QED
    BY <1>1, <2>3, <2>4, <2>5, <2>6, <2>7 DEF Rereferenced, Takes
<1>7. ASSUME NEW o \in Ports, NEW m
      PROVE  Recounted(Occurrences(q[o], m), Occurrences(q2[o], m), FALSE, a.queued /\ a.port = o /\ m = OfPacket(k))
  <2>1. CASE a.queued /\ a.port = o
    <3>1. Gained(q[o], OfPacket(k), q2[o])
      BY <2>1 DEF AddsMessage
    <3> QED
      BY <3>1, <2>1 DEF Gained, Recounted
  <2>2. CASE ~(a.queued /\ a.port = o)
    <3>1. q2[o] = q[o] /\ q[o] \in Seq(Messages)
      BY <2>2, <1>1 DEF AddsMessage
    <3>2. Occurrences(q[o], m) \in Nat
      BY <3>1, PositionsFinite
    <3> QED
      BY <2>2, <3>1, <3>2 DEF Recounted
  <2> QED
    BY <2>1, <2>2
<1>8. SameButPacket(q, q2, k)
  <2>1. q2 \in [Ports -> Seq(Messages)]
    BY DEF AddsMessage
  <2>2. \A o \in Ports : \A m : m # OfPacket(k) => Occurrences(q2[o], m) = Occurrences(q[o], m)
    BY <1>7 DEF Recounted
  <2>3. /\ \A j \in Packets \ {k} : OfPacket(j) # OfPacket(k)
        /\ \A f \in Factories : Release(f) # OfPacket(k)
    BY MessageKinds, Kinds
  <2> QED
    BY <2>1, <2>2, <2>3 DEF SameButPacket
<1>9. PacketWell(r2, q2, k, a)
  <2>1. ASSUME NEW o \in Ports
        PROVE  Occurrences(q2[o], OfPacket(k)) = IF a.queued /\ a.port = o THEN 1 ELSE 0
    <3>1. Recounted(Occurrences(q[o], OfPacket(k)), Occurrences(q2[o], OfPacket(k)), FALSE, a.queued /\ a.port = o)
      BY <1>7
    <3>2. Occurrences(q[o], OfPacket(k)) = 0
      BY DEF Core, Placed
    <3> QED
      BY <3>1, <3>2, FromNone
  <2>2. r2[k] # 0
    <3>1. r[k] \in Nat /\ (r2[k] = r[k] + 1 \/ r2[k] = r[k])
      BY <1>5, Kinds DEF Takes
    <3> QED
      BY <3>1, StillCounted
  <2>3. a.port # NoHandle
    BY <1>3, Kinds
  <2> QED
    BY <2>1, <2>2, <2>3 DEF PacketWell, InUse
<1> QED
  BY <1>6, <1>8, <1>9, ChangePacket

\* The signals of the targets have their types.
SignalTyped(s) ==
    s \in [Targets -> 0 .. MaxSignal] /\ \A x \in Targets \ Semaphores : s[x] <= 1

\* The types of threads, waits and the loop, and of them all
ThreadTyped(s) == s \in [Threads -> {"absent", "live", "dead"}]

WaitTyped(w) ==
    w \in [Threads -> [port : Ports \cup {NoHandle}, max : Nat, timeout : {"none", "later"}, alertable : BOOLEAN]]

DrainTyped(d) ==
    /\ d \in [thread : Threads \cup {0}, left : Nat, removed : Nat, polled : BOOLEAN,
              wait : [port : Ports \cup {NoHandle}, max : Nat,
                      timeout : {"none", "zero", "later"}, alertable : BOOLEAN]]
    /\ d # NoDrain => d.thread \in Threads

OthersTyped ==
    SignalTyped(signal) /\ ThreadTyped(thread) /\ WaitTyped(wait) /\ DrainTyped(drain) /\ dangling \in BOOLEAN

\* TypeOK is about the objects and about the rest.
LEMMA TypeParts == TypeOK <=> Typed(refs, handles, queue, packet, factory) /\ OthersTyped
  BY DEF TypeOK, Typed, OthersTyped, SignalTyped, ThreadTyped, WaitTyped, DrainTyped

\* A message x is appended to the queue of port p.
LEMMA Appended ==
    ASSUME NEW q \in [Ports -> Seq(Messages)], NEW p \in Ports, NEW x \in Messages,
           NEW q2, q2 = [q EXCEPT ![p] = Append(@, x)]
    PROVE  /\ q2 \in [Ports -> Seq(Messages)]
           /\ \A o \in Ports : \A m :
                 Recounted(Occurrences(q[o], m), Occurrences(q2[o], m), FALSE, o = p /\ m = x)
<1>1. q[p] \in Seq(Messages)
  OBVIOUS
<1>2. Gained(q[p], x, Append(q[p], x)) /\ Append(q[p], x) \in Seq(Messages)
  BY <1>1, AppendGains
<1>3. q2 \in [Ports -> Seq(Messages)] /\ q2[p] = Append(q[p], x) /\ \A o \in Ports \ {p} : q2[o] = q[o]
  BY <1>2
<1>4. ASSUME NEW o \in Ports, NEW m
      PROVE  Recounted(Occurrences(q[o], m), Occurrences(q2[o], m), FALSE, o = p /\ m = x)
  <2>1. CASE o = p
    <3>1. Recounted(Occurrences(q[o], m), Occurrences(q2[o], m), FALSE, m = x)
      BY <2>1, <1>2, <1>3 DEF Gained
    <3> QED
      BY <3>1, <2>1 DEF Recounted
  <2>2. CASE o # p
    <3>1. q2[o] = q[o] /\ Occurrences(q[o], m) \in Nat
      BY <2>2, <1>3, PositionsFinite
    <3> QED
      BY <3>1, <2>2 DEF Recounted
  <2> QED
    BY <2>1, <2>2
<1> QED
  BY <1>3, <1>4

\* The first message of the queue of port p leaves it.
LEMMA Popped ==
    ASSUME NEW q \in [Ports -> Seq(Messages)], NEW p \in Ports, q[p] # <<>>,
           NEW q2, q2 = [q EXCEPT ![p] = Tail(@)]
    PROVE  /\ q2 \in [Ports -> Seq(Messages)] /\ Head(q[p]) \in Messages
           /\ \A o \in Ports : \A m :
                 Recounted(Occurrences(q2[o], m), Occurrences(q[o], m), FALSE, o = p /\ m = Head(q[p]))
<1>1. q[p] \in Seq(Messages)
  OBVIOUS
<1>2. Gained(Tail(q[p]), Head(q[p]), q[p]) /\ Tail(q[p]) \in Seq(Messages) /\ Head(q[p]) \in Messages
  BY <1>1, TailLoses
<1>3. q2 \in [Ports -> Seq(Messages)] /\ q2[p] = Tail(q[p]) /\ \A o \in Ports \ {p} : q2[o] = q[o]
  BY <1>2
<1>4. ASSUME NEW o \in Ports, NEW m
      PROVE  Recounted(Occurrences(q2[o], m), Occurrences(q[o], m), FALSE, o = p /\ m = Head(q[p]))
  <2>1. CASE o = p
    <3>1. Recounted(Occurrences(q2[o], m), Occurrences(q[o], m), FALSE, m = Head(q[p]))
      BY <2>1, <1>2, <1>3 DEF Gained
    <3> QED
      BY <3>1, <2>1 DEF Recounted
  <2>2. CASE o # p
    <3>1. q2[o] = q[o] /\ Occurrences(q[o], m) \in Nat
      BY <2>2, <1>3, PositionsFinite
    <3> QED
      BY <3>1, <2>2 DEF Recounted
  <2> QED
    BY <2>1, <2>2
<1> QED
  BY <1>2, <1>3, <1>4

\* Records of a factory that differ in nothing the references and the release
\* messages depend on
SameDuties(fr, a) ==
    /\ fr \in FactoryType /\ a \in FactoryType
    /\ a.port = fr.port /\ a.pending = fr.pending /\ a.releases = fr.releases /\ a.shutdown = fr.shutdown

\* ensure_worker_factory_threads changes the list of threads only.
LEMMA EnsureDuties ==
    ASSUME NEW f \in Factories, NEW fr \in FactoryType, Ensure(f, fr)
    PROVE  \E a : SameDuties(fr, a) /\ factory' = [factory EXCEPT ![f] = a]
<1>1. CASE fr.shutdown \/ fr.paused
  BY <1>1 DEF Ensure, SameDuties
<1>2. CASE ~(fr.shutdown \/ fr.paused)
  <2>1. PICK S : /\ S = NewThreads(Desired(fr) - Cardinality(Pruned(fr)))
                 /\ factory' = [factory EXCEPT ![f] = [fr EXCEPT !.workers = Pruned(fr) \cup S]]
    BY <1>2 DEF Ensure
  <2>2. S \in SUBSET Threads /\ Pruned(fr) \in SUBSET Threads
    BY <2>1 DEF NewThreads, Pruned, FactoryType
  <2>3. PICK W \in SUBSET Threads : W = Pruned(fr) \cup S
    BY <2>2
  <2>4. SameDuties(fr, [fr EXCEPT !.workers = W])
    BY DEF SameDuties, FactoryType
  <2> QED
    BY <2>1, <2>3, <2>4
<1> QED
  BY <1>1, <1>2

\* The numbers and flags NtSetInformationWorkerFactory sets
LEMMA ConfiguredDuties ==
    ASSUME NEW fr \in FactoryType, NEW class \in InfoClasses, NEW n \in Numbers
    PROVE  SameDuties(fr, Configured(fr, class, n))
<1>1. /\ Min({fr.binding + 1, MaxWorkers}) \in Numbers
      /\ Max({fr.binding - 1, 0}) \in Numbers
  <2>1. fr.binding \in 0 .. MaxWorkers /\ MaxWorkers \in Nat
    BY SizesAssumption DEF FactoryType, Numbers
  <2>2. \A i \in 0 .. MaxWorkers : Min({i + 1, MaxWorkers}) = i + 1 \/ Min({i + 1, MaxWorkers}) = MaxWorkers
    <3> SUFFICES ASSUME NEW i \in 0 .. MaxWorkers
                 PROVE  Min({i + 1, MaxWorkers}) = i + 1 \/ Min({i + 1, MaxWorkers}) = MaxWorkers
      OBVIOUS
    <3>1. \E x \in {i + 1, MaxWorkers} : \A y \in {i + 1, MaxWorkers} : x <= y
      BY <2>1, SMT
    <3> QED
      BY <3>1 DEF Min
  <2> QED
    BY <2>1, SMT DEF Numbers, Min, Max
<1> DEFINE bu == Min({fr.binding + 1, MaxWorkers})
           bd == Max({fr.binding - 1, 0})
<1>2. PICK b \in Numbers : b = bu
  BY <1>1
<1>3. PICK d \in Numbers : d = bd
  BY <1>1
<1>4. CASE class = "binding_up"
  <2>1. Configured(fr, class, n) = [fr EXCEPT !.binding = b]
    BY <1>2, <1>4 DEF Configured
  <2> QED
    BY <2>1 DEF SameDuties, FactoryType
<1>5. CASE class = "binding_down"
  <2>1. Configured(fr, class, n) = [fr EXCEPT !.binding = d]
    BY <1>3, <1>5 DEF Configured
  <2> QED
    BY <2>1 DEF SameDuties, FactoryType
<1>6. CASE class \in {"minimum", "maximum", "soft", "paused"}
  BY <1>6 DEF Configured, SameDuties, FactoryType
<1> QED
  BY <1>4, <1>5, <1>6 DEF InfoClasses

----------------------------------------------------------------------------
(* Types.                                                                  *)

\* A count is given up only where there is one.
LEMMA CountedTyped ==
    ASSUME NEW r \in [Objects -> Nat], NEW S
    PROVE  Erase(r, S) \in [Objects -> Nat] /\ Retain(r, S) \in [Objects -> Nat]
  BY SMT DEF Erase, Retain

\* Taking the queues of erased ports away leaves queues.
LEMMA QueuesTyped ==
    ASSUME NEW q \in [Ports -> Seq(Messages)], NEW r
    PROVE  Queues(q, r) \in [Ports -> Seq(Messages)]
<1>1. <<>> \in Seq(Messages)
  BY SMT
<1> QED
  BY <1>1 DEF Queues

\* A set of numbers has a least one.
LEMMA LeastOfThem ==
    ASSUME NEW P \in SUBSET Nat, P # {}
    PROVE  \E n \in P : \A i \in P : n <= i
<1> DEFINE R == OpToRel(<, Nat)
<1>1. IsWellFoundedOn(R, Nat)
  BY NatLessThanWellFounded
<1>2. \A i, n \in Nat : <<i, n>> \in R <=> i < n
  BY DEF OpToRel
<1> HIDE DEF R
<1>3. PICK n \in P : \A i \in P : ~(<<i, n>> \in R)
  BY <1>1, WFMin
<1>4. \A i \in P : ~(i < n)
  BY <1>2, <1>3
<1> QED
  BY <1>4, SMT

\* Taking a packet's message out of a queue that has it leaves a queue.
LEMMA RemovedTyped ==
    ASSUME NEW s \in Seq(Messages), NEW k, HasMessage(s, k)
    PROVE  RemoveByPacket(s, k) \in Seq(Messages)
<1> DEFINE P == {i \in 1 .. Len(s) : s[i] = OfPacket(k)}
<1>1. P \in SUBSET (1 .. Len(s)) /\ P # {} /\ Len(s) \in Nat
  BY SMT DEF HasMessage
<1>2. PICK n \in P : \A i \in P : n <= i
  <2>1. P \in SUBSET Nat
    BY <1>1, SMT
  <2> QED
    BY <1>1, <2>1, LeastOfThem
<1>3. Min(P) = n
  BY <1>1, <1>2, SMT DEF Min
<1>4. n \in 1 .. Len(s)
  BY <1>1, <1>2
<1>5. SubSeq(s, 1, n - 1) \o SubSeq(s, n + 1, Len(s)) \in Seq(Messages)
  BY <1>4, CutIsWithout DEF Without
<1>6. RemoveByPacket(s, k) = SubSeq(s, 1, n - 1) \o SubSeq(s, n + 1, Len(s))
  BY <1>3 DEF RemoveByPacket
<1> QED
  BY <1>5, <1>6

\* consume_wait_completion_target never takes a signal that is not there: of
\* the packets of one target, only as many come due as it has signals.
LEMMA DueWithinSignal ==
    ASSUME NEW pk, NEW p, SignalTyped(signal), NEW x \in Consumed
    PROVE  /\ Cardinality({k \in Due(pk, p) : pk[k].target = x}) \in Nat
           /\ Cardinality({k \in Due(pk, p) : pk[k].target = x}) <= signal[x]
<1> DEFINE A == {j \in Armed(pk, p) : pk[j].target = x}
           key == [k \in Packets |-> k[2]]
           D == {k \in Due(pk, p) : pk[k].target = x}
<1>1. A \in SUBSET Packets /\ IsFiniteSet(A)
  <2>1. A \in SUBSET Packets
    BY DEF Armed
  <2> QED
    BY <2>1, FiniteStores, FS_Subset
<1>2. Keyed(A, key)
  <2>1. /\ \A k \in Packets : key[k] \in Nat
        /\ \A j, k \in Packets : key[j] = key[k] => j = k
    BY SMT DEF Packets
  <2> QED
    BY <1>1, <2>1 DEF Keyed
<1>3. signal[x] \in Nat
  BY SizesAssumption, SMT DEF SignalTyped, Targets
<1>4. \A k \in A : {j \in Armed(pk, p) : j[2] < k[2] /\ pk[j].target = pk[k].target} = {j \in A : key[j] < key[k]}
  <2> SUFFICES ASSUME NEW k \in A
               PROVE  {j \in Armed(pk, p) : j[2] < k[2] /\ pk[j].target = pk[k].target} = {j \in A : key[j] < key[k]}
    OBVIOUS
  <2>1. pk[k].target = x /\ key[k] = k[2]
    BY <1>1
  <2>2. \A j \in Armed(pk, p) : key[j] = j[2]
    BY DEF Armed
  <2> QED
    BY <2>1, <2>2
<1> HIDE DEF key
<1>5. \A k \in A : Cardinality({j \in Armed(pk, p) : j[2] < k[2] /\ pk[j].target = pk[k].target}) = Rank(A, key, k)
  BY <1>4 DEF Rank
<1>6. D \in SUBSET {k \in A : Rank(A, key, k) < signal[x]}
  <2> SUFFICES ASSUME NEW k \in D
               PROVE  k \in A /\ Rank(A, key, k) < signal[x]
    OBVIOUS
  <2>1. k \in A /\ pk[k].target = x
    BY DEF Due
  <2>2. Cardinality({j \in Armed(pk, p) : j[2] < k[2] /\ pk[j].target = pk[k].target}) < signal[x]
    BY <2>1 DEF Due
  <2>3. Cardinality({j \in Armed(pk, p) : j[2] < k[2] /\ pk[j].target = pk[k].target}) = Rank(A, key, k)
    BY <2>1, <1>5
  <2> QED
    BY <2>1, <2>2, <2>3
<1>7. PICK F : F = {k \in A : Rank(A, key, k) < signal[x]}
  OBVIOUS
<1>8. IsFiniteSet(F) /\ Cardinality(F) <= signal[x]
  <2>1. /\ IsFiniteSet({k \in A : Rank(A, key, k) < signal[x]})
        /\ Cardinality({k \in A : Rank(A, key, k) < signal[x]}) <= signal[x]
    BY <1>2, <1>3, FirstOfThem
  <2> QED
    BY <1>7, <2>1
<1> HIDE DEF A, D
<1>9. IsFiniteSet(D) /\ Cardinality(D) \in Nat /\ Cardinality(F) \in Nat /\ Cardinality(D) <= Cardinality(F)
  BY <1>6, <1>7, <1>8, FS_Subset, FS_CardinalityType
<1>10. Cardinality(D) \in Nat /\ Cardinality(D) <= signal[x]
  BY <1>3, <1>8, <1>9, SMT
<1> QED
  BY <1>10 DEF D

\* consume_wait_completion_target takes no signal that is not there.
LEMMA ConsumeTyped ==
    ASSUME NEW pk, NEW p, SignalTyped(signal)
    PROVE  SignalTyped(Consume(pk, Due(pk, p)))
<1> DEFINE s == Consume(pk, Due(pk, p))
           N(x) == Cardinality({k \in Due(pk, p) : pk[k].target = x})
<1>1. \A x \in Consumed : N(x) \in Nat /\ N(x) <= signal[x]
  BY DueWithinSignal
<1>2. s = [x \in Targets |-> IF x \in Consumed THEN signal[x] - N(x) ELSE signal[x]]
  BY DEF Consume
<1> HIDE DEF N, s
<1>3. \A x \in Targets : signal[x] \in 0 .. MaxSignal
  BY DEF SignalTyped
<1>4. \A x \in Targets : s[x] \in 0 .. MaxSignal /\ s[x] <= signal[x]
  BY <1>1, <1>2, <1>3, SizesAssumption, SMT
<1>5. \A x \in Targets \ Semaphores : signal[x] <= 1
  BY DEF SignalTyped
<1>6. \A x \in Targets \ Semaphores : s[x] <= 1
  BY <1>3, <1>4, <1>5, SizesAssumption, SMT
<1>7. s \in [Targets -> 0 .. MaxSignal]
  BY <1>2, <1>4
<1> QED
  BY <1>6, <1>7 DEF SignalTyped, s

\* materialize_signaled_wait_packets leaves packets, references, queues and
\* signals of their types.
LEMMA MaterializeTyped ==
    ASSUME NEW r, NEW h, NEW q, NEW pk, NEW fc, Typed(r, h, q, pk, fc), SignalTyped(signal), NEW p \in Ports,
           NEW m, m = Materialize(pk, r, q, p)
    PROVE  Typed(m.refs, h, m.queue, m.packet, fc) /\ SignalTyped(m.signal)
<1> DEFINE S == Due(pk, p)
           t == [i \in 1 .. Cardinality(S) |-> OfPacket(InOrder(S)[i])]
<1>1. S \in SUBSET Packets
  BY DEF Due, Armed
<1>2. /\ m.refs = Retain(r, S) /\ m.queue = [q EXCEPT ![p] = @ \o t] /\ m.signal = Consume(pk, S)
      /\ m.packet = [k \in Packets |-> IF k \in S THEN [pk[k] EXCEPT !.queued = TRUE] ELSE pk[k]]
  BY DEF Materialize
<1>3. r \in [Objects -> Nat] /\ q \in [Ports -> Seq(Messages)] /\ pk \in [Packets -> PacketType]
  BY DEF Typed
<1>4. SignalTyped(m.signal)
  <2>1. SignalTyped(Consume(pk, S))
    BY ConsumeTyped
  <2> QED
    BY <1>2, <2>1
<1> HIDE DEF S
<1>5. q[p] \o t \in Seq(Messages)
  <2>1. GainedAll(q[p], S, q[p] \o t)
    BY <1>1, <1>3, ConcatGainsAll
  <2> QED
    BY <2>1 DEF GainedAll
<1> HIDE DEF t
<1>6. m.queue \in [Ports -> Seq(Messages)]
  BY <1>2, <1>3, <1>5
<1>7. m.refs \in [Objects -> Nat]
  <2>1. Retain(r, S) \in [Objects -> Nat]
    BY <1>3, CountedTyped
  <2> QED
    BY <1>2, <2>1
<1>8. m.packet \in [Packets -> PacketType]
  <2>1. \A b \in PacketType : [b EXCEPT !.queued = TRUE] \in PacketType
    BY DEF PacketType
  <2> QED
    BY <1>2, <1>3, <2>1, SMT
<1> QED
  BY <1>4, <1>6, <1>7, <1>8 DEF Typed

\* The state has its types.
AllTyped == Typed(refs, handles, queue, packet, factory) /\ OthersTyped

\* ensure_worker_factory_threads makes threads of free slots.
LEMMA EnsureTyped ==
    ASSUME NEW f \in Factories, NEW fr \in FactoryType, Ensure(f, fr), factory \in [Factories -> FactoryType],
           ThreadTyped(thread)
    PROVE  factory' \in [Factories -> FactoryType] /\ ThreadTyped(thread')
<1>1. PICK a : SameDuties(fr, a) /\ factory' = [factory EXCEPT ![f] = a]
  BY EnsureDuties
<1>2. factory' \in [Factories -> FactoryType]
  BY <1>1 DEF SameDuties
<1>3. thread' = thread \/ \E S : thread' = [t \in Threads |-> IF t \in S THEN "live" ELSE thread[t]]
  BY DEF Ensure
<1>4. ThreadTyped(thread')
  BY <1>3 DEF ThreadTyped
<1> QED
  BY <1>2, <1>4

\* The loop starts for a thread that makes a call or waits.
LEMMA StartDrainTyped ==
    ASSUME AllTyped, NEW t \in Threads, NEW w, NEW polled \in BOOLEAN, StartDrain(t, w, polled),
           w \in [port : Ports, max : Nat, timeout : {"none", "zero", "later"}, alertable : BOOLEAN],
           UNCHANGED <<handles, factory, thread, wait, dangling>>
    PROVE  AllTyped'
<1>m. PICK m : m = Materialize(packet, refs, queue, w.port)
  OBVIOUS
<1>1. /\ packet' = m.packet /\ refs' = m.refs /\ queue' = m.queue /\ signal' = m.signal
      /\ drain' = [thread |-> t, wait |-> w, left |-> w.max, removed |-> 0, polled |-> polled]
  BY <1>m DEF StartDrain
<1>2. PICK p \in Ports : p = w.port
  OBVIOUS
<1>3. Typed(refs, handles, queue, packet, factory) /\ OthersTyped /\ SignalTyped(signal)
  BY DEF AllTyped, OthersTyped
<1>4. Typed(m.refs, handles, m.queue, m.packet, factory) /\ SignalTyped(m.signal)
  BY <1>m, <1>2, <1>3, MaterializeTyped
<1>5. DrainTyped(drain')
  BY <1>1 DEF DrainTyped
<1> QED
  BY <1>1, <1>3, <1>4, <1>5 DEF AllTyped, OthersTyped

\* Default-constructed packets and factories are packets and factories.
LEMMA IdleTyped == IdlePacket \in PacketType /\ NoFactory \in FactoryType
<1>1. 0 \in Numbers /\ 0 \in 0 .. MaxReleases
  BY SizesAssumption, SMT DEF Numbers
<1>2. {} \in SUBSET Threads
  OBVIOUS
<1> QED
  BY <1>1, <1>2 DEF IdlePacket, PacketType, NoFactory, FactoryType

\* Queues q after a packet's message was dropped from that of port o, if b
Dropped(q, o, k, b) == [p \in Ports |-> IF b /\ p = o THEN RemoveByPacket(q[p], k) ELSE q[p]]

\* remove_by_wait_packet leaves a queue.
LEMMA DroppedTyped ==
    ASSUME NEW q \in [Ports -> Seq(Messages)], NEW o, NEW k, NEW b \in BOOLEAN,
           b => HasMessage(q[o], k)
    PROVE  Dropped(q, o, k, b) \in [Ports -> Seq(Messages)]
<1>1. ASSUME NEW p \in Ports, b, p = o
      PROVE  RemoveByPacket(q[p], k) \in Seq(Messages)
  <2>1. q[p] \in Seq(Messages) /\ HasMessage(q[p], k)
    BY <1>1
  <2> QED
    BY <2>1, RemovedTyped
<1> QED
  BY <1>1 DEF Dropped

\* NtClose keeps the types.
LEMMA NtCloseTyped ==
    ASSUME AllTyped, NEW h \in Objects, NtClose(h)
    PROVE  AllTyped'
<1>t. /\ refs \in [Objects -> Nat] /\ handles \in [Objects -> 0 .. MaxHandles]
      /\ queue \in [Ports -> Seq(Messages)]
      /\ packet \in [Packets -> PacketType] /\ factory \in [Factories -> FactoryType]
      /\ SignalTyped(signal) /\ ThreadTyped(thread) /\ WaitTyped(wait) /\ DrainTyped(drain) /\ dangling \in BOOLEAN
  BY DEF AllTyped, OthersTyped, Typed
<1> DEFINE last    == refs[h] = 1
           k       == IF h \in Packets /\ last THEN packet[h] ELSE IdlePacket
           port    == IF h \in Factories /\ last THEN factory[h].port ELSE k.port
           message == k.queued /\ Exists(k.port) /\ HasMessage(queue[k.port], h)
           r       == Erase(Erase(IF message THEN Erase(refs, {h}) ELSE refs, {port, k.target}), {h})
           q       == [p \in Ports |-> IF message /\ p = k.port THEN RemoveByPacket(queue[p], h) ELSE queue[p]]
<1>1. /\ handles[h] > 0 /\ refs' = r /\ handles' = [handles EXCEPT ![h] = @ - 1] /\ queue' = Queues(q, r)
      /\ packet' = [j \in Packets |-> IF j = h /\ last THEN IdlePacket ELSE packet[j]]
      /\ factory' = [f \in Factories |-> IF f = h /\ last THEN NoFactory ELSE factory[f]]
      /\ UNCHANGED <<signal, thread, wait, drain, dangling>>
  BY DEF NtClose, Owns
<1>2. r \in [Objects -> Nat]
  <2>1. PICK r1 : r1 = IF message THEN Erase(refs, {h}) ELSE refs
    OBVIOUS
  <2>2. r1 \in [Objects -> Nat]
    BY <2>1, <1>t, CountedTyped
  <2>3. PICK r2 : r2 = Erase(r1, {port, k.target})
    OBVIOUS
  <2>4. r2 \in [Objects -> Nat]
    BY <2>2, <2>3, CountedTyped
  <2>5. Erase(r2, {h}) \in [Objects -> Nat]
    BY <2>4, CountedTyped
  <2> QED
    BY <2>1, <2>3, <2>5
<1>3. q \in [Ports -> Seq(Messages)]
  <2>1. PICK o : o = k.port
    OBVIOUS
  <2>2. PICK b \in BOOLEAN : b = message
    OBVIOUS
  <2>3. b => HasMessage(queue[o], h)
    BY <2>1, <2>2
  <2>4. Dropped(queue, o, h, b) \in [Ports -> Seq(Messages)]
    BY <2>3, <1>t, DroppedTyped
  <2>5. q = Dropped(queue, o, h, b)
    BY <2>1, <2>2 DEF Dropped
  <2> QED
    BY <2>4, <2>5
<1>4. Queues(q, r) \in [Ports -> Seq(Messages)]
  BY <1>3, QueuesTyped
<1> HIDE DEF q, r
<1>5. handles' \in [Objects -> 0 .. MaxHandles]
  BY <1>t, <1>1, SizesAssumption, SMT
<1>6. packet' \in [Packets -> PacketType] /\ factory' \in [Factories -> FactoryType]
  BY <1>t, <1>1, IdleTyped
<1>7. refs' \in [Objects -> Nat] /\ queue' \in [Ports -> Seq(Messages)]
  BY <1>1, <1>2, <1>4
<1> QED
  BY <1>t, <1>1, <1>5, <1>6, <1>7 DEF AllTyped, OthersTyped, Typed

\* Calls on handles, targets and threads keep the types.
LEMMA ObjectCallsTyped ==
    ASSUME AllTyped, ObjectCalls
    PROVE  AllTyped'
<1>t. /\ refs \in [Objects -> Nat] /\ handles \in [Objects -> 0 .. MaxHandles]
      /\ queue \in [Ports -> Seq(Messages)]
      /\ packet \in [Packets -> PacketType] /\ factory \in [Factories -> FactoryType]
      /\ SignalTyped(signal) /\ ThreadTyped(thread) /\ WaitTyped(wait) /\ DrainTyped(drain) /\ dangling \in BOOLEAN
  BY DEF AllTyped, OthersTyped, Typed
<1>1. ASSUME NEW h \in Ports \cup Packets \cup Targets, Create(h)
      PROVE  AllTyped'
  <2>1. /\ refs' = [refs EXCEPT ![h] = 1] /\ handles' = [handles EXCEPT ![h] = 1]
        /\ signal' = [x \in Targets |-> IF x = h THEN 0 ELSE signal[x]]
        /\ UNCHANGED <<queue, packet, factory, thread, wait, drain, dangling>>
    BY <1>1 DEF Create
  <2>2. refs' \in [Objects -> Nat] /\ handles' \in [Objects -> 0 .. MaxHandles]
    <3>1. 1 \in Nat /\ 1 \in 0 .. MaxHandles
      BY SizesAssumption, SMT
    <3> QED
      BY <1>t, <2>1, <3>1
  <2>3. SignalTyped(signal')
    BY <1>t, <2>1, SizesAssumption, SMT DEF SignalTyped
  <2> QED
    BY <1>t, <2>1, <2>2, <2>3 DEF AllTyped, OthersTyped, Typed
<1>2. ASSUME NEW h \in Objects, Duplicate(h)
      PROVE  AllTyped'
  <2>1. /\ refs' = Retain(refs, {h}) /\ handles' = [handles EXCEPT ![h] = @ + 1] /\ handles[h] < MaxHandles
        /\ UNCHANGED <<signal, queue, packet, factory, thread, wait, drain, dangling>>
    BY <1>2 DEF Duplicate
  <2>2. refs' \in [Objects -> Nat]
    <3>1. Retain(refs, {h}) \in [Objects -> Nat]
      BY <1>t, CountedTyped
    <3> QED
      BY <2>1, <3>1
  <2>3. handles' \in [Objects -> 0 .. MaxHandles]
    BY <1>t, <2>1, SizesAssumption, SMT
  <2> QED
    BY <1>t, <2>1, <2>2, <2>3 DEF AllTyped, OthersTyped, Typed
<1>3. ASSUME NEW h \in Objects, NtClose(h)
      PROVE  AllTyped'
  BY <1>3, NtCloseTyped
<1>4. ASSUME NEW x \in Targets, SignalTarget(x)
      PROVE  AllTyped'
  <2>1. /\ signal' = [signal EXCEPT ![x] = @ + 1] /\ signal[x] < IF x \in Semaphores THEN MaxSignal ELSE 1
        /\ UNCHANGED <<refs, handles, queue, packet, factory, thread, wait, drain, dangling>>
    BY <1>4 DEF SignalTarget
  <2>2. SignalTyped(signal')
    BY <1>t, <2>1, SizesAssumption, SMT DEF SignalTyped
  <2> QED
    BY <1>t, <2>1, <2>2 DEF AllTyped, OthersTyped, Typed
<1>5. ASSUME NEW x \in Targets, TakeSignal(x)
      PROVE  AllTyped'
  <2>1. /\ signal' = [signal EXCEPT ![x] = @ - 1] /\ signal[x] > 0
        /\ UNCHANGED <<refs, handles, queue, packet, factory, thread, wait, drain, dangling>>
    BY <1>5 DEF TakeSignal, TargetSignaled
  <2>2. SignalTyped(signal')
    BY <1>t, <2>1, SizesAssumption, SMT DEF SignalTyped
  <2> QED
    BY <1>t, <2>1, <2>2 DEF AllTyped, OthersTyped, Typed
<1>6. ASSUME NEW t \in Threads, CreateThread(t)
      PROVE  AllTyped'
  <2>1. /\ thread' = [thread EXCEPT ![t] = "live"]
        /\ UNCHANGED <<refs, handles, signal, queue, packet, factory, wait, drain, dangling>>
    BY <1>6 DEF CreateThread
  <2>2. ThreadTyped(thread')
    BY <1>t, <2>1 DEF ThreadTyped
  <2> QED
    BY <1>t, <2>1, <2>2 DEF AllTyped, OthersTyped, Typed
<1>7. ASSUME NEW t \in Threads, ExitThread(t)
      PROVE  AllTyped'
  <2>1. /\ thread' = [thread EXCEPT ![t] = "dead"] /\ wait' = [wait EXCEPT ![t] = NoWait]
        /\ UNCHANGED <<refs, handles, signal, queue, packet, factory, drain, dangling>>
    BY <1>7 DEF ExitThread
  <2>2. ThreadTyped(thread')
    BY <1>t, <2>1 DEF ThreadTyped
  <2>3. WaitTyped(wait')
    BY <1>t, <2>1 DEF WaitTyped, NoWait
  <2> QED
    BY <1>t, <2>1, <2>2, <2>3 DEF AllTyped, OthersTyped, Typed
<1> QED
  BY <1>1, <1>2, <1>3, <1>4, <1>5, <1>6, <1>7 DEF ObjectCalls

\* Calls on ports and packets keep the types.
LEMMA PortCallsTyped ==
    ASSUME AllTyped, PortCalls
    PROVE  AllTyped'
<1>t. /\ refs \in [Objects -> Nat] /\ handles \in [Objects -> 0 .. MaxHandles]
      /\ queue \in [Ports -> Seq(Messages)]
      /\ packet \in [Packets -> PacketType] /\ factory \in [Factories -> FactoryType]
      /\ SignalTyped(signal) /\ ThreadTyped(thread) /\ WaitTyped(wait) /\ DrainTyped(drain) /\ dangling \in BOOLEAN
  BY DEF AllTyped, OthersTyped, Typed
<1>1. ASSUME NEW p \in Ports, NtSetIoCompletion(p)
      PROVE  AllTyped'
  <2>1. /\ queue' = [queue EXCEPT ![p] = Append(@, Post)]
        /\ UNCHANGED <<refs, handles, signal, packet, factory, thread, wait, drain, dangling>>
    BY <1>1 DEF NtSetIoCompletion
  <2>2. queue' \in [Ports -> Seq(Messages)]
    BY <1>t, <2>1, MessageKinds, Appended
  <2> QED
    BY <1>t, <2>1, <2>2 DEF AllTyped, OthersTyped, Typed
<1>2. ASSUME NEW p \in Ports, ObservePort(p)
      PROVE  AllTyped'
  <2>m. PICK m : m = Materialize(packet, refs, queue, p)
    OBVIOUS
  <2>1. /\ packet' = m.packet /\ refs' = m.refs /\ queue' = m.queue /\ signal' = m.signal
        /\ UNCHANGED <<handles, factory, thread, wait, drain, dangling>>
    BY <1>2, <2>m DEF ObservePort
  <2>2. Typed(m.refs, handles, m.queue, m.packet, factory) /\ SignalTyped(m.signal)
    BY <1>t, <2>m, MaterializeTyped DEF AllTyped
  <2> QED
    BY <1>t, <2>1, <2>2 DEF AllTyped, OthersTyped
<1>3. ASSUME NEW p \in Ports, NEW k \in Packets, NtSetIoCompletionEx(p, k)
      PROVE  AllTyped'
  <2>1. PICK b : b = [IdlePacket EXCEPT !.port = p, !.queued = TRUE]
    OBVIOUS
  <2>2. /\ refs' = Retain(refs, {p, k}) /\ packet' = [packet EXCEPT ![k] = b]
        /\ queue' = [queue EXCEPT ![p] = Append(@, OfPacket(k))]
        /\ UNCHANGED <<handles, signal, factory, thread, wait, drain, dangling>>
    BY <1>3, <2>1 DEF NtSetIoCompletionEx
  <2>3. b \in PacketType
    BY <2>1 DEF IdlePacket, PacketType
  <2>4. packet' \in [Packets -> PacketType]
    BY <1>t, <2>2, <2>3
  <2>5. PICK x \in Messages : x = OfPacket(k)
    BY MessageKinds
  <2>6. queue' = [queue EXCEPT ![p] = Append(@, x)]
    BY <2>2, <2>5
  <2>7. queue' \in [Ports -> Seq(Messages)]
    BY <1>t, <2>6, Appended
  <2>8. Retain(refs, {p, k}) \in [Objects -> Nat]
    BY <1>t, CountedTyped
  <2> QED
    BY <1>t, <2>2, <2>4, <2>7, <2>8 DEF AllTyped, OthersTyped, Typed
<1>4. ASSUME NEW k \in Packets, NEW p \in Ports, NEW x \in Targets, NtAssociateWaitCompletionPacket(k, p, x)
      PROVE  AllTyped'
  <2>1. PICK b : b = [IdlePacket EXCEPT !.port = p, !.target = x, !.associated = TRUE]
    OBVIOUS
  <2>2. PICK pk : pk = [packet EXCEPT ![k] = b]
    OBVIOUS
  <2>3. PICK r : r = Retain(refs, {p, x})
    OBVIOUS
  <2>m. PICK m : m = Materialize(pk, r, queue, p)
    OBVIOUS
  <2>4. /\ packet' = m.packet /\ refs' = m.refs /\ queue' = m.queue /\ signal' = m.signal
        /\ UNCHANGED <<handles, factory, thread, wait, drain, dangling>>
    BY <1>4, <2>1, <2>2, <2>3, <2>m DEF NtAssociateWaitCompletionPacket
  <2>5. b \in PacketType
    BY <2>1 DEF IdlePacket, PacketType
  <2>6. pk \in [Packets -> PacketType]
    BY <1>t, <2>2, <2>5
  <2>7. r \in [Objects -> Nat]
    BY <1>t, <2>3, CountedTyped
  <2>8. Typed(r, handles, queue, pk, factory)
    BY <1>t, <2>6, <2>7 DEF Typed
  <2>9. Typed(m.refs, handles, m.queue, m.packet, factory) /\ SignalTyped(m.signal)
    BY <1>t, <2>8, <2>m, MaterializeTyped
  <2> QED
    BY <1>t, <2>4, <2>9 DEF AllTyped, OthersTyped
<1>5. ASSUME NEW k \in Packets, NEW remove \in BOOLEAN, NtCancelWaitCompletionPacket(k, remove)
      PROVE  AllTyped'
  <2>1. PICK o : o = packet[k].port
    OBVIOUS
  <2>2. PICK b \in BOOLEAN : b = (remove /\ packet[k].queued /\ Exists(o) /\ HasMessage(queue[o], k))
    OBVIOUS
  <2>3. PICK r1 : r1 = IF b THEN Erase(refs, {k}) ELSE refs
    OBVIOUS
  <2>4. PICK r : r = Erase(r1, {o, packet[k].target})
    OBVIOUS
  <2>5. /\ refs' = r /\ queue' = Queues(Dropped(queue, o, k, b), r)
        /\ packet' = [packet EXCEPT ![k] = IdlePacket]
        /\ UNCHANGED <<handles, signal, factory, thread, wait, drain, dangling>>
    BY <1>5, <2>1, <2>2, <2>3, <2>4 DEF NtCancelWaitCompletionPacket, Dropped
  <2>6. r \in [Objects -> Nat]
    <3>1. r1 \in [Objects -> Nat]
      BY <1>t, <2>3, CountedTyped
    <3> QED
      BY <3>1, <2>4, CountedTyped
  <2>7. Dropped(queue, o, k, b) \in [Ports -> Seq(Messages)]
    BY <1>t, <2>2, DroppedTyped
  <2>8. queue' \in [Ports -> Seq(Messages)]
    BY <2>5, <2>7, QueuesTyped
  <2>9. packet' \in [Packets -> PacketType]
    BY <1>t, <2>5, IdleTyped
  <2> QED
    BY <1>t, <2>5, <2>6, <2>8, <2>9 DEF AllTyped, OthersTyped, Typed
<1>6. ASSUME NEW t \in Threads, NEW p \in Ports, NEW w \in Waits, NtRemoveIoCompletion(t, p, w)
      PROVE  AllTyped'
  <2>1. PICK w2 : w2 = [port |-> p, max |-> w.max, timeout |-> w.timeout, alertable |-> w.alertable]
    OBVIOUS
  <2>2. StartDrain(t, w2, FALSE) /\ UNCHANGED <<handles, factory, thread, wait, dangling>>
    BY <1>6, <2>1 DEF NtRemoveIoCompletion
  <2>3. w2 \in [port : Ports, max : Nat, timeout : {"none", "zero", "later"}, alertable : BOOLEAN]
    BY <2>1, WaitsAssumption
  <2> QED
    BY <2>2, <2>3, StartDrainTyped
<1> QED
  BY <1>1, <1>2, <1>3, <1>4, <1>5, <1>6 DEF PortCalls

\* A port handle in the store of objects is a port.
LEMMA ExistingPort ==
    ASSUME NEW p \in Ports \cup {NoHandle}, Exists(p)
    PROVE  p \in Ports
  BY Kinds DEF Exists

\* Calls on worker factories keep the types.
LEMMA FactoryCallsTyped ==
    ASSUME AllTyped, FactoryCalls
    PROVE  AllTyped'
<1>t. /\ refs \in [Objects -> Nat] /\ handles \in [Objects -> 0 .. MaxHandles]
      /\ queue \in [Ports -> Seq(Messages)]
      /\ packet \in [Packets -> PacketType] /\ factory \in [Factories -> FactoryType]
      /\ SignalTyped(signal) /\ ThreadTyped(thread) /\ WaitTyped(wait) /\ DrainTyped(drain) /\ dangling \in BOOLEAN
  BY DEF AllTyped, OthersTyped, Typed
<1>1. ASSUME NEW f \in Factories, NEW p \in Ports, NEW max \in Numbers, NtCreateWorkerFactory(f, p, max)
      PROVE  AllTyped'
  <2>1. PICK fr : fr = [NoFactory EXCEPT !.port = p, !.maxCount = max, !.maximum = max]
    OBVIOUS
  <2>2. PICK r : r = Retain(refs, {p})
    OBVIOUS
  <2>3. /\ refs' = [r EXCEPT ![f] = 1] /\ handles' = [handles EXCEPT ![f] = 1] /\ Ensure(f, fr)
        /\ UNCHANGED <<signal, queue, packet, wait, drain, dangling>>
    BY <1>1, <2>1, <2>2 DEF NtCreateWorkerFactory
  <2>4. fr \in FactoryType
    BY <2>1, IdleTyped DEF FactoryType
  <2>5. factory' \in [Factories -> FactoryType] /\ ThreadTyped(thread')
    BY <1>t, <2>3, <2>4, EnsureTyped
  <2>6. refs' \in [Objects -> Nat] /\ handles' \in [Objects -> 0 .. MaxHandles]
    <3>1. 1 \in Nat /\ 1 \in 0 .. MaxHandles
      BY SizesAssumption, SMT
    <3>2. r \in [Objects -> Nat]
      BY <1>t, <2>2, CountedTyped
    <3> QED
      BY <1>t, <2>3, <3>1, <3>2
  <2> QED
    BY <1>t, <2>3, <2>5, <2>6 DEF AllTyped, OthersTyped, Typed
<1>2. ASSUME NEW f \in Factories, NtWorkerFactoryWorkerReady(f)
      PROVE  AllTyped'
  <2>1. Ensure(f, factory[f]) /\ UNCHANGED <<refs, handles, signal, queue, packet, wait, drain, dangling>>
    BY <1>2 DEF NtWorkerFactoryWorkerReady
  <2>2. factory[f] \in FactoryType
    BY <1>t
  <2>3. factory' \in [Factories -> FactoryType] /\ ThreadTyped(thread')
    BY <1>t, <2>1, <2>2, EnsureTyped
  <2> QED
    BY <1>t, <2>1, <2>3 DEF AllTyped, OthersTyped, Typed
<1>3. ASSUME NEW f \in Factories, NEW class \in InfoClasses, NEW n \in Numbers, NtSetInformationWorkerFactory(f, class, n)
      PROVE  AllTyped'
  <2>1. PICK fr : fr = Configured(factory[f], class, n)
    OBVIOUS
  <2>2. Ensure(f, fr) /\ UNCHANGED <<refs, handles, signal, queue, packet, wait, drain, dangling>>
    BY <1>3, <2>1 DEF NtSetInformationWorkerFactory
  <2>3. factory[f] \in FactoryType
    BY <1>t
  <2>4. fr \in FactoryType
    BY <2>1, <2>3, ConfiguredDuties DEF SameDuties
  <2>5. factory' \in [Factories -> FactoryType] /\ ThreadTyped(thread')
    BY <1>t, <2>2, <2>4, EnsureTyped
  <2> QED
    BY <1>t, <2>2, <2>5 DEF AllTyped, OthersTyped, Typed
<1>4. ASSUME NEW f \in Factories, NEW timed \in BOOLEAN, SetFactoryTimeout(f, timed)
      PROVE  AllTyped'
  <2>1. /\ factory' = [factory EXCEPT ![f].timeout = timed]
        /\ UNCHANGED <<refs, handles, signal, queue, packet, thread, wait, drain, dangling>>
    BY <1>4 DEF SetFactoryTimeout
  <2>2. factory' \in [Factories -> FactoryType]
    <3>1. factory' = [factory EXCEPT ![f] = [factory[f] EXCEPT !.timeout = timed]]
      BY <1>t, <2>1
    <3>2. [factory[f] EXCEPT !.timeout = timed] \in FactoryType
      BY <1>t DEF FactoryType
    <3> QED
      BY <1>t, <3>1, <3>2
  <2> QED
    BY <1>t, <2>1, <2>2 DEF AllTyped, OthersTyped, Typed
<1>5. ASSUME NEW f \in Factories, NtShutdownWorkerFactory(f)
      PROVE  AllTyped'
  <2>1. /\ factory' = [factory EXCEPT ![f].shutdown = TRUE, ![f].workers = {}]
        /\ UNCHANGED <<refs, handles, signal, queue, packet, thread, wait, drain, dangling>>
    BY <1>5 DEF NtShutdownWorkerFactory
  <2>2. factory' \in [Factories -> FactoryType]
    <3>1. factory' = [factory EXCEPT ![f] = [factory[f] EXCEPT !.shutdown = TRUE, !.workers = {}]]
      BY <1>t, <2>1
    <3>2. [factory[f] EXCEPT !.shutdown = TRUE, !.workers = {}] \in FactoryType
      BY <1>t DEF FactoryType
    <3> QED
      BY <1>t, <3>1, <3>2
  <2> QED
    BY <1>t, <2>1, <2>2 DEF AllTyped, OthersTyped, Typed
<1>6. ASSUME NEW f \in Factories, NtReleaseWorkerFactoryWorker(f)
      PROVE  AllTyped'
  <2>1. PICK fr : fr = [factory[f] EXCEPT !.releases = @ + 1, !.pending = TRUE]
    OBVIOUS
  <2>2. /\ Ensure(f, fr) /\ factory[f].releases < MaxReleases
        /\ factory[f].pending \/ Exists(factory[f].port)
        /\ queue' = IF factory[f].pending THEN queue ELSE EnqueueRelease(queue, f)
        /\ UNCHANGED <<refs, handles, signal, packet, wait, drain, dangling>>
    BY <1>6, <2>1 DEF NtReleaseWorkerFactoryWorker
  <2>3. factory[f] \in FactoryType
    BY <1>t
  <2>4. fr \in FactoryType
    <3>1. PICK n \in 0 .. MaxReleases : n = factory[f].releases + 1
      BY <2>2, <2>3, SizesAssumption, SMT DEF FactoryType
    <3>2. fr = [factory[f] EXCEPT !.releases = n, !.pending = TRUE]
      BY <2>1, <3>1
    <3> QED
      BY <2>3, <3>2 DEF FactoryType
  <2>5. factory' \in [Factories -> FactoryType] /\ ThreadTyped(thread')
    BY <1>t, <2>2, <2>4, EnsureTyped
  <2>6. queue' \in [Ports -> Seq(Messages)]
    <3>1. CASE factory[f].pending
      BY <1>t, <2>2, <3>1
    <3>2. CASE ~factory[f].pending
      <4>1. factory[f].port \in Ports \cup {NoHandle}
        BY <2>3 DEF FactoryType
      <4>2. PICK p \in Ports : p = factory[f].port
        BY <2>2, <3>2, <4>1, ExistingPort
      <4>3. queue' = [queue EXCEPT ![p] = Append(@, Release(f))]
        BY <2>2, <3>2, <4>2 DEF EnqueueRelease
      <4>4. Release(f) \in Messages
        BY MessageKinds
      <4> QED
        BY <1>t, <4>3, <4>4, Appended
    <3> QED
      BY <3>1, <3>2
  <2> QED
    BY <1>t, <2>2, <2>5, <2>6 DEF AllTyped, OthersTyped, Typed
<1>7. ASSUME NEW t \in Threads, NEW f \in Factories, NEW max \in {1, 2}, NtWaitForWorkViaWorkerFactory(t, f, max)
      PROVE  AllTyped'
  <2>1. PICK w : w = [port |-> factory[f].port, max |-> max, alertable |-> FALSE,
                      timeout |-> IF factory[f].timeout THEN "later" ELSE "none"]
    OBVIOUS
  <2>2. StartDrain(t, w, FALSE) /\ UNCHANGED <<handles, factory, thread, wait, dangling>> /\ Exists(factory[f].port)
    BY <1>7, <2>1 DEF NtWaitForWorkViaWorkerFactory
  <2>3. factory[f].port \in Ports \cup {NoHandle}
    BY <1>t DEF FactoryType
  <2>4. factory[f].port \in Ports
    BY <2>2, <2>3, ExistingPort
  <2>5. w \in [port : Ports, max : Nat, timeout : {"none", "zero", "later"}, alertable : BOOLEAN]
    BY <2>1, <2>4, SMT
  <2> QED
    BY <2>2, <2>5, StartDrainTyped
<1> QED
  BY <1>1, <1>2, <1>3, <1>4, <1>5, <1>6, <1>7 DEF FactoryCalls

\* What on_io_completion_message_dequeued leaves behind
LEMMA DequeuedTyped ==
    ASSUME NEW q \in [Ports -> Seq(Messages)], factory \in [Factories -> FactoryType],
           NEW m \in Messages, Dequeued(q, m.release)
    PROVE  factory' \in [Factories -> FactoryType] /\ queue' \in [Ports -> Seq(Messages)]
<1>1. CASE Exists(m.release)
  <2>1. PICK f \in Factories : f = m.release
    BY <1>1, MessageKinds, Kinds DEF Exists
  <2>2. PICK left : left = Max({factory[f].releases - 1, 0})
    OBVIOUS
  <2>3. PICK more \in BOOLEAN : more = (left > 0 /\ ~factory[f].shutdown /\ Exists(factory[f].port))
    OBVIOUS
  <2>4. /\ factory' = [factory EXCEPT ![f].releases = left, ![f].pending = IF more THEN @ ELSE FALSE]
        /\ queue' = Queues(IF more THEN EnqueueRelease(q, f) ELSE q, refs')
    BY <1>1, <2>1, <2>2, <2>3 DEF Dequeued
  <2>5. factory[f] \in FactoryType
    OBVIOUS
  <2>6. left \in 0 .. MaxReleases
    <3>1. PICK n \in 0 .. MaxReleases : n = factory[f].releases
      BY <2>5 DEF FactoryType
    <3>2. Max({n - 1, 0}) \in 0 .. MaxReleases
      <4>1. \E x \in {n - 1, 0} : \A y \in {n - 1, 0} : x >= y
        BY SMT
      <4>2. Max({n - 1, 0}) \in {n - 1, 0} /\ \A y \in {n - 1, 0} : Max({n - 1, 0}) >= y
        BY <4>1 DEF Max
      <4> QED
        BY <4>2, SizesAssumption, SMT
    <3> QED
      BY <2>2, <3>1, <3>2
  <2>7. factory' \in [Factories -> FactoryType]
    <3>1. PICK b \in BOOLEAN : b = IF more THEN factory[f].pending ELSE FALSE
      BY <2>5 DEF FactoryType
    <3>2. factory' = [factory EXCEPT ![f] = [factory[f] EXCEPT !.releases = left, !.pending = b]]
      BY <2>4, <3>1
    <3>3. [factory[f] EXCEPT !.releases = left, !.pending = b] \in FactoryType
      BY <2>5, <2>6 DEF FactoryType
    <3> QED
      BY <3>2, <3>3
  <2>8. PICK q2 : q2 = IF more THEN EnqueueRelease(q, f) ELSE q
    OBVIOUS
  <2>9. q2 \in [Ports -> Seq(Messages)]
    <3>1. CASE ~more
      BY <2>8, <3>1
    <3>2. CASE more
      <4>1. factory[f].port \in Ports \cup {NoHandle}
        BY <2>5 DEF FactoryType
      <4>2. PICK p \in Ports : p = factory[f].port
        BY <2>3, <3>2, <4>1, ExistingPort
      <4>3. q2 = [q EXCEPT ![p] = Append(@, Release(f))]
        BY <2>8, <3>2, <4>2 DEF EnqueueRelease
      <4>4. Release(f) \in Messages
        BY MessageKinds
      <4> QED
        BY <4>3, <4>4, Appended
    <3> QED
      BY <3>1, <3>2
  <2> QED
    BY <2>4, <2>7, <2>8, <2>9, QueuesTyped
<1>2. CASE ~Exists(m.release)
  <2>1. queue' = Queues(q, refs') /\ factory' = factory
    BY <1>2 DEF Dequeued
  <2> QED
    BY <2>1, QueuesTyped
<1> QED
  BY <1>1, <1>2

\* The loop and the poll that starts it keep the types.
LEMMA LoopTyped ==
    ASSUME AllTyped, Loop \/ \E t \in Threads : IsThreadReady(t)
    PROVE  AllTyped'
<1>t. /\ refs \in [Objects -> Nat] /\ handles \in [Objects -> 0 .. MaxHandles]
      /\ queue \in [Ports -> Seq(Messages)]
      /\ packet \in [Packets -> PacketType] /\ factory \in [Factories -> FactoryType]
      /\ SignalTyped(signal) /\ ThreadTyped(thread) /\ WaitTyped(wait) /\ DrainTyped(drain) /\ dangling \in BOOLEAN
  BY DEF AllTyped, OthersTyped, Typed
<1>1. CASE TakeMessage
  <2>1. drain.wait.port \in Ports \cup {NoHandle}
    BY <1>t DEF DrainTyped
  <2>2. PICK p \in Ports : p = drain.wait.port
    BY <1>1, <2>1, ExistingPort DEF TakeMessage
  <2>3. PICK m : m = Head(queue[p])
    OBVIOUS
  <2>4. PICK q : q = [queue EXCEPT ![p] = Tail(@)]
    OBVIOUS
  <2>5. /\ drain # NoDrain /\ drain.left > 0 /\ queue[p] # <<>>
        /\ refs' = IF Exists(m.packet) THEN Erase(refs, {m.packet, packet[m.packet].port, packet[m.packet].target}) ELSE refs
        /\ packet' = [j \in Packets |-> IF j = m.packet THEN IdlePacket ELSE packet[j]]
        /\ Dequeued(q, m.release)
        /\ drain' = [drain EXCEPT !.left = @ - 1, !.removed = @ + 1]
        /\ UNCHANGED <<handles, signal, thread, wait, dangling>>
    BY <1>1, <2>2, <2>3, <2>4 DEF TakeMessage
  <2>6. q \in [Ports -> Seq(Messages)] /\ m \in Messages
    BY <1>t, <2>3, <2>4, <2>5, Popped
  <2>7. refs' \in [Objects -> Nat]
    BY <1>t, <2>5, CountedTyped
  <2>8. packet' \in [Packets -> PacketType]
    BY <1>t, <2>5, IdleTyped
  <2>9. DrainTyped(drain')
    <3>1. PICK l \in Nat : l = drain.left - 1
      BY <1>t, <2>5, SMT DEF DrainTyped
    <3>2. PICK n \in Nat : n = drain.removed + 1
      BY <1>t, <2>5, SMT DEF DrainTyped
    <3>3. drain' = [drain EXCEPT !.left = l, !.removed = n]
      BY <2>5, <3>1, <3>2
    <3> QED
      BY <1>t, <2>5, <3>3 DEF DrainTyped
  <2>10. factory' \in [Factories -> FactoryType] /\ queue' \in [Ports -> Seq(Messages)]
    BY <1>t, <2>5, <2>6, DequeuedTyped
  <2> QED
    BY <1>t, <2>5, <2>7, <2>8, <2>9, <2>10 DEF AllTyped, OthersTyped, Typed
<1>2. CASE ReadErasedQueue
  <2>1. dangling' = TRUE /\ UNCHANGED <<refs, handles, signal, queue, packet, factory, thread, wait, drain>>
    BY <1>2 DEF ReadErasedQueue
  <2> QED
    BY <1>t, <2>1 DEF AllTyped, OthersTyped, Typed
<1>3. CASE EndDrain
  <2>1. /\ drain # NoDrain /\ drain' = NoDrain
        /\ UNCHANGED <<refs, handles, signal, queue, packet, factory, thread, dangling>>
        /\ \/ drain.wait.timeout # "zero" /\ wait' = [wait EXCEPT ![drain.thread] = drain.wait]
           \/ wait' = [wait EXCEPT ![drain.thread] = NoWait]
    BY <1>3 DEF EndDrain
  <2>2. WaitTyped(wait')
    <3>1. NoWait \in [port : Ports \cup {NoHandle}, max : Nat, timeout : {"none", "later"}, alertable : BOOLEAN]
      BY DEF NoWait
    <3>2. drain.wait.timeout # "zero" =>
            drain.wait \in [port : Ports \cup {NoHandle}, max : Nat, timeout : {"none", "later"}, alertable : BOOLEAN]
      BY <1>t DEF DrainTyped
    <3> QED
      BY <1>t, <2>1, <3>1, <3>2 DEF WaitTyped
  <2>3. DrainTyped(drain')
    BY <2>1 DEF DrainTyped, NoDrain, NoWait
  <2> QED
    BY <1>t, <2>1, <2>2, <2>3 DEF AllTyped, OthersTyped, Typed
<1>4. ASSUME NEW t \in Threads, IsThreadReady(t)
      PROVE  AllTyped'
  <2>1. CASE Exists(wait[t].port)
    <3>1. PICK w : w = wait[t]
      OBVIOUS
    <3>2. StartDrain(t, w, TRUE) /\ UNCHANGED <<handles, factory, thread, wait, dangling>>
      BY <1>4, <2>1, <3>1 DEF IsThreadReady
    <3>3. w \in [port : Ports \cup {NoHandle}, max : Nat, timeout : {"none", "later"}, alertable : BOOLEAN]
      BY <1>t, <3>1 DEF WaitTyped
    <3>4. w.port \in Ports
      <4>1. w.port \in Ports \cup {NoHandle}
        BY <3>3
      <4> QED
        BY <4>1, <2>1, <3>1, ExistingPort
    <3>5. w \in [port : Ports, max : Nat, timeout : {"none", "zero", "later"}, alertable : BOOLEAN]
      BY <3>3, <3>4
    <3> QED
      BY <3>2, <3>5, StartDrainTyped
  <2>2. CASE ~Exists(wait[t].port)
    <3>1. /\ wait' = [wait EXCEPT ![t] = NoWait]
          /\ UNCHANGED <<refs, handles, signal, queue, packet, factory, thread, drain, dangling>>
      BY <1>4, <2>2 DEF IsThreadReady
    <3>2. WaitTyped(wait')
      BY <1>t, <3>1 DEF WaitTyped, NoWait
    <3> QED
      BY <1>t, <3>1, <3>2 DEF AllTyped, OthersTyped, Typed
  <2> QED
    BY <2>1, <2>2
<1> QED
  BY <1>1, <1>2, <1>3, <1>4 DEF Loop

\* The initial state has its types.
LEMMA InitTyped == Init => AllTyped
<1> SUFFICES ASSUME Init PROVE AllTyped
  OBVIOUS
<1>1. refs \in [Objects -> Nat] /\ handles \in [Objects -> 0 .. MaxHandles]
  <2>1. 0 \in 0 .. MaxHandles /\ 1 \in 0 .. MaxHandles
    BY SizesAssumption, SMT
  <2> QED
    BY <2>1 DEF Init
<1>2. queue \in [Ports -> Seq(Messages)]
  BY SMT DEF Init
<1>3. packet \in [Packets -> PacketType] /\ factory \in [Factories -> FactoryType]
  BY IdleTyped DEF Init
<1>4. SignalTyped(signal)
  BY SizesAssumption, SMT DEF Init, SignalTyped
<1>5. ThreadTyped(thread)
  BY DEF Init, ThreadTyped
<1>6. WaitTyped(wait)
  BY DEF Init, WaitTyped, NoWait
<1>7. DrainTyped(drain) /\ dangling \in BOOLEAN
  BY DEF Init, DrainTyped, NoDrain, NoWait
<1> QED
  BY <1>1, <1>2, <1>3, <1>4, <1>5, <1>6, <1>7 DEF AllTyped, OthersTyped, Typed

\* Every step keeps the types.
LEMMA NextTyped ==
    ASSUME AllTyped, [Next]_vars
    PROVE  AllTyped'
<1>1. CASE Next
  BY <1>1, ObjectCallsTyped, PortCallsTyped, FactoryCallsTyped, LoopTyped DEF Next
<1>2. CASE UNCHANGED vars
  BY <1>2 DEF vars, AllTyped, OthersTyped
<1> QED
  BY <1>1, <1>2

\* The types hold whatever guest code does: in particular
\* consume_wait_completion_target takes no signal that is not there, and a
\* packet or a factory refers to a port and a target only.
THEOREM TypeCorrect == Spec => []TypeOK
<1>1. Init => AllTyped
  BY InitTyped
<1>2. AllTyped /\ [Next]_vars => AllTyped'
  BY NextTyped
<1>3. AllTyped => TypeOK
  BY TypeParts DEF AllTyped
<1> QED
  BY <1>1, <1>2, <1>3, PTL DEF Spec

----------------------------------------------------------------------------
(* What a step never does.                                                 *)

\* No packet's completion is queued for a target a wait consumes.
Quiet == \A k \in Packets : packet'[k].queued /\ ~packet[k].queued => packet'[k].target \notin Consumed

\* CompletionTakesSignal for one target
TakesSignal(x) ==
    LET completed == {k \in Packets : packet'[k].queued /\ ~packet[k].queued /\ packet'[k].target = x}
    IN  completed # {} => signal'[x] = signal[x] - Cardinality(completed)

\* A step that queues no completion owes no signal.
LEMMA QuietTakesSignal ==
    ASSUME Quiet, NEW x \in Consumed
    PROVE  TakesSignal(x)
  BY DEF Quiet, TakesSignal

\* The packets materialize_signaled_wait_packets queues are those whose
\* targets consume_wait_completion_target is called for.
LEMMA MaterializeTakesSignal ==
    ASSUME NEW pk, NEW p, NEW r, NEW q, NEW m, m = Materialize(pk, r, q, p), packet' = m.packet, signal' = m.signal,
           \A k \in Packets : pk[k] \in PacketType /\ (pk[k].queued <=> packet[k].queued), NEW x \in Consumed
    PROVE  TakesSignal(x)
<1> DEFINE S == Due(pk, p)
           new(k) == [pk[k] EXCEPT !.queued = TRUE]
<1>1. /\ packet' = [k \in Packets |-> IF k \in S THEN new(k) ELSE pk[k]]
      /\ signal' = Consume(pk, S)
  BY DEF Materialize
<1>2. S \in SUBSET Packets /\ \A k \in S : ~pk[k].queued
  BY DEF Due, Armed
<1>3. \A k \in Packets : new(k).queued = TRUE /\ new(k).target = pk[k].target
  BY DEF PacketType
<1> HIDE DEF S, new
<1>4. {k \in Packets : packet'[k].queued /\ ~packet[k].queued /\ packet'[k].target = x} = {k \in S : pk[k].target = x}
  <2>1. ASSUME NEW k \in Packets
        PROVE  packet'[k].queued /\ ~packet[k].queued /\ packet'[k].target = x <=> k \in S /\ pk[k].target = x
    <3>1. CASE k \in S
      <4>1. packet'[k] = new(k)
        BY <1>1, <3>1
      <4> QED
        BY <4>1, <1>2, <1>3, <3>1
    <3>2. CASE k \notin S
      <4>1. packet'[k] = pk[k]
        BY <1>1, <3>2
      <4> QED
        BY <4>1, <3>2
    <3> QED
      BY <3>1, <3>2
  <2> QED
    BY <1>2, <2>1
<1>5. signal'[x] = signal[x] - Cardinality({k \in S : pk[k].target = x})
  BY <1>1 DEF Consume, Targets
<1> QED
  BY <1>4, <1>5 DEF TakesSignal

\* Every call that queues the completion of a packet consumes its target.
LEMMA NextTakesSignal ==
    ASSUME AllTyped, [Next]_vars, NEW x \in Consumed
    PROVE  TakesSignal(x)
<1>t. packet \in [Packets -> PacketType]
  BY DEF AllTyped, Typed
<1>k. \A k \in Packets : packet[k] \in PacketType /\ (packet[k].queued <=> packet[k].queued)
  BY <1>t
<1>i. IdlePacket.queued = FALSE
  BY DEF IdlePacket
<1>u. ASSUME UNCHANGED packet PROVE TakesSignal(x)
  <2>1. Quiet
    BY <1>u DEF Quiet
  <2> QED
    BY <2>1, QuietTakesSignal
<1>d. ASSUME NEW t, NEW w, NEW polled, StartDrain(t, w, polled) PROVE TakesSignal(x)
  <2>1. PICK m : m = Materialize(packet, refs, queue, w.port)
    OBVIOUS
  <2>2. packet' = m.packet /\ signal' = m.signal
    BY <1>d, <2>1 DEF StartDrain
  <2> QED
    BY <1>k, <2>1, <2>2, MaterializeTakesSignal
<1>1. CASE Loop
  <2>1. CASE TakeMessage
    <3>1. PICK j : packet' = [k \in Packets |-> IF k = j THEN IdlePacket ELSE packet[k]]
      BY <2>1 DEF TakeMessage
    <3>2. Quiet
      BY <1>i, <3>1 DEF Quiet
    <3> QED
      BY <3>2, QuietTakesSignal
  <2>2. CASE ReadErasedQueue \/ EndDrain
    BY <2>2, <1>u DEF ReadErasedQueue, EndDrain
  <2> QED
    BY <1>1, <2>1, <2>2 DEF Loop
<1>2. ASSUME NEW t \in Threads, IsThreadReady(t)
      PROVE  TakesSignal(x)
  BY <1>2, <1>u, <1>d DEF IsThreadReady
<1>3. CASE ObjectCalls
  <2>1. ASSUME NEW h \in Objects, NtClose(h)
        PROVE  TakesSignal(x)
    <3>1. PICK b \in BOOLEAN : packet' = [k \in Packets |-> IF k = h /\ b THEN IdlePacket ELSE packet[k]]
      BY <2>1 DEF NtClose
    <3>2. Quiet
      BY <1>i, <3>1 DEF Quiet
    <3> QED
      BY <3>2, QuietTakesSignal
  <2> QED
    BY <1>3, <2>1, <1>u DEF ObjectCalls, Create, Duplicate, SignalTarget, TakeSignal, CreateThread, ExitThread
<1>4. CASE PortCalls
  <2>1. ASSUME NEW p \in Ports, ObservePort(p)
        PROVE  TakesSignal(x)
    <3>1. PICK m : m = Materialize(packet, refs, queue, p)
      OBVIOUS
    <3>2. packet' = m.packet /\ signal' = m.signal
      BY <2>1, <3>1 DEF ObservePort
    <3> QED
      BY <1>k, <3>1, <3>2, MaterializeTakesSignal
  <2>2. ASSUME NEW p \in Ports, NEW k \in Packets, NtSetIoCompletionEx(p, k)
        PROVE  TakesSignal(x)
    <3>1. PICK b : b = [IdlePacket EXCEPT !.port = p, !.queued = TRUE]
      OBVIOUS
    <3>2. packet' = [packet EXCEPT ![k] = b]
      BY <2>2, <3>1 DEF NtSetIoCompletionEx
    <3>3. b.target = NoHandle /\ NoHandle \notin Consumed
      <4>1. b.target = NoHandle
        BY <3>1 DEF IdlePacket
      <4> QED
        BY <4>1, Kinds DEF Targets
    <3>4. Quiet
      BY <1>t, <3>2, <3>3 DEF Quiet
    <3> QED
      BY <3>4, QuietTakesSignal
  <2>3. ASSUME NEW k \in Packets, NEW p \in Ports, NEW y \in Targets, NtAssociateWaitCompletionPacket(k, p, y)
        PROVE  TakesSignal(x)
    <3>1. PICK b : b = [IdlePacket EXCEPT !.port = p, !.target = y, !.associated = TRUE]
      OBVIOUS
    <3>2. PICK pk : pk = [packet EXCEPT ![k] = b]
      OBVIOUS
    <3>3. PICK m : m = Materialize(pk, Retain(refs, {p, y}), queue, p)
      OBVIOUS
    <3>4. packet' = m.packet /\ signal' = m.signal /\ ~packet[k].queued
      BY <2>3, <3>1, <3>2, <3>3 DEF NtAssociateWaitCompletionPacket
    <3>5. b \in PacketType /\ b.queued = FALSE
      BY <3>1 DEF IdlePacket, PacketType
    <3>6. \A j \in Packets : pk[j] \in PacketType /\ (pk[j].queued <=> packet[j].queued)
      BY <1>t, <3>2, <3>4, <3>5
    <3> QED
      BY <3>3, <3>4, <3>6, MaterializeTakesSignal
  <2>4. ASSUME NEW k \in Packets, NEW remove \in BOOLEAN, NtCancelWaitCompletionPacket(k, remove)
        PROVE  TakesSignal(x)
    <3>1. packet' = [packet EXCEPT ![k] = IdlePacket]
      BY <2>4 DEF NtCancelWaitCompletionPacket
    <3>2. Quiet
      BY <1>i, <1>t, <3>1 DEF Quiet
    <3> QED
      BY <3>2, QuietTakesSignal
  <2>5. ASSUME NEW t \in Threads, NEW p \in Ports, NEW w \in Waits, NtRemoveIoCompletion(t, p, w)
        PROVE  TakesSignal(x)
    BY <2>5, <1>d DEF NtRemoveIoCompletion
  <2>6. ASSUME NEW p \in Ports, NtSetIoCompletion(p)
        PROVE  TakesSignal(x)
    BY <2>6, <1>u DEF NtSetIoCompletion
  <2> QED
    BY <1>4, <2>1, <2>2, <2>3, <2>4, <2>5, <2>6 DEF PortCalls
<1>5. CASE FactoryCalls
  <2>1. ASSUME NEW t \in Threads, NEW f \in Factories, NEW max \in {1, 2}, NtWaitForWorkViaWorkerFactory(t, f, max)
        PROVE  TakesSignal(x)
    BY <2>1, <1>d DEF NtWaitForWorkViaWorkerFactory
  <2> QED
    BY <1>5, <2>1, <1>u DEF FactoryCalls, NtCreateWorkerFactory, NtWorkerFactoryWorkerReady,
       NtSetInformationWorkerFactory, SetFactoryTimeout, NtShutdownWorkerFactory, NtReleaseWorkerFactoryWorker
<1>6. CASE UNCHANGED vars
  BY <1>6, <1>u DEF vars
<1> QED
  BY <1>1, <1>2, <1>3, <1>4, <1>5, <1>6 DEF Next

\* Whatever guest code does, a completion that is queued for a target uses up
\* one signal of it, as NtWaitForSingleObject would.
THEOREM CompletionsTakeSignals == Spec => CompletionTakesSignal
<1>1. AllTyped /\ [Next]_vars =>
        [\A x \in Consumed :
            LET completed == {k \in Packets : packet'[k].queued /\ ~packet[k].queued /\ packet'[k].target = x}
            IN  completed # {} => signal'[x] = signal[x] - Cardinality(completed)]_vars
  BY NextTakesSignal DEF TakesSignal
<1>2. Spec => []AllTyped
  BY InitTyped, NextTyped, PTL DEF Spec
<1> QED
  BY <1>1, <1>2, PTL DEF Spec, CompletionTakesSignal

\* No worker is added to factory f, or its threads are within its limits.
WithinLimits(f) ==
    ~(factory'[f].workers \subseteq factory[f].workers) =>
        \A n \in {factory'[f].maxCount, factory'[f].maximum, factory'[f].soft} \ {0} :
            Cardinality(factory'[f].workers) <= n

\* Desired: a number of threads that no limit forbids
LEMMA DesiredWithinLimits ==
    ASSUME NEW fr \in FactoryType
    PROVE  /\ Desired(fr) \in Nat
           /\ \A n \in {fr.maxCount, fr.maximum, fr.soft} \ {0} : Desired(fr) <= n
<1> DEFINE A == {fr.minimum, fr.binding} \cup (IF fr.pending \/ fr.releases # 0 THEN {1} ELSE {})
           L == {fr.maxCount, fr.maximum, fr.soft} \ {0}
<1>1. /\ fr.minimum \in Nat /\ fr.binding \in Nat /\ fr.maxCount \in Nat /\ fr.maximum \in Nat /\ fr.soft \in Nat
  BY SizesAssumption, SMT DEF FactoryType, Numbers
<1>2. PICK d : d = Max(A)
  OBVIOUS
<1>3. d \in Nat
  <2>1. \E x \in A : \A y \in A : x >= y
    <3>1. PICK x \in {fr.minimum, fr.binding} : \A y \in {fr.minimum, fr.binding} : x >= y
      BY <1>1, SMT
    <3>2. CASE fr.pending \/ fr.releases # 0
      <4>1. A = {fr.minimum, fr.binding, 1}
        BY <3>2
      <4>2. \E z \in {x, 1} : z >= x /\ z >= 1
        BY <1>1, <3>1, SMT
      <4> QED
        BY <1>1, <3>1, <4>1, <4>2, SMT
    <3>3. CASE ~(fr.pending \/ fr.releases # 0)
      BY <3>1, <3>3
    <3> QED
      BY <3>2, <3>3
  <2>2. d \in A
    BY <1>2, <2>1 DEF Max
  <2>3. A \in SUBSET Nat
    BY <1>1, SMT
  <2> QED
    BY <2>2, <2>3
<1>4. {d} \cup L \in SUBSET Nat /\ {d} \cup L # {}
  BY <1>1, <1>3
<1>5. \E n \in {d} \cup L : \A i \in {d} \cup L : n <= i
  BY <1>4, LeastOfThem
<1>6. Desired(fr) = Min({d} \cup L)
  BY <1>2 DEF Desired, Limited
<1> HIDE DEF L
<1>7. Min({d} \cup L) \in {d} \cup L /\ \A i \in {d} \cup L : Min({d} \cup L) <= i
  BY <1>5 DEF Min
<1>8. Desired(fr) \in Nat /\ \A n \in L : Desired(fr) <= n
  BY <1>4, <1>6, <1>7
<1> QED
  BY <1>8 DEF L

\* create_thread is called at most n times for n missing threads.
LEMMA NewThreadsBounded ==
    ASSUME NEW n \in Int
    PROVE  /\ IsFiniteSet(NewThreads(n)) /\ Cardinality(NewThreads(n)) \in Nat
           /\ n <= 0 => NewThreads(n) = {}
           /\ n >= 0 => Cardinality(NewThreads(n)) <= n
<1> DEFINE free == {t \in Threads : thread[t] = "absent"}
           key == [t \in Threads |-> t]
<1>1. IsFiniteSet(Threads) /\ Threads \in SUBSET Nat
  BY SizesAssumption, FS_Interval, SMT DEF Threads
<1>2. free \in SUBSET Threads /\ IsFiniteSet(free)
  BY <1>1, FS_Subset
<1>3. Keyed(free, key)
  BY <1>1, <1>2 DEF Keyed
<1>4. \A t \in free : {u \in free : u < t} = {u \in free : key[u] < key[t]}
  OBVIOUS
<1>5. \A t \in free : Cardinality({u \in free : u < t}) = Rank(free, key, t)
  BY <1>4 DEF Rank
<1>6. NewThreads(n) = {t \in free : Rank(free, key, t) < n}
  BY <1>5 DEF NewThreads
<1>7. NewThreads(n) \in SUBSET free
  BY <1>6
<1>8. IsFiniteSet(NewThreads(n)) /\ Cardinality(NewThreads(n)) \in Nat
  BY <1>2, <1>7, FS_Subset, FS_CardinalityType
<1> HIDE DEF key, free
<1>9. n <= 0 => NewThreads(n) = {}
  <2>1. \A t \in free : Rank(free, key, t) \in Nat
    BY <1>3, RankInjective
  <2> QED
    BY <2>1, <1>6, SMT
<1>10. n >= 0 => Cardinality(NewThreads(n)) <= n
  <2> SUFFICES ASSUME n >= 0 PROVE Cardinality(NewThreads(n)) <= n
    OBVIOUS
  <2>1. n \in Nat
    BY SMT
  <2>2. Cardinality({t \in free : Rank(free, key, t) < n}) <= n
    BY <1>3, <2>1, FirstOfThem
  <2> QED
    BY <1>6, <2>2
<1> QED
  BY <1>8, <1>9, <1>10

\* ensure_worker_factory_threads stays within the limits.
LEMMA EnsureWithinLimits ==
    ASSUME factory \in [Factories -> FactoryType], NEW f \in Factories, NEW fr \in FactoryType, Ensure(f, fr),
           fr.workers \in SUBSET factory[f].workers, NEW g \in Factories
    PROVE  WithinLimits(g)
<1>1. CASE g # f
  <2>1. factory'[g] = factory[g]
    BY <1>1 DEF Ensure
  <2> QED
    BY <2>1 DEF WithinLimits
<1>2. CASE g = f /\ (fr.shutdown \/ fr.paused)
  <2>1. factory'[g] = fr
    BY <1>2 DEF Ensure
  <2> QED
    BY <1>2, <2>1 DEF WithinLimits
<1>3. CASE g = f /\ ~(fr.shutdown \/ fr.paused)
  <2>1. PICK P \in SUBSET Threads : P = Pruned(fr) /\ P \in SUBSET fr.workers
    BY DEF Pruned, FactoryType
  <2>2. /\ IsFiniteSet(P) /\ Cardinality(P) \in Nat
    <3>1. IsFiniteSet(Threads)
      BY SizesAssumption, FS_Interval, SMT DEF Threads
    <3> QED
      BY <3>1, <2>1, FS_Subset, FS_CardinalityType
  <2>3. Desired(fr) \in Nat /\ \A n \in {fr.maxCount, fr.maximum, fr.soft} \ {0} : Desired(fr) <= n
    BY DesiredWithinLimits
  <2>4. PICK c \in Int : c = Desired(fr) - Cardinality(P)
    BY <2>2, <2>3, SMT
  <2>5. PICK S : S = NewThreads(c)
    OBVIOUS
  <2>6. /\ IsFiniteSet(S) /\ Cardinality(S) \in Nat
        /\ c <= 0 => S = {}
        /\ c >= 0 => Cardinality(S) <= c
    BY <2>5, NewThreadsBounded
  <2>7. PICK W \in SUBSET Threads : W = P \cup S
    BY <2>1, <2>5 DEF NewThreads
  <2>8. factory' = [factory EXCEPT ![f] = [fr EXCEPT !.workers = W]]
    BY <1>3, <2>1, <2>4, <2>5, <2>7 DEF Ensure
  <2>9. PICK a : a = [fr EXCEPT !.workers = W]
    OBVIOUS
  <2>10. a.workers = W /\ a.maxCount = fr.maxCount /\ a.maximum = fr.maximum /\ a.soft = fr.soft
    BY <2>9 DEF FactoryType
  <2>11. factory'[g] = a
    BY <1>3, <2>8, <2>9
  <2>12. CASE c <= 0
    <3>1. W \in SUBSET factory[f].workers
      BY <2>1, <2>6, <2>7, <2>12
    <3> QED
      BY <1>3, <3>1, <2>10, <2>11 DEF WithinLimits
  <2>13. CASE c > 0
    <3>1. Cardinality(W) \in Nat /\ Cardinality(W) <= Cardinality(P) + Cardinality(S)
      <4>1. P \cap S \in SUBSET P
        OBVIOUS
      <4>2. IsFiniteSet(P \cap S) /\ Cardinality(P \cap S) \in Nat
        BY <4>1, <2>2, FS_Subset, FS_CardinalityType
      <4>3. /\ IsFiniteSet(P \cup S)
            /\ Cardinality(P \cup S) = Cardinality(P) + Cardinality(S) - Cardinality(P \cap S)
        BY <2>2, <2>6, FS_Union
      <4>4. Cardinality(P \cup S) \in Nat
        BY <4>3, FS_CardinalityType
      <4> QED
        BY <2>2, <2>6, <2>7, <4>2, <4>3, <4>4, SMT
    <3>2. Cardinality(W) <= Desired(fr)
      BY <2>2, <2>3, <2>4, <2>6, <2>13, <3>1, SMT
    <3>3. /\ fr.maxCount \in Nat /\ fr.maximum \in Nat /\ fr.soft \in Nat
      BY SizesAssumption, SMT DEF FactoryType, Numbers
    <3>4. \A n \in {fr.maxCount, fr.maximum, fr.soft} \ {0} : Cardinality(W) <= n
      BY <2>3, <3>1, <3>2, <3>3, SMT
    <3> QED
      BY <3>4, <2>10, <2>11 DEF WithinLimits
  <2> QED
    BY <2>4, <2>12, <2>13, SMT
<1> QED
  BY <1>1, <1>2, <1>3

\* Every step keeps every factory within its limits.
LEMMA NextWithinLimits ==
    ASSUME AllTyped, [Next]_vars, NEW g \in Factories
    PROVE  WithinLimits(g)
<1>t. factory \in [Factories -> FactoryType]
  BY DEF AllTyped, Typed
<1>s. ASSUME factory'[g].workers \in SUBSET factory[g].workers PROVE WithinLimits(g)
  BY <1>s DEF WithinLimits
<1>u. ASSUME UNCHANGED factory PROVE WithinLimits(g)
  BY <1>u, <1>s
<1>f. \A f \in Factories : factory[f] \in FactoryType /\ factory[f].workers \in SUBSET factory[f].workers
  BY <1>t
<1>n. NoFactory.workers = {}
  BY DEF NoFactory
<1>1. CASE Loop
  <2>1. CASE TakeMessage
    <3>1. PICK q, f : Dequeued(q, f)
      BY <2>1 DEF TakeMessage
    <3>2. CASE UNCHANGED factory
      BY <3>2, <1>u
    <3>3. CASE factory' # factory
      <4>1. PICK left, b : factory' = [factory EXCEPT ![f].releases = left, ![f].pending = b]
        BY <3>1, <3>3 DEF Dequeued
      <4>2. factory'[g].workers = factory[g].workers
        BY <1>t, <4>1 DEF FactoryType
      <4> QED
        BY <4>2, <1>s
    <3> QED
      BY <3>2, <3>3
  <2>2. CASE ReadErasedQueue \/ EndDrain
    BY <2>2, <1>u DEF ReadErasedQueue, EndDrain
  <2> QED
    BY <1>1, <2>1, <2>2 DEF Loop
<1>2. ASSUME NEW t \in Threads, IsThreadReady(t)
      PROVE  WithinLimits(g)
  BY <1>2, <1>u DEF IsThreadReady
<1>3. CASE ObjectCalls
  <2>1. ASSUME NEW h \in Objects, NtClose(h)
        PROVE  WithinLimits(g)
    <3>1. PICK b \in BOOLEAN : factory' = [f \in Factories |-> IF f = h /\ b THEN NoFactory ELSE factory[f]]
      BY <2>1 DEF NtClose
    <3>2. factory'[g] = NoFactory \/ factory'[g] = factory[g]
      BY <3>1
    <3>3. factory'[g].workers \in SUBSET factory[g].workers
      BY <1>n, <3>2
    <3> QED
      BY <3>3, <1>s
  <2> QED
    BY <1>3, <2>1, <1>u DEF ObjectCalls, Create, Duplicate, SignalTarget, TakeSignal, CreateThread, ExitThread
<1>4. CASE PortCalls
  BY <1>4, <1>u DEF PortCalls, NtSetIoCompletion, ObservePort, NtSetIoCompletionEx,
     NtAssociateWaitCompletionPacket, NtCancelWaitCompletionPacket, NtRemoveIoCompletion
<1>5. CASE FactoryCalls
  <2>1. ASSUME NEW f \in Factories, NEW p \in Ports, NEW max \in Numbers, NtCreateWorkerFactory(f, p, max)
        PROVE  WithinLimits(g)
    <3>1. PICK fr : fr = [NoFactory EXCEPT !.port = p, !.maxCount = max, !.maximum = max]
      OBVIOUS
    <3>2. Ensure(f, fr)
      BY <2>1, <3>1 DEF NtCreateWorkerFactory
    <3>3. fr \in FactoryType /\ fr.workers = {}
      BY <3>1, <1>n, IdleTyped DEF FactoryType
    <3>4. fr.workers \in SUBSET factory[f].workers
      BY <3>3
    <3> QED
      BY <1>t, <3>2, <3>3, <3>4, EnsureWithinLimits
  <2>2. ASSUME NEW f \in Factories, NtWorkerFactoryWorkerReady(f)
        PROVE  WithinLimits(g)
    <3>1. Ensure(f, factory[f])
      BY <2>2 DEF NtWorkerFactoryWorkerReady
    <3> QED
      BY <1>t, <1>f, <3>1, EnsureWithinLimits
  <2>3. ASSUME NEW f \in Factories, NEW class \in InfoClasses, NEW n \in Numbers, NtSetInformationWorkerFactory(f, class, n)
        PROVE  WithinLimits(g)
    <3>1. PICK fr : fr = Configured(factory[f], class, n)
      OBVIOUS
    <3>2. Ensure(f, fr)
      BY <2>3, <3>1 DEF NtSetInformationWorkerFactory
    <3>3. SameDuties(factory[f], fr)
      BY <1>f, <3>1, ConfiguredDuties
    <3>4. fr \in FactoryType
      BY <3>3 DEF SameDuties
    <3>5. fr.workers = factory[f].workers
      BY <1>f, <3>1 DEF Configured, FactoryType, InfoClasses
    <3>6. fr.workers \in SUBSET factory[f].workers
      BY <3>5
    <3> QED
      BY <1>t, <3>2, <3>4, <3>6, EnsureWithinLimits
  <2>4. ASSUME NEW f \in Factories, NEW timed \in BOOLEAN, SetFactoryTimeout(f, timed)
        PROVE  WithinLimits(g)
    <3>1. factory' = [factory EXCEPT ![f].timeout = timed]
      BY <2>4 DEF SetFactoryTimeout
    <3>2. factory'[g].workers = factory[g].workers
      BY <1>t, <3>1 DEF FactoryType
    <3> QED
      BY <3>2, <1>s
  <2>5. ASSUME NEW f \in Factories, NtShutdownWorkerFactory(f)
        PROVE  WithinLimits(g)
    <3>1. factory' = [factory EXCEPT ![f].shutdown = TRUE, ![f].workers = {}]
      BY <2>5 DEF NtShutdownWorkerFactory
    <3>2. factory'[g].workers \in SUBSET factory[g].workers
      BY <1>t, <3>1 DEF FactoryType
    <3> QED
      BY <3>2, <1>s
  <2>6. ASSUME NEW f \in Factories, NtReleaseWorkerFactoryWorker(f)
        PROVE  WithinLimits(g)
    <3>1. PICK fr : fr = [factory[f] EXCEPT !.releases = @ + 1, !.pending = TRUE]
      OBVIOUS
    <3>2. Ensure(f, fr) /\ factory[f].releases < MaxReleases
      BY <2>6, <3>1 DEF NtReleaseWorkerFactoryWorker
    <3>3. PICK n \in 0 .. MaxReleases : n = factory[f].releases + 1
      <4>1. PICK r \in 0 .. MaxReleases : r = factory[f].releases
        BY <1>f DEF FactoryType
      <4>2. r < MaxReleases
        BY <3>2, <4>1
      <4>3. r + 1 \in 0 .. MaxReleases
        BY <4>2, SizesAssumption, SMT
      <4> QED
        BY <4>1, <4>3
    <3>4. fr = [factory[f] EXCEPT !.releases = n, !.pending = TRUE]
      BY <3>1, <3>3
    <3>5. fr \in FactoryType /\ fr.workers = factory[f].workers
      BY <1>f, <3>4 DEF FactoryType
    <3>6. fr.workers \in SUBSET factory[f].workers
      BY <3>5
    <3> QED
      BY <1>t, <3>2, <3>5, <3>6, EnsureWithinLimits
  <2>7. ASSUME NEW t \in Threads, NEW f \in Factories, NEW max \in {1, 2}, NtWaitForWorkViaWorkerFactory(t, f, max)
        PROVE  WithinLimits(g)
    BY <2>7, <1>u DEF NtWaitForWorkViaWorkerFactory
  <2> QED
    BY <1>5, <2>1, <2>2, <2>3, <2>4, <2>5, <2>6, <2>7 DEF FactoryCalls
<1>6. CASE UNCHANGED vars
  BY <1>6, <1>u DEF vars
<1> QED
  BY <1>1, <1>2, <1>3, <1>4, <1>5, <1>6 DEF Next

\* Whatever guest code configures, ensure_worker_factory_threads never takes a
\* factory beyond a limit that is set.
THEOREM FactoriesWithinLimits == Spec => WorkersWithinLimits
<1>1. AllTyped /\ [Next]_vars =>
        [\A f \in Factories :
            ~(factory'[f].workers \subseteq factory[f].workers) =>
                \A n \in {factory'[f].maxCount, factory'[f].maximum, factory'[f].soft} \ {0} :
                    Cardinality(factory'[f].workers) <= n]_vars
  BY NextWithinLimits DEF WithinLimits
<1>2. Spec => []AllTyped
  BY InitTyped, NextTyped, PTL DEF Spec
<1> QED
  BY <1>1, <1>2, PTL DEF Spec, WorkersWithinLimits

=============================================================================
