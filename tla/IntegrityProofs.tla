-------------------------- MODULE IntegrityProofs --------------------------
(***************************************************************************)
(* Proofs about the two components that keep what is received authentic,   *)
(* MerkleTree and SessionGuard.                                            *)
(*                                                                         *)
(* MerkleTree, for any contents and any number of shards: the loops come   *)
(* to the root and the siblings of the reference tree, no other group of   *)
(* that size has the root, and a proof verifies only the shard it is for.  *)
(* SessionGuard, for every window that fits the bitmask and every set of   *)
(* counters: the sliding window accepts no counter twice and implements    *)
(* ReplayFilter.                                                           *)
(***************************************************************************)
EXTENDS MerkleTree, SessionGuard, TLAPS, WellFoundedInduction,
        NaturalsInduction

(* Every nonempty set of numbers has a least one.                          *)
LEMMA LeastNumber ==
    ASSUME NEW I \in SUBSET Nat, I # {}
    PROVE  \E i \in I : \A j \in I : i <= j
<1> DEFINE less == {ss \in Nat \X Nat : ss[1] < ss[2]}
<1>1. less = OpToRel(<, Nat)
  BY Zenon DEF OpToRel
<1>2. IsWellFoundedOn(less, Nat)
  BY <1>1, NatLessThanWellFounded, Zenon
<1>3. PICK i \in I : \A j \in I : ~(<<j, i>> \in less)
  <2> HIDE DEF less
  <2>. QED  BY <1>2, WFMin
<1>4. ASSUME NEW j \in I PROVE i <= j
  <2>1. i \in Nat /\ j \in Nat
    OBVIOUS
  <2>2. j < i => <<j, i>> \in less
    BY <2>1
  <2>3. ~(j < i)
    BY <1>3, <2>2
  <2>. QED
    BY <2>1, <2>3
<1>. QED
  BY <1>4

----------------------------------------------------------------------------
(* The recursive definitions of the reference mean what they say.          *)

SplitBody(f, n) == IF n <= 2 THEN 1 ELSE 2 * f[(n + 1) \div 2]

(* Split, TreeHash and AuditPaths satisfy the equations they are defined   *)
(* by: such functions exist.                                               *)
LEMMA SplitDef ==
    ASSUME SizeAssumption, NEW n \in 1 .. MaxShards
    PROVE  Split[n] = IF n <= 2 THEN 1 ELSE 2 * Split[(n + 1) \div 2]
<1> DEFINE Good(m) == \E f : f = [k \in 1 .. m |-> SplitBody(f, k)]
           bad == {m \in Nat : ~Good(m)}
<1>1. bad = {}
  <2>1. SUFFICES ASSUME bad # {} PROVE FALSE
    OBVIOUS
  <2>2. PICK m \in bad : \A j \in bad : m <= j
    <3>1. bad \in SUBSET Nat
      OBVIOUS
    <3> HIDE DEF bad
    <3>. QED
      BY <2>1, <3>1, LeastNumber
  <2>3. m \in Nat /\ ~Good(m)
    OBVIOUS
  <2>4. m # 0
    <3>1. [k \in 1 .. 0 |-> 0]
             = [k \in 1 .. 0 |-> SplitBody([j \in 1 .. 0 |-> 0], k)]
      OBVIOUS
    <3>. QED
      BY <2>3, <3>1
  <2>5. m - 1 \in Nat /\ m - 1 \notin bad
    <3>1. m - 1 \in Nat /\ ~(m <= m - 1)
      BY <2>3, <2>4
    <3> HIDE DEF bad
    <3>. QED
      BY <2>2, <3>1
  <2>6. PICK f : f = [k \in 1 .. m - 1 |-> SplitBody(f, k)]
    BY <2>5
  <2>7. PICK g : g = [k \in 1 .. m |-> SplitBody(f, k)]
    OBVIOUS
  <2>8. \A k \in 1 .. m : SplitBody(f, k) = SplitBody(g, k)
    <3> SUFFICES ASSUME NEW k \in 1 .. m, ~(k <= 2)
                 PROVE  f[(k + 1) \div 2] = g[(k + 1) \div 2]
      BY DEF SplitBody
    <3>1. (k + 1) \div 2 \in 1 .. m - 1 /\ (k + 1) \div 2 \in 1 .. m
      BY <2>3
    <3>. QED
      BY <2>6, <2>7, <3>1
  <2>9. g = [k \in 1 .. m |-> SplitBody(g, k)]
    BY <2>7, <2>8
  <2>. QED
    BY <2>3, <2>9
<1>2. Good(MaxShards)
  BY <1>1 DEF SizeAssumption
<1>3. Split = [k \in 1 .. MaxShards |-> SplitBody(Split, k)]
  BY <1>2, Zenon DEF Split, SplitBody
<1>. QED
  BY <1>3 DEF SplitBody

(* Split[n] is below n and at least half of it.                            *)
LEMMA SplitBounds ==
    ASSUME SizeAssumption, NEW n \in 2 .. MaxShards
    PROVE  Split[n] \in 1 .. n - 1 /\ n <= 2 * Split[n]
<1> DEFINE Good(m) == Split[m] \in 1 .. m - 1 /\ m <= 2 * Split[m]
           bad == {m \in 2 .. MaxShards : ~Good(m)}
<1>1. SUFFICES bad = {}
  OBVIOUS
<1>2. SUFFICES ASSUME bad # {} PROVE FALSE
  OBVIOUS
<1>3. PICK m \in bad : \A j \in bad : m <= j
  <2>1. bad \in SUBSET Nat
    OBVIOUS
  <2> HIDE DEF bad
  <2>. QED
    BY <1>2, <2>1, LeastNumber
<1>4. m \in 2 .. MaxShards /\ ~Good(m)
  OBVIOUS
<1>5. Split[m] = IF m <= 2 THEN 1 ELSE 2 * Split[(m + 1) \div 2]
  BY <1>4, SplitDef DEF SizeAssumption
<1>6. CASE m = 2
  BY <1>4, <1>5, <1>6
<1>7. CASE m > 2
  <2>1. PICK h : h = (m + 1) \div 2
    OBVIOUS
  <2>2. h \in 2 .. m - 1 /\ m <= 2 * h /\ 2 * h <= m + 1
    BY <1>4, <1>7, <2>1 DEF SizeAssumption
  <2>3. Split[h] \in 1 .. h - 1 /\ h <= 2 * Split[h]
    <3>1. h \notin bad
      BY <1>3, <1>4, <2>2 DEF SizeAssumption
    <3>2. h \in 2 .. MaxShards
      BY <1>4, <2>2 DEF SizeAssumption
    <3>. QED
      BY <3>1, <3>2
  <2>4. Split[m] = 2 * Split[h]
    BY <1>5, <1>7, <1>4, <2>1 DEF SizeAssumption
  <2> HIDE DEF bad, Good
  <2>5. Good(m)
    BY <1>4, <2>2, <2>3, <2>4 DEF Good
  <2>. QED
    BY <1>4, <2>5
<1>. QED
  BY <1>4, <1>6, <1>7

(* A group is a sequence of one to MaxShards shards.                       *)
LEMMA GroupShape ==
    ASSUME SizeAssumption
    PROVE  \A data : data \in Groups <=>
              data \in Seq(ShardData) /\ Len(data) \in 1 .. MaxShards
<1>1. ASSUME NEW data \in Groups
      PROVE  data \in Seq(ShardData) /\ Len(data) \in 1 .. MaxShards
  <2>1. PICK n \in 1 .. MaxShards : data \in [1 .. n -> ShardData]
    BY DEF Groups
  <2>. QED
    BY <2>1 DEF SizeAssumption
<1>2. ASSUME NEW data \in Seq(ShardData), Len(data) \in 1 .. MaxShards
      PROVE  data \in Groups
  BY <1>2 DEF Groups
<1>. QED
  BY <1>1, <1>2

(* A part of a group is a group.                                           *)
LEMMA PartShape ==
    ASSUME SizeAssumption, NEW data \in Groups,
           NEW a \in 1 .. Len(data), NEW b \in a .. Len(data)
    PROVE  /\ SubSeq(data, a, b) \in Groups
           /\ Len(SubSeq(data, a, b)) = b - a + 1
           /\ \A i \in 1 .. b - a + 1 : SubSeq(data, a, b)[i] = data[a + i - 1]
<1>1. data \in Seq(ShardData) /\ Len(data) \in 1 .. MaxShards
  BY GroupShape
<1>2. /\ SubSeq(data, a, b) \in Seq(ShardData)
      /\ Len(SubSeq(data, a, b)) = b - a + 1
      /\ \A i \in 1 .. b - a + 1 : SubSeq(data, a, b)[i] = data[a + i - 1]
  BY <1>1
<1>3. b - a + 1 \in 1 .. MaxShards
  BY <1>1 DEF SizeAssumption
<1>. QED
  BY <1>2, <1>3, GroupShape

(* Both halves are groups, and shorter.                                    *)
LEMMA Halves ==
    ASSUME SizeAssumption, NEW data \in Groups, Len(data) # 1
    PROVE  /\ Split[Len(data)] \in 1 .. Len(data) - 1
           /\ Left(data) \in Groups /\ Len(Left(data)) = Split[Len(data)]
           /\ Right(data) \in Groups
           /\ Len(Right(data)) = Len(data) - Split[Len(data)]
<1>1. Len(data) \in 2 .. MaxShards
  <2>1. \A n \in 1 .. MaxShards : n # 1 => n \in 2 .. MaxShards
    BY DEF SizeAssumption
  <2>2. Len(data) \in 1 .. MaxShards
    BY GroupShape
  <2>. QED
    BY <2>1, <2>2, Zenon
<1>2. PICK k : k = Split[Len(data)]
  OBVIOUS
<1>3. k \in 1 .. Len(data) - 1
  BY <1>1, <1>2, SplitBounds
<1>4. SubSeq(data, 1, k) \in Groups /\ Len(SubSeq(data, 1, k)) = k
  <2>1. 1 \in 1 .. Len(data) /\ k \in 1 .. Len(data) /\ k - 1 + 1 = k
    BY <1>1, <1>3
  <2>. QED
    BY <2>1, PartShape
<1>5. /\ SubSeq(data, k + 1, Len(data)) \in Groups
      /\ Len(SubSeq(data, k + 1, Len(data))) = Len(data) - k
  <2>1. /\ k + 1 \in 1 .. Len(data) /\ Len(data) \in k + 1 .. Len(data)
        /\ Len(data) - (k + 1) + 1 = Len(data) - k
    BY <1>1, <1>3
  <2>. QED
    BY <2>1, PartShape
<1>. QED
  BY <1>2, <1>3, <1>4, <1>5 DEF Left, Right

(* Where the shards of a group are in its halves.                          *)
LEMMA PartValues ==
    ASSUME SizeAssumption, NEW data \in Groups, Len(data) # 1,
           NEW k, k = Split[Len(data)], NEW n, n = Len(data),
           NEW i \in 1 .. n
    PROVE  data[i] = IF i <= k THEN Left(data)[i] ELSE Right(data)[i - k]
<1>1. n \in 1 .. MaxShards
  BY GroupShape
<1>2. k \in 1 .. n - 1
  BY Halves
<1>3. CASE i <= k
  <2>1. 1 \in 1 .. n /\ k \in 1 .. n /\ i \in 1 .. k - 1 + 1 /\ 1 + i - 1 = i
    BY <1>1, <1>2, <1>3 DEF SizeAssumption
  <2>2. SubSeq(data, 1, k)[i] = data[1 + i - 1]
    BY <2>1, PartShape
  <2>. QED
    BY <1>3, <2>1, <2>2 DEF Left
<1>4. CASE ~(i <= k)
  <2>1. /\ k + 1 \in 1 .. n /\ n \in k + 1 .. n
        /\ i - k \in 1 .. n - (k + 1) + 1 /\ k + 1 + (i - k) - 1 = i
    <3>1. n \in Nat /\ k \in Nat /\ 1 <= k /\ k <= n - 1
      BY <1>1, <1>2 DEF SizeAssumption
    <3>2. i \in Nat /\ k + 1 <= i /\ i <= n
      BY <1>4, <3>1
    <3>3. k + 1 \in 1 .. n /\ n \in k + 1 .. n
      BY <3>1
    <3>. QED
      BY <3>1, <3>2, <3>3, SMTT(30)
  <2>2. SubSeq(data, k + 1, n)[i - k] = data[k + 1 + (i - k) - 1]
    BY <2>1, PartShape
  <2>. QED
    BY <1>4, <2>1, <2>2 DEF Right
<1>. QED
  BY <1>3, <1>4

TreeBody(f, data) ==
    IF Len(data) = 1 THEN LeafHash(data[1])
    ELSE NodeHash(f[Left(data)], f[Right(data)])

Within(m) == {data \in Groups : Len(data) <= m}

LEMMA TreeHashDef ==
    ASSUME SizeAssumption, NEW data \in Groups
    PROVE  TreeHash[data] = IF Len(data) = 1 THEN LeafHash(data[1])
                            ELSE NodeHash(TreeHash[Left(data)],
                                          TreeHash[Right(data)])
<1> DEFINE Good(m) == \E f : f = [d \in Within(m) |-> TreeBody(f, d)]
           bad == {m \in Nat : ~Good(m)}
<1>0. \A d \in Groups : Len(d) \in 1 .. MaxShards
  BY GroupShape
<1>1. bad = {}
  <2>1. SUFFICES ASSUME bad # {} PROVE FALSE
    OBVIOUS
  <2>2. PICK m \in bad : \A j \in bad : m <= j
    <3>1. bad \in SUBSET Nat
      OBVIOUS
    <3> HIDE DEF bad
    <3>. QED
      BY <2>1, <3>1, LeastNumber
  <2>3. m \in Nat /\ ~Good(m)
    OBVIOUS
  <2>4. m # 0
    <3>1. Within(0) = {}
      BY <1>0 DEF Within
    <3>2. [d \in {} |-> 0] = [d \in {} |-> TreeBody([e \in {} |-> 0], d)]
      OBVIOUS
    <3>3. Good(0)
      BY <3>1, <3>2, Zenon
    <3>. QED
      BY <2>3, <3>3
  <2>5. m - 1 \in Nat /\ m - 1 \notin bad
    <3>1. m - 1 \in Nat /\ ~(m <= m - 1)
      BY <2>3, <2>4
    <3> HIDE DEF bad
    <3>. QED
      BY <2>2, <3>1
  <2>6. PICK f : f = [d \in Within(m - 1) |-> TreeBody(f, d)]
    BY <2>5
  <2>7. PICK g : g = [d \in Within(m) |-> TreeBody(f, d)]
    OBVIOUS
  <2>8. ASSUME NEW d \in Within(m) PROVE TreeBody(f, d) = TreeBody(g, d)
    <3>1. CASE Len(d) = 1
      BY <3>1 DEF TreeBody
    <3>2. CASE Len(d) # 1
      <4>1. d \in Groups /\ Len(d) <= m /\ Len(d) \in Nat
        BY <1>0 DEF Within, SizeAssumption
      <4>2. /\ Left(d) \in Groups /\ Right(d) \in Groups
            /\ Len(Left(d)) \in Nat /\ Len(Left(d)) <= Len(d) - 1
            /\ Len(Right(d)) \in Nat /\ Len(Right(d)) <= Len(d) - 1
        BY <3>2, <4>1, Halves
      <4>3. /\ Left(d) \in Within(m - 1) /\ Right(d) \in Within(m - 1)
            /\ Left(d) \in Within(m) /\ Right(d) \in Within(m)
        BY <2>3, <4>1, <4>2 DEF Within
      <4>4. f[Left(d)] = g[Left(d)] /\ f[Right(d)] = g[Right(d)]
        BY <2>6, <2>7, <4>3
      <4>. QED
        BY <4>4 DEF TreeBody
    <3>. QED
      BY <3>1, <3>2
  <2>9. g = [d \in Within(m) |-> TreeBody(g, d)]
    BY <2>7, <2>8
  <2>. QED
    BY <2>3, <2>9
<1>2. Good(MaxShards)
  BY <1>1 DEF SizeAssumption
<1>3. Within(MaxShards) = Groups
  BY <1>0 DEF Within, SizeAssumption
<1>4. \E f : f = [d \in Groups |-> TreeBody(f, d)]
  BY <1>2, <1>3
<1>5. TreeHash = [d \in Groups |-> TreeBody(TreeHash, d)]
  BY <1>4, Zenon DEF TreeHash, TreeBody
<1>. QED
  BY <1>5 DEF TreeBody

PathsBody(f, data) ==
    [i \in DOMAIN data |->
        IF Len(data) = 1 THEN <<>>
        ELSE IF i <= Split[Len(data)]
        THEN f[Left(data)][i] \o <<TreeHash[Right(data)]>>
        ELSE f[Right(data)][i - Split[Len(data)]] \o <<TreeHash[Left(data)]>>]

LEMMA AuditPathsDef ==
    ASSUME SizeAssumption, NEW data \in Groups
    PROVE  AuditPaths[data] = PathsBody(AuditPaths, data)
<1> DEFINE Good(m) == \E f : f = [d \in Within(m) |-> PathsBody(f, d)]
           bad == {m \in Nat : ~Good(m)}
<1>0. \A d \in Groups : Len(d) \in 1 .. MaxShards
  BY GroupShape
<1>1. bad = {}
  <2>1. SUFFICES ASSUME bad # {} PROVE FALSE
    OBVIOUS
  <2>2. PICK m \in bad : \A j \in bad : m <= j
    <3>1. bad \in SUBSET Nat
      OBVIOUS
    <3> HIDE DEF bad
    <3>. QED
      BY <2>1, <3>1, LeastNumber
  <2>3. m \in Nat /\ ~Good(m)
    OBVIOUS
  <2>4. m # 0
    <3>1. Within(0) = {}
      BY <1>0 DEF Within
    <3>2. [d \in {} |-> 0] = [d \in {} |-> PathsBody([e \in {} |-> 0], d)]
      OBVIOUS
    <3>3. Good(0)
      BY <3>1, <3>2, Zenon
    <3>. QED
      BY <2>3, <3>3
  <2>5. m - 1 \in Nat /\ m - 1 \notin bad
    <3>1. m - 1 \in Nat /\ ~(m <= m - 1)
      BY <2>3, <2>4
    <3> HIDE DEF bad
    <3>. QED
      BY <2>2, <3>1
  <2>6. PICK f : f = [d \in Within(m - 1) |-> PathsBody(f, d)]
    BY <2>5
  <2>7. PICK g : g = [d \in Within(m) |-> PathsBody(f, d)]
    OBVIOUS
  <2>8. ASSUME NEW d \in Within(m) PROVE PathsBody(f, d) = PathsBody(g, d)
    <3>1. CASE Len(d) = 1
      BY <3>1 DEF PathsBody
    <3>2. CASE Len(d) # 1
      <4>1. d \in Groups /\ Len(d) <= m /\ Len(d) \in Nat
        BY <1>0 DEF Within, SizeAssumption
      <4>2. /\ Left(d) \in Groups /\ Right(d) \in Groups
            /\ Len(Left(d)) \in Nat /\ Len(Left(d)) <= Len(d) - 1
            /\ Len(Right(d)) \in Nat /\ Len(Right(d)) <= Len(d) - 1
        BY <3>2, <4>1, Halves
      <4>3. /\ Left(d) \in Within(m - 1) /\ Right(d) \in Within(m - 1)
            /\ Left(d) \in Within(m) /\ Right(d) \in Within(m)
        BY <2>3, <4>1, <4>2 DEF Within
      <4>4. f[Left(d)] = g[Left(d)] /\ f[Right(d)] = g[Right(d)]
        BY <2>6, <2>7, <4>3
      <4>. QED
        BY <4>4 DEF PathsBody
    <3>. QED
      BY <3>1, <3>2
  <2>9. g = [d \in Within(m) |-> PathsBody(g, d)]
    BY <2>7, <2>8
  <2>. QED
    BY <2>3, <2>9
<1>2. Good(MaxShards)
  BY <1>1 DEF SizeAssumption
<1>3. Within(MaxShards) = Groups
  BY <1>0 DEF Within, SizeAssumption
<1>4. \E f : f = [d \in Groups |-> PathsBody(f, d)]
  BY <1>2, <1>3
<1>5. AuditPaths = [d \in Groups |-> PathsBody(AuditPaths, d)]
  BY <1>4, Zenon DEF AuditPaths, PathsBody
<1>. QED
  BY <1>5

----------------------------------------------------------------------------
(* The first shard tells groups of one shard apart.                        *)
LEMMA SameLeaf ==
    ASSUME NEW x \in Seq(ShardData), NEW y \in Seq(ShardData),
           Len(x) = 1, Len(y) = 1, x[1] = y[1]
    PROVE  x = y
OBVIOUS

(* A group is its two halves put together.                                 *)
LEMMA SameHalves ==
    ASSUME SizeAssumption, NEW x \in Groups, NEW y \in Groups,
           Len(x) # 1, Len(y) # 1, Left(x) = Left(y), Right(x) = Right(y)
    PROVE  x = y
<1>1. /\ x \in Seq(ShardData) /\ Len(x) \in 1 .. MaxShards
      /\ y \in Seq(ShardData) /\ Len(y) \in 1 .. MaxShards
  BY GroupShape
<1>2. PICK k, n : k = Split[Len(x)] /\ n = Len(x)
  OBVIOUS
<1>3. /\ k \in 1 .. n - 1 /\ Len(Left(x)) = k /\ Len(Right(x)) = n - k
      /\ n \in Nat
  <2>1. /\ Split[Len(x)] \in 1 .. Len(x) - 1
        /\ Len(Left(x)) = Split[Len(x)]
        /\ Len(Right(x)) = Len(x) - Split[Len(x)]
    BY Halves
  <2>. QED
    BY <1>1, <1>2, <2>1 DEF SizeAssumption
<1>4. /\ Split[Len(y)] \in 1 .. Len(y) - 1
      /\ Len(Left(y)) = Split[Len(y)]
      /\ Len(Right(y)) = Len(y) - Split[Len(y)]
      /\ Len(y) \in Nat
  BY <1>1, Halves DEF SizeAssumption
<1>5. Split[Len(y)] = k /\ Len(y) = n
  BY <1>3, <1>4
<1>6. \A i \in 1 .. n : x[i] = IF i <= k THEN Left(x)[i] ELSE Right(x)[i - k]
  BY <1>2, <1>3, PartValues
<1>7. \A i \in 1 .. n : y[i] = IF i <= k THEN Left(y)[i] ELSE Right(y)[i - k]
  BY <1>3, <1>5, PartValues
<1>8. \A i \in 1 .. n : x[i] = y[i]
  BY <1>6, <1>7
<1>. QED
  BY <1>1, <1>2, <1>5, <1>8

(* Groups of the same size with the same root have the same shards: their  *)
(* trees have the same shape, and nodes with the same hash have the same   *)
(* hashes below them.                                                      *)
LEMMA TreeHashInjective ==
    ASSUME SizeAssumption, NEW a \in Groups, NEW b \in Groups,
           Len(a) = Len(b), TreeHash[a] = TreeHash[b]
    PROVE  a = b
<1> DEFINE Good(m) == \A x, y \in Groups :
                         /\ Len(x) <= m /\ Len(x) = Len(y)
                            /\ TreeHash[x] = TreeHash[y]
                            => x = y
           bad == {m \in Nat : ~Good(m)}
<1>0. \A d \in Groups : d \in Seq(ShardData) /\ Len(d) \in 1 .. MaxShards
  BY GroupShape
<1>1. bad = {}
  <2>1. SUFFICES ASSUME bad # {} PROVE FALSE
    OBVIOUS
  <2>2. PICK m \in bad : \A j \in bad : m <= j
    <3>1. bad \in SUBSET Nat
      OBVIOUS
    <3> HIDE DEF bad
    <3>. QED
      BY <2>1, <3>1, LeastNumber
  <2>3. m \in Nat /\ ~Good(m)
    OBVIOUS
  <2>4. PICK x, y \in Groups :
                /\ Len(x) <= m /\ Len(x) = Len(y)
                /\ TreeHash[x] = TreeHash[y] /\ x # y
    BY <2>3
  <2>5. /\ Len(x) \in 1 .. MaxShards /\ Len(y) \in 1 .. MaxShards
        /\ x \in Seq(ShardData) /\ y \in Seq(ShardData)
    BY <1>0
  <2>6. m - 1 \in Nat /\ m - 1 \notin bad
    <3>1. m - 1 \in Nat /\ ~(m <= m - 1)
      BY <2>3, <2>4, <2>5 DEF SizeAssumption
    <3> HIDE DEF bad
    <3>. QED
      BY <2>2, <3>1
  <2>7. Good(m - 1)
    BY <2>6
  <2>0. Len(x) = Len(y) /\ TreeHash[x] = TreeHash[y]
    BY <2>4
  <2>8. /\ TreeHash[x] = IF Len(x) = 1 THEN LeafHash(x[1])
                         ELSE NodeHash(TreeHash[Left(x)], TreeHash[Right(x)])
        /\ TreeHash[y] = IF Len(y) = 1 THEN LeafHash(y[1])
                         ELSE NodeHash(TreeHash[Left(y)], TreeHash[Right(y)])
    BY TreeHashDef
  <2>10. CASE Len(x) = 1
    <3>1. Len(y) = 1 /\ LeafHash(x[1]) = LeafHash(y[1])
      <4>1. TreeHash[x] = LeafHash(x[1])
        BY <2>8, <2>10, Zenon
      <4>2. Len(y) = 1
        BY <2>0, <2>10, Zenon
      <4>3. TreeHash[y] = LeafHash(y[1])
        BY <2>8, <4>2, Zenon
      <4>. QED
        BY <2>4, <4>1, <4>2, <4>3, Zenon
    <3>2. x[1] = y[1]
      BY <3>1 DEF LeafHash, Hash
    <3>. QED
      BY <2>4, <2>5, <2>10, <3>1, <3>2, SameLeaf
  <2>11. CASE Len(x) # 1
    <3>1. /\ Len(y) # 1
          /\ NodeHash(TreeHash[Left(x)], TreeHash[Right(x)])
                = NodeHash(TreeHash[Left(y)], TreeHash[Right(y)])
      <4>1. TreeHash[x] = NodeHash(TreeHash[Left(x)], TreeHash[Right(x)])
        BY <2>8, <2>11, Zenon
      <4>2. Len(y) # 1
        BY <2>0, <2>11, Zenon
      <4>3. TreeHash[y] = NodeHash(TreeHash[Left(y)], TreeHash[Right(y)])
        BY <2>8, <4>2, Zenon
      <4>. QED
        BY <2>4, <4>1, <4>2, <4>3, Zenon
    <3>2. /\ TreeHash[Left(x)] = TreeHash[Left(y)]
          /\ TreeHash[Right(x)] = TreeHash[Right(y)]
      BY <3>1 DEF NodeHash, Hash
    <3>3. /\ Left(x) \in Groups /\ Right(x) \in Groups
          /\ Left(y) \in Groups /\ Right(y) \in Groups
          /\ Len(Left(x)) <= m - 1 /\ Len(Right(x)) <= m - 1
          /\ Len(Left(x)) = Len(Left(y)) /\ Len(Right(x)) = Len(Right(y))
      <4>1. /\ Split[Len(x)] \in 1 .. Len(x) - 1
            /\ Left(x) \in Groups /\ Len(Left(x)) = Split[Len(x)]
            /\ Right(x) \in Groups /\ Len(Right(x)) = Len(x) - Split[Len(x)]
        BY <2>11, Halves
      <4>2. /\ Left(y) \in Groups /\ Len(Left(y)) = Split[Len(y)]
            /\ Right(y) \in Groups /\ Len(Right(y)) = Len(y) - Split[Len(y)]
        BY <3>1, Halves
      <4>3. PICK s, n : s = Split[Len(x)] /\ n = Len(x)
        OBVIOUS
      <4>4. /\ n \in Nat /\ n <= m /\ s \in 1 .. n - 1
            /\ Len(Left(x)) = s /\ Len(Right(x)) = n - s
        BY <2>4, <2>5, <4>1, <4>3
      <4>5. Len(Left(y)) = s /\ Len(Right(y)) = n - s
        BY <2>0, <4>2, <4>3, Zenon
      <4>6. s <= m - 1 /\ n - s <= m - 1
        BY <2>3, <4>4
      <4>. QED
        BY <4>1, <4>2, <4>4, <4>5, <4>6, Zenon
    <3>4. Left(x) = Left(y) /\ Right(x) = Right(y)
      <4>1. \A l, r \in Groups : Len(l) <= m - 1 /\ Len(l) = Len(r)
                                /\ TreeHash[l] = TreeHash[r] => l = r
        BY <2>7, Zenon
      <4>. QED
        BY <4>1, <3>2, <3>3, Zenon
    <3>. QED
      BY <2>4, <2>11, <3>1, <3>4, SameHalves
  <2>. QED
    BY <2>10, <2>11
<1>2. Good(MaxShards)
  BY <1>1 DEF SizeAssumption
<1>3. Len(a) <= MaxShards
  BY <1>0 DEF SizeAssumption
<1>. QED
  BY <1>2, <1>3

----------------------------------------------------------------------------
(* The levels.                                                             *)

(* The part of a group that a hash is over which is one of the level's     *)
(* nodes of w leaves: those after place a, as far as there are any.        *)
Piece(data, a, w) ==
    SubSeq(data, a + 1, IF a + w <= Len(data) THEN a + w ELSE Len(data))

LevelOf(data, w, m) ==
    [k \in 1 .. m |-> TreeHash[Piece(data, (k - 1) * w, w)]]

(* w is a power of two: more than w and up to twice as many leaves are     *)
(* split at w.                                                             *)
Splits(w) == \A s \in 1 .. MaxShards : w < s /\ s <= 2 * w => Split[s] = w

(* The widths of the loop's rounds: one shard, then twice as many.         *)
LEMMA SplitsOne == ASSUME SizeAssumption PROVE Splits(1)
<1> SUFFICES ASSUME NEW s \in 1 .. MaxShards, 1 < s, s <= 2 * 1
             PROVE  Split[s] = 1
  BY DEF Splits
<1>1. s <= 2
  BY DEF SizeAssumption
<1>. QED
  BY <1>1, SplitDef

LEMMA SplitsDouble ==
    ASSUME SizeAssumption, NEW w \in Nat \ {0}, Splits(w)
    PROVE  Splits(2 * w)
<1> SUFFICES ASSUME NEW s \in 1 .. MaxShards, 2 * w < s, s <= 2 * (2 * w)
             PROVE  Split[s] = 2 * w
  BY DEF Splits
<1>1. s \in Nat /\ s > 2 /\ s <= MaxShards /\ MaxShards \in Nat
  BY DEF SizeAssumption
<1>2. PICK h : h = (s + 1) \div 2
  OBVIOUS
<1>3. h \in 1 .. MaxShards /\ w < h /\ h <= 2 * w
  BY <1>1, <1>2
<1>4. Split[h] = w
  BY <1>3 DEF Splits
<1>5. Split[s] = IF s <= 2 THEN 1 ELSE 2 * Split[(s + 1) \div 2]
  BY SplitDef
<1>. QED
  BY <1>1, <1>2, <1>4, <1>5

(* A piece of a piece is a piece.                                          *)
LEMMA PartOfPart ==
    ASSUME SizeAssumption, NEW data \in Groups,
           NEW a \in 1 .. Len(data), NEW b \in a .. Len(data),
           NEW c \in 1 .. b - a + 1, NEW d \in c .. b - a + 1
    PROVE  SubSeq(SubSeq(data, a, b), c, d)
              = SubSeq(data, a + c - 1, a + d - 1)
<1>1. PICK s : s = SubSeq(data, a, b)
  OBVIOUS
<1>2. PICK n : n = Len(data) /\ n \in Nat
  <2>1. Len(data) \in 1 .. MaxShards
    BY GroupShape
  <2>. QED
    BY <2>1 DEF SizeAssumption
<1>3. /\ s \in Groups /\ Len(s) = b - a + 1
      /\ \A i \in 1 .. b - a + 1 : s[i] = data[a + i - 1]
  BY <1>1, PartShape
<1>4. /\ a \in Nat /\ b \in Nat /\ c \in Nat /\ d \in Nat
      /\ 1 <= a /\ a <= b /\ b <= n /\ 1 <= c /\ c <= d /\ d <= b - a + 1
  BY <1>2
<1>5. PICK t : t = SubSeq(s, c, d)
  OBVIOUS
<1>6. /\ t \in Groups /\ Len(t) = d - c + 1
      /\ \A i \in 1 .. d - c + 1 : t[i] = s[c + i - 1]
  <2>1. c \in 1 .. Len(s) /\ d \in c .. Len(s)
    BY <1>3, <1>4
  <2>. QED
    BY <1>3, <1>5, <2>1, PartShape
<1>7. PICK u : u = SubSeq(data, a + c - 1, a + d - 1)
  OBVIOUS
<1>8. /\ u \in Groups /\ Len(u) = d - c + 1
      /\ \A i \in 1 .. d - c + 1 : u[i] = data[a + c - 1 + i - 1]
  <2>1. /\ a + c - 1 \in 1 .. Len(data) /\ a + d - 1 \in a + c - 1 .. Len(data)
        /\ a + d - 1 - (a + c - 1) + 1 = d - c + 1
    BY <1>2, <1>4
  <2>. QED
    BY <1>7, <2>1, PartShape, SMTT(30)
<1>9. \A i \in 1 .. d - c + 1 : t[i] = u[i]
  <2> SUFFICES ASSUME NEW i \in 1 .. d - c + 1 PROVE t[i] = u[i]
    OBVIOUS
  <2>1. c + i - 1 \in 1 .. b - a + 1 /\ a + (c + i - 1) - 1 = a + c - 1 + i - 1
    BY <1>4
  <2>2. t[i] = s[c + i - 1] /\ s[c + i - 1] = data[a + (c + i - 1) - 1]
    BY <1>3, <1>6, <2>1
  <2>3. u[i] = data[a + c - 1 + i - 1]
    BY <1>8
  <2>. QED
    BY <2>1, <2>2, <2>3
<1>10. t \in Seq(ShardData) /\ u \in Seq(ShardData)
  BY <1>6, <1>8, GroupShape
<1>11. t = u
  BY <1>6, <1>8, <1>9, <1>10
<1>. QED
  BY <1>1, <1>5, <1>7, <1>11

(* A piece has w shards, or those that are left at the end.                *)
LEMMA PieceShape ==
    ASSUME SizeAssumption, NEW data \in Groups, NEW a \in Nat,
           NEW w \in Nat \ {0}, a < Len(data)
    PROVE  /\ Piece(data, a, w) \in Groups
           /\ Len(Piece(data, a, w))
                 = IF a + w <= Len(data) THEN w ELSE Len(data) - a
<1>1. PICK n : n = Len(data) /\ n \in Nat
  <2>1. Len(data) \in 1 .. MaxShards
    BY GroupShape
  <2>. QED
    BY <2>1 DEF SizeAssumption
<1>2. PICK e : e = IF a + w <= n THEN a + w ELSE n
  OBVIOUS
<1>3. /\ a + 1 \in 1 .. Len(data) /\ e \in a + 1 .. Len(data)
      /\ e - (a + 1) + 1 = IF a + w <= n THEN w ELSE n - a
  BY <1>1, <1>2
<1>4. Piece(data, a, w) = SubSeq(data, a + 1, e)
  BY <1>1, <1>2 DEF Piece
<1>5. /\ SubSeq(data, a + 1, e) \in Groups
      /\ Len(SubSeq(data, a + 1, e)) = e - (a + 1) + 1
  BY <1>3, PartShape
<1>. QED
  BY <1>1, <1>3, <1>4, <1>5

(* A last piece that is no longer than w stays the piece of the next level.*)
LEMMA LastPiece ==
    ASSUME SizeAssumption, NEW data \in Groups, NEW a \in Nat,
           NEW w \in Nat \ {0}, a < Len(data), a + w >= Len(data)
    PROVE  Piece(data, a, 2 * w) = Piece(data, a, w)
<1>1. PICK n : n = Len(data) /\ n \in Nat
  <2>1. Len(data) \in 1 .. MaxShards
    BY GroupShape
  <2>. QED
    BY <2>1 DEF SizeAssumption
<1>2. (IF a + 2 * w <= n THEN a + 2 * w ELSE n)
         = IF a + w <= n THEN a + w ELSE n
  BY <1>1
<1>. QED
  BY <1>1, <1>2 DEF Piece

(* Of any other, two pieces are the halves.                                *)
LEMMA PieceHalves ==
    ASSUME SizeAssumption, NEW data \in Groups, NEW a \in Nat,
           NEW w \in Nat \ {0}, Splits(w), a + w < Len(data),
           NEW p, p = Piece(data, a, 2 * w)
    PROVE  /\ p \in Groups /\ Len(p) # 1 /\ Split[Len(p)] = w
           /\ Left(p) = Piece(data, a, w)
           /\ Right(p) = Piece(data, a + w, w)
<1>1. PICK n : /\ n = Len(data) /\ n \in Nat
               /\ n <= MaxShards /\ MaxShards \in Nat
  <2>1. Len(data) \in 1 .. MaxShards
    BY GroupShape
  <2>. QED
    BY <2>1 DEF SizeAssumption
<1>2. PICK e : e = IF a + 2 * w <= n THEN a + 2 * w ELSE n
  OBVIOUS
<1>3. p = SubSeq(data, a + 1, e)
  BY <1>1, <1>2 DEF Piece
<1>4. PICK s : s = e - a
  OBVIOUS
<1>5. /\ a + 1 \in 1 .. Len(data) /\ e \in a + 1 .. Len(data)
      /\ s \in 1 .. MaxShards /\ w < s /\ s <= 2 * w
      /\ e - (a + 1) + 1 = s
      /\ e \in Nat /\ e <= n
  BY <1>1, <1>2, <1>4
<1>6. p \in Groups /\ Len(p) = s
  BY <1>3, <1>5, PartShape
<1>7. Split[s] = w
  BY <1>5 DEF Splits
<1>8. Left(p) = Piece(data, a, w)
  <2>1. Left(p) = SubSeq(p, 1, w)
    BY <1>6, <1>7 DEF Left
  <2>2. /\ 1 \in 1 .. e - (a + 1) + 1 /\ w \in 1 .. e - (a + 1) + 1
        /\ a + 1 + 1 - 1 = a + 1 /\ a + 1 + w - 1 = a + w
    BY <1>5
  <2>3. SubSeq(SubSeq(data, a + 1, e), 1, w)
           = SubSeq(data, a + 1 + 1 - 1, a + 1 + w - 1)
    BY <1>5, <2>2, PartOfPart
  <2>4. Piece(data, a, w) = SubSeq(data, a + 1, a + w)
    BY <1>1 DEF Piece
  <2>. QED
    BY <1>3, <2>1, <2>2, <2>3, <2>4
<1>9. Right(p) = Piece(data, a + w, w)
  <2>1. Right(p) = SubSeq(p, w + 1, s)
    BY <1>6, <1>7 DEF Right
  <2>2. /\ w + 1 \in 1 .. e - (a + 1) + 1 /\ s \in w + 1 .. e - (a + 1) + 1
        /\ a + 1 + (w + 1) - 1 = a + w + 1 /\ a + 1 + s - 1 = e
    BY <1>4, <1>5
  <2>3. SubSeq(SubSeq(data, a + 1, e), w + 1, s)
           = SubSeq(data, a + 1 + (w + 1) - 1, a + 1 + s - 1)
    BY <1>5, <2>2, PartOfPart
  <2>4. Piece(data, a + w, w) = SubSeq(data, a + w + 1, e)
    <3>1. (IF a + w + w <= n THEN a + w + w ELSE n) = e
      BY <1>1, <1>2
    <3>. QED
      BY <1>1, <3>1 DEF Piece
  <2>. QED
    BY <1>3, <2>1, <2>2, <2>3, <2>4
<1>10. s # 1
  BY <1>5
<1>. QED
  BY <1>6, <1>7, <1>8, <1>9, <1>10, Zenon

(* The piece of twice the width is hashed from the two beside each other.  *)
LEMMA HashOfPair ==
    ASSUME SizeAssumption, NEW data \in Groups, NEW a \in Nat,
           NEW w \in Nat \ {0}, Splits(w), a + w < Len(data)
    PROVE  TreeHash[Piece(data, a, 2 * w)]
              = NodeHash(TreeHash[Piece(data, a, w)],
                         TreeHash[Piece(data, a + w, w)])
<1>1. PICK p : p = Piece(data, a, 2 * w)
  OBVIOUS
<1>2. /\ p \in Groups /\ Len(p) # 1
      /\ Left(p) = Piece(data, a, w)
      /\ Right(p) = Piece(data, a + w, w)
  BY <1>1, PieceHalves
<1>3. TreeHash[p] = IF Len(p) = 1 THEN LeafHash(p[1])
                    ELSE NodeHash(TreeHash[Left(p)], TreeHash[Right(p)])
  BY <1>2, TreeHashDef
<1>. QED
  BY <1>1, <1>2, <1>3, Zenon

(* Where the nodes of a level of m nodes begin and end.                    *)
Spans(n, w, m) == (m - 1) * w < n /\ n <= m * w

(* A level of m hashes over w shards each has half as many, rounded up,    *)
(* above it.                                                               *)
LEMMA SpansUp ==
    ASSUME NEW n \in Nat, NEW w \in Nat \ {0}, NEW m \in Nat \ {0},
           Spans(n, w, m)
    PROVE  /\ (m + 1) \div 2 \in Nat \ {0}
           /\ Spans(n, 2 * w, (m + 1) \div 2)
<1>1. PICK q : q = (m + 1) \div 2
  OBVIOUS
<1>2. q \in Nat \ {0} /\ (m = 2 * q \/ m = 2 * q - 1)
  BY <1>1
<1>3. PICK x : x = q * w
  OBVIOUS
<1>4. /\ x \in Nat /\ q * (2 * w) = 2 * x /\ (q - 1) * (2 * w) = 2 * x - 2 * w
      /\ (2 * q) * w = 2 * x /\ (2 * q - 1) * w = 2 * x - w
      /\ (2 * q - 1 - 1) * w = 2 * x - 2 * w
  BY <1>2, <1>3
<1>5. CASE m = 2 * q
  <2>1. 2 * x - w < n /\ n <= 2 * x
    BY <1>4, <1>5 DEF Spans
  <2>. QED
    BY <1>1, <1>2, <1>4, <2>1 DEF Spans
<1>6. CASE m = 2 * q - 1
  <2>1. 2 * x - 2 * w < n /\ n <= 2 * x - w
    BY <1>4, <1>6 DEF Spans
  <2>. QED
    BY <1>1, <1>2, <1>4, <2>1 DEF Spans
<1>. QED
  BY <1>2, <1>5, <1>6

(* The place of the k-th node of a level begins within the group.          *)
LEMMA PlaceWithin ==
    ASSUME NEW n \in Nat, NEW w \in Nat \ {0}, NEW m \in Nat \ {0},
           Spans(n, w, m), NEW k \in 1 .. m
    PROVE  (k - 1) * w \in Nat /\ (k - 1) * w < n
<1>1. (k - 1) * w \in Nat
  OBVIOUS
<1>2. (k - 1) * w <= (m - 1) * w
  OBVIOUS
<1>. QED
  BY <1>1, <1>2 DEF Spans

LEMMA LevelShape ==
    ASSUME SizeAssumption, NEW data, NEW w, NEW m \in Nat, NEW lev,
           lev = LevelOf(data, w, m)
    PROVE  Len(lev) = m /\ DOMAIN lev = 1 .. m
<1>1. DOMAIN lev = 1 .. m
  BY DEF LevelOf
<1>. QED
  BY <1>1

(* One turn of the loop takes a level of the reference tree to the next.   *)
LEMMA LevelUp ==
    ASSUME SizeAssumption, NEW data \in Groups, NEW w \in Nat \ {0}, Splits(w),
           NEW m \in Nat \ {0}, Spans(Len(data), w, m),
           NEW lev, lev = LevelOf(data, w, m)
    PROVE  NextLevel(lev) = LevelOf(data, 2 * w, (m + 1) \div 2)
<1>1. PICK n : n = Len(data) /\ n \in Nat
  <2>1. Len(data) \in 1 .. MaxShards
    BY GroupShape
  <2>. QED
    BY <2>1 DEF SizeAssumption
<1>2. PICK h : h = (m + 1) \div 2
  OBVIOUS
<1>3. Len(lev) = m
  BY LevelShape
<1>4. ASSUME NEW k \in 1 .. h
      PROVE  (IF 2 * k <= m THEN NodeHash(lev[2 * k - 1], lev[2 * k])
              ELSE lev[2 * k - 1])
                = TreeHash[Piece(data, (k - 1) * (2 * w), 2 * w)]
  <2>1. k \in Nat \ {0} /\ 2 * k - 1 \in 1 .. m /\ h \in Nat
    BY <1>2
  <2>2. PICK a : a = (2 * k - 1 - 1) * w
    OBVIOUS
  <2>3. a = (k - 1) * (2 * w) /\ (2 * k - 1) * w = a + w
    BY <2>1, <2>2
  <2>4. a \in Nat /\ a < n
    BY <1>1, <2>1, <2>2, PlaceWithin
  <2>5. lev[2 * k - 1] = TreeHash[Piece(data, a, w)]
    BY <2>1, <2>2 DEF LevelOf
  <2>6. CASE 2 * k <= m
    <3>1. 2 * k \in 1 .. m
      BY <2>1, <2>6
    <3>2. lev[2 * k] = TreeHash[Piece(data, (2 * k - 1) * w, w)]
      BY <3>1 DEF LevelOf
    <3>3. a + w < n
      BY <1>1, <2>3, <3>1, PlaceWithin
    <3>4. TreeHash[Piece(data, a, 2 * w)]
              = NodeHash(TreeHash[Piece(data, a, w)],
                         TreeHash[Piece(data, a + w, w)])
      BY <1>1, <2>4, <3>3, HashOfPair
    <3>. QED
      BY <2>3, <2>5, <2>6, <3>2, <3>4
  <2>7. CASE ~(2 * k <= m)
    <3>1. m = 2 * k - 1
      BY <2>1, <2>7
    <3>2. n <= a + w
      BY <1>1, <2>3, <3>1 DEF Spans
    <3>3. Piece(data, a, 2 * w) = Piece(data, a, w)
      BY <1>1, <2>4, <3>2, LastPiece
    <3>. QED
      BY <2>3, <2>5, <2>7, <3>3
  <2>. QED
    BY <2>6, <2>7
<1>. QED
  BY <1>2, <1>3, <1>4 DEF NextLevel, LevelOf

(* The siblings of leaf i below the k-th node of a level.                  *)
PathAt(data, w, k, i) ==
    AuditPaths[Piece(data, (k - 1) * w, w)][i - (k - 1) * w]

(* The loop has come to a level of the reference tree, with m nodes of w   *)
(* leaves, to the node k over leaf i, and has the siblings below it.       *)
Reached(data, i, lev, k, path, w, m) ==
    /\ Splits(w) /\ Spans(Len(data), w, m)
    /\ lev = LevelOf(data, w, m)
    /\ k \in 1 .. m /\ Spans(i, w, k)
    /\ path = PathAt(data, w, k, i)

Hashes == {TreeHash[data] : data \in Groups}

(* A shard's path in the wider piece is its path in the half it is in and  *)
(* then the hash of the other half.                                        *)
LEMMA PathOfPair ==
    ASSUME SizeAssumption, NEW data \in Groups, NEW a \in Nat,
           NEW w \in Nat \ {0}, Splits(w), a + w < Len(data),
           NEW i \in 1 .. Len(data), a < i, i <= a + 2 * w
    PROVE  AuditPaths[Piece(data, a, 2 * w)][i - a]
              = IF i - a <= w
                THEN AuditPaths[Piece(data, a, w)][i - a]
                        \o <<TreeHash[Piece(data, a + w, w)]>>
                ELSE AuditPaths[Piece(data, a + w, w)][i - a - w]
                        \o <<TreeHash[Piece(data, a, w)]>>
<1>1. PICK p : p = Piece(data, a, 2 * w)
  OBVIOUS
<1>2. PICK n : n = Len(data) /\ n \in Nat
  <2>1. Len(data) \in 1 .. MaxShards
    BY GroupShape
  <2>. QED
    BY <2>1 DEF SizeAssumption
<1>3. /\ p \in Groups /\ Len(p) # 1 /\ Split[Len(p)] = w
      /\ Left(p) = Piece(data, a, w)
      /\ Right(p) = Piece(data, a + w, w)
  BY <1>1, PieceHalves
<1>4. i - a \in DOMAIN p
  <2>1. Len(p) = IF a + 2 * w <= n THEN 2 * w ELSE n - a
    <3>1. a < Len(data) /\ 2 * w \in Nat \ {0}
      BY <1>2
    <3>. QED
      BY <1>1, <1>2, <3>1, PieceShape
  <2>2. i - a \in 1 .. Len(p)
    BY <1>2, <2>1
  <2>3. p \in Seq(ShardData)
    BY <1>3, GroupShape
  <2>. QED
    BY <2>2, <2>3
<1>5. AuditPaths[p] = PathsBody(AuditPaths, p)
  BY <1>3, AuditPathsDef
<1>6. AuditPaths[p][i - a]
        = IF i - a <= w
          THEN AuditPaths[Left(p)][i - a] \o <<TreeHash[Right(p)]>>
          ELSE AuditPaths[Right(p)][i - a - w] \o <<TreeHash[Left(p)]>>
  BY <1>3, <1>4, <1>5 DEF PathsBody
<1>. QED
  BY <1>1, <1>3, <1>6, Zenon

(* ... and adds to the proof what the reference has there.                 *)
LEMMA PathUp ==
    ASSUME SizeAssumption, NEW data \in Groups, NEW i \in 1 .. Len(data),
           NEW lev, NEW k, NEW path \in Seq(Hashes),
           NEW w \in Nat \ {0}, NEW m \in Nat \ {0},
           Reached(data, i, lev, k, path, w, m)
    PROVE  path \o Sibling(lev, k) = PathAt(data, 2 * w, (k + 1) \div 2, i)
<1> SUFFICES ASSUME Splits(w), Spans(Len(data), w, m),
                    lev = LevelOf(data, w, m), k \in 1 .. m, Spans(i, w, k),
                    path = PathAt(data, w, k, i)
             PROVE  path \o Sibling(lev, k)
                       = PathAt(data, 2 * w, (k + 1) \div 2, i)
  BY DEF Reached
<1>1. PICK n : n = Len(data) /\ n \in Nat
  <2>1. Len(data) \in 1 .. MaxShards
    BY GroupShape
  <2>. QED
    BY <2>1 DEF SizeAssumption
<1>2. PICK q : q = (k + 1) \div 2
  OBVIOUS
<1>3. q \in Nat \ {0} /\ (k = 2 * q \/ k = 2 * q - 1) /\ 2 * q - 1 \in 1 .. m
  BY <1>2
<1>4. PICK a : a = (2 * q - 1 - 1) * w
  OBVIOUS
<1>5. /\ a = (q - 1) * (2 * w)
      /\ (2 * q - 1) * w = a + w /\ (2 * q) * w = a + 2 * w
  BY <1>3, <1>4
<1>6. a \in Nat /\ a < n
  BY <1>1, <1>3, <1>4, PlaceWithin
<1>7. Len(lev) = m
  BY LevelShape
<1>8. PathAt(data, 2 * w, q, i) = AuditPaths[Piece(data, a, 2 * w)][i - a]
  BY <1>5 DEF PathAt
<1>9. i \in Nat
  BY <1>1
<1>10. lev[2 * q - 1] = TreeHash[Piece(data, a, w)]
  BY <1>3, <1>4 DEF LevelOf
<1>11. ASSUME 2 * q <= m
       PROVE  /\ lev[2 * q] = TreeHash[Piece(data, a + w, w)]
              /\ a + w < n
  <2>1. 2 * q \in 1 .. m
    BY <1>3, <1>11
  <2>2. (2 * q - 1) * w < n
    BY <1>1, <2>1, PlaceWithin
  <2>. QED
    BY <1>5, <2>1, <2>2 DEF LevelOf
<1>12. CASE k = 2 * q
  <2>1. 2 * q <= m /\ k % 2 = 0 /\ k - 1 = 2 * q - 1
    BY <1>3, <1>12
  <2>2. a + w < i /\ i <= a + 2 * w
    BY <1>5, <1>12, <2>1 DEF Spans
  <2>3. Sibling(lev, k) = <<TreeHash[Piece(data, a, w)]>>
    BY <1>10, <2>1 DEF Sibling
  <2>4. path = AuditPaths[Piece(data, a + w, w)][i - (a + w)]
    BY <1>5, <2>1 DEF PathAt
  <2>5. i - (a + w) = i - a - w /\ a < i /\ ~(i - a <= w)
    BY <1>6, <1>9, <2>2
  <2>6. AuditPaths[Piece(data, a, 2 * w)][i - a]
          = IF i - a <= w
            THEN AuditPaths[Piece(data, a, w)][i - a]
                    \o <<TreeHash[Piece(data, a + w, w)]>>
            ELSE AuditPaths[Piece(data, a + w, w)][i - a - w]
                    \o <<TreeHash[Piece(data, a, w)]>>
    <3>1. a + w < Len(data) /\ a < i /\ i <= a + 2 * w
      BY <1>1, <1>11, <2>1, <2>2, <2>5
    <3>. QED
      BY <1>6, <3>1, PathOfPair, Zenon
  <2>. QED
    BY <1>2, <1>8, <2>3, <2>4, <2>5, <2>6
<1>13. CASE k = 2 * q - 1 /\ 2 * q <= m
  <2>1. k % 2 # 0 /\ k < m /\ k + 1 = 2 * q /\ k - 1 = 2 * q - 1 - 1
    BY <1>3, <1>13
  <2>2. a < i /\ i <= a + w
    BY <1>4, <1>5, <1>13, <2>1 DEF Spans
  <2>3. Sibling(lev, k) = <<TreeHash[Piece(data, a + w, w)]>>
    BY <1>7, <1>11, <1>13, <2>1 DEF Sibling
  <2>4. path = AuditPaths[Piece(data, a, w)][i - a]
    BY <1>4, <2>1 DEF PathAt
  <2>5. i <= a + 2 * w /\ i - a <= w
    BY <1>6, <1>9, <2>2
  <2>6. AuditPaths[Piece(data, a, 2 * w)][i - a]
          = IF i - a <= w
            THEN AuditPaths[Piece(data, a, w)][i - a]
                    \o <<TreeHash[Piece(data, a + w, w)]>>
            ELSE AuditPaths[Piece(data, a + w, w)][i - a - w]
                    \o <<TreeHash[Piece(data, a, w)]>>
    <3>1. a + w < Len(data) /\ a < i /\ i <= a + 2 * w
      BY <1>1, <1>11, <1>13, <2>2, <2>5
    <3>. QED
      BY <1>6, <3>1, PathOfPair, Zenon
  <2>. QED
    BY <1>2, <1>8, <2>3, <2>4, <2>5, <2>6
<1>14. CASE k = 2 * q - 1 /\ ~(2 * q <= m)
  <2>1. k % 2 # 0 /\ ~(k < m) /\ k = m /\ k - 1 = 2 * q - 1 - 1
    BY <1>3, <1>14
  <2>2. Sibling(lev, k) = <<>>
    BY <1>7, <2>1 DEF Sibling
  <2>3. n <= a + w
    BY <1>1, <1>5, <1>14, <2>1 DEF Spans
  <2>4. Piece(data, a, 2 * w) = Piece(data, a, w)
    BY <1>1, <1>6, <2>3, LastPiece
  <2>5. path = AuditPaths[Piece(data, a, w)][i - a]
    BY <1>4, <2>1 DEF PathAt
  <2>6. path \o <<>> = path
    OBVIOUS
  <2>. QED
    BY <1>2, <1>8, <2>2, <2>4, <2>5, <2>6
<1>. QED
  BY <1>3, <1>12, <1>13, <1>14

----------------------------------------------------------------------------
(* The loop that builds the tree.                                          *)

AtLevel(w, m) == Reached(leaves, index, level, idx, siblings, w, m)

BuildInv ==
    /\ leaves \in Groups /\ index \in 1 .. Len(leaves)
    /\ siblings \in Seq(Hashes)
    /\ pc = "build" => \E w, m \in Nat \ {0} : AtLevel(w, m)
    /\ pc = "prove" => siblings = AuditPaths[leaves][index]
    /\ pc # "build" => root = TreeHash[leaves]

LEMMA GroupLength ==
    ASSUME SizeAssumption, NEW data \in Groups
    PROVE  /\ data \in Seq(ShardData) /\ DOMAIN data = 1 .. Len(data)
           /\ Len(data) \in Nat \ {0} /\ Len(data) <= MaxShards
<1>1. data \in Seq(ShardData) /\ Len(data) \in 1 .. MaxShards
  BY GroupShape
<1>2. DOMAIN data = 1 .. Len(data)
  BY <1>1
<1>. QED
  BY <1>1, <1>2 DEF SizeAssumption

LEMMA LevelHashes ==
    ASSUME SizeAssumption, NEW data \in Groups, NEW w \in Nat \ {0},
           NEW m \in Nat \ {0}, Spans(Len(data), w, m),
           NEW lev, lev = LevelOf(data, w, m), NEW k \in 1 .. m
    PROVE  lev[k] \in Hashes
<1>1. (k - 1) * w \in Nat /\ (k - 1) * w < Len(data)
  BY GroupLength, PlaceWithin
<1>2. Piece(data, (k - 1) * w, w) \in Groups
  BY <1>1, PieceShape
<1>. QED
  BY <1>2 DEF LevelOf, Hashes

LEMMA BuildInit == SizeAssumption /\ MerkleInit => BuildInv
<1> SUFFICES ASSUME SizeAssumption, MerkleInit PROVE BuildInv
  OBVIOUS
<1>1. /\ leaves \in Groups /\ index \in DOMAIN leaves /\ pc = "build"
      /\ level = [i \in DOMAIN leaves |-> LeafHash(leaves[i])]
      /\ idx = index /\ siblings = <<>>
  BY DEF MerkleInit
<1>2. PICK n : n = Len(leaves) /\ n \in Nat \ {0}
  BY <1>1, GroupLength
<1>3. leaves \in Seq(ShardData) /\ DOMAIN leaves = 1 .. n /\ index \in 1 .. n
  BY <1>1, <1>2, GroupLength
<1>4. ASSUME NEW k \in 1 .. n
      PROVE  /\ TreeHash[Piece(leaves, (k - 1) * 1, 1)] = LeafHash(leaves[k])
             /\ AuditPaths[Piece(leaves, (k - 1) * 1, 1)][1] = <<>>
  <2>1. PICK p : p = Piece(leaves, (k - 1) * 1, 1)
    OBVIOUS
  <2>2. /\ (k - 1) * 1 = k - 1 /\ k - 1 \in Nat /\ k - 1 < Len(leaves)
        /\ k - 1 + 1 <= Len(leaves) /\ k - 1 + 1 = k
    BY <1>2
  <2>3. p \in Groups /\ Len(p) = 1
    <3>1. PICK a : a = k - 1
      OBVIOUS
    <3>2. /\ a \in Nat /\ a < Len(leaves) /\ a + 1 <= Len(leaves)
          /\ p = Piece(leaves, a, 1) /\ 1 \in Nat \ {0}
      BY <2>1, <2>2, <3>1
    <3>. QED
      BY <1>1, <3>2, PieceShape
  <2>4. p = SubSeq(leaves, k, k)
    BY <2>1, <2>2 DEF Piece
  <2>5. p[1] = leaves[k]
    BY <1>2, <1>3, <2>4
  <2>6. TreeHash[p] = IF Len(p) = 1 THEN LeafHash(p[1])
                      ELSE NodeHash(TreeHash[Left(p)], TreeHash[Right(p)])
    BY <2>3, TreeHashDef
  <2>7. AuditPaths[p] = PathsBody(AuditPaths, p) /\ DOMAIN p = 1 .. 1
    BY <2>3, AuditPathsDef, GroupLength
  <2>8. AuditPaths[p][1] = <<>>
    BY <2>3, <2>7 DEF PathsBody
  <2>. QED
    BY <2>1, <2>3, <2>5, <2>6, <2>8
<1>5. AtLevel(1, n)
  <2>1. level = LevelOf(leaves, 1, n)
    BY <1>1, <1>3, <1>4 DEF LevelOf
  <2>2. Spans(n, 1, n) /\ Spans(index, 1, index)
    BY <1>2, <1>3 DEF Spans
  <2>3. index - (index - 1) * 1 = 1
    BY <1>2, <1>3
  <2>4. siblings = PathAt(leaves, 1, index, index)
    BY <1>1, <1>3, <1>4, <2>3 DEF PathAt
  <2>. QED
    BY <1>1, <1>2, <1>3, <2>1, <2>2, <2>4, SplitsOne DEF AtLevel, Reached
<1>6. siblings \in Seq(Hashes)
  BY <1>1
<1>. QED
  BY <1>1, <1>2, <1>3, <1>5, <1>6 DEF BuildInv

(* One round of the loop, one sibling of verification.                     *)
LEMMA BuildStep ==
    SizeAssumption /\ BuildInv /\ [MerkleNext]_merkleVars => BuildInv'
<1> SUFFICES ASSUME SizeAssumption, BuildInv, [MerkleNext]_merkleVars
             PROVE  BuildInv'
  OBVIOUS
<1>0. /\ leaves \in Groups /\ index \in 1 .. Len(leaves)
      /\ siblings \in Seq(Hashes)
  BY DEF BuildInv
<1>1. CASE BuildLevel
  <2>1. /\ pc = "build" /\ pc' = "build" /\ leaves' = leaves /\ index' = index
        /\ siblings' = siblings \o Sibling(level, idx)
        /\ level' = NextLevel(level) /\ idx' = (idx + 1) \div 2
    BY <1>1 DEF BuildLevel
  <2>2. PICK w, m \in Nat \ {0} : AtLevel(w, m)
    BY <2>1 DEF BuildInv
  <2>3. /\ Splits(w) /\ Spans(Len(leaves), w, m)
        /\ level = LevelOf(leaves, w, m)
        /\ idx \in 1 .. m /\ Spans(index, w, idx)
        /\ siblings = PathAt(leaves, w, idx, index)
    BY <2>2 DEF AtLevel, Reached
  <2>4. PICK h : h = (m + 1) \div 2
    OBVIOUS
  <2>5. Len(leaves) \in Nat /\ index \in Nat /\ idx \in Nat \ {0}
    BY <1>0, <2>3, GroupLength
  <2>6. h \in Nat \ {0} /\ 2 * w \in Nat \ {0} /\ Spans(Len(leaves), 2 * w, h)
    BY <2>3, <2>4, <2>5, SpansUp
  <2>7. Spans(index, 2 * w, (idx + 1) \div 2)
    BY <2>3, <2>5, SpansUp
  <2>8. (idx + 1) \div 2 \in 1 .. h
    BY <2>3, <2>4, <2>5
  <2>9. NextLevel(level) = LevelOf(leaves, 2 * w, h)
    BY <1>0, <2>3, <2>4, LevelUp
  <2>10. siblings \o Sibling(level, idx)
            = PathAt(leaves, 2 * w, (idx + 1) \div 2, index)
    BY <1>0, <2>2, PathUp DEF AtLevel
  <2>11. Splits(2 * w)
    BY <2>3, SplitsDouble
  <2>12. AtLevel(2 * w, h)'
    BY <2>1, <2>3, <2>6, <2>7, <2>8, <2>9, <2>10, <2>11 DEF AtLevel, Reached
  <2>13. siblings' \in Seq(Hashes)
    <3>1. \A k \in 1 .. m : level[k] \in Hashes
      BY <1>0, <2>3, LevelHashes
    <3>2. Len(level) = m
      BY <2>3, LevelShape
    <3>3. Sibling(level, idx) \in Seq(Hashes)
      <4>1. CASE idx % 2 = 0
        <5>1. idx - 1 \in 1 .. m
          BY <2>3, <2>5, <4>1
        <5>. QED
          BY <3>1, <4>1, <5>1 DEF Sibling
      <4>2. CASE idx % 2 # 0 /\ idx < m
        <5>1. idx + 1 \in 1 .. m
          BY <2>3, <2>5, <4>2
        <5>. QED
          BY <3>1, <3>2, <4>2, <5>1 DEF Sibling
      <4>3. CASE idx % 2 # 0 /\ ~(idx < m)
        BY <3>2, <4>3 DEF Sibling
      <4>. QED
        BY <4>1, <4>2, <4>3
    <3>. QED
      BY <1>0, <2>1, <3>3
  <2>. QED
    BY <1>0, <2>1, <2>6, <2>12, <2>13 DEF BuildInv
<1>2. CASE Prove
  <2>1. /\ pc = "build" /\ Len(level) = 1 /\ root' = level[1] /\ pc' = "prove"
        /\ leaves' = leaves /\ index' = index /\ siblings' = siblings
    BY <1>2 DEF Prove
  <2>2. PICK w, m \in Nat \ {0} : AtLevel(w, m)
    BY <2>1 DEF BuildInv
  <2>3. /\ Splits(w) /\ Spans(Len(leaves), w, m)
        /\ level = LevelOf(leaves, w, m)
        /\ idx \in 1 .. m
        /\ siblings = PathAt(leaves, w, idx, index)
    BY <2>2 DEF AtLevel, Reached
  <2>4. m = 1 /\ idx = 1
    <3>1. Len(level) = m
      BY <2>3, LevelShape
    <3>. QED
      BY <2>1, <2>3, <3>1
  <2>5. (1 - 1) * w = 0 /\ 1 * w = w
    OBVIOUS
  <2>6. Piece(leaves, 0, w) = leaves
    <3>1. PICK n : n = Len(leaves) /\ n \in Nat
      BY <1>0, GroupLength
    <3>2. (IF 0 + w <= n THEN 0 + w ELSE n) = n
      BY <2>3, <2>4, <2>5, <3>1 DEF Spans
    <3>3. Piece(leaves, 0, w) = SubSeq(leaves, 1, n)
      BY <3>1, <3>2 DEF Piece
    <3>4. leaves \in Seq(ShardData)
      BY <1>0, GroupLength
    <3>. QED
      BY <3>1, <3>3, <3>4
  <2>7. level[1] = TreeHash[leaves]
    BY <2>3, <2>4, <2>5, <2>6 DEF LevelOf
  <2>8. siblings = AuditPaths[leaves][index]
    <3>1. index - 0 = index
      BY <1>0, GroupLength
    <3>. QED
      BY <2>3, <2>4, <2>5, <2>6, <3>1 DEF PathAt
  <2>. QED
    BY <1>0, <2>1, <2>7, <2>8 DEF BuildInv
<1>3. CASE StartVerify
  BY <1>0, <1>3 DEF StartVerify, BuildInv
<1>4. CASE VerifySibling
  <2>1. /\ pc = "verify" /\ siblings # <<>> /\ siblings' = Tail(siblings)
        /\ leaves' = leaves /\ index' = index /\ root' = root /\ pc' = pc
    BY <1>4 DEF VerifySibling
  <2>2. siblings' \in Seq(Hashes)
    BY <1>0, <2>1
  <2>. QED
    BY <1>0, <2>1, <2>2 DEF BuildInv
<1>5. CASE Verdict
  BY <1>0, <1>5 DEF Verdict, BuildInv
<1>6. CASE UNCHANGED merkleVars
  BY <1>6 DEF merkleVars, BuildInv, AtLevel
<1>. QED
  BY <1>1, <1>2, <1>3, <1>4, <1>5, <1>6 DEF MerkleNext

(* For every number of shards, odd ones included, the loop comes to the    *)
(* root of the reference tree, and no other group of that size has it.     *)
THEOREM RootIsBinding == MerkleSpec => []RootBindsShards
<1>1. BuildInv /\ SizeAssumption => RootBindsShards
  BY TreeHashInjective DEF BuildInv, RootBindsShards
<1>2. SizeAssumption
  BY SizeAssumption
<1>. QED
  BY BuildInit, BuildStep, <1>1, <1>2, PTL DEF MerkleSpec

(* The siblings of a proof are those of the reference tree, for the shard  *)
(* at any place of a group of any size.                                    *)
THEOREM ProofsAreAuditPaths == MerkleSpec => []ProofIsAuditPath
<1>1. BuildInv => ProofIsAuditPath
  BY DEF BuildInv, ProofIsAuditPath
<1>2. SizeAssumption
  BY SizeAssumption
<1>. QED
  BY BuildInit, BuildStep, <1>1, <1>2, PTL DEF MerkleSpec

----------------------------------------------------------------------------
(* Verification.                                                           *)

(* The hashes over a leaf, one more than there are siblings: each is that  *)
(* of the one before it and the sibling, on whichever side.                *)
Chain(T, path) ==
    \A j \in 1 .. Len(path) :
        \/ T[j + 1] = NodeHash(T[j], path[j])
        \/ T[j + 1] = NodeHash(path[j], T[j])

Leads(T, path, from, to) ==
    Chain(T, path) /\ T[1] = from /\ T[Len(path) + 1] = to

(* One more sibling leads one hash further.                                *)
LEMMA ChainExtends ==
    ASSUME NEW S, NEW path \in Seq(S), NEW h \in S, NEW T, NEW from, NEW at,
           Leads(T, path, from, at),
           NEW to, to = NodeHash(at, h) \/ to = NodeHash(h, at)
    PROVE  \E U : Leads(U, path \o <<h>>, from, to)
<1>1. PICK n : n = Len(path) /\ n \in Nat
  OBVIOUS
<1>2. PICK longer : longer = path \o <<h>>
  OBVIOUS
<1>3. /\ Len(longer) = n + 1 /\ longer[n + 1] = h
      /\ \A j \in 1 .. n : longer[j] = path[j]
  BY <1>1, <1>2
<1>4. PICK U : U = [j \in 1 .. n + 2 |-> IF j <= n + 1 THEN T[j] ELSE to]
  OBVIOUS
<1>5. /\ U[n + 2] = to
      /\ \A j \in 1 .. n + 1 : U[j] = T[j]
  BY <1>1, <1>4
<1>6. /\ \A j \in 1 .. n : \/ T[j + 1] = NodeHash(T[j], path[j])
                           \/ T[j + 1] = NodeHash(path[j], T[j])
      /\ T[1] = from /\ T[n + 1] = at
  BY <1>1 DEF Leads, Chain
<1>7. ASSUME NEW j \in 1 .. n + 1
      PROVE  \/ U[j + 1] = NodeHash(U[j], longer[j])
             \/ U[j + 1] = NodeHash(longer[j], U[j])
  <2>1. CASE j = n + 1
    <3>1. j + 1 = n + 2 /\ j \in 1 .. n + 1
      BY <1>1, <2>1
    <3>2. U[j + 1] = to /\ U[j] = at /\ longer[j] = h
      BY <1>3, <1>5, <1>6, <2>1, <3>1
    <3>. QED
      BY <3>2
  <2>2. CASE j # n + 1
    <3>1. j \in 1 .. n /\ j + 1 \in 1 .. n + 1
      BY <1>1, <2>2
    <3>2. U[j + 1] = T[j + 1] /\ U[j] = T[j] /\ longer[j] = path[j]
      BY <1>3, <1>5, <3>1
    <3>. QED
      BY <1>6, <3>1, <3>2
  <2>. QED
    BY <2>1, <2>2
<1>8. Chain(U, longer)
  BY <1>3, <1>7 DEF Chain
<1>9. U[1] = from /\ U[Len(longer) + 1] = to
  <2>1. 1 \in 1 .. n + 1 /\ n + 1 + 1 = n + 2
    BY <1>1
  <2>. QED
    BY <1>3, <1>5, <1>6, <2>1
<1>. QED
  BY <1>2, <1>8, <1>9 DEF Leads

LEMMA ChainTail ==
    ASSUME NEW S, NEW path \in Seq(S), path # <<>>, NEW T, NEW from, NEW to,
           Leads(T, path, from, to)
    PROVE  \E U, next :
              /\ \/ next = NodeHash(from, Head(path))
                 \/ next = NodeHash(Head(path), from)
              /\ Leads(U, Tail(path), next, to)
<1>1. PICK n : n = Len(path) /\ n \in Nat /\ n >= 1
  OBVIOUS
<1>2. PICK h, rest : h = Head(path) /\ rest = Tail(path)
  OBVIOUS
<1>3. /\ h = path[1] /\ Len(rest) = n - 1
      /\ \A j \in 1 .. n - 1 : rest[j] = path[j + 1]
  BY <1>1, <1>2
<1>4. /\ \A j \in 1 .. n : \/ T[j + 1] = NodeHash(T[j], path[j])
                           \/ T[j + 1] = NodeHash(path[j], T[j])
      /\ T[1] = from /\ T[n + 1] = to
  BY <1>1 DEF Leads, Chain
<1>5. PICK U : U = [j \in 1 .. n |-> T[j + 1]]
  OBVIOUS
<1>6. \A j \in 1 .. n : U[j] = T[j + 1]
  BY <1>5
<1>7. U[1] = NodeHash(from, h) \/ U[1] = NodeHash(h, from)
  <2>1. 1 \in 1 .. n /\ 1 + 1 = 2
    BY <1>1
  <2>. QED
    BY <1>3, <1>4, <1>6, <2>1
<1>8. Chain(U, rest)
  <2> SUFFICES ASSUME NEW j \in 1 .. n - 1
               PROVE  \/ U[j + 1] = NodeHash(U[j], rest[j])
                      \/ U[j + 1] = NodeHash(rest[j], U[j])
    BY <1>3 DEF Chain
  <2>1. j \in 1 .. n /\ j + 1 \in 1 .. n
    BY <1>1
  <2>2. U[j + 1] = T[j + 1 + 1] /\ U[j] = T[j + 1] /\ rest[j] = path[j + 1]
    BY <1>3, <1>6, <2>1
  <2>. QED
    BY <1>4, <2>1, <2>2
<1>9. U[Len(rest) + 1] = to
  <2>1. n - 1 + 1 = n /\ n \in 1 .. n
    BY <1>1
  <2>. QED
    BY <1>3, <1>4, <1>6, <2>1
<1>. QED
  BY <1>2, <1>7, <1>8, <1>9 DEF Leads

(* The strengthening of AcceptedIsTheShard: some hashes lead from the      *)
(* shard's place to the root past the siblings there still are, and what   *)
(* verification has come to is the first of them only for that shard.      *)
(* Taking the sibling on the wrong side does no harm: it gives the right   *)
(* hash only if the sibling is the hash itself.                            *)
AcceptInv ==
    /\ pc = "build" =>
          \E T : Leads(T, siblings, LeafHash(leaves[index]), level[idx])
    /\ pc = "prove" =>
          \E T : Leads(T, siblings, LeafHash(leaves[index]), root)
    /\ pc = "verify" =>
          \E T, from : /\ Leads(T, siblings, from, root)
                       /\ hash = from => shard = leaves[index]
    /\ AcceptedIsTheShard

LEMMA AcceptInit == SizeAssumption /\ MerkleInit => AcceptInv
<1> SUFFICES ASSUME SizeAssumption, MerkleInit PROVE AcceptInv
  OBVIOUS
<1>1. /\ pc = "build" /\ siblings = <<>> /\ idx = index
      /\ level[index] = LeafHash(leaves[index])
  BY DEF MerkleInit
<1>2. PICK T : T = [j \in 1 .. 1 |-> LeafHash(leaves[index])]
  OBVIOUS
<1>3. Leads(T, <<>>, LeafHash(leaves[index]), LeafHash(leaves[index]))
  BY <1>2 DEF Leads, Chain
<1>. QED
  BY <1>1, <1>3 DEF AcceptInv, AcceptedIsTheShard

(* How the hash over the shard goes up one level.                          *)
LEMMA NodeUp ==
    ASSUME NEW lev, NEW m \in Nat, Len(lev) = m, NEW k \in 1 .. m
    PROVE  \/ /\ Sibling(lev, k) = <<>>
              /\ NextLevel(lev)[(k + 1) \div 2] = lev[k]
           \/ \E j \in 1 .. m :
                 /\ Sibling(lev, k) = <<lev[j]>>
                 /\ NextLevel(lev)[(k + 1) \div 2]
                       \in {NodeHash(lev[k], lev[j]), NodeHash(lev[j], lev[k])}
<1>1. PICK q : q = (k + 1) \div 2
  OBVIOUS
<1>2. /\ q \in 1 .. (m + 1) \div 2 /\ (k = 2 * q \/ k = 2 * q - 1)
      /\ q \in Nat /\ k \in Nat
  BY <1>1
<1>3. NextLevel(lev)[q] = IF 2 * q <= m
                          THEN NodeHash(lev[2 * q - 1], lev[2 * q])
                          ELSE lev[2 * q - 1]
  BY <1>2 DEF NextLevel
<1>4. CASE k = 2 * q
  <2>1. k % 2 = 0 /\ k - 1 = 2 * q - 1 /\ 2 * q <= m /\ k - 1 \in 1 .. m
    BY <1>2, <1>4
  <2>2. Sibling(lev, k) = <<lev[k - 1]>>
    BY <2>1 DEF Sibling
  <2>3. NextLevel(lev)[q] = NodeHash(lev[k - 1], lev[k])
    BY <1>3, <1>4, <2>1
  <2>. QED
    BY <1>1, <2>1, <2>2, <2>3
<1>5. CASE k = 2 * q - 1 /\ 2 * q <= m
  <2>1. k % 2 # 0 /\ k + 1 = 2 * q /\ k < m /\ k + 1 \in 1 .. m
    BY <1>2, <1>5
  <2>2. Sibling(lev, k) = <<lev[k + 1]>>
    BY <2>1 DEF Sibling
  <2>3. NextLevel(lev)[q] = NodeHash(lev[k], lev[k + 1])
    BY <1>3, <1>5, <2>1
  <2>. QED
    BY <1>1, <2>1, <2>2, <2>3
<1>6. CASE k = 2 * q - 1 /\ ~(2 * q <= m)
  <2>1. k % 2 # 0 /\ ~(k < m)
    BY <1>2, <1>6
  <2>2. Sibling(lev, k) = <<>>
    BY <2>1 DEF Sibling
  <2>. QED
    BY <1>1, <1>3, <1>6, <2>2
<1>. QED
  BY <1>2, <1>4, <1>5, <1>6

LEMMA AcceptStep ==
    SizeAssumption /\ BuildInv /\ AcceptInv /\ [MerkleNext]_merkleVars
       => AcceptInv'
<1> SUFFICES ASSUME SizeAssumption, BuildInv, AcceptInv,
                    [MerkleNext]_merkleVars
             PROVE  AcceptInv'
  OBVIOUS
<1>0. leaves \in Groups /\ siblings \in Seq(Hashes)
  BY DEF BuildInv
<1>1. CASE BuildLevel
  <2>1. /\ pc = "build" /\ pc' = "build" /\ leaves' = leaves /\ index' = index
        /\ siblings' = siblings \o Sibling(level, idx)
        /\ level' = NextLevel(level) /\ idx' = (idx + 1) \div 2
    BY <1>1 DEF BuildLevel
  <2>2. PICK w, m \in Nat \ {0} : AtLevel(w, m)
    BY <2>1 DEF BuildInv
  <2>3. /\ Spans(Len(leaves), w, m) /\ level = LevelOf(leaves, w, m)
        /\ idx \in 1 .. m
    BY <2>2 DEF AtLevel, Reached
  <2>4. Len(level) = m
    BY <2>3, LevelShape
  <2>5. PICK leaf : leaf = LeafHash(leaves[index])
    OBVIOUS
  <2>6. PICK T : Leads(T, siblings, leaf, level[idx])
    BY <2>1, <2>5 DEF AcceptInv
  <2>7. \E U : Leads(U, siblings', leaf, level'[idx'])
    <3>1. CASE /\ Sibling(level, idx) = <<>>
               /\ NextLevel(level)[(idx + 1) \div 2] = level[idx]
      <4>1. siblings \o <<>> = siblings
        BY <1>0
      <4>. QED
        BY <2>1, <2>6, <3>1, <4>1
    <3>2. ASSUME NEW j \in 1 .. m,
                 Sibling(level, idx) = <<level[j]>>,
                 NextLevel(level)[(idx + 1) \div 2]
                    \in {NodeHash(level[idx], level[j]),
                         NodeHash(level[j], level[idx])}
          PROVE  \E U : Leads(U, siblings', leaf, level'[idx'])
      <4>1. PICK path, h, at, to :
                  /\ path = siblings /\ h = level[j] /\ at = level[idx]
                  /\ to = NextLevel(level)[(idx + 1) \div 2]
        OBVIOUS
      <4>2. path \in Seq(Hashes) /\ Leads(T, path, leaf, at)
        BY <1>0, <2>6, <4>1
      <4>3. h \in Hashes
        BY <1>0, <2>3, <4>1, LevelHashes
      <4>4. to = NodeHash(at, h) \/ to = NodeHash(h, at)
        BY <3>2, <4>1
      <4>5. \E U : Leads(U, path \o <<h>>, leaf, to)
        BY <4>2, <4>3, <4>4, ChainExtends
      <4>6. siblings' = path \o <<h>> /\ level'[idx'] = to
        BY <2>1, <3>2, <4>1, Zenon
      <4>. QED
        BY <4>5, <4>6, ZenonT(40)
    <3>. QED
      BY <2>3, <2>4, <3>1, <3>2, NodeUp, ZenonT(40)
  <2>. QED
    BY <2>1, <2>5, <2>7 DEF AcceptInv, AcceptedIsTheShard
<1>2. CASE Prove
  <2>1. /\ pc = "build" /\ Len(level) = 1 /\ root' = level[1] /\ pc' = "prove"
        /\ leaves' = leaves /\ index' = index /\ siblings' = siblings
    BY <1>2 DEF Prove
  <2>2. idx = 1
    <3>1. PICK w, m \in Nat \ {0} : AtLevel(w, m)
      BY <2>1 DEF BuildInv
    <3>0. Reached(leaves, index, level, idx, siblings, w, m)
      BY <3>1 DEF AtLevel
    <3>2. level = LevelOf(leaves, w, m) /\ idx \in 1 .. m
      BY <3>0, ZenonT(40) DEF Reached
    <3>3. m = 1
      <4>1. Len(level) = m
        BY <3>2, LevelShape
      <4>. QED
        BY <2>1, <4>1
    <3>. QED
      BY <3>2, <3>3
  <2>3. PICK T : Leads(T, siblings, LeafHash(leaves[index]), level[idx])
    BY <2>1 DEF AcceptInv
  <2>. QED
    BY <2>1, <2>2, <2>3 DEF AcceptInv, AcceptedIsTheShard
<1>3. CASE StartVerify
  <2>1. /\ pc = "prove" /\ pc' = "verify" /\ hash' = LeafHash(shard)
        /\ leaves' = leaves /\ index' = index /\ siblings' = siblings
        /\ shard' = shard /\ root' = root
    BY <1>3 DEF StartVerify
  <2>2. PICK T : Leads(T, siblings, LeafHash(leaves[index]), root)
    BY <2>1 DEF AcceptInv
  <2>3. LeafHash(shard) = LeafHash(leaves[index]) => shard = leaves[index]
    BY DEF LeafHash, Hash
  <2>. QED
    BY <2>1, <2>2, <2>3 DEF AcceptInv, AcceptedIsTheShard
<1>4. CASE VerifySibling
  <2>1. /\ pc = "verify" /\ pc' = "verify" /\ siblings # <<>>
        /\ hash' = NodeHash(hash, Head(siblings)) /\ siblings' = Tail(siblings)
        /\ leaves' = leaves /\ index' = index /\ shard' = shard /\ root' = root
    BY <1>4 DEF VerifySibling
  <2>2. PICK T, from : /\ Leads(T, siblings, from, root)
                       /\ hash = from => shard = leaves[index]
    BY <2>1 DEF AcceptInv
  <2>3. PICK U, next : /\ \/ next = NodeHash(from, Head(siblings))
                          \/ next = NodeHash(Head(siblings), from)
                       /\ Leads(U, Tail(siblings), next, root)
    <3>1. PICK path, to : path = siblings /\ to = root
      OBVIOUS
    <3>2. path \in Seq(Hashes) /\ path # <<>> /\ Leads(T, path, from, to)
      BY <1>0, <2>1, <2>2, <3>1, Zenon
    <3>3. \E V, next :
             /\ \/ next = NodeHash(from, Head(path))
                \/ next = NodeHash(Head(path), from)
             /\ Leads(V, Tail(path), next, to)
      BY <3>2, ChainTail
    <3>. QED
      BY <3>1, <3>3, Zenon
  <2>4. hash' = next => hash = from
    BY <2>1, <2>3 DEF NodeHash, Hash
  <2>. QED
    BY <2>1, <2>2, <2>3, <2>4 DEF AcceptInv, AcceptedIsTheShard
<1>5. CASE Verdict
  <2>1. /\ pc = "verify" /\ pc' = "done" /\ siblings = <<>>
        /\ verdict' = (hash = root)
        /\ leaves' = leaves /\ index' = index /\ shard' = shard
    BY <1>5 DEF Verdict
  <2>2. PICK T, from : /\ Leads(T, siblings, from, root)
                       /\ hash = from => shard = leaves[index]
    BY <2>1 DEF AcceptInv
  <2>3. root = from
    BY <2>1, <2>2 DEF Leads
  <2>. QED
    BY <2>1, <2>2, <2>3 DEF AcceptInv, AcceptedIsTheShard
<1>6. CASE UNCHANGED merkleVars
  BY <1>6 DEF merkleVars, AcceptInv, AcceptedIsTheShard
<1>. QED
  BY <1>1, <1>2, <1>3, <1>4, <1>5, <1>6 DEF MerkleNext

(* What verify_merkle_proof accepts with the proof of a place is the shard *)
(* at that place, for any group of shards.                                 *)
THEOREM OnlyTheShardVerifies == MerkleSpec => []AcceptedIsTheShard
<1>1. AcceptInv => AcceptedIsTheShard
  BY DEF AcceptInv
<1>2. SizeAssumption
  BY SizeAssumption
<1>. QED
  BY BuildInit, BuildStep, AcceptInit, AcceptStep, <1>1, <1>2, PTL
     DEF MerkleSpec

----------------------------------------------------------------------------
(* The session guard.                                                      *)

USE WindowAssumption, TimeAssumption

(* The initial window is empty.                                            *)
LEMMA InitWindow == Init => WindowInv
BY DEF Init, WindowInv, TypeOK, BitsAreCounters, NewestIsLargest

(* A bit that is shifted within the window stays the bit of its counter,   *)
(* and the bits that come in from below are those of the counters skipped. *)
LEMMA NewestKeepsBits ==
    ASSUME WindowInv, NEW counter \in Counters, AcceptNewest(counter)
    PROVE  BitsAreCounters'
<1> SUFFICES ASSUME NEW offset \in 0 .. WSize - 1
             PROVE  offset \in bitmask' <=> vmax' - offset \in accepted'
  BY DEF BitsAreCounters
<1> DEFINE shift == counter - vmax
<1>1. /\ vmax \in Nat /\ counter \in Nat /\ shift \in Nat /\ shift >= 1
      /\ bitmask \subseteq 0 .. Width - 1
      /\ bitmask' = Shifted(bitmask, shift)
      /\ vmax' = counter
      /\ accepted' = accepted \cup {counter}
      /\ \A a \in accepted : a \in Nat /\ a <= vmax
  BY DEF AcceptNewest, WindowInv, TypeOK, NewestIsLargest
<1>2. CASE offset = 0
  BY <1>1, <1>2 DEF Shifted
<1>3. CASE offset # 0 /\ offset < shift
  <2>1. vmax' - offset \notin accepted'
    BY <1>1, <1>3
  <2>2. offset \notin bitmask'
    BY <1>1, <1>3 DEF Shifted
  <2> QED
    BY <2>1, <2>2
<1>4. CASE offset >= shift
  <2>1. shift < WSize /\ offset # 0
    BY <1>1, <1>4
  <2>2. offset - shift \in 0 .. WSize - 1 /\ vmax' - offset = vmax - (offset - shift)
    BY <1>1, <1>4
  <2>3. offset \in bitmask' <=> offset - shift \in bitmask
    BY <1>1, <2>1, <2>2 DEF Shifted
  <2>4. vmax' - offset \in accepted' <=> vmax' - offset \in accepted
    BY <1>1, <2>1
  <2> QED
    BY <2>2, <2>3, <2>4 DEF WindowInv, BitsAreCounters
<1> QED
  BY <1>1, <1>2, <1>3, <1>4

(* The same for a counter below the newest one: one bit and one counter.   *)
LEMMA InWindowKeepsBits ==
    ASSUME WindowInv, NEW counter \in Counters, AcceptInWindow(counter)
    PROVE  BitsAreCounters'
<1> SUFFICES ASSUME NEW offset \in 0 .. WSize - 1
             PROVE  offset \in bitmask' <=> vmax' - offset \in accepted'
  BY DEF BitsAreCounters
<1>1. /\ vmax \in Nat /\ counter \in Nat
      /\ bitmask' = bitmask \cup {vmax - counter}
      /\ vmax' = vmax
      /\ accepted' = accepted \cup {counter}
  BY DEF AcceptInWindow, WindowInv, TypeOK
<1>2. offset = vmax - counter <=> vmax - offset = counter
  BY <1>1
<1>3. offset \in bitmask <=> vmax - offset \in accepted
  BY DEF WindowInv, BitsAreCounters
<1> QED
  BY <1>1, <1>2, <1>3

(* A counter that is accepted lies in the window, and its bit was 0.       *)
LEMMA AcceptedIsFresh ==
    ASSUME WindowInv, NEW counter \in Counters, Accepts(counter)
    PROVE  Filter!Fresh(counter)
<1>1. /\ vmax \in Nat /\ counter \in Nat
      /\ \A a \in accepted : a \in Nat /\ a <= vmax
      /\ 0 \notin accepted
  BY DEF WindowInv, TypeOK, NewestIsLargest
<1>2. CASE counter > vmax
  BY <1>1, <1>2 DEF Filter!Fresh
<1>3. CASE counter <= vmax
  <2>1. counter > 0 /\ counter > vmax - WSize /\ vmax - counter \notin bitmask
    BY <1>1, <1>3 DEF Accepts, TooOld, SatSub
  <2>2. vmax - counter \in 0 .. WSize - 1 /\ vmax - (vmax - counter) = counter
    BY <1>1, <1>3, <2>1
  <2>3. counter \notin accepted
    BY <2>1, <2>2 DEF WindowInv, BitsAreCounters
  <2> QED
    BY <1>1, <2>1, <2>3 DEF Filter!Fresh
<1> QED
  BY <1>1, <1>2, <1>3

(* Every step keeps the window's invariant.                                *)
LEMMA StepWindow == WindowInv /\ [Next]_vars => WindowInv'
<1> SUFFICES ASSUME WindowInv, [Next]_vars PROVE WindowInv'
  OBVIOUS
<1> USE DEF WindowInv
<1>1. ASSUME NEW counter \in Counters, AcceptNewest(counter) PROVE WindowInv'
  <2>1. TypeOK'
    <3>1. Shifted(bitmask, counter - vmax) \subseteq 0 .. Width - 1
      BY DEF Shifted
    <3>2. counter \in Nat
      OBVIOUS
    <3>. QED
      BY <1>1, <3>1, <3>2 DEF AcceptNewest, Touch, TypeOK
  <2>2. NewestIsLargest'
    BY <1>1 DEF AcceptNewest, TypeOK, NewestIsLargest
  <2> QED
    BY <1>1, <2>1, <2>2, NewestKeepsBits
<1>2. ASSUME NEW counter \in Counters, AcceptInWindow(counter) PROVE WindowInv'
  <2>1. /\ counter \in Nat /\ counter > 0 /\ counter <= vmax
        /\ vmax - counter \in 0 .. Width - 1
    BY <1>2 DEF AcceptInWindow, Accepts, TooOld, SatSub, TypeOK
  <2>2. TypeOK'
    BY <1>2, <2>1 DEF AcceptInWindow, Touch, TypeOK
  <2>3. NewestIsLargest'
    BY <1>2, <2>1 DEF AcceptInWindow, TypeOK, NewestIsLargest
  <2> QED
    BY <1>2, <2>2, <2>3, InWindowKeepsBits
<1>3. ASSUME NEW counter \in Counters, Reject(counter) PROVE WindowInv'
  BY <1>3 DEF Reject, vars, window, TypeOK, BitsAreCounters, NewestIsLargest
<1>4. CASE Heartbeat
  BY <1>4 DEF Heartbeat, Touch, window, TypeOK, BitsAreCounters, NewestIsLargest
<1>5. CASE MissHeartbeat
  BY <1>5 DEF MissHeartbeat, window, TypeOK, BitsAreCounters, NewestIsLargest
<1>6. CASE TriggerWipe
  BY <1>6 DEF TriggerWipe, window, TypeOK, BitsAreCounters, NewestIsLargest
<1>7. ASSUME NEW k \in Keys, SetMasterKey(k) PROVE WindowInv'
  BY <1>7 DEF SetMasterKey, window, TypeOK, BitsAreCounters, NewestIsLargest
<1>8. CASE Tick
  BY <1>8 DEF Tick, window, TypeOK, BitsAreCounters, NewestIsLargest
<1>9. CASE UNCHANGED vars
  BY <1>9 DEF vars, window, TypeOK, BitsAreCounters, NewestIsLargest
<1> QED
  BY <1>1, <1>2, <1>3, <1>4, <1>5, <1>6, <1>7, <1>8, <1>9
  DEF Next, CheckAndUpdate

(* The bits of the window are the counters accepted in it, at all times.   *)
THEOREM WindowIsExact == Spec => []WindowInv
BY InitWindow, StepWindow, PTL DEF Spec

(* Types of the guard's fields.                                            *)
THEOREM TypeCorrect == Spec => []TypeOK
BY WindowIsExact, PTL DEF WindowInv

(* The session guard never accepts a counter twice.                        *)
THEOREM NeverTwice == Spec => NoDoubleAccept
<1> DEFINE Once == \A counter \in Counters :
                      AcceptNewest(counter) \/ AcceptInWindow(counter)
                          => counter \notin accepted
<1>1. WindowInv => Once
  <2> SUFFICES ASSUME WindowInv, NEW counter \in Counters,
                      AcceptNewest(counter) \/ AcceptInWindow(counter)
               PROVE  counter \notin accepted
    OBVIOUS
  <2>1. Accepts(counter)
    BY DEF AcceptNewest, AcceptInWindow
  <2> QED
    BY <2>1, AcceptedIsFresh DEF Filter!Fresh
<1>2. WindowInv => [Once]_vars
  BY <1>1
<1> QED
  BY <1>2, WindowIsExact, PTL DEF NoDoubleAccept

(* Within the window the guard turns no new counter away.                  *)
THEOREM FreshAccepted == Spec => []FreshNotRejected
<1>1. WindowInv => FreshNotRejected
  <2> SUFFICES ASSUME WindowInv, NEW counter \in Counters, IsValid,
                      Filter!Fresh(counter)
               PROVE  Accepts(counter)
    BY DEF FreshNotRejected
  <2>1. vmax \in Nat /\ counter \in Nat /\ counter > 0
    BY DEF WindowInv, TypeOK, Filter!Fresh
  <2>2. counter \notin accepted
    BY DEF Filter!Fresh
  <2>3. vmax = 0 \/ counter > vmax - WSize
    BY DEF WindowInv, NewestIsLargest, Filter!Fresh
  <2>4. CASE counter > vmax
    BY <2>4 DEF Accepts
  <2>5. CASE counter <= vmax
    <3>1. ~TooOld(counter)
      BY <2>1, <2>3, <2>5 DEF TooOld, SatSub
    <3>2. vmax - counter \in 0 .. WSize - 1 /\ vmax - (vmax - counter) = counter
      BY <2>1, <2>3, <2>5
    <3>3. vmax - counter \notin bitmask
      BY <2>2, <3>2 DEF WindowInv, BitsAreCounters
    <3> QED
      BY <3>1, <3>3 DEF Accepts
  <2> QED
    BY <2>1, <2>4, <2>5
<1> QED
  BY <1>1, WindowIsExact, PTL

(* The guard implements the abstract replay filter.                        *)
THEOREM ImplementsFilter == Spec => FiltersReplays
<1>1. Init => Filter!Init
  BY DEF Init, Filter!Init
<1>2. WindowInv /\ [Next]_vars => [Filter!Next]_accepted
  <2> SUFFICES ASSUME WindowInv, [Next]_vars PROVE [Filter!Next]_accepted
    OBVIOUS
  <2>1. ASSUME NEW counter \in Counters,
               AcceptNewest(counter) \/ AcceptInWindow(counter)
        PROVE  Filter!Next
    <3>1. Accepts(counter) /\ accepted' = accepted \cup {counter}
      BY <2>1 DEF AcceptNewest, AcceptInWindow
    <3> QED
      BY <3>1, AcceptedIsFresh DEF Filter!Next, Filter!Accept
  <2>2. CASE ~\E counter \in Counters :
                AcceptNewest(counter) \/ AcceptInWindow(counter)
    BY <2>2 DEF Next, CheckAndUpdate, Reject, Heartbeat, MissHeartbeat,
                TriggerWipe, SetMasterKey, Tick, vars, window
  <2> QED
    BY <2>1, <2>2
<1> QED
  BY <1>1, <1>2, WindowIsExact, PTL DEF Spec, FiltersReplays, Filter!Spec
=============================================================================
