-------------------------- MODULE FpgaRoutingProofs --------------------------
(****************************************************************************)
(* RouteCluster keeps the signals of a cluster apart, connects each to the  *)
(* pin that drives it, never runs out of cells, and returns a cluster that  *)
(* is realised: proofs for every grid and every set of clusters.            *)
(*                                                                          *)
(* What the operators return comes first, then what each action does to the *)
(* builder and to the search (RouteDoes, ExpandDoes, WalkDoes), and then    *)
(* one inductive invariant on top of the other: types, lanes, cost, search, *)
(* switches, what has been served, and the room that is left.               *)
(****************************************************************************)
EXTENDS FpgaRouting, FiniteSetTheorems, SequenceTheorems, TLAPS

----------------------------------------------------------------------------
(* Positions: NthOf finds each element of its set and nothing else, Compact *)
(* keeps the entries of K and nothing else, and a set listed by a rank is   *)
(* listed whole.                                                            *)

\* The library's well-foundedness of < on Nat, as the least element of a set.
LEMMA LeastElement ==
  ASSUME NEW T \in SUBSET Nat, T # {}
  PROVE  \E m \in T : \A k \in T : m <= k
<1> DEFINE R == OpToRel(<, Nat)
<1>1. PICK m \in T : \A k \in T : ~ (<<k, m>> \in R)
  <2> HIDE DEF R
  <2>1. IsWellFoundedOn(R, Nat)
    BY NatLessThanWellFounded DEF R
  <2> QED  BY <2>1, WFMin
<1>2. \A k \in Nat : k < m => <<k, m>> \in R
  BY DEF OpToRel
<1>3. \A k \in T : ~ (k < m)
  BY <1>1, <1>2
<1>4. \A k \in T : m <= k
  <2> HIDE DEF R
  <2> QED  BY <1>3
<1> QED  BY <1>4

\* Every rank up to the size of K is the rank of an element of K.
LEMMA NthOfMember ==
  ASSUME NEW n \in Nat, NEW K \in SUBSET (1 .. n), NEW j \in 1 .. Cardinality(K)
  PROVE  NthOf(K, j) \in K
<1> DEFINE Upto(i) == {k \in K : k <= i}
           T == {i \in Nat : Cardinality(Upto(i)) >= j}
<1>1. IsFiniteSet(K) /\ Cardinality(K) \in Nat
  <2>1. IsFiniteSet(1 .. n)  BY FS_Interval
  <2> QED  BY <2>1, FS_Subset, FS_CardinalityType
<1>2. \A i \in Nat : IsFiniteSet(Upto(i)) /\ Cardinality(Upto(i)) \in Nat
  <2> TAKE i \in Nat
  <2>1. Upto(i) \in SUBSET K  OBVIOUS
  <2> QED  BY <1>1, <2>1, FS_Subset, FS_CardinalityType
<1>3. \A i \in Nat : i \in T <=> Cardinality(Upto(i)) >= j
  OBVIOUS
<1>4. n \in T
  <2>1. \A k \in K : k <= n  OBVIOUS
  <2>2. Upto(n) = K  BY <2>1, Zenon
  <2> QED  BY <2>2, <1>1, <1>3
<1>5. Upto(0) = {}
  <2>1. \A k \in K : ~ (k <= 0)  OBVIOUS
  <2> QED  BY <2>1, Zenon
<1>6. PICK m \in T : \A k \in T : m <= k
  <2>1. T \in SUBSET Nat  OBVIOUS
  <2> HIDE DEF T
  <2> QED  BY <1>4, <2>1, LeastElement
<1>7. \A i \in Nat : i + 1 \notin K => Upto(i + 1) = Upto(i)
  <2> TAKE i \in Nat
  <2> HAVE i + 1 \notin K
  <2>1. \A k \in K : k <= i + 1 <=> k <= i  OBVIOUS
  <2> QED  BY <2>1, Zenon
<1>8. \A i \in Nat : i + 1 \in K => /\ Upto(i + 1) = Upto(i) \cup {i + 1}
                                  /\ i + 1 \notin Upto(i)
  <2> TAKE i \in Nat
  <2> HAVE i + 1 \in K
  <2>1. \A k \in K : k <= i + 1 <=> k <= i \/ k = i + 1  OBVIOUS
  <2>2. ~ (i + 1 <= i)  OBVIOUS
  <2> QED  BY <2>1, <2>2, Zenon
<1> HIDE DEF Upto, T
<1>9. m \in Nat /\ Cardinality(Upto(m)) >= j
  BY <1>3, <1>6 DEF T
<1>10. m # 0
  BY <1>5, <1>9, FS_EmptySet
<1>11. PICK p \in Nat : m = p + 1 /\ ~ (Cardinality(Upto(p)) >= j)
  <2>1. m - 1 \in Nat /\ m = (m - 1) + 1 /\ ~ (m <= m - 1)
    BY <1>9, <1>10
  <2> QED  BY <2>1, <1>3, <1>6
<1>12. m \in K /\ Cardinality(Upto(m)) = Cardinality(Upto(p)) + 1
  <2>1. m \in K  BY <1>7, <1>9, <1>11
  <2> QED  BY <2>1, <1>2, <1>8, <1>11, FS_AddElement
<1>13. Cardinality(Upto(m)) = j
  BY <1>2, <1>9, <1>11, <1>12
<1> QED  BY <1>12, <1>13 DEF NthOf, Upto

\* Compact of a list is a list, and each of its entries is an entry of s that K
\* keeps.
LEMMA CompactEntries ==
  ASSUME NEW S, NEW s \in Seq(S), NEW K \in SUBSET DOMAIN s
  PROVE  /\ Compact(s, K) \in Seq(S)
         /\ \A j \in DOMAIN Compact(s, K) : \E i \in K : Compact(s, K)[j] = s[i]
<1>1. Len(s) \in Nat /\ DOMAIN s = 1 .. Len(s)
  OBVIOUS
<1>2. Cardinality(K) \in Nat
  <2>1. IsFiniteSet(1 .. Len(s))  BY <1>1, FS_Interval
  <2> QED  BY <1>1, <2>1, FS_Subset, FS_CardinalityType
<1>3. \A j \in 1 .. Cardinality(K) : NthOf(K, j) \in K
  BY <1>1, NthOfMember
<1>4. \A j \in 1 .. Cardinality(K) : s[NthOf(K, j)] \in S
  BY <1>1, <1>3
<1> QED  BY <1>2, <1>3, <1>4 DEF Compact

\* Every element of K has a rank, and NthOf finds it there.
LEMMA NthOfOnto ==
  ASSUME NEW n \in Nat, NEW K \in SUBSET (1 .. n), NEW k \in K
  PROVE  \E j \in 1 .. Cardinality(K) : NthOf(K, j) = k
<1> DEFINE Upto(i) == {x \in K : x <= i}
           j == Cardinality(Upto(k))
<1>1. IsFiniteSet(K) /\ Cardinality(K) \in Nat
  <2>1. IsFiniteSet(1 .. n)  BY FS_Interval
  <2> QED  BY <2>1, FS_Subset, FS_CardinalityType
<1>2. \A i \in K : /\ Upto(i) \in SUBSET K
                   /\ IsFiniteSet(Upto(i)) /\ Cardinality(Upto(i)) \in Nat
                   /\ Cardinality(Upto(i)) <= Cardinality(K)
  <2> TAKE i \in K
  <2>1. Upto(i) \in SUBSET K  OBVIOUS
  <2> QED  BY <1>1, <2>1, FS_Subset, FS_CardinalityType
<1>3. \A i \in K : i \in Upto(i)
  OBVIOUS
<1>4. j \in 1 .. Cardinality(K)
  <2>1. Upto(k) # {}  BY <1>3
  <2>2. j # 0  BY <1>2, <2>1, FS_EmptySet
  <2> HIDE DEF Upto
  <2> QED  BY <1>1, <1>2, <2>2
<1>5. ASSUME NEW i \in K, NEW m \in K, i < m
      PROVE  Cardinality(Upto(i)) # Cardinality(Upto(m))
  <2>1. Upto(i) \in SUBSET Upto(m)
    <3>1. i \in Int /\ m \in Int /\ K \subseteq Int  OBVIOUS
    <3>2. \A x \in K : x <= i => x <= m  BY <3>1, <1>5
    <3> QED  BY <3>2
  <2>2. m \in Upto(m) /\ m \notin Upto(i)  BY <1>5
  <2> HIDE DEF Upto
  <2> QED  BY <1>2, <2>1, <2>2, FS_Subset
<1>6. \A i \in K : Cardinality(Upto(i)) = j => i = k
  <2> HIDE DEF Upto
  <2> TAKE i \in K
  <2>1. CASE i < k  BY <2>1, <1>5
  <2>2. CASE k < i  BY <2>2, <1>5
  <2>3. CASE i = k  BY <2>3
  <2> QED  BY <2>1, <2>2, <2>3
<1>7. NthOf(K, j) = k
  BY <1>6, Zenon DEF NthOf
<1> QED  BY <1>4, <1>7

\* Each entry of s that K keeps is an entry of Compact.
LEMMA CompactKeeps ==
  ASSUME NEW S, NEW s \in Seq(S), NEW K \in SUBSET DOMAIN s, NEW i \in K
  PROVE  \E j \in DOMAIN Compact(s, K) : Compact(s, K)[j] = s[i]
<1>1. Len(s) \in Nat /\ DOMAIN s = 1 .. Len(s)
  OBVIOUS
<1>2. PICK j \in 1 .. Cardinality(K) : NthOf(K, j) = i
  BY <1>1, NthOfOnto
<1> QED  BY <1>2 DEF Compact

\* A list of the elements of S in the order of a rank that tells them apart.
InOrder(list, S, rank, n) ==
  /\ rank \in [S -> 1 .. n]
  /\ \A x, y \in S : rank[x] = rank[y] => x = y
  /\ list = [k \in 1 .. Cardinality(S) |-> list[k]]
  /\ \A k \in 1 .. Cardinality(S) :
       (\E x \in S : rank[x] = NthOf({rank[y] : y \in S}, k)) =>
         /\ list[k] \in S
         /\ rank[list[k]] = NthOf({rank[y] : y \in S}, k)

\* Such a list has each of them.
LEMMA ListedByRank ==
  ASSUME NEW n \in Nat, NEW S, NEW rank, NEW list, InOrder(list, S, rank, n)
  PROVE  /\ IsFiniteSet(S)
         /\ list \in Seq(S) /\ Len(list) = Cardinality(S)
         /\ \A x \in S : \E k \in DOMAIN list : list[k] = x
<1> DEFINE ranks == {rank[y] : y \in S}
<1> USE DEF InOrder
<1>1. ranks \in SUBSET (1 .. n)
  OBVIOUS
<1>2. IsFiniteSet(ranks)
  <2>1. IsFiniteSet(1 .. n)
    <3>1. 1 \in Int /\ n \in Int  OBVIOUS
    <3> QED  BY <3>1, FS_Interval, Zenon
  <2> QED  BY <1>1, <2>1, FS_Subset
<1>3. rank \in Bijection(S, ranks)
  BY DEF Bijection, Injection, Surjection, IsInjective
<1>4. /\ IsFiniteSet(S) /\ Cardinality(S) = Cardinality(ranks)
      /\ Cardinality(S) \in Nat
  <2>1. rank \in Injection(S, ranks) /\ rank \in Surjection(S, ranks)
    BY <1>3 DEF Bijection
  <2>2. IsFiniteSet(S) /\ Cardinality(S) = Cardinality(ranks)
    <3> HIDE DEF ranks
    <3> QED  BY <1>2, <2>1, FS_Injection
  <2> QED  BY <2>2, FS_CardinalityType
<1>5. \A k \in 1 .. Cardinality(S) : NthOf(ranks, k) \in ranks
  BY <1>1, <1>4, NthOfMember
<1>6. \A k \in 1 .. Cardinality(S) : list[k] \in S /\ rank[list[k]] = NthOf(ranks, k)
  <2> TAKE k \in 1 .. Cardinality(S)
  <2>1. \E x \in S : rank[x] = NthOf(ranks, k)  BY <1>5
  <2> QED  BY <2>1
<1>7. list \in [1 .. Cardinality(S) -> S]
  BY <1>6
<1>8. list \in Seq(S) /\ Len(list) = Cardinality(S)
  <2>1. list \in Seq(S)
    <3> DEFINE N == Cardinality(S)
    <3>1. N \in Nat /\ list \in [1 .. N -> S]  BY <1>4, <1>7
    <3>2. list \in UNION {[1 .. m -> S] : m \in Nat}  BY <3>1, Zenon
    <3> QED  BY <3>2, SeqDef, Zenon
  <2>2. DOMAIN list = 1 .. Cardinality(S)  BY <1>7
  <2> QED  BY <1>4, <2>1, <2>2, LenProperties
<1>9. \A x \in S : \E k \in 1 .. Cardinality(S) : list[k] = x
  <2> TAKE x \in S
  <2>1. PICK k \in 1 .. Cardinality(S) : NthOf(ranks, k) = rank[x]
    <3>1. rank[x] \in ranks  OBVIOUS
    <3> HIDE DEF ranks
    <3> QED  BY <1>1, <1>4, <3>1, NthOfOnto
  <2>2. list[k] = x  BY <1>6, <2>1
  <2> QED  BY <2>2
<1> QED  BY <1>4, <1>7, <1>8, <1>9

----------------------------------------------------------------------------
(* The order of cells and lanes.                                            *)

\* A product grows with its first factor.
LEMMA ProductGrows ==
  ASSUME NEW a \in Nat, NEW b \in Nat, NEW c \in Nat, a < b
  PROVE  a * c + c <= b * c /\ a * c \in Nat /\ b * c \in Nat
<1>1. PICK d \in Nat : b = a + 1 + d
  <2>1. b - a - 1 \in Nat /\ b = a + 1 + (b - a - 1)  OBVIOUS
  <2> QED  BY <2>1
<1>2. b * c = a * c + c + d * c
  BY <1>1
<1>3. a * c \in Nat /\ b * c \in Nat /\ d * c \in Nat
  BY <1>1
<1> QED  BY <1>2, <1>3

\* The number of a row or group and the place in it, of c places, are read back from the
\* number of the place.
LEMMA MixedRadix ==
  ASSUME NEW n \in Nat, NEW c \in Nat,
         NEW a \in 0 .. n - 1, NEW i \in 0 .. c - 1
  PROVE  /\ a * c + i \in 0 .. n * c - 1
         /\ \A b \in 0 .. n - 1, j \in 0 .. c - 1 :
              a * c + i = b * c + j => a = b /\ i = j
<1>1. a * c + c <= n * c /\ a * c \in Nat /\ n * c \in Nat
  BY ProductGrows
<1>2. ASSUME NEW b \in 0 .. n - 1, NEW j \in 0 .. c - 1, a * c + i = b * c + j
      PROVE  a = b /\ i = j
  <2>1. b * c \in Nat  BY ProductGrows
  <2>2. CASE a < b
    <3>1. a * c + c <= b * c  BY <2>2, ProductGrows
    <3> QED  BY <1>1, <1>2, <2>1, <3>1
  <2>3. CASE b < a
    <3>1. b * c + c <= a * c  BY <2>3, ProductGrows
    <3> QED  BY <1>1, <1>2, <2>1, <3>1
  <2>4. CASE a = b
    <3>1. i = j  BY <1>1, <1>2, <2>4
    <3> QED  BY <3>1, <2>4
  <2> QED  BY <2>2, <2>3, <2>4
<1> QED  BY <1>1, <1>2

\* The rank of a cell is its own.
LEMMA CellRanks ==
  /\ Rows * Cols \in Nat
  /\ \A a \in Coords : CellRank(a) \in 1 .. Rows * Cols
  /\ \A a, b \in Coords : CellRank(a) = CellRank(b) => a = b
<1> USE RoutingAssumption
<1>1. Rows * Cols \in Nat
  OBVIOUS
<1>2. ASSUME NEW a \in Coords
      PROVE  CellRank(a) \in 1 .. Rows * Cols
  <2>1. a[1] \in 0 .. Rows - 1 /\ a[2] \in 0 .. Cols - 1  BY DEF Coords
  <2>2. a[1] * Cols + a[2] \in 0 .. Rows * Cols - 1  BY <2>1, MixedRadix
  <2> QED  BY <1>1, <2>2 DEF CellRank
<1>3. ASSUME NEW a \in Coords, NEW b \in Coords, CellRank(a) = CellRank(b)
      PROVE  a = b
  <2>1. /\ a[1] \in 0 .. Rows - 1 /\ a[2] \in 0 .. Cols - 1 /\ a = <<a[1], a[2]>>
        /\ b[1] \in 0 .. Rows - 1 /\ b[2] \in 0 .. Cols - 1 /\ b = <<b[1], b[2]>>
    BY DEF Coords
  <2>2. /\ a[1] * Cols + a[2] \in 0 .. Rows * Cols - 1
        /\ b[1] * Cols + b[2] \in 0 .. Rows * Cols - 1
    BY <2>1, MixedRadix
  <2>3. a[1] * Cols + a[2] = b[1] * Cols + b[2]
    BY <1>3, <1>1, <2>2 DEF CellRank
  <2>4. a[1] = b[1] /\ a[2] = b[2]
    BY <2>1, <2>3, MixedRadix
  <2> QED  BY <2>1, <2>4, Zenon
<1> QED  BY <1>1, <1>2, <1>3

\* The rank of a lane is its own.
LEMMA LaneRanks ==
  /\ Rows * Cols * 2 * BusWidth \in Nat
  /\ \A l \in Lanes : LaneRank(l) \in 1 .. Rows * Cols * 2 * BusWidth
  /\ \A l, m \in Lanes : LaneRank(l) = LaneRank(m) => l = m
<1> USE RoutingAssumption
<1> DEFINE n == Rows * Cols
           N == n * 2
           c(l) == CellRank(NodeOf(l)) - 1
           d(l) == c(l) * 2 + l[3]
<1>1. n \in Nat /\ N \in Nat /\ N * BusWidth \in Nat
  BY CellRanks
<1>2. ASSUME NEW l \in Lanes
      PROVE  /\ NodeOf(l) \in Coords /\ l[3] \in 0 .. 2 - 1 /\ l[4] \in 0 .. BusWidth - 1
             /\ l = <<NodeOf(l)[1], NodeOf(l)[2], l[3], l[4]>>
  BY DEF Lanes, NodeOf, Coords, Horizontal, Vertical
<1>3. ASSUME NEW l \in Lanes
      PROVE  c(l) \in 0 .. n - 1
  <2>1. CellRank(NodeOf(l)) \in 1 .. n  BY <1>2, CellRanks
  <2> HIDE DEF n
  <2> QED  BY <1>1, <2>1
<1>4. ASSUME NEW l \in Lanes
      PROVE  d(l) \in 0 .. N - 1
  <2>1. l[3] \in 0 .. 1 /\ c(l) \in 0 .. n - 1  BY <1>2, <1>3
  <2> HIDE DEF n, c
  <2> QED  BY <1>1, <2>1
<1>5. ASSUME NEW l \in Lanes
      PROVE  d(l) * BusWidth + l[4] \in 0 .. N * BusWidth - 1
  <2> HIDE DEF N, d
  <2> QED  BY <1>1, <1>2, <1>4, MixedRadix
<1>6. ASSUME NEW l \in Lanes
      PROVE  LaneRank(l) = d(l) * BusWidth + l[4] + 1
  BY DEF LaneRank
<1>7. ASSUME NEW l \in Lanes, NEW m \in Lanes, LaneRank(l) = LaneRank(m)
      PROVE  l = m
  <2>1. d(l) * BusWidth + l[4] = d(m) * BusWidth + m[4]
    <3> HIDE DEF d, N
    <3> QED  BY <1>1, <1>5, <1>6, <1>7
  <2>2. d(l) = d(m) /\ l[4] = m[4]
    <3> HIDE DEF d, N
    <3> QED  BY <1>1, <1>2, <1>4, <2>1, MixedRadix
  <2>3. c(l) = c(m) /\ l[3] = m[3]
    <3>1. l[3] \in 0 .. 1 /\ m[3] \in 0 .. 1  BY <1>2
    <3>2. c(l) \in 0 .. n - 1 /\ c(m) \in 0 .. n - 1  BY <1>3
    <3> HIDE DEF c, n
    <3> QED  BY <1>1, <3>1, <3>2, <2>2
  <2>4. CellRank(NodeOf(l)) = CellRank(NodeOf(m))
    <3>1. CellRank(NodeOf(l)) \in Int /\ CellRank(NodeOf(m)) \in Int
      BY <1>2, CellRanks
    <3> QED  BY <2>3, <3>1
  <2>5. NodeOf(l) = NodeOf(m)
    BY <1>2, <2>4, CellRanks
  <2> QED  BY <1>2, <2>2, <2>3, <2>5, Zenon
<1>8. ASSUME NEW l \in Lanes
      PROVE  LaneRank(l) \in 1 .. N * BusWidth
  <2> HIDE DEF d, N
  <2> QED  BY <1>1, <1>5, <1>6
<1> QED  BY <1>1, <1>7, <1>8

\* Sorted lists the cells of a set.
LEMMA SortedCells ==
  ASSUME NEW S \in SUBSET Coords
  PROVE  /\ Sorted(S, CellRank) \in Seq(S)
         /\ Len(Sorted(S, CellRank)) = Cardinality(S)
         /\ \A x \in S : \E k \in DOMAIN Sorted(S, CellRank) : Sorted(S, CellRank)[k] = x
         /\ IsFiniteSet(S)
<1> DEFINE rank == [x \in S |-> CellRank(x)]
           N == Rows * Cols
<1>1. /\ N \in Nat
      /\ rank \in [S -> 1 .. N]
      /\ \A x, y \in S : rank[x] = rank[y] => x = y
  BY CellRanks
<1>2. {rank[y] : y \in S} = {CellRank(y) : y \in S}
  BY Zenon
<1> DEFINE list == Sorted(S, CellRank)
           Entry(k) == CHOOSE x \in S : CellRank(x) = NthOf({CellRank(y) : y \in S}, k)
<1>3. list = [k \in 1 .. Cardinality(S) |-> list[k]]
  <2>1. list = [k \in 1 .. Cardinality(S) |-> Entry(k)]  BY Zenon DEF Sorted
  <2> HIDE DEF Entry, list
  <2> QED  BY <2>1
<1>4. \A k \in 1 .. Cardinality(S) :
        (\E x \in S : rank[x] = NthOf({rank[y] : y \in S}, k)) =>
           /\ list[k] \in S
           /\ rank[list[k]] = NthOf({rank[y] : y \in S}, k)
  <2> TAKE k \in 1 .. Cardinality(S)
  <2> DEFINE nth == NthOf({CellRank(y) : y \in S}, k)
  <2>1. list[k] = CHOOSE x \in S : CellRank(x) = nth  BY Zenon DEF Sorted
  <2>2. HAVE \E x \in S : rank[x] = NthOf({rank[y] : y \in S}, k)
  <2>3. \E x \in S : CellRank(x) = nth  BY <2>2, <1>2
  <2> HIDE DEF list, nth
  <2>4. list[k] \in S /\ CellRank(list[k]) = nth  BY <2>1, <2>3
  <2>5. nth = NthOf({rank[y] : y \in S}, k)  BY <1>2 DEF nth
  <2> QED  BY <2>4, <2>5
<1> HIDE DEF rank, list, N
<1>5. InOrder(list, S, rank, N)
  BY <1>1, <1>3, <1>4, Zenon DEF InOrder
<1>6. /\ IsFiniteSet(S)
      /\ list \in Seq(S) /\ Len(list) = Cardinality(S)
      /\ \A x \in S : \E k \in DOMAIN list : list[k] = x
  BY <1>1, <1>5, ListedByRank
<1> QED  BY <1>6 DEF list

\* Sorted lists the lanes of a set.
LEMMA SortedLanes ==
  ASSUME NEW S \in SUBSET Lanes
  PROVE  /\ Sorted(S, LaneRank) \in Seq(S)
         /\ Len(Sorted(S, LaneRank)) = Cardinality(S)
         /\ \A x \in S : \E k \in DOMAIN Sorted(S, LaneRank) : Sorted(S, LaneRank)[k] = x
         /\ IsFiniteSet(S)
<1> DEFINE rank == [x \in S |-> LaneRank(x)]
           N == Rows * Cols * 2 * BusWidth
<1>1. /\ N \in Nat
      /\ rank \in [S -> 1 .. N]
      /\ \A x, y \in S : rank[x] = rank[y] => x = y
  BY LaneRanks
<1>2. {rank[y] : y \in S} = {LaneRank(y) : y \in S}
  BY Zenon
<1> DEFINE list == Sorted(S, LaneRank)
           Entry(k) == CHOOSE x \in S : LaneRank(x) = NthOf({LaneRank(y) : y \in S}, k)
<1>3. list = [k \in 1 .. Cardinality(S) |-> list[k]]
  <2>1. list = [k \in 1 .. Cardinality(S) |-> Entry(k)]  BY Zenon DEF Sorted
  <2> HIDE DEF Entry, list
  <2> QED  BY <2>1
<1>4. \A k \in 1 .. Cardinality(S) :
        (\E x \in S : rank[x] = NthOf({rank[y] : y \in S}, k)) =>
           /\ list[k] \in S
           /\ rank[list[k]] = NthOf({rank[y] : y \in S}, k)
  <2> TAKE k \in 1 .. Cardinality(S)
  <2> DEFINE nth == NthOf({LaneRank(y) : y \in S}, k)
  <2>1. list[k] = CHOOSE x \in S : LaneRank(x) = nth  BY Zenon DEF Sorted
  <2>2. HAVE \E x \in S : rank[x] = NthOf({rank[y] : y \in S}, k)
  <2>3. \E x \in S : LaneRank(x) = nth  BY <2>2, <1>2
  <2> HIDE DEF list, nth
  <2>4. list[k] \in S /\ LaneRank(list[k]) = nth  BY <2>1, <2>3
  <2>5. nth = NthOf({rank[y] : y \in S}, k)  BY <1>2 DEF nth
  <2> QED  BY <2>4, <2>5
<1> HIDE DEF rank, list, N
<1>5. InOrder(list, S, rank, N)
  BY <1>1, <1>3, <1>4, Zenon DEF InOrder
<1>6. /\ IsFiniteSet(S)
      /\ list \in Seq(S) /\ Len(list) = Cardinality(S)
      /\ \A x \in S : \E k \in DOMAIN list : list[k] = x
  BY <1>1, <1>5, ListedByRank
<1> QED  BY <1>6 DEF list

----------------------------------------------------------------------------
(* What the operators of the model return.                                  *)

\* The order of the signals of a cluster is a list.
LEMMA OrderType ==
  ASSUME cluster \in Clusters
  PROVE  /\ IsCluster(cluster)
         /\ Order \in Seq(Signals) /\ Len(Order) \in Nat /\ DOMAIN Order = 1 .. Len(Order)
<1>1. IsCluster(cluster)
  BY RoutingAssumption
<1>2. Order \in Seq(Signals)
  BY <1>1, ConcatProperties DEF IsCluster, Order, Placement
<1> QED  BY <1>1, <1>2, LenProperties

\* The gates are in the order.
LEMMA GatesFirst ==
  ASSUME cluster \in Clusters, NEW g \in Elements(cluster.gates)
  PROVE  g \in Elements(Order)
<1>1. cluster.gates \in Seq(Signals) /\ cluster.inputs \in Seq(Signals)
  BY OrderType DEF IsCluster
<1>2. PICK i \in DOMAIN cluster.gates : cluster.gates[i] = g
  BY DEF Elements
<1>3. Len(cluster.gates) \in Nat /\ Len(cluster.inputs) \in Nat /\ i \in 1 .. Len(cluster.gates)
  BY <1>1, <1>2
<1>4. i \in DOMAIN Order /\ Order[i] = g
  <2>1. /\ Len(Order) = Len(cluster.gates) + Len(cluster.inputs)
        /\ \A k \in 1 .. Len(cluster.gates) + Len(cluster.inputs) :
             Order[k] = IF k <= Len(cluster.gates) THEN cluster.gates[k]
                        ELSE cluster.inputs[k - Len(cluster.gates)]
    BY <1>1, ConcatProperties DEF Order, Placement
  <2>2. i \in 1 .. Len(cluster.gates) + Len(cluster.inputs) /\ i <= Len(cluster.gates)
    <3> DEFINE G == Len(cluster.gates)
               N == Len(cluster.inputs)
    <3>1. G \in Nat /\ N \in Nat /\ i \in 1 .. G  BY <1>3
    <3> HIDE DEF G, N
    <3>2. i \in 1 .. G + N /\ i <= G  BY <3>1
    <3> QED  BY <3>2 DEF G, N
  <2> QED  BY <1>2, <2>1, <2>2, OrderType
<1> QED  BY <1>4 DEF Elements

\* A gate that reads a signal comes before it in the order.
LEMMA UsersFirst ==
  ASSUME cluster \in Clusters, NEW j \in DOMAIN Order,
         NEW g \in Elements(cluster.gates), NEW p \in BOOLEAN,
         <<Order[j], p>> \in cluster.reads[g]
  PROVE  \E i \in DOMAIN Order : i < j /\ Order[i] = g
<1>1. PICK i \in DOMAIN Order : Order[i] = g
  BY GatesFirst DEF Elements
<1>2. \A k, m \in DOMAIN Order :
        (\E q \in BOOLEAN : <<Order[m], q>> \in cluster.reads[Order[k]]) => k < m
  BY OrderType, Zenon DEF IsCluster, Order, Placement
<1> QED  BY <1>1, <1>2

\* The fields of a builder.
LEMMA BuilderFields ==
  ASSUME NEW chip, IsBuilder(chip)
  PROVE  /\ chip.cells \in [Signals -> Coords \cup {None}]
         /\ chip.outs \in [Signals -> Coords \cup {None}]
         /\ chip.free \in SUBSET Coords
         /\ chip.holds \in [Terminals -> SUBSET Lanes]
         /\ chip.used \in SUBSET Lanes
         /\ chip.links \in SUBSET (SUBSET Lanes)
         /\ chip.drives \in [Terminals -> Lanes \cup {None}]
BY DEF IsBuilder

\* What TryCell, RouteOutput and Walk do to a builder, field by field.
SameLanes(new, chip) ==
  /\ new.holds = chip.holds
  /\ new.used = chip.used
  /\ new.links = chip.links
  /\ new.drives = chip.drives
HasPlaced(new, chip, s, loc) ==
  /\ new.cells = [chip.cells EXCEPT ![s] = loc]
  /\ new.free = chip.free \ {loc}
  /\ new.outs = chip.outs
HasOutput(new, chip, s, out) ==
  /\ new.outs = [chip.outs EXCEPT ![s] = out]
  /\ new.free = chip.free \ {out}
  /\ new.cells = chip.cells
HasLane(new, chip, t, l) ==
  /\ new.cells = chip.cells
  /\ new.outs = chip.outs
  /\ new.free = chip.free
  /\ new.holds = [chip.holds EXCEPT ![t] = @ \cup {l}]
  /\ new.used = chip.used \cup {l}
HasLink(new, chip, t, l, from) ==
  /\ new.links = IF from = None THEN chip.links ELSE chip.links \cup {{l, from}}
  /\ new.drives = IF from = None THEN [chip.drives EXCEPT ![t] = l] ELSE chip.drives

\* Place takes a cell.
LEMMA PlaceType ==
  ASSUME NEW chip, IsBuilder(chip), NEW s \in Signals, NEW loc \in Coords
  PROVE  /\ IsBuilder(Place(chip, s, loc))
         /\ HasPlaced(Place(chip, s, loc), chip, s, loc)
         /\ SameLanes(Place(chip, s, loc), chip)
<1> USE DEF HasPlaced, SameLanes
<1> DEFINE new == Place(chip, s, loc)
<1>1. /\ new.cells = [chip.cells EXCEPT ![s] = loc]
      /\ new.free = chip.free \ {loc}
      /\ new.outs = chip.outs
  BY DEF IsBuilder, Place
<1>2. /\ new.holds = chip.holds
      /\ new.used = chip.used
      /\ new.links = chip.links
      /\ new.drives = chip.drives
  BY DEF IsBuilder, Place
<1>3. IsBuilder(new)
  BY DEF IsBuilder, Place
<1> QED  BY <1>1, <1>2, <1>3

\* What RouteOutput and Walk make of the builder.
TakeOutput(chip, s, out) == [chip EXCEPT !.free = @ \ {out}, !.outs[s] = out]
TakeLane(chip, t, l, from) ==
  LET taken == [chip EXCEPT !.holds[t] = @ \cup {l}, !.used = @ \cup {l}]
  IN  IF from = None THEN [taken EXCEPT !.drives[t] = l]
      ELSE [taken EXCEPT !.links = @ \cup {{l, from}}]

\* An output cell is taken like the others.
LEMMA OutputTaken ==
  ASSUME NEW chip, IsBuilder(chip), NEW s \in Signals, NEW out \in Coords
  PROVE  /\ IsBuilder(TakeOutput(chip, s, out))
         /\ HasOutput(TakeOutput(chip, s, out), chip, s, out)
         /\ SameLanes(TakeOutput(chip, s, out), chip)
<1> USE DEF HasOutput, SameLanes
<1> DEFINE new == TakeOutput(chip, s, out)
<1>1. /\ new.outs = [chip.outs EXCEPT ![s] = out]
      /\ new.free = chip.free \ {out}
      /\ new.cells = chip.cells
  BY DEF IsBuilder, TakeOutput
<1>2. /\ new.holds = chip.holds
      /\ new.used = chip.used
      /\ new.links = chip.links
      /\ new.drives = chip.drives
  BY DEF IsBuilder, TakeOutput
<1>3. IsBuilder(new)
  BY DEF IsBuilder, TakeOutput
<1> QED  BY <1>1, <1>2, <1>3

\* A lane of the way back is taken, and joined to the one before it or to the pin.
LEMMA LaneTaken ==
  ASSUME NEW chip, IsBuilder(chip), NEW t \in Terminals, NEW l \in Lanes,
         NEW from \in Lanes \cup {None}
  PROVE  /\ IsBuilder(TakeLane(chip, t, l, from))
         /\ HasLane(TakeLane(chip, t, l, from), chip, t, l)
         /\ HasLink(TakeLane(chip, t, l, from), chip, t, l, from)
<1> USE DEF HasLane, HasLink
<1> DEFINE new == TakeLane(chip, t, l, from)
           taken == [chip EXCEPT !.holds[t] = @ \cup {l}, !.used = @ \cup {l}]
<1>1. /\ IsBuilder(taken)
      /\ taken.cells = chip.cells
      /\ taken.outs = chip.outs
      /\ taken.free = chip.free
  BY DEF IsBuilder
<1>2. /\ taken.holds = [chip.holds EXCEPT ![t] = @ \cup {l}]
      /\ taken.used = chip.used \cup {l}
      /\ taken.links = chip.links
      /\ taken.drives = chip.drives
  BY DEF IsBuilder
<1>3. new = IF from = None THEN [taken EXCEPT !.drives[t] = l]
            ELSE [taken EXCEPT !.links = @ \cup {{l, from}}]
  BY DEF TakeLane
<1> HIDE DEF taken, new
<1>4. CASE from = None
  <2>1. new = [taken EXCEPT !.drives[t] = l]  BY <1>3, <1>4
  <2>2. IsBuilder(new)  BY <1>1, <2>1 DEF IsBuilder
  <2>3. /\ new.cells = chip.cells
        /\ new.outs = chip.outs
        /\ new.free = chip.free
        /\ new.holds = taken.holds
    BY <1>1, <2>1 DEF IsBuilder
  <2>4. /\ new.used = taken.used
        /\ new.links = taken.links
        /\ new.drives = [taken.drives EXCEPT ![t] = l]
    BY <1>1, <2>1 DEF IsBuilder
  <2> QED  BY <1>2, <1>4, <2>2, <2>3, <2>4 DEF new
<1>5. CASE from # None
  <2>1. new = [taken EXCEPT !.links = @ \cup {{l, from}}] /\ {l, from} \in SUBSET Lanes
    BY <1>3, <1>5
  <2>2. IsBuilder(new)  BY <1>1, <2>1 DEF IsBuilder
  <2>3. /\ new.cells = chip.cells
        /\ new.outs = chip.outs
        /\ new.free = chip.free
        /\ new.holds = taken.holds
    BY <1>1, <2>1 DEF IsBuilder
  <2>4. /\ new.used = taken.used
        /\ new.links = taken.links \cup {{l, from}}
        /\ new.drives = taken.drives
    BY <1>1, <2>1 DEF IsBuilder
  <2> QED  BY <1>2, <1>5, <2>2, <2>3, <2>4 DEF new
<1> QED  BY <1>4, <1>5

\* The candidates are cells that are free.
LEMMA CandidatesType ==
  ASSUME IsBuilder(builder), NEW s
  PROVE  /\ Candidates(s) \in Seq(Coords)
         /\ \A k \in DOMAIN Candidates(s) :
              \E i \in {1, 2} \cap DOMAIN TypesOf(s) :
                 Candidates(s)[k] \in Available(builder, TypesOf(s)[i])
<1> DEFINE T(i) == IF i \in DOMAIN TypesOf(s) THEN Available(builder, TypesOf(s)[i]) ELSE {}
           L(i) == IF i \in DOMAIN TypesOf(s)
                   THEN Sorted(Available(builder, TypesOf(s)[i]), CellRank) ELSE << >>
<1>1. \A i : T(i) \in SUBSET Coords
  BY BuilderFields DEF Available
<1>2. ASSUME NEW i  PROVE L(i) \in Seq(T(i))
  <2>1. CASE i \in DOMAIN TypesOf(s)
    <3>1. Available(builder, TypesOf(s)[i]) \in SUBSET Coords
      BY <1>1, <2>1
    <3> QED  BY <2>1, <3>1, SortedCells
  <2>2. CASE i \notin DOMAIN TypesOf(s)
    BY <2>2, EmptySeq
  <2> QED  BY <2>1, <2>2
<1>3. Candidates(s) = L(1) \o L(2)
  BY DEF Candidates
<1> HIDE DEF L, T
<1>4. L(1) \in Seq(T(1) \cup T(2)) /\ L(2) \in Seq(T(1) \cup T(2))
  BY <1>2, SeqMonotonic
<1>5. Candidates(s) \in Seq(T(1) \cup T(2))
  BY <1>3, <1>4, ConcatProperties
<1>6. \A k \in DOMAIN Candidates(s) : Candidates(s)[k] \in T(1) \cup T(2)
  BY <1>5
<1>7. Candidates(s) \in Seq(Coords)
  BY <1>1, <1>5, SeqMonotonic
<1>8. ASSUME NEW k \in DOMAIN Candidates(s)
      PROVE  \E i \in {1, 2} \cap DOMAIN TypesOf(s) :
                 Candidates(s)[k] \in Available(builder, TypesOf(s)[i])
  BY <1>6, <1>8, Zenon DEF T
<1> QED  BY <1>7, <1>8

\* The closest output cell is an output cell that is free.
LEMMA ClosestOutputType ==
  ASSUME NEW chip, IsBuilder(chip), NEW loc \in Coords, Available(chip, "out") # {}
  PROVE  ClosestOutput(chip, loc) \in Available(chip, "out")
<1> DEFINE outs == Available(chip, "out")
           closest == {o \in outs : \A p \in outs : Distance(loc, o) <= Distance(loc, p)}
           distances == {Distance(loc, o) : o \in outs}
<1>1. outs \in SUBSET Coords
  BY BuilderFields DEF Available
<1>2. \A o \in Coords : Distance(loc, o) \in Nat
  BY RoutingAssumption DEF Distance, Coords
<1>3. PICK d \in distances : \A e \in distances : d <= e
  <2>1. distances \in SUBSET Nat /\ distances # {}
    <3> HIDE DEF outs
    <3> QED  BY <1>1, <1>2 DEF outs
  <2> HIDE DEF distances
  <2> QED  BY <2>1, LeastElement
<1>4. closest # {}
  <2>1. PICK o \in outs : d = Distance(loc, o)
    BY <1>3
  <2>2. \A p \in outs : Distance(loc, o) <= Distance(loc, p)
    BY <1>3, <2>1
  <2> QED  BY <2>2
<1>5. closest \in SUBSET Coords
  BY <1>1
<1> HIDE DEF closest
<1>6. /\ Sorted(closest, CellRank) \in Seq(closest)
      /\ \E k \in DOMAIN Sorted(closest, CellRank) : TRUE
  BY <1>4, <1>5, SortedCells
<1>7. 1 \in DOMAIN Sorted(closest, CellRank)
  <2> DEFINE q == Sorted(closest, CellRank)
  <2>1. Len(q) \in Nat /\ DOMAIN q = 1 .. Len(q)
    BY <1>6, LenProperties
  <2> HIDE DEF q
  <2> QED  BY <1>6, <2>1 DEF q
<1>8. Sorted(closest, CellRank)[1] \in closest
  BY <1>6, <1>7
<1> QED  BY <1>8 DEF ClosestOutput, closest

\* The lanes of a list that Compact keeps are lanes of the list, at a kept position.
LEMMA KeptElements ==
  ASSUME NEW S, NEW s \in Seq(S), NEW K \in SUBSET DOMAIN s
  PROVE  /\ Compact(s, K) \in Seq(S)
         /\ Elements(Compact(s, K)) = {s[i] : i \in K}
<1>1. Compact(s, K) \in Seq(S)
  BY CompactEntries
<1>2. ASSUME NEW x \in Elements(Compact(s, K))
      PROVE  x \in {s[i] : i \in K}
  <2>1. PICK j \in DOMAIN Compact(s, K) : x = Compact(s, K)[j]
    BY DEF Elements
  <2> QED  BY <2>1, CompactEntries
<1>3. ASSUME NEW i \in K
      PROVE  s[i] \in Elements(Compact(s, K))
  <2>1. PICK j \in DOMAIN Compact(s, K) : Compact(s, K)[j] = s[i]
    BY CompactKeeps
  <2> QED  BY <2>1 DEF Elements
<1> QED  BY <1>1, <1>2, <1>3

\* The elements of a list, and of two lists one after the other.
LEMMA ElementsOf ==
  ASSUME NEW S, NEW s \in Seq(S), NEW t \in Seq(S)
  PROVE  /\ Elements(s) \subseteq S
         /\ s \o t \in Seq(S)
         /\ Elements(s \o t) = Elements(s) \cup Elements(t)
<1> DEFINE m == Len(s)
           n == Len(t)
           st == s \o t
<1>1. /\ m \in Nat /\ n \in Nat
      /\ DOMAIN s = 1 .. m /\ DOMAIN t = 1 .. n
      /\ \A i \in 1 .. m : s[i] \in S
  BY LenProperties
<1>2. st \in Seq(S) /\ Len(st) = m + n
  BY ConcatProperties
<1>3. \A i \in 1 .. m + n : st[i] = IF i <= m THEN s[i] ELSE t[i - m]
  BY ConcatProperties
<1>4. DOMAIN st = 1 .. m + n
  BY <1>2, LenProperties
<1> HIDE DEF m, n, st
<1>5. ASSUME NEW i \in 1 .. m + n
      PROVE  st[i] \in Elements(s) \cup Elements(t)
  <2>1. CASE i <= m
    <3>1. i \in 1 .. m  BY <1>1, <2>1
    <3> QED  BY <1>1, <1>3, <2>1, <3>1 DEF Elements
  <2>2. CASE ~ (i <= m)
    <3>1. i - m \in 1 .. n  BY <1>1, <2>2
    <3> QED  BY <1>1, <1>3, <2>2, <3>1 DEF Elements
  <2> QED  BY <2>1, <2>2
<1>6. ASSUME NEW i \in 1 .. m
      PROVE  s[i] \in Elements(st)
  <2>1. i \in 1 .. m + n /\ i <= m  BY <1>1
  <2> QED  BY <1>3, <1>4, <2>1 DEF Elements
<1>7. ASSUME NEW i \in 1 .. n
      PROVE  t[i] \in Elements(st)
  <2>1. i + m \in 1 .. m + n /\ ~ (i + m <= m) /\ (i + m) - m = i  BY <1>1
  <2> QED  BY <1>3, <1>4, <2>1 DEF Elements
<1>8. Elements(st) = Elements(s) \cup Elements(t)
  <2>1. Elements(st) \subseteq Elements(s) \cup Elements(t)
    BY <1>4, <1>5 DEF Elements
  <2>2. Elements(s) \subseteq Elements(st)
    BY <1>1, <1>6 DEF Elements
  <2>3. Elements(t) \subseteq Elements(st)
    BY <1>1, <1>7 DEF Elements
  <2> QED  BY <2>1, <2>2, <2>3
<1>9. Elements(s) \subseteq S
  BY <1>1 DEF Elements
<1> QED  BY <1>2, <1>8, <1>9 DEF st

\* The elements of a list are its head and those of its tail.
LEMMA HeadAndTail ==
  ASSUME NEW S, NEW s \in Seq(S), s # << >>
  PROVE  /\ Head(s) \in Elements(s)
         /\ Tail(s) \in Seq(S)
         /\ Elements(Tail(s)) \subseteq Elements(s)
         /\ Elements(s) = Elements(Tail(s)) \cup {Head(s)}
<1>1. PICK n \in Nat : Len(s) = n + 1
  <2>1. Len(s) \in Nat \ {0}  BY EmptySeq
  <2>2. Len(s) - 1 \in Nat /\ Len(s) = (Len(s) - 1) + 1  BY <2>1
  <2> QED  BY <2>2
<1>2. DOMAIN s = 1 .. n + 1 /\ Head(s) = s[1]
  BY <1>1, LenProperties
<1>3. /\ Tail(s) \in Seq(S) /\ Len(Tail(s)) = Len(s) - 1
      /\ \A i \in 1 .. Len(Tail(s)) : Tail(s)[i] = s[i + 1]
  BY HeadTailProperties
<1>4. DOMAIN Tail(s) = 1 .. n /\ \A i \in 1 .. n : Tail(s)[i] = s[i + 1]
  BY <1>1, <1>3, LenProperties
<1>5. Elements(Tail(s)) \subseteq Elements(s)
  BY <1>2, <1>4 DEF Elements
<1>6. \A i \in 1 .. n + 1 : s[i] \in Elements(Tail(s)) \cup {Head(s)}
  <2> TAKE i \in 1 .. n + 1
  <2>1. CASE i = 1  BY <1>2, <2>1
  <2>2. CASE i # 1
    <3>1. i - 1 \in 1 .. n /\ (i - 1) + 1 = i  BY <2>2
    <3> QED  BY <1>4, <3>1 DEF Elements
  <2> QED  BY <2>1, <2>2
<1>7. Head(s) \in Elements(s)
  BY <1>2 DEF Elements
<1> QED  BY <1>2, <1>3, <1>5, <1>6, <1>7 DEF Elements

\* The lanes across a lane are lanes.
LEMMA CrossType ==
  ASSUME NEW l \in Lanes
  PROVE  Cross(l) \in Seq(Lanes)
<1>1. /\ l[1] \in 0 .. Rows - 1 /\ l[2] \in 0 .. Cols - 1 /\ 1 - l[3] \in {Horizontal, Vertical}
  BY DEF Lanes, Horizontal, Vertical
<1>2. \A i \in 1 .. BusWidth : i - 1 \in 0 .. BusWidth - 1
  BY RoutingAssumption
<1>3. \A i \in 1 .. BusWidth : <<l[1], l[2], 1 - l[3], i - 1>> \in Lanes
  BY <1>1, <1>2, Zenon DEF Lanes
<1>4. Cross(l) \in [1 .. BusWidth -> Lanes]
  BY <1>3, Zenon DEF Cross
<1>5. Cross(l) \in UNION {[1 .. n -> Lanes] : n \in Nat}
  BY <1>4, RoutingAssumption, Zenon
<1> QED  BY <1>5, SeqDef, Zenon

\* The lanes that the search may step to lie on the grid.
LEMMA StepsType ==
  ASSUME NEW chip, NEW l \in Lanes
  PROVE  Steps(chip, l) \in Seq(Lanes)
<1> DEFINE first == IF Linked(chip, l) THEN << >> ELSE Cross(l)
           K == {i \in 1 .. 2 : Onward(l)[i] \in Lanes /\ {l, Onward(l)[i]} \notin chip.links}
           more == Compact(Onward(l), K)
           Any == {Onward(l)[1], Onward(l)[2]}
<1>1. first \in Seq(Lanes)
  BY CrossType, EmptySeq
<1>2. Onward(l) \in Seq(Any) /\ DOMAIN Onward(l) = 1 .. 2
  <2>1. PICK x, y : Onward(l) = <<x, y>>
    BY Zenon DEF Onward
  <2>2. Onward(l)[1] = x /\ Onward(l)[2] = y /\ DOMAIN Onward(l) = 1 .. 2
    BY <2>1
  <2>3. <<x, y>> \in Seq({x, y})
    OBVIOUS
  <2> QED  BY <2>1, <2>2, <2>3
<1>3. K \in SUBSET DOMAIN Onward(l)
  BY <1>2
<1>4. more \in Seq(Any) /\ Elements(more) = {Onward(l)[i] : i \in K}
  <2> HIDE DEF Any, K
  <2> QED  BY <1>2, <1>3, KeptElements
<1>5. Elements(more) \subseteq Lanes
  BY <1>4
<1>6. more \in Seq(Lanes)
  <2> HIDE DEF more, Any
  <2>1. Len(more) \in Nat /\ DOMAIN more = 1 .. Len(more) /\ more \in [1 .. Len(more) -> Any]
    BY <1>4, LenProperties
  <2>2. \A i \in 1 .. Len(more) : more[i] \in Lanes
    BY <1>5, <2>1 DEF Elements
  <2>3. more \in [1 .. Len(more) -> Lanes]
    BY <2>1, <2>2
  <2>4. more \in UNION {[1 .. n -> Lanes] : n \in Nat}
    BY <2>1, <2>3, Zenon
  <2> QED  BY <2>4, SeqDef, Zenon
<1>7. first \o more \in Seq(Lanes)
  <2> HIDE DEF first, more
  <2> QED  BY <1>1, <1>6, ConcatProperties
<1> QED  BY <1>7 DEF Steps

\* What try_enqueue lets in is neither used nor seen.
LEMMA FreshType ==
  ASSUME NEW chip, NEW ls \in Seq(Lanes)
  PROVE  /\ Fresh(chip, ls) \in Seq(Lanes)
         /\ Elements(Fresh(chip, ls)) = Elements(ls) \ (chip.used \cup seen)
         /\ Elements(Fresh(chip, ls)) \subseteq Lanes
<1> DEFINE K == {i \in DOMAIN ls : ls[i] \notin chip.used \cup seen}
<1>1. K \in SUBSET DOMAIN ls
  OBVIOUS
<1>2. {ls[i] : i \in K} = Elements(ls) \ (chip.used \cup seen)
  BY DEF Elements
<1>3. Elements(ls) \subseteq Lanes
  BY ElementsOf
<1> HIDE DEF K
<1>4. /\ Compact(ls, K) \in Seq(Lanes)
      /\ Elements(Compact(ls, K)) = {ls[i] : i \in K}
  BY <1>1, KeptElements
<1> QED  BY <1>2, <1>3, <1>4 DEF Fresh, K

\* Arrival is a lane of the list that lies at loc, and None only when there is none.
LEMMA ArrivalType ==
  ASSUME NEW ls \in Seq(Lanes), NEW loc
  PROVE  \/ /\ Arrival(ls, loc) = None
            /\ \A l \in Elements(ls) : NodeOf(l) # loc
         \/ /\ Arrival(ls, loc) \in Elements(ls)
            /\ NodeOf(Arrival(ls, loc)) = loc
<1> DEFINE there == {i \in DOMAIN ls : NodeOf(ls[i]) = loc}
<1>1. CASE there = {}
  <2>1. Arrival(ls, loc) = None
    BY <1>1 DEF Arrival
  <2>2. \A l \in Elements(ls) : NodeOf(l) # loc
    BY <1>1 DEF Elements
  <2> QED  BY <2>1, <2>2
<1>2. CASE there # {}
  <2> DEFINE n == Len(ls)
             j == Cardinality(there)
  <2>1. n \in Nat /\ DOMAIN ls = 1 .. n
    BY LenProperties
  <2>2. there \in SUBSET (1 .. n)
    BY <2>1
  <2>3. j \in 1 .. j
    <3>1. IsFiniteSet(1 .. n)
      <4>1. 1 \in Int /\ n \in Int  BY <2>1
      <4> QED  BY <4>1, FS_Interval, Zenon
    <3> HIDE DEF there
    <3>2. IsFiniteSet(there)  BY <2>2, <3>1, FS_Subset
    <3>3. j \in Nat /\ j # 0  BY <1>2, <3>2, FS_CardinalityType, FS_EmptySet
    <3> HIDE DEF j
    <3> QED  BY <3>3
  <2>4. NthOf(there, j) \in there
    <3> HIDE DEF there, n
    <3> QED  BY <2>1, <2>2, <2>3, NthOfMember
  <2>5. Arrival(ls, loc) = ls[NthOf(there, j)]
    BY <1>2 DEF Arrival
  <2> QED  BY <2>4, <2>5 DEF Elements
<1> QED  BY <1>1, <1>2

\* The routes of a signal that has its users placed lead from the signal to cells.
LEMMA UsesType ==
  ASSUME cluster \in Clusters, next \in DOMAIN Order,
         NEW chip, \A i \in DOMAIN Order : i <= next => chip.cells[Order[i]] \in Coords
  PROVE  Uses(signal, chip) \subseteq ({signal} \X BOOLEAN) \X Coords
<1> SUFFICES ASSUME NEW t \in {signal} \X BOOLEAN, NEW g \in Elements(cluster.gates),
                    t \in cluster.reads[g]
             PROVE  chip.cells[g] \in Coords
  BY DEF Uses
<1>1. PICK p \in BOOLEAN : t = <<Order[next], p>>
  BY DEF signal
<1>2. PICK i \in DOMAIN Order : i < next /\ Order[i] = g
  BY <1>1, UsersFirst
<1>3. i \in Nat /\ next \in Nat
  BY OrderType
<1> QED  BY <1>2, <1>3

----------------------------------------------------------------------------
(* Types, and what the pieces of a search have to do with each other.       *)

\* The signals of the first n positions are on cells.
PlacedUpTo(chip, n) == \A i \in DOMAIN Order : i <= n => chip.cells[Order[i]] \in Coords

\* An attempt has put the signal on a cell, and its routes are the signal's.
Attempting ==
  /\ untried # << >>
  /\ PlacedUpTo(work, next)
  /\ left \subseteq ({signal} \X BOOLEAN) \X Coords

\* The search knows how it has reached each lane: from the pin, from a lane it has seen or
\* because the lane holds the signal.
Searching ==
  /\ source \in {signal} \X BOOLEAN /\ target \in Coords
  /\ lane \in seen \cup {None}
  /\ Elements(queue) \subseteq seen
  /\ DOMAIN pred \subseteq seen
  /\ \A l \in DOMAIN pred : pred[l] \in seen \cup {None}
  /\ \A l \in seen : l \in DOMAIN pred \/ l \in work.holds[source]

TypeInv ==
  /\ TypeOK
  /\ pc \in {"try", "route", "search"} => next \in DOMAIN Order
  /\ PlacedUpTo(builder, next - 1)
  /\ pc \in {"try", "route", "search"} /\ best # None => PlacedUpTo(best.chip, next)
  /\ pc \in {"route", "search"} => Attempting
  /\ pc = "search" => Searching

\* A search that starts has lanes for where it starts.
LEMMA BeginRouteType ==
  ASSUME IsBuilder(work), cluster \in Clusters, next \in DOMAIN Order, PlacedUpTo(work, next),
         seen \in SUBSET Lanes, queue \in Seq(Lanes), lane \in Lanes \cup {None},
         DOMAIN pred \in SUBSET Lanes, \A l \in DOMAIN pred : pred[l] \in Lanes \cup {None},
         NEW t \in {signal} \X BOOLEAN, NEW loc \in Coords, BeginRoute(t, loc), pc = "route"
  PROVE  /\ source' = t /\ target' = loc
         /\ pc' \in {"route", "search"}
         /\ seen' \in SUBSET Lanes /\ queue' \in Seq(Lanes) /\ lane' \in Lanes \cup {None}
         /\ DOMAIN pred' \in SUBSET Lanes
         /\ \A l \in DOMAIN pred' : pred'[l] \in Lanes \cup {None}
         /\ pc' = "search" =>
              /\ lane' \in seen' \cup {None}
              /\ Elements(queue') = seen'
              /\ DOMAIN pred' \subseteq seen'
              /\ \A l \in DOMAIN pred' : pred'[l] = None
              /\ \A l \in seen' : NodeOf(l) = loc => lane' # None
              /\ lane' # None => NodeOf(lane') = loc
              /\ IF work.holds[t] = {}
                 THEN /\ DOMAIN pred' = seen'
                      /\ \A l \in seen' : l \notin work.used /\ NodeOf(l) = work.cells[t[1]]
                 ELSE /\ DOMAIN pred' = {} /\ seen' = work.holds[t] /\ lane' = None
         /\ pc' = "route" => At(work, t, loc)
<1> DEFINE cell == work.cells[t[1]]
           pins == [k \in 1 .. 2 * BusWidth |->
                      <<cell[1], cell[2], (k - 1) % 2, (k - 1) \div 2>>]
           free == {i \in DOMAIN pins : pins[i] \notin work.used}
           starts == Compact(pins, free)
           H == work.holds[t]
<1>1. t \in Terminals /\ H \in SUBSET Lanes
  <2>1. signal \in Signals  BY OrderType DEF signal
  <2>2. t \in Terminals  BY <2>1 DEF Terminals
  <2> QED  BY <2>2, BuilderFields
<1>2. cell \in Coords
  <2>1. t[1] = Order[next] /\ next <= next  BY OrderType DEF signal
  <2> QED  BY <2>1 DEF PlacedUpTo
<1>3. \A k \in 1 .. 2 * BusWidth : pins[k] \in Lanes /\ NodeOf(pins[k]) = cell
  <2> TAKE k \in 1 .. 2 * BusWidth
  <2>1. (k - 1) % 2 \in 0 .. 1 /\ (k - 1) \div 2 \in 0 .. BusWidth - 1
    BY RoutingAssumption
  <2>2. cell[1] \in 0 .. Rows - 1 /\ cell[2] \in 0 .. Cols - 1 /\ cell = <<cell[1], cell[2]>>
    BY <1>2 DEF Coords
  <2>3. (k - 1) % 2 \in {Horizontal, Vertical}
    BY <2>1 DEF Horizontal, Vertical
  <2> DEFINE o == (k - 1) % 2
             i == (k - 1) \div 2
  <2>4. pins[k] = <<cell[1], cell[2], o, i>>  OBVIOUS
  <2> HIDE DEF o, i, pins, cell
  <2>5. <<cell[1], cell[2], o, i>> \in Lanes
    BY <2>1, <2>2, <2>3 DEF Lanes, o, i
  <2>6. NodeOf(<<cell[1], cell[2], o, i>>) = cell
    BY <2>2 DEF NodeOf
  <2> QED  BY <2>4, <2>5, <2>6
<1>4. pins \in Seq(Lanes) /\ DOMAIN pins = 1 .. 2 * BusWidth
  <2>1. pins \in [1 .. 2 * BusWidth -> Lanes] /\ 2 * BusWidth \in Nat
    BY <1>3, RoutingAssumption
  <2>2. pins \in UNION {[1 .. n -> Lanes] : n \in Nat}
    BY <2>1, Zenon
  <2>3. pins \in Seq(Lanes)  BY <2>2, SeqDef, Zenon
  <2> QED  BY <2>1, <2>3
<1>5. free \in SUBSET DOMAIN pins
  OBVIOUS
<1>6. /\ starts \in Seq(Lanes)
      /\ Elements(starts) = {pins[i] : i \in free}
  <2> HIDE DEF pins, free
  <2> QED  BY <1>4, <1>5, KeptElements
<1>7. \A l \in Elements(starts) : l \in Lanes /\ l \notin work.used /\ NodeOf(l) = cell
  <2> HIDE DEF cell, starts
  <2>1. \A i \in free : pins[i] \in Lanes /\ pins[i] \notin work.used /\ NodeOf(pins[i]) = cell
    BY <1>3, <1>4
  <2> HIDE DEF pins, free
  <2> QED  BY <1>6, <2>1
<1>8. /\ source' = t /\ target' = loc
      /\ IF At(work, t, loc)
         THEN UNCHANGED <<pc, seen, queue, pred, lane>>
         ELSE /\ pc' = "search"
              /\ lane' = IF H = {} THEN Arrival(starts, loc) ELSE None
              /\ IF H = {}
                 THEN /\ seen' = Elements(starts)
                      /\ queue' = starts
                      /\ pred' = [l \in Elements(starts) |-> None]
                 ELSE /\ seen' = H
                      /\ queue' = Sorted(H, LaneRank)
                      /\ pred' = << >>
  BY Zenon DEF BeginRoute, At
<1> HIDE DEF cell, pins, free, starts, H
<1>9. CASE At(work, t, loc)
  BY <1>8, <1>9
<1>10. CASE ~ At(work, t, loc) /\ H = {}
  <2>1. /\ pc' = "search" /\ lane' = Arrival(starts, loc)
        /\ seen' = Elements(starts) /\ queue' = starts
        /\ pred' = [l \in Elements(starts) |-> None]
    BY <1>8, <1>10
  <2>2. \/ /\ lane' = None
           /\ \A l \in Elements(starts) : NodeOf(l) # loc
        \/ /\ lane' \in Elements(starts)
           /\ NodeOf(lane') = loc
    BY <1>6, <2>1, ArrivalType
  <2>3. Elements(starts) \in SUBSET Lanes  BY <1>7
  <2>4. None \notin Lanes  BY RoutingAssumption
  <2>5. seen' \in SUBSET Lanes /\ queue' \in Seq(Lanes) /\ lane' \in Lanes \cup {None}
    BY <1>6, <2>1, <2>2, <2>3
  <2>6. DOMAIN pred' = seen' /\ \A l \in seen' : pred'[l] = None
    BY <2>1
  <2>7. \A l \in seen' : l \notin work.used /\ NodeOf(l) = work.cells[t[1]]
    BY <1>7, <2>1 DEF cell
  <2>8. (\A l \in seen' : NodeOf(l) = loc => lane' # None) /\ (lane' # None => NodeOf(lane') = loc)
    BY <2>1, <2>2, <2>3, <2>4
  <2>9. lane' \in seen' \cup {None} /\ Elements(queue') = seen' /\ H = work.holds[t]
    BY <2>1, <2>2 DEF H
  <2> QED  BY <1>8, <1>10, <2>1, <2>5, <2>6, <2>7, <2>8, <2>9
<1>11. CASE ~ At(work, t, loc) /\ H # {}
  <2>1. /\ pc' = "search" /\ lane' = None
        /\ seen' = H /\ queue' = Sorted(H, LaneRank)
        /\ pred' = << >>
    BY <1>8, <1>11
  <2>2. DOMAIN pred' = {}
    BY <2>1
  <2>3. /\ queue' \in Seq(H)
        /\ \A x \in H : \E k \in DOMAIN queue' : queue'[k] = x
    BY <1>1, <2>1, SortedLanes
  <2>4. queue' \in Seq(Lanes) /\ Elements(queue') = H
    <3>1. queue' \in Seq(Lanes)  BY <1>1, <2>3, SeqMonotonic
    <3>2. Elements(queue') \subseteq H  BY <2>3, LenProperties DEF Elements
    <3>3. H \subseteq Elements(queue')  BY <2>3 DEF Elements
    <3> QED  BY <3>1, <3>2, <3>3
  <2>5. \A l \in H : NodeOf(l) # loc
    BY <1>11 DEF At, H
  <2> QED  BY <1>1, <1>8, <1>11, <2>1, <2>2, <2>4, <2>5 DEF H
<1> QED  BY <1>9, <1>10, <1>11

\* What RouteUse and RouteOutput do: the search of a route starts, or there is nothing to do.
Started(t, loc) ==
  /\ source' = t /\ target' = loc
  /\ pc' \in {"route", "search"}
  /\ seen' \in SUBSET Lanes /\ queue' \in Seq(Lanes) /\ lane' \in Lanes \cup {None}
  /\ DOMAIN pred' \in SUBSET Lanes
  /\ \A l \in DOMAIN pred' : pred'[l] \in Lanes \cup {None}
  /\ pc' = "route" => At(work, t, loc)
  /\ pc' = "search" =>
       /\ lane' \in seen' \cup {None}
       /\ Elements(queue') = seen'
       /\ DOMAIN pred' \subseteq seen'
       /\ \A l \in DOMAIN pred' : pred'[l] = None
       /\ \A l \in seen' : NodeOf(l) = loc => lane' # None
       /\ lane' # None => NodeOf(lane') = loc
       /\ IF work.holds[t] = {}
          THEN /\ DOMAIN pred' = seen'
               /\ \A l \in seen' : l \notin work.used /\ NodeOf(l) = work.cells[t[1]]
          ELSE /\ DOMAIN pred' = {} /\ seen' = work.holds[t] /\ lane' = None

UseTaken(t, loc) ==
  /\ <<t, loc>> \in left /\ left' = left \ {<<t, loc>>}
  /\ work' = work
OutputTakenFor(t, loc) ==
  /\ left = {} /\ left' = left /\ t = <<signal, TRUE>>
  /\ NeedsOutput /\ loc \in Available(work, "out")
  /\ HasOutput(work', work, signal, loc)

RouteEffect(t, loc) ==
  /\ pc = "route"
  /\ Started(t, loc)
  /\ UseTaken(t, loc) \/ OutputTakenFor(t, loc)
  /\ IsBuilder(work') /\ SameLanes(work', work) /\ work'.cells = work.cells
  /\ cluster' = cluster /\ builder' = builder /\ next' = next /\ untried' = untried
  /\ best' = best /\ cost' = cost
  /\ Order' = Order /\ signal' = signal

\* A route that is begun has this effect, for a use or for an output cell.
LEMMA RouteDoes ==
  ASSUME TypeInv, (\E use \in left : RouteUse(use)) \/ RouteOutput
  PROVE  \E t \in {signal} \X BOOLEAN, loc \in Coords : RouteEffect(t, loc)
<1> USE DEF TypeInv
<1>1. ASSUME NEW use \in left, RouteUse(use)
      PROVE  \E t \in {signal} \X BOOLEAN, loc \in Coords : RouteEffect(t, loc)
  <2>1. /\ pc = "route" /\ left' = left \ {use} /\ BeginRoute(use[1], use[2])
        /\ UNCHANGED <<cluster, builder, next, untried, best, work, cost>>
        /\ Order' = Order /\ signal' = signal
    BY <1>1 DEF RouteUse, Order, signal
  <2>2. /\ use[1] \in {signal} \X BOOLEAN /\ use[2] \in Coords
        /\ use = <<use[1], use[2]>>
    BY <1>1, <2>1 DEF Attempting
  <2>3. Started(use[1], use[2])
    BY <2>1, <2>2, BeginRouteType DEF TypeOK, Attempting, Started
  <2>4. UseTaken(use[1], use[2])
    BY <1>1, <2>1, <2>2 DEF UseTaken
  <2>5. IsBuilder(work') /\ SameLanes(work', work) /\ work'.cells = work.cells
    BY <2>1 DEF SameLanes, TypeOK
  <2>6. RouteEffect(use[1], use[2])
    BY <2>1, <2>3, <2>4, <2>5 DEF RouteEffect
  <2> QED  BY <2>2, <2>6
<1>2. CASE RouteOutput
  <2> DEFINE out == ClosestOutput(work, work.cells[signal])
             t == <<signal, TRUE>>
  <2>1. /\ pc = "route" /\ left = {} /\ left' = left /\ BeginRoute(t, out)
        /\ UNCHANGED <<cluster, builder, next, untried, best, cost>>
        /\ Order' = Order /\ signal' = signal
        /\ work' = TakeOutput(work, signal, out)
        /\ Available(work, "out") # {} /\ NeedsOutput
    BY <1>2 DEF RouteOutput, TakeOutput, Order, signal
  <2>2. /\ signal \in Signals /\ IsBuilder(work)
        /\ work.cells[signal] \in Coords
    <3>1. next \in Nat /\ next <= next /\ signal \in Signals
      BY <2>1, OrderType DEF TypeOK, signal
    <3> QED  BY <2>1, <3>1 DEF TypeOK, Attempting, PlacedUpTo, signal
  <2>3. out \in Available(work, "out")
    BY <2>1, <2>2, ClosestOutputType
  <2>4. out \in Coords
    BY <2>2, <2>3, BuilderFields DEF Available
  <2> HIDE DEF out
  <2>5. /\ IsBuilder(work')
        /\ HasOutput(work', work, signal, out)
        /\ SameLanes(work', work)
    BY <2>1, <2>2, <2>4, OutputTaken
  <2>6. t \in {signal} \X BOOLEAN
    OBVIOUS
  <2>7. Started(t, out)
    <3> HIDE DEF t
    <3> QED  BY <2>1, <2>4, <2>6, BeginRouteType DEF TypeOK, Attempting, Started
  <2>8. OutputTakenFor(t, out)
    BY <2>1, <2>3, <2>5 DEF OutputTakenFor
  <2>9. RouteEffect(t, out)
    BY <2>1, <2>5, <2>7, <2>8 DEF RouteEffect, HasOutput
  <2> QED  BY <2>4, <2>6, <2>9
<1> QED  BY <1>1, <1>2

\* What Expand does: the lanes next to the first of the queue that are neither used nor
\* seen join it.
ExpandEffect(from, fresh) ==
  /\ pc = "search" /\ lane = None /\ queue # << >>
  /\ from \in seen /\ from \in Lanes
  /\ Elements(queue) = Elements(Tail(queue)) \cup {from}
  /\ fresh = Elements(Steps(work, from)) \ (work.used \cup seen)
  /\ fresh \subseteq Lanes
  /\ queue' \in Seq(Lanes) /\ Elements(queue') = Elements(Tail(queue)) \cup fresh
  /\ seen' = seen \cup fresh
  /\ DOMAIN pred' = fresh \cup DOMAIN pred
  /\ \A l \in DOMAIN pred' : pred'[l] = IF l \in fresh THEN from ELSE pred[l]
  /\ lane' = None => \A l \in fresh : NodeOf(l) # target
  /\ lane' # None => lane' \in fresh /\ NodeOf(lane') = target
  /\ UNCHANGED <<cluster, pc, builder, next, untried, best, work, cost, left, source, target>>
  /\ Order' = Order /\ signal' = signal

\* The loop of Route looks at the lanes next to the first of the queue.
LEMMA ExpandDoes ==
  ASSUME TypeInv, Expand
  PROVE  \E from, fresh : ExpandEffect(from, fresh)
<1> USE DEF TypeInv
<1>1. PICK list \in {Fresh(work, Steps(work, Head(queue)))} :
        /\ queue' = Tail(queue) \o list
        /\ seen' = seen \cup Elements(list)
        /\ pred' = [l \in Elements(list) \cup DOMAIN pred |->
                      IF l \in Elements(list) THEN Head(queue) ELSE pred[l]]
        /\ lane' = Arrival(list, target)
  BY DEF Expand
<1>2. /\ pc = "search" /\ queue # << >> /\ lane = None
      /\ UNCHANGED <<cluster, pc, builder, next, untried, best, work, cost, left, source, target>>
      /\ Order' = Order /\ signal' = signal
  BY DEF Expand, attempt, Order, signal
<1>3. /\ Head(queue) \in Elements(queue) /\ Tail(queue) \in Seq(Lanes)
      /\ Elements(queue) = Elements(Tail(queue)) \cup {Head(queue)}
  BY <1>2, HeadAndTail DEF TypeOK
<1>4. Head(queue) \in seen /\ Head(queue) \in Lanes
  BY <1>2, <1>3 DEF Searching, TypeOK
<1>5. /\ list \in Seq(Lanes) /\ Elements(list) \subseteq Lanes
      /\ Elements(list) = Elements(Steps(work, Head(queue))) \ (work.used \cup seen)
  BY <1>1, <1>4, StepsType, FreshType
<1>6. /\ Tail(queue) \o list \in Seq(Lanes)
      /\ Elements(Tail(queue) \o list) = Elements(Tail(queue)) \cup Elements(list)
  <2>1. \A r \in Seq(Lanes) : /\ r \o list \in Seq(Lanes)
                              /\ Elements(r \o list) = Elements(r) \cup Elements(list)
    BY <1>5, ElementsOf
  <2> QED  BY <1>3, <2>1, Zenon
<1>7. /\ lane' = None => \A l \in Elements(list) : NodeOf(l) # target
      /\ lane' # None => lane' \in Elements(list) /\ NodeOf(lane') = target
  <2>1. None \notin Elements(list)  BY <1>5, RoutingAssumption
  <2>2. \/ lane' = None /\ \A l \in Elements(list) : NodeOf(l) # target
        \/ lane' \in Elements(list) /\ NodeOf(lane') = target
    BY <1>1, <1>5, ArrivalType
  <2> QED  BY <2>1, <2>2
<1> DEFINE fresh == Elements(list)
<1>8. /\ DOMAIN pred' = fresh \cup DOMAIN pred
      /\ \A l \in DOMAIN pred' : pred'[l] = IF l \in fresh THEN Head(queue) ELSE pred[l]
  BY <1>1
<1>9. ExpandEffect(Head(queue), fresh)
  BY <1>1, <1>2, <1>3, <1>4, <1>5, <1>6, <1>7, <1>8 DEF ExpandEffect
<1> QED  BY <1>9

\* What Walk does: the lane is taken, and the way back goes on to the one before it.
WalkEffect(from) ==
  /\ pc = "search" /\ lane \in Lanes /\ lane \in seen /\ lane \in DOMAIN pred
  /\ source \in Terminals /\ lane \notin work.holds[source]
  /\ from = pred[lane] /\ from \in seen \cup {None} /\ from \in Lanes \cup {None}
  /\ lane' = from /\ pc' = (IF from = None THEN "route" ELSE "search")
  /\ cost' = cost + 1
  /\ IsBuilder(work') /\ HasLane(work', work, source, lane)
  /\ HasLink(work', work, source, lane, from)
  /\ UNCHANGED <<cluster, builder, next, untried, best, left, source, target, seen, queue, pred>>
  /\ Order' = Order /\ signal' = signal

\* The way back takes the lane and sets the switch to the one it was reached from.
LEMMA WalkDoes ==
  ASSUME TypeInv, Walk
  PROVE  WalkEffect(pred[lane])
<1> USE DEF TypeInv
<1>1. /\ pc = "search" /\ lane # None /\ lane \notin work.holds[source]
      /\ lane' = pred[lane]
      /\ pc' = IF pred[lane] = None THEN "route" ELSE pc
      /\ cost' = cost + 1
      /\ UNCHANGED <<cluster, builder, next, untried, best, left, source, target, seen, queue, pred>>
      /\ Order' = Order /\ signal' = signal
      /\ work' = TakeLane(work, source, lane, pred[lane])
  BY DEF Walk, TakeLane, Order, signal
<1>2. /\ lane \in Lanes /\ lane \in seen /\ lane \in DOMAIN pred
      /\ pred[lane] \in seen \cup {None} /\ pred[lane] \in Lanes \cup {None}
  BY <1>1 DEF TypeOK, Searching
<1>3. source \in Terminals /\ IsBuilder(work)
  <2>1. signal \in Signals  BY <1>1, OrderType DEF TypeOK, signal
  <2> QED  BY <1>1, <2>1 DEF Searching, Terminals, TypeOK
<1>4. /\ IsBuilder(work')
      /\ HasLane(work', work, source, lane)
      /\ HasLink(work', work, source, lane, pred[lane])
  BY <1>1, <1>2, <1>3, LaneTaken
<1> QED  BY <1>1, <1>2, <1>3, <1>4 DEF WalkEffect

\* The invariant holds at the start.
LEMMA TypeInit ==
  ASSUME Init  PROVE TypeInv
<1> USE DEF Init
<1>1. cluster \in Clusters
  OBVIOUS
<1>2. IsBuilder(EmptyChip)
  BY DEF IsBuilder, EmptyChip
<1>3. /\ << >> \in Seq(Coords) /\ << >> \in Seq(Lanes)
      /\ DOMAIN << >> = {}
  BY EmptySeq
<1>4. Len(Order) \in Nat
  BY <1>1, OrderType
<1>5. TypeOK
  BY <1>1, <1>2, <1>3, <1>4 DEF TypeOK
<1>6. PlacedUpTo(builder, next - 1)
  <2>1. \A i \in DOMAIN Order : ~ (i <= 1 - 1)
    BY <1>1, OrderType
  <2> QED  BY <2>1 DEF PlacedUpTo
<1> QED  BY <1>5, <1>6 DEF TypeInv

\* Every step keeps it.
LEMMA TypeStep ==
  ASSUME TypeInv, [Next]_vars  PROVE TypeInv'
<1> USE DEF TypeInv
<1>1. /\ IsCluster(cluster)
      /\ Order \in Seq(Signals) /\ Len(Order) \in Nat /\ DOMAIN Order = 1 .. Len(Order)
  BY OrderType DEF TypeOK
<1>2. /\ next \in Nat
      /\ next \in DOMAIN Order => signal \in Signals
  BY <1>1 DEF TypeOK, signal
<1>3. CASE UNCHANGED vars
  BY <1>3 DEF vars, attempt, searching, TypeOK, IsBuilder, PlacedUpTo, Attempting, Searching,
              Order, signal
<1>4. CASE StartSignal
  <2> USE <1>4 DEF StartSignal, attempt, searching
  <2>1. Candidates(signal) \in Seq(Coords)
    BY CandidatesType DEF TypeOK
  <2>2. TypeOK'
    BY <2>1 DEF TypeOK, IsBuilder, Order
  <2>3. PlacedUpTo(builder, next - 1)'
    BY DEF PlacedUpTo, Order
  <2> QED  BY <2>2, <2>3 DEF Order
<1>5. CASE Routed
  <2> USE <1>5 DEF Routed, attempt, searching
  <2>1. TypeOK'
    BY DEF TypeOK, IsBuilder, Order
  <2>2. PlacedUpTo(builder, next - 1)'
    BY DEF PlacedUpTo, Order
  <2> QED  BY <2>1, <2>2
<1>6. CASE TryCell
  <2> DEFINE chip == Place(builder, signal, Head(untried))
  <2>1. Head(untried) \in Coords /\ Tail(untried) \in Seq(Coords)
    BY <1>6, HeadTailProperties DEF TypeOK, TryCell
  <2>2. /\ IsBuilder(builder) /\ signal \in Signals /\ pc = "try" /\ untried # << >>
      /\ next \in DOMAIN Order
    BY <1>2, <1>6 DEF TypeOK, TryCell
  <2>3. /\ IsBuilder(chip)
        /\ chip.cells = [builder.cells EXCEPT ![signal] = Head(untried)]
    BY <2>1, <2>2, PlaceType DEF HasPlaced
  <2>4. PlacedUpTo(chip, next)
    <3> SUFFICES ASSUME NEW i \in DOMAIN Order, i <= next
                 PROVE  chip.cells[Order[i]] \in Coords
      BY DEF PlacedUpTo
    <3>1. builder.cells \in [Signals -> Coords \cup {None}] /\ Order[i] \in Signals
      BY <1>1, <2>2, BuilderFields
    <3>2. CASE Order[i] = signal
      BY <2>1, <2>3, <3>1, <3>2
    <3>3. CASE Order[i] # signal
      <4>1. i # next  BY <3>3 DEF signal
      <4>2. i <= next - 1  BY <1>1, <1>2, <4>1
      <4> QED  BY <2>3, <3>1, <3>3, <4>2 DEF PlacedUpTo
    <3> QED  BY <3>2, <3>3
  <2>5. Uses(signal, chip) \subseteq ({signal} \X BOOLEAN) \X Coords
    BY <2>2, <2>4, UsesType DEF TypeOK, PlacedUpTo
  <2> HIDE DEF chip
  <2>6. /\ cluster' = cluster /\ builder' = builder /\ next' = next /\ best' = best
        /\ Order' = Order /\ signal' = signal
        /\ UNCHANGED searching
    BY <1>6 DEF TryCell, Order, signal
  <2>7. \/ /\ pc' = "route" /\ work' = chip /\ cost' = 0 /\ left' = Uses(signal, chip)
           /\ untried' = untried
        \/ /\ pc' = "try" /\ untried' = Tail(untried) /\ UNCHANGED attempt
    BY <1>6, Zenon DEF TryCell, chip
  <2>8. left' \in SUBSET (Terminals \X Coords)
    <3>1. ({signal} \X BOOLEAN) \X Coords \subseteq Terminals \X Coords
      BY <2>2 DEF Terminals
    <3> QED  BY <2>5, <2>7, <3>1 DEF TypeOK, attempt
  <2>9. IsBuilder(work')
    BY <2>3, <2>7 DEF TypeOK, attempt
  <2>10. TypeOK'
    <3>1. pc' \in {"try", "route", "search", "next", "routed", "failed"}
      BY <2>7
    <3>2. untried' \in Seq(Coords)
      BY <2>1, <2>7 DEF TypeOK
    <3>3. cost' \in Nat
      BY <2>7 DEF TypeOK, attempt
    <3>4. /\ cluster' \in Clusters /\ IsBuilder(builder')
          /\ next' \in 1 .. Len(Order') + 1
          /\ best' # None => best'.cost \in Nat /\ IsBuilder(best'.chip)
      BY <2>6 DEF TypeOK
    <3>5. /\ source' \in Terminals \cup {None} /\ target' \in Coords \cup {None}
          /\ lane' \in Lanes \cup {None}
          /\ seen' \in SUBSET Lanes
          /\ queue' \in Seq(Lanes)
          /\ DOMAIN pred' \in SUBSET Lanes
          /\ \A l \in DOMAIN pred' : pred'[l] \in Lanes \cup {None}
      BY <2>6 DEF TypeOK, searching
    <3> QED  BY <2>8, <2>9, <3>1, <3>2, <3>3, <3>4, <3>5 DEF TypeOK
  <2>11. PlacedUpTo(builder, next - 1)' /\ (best # None => PlacedUpTo(best.chip, next))'
    BY <2>2, <2>6 DEF PlacedUpTo
  <2>12. pc' = "route" => Attempting'
    <3>1. CASE pc' = "route"
      <4>1. work' = chip /\ left' = Uses(signal, chip) /\ untried' # << >>
        BY <2>2, <2>7, <3>1
      <4> QED  BY <2>4, <2>5, <2>6, <4>1 DEF Attempting, PlacedUpTo
    <3> QED  BY <3>1
  <2>13. next' \in DOMAIN Order' /\ pc' # "search"
    BY <2>2, <2>6, <2>7
  <2> QED  BY <2>10, <2>11, <2>12, <2>13
<1>7. CASE Attempted
  <2> USE <1>7 DEF Attempted, attempt, searching
  <2>1. untried # << >> /\ Tail(untried) \in Seq(Coords)
    BY HeadTailProperties DEF TypeOK, Attempting
  <2>2. (best # None => best.cost \in Nat /\ IsBuilder(best.chip))'
    BY DEF TypeOK
  <2>3. TypeOK'
    BY <2>1, <2>2 DEF TypeOK, IsBuilder, Order
  <2>4. PlacedUpTo(builder, next - 1)' /\ (best # None => PlacedUpTo(best.chip, next))'
    BY DEF PlacedUpTo, Order, Attempting
  <2>5. pc' = "try" /\ (next \in DOMAIN Order)'
    BY DEF Order
  <2> QED  BY <2>3, <2>4, <2>5
<1>8. CASE Placed
  <2> USE <1>8 DEF Placed, attempt, searching
  <2>1. next \in 1 .. Len(Order)
    BY <1>1
  <2>2. TypeOK'
    BY <1>1, <2>1 DEF TypeOK, IsBuilder, Order
  <2>3. PlacedUpTo(builder, next - 1)'
    <3>1. CASE best = None
      BY <3>1 DEF PlacedUpTo, Order
    <3>2. CASE best # None
      <4>1. next' - 1 = next /\ builder' = best.chip /\ Order' = Order
        BY <3>2, <2>1 DEF Order
      <4> QED  BY <3>2, <4>1 DEF PlacedUpTo
    <3> QED  BY <3>1, <3>2
  <2>4. pc' \in {"failed", "next"}
    OBVIOUS
  <2> QED  BY <2>2, <2>3, <2>4
<1>9. CASE (\E use \in left : RouteUse(use)) \/ RouteOutput
  <2>1. PICK t \in {signal} \X BOOLEAN, loc \in Coords : RouteEffect(t, loc)
    BY <1>9, RouteDoes
  <2>2. /\ pc = "route" /\ IsBuilder(work') /\ work'.holds = work.holds /\ work'.cells = work.cells
        /\ UNCHANGED <<cluster, builder, next, untried, best, cost>>
        /\ Order' = Order /\ signal' = signal
        /\ left' \subseteq left
    BY <2>1 DEF RouteEffect, UseTaken, OutputTakenFor, SameLanes
  <2>3. /\ source' = t /\ target' = loc
        /\ pc' \in {"route", "search"}
        /\ seen' \in SUBSET Lanes /\ queue' \in Seq(Lanes) /\ lane' \in Lanes \cup {None}
        /\ DOMAIN pred' \in SUBSET Lanes
        /\ \A l \in DOMAIN pred' : pred'[l] \in Lanes \cup {None}
    BY <2>1 DEF RouteEffect, Started
  <2>4. TypeOK'
    <3>1. /\ cluster' \in Clusters
          /\ pc' \in {"next", "try", "route", "search", "routed", "failed"}
          /\ IsBuilder(builder')
          /\ next' \in 1 .. Len(Order') + 1
          /\ untried' \in Seq(Coords)
          /\ best' # None => best'.cost \in Nat /\ IsBuilder(best'.chip)
          /\ cost' \in Nat
      BY <2>2, <2>3 DEF TypeOK
    <3>2. t \in Terminals
      BY <1>2, <2>2 DEF Terminals
    <3>3. /\ left' \in SUBSET (Terminals \X Coords)
          /\ source' \in Terminals \cup {None} /\ target' \in Coords \cup {None}
      BY <2>2, <2>3, <3>2 DEF TypeOK
    <3> QED  BY <2>2, <2>3, <3>1, <3>3 DEF TypeOK
  <2>5. PlacedUpTo(builder, next - 1)' /\ (best # None => PlacedUpTo(best.chip, next))'
    BY <2>2 DEF PlacedUpTo
  <2>6. Attempting'
    BY <2>2 DEF Attempting, PlacedUpTo
  <2>7. ASSUME pc' = "search"  PROVE Searching'
    <3>1. /\ lane' \in seen' \cup {None}
          /\ Elements(queue') = seen'
          /\ DOMAIN pred' \subseteq seen'
          /\ \A l \in DOMAIN pred' : pred'[l] = None
          /\ \A l \in seen' : l \in DOMAIN pred' \/ l \in work.holds[t]
      BY <2>1, <2>7 DEF RouteEffect, Started
    <3> QED  BY <2>2, <2>3, <3>1 DEF Searching
  <2>8. pc' \in {"route", "search"} /\ (next \in DOMAIN Order)'
    BY <2>2, <2>3
  <2> QED  BY <2>4, <2>5, <2>6, <2>7, <2>8
<1>10. CASE Expand
  <2>1. PICK from, fresh : ExpandEffect(from, fresh)
    BY <1>10, ExpandDoes
  <2> USE <2>1 DEF ExpandEffect
  <2>2. Searching'
    <3>1. Elements(queue') \subseteq seen' /\ lane' \in seen' \cup {None}
      BY DEF Searching
    <3>2. /\ DOMAIN pred' \subseteq seen'
          /\ \A l \in DOMAIN pred' : pred'[l] \in seen' \cup {None}
      BY DEF Searching
    <3>3. \A l \in seen' : l \in DOMAIN pred' \/ l \in work.holds[source]
      BY DEF Searching
    <3> QED  BY <3>1, <3>2, <3>3 DEF Searching
  <2>3. TypeOK'
    <3>1. /\ seen' \in SUBSET Lanes
          /\ lane' \in Lanes \cup {None}
          /\ DOMAIN pred' \in SUBSET Lanes
          /\ \A l \in DOMAIN pred' : pred'[l] \in Lanes \cup {None}
      BY DEF TypeOK
    <3> QED  BY <3>1 DEF TypeOK
  <2>4. PlacedUpTo(builder, next - 1)' /\ (best # None => PlacedUpTo(best.chip, next))' /\ Attempting'
    BY DEF PlacedUpTo, Attempting
  <2> QED  BY <2>2, <2>3, <2>4
<1>11. CASE NoRoute
  <2> USE <1>11 DEF NoRoute, attempt, searching
  <2>1. Tail(untried) \in Seq(Coords)
    BY HeadTailProperties DEF TypeOK, Attempting
  <2>2. TypeOK'
    BY <2>1 DEF TypeOK, IsBuilder, Order
  <2>3. PlacedUpTo(builder, next - 1)' /\ (best # None => PlacedUpTo(best.chip, next))'
    BY DEF PlacedUpTo, Order
  <2> QED  BY <2>2, <2>3 DEF Order
<1>12. CASE Walk
  <2> DEFINE from == pred[lane]
  <2>1. WalkEffect(from)
    BY <1>12, WalkDoes
  <2> HIDE DEF from
  <2> USE <2>1 DEF WalkEffect
  <2>2. work'.cells = work.cells /\ work.holds[source] \subseteq work'.holds[source]
    BY BuilderFields DEF HasLane, TypeOK
  <2>3. TypeOK'
    <3>1. /\ cluster' \in Clusters
          /\ pc' \in {"next", "try", "route", "search", "routed", "failed"}
          /\ IsBuilder(builder')
          /\ next' \in 1 .. Len(Order') + 1
          /\ untried' \in Seq(Coords)
          /\ best' # None => best'.cost \in Nat /\ IsBuilder(best'.chip)
          /\ cost' \in Nat
      BY DEF TypeOK
    <3> QED  BY <3>1 DEF TypeOK
  <2>4. PlacedUpTo(builder, next - 1)' /\ (best # None => PlacedUpTo(best.chip, next))' /\ Attempting'
    BY <2>2 DEF PlacedUpTo, Attempting
  <2>5. Searching'
    BY <2>2 DEF Searching
  <2> QED  BY <2>3, <2>4, <2>5
<1>13. CASE Joined
  <2> USE <1>13 DEF Joined, attempt, searching
  <2>1. TypeOK'
    BY DEF TypeOK, IsBuilder, Order
  <2>2. PlacedUpTo(builder, next - 1)' /\ (best # None => PlacedUpTo(best.chip, next))'
    BY DEF PlacedUpTo, Order
  <2>3. Attempting'
    BY DEF Attempting, PlacedUpTo, Order, signal
  <2> QED  BY <2>1, <2>2, <2>3 DEF Order
<1> QED
  BY <1>3, <1>4, <1>5, <1>6, <1>7, <1>8, <1>9, <1>10, <1>11, <1>12, <1>13
     DEF Next, Step, Stopped

\* The variables always have their types.
THEOREM TypeCorrect == Spec => []TypeOK
<1>1. Init => TypeInv  BY TypeInit
<1>2. TypeInv /\ [Next]_vars => TypeInv'  BY TypeStep
<1>3. TypeInv => TypeOK  BY DEF TypeInv
<1> QED  BY <1>1, <1>2, <1>3, PTL DEF Spec

----------------------------------------------------------------------------
(* No lane carries two signals.                                             *)

\* The lanes of a builder hold one signal each; its switches join lanes of a signal, but
\* for the one that the way back is about to take.
Separate(chip) ==
  /\ \A s, t \in Terminals : s # t => chip.holds[s] \cap chip.holds[t] = {}
  /\ chip.used = UNION {chip.holds[t] : t \in Terminals}
Switched(chip) ==
  \A link \in chip.links : \E t \in Terminals : link \subseteq chip.holds[t]
SwitchedBut(chip, t, l) ==
  \A link \in chip.links : \E u \in Terminals :
    link \subseteq chip.holds[u] \cup (IF u = t THEN {l} ELSE {})

\* A lane that the search has seen is free, unless it holds the signal that is routed.
ExclusiveInv ==
  /\ Separate(builder) /\ Switched(builder)
  /\ best # None => Separate(best.chip) /\ Switched(best.chip)
  /\ pc = "route" => Separate(work) /\ Switched(work)
  /\ pc = "search" =>
       /\ Separate(work) /\ SwitchedBut(work, source, lane)
       /\ \A l \in seen : l \in work.used => l \in work.holds[source]

\* Which of these builders holds what, does not depend on the cells that are taken.
LEMMA SeparateSame ==
  ASSUME NEW new, NEW chip, SameLanes(new, chip), Separate(chip)
  PROVE  Separate(new) /\ (Switched(chip) => Switched(new))
BY DEF SameLanes, Separate, Switched

\* A lane that is free is taken by one signal.
LEMMA SeparateLane ==
  ASSUME NEW chip, IsBuilder(chip), Separate(chip), NEW t \in Terminals, NEW l \in Lanes,
         l \notin chip.used, NEW new, HasLane(new, chip, t, l)
  PROVE  Separate(new)
<1>1. chip.holds \in [Terminals -> SUBSET Lanes]
  BY BuilderFields
<1>2. \A u \in Terminals : new.holds[u] = IF u = t THEN chip.holds[u] \cup {l} ELSE chip.holds[u]
  BY <1>1 DEF HasLane
<1>3. new.used = chip.used \cup {l}
  BY DEF HasLane
<1> DEFINE H(u) == chip.holds[u]
           N(u) == new.holds[u]
<1>4. /\ \A u \in Terminals : N(u) = IF u = t THEN H(u) \cup {l} ELSE H(u)
      /\ \A s, u \in Terminals : s # u => H(s) \cap H(u) = {}
      /\ chip.used = UNION {H(u) : u \in Terminals}
  BY <1>2 DEF Separate
<1>5. SUFFICES /\ \A s, u \in Terminals : s # u => N(s) \cap N(u) = {}
               /\ new.used = UNION {N(u) : u \in Terminals}
  BY DEF Separate
<1> HIDE DEF H, N
<1>6. \A u \in Terminals : l \notin H(u)
  BY <1>4
<1>7. ASSUME NEW s \in Terminals, NEW u \in Terminals, s # u
      PROVE  N(s) \cap N(u) = {}
  <2>1. H(s) \cap H(u) = {} /\ l \notin H(s) /\ l \notin H(u)
    BY <1>4, <1>6, <1>7
  <2> QED  BY <1>4, <1>7, <2>1
<1>8. ASSUME NEW x
      PROVE  x \in new.used <=> \E u \in Terminals : x \in N(u)
  <2>1. x \in chip.used <=> \E u \in Terminals : x \in H(u)
    BY <1>4
  <2>2. CASE x = l
    BY <1>3, <1>4, <2>2
  <2>3. CASE x # l
    <3>1. \A u \in Terminals : x \in N(u) <=> x \in H(u)
      BY <1>4, <2>3
    <3> QED  BY <1>3, <2>1, <2>3, <3>1
  <2> QED  BY <2>2, <2>3
<1>9. new.used = UNION {N(u) : u \in Terminals}
  BY <1>8, Zenon
<1> QED  BY <1>7, <1>9

\* The empty chip has no lanes taken.
LEMMA ExclusiveInit ==
  ASSUME Init  PROVE ExclusiveInv
<1>1. /\ \A t \in Terminals : EmptyChip.holds[t] = {}
      /\ EmptyChip.used = {} /\ EmptyChip.links = {}
  BY DEF EmptyChip
<1>2. Separate(EmptyChip) /\ Switched(EmptyChip)
  BY <1>1 DEF Separate, Switched
<1> QED  BY <1>2 DEF Init, ExclusiveInv

\* Every step keeps the lanes apart.
LEMMA ExclusiveStep ==
  ASSUME TypeInv, ExclusiveInv, [Next]_vars  PROVE ExclusiveInv'
<1> USE DEF ExclusiveInv
<1>1. CASE UNCHANGED vars
  BY <1>1 DEF vars, attempt, searching
<1>2. CASE StartSignal
  BY <1>2 DEF StartSignal, attempt, searching
<1>3. CASE Routed
  BY <1>3 DEF Routed, attempt, searching
<1>4. CASE TryCell
  <2> DEFINE chip == Place(builder, signal, Head(untried))
  <2>1. /\ builder' = builder /\ best' = best
        /\ pc' \in {"try", "route"}
        /\ pc' = "route" => work' = chip
    BY <1>4, Zenon DEF TryCell, attempt
  <2>2. SameLanes(chip, builder)
    <3>1. Head(untried) \in Coords
      BY <1>4, HeadTailProperties DEF TryCell, TypeInv, TypeOK
    <3>2. signal \in Signals /\ IsBuilder(builder)
      BY <1>4, OrderType DEF TryCell, TypeInv, TypeOK, signal
    <3> QED  BY <3>1, <3>2, PlaceType
  <2>3. Separate(chip) /\ Switched(chip)
    BY <2>2, SeparateSame
  <2> HIDE DEF chip
  <2> QED  BY <2>1, <2>3
<1>5. CASE Attempted
  BY <1>5 DEF Attempted, attempt, searching
<1>6. CASE Placed
  BY <1>6 DEF Placed, attempt, searching
<1>7. CASE (\E use \in left : RouteUse(use)) \/ RouteOutput
  <2>1. PICK t \in {signal} \X BOOLEAN, loc \in Coords : RouteEffect(t, loc)
    BY <1>7, RouteDoes
  <2>2. /\ pc = "route" /\ builder' = builder /\ best' = best
        /\ SameLanes(work', work) /\ pc' \in {"route", "search"}
        /\ source' = t
    BY <2>1 DEF RouteEffect, Started
  <2>3. Separate(work') /\ Switched(work')
    BY <2>2, SeparateSame
  <2>4. SwitchedBut(work', source', lane')
    BY <2>3 DEF Switched, SwitchedBut
  <2>5. pc' = "search" => \A l \in seen' : l \in work.used => l \in work.holds[t]
    BY <2>1 DEF RouteEffect, Started
  <2> QED  BY <2>2, <2>3, <2>4, <2>5 DEF SameLanes
<1>8. CASE Expand
  <2>1. PICK from, fresh : ExpandEffect(from, fresh)
    BY <1>8, ExpandDoes
  <2>2. /\ pc = "search" /\ lane = None
        /\ UNCHANGED <<pc, builder, best, work, source>>
        /\ seen' = seen \cup fresh /\ fresh \cap work.used = {}
    BY <2>1 DEF ExpandEffect
  <2>3. \A link \in work.links : None \notin link
    BY RoutingAssumption, BuilderFields DEF TypeInv, TypeOK
  <2>4. SwitchedBut(work, source, lane')
    BY <2>2, <2>3 DEF SwitchedBut
  <2> QED  BY <2>2, <2>4
<1>9. CASE NoRoute
  BY <1>9 DEF NoRoute, attempt, searching
<1>10. CASE Walk
  <2> DEFINE from == pred[lane]
  <2>1. WalkEffect(from)
    BY <1>10, WalkDoes
  <2> HIDE DEF from
  <2>2. /\ pc = "search" /\ lane \in seen /\ lane \in Lanes /\ source \in Terminals
        /\ lane \notin work.used
        /\ UNCHANGED <<builder, best, source, seen>>
        /\ lane' = from /\ pc' = (IF from = None THEN "route" ELSE "search")
        /\ HasLane(work', work, source, lane) /\ HasLink(work', work, source, lane, from)
        /\ IsBuilder(work)
    BY <2>1 DEF WalkEffect, TypeInv, TypeOK
  <2>3. Separate(work')
    BY <2>2, SeparateLane
  <2>4. /\ work'.used = work.used \cup {lane}
        /\ \A t \in Terminals :
             work'.holds[t] = IF t = source THEN work.holds[t] \cup {lane} ELSE work.holds[t]
    BY <2>2, BuilderFields DEF HasLane
  <2>5. ASSUME NEW link \in work.links
        PROVE  \E t \in Terminals : link \subseteq work'.holds[t]
    <3>1. PICK t \in Terminals :
            link \subseteq work.holds[t] \cup (IF t = source THEN {lane} ELSE {})
      BY <2>2 DEF SwitchedBut
    <3>2. work'.holds[t] = IF t = source THEN work.holds[t] \cup {lane} ELSE work.holds[t]
      BY <2>4
    <3>3. link \subseteq work'.holds[t]
      BY <3>1, <3>2
    <3> QED  BY <3>3
  <2>6. CASE from = None
    <3>1. work'.links = work.links  BY <2>2, <2>6 DEF HasLink
    <3> QED  BY <2>2, <2>3, <2>5, <2>6, <3>1 DEF Switched
  <2>7. CASE from # None
    <3>1. work'.links = work.links \cup {{lane, from}}  BY <2>2, <2>7 DEF HasLink
    <3>2. SwitchedBut(work', source, from)
      <4>1. lane \in work'.holds[source]  BY <2>2, <2>4
      <4>2. ASSUME NEW link \in work'.links
            PROVE  \E u \in Terminals :
                     link \subseteq work'.holds[u] \cup (IF u = source THEN {from} ELSE {})
        <5>1. CASE link \in work.links
          BY <2>5, <5>1
        <5>2. CASE link = {lane, from}
          <6>1. link \subseteq work'.holds[source] \cup {from}  BY <4>1, <5>2
          <6> QED  BY <2>2, <6>1
        <5> QED  BY <3>1, <5>1, <5>2
      <4> QED  BY <4>2 DEF SwitchedBut
    <3>3. \A l \in seen' : l \in work'.used => l \in work'.holds[source]
      BY <2>2, <2>4
    <3> QED  BY <2>2, <2>3, <2>7, <3>2, <3>3
  <2> QED  BY <2>6, <2>7
<1>11. CASE Joined
  <2>1. Switched(work)
    BY <1>11 DEF Joined, Switched, SwitchedBut
  <2> QED  BY <1>11, <2>1 DEF Joined, attempt, searching
<1> QED
  BY <1>1, <1>2, <1>3, <1>4, <1>5, <1>6, <1>7, <1>8, <1>9, <1>10, <1>11
     DEF Next, Step, Stopped

\* No lane ever carries two signals, and no switch joins lanes of different signals.
THEOREM NoTwoSignals == Spec => []LanesExclusive
<1>1. Init => TypeInv /\ ExclusiveInv
  BY TypeInit, ExclusiveInit
<1>2. TypeInv /\ ExclusiveInv /\ [Next]_vars => TypeInv' /\ ExclusiveInv'
  BY TypeStep, ExclusiveStep
<1>3. TypeInv /\ ExclusiveInv => LanesExclusive
  BY DEF ExclusiveInv, LanesExclusive, NoShort, Walking, Separate, Switched, SwitchedBut
<1> QED  BY <1>1, <1>2, <1>3, PTL DEF Spec

----------------------------------------------------------------------------
(* The cost of an attempt, and what a search has looked at.                 *)

\* The cost is the number of lanes that have been taken, on the way back too.
CostInv ==
  pc \in {"route", "search"} => cost = Cardinality(work.used) - Cardinality(builder.used)

\* The lanes that are taken can be counted.
LEMMA UsedLanes ==
  ASSUME NEW chip, IsBuilder(chip)
  PROVE  IsFiniteSet(chip.used) /\ Cardinality(chip.used) \in Nat
<1>1. IsFiniteSet(chip.used)  BY BuilderFields, SortedLanes
<1> QED  BY <1>1, FS_CardinalityType

\* The cost grows with the lanes.
LEMMA CostStep ==
  ASSUME TypeInv, ExclusiveInv, CostInv, [Next]_vars  PROVE CostInv'
<1> USE DEF CostInv
<1>1. CASE UNCHANGED vars
  BY <1>1 DEF vars, attempt, searching
<1>2. CASE StartSignal \/ Routed \/ Attempted \/ Placed \/ NoRoute
  BY <1>2 DEF StartSignal, Routed, Attempted, Placed, NoRoute
<1>3. CASE TryCell
  <2> DEFINE chip == Place(builder, signal, Head(untried))
  <2>1. /\ builder' = builder
        /\ pc' \in {"try", "route"}
        /\ pc' = "route" => work' = chip /\ cost' = 0
    BY <1>3, Zenon DEF TryCell, attempt
  <2>2. SameLanes(chip, builder)
    <3>1. Head(untried) \in Coords
      BY <1>3, HeadTailProperties DEF TryCell, TypeInv, TypeOK
    <3>2. signal \in Signals /\ IsBuilder(builder)
      BY <1>3, OrderType DEF TryCell, TypeInv, TypeOK, signal
    <3> QED  BY <3>1, <3>2, PlaceType
  <2>3. chip.used = builder.used /\ Cardinality(builder.used) \in Nat
    BY <2>2, UsedLanes DEF SameLanes, TypeInv, TypeOK
  <2> HIDE DEF chip
  <2> QED  BY <2>1, <2>3
<1>4. CASE (\E use \in left : RouteUse(use)) \/ RouteOutput
  <2>1. PICK t \in {signal} \X BOOLEAN, loc \in Coords : RouteEffect(t, loc)
    BY <1>4, RouteDoes
  <2> QED  BY <2>1 DEF RouteEffect, SameLanes
<1>5. CASE Expand
  BY <1>5 DEF Expand, attempt
<1>6. CASE Walk
  <2>1. WalkEffect(pred[lane])
    BY <1>6, WalkDoes
  <2>2. /\ pc = "search" /\ lane \in seen /\ lane \notin work.used
        /\ builder' = builder /\ cost' = cost + 1
        /\ work'.used = work.used \cup {lane}
    BY <2>1 DEF WalkEffect, ExclusiveInv, HasLane
  <2>3. /\ IsFiniteSet(work.used) /\ Cardinality(work.used) \in Nat
        /\ Cardinality(builder.used) \in Nat
    BY UsedLanes DEF TypeInv, TypeOK
  <2>4. Cardinality(work'.used) = Cardinality(work.used) + 1
    BY <2>2, <2>3, FS_AddElement
  <2> QED  BY <2>2, <2>3, <2>4
<1>7. CASE Joined
  BY <1>7 DEF Joined, attempt
<1> QED
  BY <1>1, <1>2, <1>3, <1>4, <1>5, <1>6, <1>7 DEF Next, Step, Stopped

\* The cost that is compared is the number of lanes the attempt has taken.
THEOREM CostCountsLanes == Spec => []CostIsLanes
<1>1. Init => TypeInv /\ ExclusiveInv /\ CostInv
  BY TypeInit, ExclusiveInit DEF Init, CostInv
<1>2. TypeInv /\ ExclusiveInv /\ CostInv /\ [Next]_vars => TypeInv' /\ ExclusiveInv' /\ CostInv'
  BY TypeStep, ExclusiveStep, CostStep
<1>3. CostInv => CostIsLanes
  BY DEF CostInv, CostIsLanes
<1> QED  BY <1>1, <1>2, <1>3, PTL DEF Spec

\* As long as the target has not been reached, it is not on a lane that has been seen, and
\* the queue has the lanes whose neighbours may not have been.
Explored(l) ==
  \A m \in Elements(Steps(work, l)) : m \in seen \cup work.used
SearchInv ==
  pc = "search" /\ lane = None =>
    \A l \in seen : NodeOf(l) # target /\ (l \in Elements(queue) \/ Explored(l))

\* Every step keeps the search whole.
LEMMA SearchStep ==
  ASSUME TypeInv, SearchInv, [Next]_vars  PROVE SearchInv'
<1> USE DEF SearchInv
<1>1. CASE UNCHANGED vars
  BY <1>1 DEF vars, attempt, searching, Explored, Steps, Linked
<1>2. CASE StartSignal \/ Routed \/ TryCell \/ Attempted \/ Placed \/ NoRoute \/ Joined
  BY <1>2 DEF StartSignal, Routed, TryCell, Attempted, Placed, NoRoute, Joined, attempt
<1>3. CASE (\E use \in left : RouteUse(use)) \/ RouteOutput
  <2>1. PICK t \in {signal} \X BOOLEAN, loc \in Coords : RouteEffect(t, loc)
    BY <1>3, RouteDoes
  <2>2. pc' = "search" /\ lane' = None =>
          \A l \in seen' : NodeOf(l) # target' /\ l \in Elements(queue')
    BY <2>1 DEF RouteEffect, Started
  <2> QED  BY <2>2
<1>4. CASE Expand
  <2>1. PICK from, fresh : ExpandEffect(from, fresh)
    BY <1>4, ExpandDoes
  <2> USE <2>1 DEF ExpandEffect
  <2>2. ASSUME NEW l \in seen', lane' = None
        PROVE  NodeOf(l) # target' /\ (l \in Elements(queue') \/ Explored(l)')
    <3>1. NodeOf(l) # target'
      BY <2>2
    <3>2. CASE l \in fresh
      BY <3>1, <3>2
    <3>3. CASE l = from
      <4>1. Explored(l)'  BY <3>3 DEF Explored
      <4> QED  BY <3>1, <4>1
    <3>4. CASE l \in seen /\ l # from
      <4>1. l \in Elements(Tail(queue)) \/ Explored(l)
        BY <3>4
      <4>2. Explored(l) => Explored(l)'
        BY DEF Explored
      <4> QED  BY <3>1, <4>1, <4>2
    <3> QED  BY <2>2, <3>2, <3>3, <3>4
  <2> QED  BY <2>2
<1>5. CASE Walk
  <2>1. WalkEffect(pred[lane])
    BY <1>5, WalkDoes
  <2> QED  BY <2>1 DEF WalkEffect
<1> QED
  BY <1>1, <1>2, <1>3, <1>4, <1>5 DEF Next, Step, Stopped

\* A search that gives up has seen every lane that can be reached, and none at the target.
THEOREM SearchesWhole == Spec => []SearchComplete
<1>1. Init => TypeInv /\ SearchInv
  BY TypeInit DEF Init, SearchInv
<1>2. TypeInv /\ SearchInv /\ [Next]_vars => TypeInv' /\ SearchInv'
  BY TypeStep, SearchStep
<1>3. SearchInv => SearchComplete
  <2>1. Elements(<< >>) = {}
    BY DEF Elements
  <2> QED  BY <2>1 DEF SearchInv, SearchComplete, Explored
<1> QED  BY <1>1, <1>2, <1>3, PTL DEF Spec

----------------------------------------------------------------------------
(* Every lane that holds a signal is connected to the pin that drives it.   *)

\* The signals after the first n positions are on no cell.
Unplaced(chip, n) == \A i \in DOMAIN Order : i > n => chip.cells[Order[i]] = None

\* The lanes of a terminal are connected to a pin of its cell.
Wired(chip, t) ==
  /\ chip.holds[t] = {} => chip.drives[t] = None
  /\ chip.holds[t] # {} => /\ chip.drives[t] \in chip.holds[t]
                           /\ NodeOf(chip.drives[t]) = chip.cells[t[1]]
                           /\ Connected(chip, t)

\* The lanes that held the signal when the search began are connected, and those that have
\* been taken since lead one to the other up to the one the way back is about to take.
Old == seen \ DOMAIN pred
Threaded ==
  /\ work.holds[source] \subseteq seen
  /\ \A l \in DOMAIN pred : pred[l] = None =>
       Old = {} /\ NodeOf(l) = work.cells[source[1]]
  /\ Old = {} => work.drives[source] = None
  /\ Old # {} => /\ work.drives[source] \in Old
                 /\ NodeOf(work.drives[source]) = work.cells[source[1]]
  /\ \A part \in SUBSET Old : work.drives[source] \in part /\ part # Old =>
       \E l \in part, m \in Old \ part : {l, m} \in work.links
  /\ \A l \in work.holds[source] \ Old :
       /\ pred[l] # None /\ {l, pred[l]} \in work.links
       /\ pred[l] \in work.holds[source] \cup {lane}

\* The search has reached no lane by way of itself.
Ranks(rank) ==
  /\ rank \in [Lanes -> Nat]
  /\ \A l \in DOMAIN pred : pred[l] \in DOMAIN pred => rank[pred[l]] < rank[l]

WiredInv ==
  /\ Unplaced(builder, next - 1) /\ \A t \in Terminals : Wired(builder, t)
  /\ pc \in {"try", "route", "search"} /\ best # None =>
       Unplaced(best.chip, next) /\ \A t \in Terminals : Wired(best.chip, t)
  /\ pc \in {"route", "search"} => Unplaced(work, next)
  /\ pc = "route" => \A t \in Terminals : Wired(work, t)
  /\ pc = "search" => /\ \A t \in Terminals \ {source} : Wired(work, t)
                      /\ Threaded
                      /\ \E rank : Ranks(rank)

\* No part of a set has the drive and no switch to the rest of it.
Joint(H, links, drive) ==
  \A part \in SUBSET H : drive \in part /\ part # H =>
    \E l \in part, m \in H \ part : {l, m} \in links

\* The lanes of H lead one to the other, with falling ranks, to the core or the drive.
LeadsBack(H, core, links, drive, prev, rank) ==
  \A l \in H \ core :
    \/ l = drive
    \/ /\ prev[l] \in H /\ {l, prev[l]} \in links
       /\ prev[l] \in core \/ rank[prev[l]] < rank[l]

\* Lanes that lead one to the other, and at last to connected ones, are connected.
LEMMA Chained ==
  ASSUME NEW H \in SUBSET Lanes, NEW core \in SUBSET H, NEW links, NEW drive \in H,
         NEW prev, NEW rank \in [Lanes -> Nat],
         core # {} => drive \in core,
         Joint(core, links, drive), LeadsBack(H, core, links, drive, prev, rank)
  PROVE  Joint(H, links, drive)
<1> SUFFICES ASSUME NEW part \in SUBSET H, drive \in part, part # H
             PROVE  \E l \in part, m \in H \ part : {l, m} \in links
  BY DEF Joint
<1>1. CASE core \subseteq part
  <2> DEFINE rest == H \ part
             ranks == {rank[l] : l \in rest}
  <2>1. ranks \in SUBSET Nat /\ ranks # {}
    <3>1. rest # {} /\ \A l \in rest : l \in Lanes  OBVIOUS
    <3>2. \A l \in Lanes : rank[l] \in Nat  OBVIOUS
    <3> HIDE DEF rest
    <3> QED  BY <3>1, <3>2
  <2>2. PICK n \in ranks : \A k \in ranks : n <= k
    <3> HIDE DEF ranks
    <3> QED  BY <2>1, LeastElement
  <2>3. PICK m \in rest : rank[m] = n
    BY <2>2
  <2>4. \A l \in rest : rank[l] \in Nat /\ rank[m] \in Nat /\ rank[m] <= rank[l]
    BY <2>2, <2>3
  <2>5. /\ prev[m] \in H /\ {m, prev[m]} \in links
        /\ prev[m] \in core \/ rank[prev[m]] < rank[m]
    BY <1>1, <2>3 DEF LeadsBack
  <2>6. prev[m] \notin rest
    BY <1>1, <2>4, <2>5
  <2>7. prev[m] \in part /\ {prev[m], m} \in links
    <3>1. {prev[m], m} = {m, prev[m]}  OBVIOUS
    <3> QED  BY <2>5, <2>6, <3>1
  <2> QED  BY <2>3, <2>7
<1>2. CASE ~ (core \subseteq part)
  <2>1. /\ drive \in part \cap core /\ part \cap core # core
        /\ part \cap core \in SUBSET core
    BY <1>2
  <2>2. PICK l \in part \cap core, m \in core \ (part \cap core) : {l, m} \in links
    BY <2>1 DEF Joint
  <2> QED  BY <2>2
<1> QED  BY <1>1, <1>2

\* What is wired stays so when cells are taken by other signals and switches are set.
LEMMA WiredSame ==
  ASSUME NEW new, NEW chip, NEW t \in Terminals, Wired(chip, t),
         new.holds[t] = chip.holds[t], new.drives[t] = chip.drives[t],
         chip.links \subseteq new.links,
         chip.holds[t] # {} => new.cells[t[1]] = chip.cells[t[1]]
  PROVE  Wired(new, t)
BY DEF Wired, Connected

\* The empty chip has nothing to connect.
LEMMA WiredInit ==
  ASSUME Init  PROVE WiredInv
<1>1. /\ \A t \in Terminals : EmptyChip.holds[t] = {} /\ EmptyChip.drives[t] = None
      /\ \A s \in Signals : EmptyChip.cells[s] = None
  BY DEF EmptyChip
<1>2. \A t \in Terminals : Wired(EmptyChip, t)
  BY <1>1 DEF Wired
<1>3. \A i \in DOMAIN Order : Order[i] \in Signals
  BY OrderType DEF Init
<1>4. Unplaced(EmptyChip, next - 1)
  BY <1>1, <1>3 DEF Unplaced
<1> QED  BY <1>2, <1>4 DEF Init, WiredInv

\* A signal that is on no cell holds no lane.
LEMMA UnplacedHoldNone ==
  ASSUME NEW chip, IsBuilder(chip), NEW t \in Terminals, Wired(chip, t), chip.cells[t[1]] = None
  PROVE  chip.holds[t] = {}
<1> SUFFICES ASSUME chip.holds[t] # {}  PROVE FALSE
  OBVIOUS
<1>1. chip.drives[t] \in Lanes /\ NodeOf(chip.drives[t]) = None
  BY BuilderFields DEF Wired
<1>2. NodeOf(chip.drives[t]) \in Coords
  BY <1>1 DEF NodeOf, Lanes, Coords
<1> QED  BY <1>1, <1>2, RoutingAssumption

\* The signal that is placed has no lanes yet.
LEMMA WiredPlace ==
  ASSUME TypeInv, WiredInv, pc = "try", NEW loc \in Coords
  PROVE  /\ Unplaced(Place(builder, signal, loc), next)
         /\ \A t \in Terminals : Wired(Place(builder, signal, loc), t)
<1> DEFINE chip == Place(builder, signal, loc)
<1>1. /\ IsBuilder(builder) /\ signal \in Signals /\ next \in DOMAIN Order
      /\ Order \in Seq(Signals) /\ Len(Order) \in Nat /\ DOMAIN Order = 1 .. Len(Order)
      /\ IsCluster(cluster)
  BY OrderType DEF TypeInv, TypeOK, signal
<1>2. HasPlaced(chip, builder, signal, loc) /\ SameLanes(chip, builder)
  BY <1>1, PlaceType
<1> HIDE DEF chip
<1>3. \A s \in Signals : chip.cells[s] = IF s = signal THEN loc ELSE builder.cells[s]
  BY <1>1, <1>2, BuilderFields DEF HasPlaced
<1>4. builder.cells[signal] = None
  <2>1. next > next - 1  BY <1>1
  <2> QED  BY <1>1, <2>1 DEF WiredInv, Unplaced, signal
<1>5. ASSUME NEW t \in Terminals
      PROVE  Wired(chip, t)
  <2>1. Wired(builder, t) /\ t[1] \in Signals
    BY DEF WiredInv, Terminals
  <2>2. builder.holds[t] # {} => t[1] # signal
    BY <1>1, <1>4, <2>1, UnplacedHoldNone
  <2> QED  BY <1>2, <1>3, <2>1, <2>2, WiredSame DEF SameLanes
<1>6. Unplaced(chip, next)
  <2> SUFFICES ASSUME NEW i \in DOMAIN Order, i > next
               PROVE  chip.cells[Order[i]] = None
    BY DEF Unplaced
  <2>1. Order[i] \in Signals /\ i > next - 1
    BY <1>1
  <2>2. Order[i] # signal
    <3>1. \A k, m \in DOMAIN Order : Order[k] = Order[m] => k = m
      BY <1>1, Zenon DEF IsCluster, Order, Placement
    <3>2. i # next  BY <1>1
    <3> QED  BY <1>1, <3>1, <3>2 DEF signal
  <2>3. builder.cells[Order[i]] = None
    BY <2>1 DEF WiredInv, Unplaced
  <2> QED  BY <1>3, <2>1, <2>2, <2>3
<1> QED  BY <1>5, <1>6 DEF chip

\* Every step keeps the lanes wired.
LEMMA WiredStep ==
  ASSUME TypeInv, WiredInv, [Next]_vars  PROVE WiredInv'
<1>1. CASE UNCHANGED vars
  <2>1. UNCHANGED <<cluster, pc, builder, next, best, work, source, lane, seen, pred>>
    BY <1>1 DEF vars, attempt, searching
  <2>2. Order' = Order
    BY <2>1 DEF Order
  <2>3. pc = "search" => Threaded'
    BY <2>1 DEF WiredInv, Threaded, Old
  <2>4. pc = "search" => (\E rank : Ranks(rank))'
    <3> SUFFICES ASSUME pc = "search"  PROVE (\E rank : Ranks(rank))'
      OBVIOUS
    <3>1. PICK rank : Ranks(rank)
      BY DEF WiredInv
    <3>2. Ranks(rank)'
      BY <2>1, <3>1 DEF Ranks
    <3> QED  BY <3>2
  <2> QED  BY <2>1, <2>2, <2>3, <2>4 DEF WiredInv, Unplaced
<1>2. CASE StartSignal
  BY <1>2 DEF StartSignal, attempt, searching, WiredInv, Unplaced, Order
<1>3. CASE Routed
  BY <1>3 DEF Routed, attempt, searching, WiredInv, Unplaced, Order
<1>4. CASE TryCell
  <2> DEFINE chip == Place(builder, signal, Head(untried))
  <2>1. /\ builder' = builder /\ best' = best /\ cluster' = cluster /\ next' = next
        /\ pc = "try" /\ pc' \in {"try", "route"}
        /\ pc' = "route" => work' = chip
        /\ Order' = Order
    BY <1>4, Zenon DEF TryCell, attempt, Order
  <2>2. Head(untried) \in Coords
    BY <1>4, HeadTailProperties DEF TryCell, TypeInv, TypeOK
  <2>3. Unplaced(chip, next) /\ \A t \in Terminals : Wired(chip, t)
    BY <2>1, <2>2, WiredPlace
  <2> HIDE DEF chip
  <2> QED  BY <2>1, <2>3 DEF WiredInv, Unplaced
<1>5. CASE Attempted
  BY <1>5 DEF Attempted, attempt, searching, WiredInv, Unplaced, Order
<1>6. CASE Placed
  <2>1. /\ pc = "try" /\ pc' \in {"next", "failed"} /\ cluster' = cluster /\ Order' = Order
        /\ \/ builder' = builder /\ next' = next
           \/ best # None /\ builder' = best.chip /\ next' = next + 1
    BY <1>6 DEF Placed, Order
  <2>2. next \in Nat
    BY OrderType DEF TypeInv, TypeOK
  <2>3. (next + 1) - 1 = next
    BY <2>2
  <2>4. Unplaced(builder', next' - 1) /\ \A t \in Terminals : Wired(builder', t)
    BY <2>1, <2>3 DEF WiredInv
  <2> QED  BY <2>1, <2>4 DEF WiredInv, Unplaced
<1>7. CASE (\E use \in left : RouteUse(use)) \/ RouteOutput
  <2>1. PICK t \in {signal} \X BOOLEAN, loc \in Coords : RouteEffect(t, loc)
    BY <1>7, RouteDoes
  <2>2. /\ pc = "route" /\ builder' = builder /\ best' = best /\ next' = next
        /\ SameLanes(work', work) /\ work'.cells = work.cells
        /\ source' = t /\ pc' \in {"route", "search"} /\ Order' = Order
    BY <2>1 DEF RouteEffect, Started
  <2>3. \A u \in Terminals : Wired(work', u)
    BY <2>2, WiredSame DEF SameLanes, WiredInv
  <2>4. t \in Terminals
    BY <2>2, OrderType DEF TypeInv, TypeOK, Terminals, signal
  <2>5. ASSUME pc' = "search"
        PROVE  Threaded' /\ (\E rank : Ranks(rank))'
    <3>1. /\ \A l \in DOMAIN pred' : pred'[l] = None
          /\ IF work.holds[t] = {}
             THEN /\ DOMAIN pred' = seen'
                  /\ \A l \in seen' : l \notin work.used /\ NodeOf(l) = work.cells[t[1]]
             ELSE /\ DOMAIN pred' = {} /\ seen' = work.holds[t] /\ lane' = None
          /\ DOMAIN pred' \in SUBSET Lanes
      BY <2>1, <2>5 DEF RouteEffect, Started
    <3>2. Wired(work, t)
      BY <2>2, <2>4 DEF WiredInv
    <3>3. work'.holds = work.holds /\ work'.drives = work.drives /\ work'.links = work.links
      BY <2>2 DEF SameLanes
    <3>4. Ranks([l \in Lanes |-> 0])'
      BY <3>1, RoutingAssumption DEF Ranks
    <3>5. CASE work.holds[t] = {}
      BY <2>2, <3>1, <3>2, <3>3, <3>4, <3>5 DEF Threaded, Old, Wired
    <3>6. CASE work.holds[t] # {}
      <4>1. Old' = work.holds[t]
        BY <3>1, <3>6 DEF Old
      <4> QED  BY <2>2, <3>1, <3>2, <3>3, <3>4, <3>6, <4>1 DEF Threaded, Wired, Connected
    <3> QED  BY <3>5, <3>6
  <2> QED  BY <2>2, <2>3, <2>5 DEF WiredInv, Unplaced
<1>8. CASE Expand
  <2>1. PICK from, fresh : ExpandEffect(from, fresh)
    BY <1>8, ExpandDoes
  <2>2. PICK rank : Ranks(rank)
    BY <2>1 DEF ExpandEffect, WiredInv
  <2>3. /\ pc = "search" /\ lane = None /\ from \in seen /\ from \in Lanes
        /\ fresh \cap seen = {} /\ fresh \subseteq Lanes
        /\ seen' = seen \cup fresh
        /\ DOMAIN pred' = fresh \cup DOMAIN pred
        /\ \A l \in DOMAIN pred' : pred'[l] = IF l \in fresh THEN from ELSE pred[l]
        /\ UNCHANGED <<cluster, pc, builder, next, best, work, source>>
        /\ Order' = Order
    BY <2>1 DEF ExpandEffect
  <2>4. /\ DOMAIN pred \subseteq seen
        /\ \A l \in DOMAIN pred : pred[l] \in seen \cup {None}
        /\ source \in Terminals /\ None \notin Lanes
        /\ work.holds[source] \subseteq Lanes
    <3>1. source \in Terminals
      BY <2>3, OrderType DEF TypeInv, TypeOK, Searching, Terminals, signal
    <3> QED  BY <2>3, <3>1, RoutingAssumption, BuilderFields DEF TypeInv, TypeOK, Searching
  <2>5. Old' = Old
    BY <2>3, <2>4 DEF Old
  <2>6. Threaded
    BY <2>3 DEF WiredInv
  <2>7. Threaded'
    <3>1. work.holds[source] \subseteq seen'
      BY <2>3, <2>6 DEF Threaded
    <3>2. \A l \in DOMAIN pred' : pred'[l] = None =>
            Old = {} /\ NodeOf(l) = work.cells[source[1]]
      BY <2>3, <2>4, <2>6 DEF Threaded
    <3>3. ASSUME NEW l \in work.holds[source] \ Old
          PROVE  /\ pred'[l] # None /\ {l, pred'[l]} \in work.links
                 /\ pred'[l] \in work.holds[source] \cup {lane'}
      <4>1. l \in seen /\ l \in DOMAIN pred
        BY <2>6 DEF Threaded, Old
      <4>2. pred'[l] = pred[l]
        BY <2>3, <4>1
      <4> QED  BY <2>3, <2>6, <4>2 DEF Threaded
    <3> QED  BY <2>3, <2>5, <2>6, <3>1, <3>2, <3>3 DEF Threaded
  <2>8. (\E r : Ranks(r))'
    <3> DEFINE new == [l \in Lanes |-> IF l \in fresh THEN rank[from] + 1 ELSE rank[l]]
    <3>1. rank \in [Lanes -> Nat] /\ rank[from] \in Nat
      BY <2>2, <2>3 DEF Ranks
    <3>2. new \in [Lanes -> Nat]
      BY <3>1
    <3>3. ASSUME NEW l \in DOMAIN pred', pred'[l] \in DOMAIN pred'
          PROVE  new[pred'[l]] < new[l]
      <4>1. l \in Lanes
        BY <2>3, <2>4 DEF TypeInv, TypeOK
      <4>2. CASE l \in fresh
        <5>1. pred'[l] = from /\ from \notin fresh  BY <2>3, <4>2
        <5>2. new[from] = rank[from] /\ new[l] = rank[from] + 1  BY <2>3, <4>1, <4>2, <5>1
        <5> QED  BY <3>1, <5>1, <5>2
      <4>3. CASE l \notin fresh
        <5>1. pred'[l] = pred[l] /\ l \in DOMAIN pred  BY <2>3, <4>3
        <5>2. pred[l] \in seen \cup {None}  BY <2>4, <5>1
        <5>3. pred[l] \in Lanes
          BY <3>3, <2>3, <2>4, <5>1 DEF TypeInv, TypeOK
        <5>4. pred[l] \in seen  BY <2>4, <5>2, <5>3
        <5>5. pred[l] \in DOMAIN pred  BY <3>3, <2>3, <5>1, <5>4
        <5>6. rank[pred[l]] < rank[l]  BY <2>2, <5>1, <5>5 DEF Ranks
        <5>7. new[pred[l]] = rank[pred[l]] /\ new[l] = rank[l]
          BY <2>3, <4>1, <4>3, <5>3, <5>4
        <5> QED  BY <5>1, <5>6, <5>7
      <4> QED  BY <4>2, <4>3
    <3> HIDE DEF new
    <3>4. Ranks(new)'
      BY <3>2, <3>3 DEF Ranks
    <3> QED  BY <3>4
  <2> QED  BY <2>3, <2>7, <2>8 DEF WiredInv, Unplaced
<1>9. CASE NoRoute
  BY <1>9 DEF NoRoute, attempt, searching, WiredInv, Unplaced, Order
<1>10. CASE Walk
  <2> DEFINE from == pred[lane]
  <2>1. WalkEffect(from)
    BY <1>10, WalkDoes
  <2> HIDE DEF from
  <2>2. /\ pc = "search" /\ lane \in Lanes /\ lane \in seen /\ lane \in DOMAIN pred
        /\ source \in Terminals /\ lane \notin work.holds[source] /\ from = pred[lane]
        /\ lane' = from /\ pc' = (IF from = None THEN "route" ELSE "search")
        /\ HasLane(work', work, source, lane) /\ HasLink(work', work, source, lane, from)
        /\ UNCHANGED <<cluster, builder, next, best, source, seen, pred>>
        /\ Order' = Order /\ IsBuilder(work)
    BY <2>1 DEF WalkEffect, TypeInv, TypeOK
  <2>3. /\ work'.cells = work.cells
        /\ work.links \subseteq work'.links
        /\ work'.holds[source] = work.holds[source] \cup {lane}
        /\ \A t \in Terminals \ {source} :
             work'.holds[t] = work.holds[t] /\ work'.drives[t] = work.drives[t]
        /\ work'.drives[source] = IF from = None THEN lane ELSE work.drives[source]
        /\ from # None => {lane, from} \in work'.links
    BY <2>2, BuilderFields DEF HasLane, HasLink
  <2>4. Threaded
    BY <2>2 DEF WiredInv
  <2>5. \A t \in Terminals \ {source} : Wired(work', t)
    BY <2>2, <2>3, WiredSame DEF WiredInv
  <2>6. ASSUME NEW l \in work'.holds[source] \ Old, l # lane
        PROVE  /\ pred[l] # None /\ {l, pred[l]} \in work'.links
               /\ pred[l] \in work'.holds[source]
    BY <2>3, <2>4, <2>6 DEF Threaded
  <2>7. Old' = Old
    BY <2>2 DEF Old
  <2>8. PICK rank : Ranks(rank)
    BY <2>2 DEF WiredInv
  <2>9. Unplaced(builder', next' - 1) /\ \A t \in Terminals : Wired(builder', t)
    BY <2>2 DEF WiredInv
  <2>10. best' # None => Unplaced(best'.chip, next') /\ \A t \in Terminals : Wired(best'.chip, t)
    BY <2>2 DEF WiredInv
  <2>11. Unplaced(work', next')
    BY <2>2, <2>3 DEF WiredInv, Unplaced
  <2>12. CASE from # None
    <3>1. ASSUME NEW l \in work'.holds[source] \ Old
          PROVE  /\ pred[l] # None /\ {l, pred[l]} \in work'.links
                 /\ pred[l] \in work'.holds[source] \cup {lane'}
      BY <2>2, <2>3, <2>6, <2>12
    <3>2. /\ work'.holds[source] \subseteq seen
          /\ work'.drives[source] = work.drives[source]
      BY <2>2, <2>3, <2>4, <2>12 DEF Threaded
    <3>3. \A part \in SUBSET Old : work'.drives[source] \in part /\ part # Old =>
            \E l \in part, m \in Old \ part : {l, m} \in work'.links
      BY <2>3, <2>4, <3>2 DEF Threaded
    <3>4. Threaded'
      <4>1. /\ source' = source /\ seen' = seen /\ pred' = pred /\ work'.cells = work.cells
            /\ Old' = Old
        BY <2>2, <2>3, <2>7
      <4>2. /\ \A l \in DOMAIN pred : pred[l] = None =>
                 Old = {} /\ NodeOf(l) = work'.cells[source[1]]
            /\ Old = {} => work'.drives[source] = None
            /\ Old # {} => /\ work'.drives[source] \in Old
                           /\ NodeOf(work'.drives[source]) = work'.cells[source[1]]
        BY <2>4, <3>2, <4>1 DEF Threaded
      <4> QED  BY <3>1, <3>2, <3>3, <4>1, <4>2 DEF Threaded
    <3>5. Ranks(rank)'
      BY <2>2, <2>8 DEF Ranks
    <3> QED
      BY <2>2, <2>5, <2>9, <2>10, <2>11, <2>12, <3>4, <3>5 DEF WiredInv, Unplaced
  <2>13. CASE from = None
    <3> DEFINE H == work'.holds[source]
    <3>1. Old = {} /\ NodeOf(lane) = work.cells[source[1]]
      BY <2>2, <2>4, <2>13 DEF Threaded
    <3>2. /\ H \in SUBSET Lanes /\ lane \in H
          /\ \A l \in H : l \in seen
      BY <2>2, <2>3, <2>4, BuilderFields DEF Threaded
    <3>3. ASSUME NEW l \in H, l # lane
          PROVE  /\ pred[l] \in H /\ {l, pred[l]} \in work'.links
                 /\ rank[pred[l]] < rank[l]
      <4>1. pred[l] \in H /\ {l, pred[l]} \in work'.links
        BY <2>6, <3>1, <3>3
      <4>2. l \in DOMAIN pred /\ pred[l] \in DOMAIN pred
        BY <3>1, <3>2, <4>1 DEF Old
      <4> QED  BY <2>8, <4>1, <4>2 DEF Ranks
    <3>4. Connected(work', source)
      <4> DEFINE links == work'.links
      <4>1. Joint({}, links, lane)
        BY DEF Joint
      <4>2. LeadsBack(H, {}, links, lane, pred, rank)
        BY <3>3 DEF LeadsBack
      <4>3. rank \in [Lanes -> Nat] /\ {} \in SUBSET H
        BY <2>8 DEF Ranks
      <4>4. Joint(H, links, lane)
        <5> HIDE DEF H, links
        <5> QED  BY <3>2, <4>1, <4>2, <4>3, Chained
      <4>5. work'.drives[source] = lane
        BY <2>3, <2>13
      <4> QED  BY <4>4, <4>5 DEF Joint, Connected
    <3>5. Wired(work', source)
      BY <2>3, <2>13, <3>1, <3>2, <3>4 DEF Wired
    <3> QED
      BY <2>2, <2>5, <2>9, <2>10, <2>11, <2>13, <3>5 DEF WiredInv, Unplaced
  <2> QED  BY <2>12, <2>13
<1>11. CASE Joined
  <2> DEFINE H == work.holds[source]
             drive == work.drives[source]
  <2>1. /\ pc = "search" /\ lane \in H /\ pc' = "route"
        /\ UNCHANGED <<cluster, builder, next, best, work>>
        /\ Order' = Order
    BY <1>11 DEF Joined, attempt, searching, Order
  <2>2. source \in Terminals /\ H \in SUBSET Lanes /\ Old \in SUBSET H
    <3>1. source \in Terminals
      BY <2>1, OrderType DEF TypeInv, TypeOK, Searching, Terminals, signal
    <3>2. \A l \in seen : l \in DOMAIN pred \/ l \in work.holds[source]
      BY <2>1 DEF TypeInv, Searching
    <3> QED  BY <2>1, <3>1, <3>2, BuilderFields DEF TypeInv, TypeOK, Old
  <2>3. Threaded
    BY <2>1 DEF WiredInv
  <2>4. PICK rank : Ranks(rank)
    BY <2>1 DEF WiredInv
  <2>5. ASSUME NEW l \in H \ Old
        PROVE  /\ pred[l] \in H /\ {l, pred[l]} \in work.links
               /\ pred[l] \in Old \/ rank[pred[l]] < rank[l]
    <3>1. pred[l] \in H /\ {l, pred[l]} \in work.links
      BY <2>1, <2>3 DEF Threaded
    <3>2. l \in DOMAIN pred /\ (pred[l] \in Old \/ pred[l] \in DOMAIN pred)
      BY <2>3, <3>1 DEF Threaded, Old
    <3> QED  BY <2>4, <3>1, <3>2 DEF Ranks
  <2>6. Old # {}
    <3> SUFFICES ASSUME Old = {}  PROVE FALSE
      OBVIOUS
    <3> DEFINE ranks == {rank[l] : l \in H}
    <3>1. rank \in [Lanes -> Nat]
      BY <2>4 DEF Ranks
    <3>2. \A l \in H : l \in Lanes /\ rank[l] \in Nat
      BY <2>2, <3>1
    <3>3. ranks \in SUBSET Nat /\ ranks # {}
      BY <2>1, <3>2
    <3>4. PICK n \in ranks : \A k \in ranks : n <= k
      <4> HIDE DEF ranks
      <4> QED  BY <3>3, LeastElement
    <3>5. PICK l \in H : rank[l] = n
      BY <3>4
    <3>6. pred[l] \in H /\ rank[pred[l]] < rank[l]
      BY <2>5, <3>5
    <3>7. rank[l] <= rank[pred[l]]
      BY <3>4, <3>5, <3>6
    <3> QED  BY <3>2, <3>6, <3>7
  <2>7. drive \in Old /\ NodeOf(drive) = work.cells[source[1]]
    BY <2>3, <2>6 DEF Threaded
  <2>8. Connected(work, source)
    <3> DEFINE core == Old
               links == work.links
    <3>1. Joint(core, links, drive)
      BY <2>3 DEF Threaded, Joint
    <3>2. LeadsBack(H, core, links, drive, pred, rank)
      BY <2>5 DEF LeadsBack
    <3>3. rank \in [Lanes -> Nat]
      BY <2>4 DEF Ranks
    <3>4. H \in SUBSET Lanes /\ core \in SUBSET H /\ drive \in core /\ drive \in H
      BY <2>2, <2>7
    <3>5. Joint(H, links, drive)
      <4> HIDE DEF H, core, links, drive
      <4> QED  BY <3>1, <3>2, <3>3, <3>4, Chained
    <3> QED  BY <3>5 DEF Joint, Connected
  <2>9. Wired(work, source)
    BY <2>1, <2>2, <2>7, <2>8 DEF Wired
  <2> QED  BY <2>1, <2>9 DEF WiredInv, Unplaced
<1> QED
  BY <1>1, <1>2, <1>3, <1>4, <1>5, <1>6, <1>7, <1>8, <1>9, <1>10, <1>11 DEF Next, Step, Stopped

\* Whenever the builder has a lane for a signal, the switches lead there from a pin of the
\* cell the signal is on.
THEOREM SignalsConnected == Spec => []Driven
<1>1. Init => TypeInv /\ WiredInv
  BY TypeInit, WiredInit
<1>2. TypeInv /\ WiredInv /\ [Next]_vars => TypeInv' /\ WiredInv'
  BY TypeStep, WiredStep
<1>3. WiredInv => Driven
  BY DEF WiredInv, Wired, Driven
<1> QED  BY <1>1, <1>2, <1>3, PTL DEF Spec

----------------------------------------------------------------------------
(* A routed cluster is realised: what has been placed stays served.         *)

\* No cell has two signals, and none that has one is available.
Apart(chip) ==
  /\ \A s \in Signals : chip.cells[s] \notin chip.free /\ chip.outs[s] \notin chip.free
  /\ \A s, u \in Signals :
       /\ chip.cells[s] # None => chip.cells[s] # chip.outs[u]
       /\ s # u /\ chip.cells[s] # None => chip.cells[s] # chip.cells[u]
       /\ s # u /\ chip.outs[s] # None => chip.outs[s] # chip.outs[u]

\* A cell of c can hold the gate, its readers have it on a lane, and its output cell too.
Suited(c, loc, s) == Resources[loc] \in Elements(GetResources(c.kind[s], Arity(c, s)))
ReadersServed(c, chip, s) ==
  \A g \in Elements(c.gates), p \in BOOLEAN :
    <<s, p>> \in c.reads[g] => At(chip, <<s, p>>, chip.cells[g])
OutputServed(c, chip, s) ==
  s \in c.outputs => chip.outs[s] # None /\ At(chip, <<s, TRUE>>, chip.outs[s])

\* This is so for the first n signals, and those after them have no output cell.
Served(c, chip, n) ==
  \A i \in DOMAIN Placement(c) : i <= n =>
    /\ Suited(c, chip.cells[Placement(c)[i]], Placement(c)[i])
    /\ ReadersServed(c, chip, Placement(c)[i])
    /\ OutputServed(c, chip, Placement(c)[i])
NoOutputs(c, chip, n) ==
  \A i \in DOMAIN Placement(c) : i > n => chip.outs[Placement(c)[i]] = None
Good(c, chip, n) == Apart(chip) /\ Served(c, chip, n) /\ NoOutputs(c, chip, n)

\* A route that is still to be searched, is being searched, or has been found.
Pending(t, loc) ==
  \/ <<t, loc>> \in left
  \/ At(work, t, loc)
  \/ pc = "search" /\ source = t /\ target = loc
Underway ==
  /\ Apart(work) /\ Served(cluster, work, next - 1) /\ NoOutputs(cluster, work, next)
  /\ Suited(cluster, work.cells[signal], signal)
  /\ \A g \in Elements(cluster.gates), p \in BOOLEAN :
       <<signal, p>> \in cluster.reads[g] => Pending(<<signal, p>>, work.cells[g])
  /\ work.outs[signal] # None => Pending(<<signal, TRUE>>, work.outs[signal])

ServedInv ==
  /\ pc = "routed" => next \notin DOMAIN Order
  /\ Good(cluster, builder, next - 1)
  /\ pc \in {"try", "route", "search"} =>
       /\ best # None => Good(cluster, best.chip, next)
       /\ \A loc \in Elements(untried) : loc \in builder.free /\ Suited(cluster, loc, signal)
  /\ pc \in {"route", "search"} => Underway
  /\ pc = "search" /\ lane # None => NodeOf(lane) = target \/ At(work, source, target)

\* What has been served stays so as more cells, outputs and lanes are taken.
LEMMA ServedSame ==
  ASSUME cluster \in Clusters, NEW new, NEW chip, NEW n \in Nat,
         Served(cluster, chip, n),
         \A t \in Terminals : chip.holds[t] \subseteq new.holds[t],
         \A i \in DOMAIN Order : i <= n =>
            /\ new.cells[Order[i]] = chip.cells[Order[i]]
            /\ new.outs[Order[i]] = chip.outs[Order[i]]
  PROVE  Served(cluster, new, n)
<1>1. /\ Order \in Seq(Signals) /\ Len(Order) \in Nat /\ DOMAIN Order = 1 .. Len(Order)
      /\ Order = Placement(cluster)
  BY OrderType DEF Order
<1> SUFFICES ASSUME NEW i \in DOMAIN Order, i <= n
             PROVE  /\ Suited(cluster, new.cells[Order[i]], Order[i])
                    /\ ReadersServed(cluster, new, Order[i])
                    /\ OutputServed(cluster, new, Order[i])
  BY <1>1 DEF Served
<1>2. /\ Suited(cluster, chip.cells[Order[i]], Order[i])
      /\ ReadersServed(cluster, chip, Order[i])
      /\ OutputServed(cluster, chip, Order[i])
  BY <1>1 DEF Served
<1>3. /\ new.cells[Order[i]] = chip.cells[Order[i]]
      /\ new.outs[Order[i]] = chip.outs[Order[i]]
      /\ Order[i] \in Signals
  BY <1>1
<1>4. ASSUME NEW g \in Elements(cluster.gates), NEW p \in BOOLEAN,
             <<Order[i], p>> \in cluster.reads[g]
      PROVE  At(new, <<Order[i], p>>, new.cells[g])
  <2>1. PICK k \in DOMAIN Order : k < i /\ Order[k] = g
    BY <1>4, UsersFirst
  <2>2. k <= n
    BY <1>1, <2>1
  <2>3. new.cells[g] = chip.cells[g]
    BY <2>1, <2>2
  <2>4. At(chip, <<Order[i], p>>, chip.cells[g]) /\ <<Order[i], p>> \in Terminals
    BY <1>2, <1>3, <1>4 DEF ReadersServed, Terminals
  <2> QED  BY <2>3, <2>4 DEF At
<1>5. OutputServed(cluster, new, Order[i])
  <2>1. <<Order[i], TRUE>> \in Terminals  BY <1>3 DEF Terminals
  <2> QED  BY <1>2, <1>3, <2>1 DEF OutputServed, At
<1> QED  BY <1>2, <1>3, <1>4, <1>5 DEF ReadersServed

\* A cell that was available is the signal's alone.
LEMMA ApartPlace ==
  ASSUME NEW chip, NEW new, IsBuilder(chip), Apart(chip), NEW s \in Signals, NEW loc \in chip.free,
         HasPlaced(new, chip, s, loc)
  PROVE  Apart(new)
<1>1. /\ \A u \in Signals : new.cells[u] = IF u = s THEN loc ELSE chip.cells[u]
      /\ new.outs = chip.outs /\ new.free = chip.free \ {loc}
  BY BuilderFields DEF HasPlaced
<1>2. \A u \in Signals : chip.cells[u] # loc /\ chip.outs[u] # loc
  BY DEF Apart
<1>3. \A u \in Signals : new.cells[u] \notin new.free /\ new.outs[u] \notin new.free
  BY <1>1 DEF Apart
<1>4. ASSUME NEW u \in Signals, NEW v \in Signals
      PROVE  /\ new.cells[u] # None => new.cells[u] # new.outs[v]
             /\ u # v /\ new.cells[u] # None => new.cells[u] # new.cells[v]
             /\ u # v /\ new.outs[u] # None => new.outs[u] # new.outs[v]
  BY <1>1, <1>2 DEF Apart
<1> QED  BY <1>3, <1>4 DEF Apart

\* The same of an output cell.
LEMMA ApartOutput ==
  ASSUME NEW chip, NEW new, IsBuilder(chip), Apart(chip), NEW s \in Signals, NEW loc \in chip.free,
         HasOutput(new, chip, s, loc)
  PROVE  Apart(new)
<1>1. /\ \A u \in Signals : new.outs[u] = IF u = s THEN loc ELSE chip.outs[u]
      /\ new.cells = chip.cells /\ new.free = chip.free \ {loc}
  BY BuilderFields DEF HasOutput
<1>2. \A u \in Signals : chip.cells[u] # loc /\ chip.outs[u] # loc
  BY DEF Apart
<1>3. \A u \in Signals : new.cells[u] \notin new.free /\ new.outs[u] \notin new.free
  BY <1>1 DEF Apart
<1>4. ASSUME NEW u \in Signals, NEW v \in Signals
      PROVE  /\ new.cells[u] # None => new.cells[u] # new.outs[v]
             /\ u # v /\ new.cells[u] # None => new.cells[u] # new.cells[v]
             /\ u # v /\ new.outs[u] # None => new.outs[u] # new.outs[v]
  BY <1>1, <1>2 DEF Apart
<1> QED  BY <1>3, <1>4 DEF Apart

\* Nothing is served yet, and nothing has to be.
LEMMA ServedInit ==
  ASSUME Init  PROVE ServedInv
<1>1. /\ \A s \in Signals : EmptyChip.cells[s] = None /\ EmptyChip.outs[s] = None
      /\ EmptyChip.free = Coords
  BY DEF EmptyChip
<1>2. Apart(EmptyChip)
  BY <1>1, RoutingAssumption DEF Apart
<1>3. cluster \in Clusters /\ next = 1 /\ builder = EmptyChip /\ pc = "next"
  BY DEF Init
<1>4. \A i \in DOMAIN Order : Order[i] \in Signals /\ i \in Nat /\ ~ (i <= 0)
  BY <1>3, OrderType
<1>5. Served(cluster, EmptyChip, 0) /\ NoOutputs(cluster, EmptyChip, 0)
  BY <1>1, <1>4 DEF Served, NoOutputs, Order
<1> QED  BY <1>2, <1>3, <1>5 DEF ServedInv, Good

\* Every step keeps what is served.
LEMMA ServedStep ==
  ASSUME TypeInv, ServedInv, [Next]_vars  PROVE ServedInv'
<1>1. /\ cluster \in Clusters /\ next \in Nat /\ IsBuilder(builder) /\ IsBuilder(work)
      /\ Order \in Seq(Signals) /\ Len(Order) \in Nat /\ DOMAIN Order = 1 .. Len(Order)
      /\ Order = Placement(cluster)
      /\ IsCluster(cluster)
  BY OrderType DEF TypeInv, TypeOK, Order
<1>2. /\ next \in DOMAIN Order => signal \in Signals /\ next - 1 \in Nat
      /\ next \in Nat /\ next = (next + 1) - 1
  BY <1>1 DEF signal
<1>3. CASE UNCHANGED vars
  <2>1. UNCHANGED <<cluster, pc, builder, next, untried, best, work, left, source, target, lane>>
    BY <1>3 DEF vars, attempt, searching
  <2>2. Order' = Order /\ signal' = signal
    BY <2>1 DEF Order, signal
  <2>3. pc \in {"route", "search"} => Underway'
    BY <2>1, <2>2 DEF ServedInv, Underway, Pending
  <2> QED  BY <2>1, <2>2, <2>3 DEF ServedInv
<1>4. CASE StartSignal
  <2>1. /\ pc' = "try" /\ untried' = Candidates(signal) /\ best' = None
        /\ cluster' = cluster /\ builder' = builder /\ next' = next /\ signal' = signal
        /\ next \in DOMAIN Order
    BY <1>4 DEF StartSignal, Order, signal
  <2>2. ASSUME NEW loc \in Elements(untried')
        PROVE  loc \in builder.free /\ Suited(cluster, loc, signal)
    <3>1. PICK k \in DOMAIN Candidates(signal) : Candidates(signal)[k] = loc
      BY <2>1 DEF Elements
    <3>2. PICK i \in DOMAIN TypesOf(signal) : loc \in Available(builder, TypesOf(signal)[i])
      BY <1>1, <3>1, CandidatesType
    <3> QED  BY <3>2 DEF Available, Suited, TypesOf, Elements
  <2> QED  BY <2>1, <2>2 DEF ServedInv
<1>5. CASE Routed
  BY <1>5 DEF Routed, attempt, searching, ServedInv, Order
<1>6. CASE NoRoute
  <2>1. /\ pc = "search" /\ pc' = "try" /\ untried' = Tail(untried)
        /\ UNCHANGED <<cluster, builder, next, best>> /\ signal' = signal
    BY <1>6 DEF NoRoute, Order, signal
  <2>2. Elements(untried') \subseteq Elements(untried)
    BY <2>1, HeadAndTail DEF TypeInv, TypeOK, Attempting
  <2> QED  BY <2>1, <2>2 DEF ServedInv
<1>7. CASE Attempted
  <2>1. /\ pc = "route" /\ pc' = "try" /\ untried' = Tail(untried) /\ left = {} /\ ~ NeedsOutput
        /\ best' = best \/ best' = [cost |-> cost, chip |-> work]
        /\ UNCHANGED <<cluster, builder, next>> /\ signal' = signal
    BY <1>7 DEF Attempted, Order, signal
  <2>2. Elements(untried') \subseteq Elements(untried)
    BY <2>1, HeadAndTail DEF TypeInv, TypeOK, Attempting
  <2>3. Underway /\ next \in DOMAIN Order
    BY <2>1 DEF ServedInv, TypeInv
  <2>4. /\ Suited(cluster, work.cells[signal], signal)
        /\ ReadersServed(cluster, work, signal)
        /\ OutputServed(cluster, work, signal)
    BY <2>1, <2>3 DEF Underway, Pending, ReadersServed, OutputServed, NeedsOutput
  <2>5. Served(cluster, work, next)
    <3>1. \A i \in DOMAIN Order : i <= next => i <= next - 1 \/ Order[i] = signal
      BY <1>1, <1>2 DEF signal
    <3> QED  BY <1>1, <2>3, <2>4, <3>1 DEF Underway, Served
  <2>6. Good(cluster, work, next)
    BY <2>3, <2>5 DEF Underway, Good
  <2> QED  BY <2>1, <2>2, <2>6 DEF ServedInv
<1>8. CASE Placed
  <2>1. /\ pc = "try" /\ pc' \in {"next", "failed"} /\ cluster' = cluster /\ Order' = Order
        /\ \/ builder' = builder /\ next' = next
           \/ best # None /\ builder' = best.chip /\ next' = next + 1
    BY <1>8 DEF Placed, Order
  <2> QED  BY <1>2, <2>1 DEF ServedInv
<1>9. CASE TryCell
  <2> DEFINE loc == Head(untried)
             chip == Place(builder, signal, loc)
  <2>1. /\ pc = "try" /\ untried # << >> /\ next \in DOMAIN Order
        /\ UNCHANGED <<cluster, builder, next, best>>
        /\ signal' = signal /\ Order' = Order
        /\ \/ /\ pc' = "route" /\ work' = chip /\ left' = Uses(signal, chip)
              /\ untried' = untried
           \/ pc' = "try" /\ untried' = Tail(untried)
    BY <1>9, Zenon DEF TryCell, TypeInv, Order, signal
  <2>2. /\ loc \in Elements(untried) /\ Elements(Tail(untried)) \subseteq Elements(untried)
        /\ untried \in Seq(Coords)
    BY <2>1, HeadAndTail DEF TypeInv, TypeOK
  <2>3. loc \in builder.free /\ loc \in Coords /\ Suited(cluster, loc, signal)
    BY <1>1, <2>1, <2>2, BuilderFields DEF ServedInv
  <2>4. IsBuilder(chip) /\ HasPlaced(chip, builder, signal, loc) /\ SameLanes(chip, builder)
    BY <1>1, <1>2, <2>1, <2>3, PlaceType
  <2>5. Good(cluster, builder, next - 1)
    BY DEF ServedInv
  <2> HIDE DEF loc, chip
  <2>6. Apart(chip)
    BY <1>1, <1>2, <2>1, <2>3, <2>4, <2>5, ApartPlace DEF Good
  <2>7. /\ \A s \in Signals : chip.cells[s] = IF s = signal THEN loc ELSE builder.cells[s]
        /\ chip.outs = builder.outs /\ chip.holds = builder.holds
    BY <1>1, <2>4, BuilderFields DEF HasPlaced, SameLanes
  <2>8. Served(cluster, chip, next - 1)
    <3>1. ASSUME NEW i \in DOMAIN Order, i <= next - 1
          PROVE  chip.cells[Order[i]] = builder.cells[Order[i]]
      <4>1. Order[i] # signal
        <5>1. \A k, m \in DOMAIN Order : Order[k] = Order[m] => k = m
          BY <1>1, Zenon DEF IsCluster
        <5>2. i # next  BY <1>1, <3>1
        <5> QED  BY <2>1, <5>1, <5>2 DEF signal
      <4>2. Order[i] \in Signals
        BY <1>1
      <4> QED  BY <2>7, <4>1, <4>2
    <3> QED  BY <1>1, <1>2, <2>1, <2>5, <2>7, <3>1, ServedSame DEF Good
  <2>9. /\ NoOutputs(cluster, chip, next) /\ chip.outs[signal] = None
    <3>1. \A i \in DOMAIN Order : i >= next => builder.outs[Order[i]] = None
      <4>1. \A i \in DOMAIN Order : i >= next => i > next - 1
        BY <1>1
      <4> QED  BY <1>1, <2>5, <4>1 DEF Good, NoOutputs
    <3>2. \A i \in DOMAIN Order : i > next => i >= next
      BY <1>1
    <3> QED  BY <1>1, <2>1, <2>7, <3>1, <3>2 DEF NoOutputs, signal
  <2>10. chip.cells[signal] = loc
    BY <1>2, <2>1, <2>7
  <2>11. ASSUME pc' = "route"
         PROVE  Underway'
    <3>1. work' = chip /\ left' = Uses(signal, chip)
      BY <2>1, <2>11
    <3>2. \A g \in Elements(cluster.gates), p \in BOOLEAN :
            <<signal, p>> \in cluster.reads[g] =>
              << <<signal, p>>, chip.cells[g]>> \in Uses(signal, chip)
      <4> SUFFICES ASSUME NEW g \in Elements(cluster.gates), NEW p \in BOOLEAN,
                          <<signal, p>> \in cluster.reads[g]
                   PROVE  << <<signal, p>>, chip.cells[g]>> \in Uses(signal, chip)
        OBVIOUS
      <4> DEFINE u == << <<signal, p>>, g>>
      <4>1. /\ u \in ({signal} \X BOOLEAN) \X Elements(cluster.gates)
            /\ u[1] = <<signal, p>> /\ u[2] = g
        OBVIOUS
      <4> HIDE DEF u
      <4> QED  BY <4>1 DEF Uses
    <3>3. \A g \in Elements(cluster.gates), p \in BOOLEAN :
            <<signal, p>> \in cluster.reads[g] => (Pending(<<signal, p>>, work.cells[g]))'
      BY <2>1, <3>1, <3>2 DEF Pending
    <3> QED
      BY <2>1, <2>3, <2>6, <2>8, <2>9, <2>10, <3>1, <3>3 DEF Underway
  <2>12. \A l \in Elements(untried') : l \in Elements(untried)
    BY <2>1, <2>2
  <2> QED  BY <2>1, <2>5, <2>11, <2>12 DEF ServedInv
<1>10. CASE (\E use \in left : RouteUse(use)) \/ RouteOutput
  <2>1. PICK t \in {signal} \X BOOLEAN, loc \in Coords : RouteEffect(t, loc)
    BY <1>10, RouteDoes
  <2>2. /\ pc = "route" /\ pc' \in {"route", "search"} /\ next \in DOMAIN Order
        /\ UNCHANGED <<cluster, builder, next, untried, best>>
        /\ Order' = Order /\ signal' = signal
        /\ work'.holds = work.holds /\ work'.cells = work.cells /\ IsBuilder(work')
        /\ source' = t /\ target' = loc
        /\ pc' = "route" => At(work, t, loc)
        /\ pc' = "search" => (lane' # None => NodeOf(lane') = loc)
    BY <2>1 DEF RouteEffect, Started, SameLanes, TypeInv
  <2>3. Underway
    BY <2>2 DEF ServedInv
  <2>4. (Pending(t, loc))'
    BY <2>2 DEF Pending, At
  <2>5. ASSUME NEW u, NEW l, Pending(u, l)
        PROVE  (Pending(u, l))'
    BY <2>1, <2>2, <2>4, <2>5 DEF Pending, At, RouteEffect, UseTaken, OutputTakenFor
  <2>6. \A g \in Elements(cluster.gates), p \in BOOLEAN :
          <<signal, p>> \in cluster.reads[g] => (Pending(<<signal, p>>, work.cells[g]))'
    BY <2>2, <2>3, <2>5 DEF Underway
  <2>7. CASE UseTaken(t, loc)
    <3>1. work' = work  BY <2>7 DEF UseTaken
    <3>2. Underway'
      BY <2>2, <2>3, <2>5, <2>6, <3>1 DEF Underway
    <3> QED  BY <2>2, <3>2 DEF ServedInv
  <2>8. CASE OutputTakenFor(t, loc)
    <3>1. /\ t = <<signal, TRUE>> /\ loc \in work.free /\ HasOutput(work', work, signal, loc)
      BY <2>8 DEF OutputTakenFor, Available
    <3>2. Apart(work')
      BY <1>1, <1>2, <2>2, <2>3, <3>1, ApartOutput DEF Underway
    <3>3. /\ \A s \in Signals : work'.outs[s] = IF s = signal THEN loc ELSE work.outs[s]
      BY <1>1, <3>1, BuilderFields DEF HasOutput
    <3>4. \A k, m \in DOMAIN Order : Order[k] = Order[m] => k = m
      BY <1>1, Zenon DEF IsCluster
    <3>5. Served(cluster, work', next - 1)
      <4>1. ASSUME NEW i \in DOMAIN Order, i <= next - 1
            PROVE  work'.outs[Order[i]] = work.outs[Order[i]]
        <5>1. i # next  BY <1>1, <4>1
        <5>2. Order[i] # signal  BY <2>2, <3>4, <5>1 DEF signal
        <5> QED  BY <1>1, <3>3, <5>2
      <4> QED  BY <1>1, <1>2, <2>2, <2>3, <4>1, ServedSame DEF Underway
    <3>6. NoOutputs(cluster, work', next)
      <4>1. ASSUME NEW i \in DOMAIN Order, i > next
            PROVE  work'.outs[Order[i]] = work.outs[Order[i]]
        <5>1. i # next  BY <1>1, <4>1
        <5>2. Order[i] # signal  BY <2>2, <3>4, <5>1 DEF signal
        <5> QED  BY <1>1, <3>3, <5>2
      <4> QED  BY <1>1, <2>3, <4>1 DEF Underway, NoOutputs
    <3>7. (Pending(<<signal, TRUE>>, work.outs[signal]))'
      BY <1>2, <2>2, <2>4, <3>1, <3>3
    <3>8. Underway'
      BY <2>2, <2>3, <2>6, <3>2, <3>5, <3>6, <3>7 DEF Underway
    <3> QED  BY <2>2, <3>8 DEF ServedInv
  <2> QED  BY <2>1, <2>7, <2>8 DEF RouteEffect
<1>11. CASE Expand
  <2>1. PICK from, fresh : ExpandEffect(from, fresh)
    BY <1>11, ExpandDoes
  <2>2. /\ pc = "search"
        /\ lane' # None => NodeOf(lane') = target
        /\ UNCHANGED <<cluster, pc, builder, next, untried, best, work, left, source, target>>
        /\ Order' = Order /\ signal' = signal
    BY <2>1 DEF ExpandEffect
  <2>3. Underway
    BY <2>2 DEF ServedInv
  <2>4. \A u, l : Pending(u, l) => (Pending(u, l))'
    BY <2>2 DEF Pending
  <2>5. Underway'
    BY <2>2, <2>3, <2>4 DEF Underway
  <2> QED  BY <2>1, <2>2, <2>5 DEF ServedInv, ExpandEffect
<1>12. CASE Walk
  <2> DEFINE from == pred[lane]
  <2>1. WalkEffect(from)
    BY <1>12, WalkDoes
  <2> HIDE DEF from
  <2>2. /\ pc = "search" /\ lane \in Lanes /\ source \in Terminals /\ next \in DOMAIN Order
        /\ lane' = from /\ pc' = (IF from = None THEN "route" ELSE "search")
        /\ HasLane(work', work, source, lane)
        /\ UNCHANGED <<cluster, builder, next, untried, best, left, source, target>>
        /\ Order' = Order /\ signal' = signal
    BY <2>1 DEF WalkEffect, TypeInv
  <2>3. /\ work'.cells = work.cells /\ work'.outs = work.outs /\ work'.free = work.free
        /\ \A t \in Terminals : work.holds[t] \subseteq work'.holds[t]
        /\ lane \in work'.holds[source]
    BY <1>1, <2>2, BuilderFields DEF HasLane
  <2>4. Underway /\ (NodeOf(lane) = target \/ At(work, source, target))
    BY <2>2, RoutingAssumption DEF ServedInv
  <2>5. At(work', source, target)
    BY <2>2, <2>3, <2>4 DEF At
  <2>6. ASSUME NEW u \in Terminals, NEW l, Pending(u, l)
        PROVE  (Pending(u, l))'
    BY <2>2, <2>3, <2>5, <2>6 DEF Pending, At
  <2>7. \A p \in BOOLEAN : <<signal, p>> \in Terminals
    BY <1>2, <2>2 DEF Terminals
  <2>8. Served(cluster, work', next - 1)
    BY <1>1, <1>2, <2>2, <2>3, <2>4, ServedSame DEF Underway
  <2>9. Apart(work') /\ NoOutputs(cluster, work', next)
    BY <2>3, <2>4 DEF Underway, Apart, NoOutputs
  <2>10. Underway'
    BY <2>2, <2>3, <2>4, <2>6, <2>7, <2>8, <2>9 DEF Underway
  <2> QED  BY <2>2, <2>5, <2>10 DEF ServedInv
<1>13. CASE Joined
  <2>1. /\ pc = "search" /\ lane # None /\ lane \in work.holds[source] /\ pc' = "route"
        /\ UNCHANGED <<cluster, builder, next, untried, best, work, left, source, target, lane>>
        /\ Order' = Order /\ signal' = signal
    BY <1>13 DEF Joined, attempt, searching, Order, signal
  <2>2. Underway /\ At(work, source, target)
    BY <2>1 DEF ServedInv, At
  <2>3. ASSUME NEW u, NEW l, Pending(u, l)
        PROVE  (Pending(u, l))'
    BY <2>1, <2>2, <2>3 DEF Pending
  <2>4. Underway'
    BY <2>1, <2>2, <2>3 DEF Underway
  <2> QED  BY <2>1, <2>4 DEF ServedInv
<1> QED
  BY <1>3, <1>4, <1>5, <1>6, <1>7, <1>8, <1>9, <1>10, <1>11, <1>12, <1>13
     DEF Next, Step, Stopped

\* An image under an injection has as many elements.
LEMMA ImageSize ==
  ASSUME NEW S, IsFiniteSet(S), NEW f, \A x, y \in S : f[x] = f[y] => x = y
  PROVE  IsFiniteSet({f[x] : x \in S}) /\ Cardinality({f[x] : x \in S}) = Cardinality(S)
<1> DEFINE T == {f[x] : x \in S}
           h == [x \in S |-> f[x]]
<1>1. h \in [S -> T] /\ \A x \in S : h[x] = f[x]
  OBVIOUS
<1>2. \A y \in T : \E x \in S : f[x] = y
  OBVIOUS
<1>3. h \in Surjection(S, T) /\ h \in Injection(S, T)
  <2> HIDE DEF T, h
  <2>1. \A y \in T : \E x \in S : h[x] = y
    BY <1>1, <1>2
  <2>2. \A x, y \in S : h[x] = h[y] => x = y
    BY <1>1
  <2> QED  BY <1>1, <2>1, <2>2 DEF Surjection, Injection, IsInjective
<1> HIDE DEF T, h
<1>4. IsFiniteSet(T) /\ Cardinality(T) = Cardinality(S)
  BY <1>3, FS_Surjection
<1> QED  BY <1>4 DEF T

\* A list has finitely many elements.
LEMMA ListFinite ==
  ASSUME NEW S, NEW s \in Seq(S)
  PROVE  /\ Elements(s) \subseteq S /\ IsFiniteSet(Elements(s))
         /\ IsFiniteSet(DOMAIN s) /\ Cardinality(DOMAIN s) = Len(s)
<1> DEFINE n == Len(s)
<1>1. n \in Nat /\ DOMAIN s = 1 .. n
  BY LenProperties
<1>2. IsFiniteSet(1 .. n) /\ Cardinality(1 .. n) = n
  <2>1. 1 \in Int /\ n \in Int  BY <1>1
  <2> HIDE DEF n
  <2>2. IsFiniteSet(1 .. n)  BY <2>1, FS_Interval, Zenon
  <2>3. Cardinality(1 .. n) = IF 1 > n THEN 0 ELSE n - 1 + 1  BY <2>1, FS_Interval
  <2> QED  BY <1>1, <2>2, <2>3
<1>3. s \in Surjection(1 .. n, Elements(s))
  <2>1. s \in [1 .. n -> Elements(s)]  BY <1>1 DEF Elements
  <2> QED  BY <1>1, <2>1 DEF Surjection, Elements
<1>4. IsFiniteSet(Elements(s))
  BY <1>2, <1>3, FS_Surjection, Zenon
<1>5. Elements(s) \subseteq S
  BY <1>1 DEF Elements
<1> QED  BY <1>1, <1>2, <1>4, <1>5

\* The cells of the signals and the output cells are as many as they should be.
LEMMA PlacesCount ==
  ASSUME cluster \in Clusters, NEW chip, Apart(chip), \A s \in Elements(Order) : chip.cells[s] # None,
         \A s \in cluster.outputs : chip.outs[s] # None
  PROVE  Cardinality({chip.cells[s] : s \in Elements(Order)} \cup {chip.outs[s] : s \in cluster.outputs})
           = Len(Order) + Cardinality(cluster.outputs)
<1> DEFINE S == Elements(Order)
           O == cluster.outputs
           cells == {chip.cells[s] : s \in S}
           outs == {chip.outs[s] : s \in O}
<1>1. /\ IsCluster(cluster) /\ Order \in Seq(Signals) /\ Len(Order) \in Nat
      /\ DOMAIN Order = 1 .. Len(Order) /\ Order = Placement(cluster)
  BY OrderType DEF Order
<1>2. IsFiniteSet(1 .. Len(Order)) /\ Cardinality(1 .. Len(Order)) = Len(Order)
  BY <1>1, ListFinite
<1>3. IsFiniteSet(S) /\ Cardinality(S) = Len(Order)
  <2>1. \A k, m \in 1 .. Len(Order) : Order[k] = Order[m] => k = m
    BY <1>1, Zenon DEF IsCluster
  <2>2. S = {Order[k] : k \in 1 .. Len(Order)}
    BY <1>1 DEF Elements
  <2> HIDE DEF S
  <2> QED  BY <1>2, <2>1, <2>2, ImageSize
<1>4. S \subseteq Signals
  BY <1>1 DEF Elements
<1>5. O \in SUBSET Elements(cluster.gates)
  BY <1>1, Zenon DEF IsCluster
<1>6. O \subseteq Signals /\ IsFiniteSet(O) /\ Cardinality(O) \in Nat
  <2>1. cluster.gates \in Seq(Signals)
    BY <1>1 DEF IsCluster
  <2>2. Elements(cluster.gates) \subseteq Signals /\ IsFiniteSet(Elements(cluster.gates))
    BY <2>1, ListFinite
  <2>3. IsFiniteSet(O)
    <3> HIDE DEF O
    <3> QED  BY <1>5, <2>2, FS_Subset
  <2> QED  BY <1>5, <2>2, <2>3, FS_CardinalityType
<1>7. IsFiniteSet(cells) /\ Cardinality(cells) = Len(Order)
  <2>1. \A s, u \in S : chip.cells[s] = chip.cells[u] => s = u
    BY <1>4 DEF Apart
  <2> DEFINE f == chip.cells
  <2> HIDE DEF S, f
  <2>2. IsFiniteSet({f[s] : s \in S}) /\ Cardinality({f[s] : s \in S}) = Cardinality(S)
    BY <1>3, <2>1, ImageSize DEF f
  <2> QED  BY <1>3, <2>2 DEF f
<1>8. IsFiniteSet(outs) /\ Cardinality(outs) = Cardinality(O)
  <2>1. \A s, u \in O : chip.outs[s] = chip.outs[u] => s = u
    BY <1>6 DEF Apart
  <2> DEFINE f == chip.outs
  <2> HIDE DEF O, f
  <2>2. IsFiniteSet({f[s] : s \in O}) /\ Cardinality({f[s] : s \in O}) = Cardinality(O)
    BY <1>6, <2>1, ImageSize DEF f
  <2> QED  BY <2>2 DEF f
<1>9. cells \cap outs = {}
  BY <1>4, <1>6 DEF Apart
<1> HIDE DEF cells, outs, O, S
<1>10. /\ Cardinality(cells \cup outs)
             = Cardinality(cells) + Cardinality(outs) - Cardinality(cells \cap outs)
  BY <1>7, <1>8, FS_Union
<1>11. Cardinality(cells \cap outs) = 0
  BY <1>9, FS_EmptySet
<1>12. Cardinality(cells \cup outs) = Len(Order) + Cardinality(O)
  BY <1>1, <1>6, <1>7, <1>8, <1>10, <1>11
<1> QED  BY <1>12 DEF cells, outs, O, S

\* A cluster that has been routed is on the chip: its gates on cells of their own that can
\* hold them, with what they read, and its outputs on the output cells.
THEOREM RoutedIsRealised == Spec => []Realised
<1>1. Init => TypeInv /\ ServedInv
  BY TypeInit, ServedInit
<1>2. TypeInv /\ ServedInv /\ [Next]_vars => TypeInv' /\ ServedInv'
  BY TypeStep, ServedStep
<1>3. TypeInv /\ ServedInv => Realised
  <2> SUFFICES ASSUME TypeInv, ServedInv, pc = "routed"
               PROVE  Realised
    BY DEF Realised
  <2>1. /\ cluster \in Clusters /\ IsCluster(cluster) /\ IsBuilder(builder)
        /\ Order \in Seq(Signals) /\ Len(Order) \in Nat /\ DOMAIN Order = 1 .. Len(Order)
        /\ Order = Placement(cluster)
        /\ next \in 1 .. Len(Order) + 1 /\ next \notin DOMAIN Order
    BY OrderType DEF TypeInv, TypeOK, Order, ServedInv
  <2>2. \A i \in DOMAIN Order : i <= next - 1
    BY <2>1
  <2>3. \A s \in Elements(Order) : builder.cells[s] \in Coords
    BY <2>2 DEF TypeInv, PlacedUpTo, Elements
  <2>4. Apart(builder) /\ Served(cluster, builder, next - 1)
    BY DEF ServedInv, Good
  <2>5. \A s \in Elements(Order) :
           /\ Suited(cluster, builder.cells[s], s)
           /\ ReadersServed(cluster, builder, s)
           /\ OutputServed(cluster, builder, s)
    BY <2>1, <2>2, <2>4 DEF Served, Elements
  <2>6. ASSUME NEW g \in Elements(cluster.gates), NEW t \in cluster.reads[g]
        PROVE  At(builder, t, builder.cells[g])
    <3>1. t[1] \in Elements(Order)
      BY <2>1, Zenon DEF IsCluster
    <3>2. g \in Signals /\ cluster.reads \in [Signals -> SUBSET Terminals]
      BY <2>1 DEF IsCluster, Elements
    <3>3. t \in Signals \X BOOLEAN
      BY <3>2 DEF Terminals
    <3>4. PICK p \in BOOLEAN : t = <<t[1], p>>
      BY <3>3
    <3> QED  BY <2>5, <3>1, <3>4 DEF ReadersServed
  <2>7. cluster.outputs \subseteq Elements(Order)
    <3> SUFFICES ASSUME NEW s \in cluster.outputs  PROVE s \in Elements(Order)
      OBVIOUS
    <3>1. s \in Elements(cluster.gates)
      BY <2>1, Zenon DEF IsCluster
    <3> QED  BY <2>1, <3>1, GatesFirst
  <2>8. \A s \in cluster.outputs :
          builder.outs[s] # None /\ At(builder, <<s, TRUE>>, builder.outs[s])
    BY <2>5, <2>7 DEF OutputServed
  <2>9. \A s \in Elements(Order) : Resources[builder.cells[s]] \in Elements(TypesOf(s))
    BY <2>5 DEF Suited, TypesOf
  <2>10. Cardinality({builder.cells[s] : s \in Elements(Order)}
                       \cup {builder.outs[s] : s \in cluster.outputs})
           = Len(Order) + Cardinality(cluster.outputs)
    BY <2>1, <2>3, <2>4, <2>8, PlacesCount, RoutingAssumption
  <2> QED  BY <2>6, <2>8, <2>9, <2>10 DEF Realised
<1> QED  BY <1>1, <1>2, <1>3, PTL DEF Spec

----------------------------------------------------------------------------
(* A cluster that fits the chip keeps fitting it.                           *)

\* CheckCapacity in numbers: the gates of each class left, and the cells left for them.
CountsFit(fixedNors, nors, nands, luts, norCells, nandCells, lutCells) ==
  /\ fixedNors <= norCells
  /\ luts + Excess(nands, nandCells) + Excess(nors, norCells - fixedNors) <= lutCells

\* The positions of the signals of a class that have no cell, and the outputs that have none.
ClassOf(c, s) == GetResources(c.kind[s], Arity(c, s))
Todos(c, chip, types) ==
  {i \in DOMAIN Placement(c) :
     chip.cells[Placement(c)[i]] = None /\ ClassOf(c, Placement(c)[i]) = types}
Open(c, chip) == {s \in c.outputs : chip.outs[s] = None}

\* The gates left fit on the cells left, the inputs and the outputs too.
Room(c, chip) ==
  /\ CountsFit(Cardinality(Todos(c, chip, <<"nor">>)), Cardinality(Todos(c, chip, <<"nor", "lut">>)),
               Cardinality(Todos(c, chip, <<"nand", "lut">>)), Cardinality(Todos(c, chip, <<"lut">>)),
               Cardinality(Available(chip, "nor")), Cardinality(Available(chip, "nand")),
               Cardinality(Available(chip, "lut")))
  /\ Cardinality(Todos(c, chip, <<"in">>)) <= Cardinality(Available(chip, "in"))
  /\ Cardinality(Open(c, chip)) <= Cardinality(Available(chip, "out"))

RoomInv ==
  /\ Room(cluster, builder)
  /\ pc \in {"try", "route", "search"} /\ best # None => Room(cluster, best.chip)
  /\ pc \in {"route", "search"} => Room(cluster, work)

\* CheckCapacity counts this way.
LEMMA CapacityCounts ==
  ASSUME NEW chip
  PROVE  CheckCapacity(chip) <=>
           CountsFit(Cardinality(Todos(cluster, chip, <<"nor">>)),
                     Cardinality(Todos(cluster, chip, <<"nor", "lut">>)),
                     Cardinality(Todos(cluster, chip, <<"nand", "lut">>)),
                     Cardinality(Todos(cluster, chip, <<"lut">>)),
                     Cardinality(Available(chip, "nor")), Cardinality(Available(chip, "nand")),
                     Cardinality(Available(chip, "lut")))
<1>1. \A types : Todo(chip, types) = Cardinality(Todos(cluster, chip, types))
  BY DEF Todo, Todos, ClassOf, TypesOf, Order
<1> QED  BY <1>1 DEF CheckCapacity, CountsFit

\* The classes are apart.
LEMMA Classes ==
  /\ <<"nor">> # <<"nor", "lut">> /\ <<"nor">> # <<"nand", "lut">> /\ <<"nor">> # <<"lut">>
  /\ <<"nor">> # <<"in">> /\ <<"nor", "lut">> # <<"nand", "lut">> /\ <<"nor", "lut">> # <<"lut">>
  /\ <<"nor", "lut">> # <<"in">> /\ <<"nand", "lut">> # <<"lut">>
  /\ <<"nand", "lut">> # <<"in">> /\ <<"lut">> # <<"in">>
  /\ Elements(<<"nor">>) = {"nor"} /\ Elements(<<"nor", "lut">>) = {"nor", "lut"}
  /\ Elements(<<"nand", "lut">>) = {"nand", "lut"} /\ Elements(<<"lut">>) = {"lut"}
  /\ Elements(<<"in">>) = {"in"}
<1>1. \A x, y, z : <<x>> # <<y, z>>
  <2> TAKE x, y, z
  <2>1. Len(<<x>>) = 1 /\ Len(<<y, z>>) = 2  OBVIOUS
  <2> QED  BY <2>1
<1>2. \A x, y : x # y => <<x>> # <<y>>
  <2> TAKE x, y
  <2>1. <<x>>[1] = x /\ <<y>>[1] = y  OBVIOUS
  <2> QED  BY <2>1
<1>3. \A w, x, y, z : w # y => <<w, x>> # <<y, z>>
  OBVIOUS
<1>4. \A x : Elements(<<x>>) = {x}
  <2> TAKE x
  <2>1. DOMAIN <<x>> = {1} /\ <<x>>[1] = x  OBVIOUS
  <2> QED  BY <2>1 DEF Elements
<1>5. \A x, y : Elements(<<x, y>>) = {x, y}
  <2> TAKE x, y
  <2>1. DOMAIN <<x, y>> = {1, 2} /\ <<x, y>>[1] = x /\ <<x, y>>[2] = y  OBVIOUS
  <2> QED  BY <2>1 DEF Elements
<1> QED  BY <1>1, <1>2, <1>3, <1>4, <1>5

\* The class of a gate and of an input of a cluster.
LEMMA GateClass ==
  ASSUME NEW c, IsCluster(c), NEW g \in Elements(c.gates)
  PROVE  /\ c.kind[g] \in GateKinds /\ Arity(c, g) \in Nat
         /\ c.kind[g] # "nor" => ~ (Arity(c, g) > 2)
         /\ ClassOf(c, g) = IF c.kind[g] = "nor"
                            THEN IF Arity(c, g) > 2 THEN <<"nor">> ELSE <<"nor", "lut">>
                            ELSE IF c.kind[g] = "nand" THEN <<"nand", "lut">> ELSE <<"lut">>
<1> DEFINE n == Arity(c, g)
           k == c.kind[g]
<1>1. Accepted(c, g)
  BY Zenon DEF IsCluster
<1>2. /\ k \in {"nand", "nor", "lookup"}
      /\ n \in 2 .. 4 /\ (k # "nor" => n = 2)
  <2>1. k = "lookup" => n = 2
    BY DEF Arity
  <2> HIDE DEF n, k
  <2> QED  BY <1>1, <2>1 DEF Accepted, n, k
<1> HIDE DEF n, k
<1>3. k \in GateKinds
  BY <1>2 DEF GateKinds
<1>4. GetResources(k, n) = IF k = "nor"
                            THEN IF n > 2 THEN <<"nor">> ELSE <<"nor", "lut">>
                            ELSE IF k = "nand" THEN <<"nand", "lut">> ELSE <<"lut">>
  <2>1. CASE k = "nand"  BY <2>1 DEF GetResources
  <2>2. CASE k = "lookup"  BY <2>2 DEF GetResources
  <2>3. CASE k = "nor" /\ n = 2  BY <2>3 DEF GetResources
  <2>4. CASE k = "nor" /\ n # 2  BY <1>2, <2>4 DEF GetResources
  <2> QED  BY <1>2, <2>1, <2>2, <2>3, <2>4
<1>5. n \in Nat /\ (k # "nor" => ~ (n > 2))
  BY <1>2
<1> QED  BY <1>3, <1>4, <1>5 DEF n, k, ClassOf

LEMMA InputClass ==
  ASSUME NEW c, IsCluster(c), NEW s \in Elements(c.inputs)
  PROVE  ClassOf(c, s) = <<"in">>
<1>1. c.kind[s] = "input"  BY Zenon DEF IsCluster
<1> QED  BY <1>1 DEF ClassOf, GetResources

\* All these sets are finite.
LEMMA RoomFinite ==
  ASSUME cluster \in Clusters, NEW chip, IsBuilder(chip)
  PROVE  /\ \A types : /\ IsFiniteSet(Todos(cluster, chip, types))
                       /\ Cardinality(Todos(cluster, chip, types)) \in Nat
         /\ \A res : /\ IsFiniteSet(Available(chip, res)) /\ Cardinality(Available(chip, res)) \in Nat
                     /\ Available(chip, res) \subseteq Coords
         /\ IsFiniteSet(Open(cluster, chip)) /\ Cardinality(Open(cluster, chip)) \in Nat
         /\ cluster.outputs \subseteq Signals
<1>1. /\ IsCluster(cluster) /\ Order \in Seq(Signals) /\ Order = Placement(cluster)
  BY OrderType DEF Order
<1>2. ASSUME NEW types
      PROVE  IsFiniteSet(Todos(cluster, chip, types))
  <2>1. IsFiniteSet(DOMAIN Order)  BY <1>1, ListFinite
  <2>2. Todos(cluster, chip, types) \subseteq DOMAIN Order  BY <1>1 DEF Todos
  <2> QED  BY <2>1, <2>2, FS_Subset
<1>3. ASSUME NEW res
      PROVE  IsFiniteSet(Available(chip, res)) /\ Available(chip, res) \subseteq Coords
  <2>1. Available(chip, res) \in SUBSET Coords  BY BuilderFields DEF Available
  <2> QED  BY <2>1, SortedCells
<1>4. IsFiniteSet(Open(cluster, chip)) /\ cluster.outputs \subseteq Signals
  <2>1. cluster.gates \in Seq(Signals) /\ cluster.outputs \in SUBSET Elements(cluster.gates)
    BY <1>1, Zenon DEF IsCluster
  <2>2. Open(cluster, chip) \subseteq Elements(cluster.gates)
    BY <2>1 DEF Open
  <2> QED  BY <2>1, <2>2, ListFinite, FS_Subset
<1> QED  BY <1>2, <1>3, <1>4, FS_CardinalityType

\* Whatever class has a signal left has a cell to which it can be given.
LEMMA OneLess ==
  ASSUME NEW f \in Nat, NEW n \in Nat, NEW d \in Nat, NEW l \in Nat,
         NEW nors \in Nat, NEW nands \in Nat, NEW luts \in Nat, CountsFit(f, n, d, l, nors, nands, luts)
  PROVE  /\ f > 0 => nors > 0 /\ CountsFit(f - 1, n, d, l, nors - 1, nands, luts)
         /\ l > 0 => luts > 0 /\ CountsFit(f, n, d, l - 1, nors, nands, luts - 1)
         /\ n > 0 => \/ nors > 0 /\ CountsFit(f, n - 1, d, l, nors - 1, nands, luts)
                     \/ luts > 0 /\ CountsFit(f, n - 1, d, l, nors, nands, luts - 1)
         /\ d > 0 => \/ nands > 0 /\ CountsFit(f, n, d - 1, l, nors, nands - 1, luts)
                     \/ luts > 0 /\ CountsFit(f, n, d - 1, l, nors, nands, luts - 1)
BY DEF CountsFit, Excess

\* A cell that can be taken is among the candidates.
LEMMA CandidatesAll ==
  ASSUME IsBuilder(builder), NEW s, NEW i \in {1, 2} \cap DOMAIN TypesOf(s),
         NEW loc \in Available(builder, TypesOf(s)[i])
  PROVE  loc \in Elements(Candidates(s))
<1> DEFINE T(k) == IF k \in DOMAIN TypesOf(s) THEN Available(builder, TypesOf(s)[k]) ELSE {}
           L(k) == IF k \in DOMAIN TypesOf(s)
                   THEN Sorted(Available(builder, TypesOf(s)[k]), CellRank) ELSE << >>
<1>1. Candidates(s) = L(1) \o L(2)
  BY DEF Candidates
<1>2. \A k \in {1, 2} : L(k) \in Seq(Coords) /\ (k = i => loc \in Elements(L(k)))
  <2> TAKE k \in {1, 2}
  <2>1. CASE k \in DOMAIN TypesOf(s)
    <3> DEFINE A == Available(builder, TypesOf(s)[k])
               list == Sorted(A, CellRank)
    <3>1. L(k) = list  BY <2>1
    <3>2. A \in SUBSET Coords  BY BuilderFields DEF Available
    <3>3. k = i => loc \in A  OBVIOUS
    <3> HIDE DEF A, L
    <3>4. list \in Seq(A) /\ \A x \in A : \E j \in DOMAIN list : list[j] = x
      BY <3>2, SortedCells
    <3> HIDE DEF list
    <3>5. list \in Seq(Coords)  BY <3>2, <3>4
    <3> QED  BY <3>1, <3>3, <3>4, <3>5 DEF Elements
  <2>2. CASE k \notin DOMAIN TypesOf(s)
    <3>1. L(k) = << >> /\ k # i  BY <2>2
    <3> HIDE DEF L
    <3> QED  BY <3>1
  <2> QED  BY <2>1, <2>2
<1> HIDE DEF L
<1>3. Elements(L(1) \o L(2)) = Elements(L(1)) \cup Elements(L(2))
  BY <1>2, ElementsOf
<1> QED  BY <1>1, <1>2, <1>3

\* A signal belongs to one of the classes.
LEMMA SignalClass ==
  ASSUME cluster \in Clusters, NEW n \in DOMAIN Order
  PROVE  ClassOf(cluster, Order[n])
           \in {<<"nor">>, <<"nor", "lut">>, <<"nand", "lut">>, <<"lut">>, <<"in">>}
<1>1. /\ IsCluster(cluster) /\ Order = Placement(cluster)
      /\ cluster.gates \in Seq(Signals) /\ cluster.inputs \in Seq(Signals)
  BY OrderType DEF Order, IsCluster
<1>2. Elements(Order) = Elements(cluster.gates) \cup Elements(cluster.inputs)
  <2> DEFINE gs == cluster.gates
             is == cluster.inputs
  <2>1. Order = gs \o is /\ gs \in Seq(Signals) /\ is \in Seq(Signals)  BY <1>1 DEF Placement
  <2> HIDE DEF gs, is
  <2>2. Elements(Order) = Elements(gs) \cup Elements(is)  BY <2>1, ElementsOf
  <2> QED  BY <2>2 DEF gs, is
<1>3. Order[n] \in Elements(Order)
  BY DEF Elements
<1>4. CASE Order[n] \in Elements(cluster.gates)
  BY <1>1, <1>4, GateClass
<1>5. CASE Order[n] \in Elements(cluster.inputs)
  BY <1>1, <1>5, InputClass
<1> QED  BY <1>2, <1>3, <1>4, <1>5

\* A set has one element less without one of its own.
LEMMA OneFewer ==
  ASSUME NEW S, IsFiniteSet(S), NEW x \in S
  PROVE  Cardinality(S) > 0 /\ Cardinality(S \ {x}) = Cardinality(S) - 1
<1>1. Cardinality(S) \in Nat /\ Cardinality(S \ {x}) = Cardinality(S) - 1
  BY FS_RemoveElement, FS_CardinalityType
<1>2. Cardinality(S) # 0
  BY FS_EmptySet
<1> QED  BY <1>1, <1>2

\* A signal that is placed is one less to be placed, and its cell one less to be had.
LEMMA PlaceCounts ==
  ASSUME cluster \in Clusters, NEW chip, IsBuilder(chip), NEW n \in DOMAIN Order,
         chip.cells[Order[n]] = None, NEW loc \in chip.free,
         NEW new, HasPlaced(new, chip, Order[n], loc)
  PROVE  /\ \A types : types # ClassOf(cluster, Order[n]) =>
              Todos(cluster, new, types) = Todos(cluster, chip, types)
         /\ LET class == ClassOf(cluster, Order[n])
            IN  /\ Cardinality(Todos(cluster, chip, class)) > 0
                /\ Cardinality(Todos(cluster, new, class))
                     = Cardinality(Todos(cluster, chip, class)) - 1
         /\ \A res : res # Resources[loc] => Available(new, res) = Available(chip, res)
         /\ LET res == Resources[loc]
            IN  /\ Cardinality(Available(chip, res)) > 0
                /\ Cardinality(Available(new, res)) = Cardinality(Available(chip, res)) - 1
         /\ Open(cluster, new) = Open(cluster, chip)
<1> DEFINE class == ClassOf(cluster, Order[n])
           kind == Resources[loc]
<1>1. /\ IsCluster(cluster) /\ Order \in Seq(Signals) /\ Order = Placement(cluster)
      /\ \A k, m \in DOMAIN Order : Order[k] = Order[m] => k = m
  <2>1. IsCluster(cluster) /\ Order \in Seq(Signals) /\ Order = Placement(cluster)
    BY OrderType DEF Order
  <2> QED  BY <2>1, Zenon DEF IsCluster
<1>2. /\ \A u \in Signals : new.cells[u] = IF u = Order[n] THEN loc ELSE chip.cells[u]
      /\ new.outs = chip.outs /\ new.free = chip.free \ {loc}
      /\ loc \in Coords /\ loc # None
  BY BuilderFields, RoutingAssumption DEF HasPlaced
<1>3. \A k \in DOMAIN Order :
        new.cells[Order[k]] = None <=> k # n /\ chip.cells[Order[k]] = None
  BY <1>1, <1>2
<1>4. ASSUME NEW types
      PROVE  Todos(cluster, new, types) = Todos(cluster, chip, types) \ {n}
  BY <1>1, <1>3 DEF Todos
<1>5. n \in Todos(cluster, chip, class)
  BY <1>1 DEF Todos
<1>6. \A types : types # class => n \notin Todos(cluster, chip, types)
  BY <1>1 DEF Todos
<1>7. \A res : Available(new, res) = Available(chip, res) \ {loc}
  BY <1>2 DEF Available
<1>8. loc \in Available(chip, kind) /\ \A res : res # kind => loc \notin Available(chip, res)
  BY DEF Available
<1>9. Open(cluster, new) = Open(cluster, chip)
  BY <1>2 DEF Open
<1>10. /\ IsFiniteSet(Todos(cluster, chip, class))
       /\ IsFiniteSet(Available(chip, kind))
  BY RoomFinite
<1> HIDE DEF class, kind
<1>11. /\ Cardinality(Todos(cluster, chip, class)) > 0
       /\ Cardinality(Todos(cluster, new, class)) = Cardinality(Todos(cluster, chip, class)) - 1
  BY <1>4, <1>5, <1>10, OneFewer
<1>12. /\ Cardinality(Available(chip, kind)) > 0
       /\ Cardinality(Available(new, kind)) = Cardinality(Available(chip, kind)) - 1
  BY <1>7, <1>8, <1>10, OneFewer
<1> QED  BY <1>4, <1>6, <1>7, <1>8, <1>9, <1>11, <1>12 DEF class, kind

\* A signal that CheckCapacity lets in leaves room for the others.
LEMMA RoomPlace ==
  ASSUME cluster \in Clusters, NEW chip, IsBuilder(chip), Room(cluster, chip), NEW n \in DOMAIN Order,
         chip.cells[Order[n]] = None, NEW loc \in chip.free, Suited(cluster, loc, Order[n]),
         NEW new, HasPlaced(new, chip, Order[n], loc), IsBuilder(new), CheckCapacity(new)
  PROVE  Room(cluster, new)
<1> DEFINE class == ClassOf(cluster, Order[n])
           todo(x) == Cardinality(Todos(cluster, x, <<"in">>))
           cells(x) == Cardinality(Available(x, "in"))
<1>1. Resources[loc] \in Elements(class)
  BY DEF Suited, ClassOf
<1>2. class \in {<<"nor">>, <<"nor", "lut">>, <<"nand", "lut">>, <<"lut">>, <<"in">>}
  BY SignalClass
<1>3. /\ todo(chip) \in Nat /\ cells(chip) \in Nat /\ todo(chip) <= cells(chip)
      /\ Cardinality(Open(cluster, chip)) <= Cardinality(Available(chip, "out"))
  BY RoomFinite DEF Room
<1>4. /\ class # <<"in">> => todo(new) = todo(chip)
      /\ class = <<"in">> => todo(new) = todo(chip) - 1
      /\ Resources[loc] # "in" => cells(new) = cells(chip)
      /\ Resources[loc] = "in" => cells(new) = cells(chip) - 1
  BY PlaceCounts
<1>5. /\ Open(cluster, new) = Open(cluster, chip)
      /\ Resources[loc] # "out" => Available(new, "out") = Available(chip, "out")
  BY PlaceCounts
<1>6. /\ Resources[loc] # "out"
      /\ class = <<"in">> <=> Resources[loc] = "in"
  <2> HIDE DEF class
  <2>1. Resources[loc] \in {"nor", "lut", "nand", "in"}
    BY <1>1, <1>2, Classes
  <2>2. class = <<"in">> => Resources[loc] = "in"
    BY <1>1, Classes
  <2>3. class # <<"in">> => Resources[loc] # "in"
    BY <1>1, <1>2, Classes
  <2> QED  BY <2>1, <2>2, <2>3
<1>7. todo(new) <= cells(new)
  <2> HIDE DEF class, todo, cells
  <2> QED  BY <1>3, <1>4, <1>6
<1>8. Cardinality(Open(cluster, new)) <= Cardinality(Available(new, "out"))
  BY <1>3, <1>5, <1>6
<1> QED  BY <1>7, <1>8, CapacityCounts DEF Room

\* An output cell that is taken leaves enough for the other outputs.
LEMMA RoomOutput ==
  ASSUME cluster \in Clusters, NEW chip, IsBuilder(chip), Room(cluster, chip),
         NEW s \in Open(cluster, chip), NEW loc \in Available(chip, "out"),
         NEW new, HasOutput(new, chip, s, loc)
  PROVE  Room(cluster, new)
<1>1. /\ s \in Signals /\ loc \in Coords /\ loc # None /\ Resources[loc] = "out"
  BY RoomFinite, RoutingAssumption DEF Open, Available
<1>2. /\ \A u \in Signals : new.outs[u] = IF u = s THEN loc ELSE chip.outs[u]
      /\ new.cells = chip.cells /\ new.free = chip.free \ {loc}
  BY <1>1, BuilderFields DEF HasOutput
<1>3. \A types : Todos(cluster, new, types) = Todos(cluster, chip, types)
  BY <1>2 DEF Todos
<1>4. \A res : res # "out" => Available(new, res) = Available(chip, res)
  BY <1>1, <1>2 DEF Available
<1>5. /\ Open(cluster, new) = Open(cluster, chip) \ {s}
      /\ Available(new, "out") = Available(chip, "out") \ {loc}
  BY <1>1, <1>2, RoomFinite DEF Open, Available
<1>6. /\ Cardinality(Open(cluster, new)) = Cardinality(Open(cluster, chip)) - 1
      /\ Cardinality(Available(new, "out")) = Cardinality(Available(chip, "out")) - 1
  BY <1>5, RoomFinite, OneFewer
<1>7. Cardinality(Open(cluster, new)) <= Cardinality(Available(new, "out"))
  BY <1>6, RoomFinite DEF Room
<1> QED  BY <1>3, <1>4, <1>7 DEF Room

\* Lanes take no room.
LEMMA RoomSame ==
  ASSUME NEW c, NEW chip, Room(c, chip), NEW new,
         new.cells = chip.cells, new.outs = chip.outs, new.free = chip.free
  PROVE  Room(c, new)
<1>1. /\ \A types : Todos(c, new, types) = Todos(c, chip, types)
      /\ \A res : Available(new, res) = Available(chip, res)
      /\ Open(c, new) = Open(c, chip)
  BY DEF Todos, Available, Open
<1> QED  BY <1>1 DEF Room

\* What is left to be placed of a class, and of the cells of a kind, when a signal of the
\* class is given a cell of the kind.
TodoThen(types, class) ==
  Cardinality(Todos(cluster, builder, types)) - (IF types = class THEN 1 ELSE 0)
CellsThen(res, kind) == Cardinality(Available(builder, res)) - (IF res = kind THEN 1 ELSE 0)
FitsThen(class, kind) ==
  CountsFit(TodoThen(<<"nor">>, class), TodoThen(<<"nor", "lut">>, class),
            TodoThen(<<"nand", "lut">>, class), TodoThen(<<"lut">>, class),
            CellsThen("nor", kind), CellsThen("nand", kind), CellsThen("lut", kind))

\* If that fits, a cell of the kind is a candidate that CheckCapacity lets in.
LEMMA ChoiceOf ==
  ASSUME cluster \in Clusters, IsBuilder(builder), next \in DOMAIN Order,
         builder.cells[signal] = None,
         NEW kind \in Elements(ClassOf(cluster, signal)), Cardinality(Available(builder, kind)) > 0,
         FitsThen(ClassOf(cluster, signal), kind)
  PROVE  \E loc \in Elements(Candidates(signal)) : CheckCapacity(Place(builder, signal, loc))
<1> DEFINE class == ClassOf(cluster, signal)
<1>1. /\ Order \in Seq(Signals) /\ signal \in Signals /\ class = TypesOf(signal)
  BY OrderType DEF signal, ClassOf, TypesOf
<1>2. class \in {<<"nor">>, <<"nor", "lut">>, <<"nand", "lut">>, <<"lut">>, <<"in">>}
  BY SignalClass DEF signal
<1>3. PICK i \in {1, 2} \cap DOMAIN TypesOf(signal) : TypesOf(signal)[i] = kind
  <2> HIDE DEF class
  <2>1. DOMAIN class \subseteq {1, 2}
    BY <1>2
  <2>2. PICK i \in DOMAIN class : class[i] = kind
    BY DEF Elements, class
  <2> QED  BY <1>1, <2>1, <2>2
<1>4. Available(builder, kind) # {}
  <2>1. Cardinality({}) = 0  BY FS_EmptySet
  <2> QED  BY <2>1
<1>5. PICK loc \in Available(builder, kind) : TRUE
  BY <1>4
<1>6. loc \in Elements(Candidates(signal))
  BY <1>3, <1>5, CandidatesAll
<1>7. loc \in builder.free /\ Resources[loc] = kind /\ loc \in Coords
  BY <1>5, BuilderFields DEF Available
<1> DEFINE new == Place(builder, signal, loc)
<1>8. HasPlaced(new, builder, Order[next], loc)
  BY <1>1, <1>7, PlaceType DEF signal
<1> HIDE DEF new
<1>9. /\ \A types : Cardinality(Todos(cluster, new, types)) = TodoThen(types, class)
      /\ \A res : Cardinality(Available(new, res)) = CellsThen(res, kind)
  <2>1. builder.cells[Order[next]] = None  BY DEF signal
  <2>2. /\ \A types : types # class => Todos(cluster, new, types) = Todos(cluster, builder, types)
        /\ Cardinality(Todos(cluster, new, class)) = Cardinality(Todos(cluster, builder, class)) - 1
        /\ \A res : res # kind => Available(new, res) = Available(builder, res)
        /\ Cardinality(Available(new, kind)) = Cardinality(Available(builder, kind)) - 1
    BY <1>7, <1>8, <2>1, PlaceCounts DEF signal
  <2> HIDE DEF class
  <2>3. /\ \A types : Cardinality(Todos(cluster, builder, types)) \in Nat
        /\ \A res : Cardinality(Available(builder, res)) \in Nat
    BY RoomFinite
  <2>4. ASSUME NEW types  PROVE Cardinality(Todos(cluster, new, types)) = TodoThen(types, class)
    BY <2>2, <2>3 DEF TodoThen
  <2>5. ASSUME NEW res  PROVE Cardinality(Available(new, res)) = CellsThen(res, kind)
    BY <2>2, <2>3 DEF CellsThen
  <2> QED  BY <2>4, <2>5
<1>10. CheckCapacity(new)
  <2>1. FitsThen(class, kind)  OBVIOUS
  <2> HIDE DEF class
  <2> QED  BY <1>9, <2>1, CapacityCounts DEF FitsThen
<1> QED  BY <1>6, <1>10 DEF new

\* While there is room, the next signal has a candidate that leaves room.
LEMMA RoomChoice ==
  ASSUME cluster \in Clusters, IsBuilder(builder), Room(cluster, builder), next \in DOMAIN Order,
         builder.cells[signal] = None
  PROVE  \E loc \in Elements(Candidates(signal)) : CheckCapacity(Place(builder, signal, loc))
<1> DEFINE class == ClassOf(cluster, signal)
           todo(types) == Cardinality(Todos(cluster, builder, types))
           cells(res) == Cardinality(Available(builder, res))
           f == todo(<<"nor">>)
           n == todo(<<"nor", "lut">>)
           d == todo(<<"nand", "lut">>)
           l == todo(<<"lut">>)
           nors == cells("nor")
           nands == cells("nand")
           luts == cells("lut")
<1>1. class \in {<<"nor">>, <<"nor", "lut">>, <<"nand", "lut">>, <<"lut">>, <<"in">>}
  BY SignalClass DEF signal
<1>2. todo(class) > 0
  <2>1. /\ Order \in Seq(Signals) /\ Order = Placement(cluster)
    BY OrderType DEF Order
  <2>2. next \in Todos(cluster, builder, class)
    BY <2>1 DEF Todos, signal
  <2> HIDE DEF class
  <2> QED  BY <2>2, RoomFinite, OneFewer
<1>3. /\ f \in Nat /\ n \in Nat /\ d \in Nat /\ l \in Nat
      /\ nors \in Nat /\ nands \in Nat /\ luts \in Nat
      /\ CountsFit(f, n, d, l, nors, nands, luts)
      /\ todo(<<"in">>) <= cells("in") /\ todo(<<"in">>) \in Nat /\ cells("in") \in Nat
  BY RoomFinite DEF Room
<1>4. \A kind : FitsThen(class, kind) <=>
        CountsFit(f - (IF <<"nor">> = class THEN 1 ELSE 0), n - (IF <<"nor", "lut">> = class THEN 1 ELSE 0),
                  d - (IF <<"nand", "lut">> = class THEN 1 ELSE 0), l - (IF <<"lut">> = class THEN 1 ELSE 0),
                  nors - (IF "nor" = kind THEN 1 ELSE 0), nands - (IF "nand" = kind THEN 1 ELSE 0),
                  luts - (IF "lut" = kind THEN 1 ELSE 0))
  BY DEF FitsThen, TodoThen, CellsThen
<1> DEFINE Choice == \E kind \in Elements(class) : cells(kind) > 0 /\ FitsThen(class, kind)
<1>5. ASSUME class = <<"nor">>  PROVE Choice
  <2>1. nors > 0 /\ CountsFit(f - 1, n, d, l, nors - 1, nands, luts)
    <3>1. f > 0  BY <1>2, <1>5
    <3> HIDE DEF f, n, d, l, nors, nands, luts
    <3> QED  BY <1>3, <3>1, OneLess
  <2>2. FitsThen(class, "nor")
    <3> HIDE DEF f, n, d, l, nors, nands, luts, class
    <3> QED  BY <1>3, <1>4, <1>5, <2>1, Classes
  <2> QED  BY <1>5, <2>1, <2>2, Classes
<1>6. ASSUME class = <<"lut">>  PROVE Choice
  <2>1. luts > 0 /\ CountsFit(f, n, d, l - 1, nors, nands, luts - 1)
    <3>1. l > 0  BY <1>2, <1>6
    <3> HIDE DEF f, n, d, l, nors, nands, luts
    <3> QED  BY <1>3, <3>1, OneLess
  <2>2. FitsThen(class, "lut")
    <3> HIDE DEF f, n, d, l, nors, nands, luts, class
    <3> QED  BY <1>3, <1>4, <1>6, <2>1, Classes
  <2> QED  BY <1>6, <2>1, <2>2, Classes
<1>7. ASSUME class = <<"nor", "lut">>  PROVE Choice
  <2>1. \/ nors > 0 /\ CountsFit(f, n - 1, d, l, nors - 1, nands, luts)
        \/ luts > 0 /\ CountsFit(f, n - 1, d, l, nors, nands, luts - 1)
    <3>1. n > 0  BY <1>2, <1>7
    <3> HIDE DEF f, n, d, l, nors, nands, luts
    <3> QED  BY <1>3, <3>1, OneLess
  <2>2. CountsFit(f, n - 1, d, l, nors - 1, nands, luts) => FitsThen(class, "nor")
    <3> HIDE DEF f, n, d, l, nors, nands, luts, class
    <3> QED  BY <1>3, <1>4, <1>7, Classes
  <2>3. CountsFit(f, n - 1, d, l, nors, nands, luts - 1) => FitsThen(class, "lut")
    <3> HIDE DEF f, n, d, l, nors, nands, luts, class
    <3> QED  BY <1>3, <1>4, <1>7, Classes
  <2> QED  BY <1>7, <2>1, <2>2, <2>3, Classes
<1>8. ASSUME class = <<"nand", "lut">>  PROVE Choice
  <2>1. \/ nands > 0 /\ CountsFit(f, n, d - 1, l, nors, nands - 1, luts)
        \/ luts > 0 /\ CountsFit(f, n, d - 1, l, nors, nands, luts - 1)
    <3>1. d > 0  BY <1>2, <1>8
    <3> HIDE DEF f, n, d, l, nors, nands, luts
    <3> QED  BY <1>3, <3>1, OneLess
  <2>2. CountsFit(f, n, d - 1, l, nors, nands - 1, luts) => FitsThen(class, "nand")
    <3> HIDE DEF f, n, d, l, nors, nands, luts, class
    <3> QED  BY <1>3, <1>4, <1>8, Classes
  <2>3. CountsFit(f, n, d - 1, l, nors, nands, luts - 1) => FitsThen(class, "lut")
    <3> HIDE DEF f, n, d, l, nors, nands, luts, class
    <3> QED  BY <1>3, <1>4, <1>8, Classes
  <2> QED  BY <1>8, <2>1, <2>2, <2>3, Classes
<1>9. ASSUME class = <<"in">>  PROVE Choice
  <2>1. cells("in") > 0
    <3>1. todo(<<"in">>) > 0  BY <1>2, <1>9
    <3> HIDE DEF todo, cells
    <3> QED  BY <1>3, <3>1
  <2>2. FitsThen(class, "in")
    <3> HIDE DEF f, n, d, l, nors, nands, luts, class
    <3> QED  BY <1>3, <1>4, <1>9, Classes
  <2> QED  BY <1>9, <2>1, <2>2, Classes
<1>10. Choice
  <2> HIDE DEF Choice, class
  <2> QED  BY <1>1, <1>5, <1>6, <1>7, <1>8, <1>9
<1> QED  BY <1>10, ChoiceOf

\* On the empty chip the signals of a class are all to be placed.
LEMMA AllToDo ==
  ASSUME cluster \in Clusters, NEW class, class # <<"in">>
  PROVE  Cardinality(Todos(cluster, EmptyChip, class))
           = Cardinality({g \in Elements(cluster.gates) : ClassOf(cluster, g) = class})
<1>1. /\ IsCluster(cluster) /\ Order \in Seq(Signals) /\ Order = Placement(cluster)
      /\ cluster.gates \in Seq(Signals) /\ cluster.inputs \in Seq(Signals)
      /\ \A k, m \in DOMAIN Order : Order[k] = Order[m] => k = m
  <2>1. IsCluster(cluster) /\ Order \in Seq(Signals) /\ Order = Placement(cluster)
    BY OrderType DEF Order
  <2>2. cluster.gates \in Seq(Signals) /\ cluster.inputs \in Seq(Signals)
    BY <2>1, Zenon DEF IsCluster
  <2> QED  BY <2>1, <2>2, Zenon DEF IsCluster
<1>2. Elements(Order) = Elements(cluster.gates) \cup Elements(cluster.inputs)
  <2> DEFINE gs == cluster.gates
             is == cluster.inputs
  <2>1. Order = gs \o is /\ gs \in Seq(Signals) /\ is \in Seq(Signals)  BY <1>1 DEF Placement
  <2> HIDE DEF gs, is
  <2>2. Elements(Order) = Elements(gs) \cup Elements(is)  BY <2>1, ElementsOf
  <2> QED  BY <2>2 DEF gs, is
<1> DEFINE T == Todos(cluster, EmptyChip, class)
           G == {g \in Elements(cluster.gates) : ClassOf(cluster, g) = class}
<1>3. T = {i \in DOMAIN Order : ClassOf(cluster, Order[i]) = class}
  <2>1. \A i \in DOMAIN Order : EmptyChip.cells[Order[i]] = None
    BY <1>1 DEF EmptyChip
  <2> QED  BY <1>1, <2>1 DEF Todos
<1>4. G = {Order[i] : i \in T}
  <2>1. ASSUME NEW i \in T  PROVE Order[i] \in G
    <3>1. Order[i] \in Elements(Order) /\ ClassOf(cluster, Order[i]) = class
      BY <1>3 DEF Elements
    <3>2. Order[i] \notin Elements(cluster.inputs)
      BY <1>1, <3>1, InputClass
    <3> QED  BY <1>2, <3>1, <3>2
  <2>2. ASSUME NEW g \in G  PROVE \E i \in T : Order[i] = g
    <3>1. g \in Elements(Order)  BY <1>2
    <3> QED  BY <1>3, <3>1 DEF Elements
  <2> HIDE DEF T, G
  <2> QED  BY <2>1, <2>2
<1>5. IsFiniteSet(T) /\ T \subseteq DOMAIN Order
  <2>1. IsFiniteSet(DOMAIN Order)  BY <1>1, ListFinite
  <2> HIDE DEF T
  <2> QED  BY <1>3, <2>1, FS_Subset
<1> HIDE DEF T, G
<1>6. Cardinality({Order[i] : i \in T}) = Cardinality(T)
  <2>1. \A k, m \in T : Order[k] = Order[m] => k = m
    BY <1>1, <1>5
  <2> DEFINE f == Order
  <2> HIDE DEF f
  <2>2. Cardinality({f[i] : i \in T}) = Cardinality(T)  BY <1>5, <2>1, ImageSize DEF f
  <2> QED  BY <2>2 DEF f
<1> QED  BY <1>4, <1>6 DEF T, G

\* The inputs of a cluster are the last signals of its order.
LEMMA InputsToDo ==
  ASSUME cluster \in Clusters
  PROVE  Cardinality(Todos(cluster, EmptyChip, <<"in">>)) <= Len(cluster.inputs)
<1> DEFINE gs == cluster.gates
           is == cluster.inputs
           T == Todos(cluster, EmptyChip, <<"in">>)
<1>1. /\ IsCluster(cluster) /\ Order \in Seq(Signals) /\ Order = Placement(cluster)
      /\ gs \in Seq(Signals) /\ is \in Seq(Signals)
  <2>1. IsCluster(cluster) /\ Order \in Seq(Signals) /\ Order = Placement(cluster)
    BY OrderType DEF Order
  <2> QED  BY <2>1, Zenon DEF IsCluster
<1>2. \A i \in T : i \in DOMAIN Order /\ ClassOf(cluster, Order[i]) = <<"in">>
  BY <1>1 DEF Todos
<1>3. \A i \in DOMAIN gs : gs[i] \in Elements(gs)
  BY DEF Elements
<1>4. \A g \in Elements(gs) : ClassOf(cluster, g) # <<"in">>
  BY <1>1, GateClass, Classes
<1>5. Order = gs \o is
  BY <1>1 DEF Placement
<1> HIDE DEF gs, is, T
<1>6. /\ Len(gs) \in Nat /\ Len(is) \in Nat /\ DOMAIN gs = 1 .. Len(gs)
      /\ DOMAIN Order = 1 .. Len(gs) + Len(is)
      /\ \A i \in 1 .. Len(gs) : Order[i] = gs[i]
  BY <1>1, <1>5
<1>7. T \subseteq (Len(gs) + 1) .. (Len(gs) + Len(is))
  BY <1>2, <1>3, <1>4, <1>6
<1> DEFINE m == Len(gs) + 1
           k == Len(gs) + Len(is)
<1>8. m \in Int /\ k \in Int /\ (IF m > k THEN 0 ELSE k - m + 1) = Len(is)
  BY <1>6
<1>9. T \subseteq m .. k
  BY <1>7
<1> HIDE DEF m, k
<1>10. IsFiniteSet(m .. k)
  BY <1>8, FS_Interval, Zenon
<1>11. Cardinality(m .. k) = IF m > k THEN 0 ELSE k - m + 1
  BY <1>8, FS_Interval
<1>12. Cardinality(T) <= Cardinality(m .. k)
  BY <1>9, <1>10, FS_Subset
<1> QED  BY <1>8, <1>11, <1>12 DEF T, is

\* There is room at the beginning: that is what ClusterGates asks for.
LEMMA RoomInit ==
  ASSUME Init  PROVE RoomInv
<1>1. cluster \in Clusters /\ FitsChip(cluster) /\ builder = EmptyChip /\ pc = "next"
  BY DEF Init
<1>2. IsCluster(cluster) /\ IsBuilder(EmptyChip)
  BY <1>1, OrderType DEF IsBuilder, EmptyChip
<1> DEFINE Cells(res) == Cardinality({loc \in Coords : Resources[loc] = res})
           GateSet(kind, wide) == {g \in Elements(cluster.gates) :
             cluster.kind[g] = kind /\ (Arity(cluster, g) > 2 <=> wide)}
           Gates(kind, wide) == Cardinality(GateSet(kind, wide))
           nors == Gates("nor", TRUE) + Gates("nor", FALSE)
           todo(class) == Cardinality(Todos(cluster, EmptyChip, class))
<1>3. /\ Gates("nor", TRUE) <= Cells("nor")
      /\ Excess(nors, Cells("nor")) + Excess(Gates("nand", FALSE), Cells("nand"))
           + Gates("lookup", FALSE) <= Cells("lut")
      /\ Len(cluster.inputs) <= Cells("in")
      /\ Cardinality(cluster.outputs) <= Cells("out")
  BY <1>1 DEF FitsChip
<1>4. \A res : Cardinality(Available(EmptyChip, res)) = Cells(res)
  BY DEF Available, EmptyChip
<1>5. Open(cluster, EmptyChip) = cluster.outputs
  <2>1. cluster.outputs \subseteq Signals  BY <1>1, <1>2, RoomFinite
  <2>2. \A s \in Signals : EmptyChip.outs[s] = None  BY DEF EmptyChip
  <2> QED  BY <2>1, <2>2 DEF Open
<1>6. ASSUME NEW g \in Elements(cluster.gates)
      PROVE  /\ ClassOf(cluster, g) = <<"nor">> <=> g \in GateSet("nor", TRUE)
             /\ ClassOf(cluster, g) = <<"nor", "lut">> <=> g \in GateSet("nor", FALSE)
             /\ ClassOf(cluster, g) = <<"nand", "lut">> <=> g \in GateSet("nand", FALSE)
             /\ ClassOf(cluster, g) = <<"lut">> <=> g \in GateSet("lookup", FALSE)
  <2> DEFINE n == Arity(cluster, g)
             k == cluster.kind[g]
  <2>1. /\ k \in {"nand", "nor", "lookup"} /\ (k # "nor" => ~ (n > 2))
        /\ ClassOf(cluster, g) = IF k = "nor" THEN IF n > 2 THEN <<"nor">> ELSE <<"nor", "lut">>
                                 ELSE IF k = "nand" THEN <<"nand", "lut">> ELSE <<"lut">>
    BY <1>2, GateClass DEF GateKinds
  <2>2. \A kind, wide : g \in GateSet(kind, wide) <=> k = kind /\ (n > 2 <=> wide)
    OBVIOUS
  <2> HIDE DEF GateSet, n, k
  <2> QED  BY <2>1, <2>2, Classes
<1>7. /\ GateSet("nor", TRUE) = {g \in Elements(cluster.gates) : ClassOf(cluster, g) = <<"nor">>}
      /\ GateSet("nor", FALSE) = {g \in Elements(cluster.gates) : ClassOf(cluster, g) = <<"nor", "lut">>}
      /\ GateSet("nand", FALSE) = {g \in Elements(cluster.gates) : ClassOf(cluster, g) = <<"nand", "lut">>}
      /\ GateSet("lookup", FALSE) = {g \in Elements(cluster.gates) : ClassOf(cluster, g) = <<"lut">>}
  <2>1. \A kind, wide : GateSet(kind, wide) \subseteq Elements(cluster.gates)
    OBVIOUS
  <2> HIDE DEF GateSet
  <2> QED  BY <1>6, <2>1
<1> HIDE DEF GateSet
<1>8. /\ todo(<<"nor">>) = Gates("nor", TRUE) /\ todo(<<"nor", "lut">>) = Gates("nor", FALSE)
      /\ todo(<<"nand", "lut">>) = Gates("nand", FALSE) /\ todo(<<"lut">>) = Gates("lookup", FALSE)
  BY <1>1, <1>7, AllToDo, Classes
<1>9. todo(<<"in">>) <= Len(cluster.inputs)
  BY <1>1, InputsToDo
<1>10. /\ \A class : todo(class) \in Nat
       /\ \A res : Cells(res) \in Nat
       /\ Cardinality(cluster.outputs) \in Nat /\ Len(cluster.inputs) \in Nat
  <2>1. cluster.inputs \in Seq(Signals)  BY <1>2, Zenon DEF IsCluster
  <2> QED  BY <1>1, <1>2, <1>4, <1>5, <2>1, RoomFinite, LenProperties
<1>11. CountsFit(todo(<<"nor">>), todo(<<"nor", "lut">>), todo(<<"nand", "lut">>), todo(<<"lut">>),
                 Cells("nor"), Cells("nand"), Cells("lut"))
  <2> DEFINE f == todo(<<"nor">>)
             n == todo(<<"nor", "lut">>)
             d == todo(<<"nand", "lut">>)
             l == todo(<<"lut">>)
             a == Cells("nor")
             b == Cells("nand")
             c == Cells("lut")
  <2>1. /\ f <= a /\ Excess(f + n, a) + Excess(d, b) + l <= c
    BY <1>3, <1>8
  <2>2. /\ f \in Nat /\ n \in Nat /\ d \in Nat /\ l \in Nat
        /\ a \in Nat /\ b \in Nat /\ c \in Nat
    BY <1>10
  <2> HIDE DEF f, n, d, l, a, b, c
  <2>3. CountsFit(f, n, d, l, a, b, c)
    BY <2>1, <2>2 DEF CountsFit, Excess
  <2> QED  BY <2>3 DEF f, n, d, l, a, b, c
<1>12. todo(<<"in">>) <= Cells("in")
  <2> HIDE DEF todo, Cells
  <2> QED  BY <1>3, <1>9, <1>10
<1>13. Room(cluster, EmptyChip)
  BY <1>3, <1>4, <1>5, <1>11, <1>12 DEF Room
<1> QED  BY <1>1, <1>13 DEF RoomInv, Init

\* The signal that is next has no cell.
LEMMA NextUnplaced ==
  ASSUME TypeInv, WiredInv, next \in DOMAIN Order
  PROVE  builder.cells[Order[next]] = None
<1>1. next \in Nat /\ next > next - 1
  BY DEF TypeInv, TypeOK
<1> QED  BY <1>1 DEF WiredInv, Unplaced

\* Every step leaves room.
LEMMA RoomStep ==
  ASSUME TypeInv, WiredInv, ServedInv, RoomInv, [Next]_vars  PROVE RoomInv'
<1> USE DEF RoomInv
<1>1. /\ cluster \in Clusters /\ IsBuilder(builder) /\ IsBuilder(work)
      /\ Order \in Seq(Signals)
  BY OrderType DEF TypeInv, TypeOK
<1>2. CASE UNCHANGED vars
  BY <1>2 DEF vars, attempt, searching
<1>3. CASE StartSignal \/ Routed \/ NoRoute \/ Attempted \/ Placed \/ Joined
  BY <1>3 DEF StartSignal, Routed, NoRoute, Attempted, Placed, Joined, attempt
<1>4. CASE TryCell
  <2> DEFINE loc == Head(untried)
             chip == Place(builder, signal, loc)
  <2>1. /\ pc = "try" /\ untried # << >> /\ next \in DOMAIN Order
        /\ UNCHANGED <<cluster, builder, next, best>>
        /\ \/ pc' = "route" /\ work' = chip /\ CheckCapacity(chip)
           \/ pc' = "try"
    BY <1>4, Zenon DEF TryCell, TypeInv
  <2>2. loc \in Elements(untried)
    BY <2>1, HeadAndTail DEF TypeInv, TypeOK
  <2>3. loc \in builder.free /\ loc \in Coords /\ Suited(cluster, loc, Order[next])
    BY <1>1, <2>1, <2>2, BuilderFields DEF ServedInv, signal
  <2>4. IsBuilder(chip) /\ HasPlaced(chip, builder, Order[next], loc)
    BY <1>1, <2>1, <2>3, PlaceType DEF signal
  <2>5. builder.cells[Order[next]] = None
    BY <2>1, NextUnplaced
  <2> HIDE DEF loc, chip
  <2>6. CheckCapacity(chip) => Room(cluster, chip)
    BY <1>1, <2>1, <2>3, <2>4, <2>5, RoomPlace
  <2> QED  BY <2>1, <2>6
<1>5. CASE (\E use \in left : RouteUse(use)) \/ RouteOutput
  <2>1. PICK t \in {signal} \X BOOLEAN, loc \in Coords : RouteEffect(t, loc)
    BY <1>5, RouteDoes
  <2>2. /\ pc = "route" /\ pc' \in {"route", "search"}
        /\ UNCHANGED <<cluster, builder, next, best>>
        /\ UseTaken(t, loc) \/ OutputTakenFor(t, loc)
    BY <2>1 DEF RouteEffect, Started
  <2>3. UseTaken(t, loc) => Room(cluster, work')
    BY <2>2 DEF UseTaken
  <2>4. ASSUME OutputTakenFor(t, loc)
        PROVE  Room(cluster, work')
    <3>1. /\ signal \in Open(cluster, work) /\ loc \in Available(work, "out")
          /\ HasOutput(work', work, signal, loc)
      BY <2>4 DEF OutputTakenFor, NeedsOutput, Open
    <3> QED  BY <1>1, <2>2, <3>1, RoomOutput
  <2> QED  BY <2>2, <2>3, <2>4
<1>6. CASE Expand
  <2>1. PICK from, fresh : ExpandEffect(from, fresh)
    BY <1>6, ExpandDoes
  <2> QED  BY <2>1 DEF ExpandEffect
<1>7. CASE Walk
  <2>1. WalkEffect(pred[lane])
    BY <1>7, WalkDoes
  <2>2. /\ pc = "search" /\ pc' \in {"route", "search"}
        /\ UNCHANGED <<cluster, builder, next, best>>
        /\ work'.cells = work.cells /\ work'.outs = work.outs /\ work'.free = work.free
    BY <2>1 DEF WalkEffect, HasLane
  <2>3. Room(cluster, work')
    BY <2>2, RoomSame
  <2> QED  BY <2>2, <2>3
<1> QED
  BY <1>2, <1>3, <1>4, <1>5, <1>6, <1>7 DEF Next, Step, Stopped

\* A cluster that fits the chip never runs out of cells: the next signal has a candidate
\* that CheckCapacity lets in, and an output finds an output cell.
THEOREM CellsLast == Spec => []CellsSuffice
<1>1. Init => TypeInv /\ WiredInv /\ ServedInv /\ RoomInv
  BY TypeInit, WiredInit, ServedInit, RoomInit
<1>2. TypeInv /\ WiredInv /\ ServedInv /\ RoomInv /\ [Next]_vars
        => TypeInv' /\ WiredInv' /\ ServedInv' /\ RoomInv'
  BY TypeStep, WiredStep, ServedStep, RoomStep
<1>3. TypeInv /\ WiredInv /\ ServedInv /\ RoomInv => CellsSuffice
  <2> SUFFICES ASSUME TypeInv, WiredInv, RoomInv  PROVE CellsSuffice
    OBVIOUS
  <2>1. cluster \in Clusters /\ IsBuilder(builder) /\ IsBuilder(work)
    BY DEF TypeInv, TypeOK
  <2>2. ASSUME pc = "route", left = {}, NeedsOutput
        PROVE  Available(work, "out") # {}
    <3>1. signal \in Open(cluster, work)
      BY <2>2 DEF NeedsOutput, Open
    <3>2. Cardinality(Open(cluster, work)) > 0 /\ Cardinality(Open(cluster, work)) \in Nat
      BY <2>1, <3>1, RoomFinite, OneFewer
    <3>3. /\ Cardinality(Open(cluster, work)) <= Cardinality(Available(work, "out"))
          /\ Cardinality(Available(work, "out")) \in Nat
      BY <2>1, <2>2, RoomFinite DEF RoomInv, Room
    <3>4. Cardinality(Available(work, "out")) # 0
      BY <3>2, <3>3
    <3> QED  BY <3>4, FS_EmptySet
  <2>3. CheckCapacity(builder)
    BY CapacityCounts DEF RoomInv, Room
  <2>4. ASSUME next \in DOMAIN Order
        PROVE  \E loc \in Elements(Candidates(signal)) : CheckCapacity(Place(builder, signal, loc))
    BY <2>1, <2>4, NextUnplaced, RoomChoice DEF RoomInv, signal
  <2> QED  BY <2>2, <2>3, <2>4 DEF CellsSuffice
<1> QED  BY <1>1, <1>2, <1>3, PTL DEF Spec

=============================================================================
