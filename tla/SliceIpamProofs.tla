--------------------------- MODULE SliceIpamProofs ---------------------------
(***************************************************************************)
(* What ComputeClusterMap returns whenever it returns at all, for every    *)
(* list of clusters and every set of existing octets.                      *)
(***************************************************************************)
EXTENDS SliceIpam, FiniteSetTheorems, TLAPS

(* What a call needs: a list without duplicates (the webhooks refuse one), *)
(* and no octet that two of the listed objects carry.                      *)
Callable(clusterNames, listed, S) ==
  /\ clusterNames \in Seq(S) /\ IsInjective(clusterNames)
  /\ listed \in [DOMAIN listed -> Nat \cup {NoOctet}]
  /\ \A c, d \in KeepsOctet(listed) : listed[c] = listed[d] => c = d

(* The clusters before c in the list that have no octet yet: currentIndex  *)
(* is their number.                                                        *)
Before(clusterNames, listed, c) ==
  {j \in 1 .. Len(clusterNames) :
     /\ clusterNames[j] \notin KeepsOctet(listed)
     /\ \E i \in 1 .. Len(clusterNames) : j < i /\ clusterNames[i] = c}

(* Of two clusters that both need an octet, the one later in the list has  *)
(* a larger currentIndex: the increment separates them.                    *)
LEMMA CurrentIndexDistinct ==
  ASSUME NEW S, NEW clusterNames, NEW listed, Callable(clusterNames, listed, S),
         NEW i \in 1 .. Len(clusterNames), NEW k \in 1 .. Len(clusterNames), i < k,
         clusterNames[i] \notin KeepsOctet(listed)
  PROVE  CurrentIndex(clusterNames, listed, clusterNames[i])
           # CurrentIndex(clusterNames, listed, clusterNames[k])
<1> DEFINE A == Before(clusterNames, listed, clusterNames[i])
           B == Before(clusterNames, listed, clusterNames[k])
<1>0. /\ Len(clusterNames) \in Nat
      /\ \A a, b \in 1 .. Len(clusterNames) : clusterNames[a] = clusterNames[b] => a = b
  BY DEF Callable, IsInjective
<1>1. A \subseteq B
  BY <1>0 DEF Before
<1>2. i \in B /\ i \notin A
  BY <1>0 DEF Before
<1>3. IsFiniteSet(1 .. Len(clusterNames))
  BY <1>0, FS_Interval
<1>4. B \subseteq 1 .. Len(clusterNames)
  BY DEF Before
<1>5. IsFiniteSet(B)
  <2> HIDE DEF B
  <2> QED BY <1>3, <1>4, FS_Subset
<1>6. Cardinality(A) # Cardinality(B)
  <2> HIDE DEF A, B
  <2> QED BY <1>1, <1>2, <1>5, FS_Subset
<1> QED BY <1>6 DEF CurrentIndex, Before

(* Each cluster that needs an octet is given an unused one, at the place   *)
(* currentIndex says.                                                      *)
LEMMA NewIndex ==
  ASSUME NEW clusterNames, NEW listed,
         ~ComputeClusterMapPanics(clusterNames, listed),
         NEW c \in NeedsOctet(clusterNames, listed)
  PROVE  LET x == ComputeClusterMap(clusterNames, listed)[c]
             unused == UnUsedIndexes(clusterNames, listed)
         IN  x \in unused /\ IsUnUsedAt(unused, CurrentIndex(clusterNames, listed, c), x)
<1> DEFINE unused == UnUsedIndexes(clusterNames, listed)
           k == CurrentIndex(clusterNames, listed, c)
           P(x) == IsUnUsedAt(unused, k, x)
<1>1. \E x \in unused : P(x)
  BY DEF ComputeClusterMapPanics
<1>2. ComputeClusterMap(clusterNames, listed)[c] = CHOOSE x \in unused : P(x)
  BY DEF ComputeClusterMap, NeedsOctet
<1> HIDE DEF unused, P, k
<1>3. (CHOOSE x \in unused : P(x)) \in unused /\ P(CHOOSE x \in unused : P(x))
  BY <1>1
<1> QED BY <1>2, <1>3 DEF P, unused, k

(* ComputeClusterMap, when it does not panic, gives every cluster of the   *)
(* slice a natural number and keeps the octets that exist; the new ones    *)
(* are smaller than the number of clusters.                                *)
THEOREM ComputeClusterMapType ==
  ASSUME NEW clusterNames, Len(clusterNames) \in Nat,
         NEW listed, listed \in [DOMAIN listed -> Nat \cup {NoOctet}],
         ~ComputeClusterMapPanics(clusterNames, listed)
  PROVE  LET map == ComputeClusterMap(clusterNames, listed)
         IN  /\ map \in [Range(clusterNames) \cup KeepsOctet(listed) -> Nat]
             /\ \A c \in KeepsOctet(listed) : map[c] = listed[c]
             /\ \A c \in NeedsOctet(clusterNames, listed) : map[c] < Len(clusterNames)
<1> DEFINE map == ComputeClusterMap(clusterNames, listed)
           keeps == KeepsOctet(listed)
           names == Range(clusterNames)
           unused == UnUsedIndexes(clusterNames, listed)
<1>1. \A c \in keeps : map[c] = listed[c]
  BY DEF ComputeClusterMap
<1>2. \A c \in keeps : listed[c] \in Nat
  BY DEF KeepsOctet
<1>3. \A c \in names \ keeps : map[c] \in unused
  BY NewIndex DEF NeedsOctet
<1>4. unused \subseteq Nat /\ \A x \in unused : x < Len(clusterNames)
  BY DEF UnUsedIndexes
<1>5. map = [c \in names \cup keeps |-> map[c]]
  BY DEF ComputeClusterMap
<1> HIDE DEF map, keeps, names, unused
<1>6. \A c \in names \cup keeps : map[c] \in Nat
  BY <1>1, <1>2, <1>3, <1>4
<1>7. map \in [names \cup keeps -> Nat]
  BY <1>5, <1>6
<1>8. \A c \in names \ keeps : map[c] < Len(clusterNames)
  BY <1>3, <1>4
<1> QED BY <1>1, <1>7, <1>8 DEF map, keeps, names, NeedsOctet

(* ComputeClusterMap, when it does not panic, gives no two clusters the    *)
(* same octet, neither two new ones nor a new one and one that exists.     *)
THEOREM ComputeClusterMapInjective ==
  ASSUME NEW S, NEW clusterNames, NEW listed, Callable(clusterNames, listed, S),
         ~ComputeClusterMapPanics(clusterNames, listed)
  PROVE  IsInjective(ComputeClusterMap(clusterNames, listed))
<1> DEFINE map == ComputeClusterMap(clusterNames, listed)
           keeps == KeepsOctet(listed)
           names == Range(clusterNames)
           unused == UnUsedIndexes(clusterNames, listed)
<1>1. DOMAIN map = names \cup keeps
  BY DEF ComputeClusterMap
<1>2. \A c \in keeps : map[c] = listed[c] /\ listed[c] \notin unused
  BY DEF ComputeClusterMap, UnUsedIndexes, UsedIndexes
<1>3. \A c \in names \ keeps :
        map[c] \in unused /\ IsUnUsedAt(unused, CurrentIndex(clusterNames, listed, c), map[c])
  BY NewIndex DEF NeedsOctet
<1>4. ASSUME NEW c \in names \cup keeps, NEW d \in names \cup keeps, map[c] = map[d]
      PROVE  c = d
  <2>1. CASE c \in keeps /\ d \in keeps
    BY <1>2, <1>4, <2>1 DEF Callable
  <2>2. CASE c \in keeps <=> d \notin keeps
    <3> HIDE DEF map, keeps, names, unused
    <3> QED BY <1>2, <1>3, <1>4, <2>2
  <2>3. CASE c \notin keeps /\ d \notin keeps
    <3>1. PICK i \in 1 .. Len(clusterNames), k \in 1 .. Len(clusterNames) :
            c = clusterNames[i] /\ d = clusterNames[k]
      BY <2>3 DEF Range, Callable
    <3>2. CurrentIndex(clusterNames, listed, c) = CurrentIndex(clusterNames, listed, d)
      <4>1. c \in names \ keeps /\ d \in names \ keeps
        BY <2>3
      <4> HIDE DEF map, keeps, names, unused
      <4> QED BY <1>3, <1>4, <4>1 DEF IsUnUsedAt
    <3>3. ~(i < k) /\ ~(k < i)
      BY <2>3, <3>1, <3>2, CurrentIndexDistinct
    <3> QED BY <3>1, <3>3
  <2> QED BY <2>1, <2>2, <2>3
<1> HIDE DEF map, keeps, names
<1>5. IsInjective(map)
  BY <1>1, <1>4 DEF IsInjective
<1> QED BY <1>5 DEF map
(* The octets that exist are those of a list that only grows and shrinks   *)
(* at its end: a cluster of the list has its position, counted from zero,  *)
(* and the others come after them.                                         *)
PlacesFit(clusterNames, listed) ==
  /\ \A i \in 1 .. Len(clusterNames) :
       clusterNames[i] \in KeepsOctet(listed) => listed[clusterNames[i]] = i - 1
  /\ \A c \in KeepsOctet(listed) \ Range(clusterNames) : listed[c] >= Len(clusterNames)

(* The unused indexes are then the places of the clusters without octet.   *)
LEMMA UnUsedPlaces ==
  ASSUME NEW S, NEW clusterNames, NEW listed, Callable(clusterNames, listed, S),
         PlacesFit(clusterNames, listed), NEW j \in 1 .. Len(clusterNames)
  PROVE  j - 1 \in UnUsedIndexes(clusterNames, listed) <=> clusterNames[j] \notin KeepsOctet(listed)
<1> DEFINE keeps == KeepsOctet(listed)
<1>1. Len(clusterNames) \in Nat /\ \A c \in keeps : listed[c] \in Nat
  BY DEF Callable, KeepsOctet
<1>2. j - 1 \in 0 .. Len(clusterNames) - 1
  BY <1>1
<1>3. j - 1 \in UnUsedIndexes(clusterNames, listed) <=> \A c \in keeps : listed[c] # j - 1
  BY <1>2 DEF UnUsedIndexes, UsedIndexes
<1>4. clusterNames[j] \in keeps => listed[clusterNames[j]] = j - 1
  BY DEF PlacesFit
<1>5. ASSUME NEW c \in keeps, listed[c] = j - 1 PROVE clusterNames[j] \in keeps
  <2>1. c \in Range(clusterNames)
    <3>1. c \notin Range(clusterNames) => listed[c] >= Len(clusterNames)
      BY DEF PlacesFit
    <3> HIDE DEF keeps
    <3> QED BY <1>1, <1>5, <3>1
  <2>2. PICK i \in 1 .. Len(clusterNames) : clusterNames[i] = c
    BY <1>1, <2>1 DEF Range, Callable
  <2>3. listed[c] = i - 1
    BY <2>2 DEF PlacesFit
  <2>4. i = j
    BY <1>5, <2>3
  <2> QED BY <2>2, <2>4
<1> QED BY <1>3, <1>4, <1>5

(* As many of them are below the place of a cluster as there are clusters  *)
(* before it that need one ...                                             *)
LEMMA PlaceIsNext ==
  ASSUME NEW S, NEW clusterNames, NEW listed, Callable(clusterNames, listed, S),
         PlacesFit(clusterNames, listed),
         NEW i \in 1 .. Len(clusterNames), clusterNames[i] \notin KeepsOctet(listed)
  PROVE  IsUnUsedAt(UnUsedIndexes(clusterNames, listed),
                    CurrentIndex(clusterNames, listed, clusterNames[i]), i - 1)
<1> DEFINE unused == UnUsedIndexes(clusterNames, listed)
           A == Before(clusterNames, listed, clusterNames[i])
           B == {y \in unused : y < i - 1}
           f == [j \in A |-> j - 1]
<1>1. /\ Len(clusterNames) \in Nat
      /\ \A a, b \in 1 .. Len(clusterNames) : clusterNames[a] = clusterNames[b] => a = b
  BY DEF Callable, IsInjective
<1>2. A = {j \in 1 .. Len(clusterNames) : clusterNames[j] \notin KeepsOctet(listed) /\ j < i}
  BY <1>1 DEF Before
<1>3. \A j \in 1 .. Len(clusterNames) : j - 1 \in unused <=> clusterNames[j] \notin KeepsOctet(listed)
  BY UnUsedPlaces
<1>4. unused \subseteq 0 .. Len(clusterNames) - 1
  BY DEF UnUsedIndexes
<1>5. IsFiniteSet(A)
  <2>1. IsFiniteSet(1 .. Len(clusterNames)) /\ A \subseteq 1 .. Len(clusterNames)
    BY <1>1, <1>2, FS_Interval
  <2> HIDE DEF A
  <2> QED BY <2>1, FS_Subset
<1> HIDE DEF unused, A
<1>6. f \in Bijection(A, B)
  <2>1. ASSUME NEW j \in A PROVE j - 1 \in B
    BY <1>2, <1>3, <2>1
  <2>2. ASSUME NEW y \in B PROVE y + 1 \in A /\ f[y + 1] = y
    <3>1. y + 1 \in 1 .. Len(clusterNames) /\ y + 1 < i /\ (y + 1) - 1 = y
      BY <1>1, <1>4, <2>2
    <3>2. y + 1 \in A
      BY <1>2, <1>3, <3>1
    <3> QED BY <3>1, <3>2
  <2>3. \A j, k \in A : f[j] = f[k] => j = k
    BY <1>2
  <2>4. f \in [A -> B]
    BY <2>1
  <2>5. \A y \in B : \E j \in A : f[j] = y
    BY <2>2
  <2> HIDE DEF f, B
  <2>6. IsInjective(f)
    BY <2>3, <2>4 DEF IsInjective
  <2> QED BY <2>4, <2>5, <2>6 DEF Bijection, Injection, Surjection
<1>7. Cardinality(B) = Cardinality(A)
  <2> HIDE DEF f, B
  <2> QED BY <1>5, <1>6, FS_Bijection DEF ExistsBijection
<1>8. i - 1 \in unused
  BY <1>3
<1> QED BY <1>7, <1>8 DEF IsUnUsedAt, CurrentIndex, Before, A, unused

(* ... and no other index has that many below it.                          *)
LEMMA OneIndex ==
  ASSUME NEW n \in Nat, NEW unused \in SUBSET (0 .. n), NEW k, NEW x, NEW y,
         IsUnUsedAt(unused, k, x), IsUnUsedAt(unused, k, y)
  PROVE  x = y
<1>1. IsFiniteSet(unused)
  <2>1. IsFiniteSet(0 .. n)
    BY FS_Interval
  <2> QED BY <2>1, FS_Subset
<1>2. ASSUME NEW a \in unused, NEW b \in unused, a < b
      PROVE  Cardinality({z \in unused : z < a}) # Cardinality({z \in unused : z < b})
  <2> DEFINE A == {z \in unused : z < a}
             B == {z \in unused : z < b}
  <2>1. A \subseteq B /\ a \in B /\ a \notin A /\ B \subseteq unused
    <3>1. a \in Int /\ b \in Int /\ \A z \in unused : z \in Int
      OBVIOUS
    <3>2. ~(a < a) /\ \A z \in unused : z < a => z < b
      BY ONLY <1>2, <3>1
    <3> QED BY <1>2, <3>2
  <2> HIDE DEF A, B
  <2>2. IsFiniteSet(B)
    BY <1>1, <2>1, FS_Subset
  <2>3. Cardinality(A) # Cardinality(B)
    BY <2>1, <2>2, FS_Subset
  <2> QED BY <2>3 DEF A, B
<1>3. x \in unused /\ y \in unused /\ ~(x < y) /\ ~(y < x)
  BY <1>2 DEF IsUnUsedAt
<1> QED BY <1>3

(* With lists that only grow and shrink at their end ComputeClusterMap     *)
(* never panics, and the octet of a cluster is its position in the list:   *)
(* a cluster that leaves and comes back gets the subnet it had.            *)
THEOREM ComputeClusterMapInPlace ==
  ASSUME NEW S, NEW clusterNames, NEW listed, Callable(clusterNames, listed, S),
         PlacesFit(clusterNames, listed)
  PROVE  /\ ~ComputeClusterMapPanics(clusterNames, listed)
         /\ \A i \in 1 .. Len(clusterNames) :
              ComputeClusterMap(clusterNames, listed)[clusterNames[i]] = i - 1
<1> DEFINE unused == UnUsedIndexes(clusterNames, listed)
           map == ComputeClusterMap(clusterNames, listed)
<1>1. Len(clusterNames) \in Nat
  BY DEF Callable
<1>2. unused \subseteq 0 .. Len(clusterNames)
  BY <1>1 DEF UnUsedIndexes
<1>3. ASSUME NEW c \in NeedsOctet(clusterNames, listed)
      PROVE  \E i \in 1 .. Len(clusterNames) : c = clusterNames[i] /\ c \notin KeepsOctet(listed)
  BY <1>1 DEF NeedsOctet, Range, Callable
<1>4. ~ComputeClusterMapPanics(clusterNames, listed)
  <2>1. ASSUME NEW c \in NeedsOctet(clusterNames, listed)
        PROVE  \E x \in unused : IsUnUsedAt(unused, CurrentIndex(clusterNames, listed, c), x)
    <3>1. PICK i \in 1 .. Len(clusterNames) : c = clusterNames[i] /\ c \notin KeepsOctet(listed)
      BY <1>3
    <3>2. IsUnUsedAt(unused, CurrentIndex(clusterNames, listed, c), i - 1)
      BY <3>1, PlaceIsNext
    <3>3. i - 1 \in unused
      BY <3>2 DEF IsUnUsedAt
    <3> QED BY <3>2, <3>3
  <2> QED BY <2>1 DEF ComputeClusterMapPanics
<1>5. ASSUME NEW i \in 1 .. Len(clusterNames) PROVE map[clusterNames[i]] = i - 1
  <2>1. clusterNames[i] \in Range(clusterNames)
    BY <1>1 DEF Range, Callable
  <2>2. CASE clusterNames[i] \in KeepsOctet(listed)
    BY <2>2 DEF ComputeClusterMap, PlacesFit
  <2>3. CASE clusterNames[i] \notin KeepsOctet(listed)
    <3> DEFINE k == CurrentIndex(clusterNames, listed, clusterNames[i])
    <3>1. IsUnUsedAt(unused, k, map[clusterNames[i]])
      BY <1>4, <2>1, <2>3, NewIndex DEF NeedsOctet
    <3>2. IsUnUsedAt(unused, k, i - 1)
      BY <2>3, PlaceIsNext
    <3> HIDE DEF unused, map, k
    <3> QED BY <1>1, <1>2, <3>1, <3>2, OneIndex
  <2> QED BY <2>2, <2>3
<1> QED BY <1>4, <1>5
-----------------------------------------------------------------------------
(* Subnets.                                                                *)
PowerOf(i) ==
  /\ i = 0 => 2^i = 1
  /\ i = 1 => 2^i = 2
  /\ i = 2 => 2^i = 4
  /\ i = 3 => 2^i = 8
  /\ i = 4 => 2^i = 16
  /\ i = 5 => 2^i = 32
  /\ i = 6 => 2^i = 64
  /\ i = 7 => 2^i = 128
  /\ i = 8 => 2^i = 256

LEMMA PowersOfTwo == \A i : PowerOf(i)
<1> TAKE i
<1>1. i = 0 => 2^i = 1
  OBVIOUS
<1>2. i = 1 => 2^i = 2
  OBVIOUS
<1>3. i = 2 => 2^i = 4
  OBVIOUS
<1>4. i = 3 => 2^i = 8
  OBVIOUS
<1>5. i = 4 => 2^i = 16
  OBVIOUS
<1>6. i = 5 => 2^i = 32
  OBVIOUS
<1>7. i = 6 => 2^i = 64
  OBVIOUS
<1>8. i = 7 => 2^i = 128
  OBVIOUS
<1>9. i = 8 => 2^i = 256
  OBVIOUS
<1> QED BY <1>1, <1>2, <1>3, <1>4, <1>5, <1>6, <1>7, <1>8, <1>9 DEF PowerOf

LEMMA PowersGrow == \A i, j \in 0 .. 8 : i < j => 2^i < 2^j
BY PowersOfTwo, SMTT(60) DEF PowerOf

(* The prefix FindCIDRByMaxClusters finds divides the slice's /16 into the *)
(* least power of two of parts that is not below the number of clusters.   *)
LEMMA PrefixFits ==
  ASSUME NEW m \in 2 .. 256, NEW k \in 0 .. 7, 2^k < m, m <= 2^(k + 1)
  PROVE  FindCIDRByMaxClusters(m) = 17 + k
<1> DEFINE fits == {i \in 0 .. 7 : m > 2^i}
           P(i) == i \in fits /\ \A j \in fits : j <= i
<1>1. \A i \in 0 .. 8 : 2^i \in Nat
  BY PowersOfTwo DEF PowerOf
<1>2. k \in fits
  BY <1>1
<1>3. \A j \in fits : j <= k
  <2> SUFFICES ASSUME NEW j \in fits, j > k PROVE FALSE
    OBVIOUS
  <2>1. CASE j = k + 1
    BY <1>1, <2>1
  <2>2. CASE j > k + 1
    <3>1. k + 1 \in 0 .. 8 /\ j \in 0 .. 8 /\ m > 2^j
      OBVIOUS
    <3> HIDE DEF fits
    <3>2. \A x, y \in 0 .. 8 : x < y => 2^x < 2^y /\ 2^x \in Nat /\ 2^y \in Nat
      BY <1>1, PowersGrow
    <3> DEFINE x == k + 1
    <3>3. x \in 0 .. 8 /\ x < j /\ m <= 2^x
      BY <2>2, <3>1
    <3> HIDE DEF x
    <3>4. 2^x < 2^j /\ 2^x \in Nat /\ 2^j \in Nat
      BY <3>1, <3>2, <3>3
    <3> QED BY <3>1, <3>3, <3>4
  <2> QED BY <2>1, <2>2
<1> HIDE DEF fits
<1>4. \A i : P(i) => i = k
  <2>1. fits \subseteq 0 .. 7
    BY DEF fits
  <2> QED BY <1>2, <1>3, <2>1
<1>5. P(k)
  BY <1>2, <1>3
<1>6. (CHOOSE i : P(i)) = k
  BY <1>4, <1>5
<1>7. (CHOOSE i \in fits : \A j \in fits : j <= i) = k
  BY <1>6
<1>8. fits # {}
  BY <1>2
<1> QED BY <1>7, <1>8 DEF FindCIDRByMaxClusters, fits

LEMMA SomePower ==
  ASSUME NEW m \in 2 .. 256
  PROVE  \E k \in 0 .. 7 : 2^k < m /\ m <= 2^(k + 1)
<1>1. CASE m \in 2 .. 2
  <2>1. 2^0 < m /\ m <= 2^(0 + 1)
    BY <1>1
  <2> QED BY <2>1
<1>2. CASE m \in 3 .. 4
  <2>1. 2^1 < m /\ m <= 2^(1 + 1)
    BY <1>2
  <2> QED BY <2>1
<1>3. CASE m \in 5 .. 8
  <2>1. 2^2 < m /\ m <= 2^(2 + 1)
    BY <1>3
  <2> QED BY <2>1
<1>4. CASE m \in 9 .. 16
  <2>1. 2^3 < m /\ m <= 2^(3 + 1)
    BY <1>4
  <2> QED BY <2>1
<1>5. CASE m \in 17 .. 32
  <2>1. 2^4 < m /\ m <= 2^(4 + 1)
    BY <1>5
  <2> QED BY <2>1
<1>6. CASE m \in 33 .. 64
  <2>1. 2^5 < m /\ m <= 2^(5 + 1)
    BY <1>6
  <2> QED BY <2>1
<1>7. CASE m \in 65 .. 128
  <2>1. 2^6 < m /\ m <= 2^(6 + 1)
    BY <1>7
  <2> QED BY <2>1
<1>8. CASE m \in 129 .. 256
  <2>1. 2^7 < m /\ m <= 2^(7 + 1)
    BY <1>8
  <2> QED BY <2>1
<1> QED BY <1>1, <1>2, <1>3, <1>4, <1>5, <1>6, <1>7, <1>8
(* Prefixes 17 to 24 end in the third octet.                               *)
LEMMA ThirdOctetControls ==
  ASSUME NEW k \in 0 .. 7
  PROVE  subnetOctetDiff(17 + k) = [octet |-> 3, diff |-> 2^(7 - k)]
<1>1. CASE k = 0
  <2>1. subnetOctetDiff(17) = [octet |-> 3, diff |-> 128]
    BY DEF subnetOctetDiff
  <2> QED BY <1>1, <2>1
<1>2. CASE k = 1
  <2>1. subnetOctetDiff(18) = [octet |-> 3, diff |-> 64]
    BY DEF subnetOctetDiff
  <2> QED BY <1>2, <2>1
<1>3. CASE k = 2
  <2>1. subnetOctetDiff(19) = [octet |-> 3, diff |-> 32]
    BY DEF subnetOctetDiff
  <2> QED BY <1>3, <2>1
<1>4. CASE k = 3
  <2>1. subnetOctetDiff(20) = [octet |-> 3, diff |-> 16]
    BY DEF subnetOctetDiff
  <2> QED BY <1>4, <2>1
<1>5. CASE k = 4
  <2>1. subnetOctetDiff(21) = [octet |-> 3, diff |-> 8]
    BY DEF subnetOctetDiff
  <2> QED BY <1>5, <2>1
<1>6. CASE k = 5
  <2>1. subnetOctetDiff(22) = [octet |-> 3, diff |-> 4]
    BY DEF subnetOctetDiff
  <2> QED BY <1>6, <2>1
<1>7. CASE k = 6
  <2>1. subnetOctetDiff(23) = [octet |-> 3, diff |-> 2]
    BY DEF subnetOctetDiff
  <2> QED BY <1>7, <2>1
<1>8. CASE k = 7
  <2>1. subnetOctetDiff(24) = [octet |-> 3, diff |-> 1]
    BY DEF subnetOctetDiff
  <2> QED BY <1>8, <2>1
<1> QED BY <1>1, <1>2, <1>3, <1>4, <1>5, <1>6, <1>7, <1>8

(* The subnet of the cluster with octet o, with its size in the third      *)
(* octet.                                                                  *)
PoolOf(sliceSubnet, m, o) == GetClusterPrefixPool(sliceSubnet, o, FindCIDRByMaxClusters(m))
SizeOf(m) == 2^(24 - FindCIDRByMaxClusters(m))

LEMMA SizeFits ==
  ASSUME NEW m \in 2 .. 256
  PROVE  \E k \in 0 .. 7 : /\ FindCIDRByMaxClusters(m) = 17 + k /\ SizeOf(m) = 2^(7 - k)
                           /\ 2^k < m /\ m <= 2^(k + 1)
<1>1. PICK k \in 0 .. 7 : 2^k < m /\ m <= 2^(k + 1)
  BY SomePower
<1>2. FindCIDRByMaxClusters(m) = 17 + k
  BY <1>1, PrefixFits
<1>3. 24 - (17 + k) = 7 - k
  OBVIOUS
<1>4. SizeOf(m) = 2^(7 - k)
  BY <1>2, <1>3, Zenon DEF SizeOf
<1> QED BY <1>1, <1>2, <1>4

(* The sizes there are, and how many clusters each of them serves.         *)
LEMMA Sizes ==
  ASSUME NEW m \in 2 .. 256
  PROVE  \/ SizeOf(m) = 128 /\ m = 2
         \/ SizeOf(m) = 64 /\ m \in 3 .. 4
         \/ SizeOf(m) = 32 /\ m \in 5 .. 8
         \/ SizeOf(m) = 16 /\ m \in 9 .. 16
         \/ SizeOf(m) = 8 /\ m \in 17 .. 32
         \/ SizeOf(m) = 4 /\ m \in 33 .. 64
         \/ SizeOf(m) = 2 /\ m \in 65 .. 128
         \/ SizeOf(m) = 1 /\ m \in 129 .. 256
<1>1. PICK k \in 0 .. 7 : SizeOf(m) = 2^(7 - k) /\ 2^k < m /\ m <= 2^(k + 1)
  BY SizeFits
<1>2. CASE k = 0
  BY <1>1, <1>2
<1>3. CASE k = 1
  BY <1>1, <1>3
<1>4. CASE k = 2
  BY <1>1, <1>4
<1>5. CASE k = 3
  BY <1>1, <1>5
<1>6. CASE k = 4
  BY <1>1, <1>6
<1>7. CASE k = 5
  BY <1>1, <1>7
<1>8. CASE k = 6
  BY <1>1, <1>8
<1>9. CASE k = 7
  BY <1>1, <1>9
<1> QED BY <1>2, <1>3, <1>4, <1>5, <1>6, <1>7, <1>8, <1>9

LEMMA ControlledOctet ==
  ASSUME NEW m \in 2 .. 256
  PROVE  /\ FindCIDRByMaxClusters(m) \in 17 .. 24
         /\ subnetOctetDiff(FindCIDRByMaxClusters(m)).octet = 3
         /\ subnetOctetDiff(FindCIDRByMaxClusters(m)).diff = SizeOf(m)
<1>1. PICK k \in 0 .. 7 : FindCIDRByMaxClusters(m) = 17 + k /\ SizeOf(m) = 2^(7 - k)
  BY SizeFits
<1>2. subnetOctetDiff(FindCIDRByMaxClusters(m)) = [octet |-> 3, diff |-> SizeOf(m)]
  BY <1>1, ThirdOctetControls
<1> QED BY <1>1, <1>2

(* For every slice subnet and every number of clusters up to the 256 that  *)
(* FindCIDRByMaxClusters can tell apart, GetClusterPrefixPool gives every  *)
(* octet below that number a subnet of the slice's /16, aligned to its own *)
(* size, and no two octets a common address.                               *)
THEOREM SubnetsApart ==
  ASSUME NEW sliceSubnet, NEW m \in 2 .. 256, NEW o \in 0 .. m - 1
  PROVE  /\ FindCIDRByMaxClusters(m) \in 17 .. 24
         /\ PoolOf(sliceSubnet, m, o).prefix = FindCIDRByMaxClusters(m)
         /\ PoolOf(sliceSubnet, m, o).octets[1] = sliceSubnet[1]
         /\ PoolOf(sliceSubnet, m, o).octets[2] = sliceSubnet[2]
         /\ PoolOf(sliceSubnet, m, o).octets[3] = o * SizeOf(m)
         /\ PoolOf(sliceSubnet, m, o).octets[4] = 0
         /\ o * SizeOf(m) \in 0 .. 255 /\ o * SizeOf(m) + SizeOf(m) <= 256
         /\ (o * SizeOf(m)) % SizeOf(m) = 0
         /\ \A p \in 0 .. m - 1 : o < p => o * SizeOf(m) + SizeOf(m) <= p * SizeOf(m)
<1>1. /\ o * SizeOf(m) \in 0 .. 255 /\ o * SizeOf(m) + SizeOf(m) <= 256
      /\ (o * SizeOf(m)) % SizeOf(m) = 0
      /\ \A p \in 0 .. m - 1 : o < p => o * SizeOf(m) + SizeOf(m) <= p * SizeOf(m)
  <2>1. CASE SizeOf(m) = 128 /\ m = 2
    BY <2>1
  <2>2. CASE SizeOf(m) = 64 /\ m \in 3 .. 4
    BY <2>2
  <2>3. CASE SizeOf(m) = 32 /\ m \in 5 .. 8
    BY <2>3
  <2>4. CASE SizeOf(m) = 16 /\ m \in 9 .. 16
    BY <2>4
  <2>5. CASE SizeOf(m) = 8 /\ m \in 17 .. 32
    BY <2>5
  <2>6. CASE SizeOf(m) = 4 /\ m \in 33 .. 64
    BY <2>6
  <2>7. CASE SizeOf(m) = 2 /\ m \in 65 .. 128
    BY <2>7
  <2>8. CASE SizeOf(m) = 1 /\ m \in 129 .. 256
    BY <2>8
  <2> QED BY <2>1, <2>2, <2>3, <2>4, <2>5, <2>6, <2>7, <2>8, Sizes
<1>2. PoolOf(sliceSubnet, m, o).prefix = FindCIDRByMaxClusters(m)
  BY DEF PoolOf, GetClusterPrefixPool
<1>3. /\ PoolOf(sliceSubnet, m, o).octets[1] = sliceSubnet[1]
      /\ PoolOf(sliceSubnet, m, o).octets[2] = sliceSubnet[2]
      /\ PoolOf(sliceSubnet, m, o).octets[3] = o * SizeOf(m)
      /\ PoolOf(sliceSubnet, m, o).octets[4] = 0
  <2>1. /\ subnetOctetDiff(FindCIDRByMaxClusters(m)).octet = 3
        /\ subnetOctetDiff(FindCIDRByMaxClusters(m)).diff = SizeOf(m)
    BY ControlledOctet
  <2> QED BY <2>1 DEF PoolOf, GetClusterPrefixPool
<1>4. FindCIDRByMaxClusters(m) \in 17 .. 24
  BY ControlledOctet
<1> QED BY <1>1, <1>2, <1>3, <1>4
-----------------------------------------------------------------------------
(* Gateway numbers.                                                        *)
Triangle(m) == ((m - 1) * (m - 2)) \div 2

LEMMA TriangleTwice ==
  ASSUME NEW m \in Nat PROVE Triangle(m) \in Int /\ 2 * Triangle(m) = (m - 1) * (m - 2)
<1>1. \E k \in Nat : m = 2 * k \/ m = 2 * k + 1
  <2>1. m \div 2 \in Nat /\ (m = 2 * (m \div 2) \/ m = 2 * (m \div 2) + 1)
    OBVIOUS
  <2> QED BY <2>1
<1>2. PICK k \in Nat : m = 2 * k \/ m = 2 * k + 1
  BY <1>1
<1>3. \A q \in Int : (2 * q) \div 2 = q
  OBVIOUS
<1>4. CASE m = 2 * k
  <2> DEFINE q == (2 * k - 1) * (k - 1)
  <2>1. q \in Int /\ (m - 1) * (m - 2) = 2 * q
    BY <1>4
  <2> HIDE DEF q
  <2> QED BY <1>3, <2>1 DEF Triangle
<1>5. CASE m = 2 * k + 1
  <2> DEFINE q == k * (2 * k - 1)
  <2>1. q \in Int /\ (m - 1) * (m - 2) = 2 * q
    BY <1>5
  <2> HIDE DEF q
  <2> QED BY <1>3, <2>1 DEF Triangle
<1> QED BY <1>2, <1>4, <1>5

LEMMA TriangleNext ==
  ASSUME NEW m \in Nat PROVE Triangle(m + 1) = Triangle(m) + m - 1
<1>1. 2 * Triangle(m) = (m - 1) * (m - 2) /\ Triangle(m) \in Int
  BY TriangleTwice
<1> DEFINE n == m + 1
<1>2. 2 * Triangle(n) = (n - 1) * (n - 2) /\ Triangle(n) \in Int
  <2>1. n \in Nat
    OBVIOUS
  <2> HIDE DEF n
  <2> QED BY <2>1, TriangleTwice
<1>3. (n - 1) * (n - 2) = m * (m - 1)
  OBVIOUS
<1>4. m * (m - 1) = (m - 1) * (m - 2) + 2 * (m - 1)
  OBVIOUS
<1>5. 2 * Triangle(n) = 2 * Triangle(m) + 2 * (m - 1)
  BY <1>1, <1>2, <1>3, <1>4
<1>6. Triangle(n) = Triangle(m) + m - 1
  BY <1>1, <1>2, <1>5
<1> QED BY <1>6

LEMMA TriangleGrows ==
  ASSUME NEW m \in Nat \ {0}, NEW k \in Nat, k > m PROVE Triangle(m) + m - 1 <= Triangle(k)
<1>1. /\ 2 * Triangle(m) = (m - 1) * (m - 2) /\ Triangle(m) \in Int
      /\ 2 * Triangle(k) = (k - 1) * (k - 2) /\ Triangle(k) \in Int
  BY TriangleTwice
<1>2. m * (m - 1) <= (k - 1) * (k - 2)
  <2> DEFINE x == k - 1 - m
  <2>1. x \in Nat /\ k - 1 = m + x
    OBVIOUS
  <2>2. (k - 1) * (k - 2) = m * (m - 1) + x * (m + (m + x) - 1)
    BY <2>1
  <2>3. \A a, b \in Nat : a * b \in Nat
    OBVIOUS
  <2>4. m + (m + x) - 1 \in Nat
    BY <2>1
  <2> HIDE DEF x
  <2>5. x * (m + (m + x) - 1) \in Nat
    BY <2>1, <2>3, <2>4
  <2> QED BY <2>2, <2>5
<1>3. m * (m - 1) = (m - 1) * (m - 2) + 2 * (m - 1)
  OBVIOUS
<1>4. 2 * Triangle(m) + 2 * (m - 1) <= 2 * Triangle(k)
  BY <1>1, <1>2, <1>3
<1> QED BY <1>1, <1>4

(* calculateGatewayNumber gives different pairs of positive integers       *)
(* different numbers ...                                                   *)
THEOREM GatewayNumbersDistinct ==
  ASSUME NEW a \in Nat \ {0}, NEW b \in Nat, a < b,
         NEW c \in Nat \ {0}, NEW d \in Nat, c < d,
         calculateGatewayNumber(a, b) = calculateGatewayNumber(c, d)
  PROVE  a = c /\ b = d
<1>1. /\ calculateGatewayNumber(a, b) = Triangle(b) + a
      /\ calculateGatewayNumber(c, d) = Triangle(d) + c
  BY DEF calculateGatewayNumber, Triangle
<1>2. Triangle(b) \in Int /\ Triangle(d) \in Int
  BY TriangleTwice
<1> DEFINE tb == Triangle(b)
           td == Triangle(d)
<1>3. tb \in Int /\ td \in Int /\ tb + a = td + c
  <2>1. Triangle(b) + a = Triangle(d) + c
    BY <1>1, Zenon
  <2> QED BY <1>2, <2>1
<1>4. b < d => tb + b - 1 <= td
  BY TriangleGrows
<1>5. d < b => td + d - 1 <= tb
  BY TriangleGrows
<1> HIDE DEF tb, td
<1>6. b = d => tb = td
  BY DEF tb, td
<1>7. ~(b < d) /\ ~(d < b)
  BY <1>3, <1>4, <1>5
<1> QED BY <1>3, <1>6, <1>7

(* ... but octets start at zero, and every pair with the octet zero, from  *)
(* the second one on, shares its number with a pair without.               *)
THEOREM GatewayNumbersCollide ==
  ASSUME NEW b \in Nat, b >= 2
  PROVE  calculateGatewayNumber(0, b) = calculateGatewayNumber(b - 2, b - 1)
<1> DEFINE m == b - 1
<1>1. m \in Nat /\ b = m + 1
  OBVIOUS
<1>2. calculateGatewayNumber(0, b) = Triangle(b) + 0
  BY DEF calculateGatewayNumber, Triangle
<1>3. calculateGatewayNumber(b - 2, b - 1) = Triangle(m) + (m - 1)
  BY DEF calculateGatewayNumber, Triangle
<1> HIDE DEF m
<1>4. Triangle(b) = Triangle(m) + m - 1 /\ Triangle(m) \in Int
  BY <1>1, TriangleNext, TriangleTwice
<1> QED BY <1>1, <1>2, <1>3, <1>4
=============================================================================
