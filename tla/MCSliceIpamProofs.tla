-------------------------- MODULE MCSliceIpamProofs --------------------------
(***************************************************************************)
(* What the run on the address arithmetic checks, for every finite set of  *)
(* clusters, every range of octets and every range of Spec.MaxClusters     *)
(* within the bounds of the SliceConfig CRD.                               *)
(***************************************************************************)
EXTENDS MCSliceIpam, SliceIpamProofs

(* The inputs are the ones ComputeClusterMap and GetClusterPrefixPool are  *)
(* called with.                                                            *)
InputsInv ==
  /\ maxClusters \in MinMaxClusters .. MaxMaxClusters /\ ipamInt \in 0 .. maxClusters - 1
  /\ clusterNames \in Seq(Cluster) /\ IsInjective(clusterNames)
  /\ object \in [Cluster -> Octet \cup {NoOctet, Absent}] /\ Distinct(object)

inputs == <<maxClusters, ipamInt, clusterNames, object>>

LEMMA PermutationsAreLists ==
  ASSUME NEW l \in SetToAllKPermutations(Cluster) \cup {<<>>}
  PROVE  l \in Seq(Cluster) /\ IsInjective(l)
<1>1. CASE l = <<>>
  BY <1>1 DEF IsInjective
<1>2. CASE l \in SetToAllKPermutations(Cluster)
  <2>1. PICK S \in SUBSET Cluster : l \in SetToSeqs(S)
    BY <1>2 DEF SetToAllKPermutations
  <2> DEFINE n == Cardinality(S)
  <2>2. n \in Nat
    BY InputsAssumption, FS_Subset, FS_CardinalityType
  <2>3. l \in [1 .. n -> S] /\ \A i, j \in 1 .. n : i # j => l[i] # l[j]
    BY <2>1 DEF SetToSeqs
  <2> HIDE DEF n
  <2>4. l \in Seq(Cluster)
    BY <2>2, <2>3
  <2>5. IsInjective(l)
    BY <2>3 DEF IsInjective
  <2> QED BY <2>4, <2>5
<1> QED BY <1>1, <1>2

LEMMA InputsInvariant == Spec => []InputsInv
<1>1. Init => InputsInv
  <2> SUFFICES ASSUME Init PROVE InputsInv
    OBVIOUS
  <2>1. clusterNames \in Seq(Cluster) /\ IsInjective(clusterNames)
    BY DEF Init, IsInjective
  <2>2. maxClusters \in MinMaxClusters .. MaxMaxClusters /\ ipamInt \in 0 .. maxClusters - 1
    BY MaxClustersAssumption DEF Init
  <2>3. object \in [Cluster -> Octet \cup {NoOctet, Absent}] /\ Distinct(object)
    BY InputsAssumption DEF Init, NoObjects, Distinct, Octet
  <2> QED BY <2>1, <2>2, <2>3 DEF InputsInv
<1>2. InputsInv /\ [Next]_inputs => InputsInv'
  <2> SUFFICES ASSUME InputsInv, [Next]_inputs PROVE InputsInv'
    OBVIOUS
  <2> USE MaxClustersAssumption DEF InputsInv
  <2>1. CASE NextOctet
    BY <2>1 DEF NextOctet, Distinct
  <2>2. CASE NextMax
    BY <2>2 DEF NextMax, Distinct
  <2>3. CASE ChangeList
    BY <2>3, PermutationsAreLists DEF ChangeList, Distinct
  <2>4. ASSUME NEW c \in Cluster, NEW o \in Octet \cup {NoOctet, Absent}, ChangeObject(c, o)
        PROVE  InputsInv'
    BY <2>4 DEF ChangeObject, Distinct
  <2>5. CASE UNCHANGED inputs
    BY <2>5 DEF inputs, Distinct
  <2> QED BY <2>1, <2>2, <2>3, <2>4, <2>5 DEF Next
<1> QED BY <1>1, <1>2, PTL DEF Spec, inputs

(* The indexes ComputeClusterMap takes never collide, for any clusters,    *)
(* any list of them and any octets of the objects that exist.              *)
THEOREM MapInjectiveCorrect == Spec => []MapInjective
<1>1. InputsInv => MapInjective
  <2> SUFFICES ASSUME InputsInv PROVE MapInjective
    OBVIOUS
  <2>1. \A c \in DOMAIN listed : c \in Cluster /\ object[c] # Absent /\ listed[c] = object[c]
    BY DEF listed
  <2>2. \A c \in DOMAIN listed : listed[c] \in Octet \cup {NoOctet}
    BY <2>1 DEF InputsInv
  <2>3. listed \in [DOMAIN listed -> Nat \cup {NoOctet}]
    <3>1. listed = [c \in DOMAIN listed |-> listed[c]]
      BY DEF listed
    <3>2. Octet \subseteq Nat
      BY InputsAssumption DEF Octet
    <3> HIDE DEF listed
    <3> QED BY <2>2, <3>1, <3>2
  <2>4. \A c, d \in KeepsOctet(listed) : listed[c] = listed[d] => c = d
    BY <2>1, <2>2 DEF KeepsOctet, InputsInv, Distinct
  <2>5. Callable(clusterNames, listed, Cluster)
    BY <2>3, <2>4 DEF Callable, InputsInv
  <2> QED BY <2>5, ComputeClusterMapInjective DEF MapInjective
<1> QED BY <1>1, InputsInvariant, PTL

LEMMA PoolIs ==
  ASSUME InputsInv, NEW o \in 0 .. maxClusters - 1
  PROVE  /\ maxClusters \in 2 .. 32 /\ Pool(o).prefix \in 17 .. 24
         /\ Pool(o).octets[1] = SliceSubnet[1] /\ Pool(o).octets[2] = SliceSubnet[2]
         /\ Pool(o).octets[3] = o * SizeOf(maxClusters) /\ Pool(o).octets[4] = 0
         /\ 2^(24 - Pool(o).prefix) = SizeOf(maxClusters)
         /\ ThirdOctets(Pool(o)) = o * SizeOf(maxClusters) .. (o * SizeOf(maxClusters) + SizeOf(maxClusters) - 1)
<1>1. maxClusters \in 2 .. 32 /\ maxClusters \in 2 .. 256
  BY MaxClustersAssumption DEF InputsInv
<1>2. Pool(o).prefix = FindCIDRByMaxClusters(maxClusters)
  BY DEF Pool, GetClusterPrefixPool
<1>3. Pool(o).prefix \in 17 .. 24
  BY <1>1, <1>2, ControlledOctet
<1>4. /\ Pool(o).octets[1] = SliceSubnet[1] /\ Pool(o).octets[2] = SliceSubnet[2]
      /\ Pool(o).octets[3] = o * SizeOf(maxClusters) /\ Pool(o).octets[4] = 0
  BY <1>1, ControlledOctet DEF Pool, GetClusterPrefixPool
<1>5. 2^(24 - Pool(o).prefix) = SizeOf(maxClusters)
  BY <1>2, Zenon DEF SizeOf
<1>6. ThirdOctets(Pool(o)) = o * SizeOf(maxClusters) .. (o * SizeOf(maxClusters) + SizeOf(maxClusters) - 1)
  BY <1>4, <1>5, Zenon DEF ThirdOctets
<1> QED BY <1>1, <1>3, <1>4, <1>5, <1>6

(* For every number of clusters the CRD admits and every octet below it    *)
(* the subnet of GetClusterPrefixPool lies in the slice's, is aligned, and *)
(* shares no address with that of another octet.                           *)
THEOREM SubnetsDisjointCorrect == Spec => []SubnetsDisjoint
<1>1. InputsInv => SubnetsDisjoint
  <2> SUFFICES ASSUME InputsInv PROVE SubnetsDisjoint
    OBVIOUS
  <2> DEFINE size == SizeOf(maxClusters)
  <2>1. maxClusters \in 2 .. 256 /\ ipamInt \in 0 .. maxClusters - 1
    BY PoolIs DEF InputsInv
  <2>2. size \in Nat
    BY <2>1, Sizes
  <2>3. /\ ipamInt * size \in 0 .. 255 /\ ipamInt * size + size <= 256
        /\ (ipamInt * size) % size = 0
    BY <2>1, SubnetsApart
  <2>4. ASSUME NEW j \in (0 .. maxClusters - 1) \ {ipamInt}
        PROVE  ThirdOctets(Pool(ipamInt)) \cap ThirdOctets(Pool(j)) = {}
    <3>1. \/ ipamInt * size + size <= j * size
          \/ j * size + size <= ipamInt * size
      <4>1. CASE ipamInt < j
        BY <2>1, <4>1, SubnetsApart
      <4>2. CASE j < ipamInt
        BY <2>1, <4>2, SubnetsApart
      <4> QED BY <2>1, <4>1, <4>2
    <3>2. j * size \in Nat
      <4>1. j * size \in 0 .. 255
        BY <2>1, SubnetsApart
      <4> QED BY <4>1
    <3>3. /\ ThirdOctets(Pool(ipamInt)) = ipamInt * size .. (ipamInt * size + size - 1)
          /\ ThirdOctets(Pool(j)) = j * size .. (j * size + size - 1)
      BY <2>1, PoolIs
    <3> DEFINE a == ipamInt * size
               b == j * size
    <3>4. a \in Nat /\ b \in Nat /\ (a + size <= b \/ b + size <= a)
      BY <2>3, <3>1, <3>2
    <3> HIDE DEF a, b, size
    <3>5. (a .. (a + size - 1)) \cap (b .. (b + size - 1)) = {}
      BY <2>2, <3>4
    <3> QED BY <3>3, <3>5 DEF a, b
  <2>5. /\ Pool(ipamInt).prefix \in 17 .. 24 /\ Pool(ipamInt).octets[4] = 0
        /\ Pool(ipamInt).octets[1] = SliceSubnet[1] /\ Pool(ipamInt).octets[2] = SliceSubnet[2]
        /\ Pool(ipamInt).octets[3] = ipamInt * size /\ 2^(24 - Pool(ipamInt).prefix) = size
        /\ ThirdOctets(Pool(ipamInt)) = ipamInt * size .. (ipamInt * size + size - 1)
    BY <2>1, PoolIs
  <2>6. Pool(ipamInt).octets[3] % 2^(24 - Pool(ipamInt).prefix) = 0
    BY <2>3, <2>5, Zenon
  <2>7. ThirdOctets(Pool(ipamInt)) \subseteq 0 .. 255
    <3> DEFINE a == ipamInt * size
    <3>1. a \in Nat /\ a + size <= 256 /\ ThirdOctets(Pool(ipamInt)) = a .. (a + size - 1)
      <4>1. a \in 0 .. 255 /\ a + size <= 256
        BY <2>3
      <4>2. ThirdOctets(Pool(ipamInt)) = a .. (a + size - 1)
        BY <2>5, Zenon
      <4> HIDE DEF a, size
      <4> QED BY <4>1, <4>2
    <3> HIDE DEF a, size
    <3> QED BY <2>2, <3>1
  <2>8. \A k \in {1, 2} : Pool(ipamInt).octets[k] = SliceSubnet[k]
    BY <2>5
  <2> QED BY <2>4, <2>5, <2>6, <2>7, <2>8 DEF SubnetsDisjoint
<1> QED BY <1>1, InputsInvariant, PTL
LEMMA PowersUpTo32 ==
  ASSUME NEW m \in Nat PROVE (\E k \in 1 .. 5 : m = 2^k) <=> m \in {2, 4, 8, 16, 32}
<1>1. \A k \in 1 .. 5 : 2^k \in {2, 4, 8, 16, 32}
  BY PowersOfTwo DEF PowerOf
<1>2. 2 = 2^1 /\ 4 = 2^2 /\ 8 = 2^3 /\ 16 = 2^4 /\ 32 = 2^5
  OBVIOUS
<1>3. m \in {2, 4, 8, 16, 32} => \E k \in 1 .. 5 : m = 2^k
  <2>1. m = 2 => \E k \in 1 .. 5 : m = 2^k
    <3>1. 1 \in 1 .. 5
      OBVIOUS
    <3> QED BY <1>2, <3>1, Zenon
  <2>2. m = 4 => \E k \in 1 .. 5 : m = 2^k
    <3>1. 2 \in 1 .. 5
      OBVIOUS
    <3> QED BY <1>2, <3>1, Zenon
  <2>3. m = 8 => \E k \in 1 .. 5 : m = 2^k
    <3>1. 3 \in 1 .. 5
      OBVIOUS
    <3> QED BY <1>2, <3>1, Zenon
  <2>4. m = 16 => \E k \in 1 .. 5 : m = 2^k
    <3>1. 4 \in 1 .. 5
      OBVIOUS
    <3> QED BY <1>2, <3>1, Zenon
  <2>5. m = 32 => \E k \in 1 .. 5 : m = 2^k
    <3>1. 5 \in 1 .. 5
      OBVIOUS
    <3> QED BY <1>2, <3>1, Zenon
  <2> QED BY <2>1, <2>2, <2>3, <2>4, <2>5
<1> QED BY <1>1, <1>3, Zenon

(* The one subnet the VPN network of the gateway pairs overlaps with is    *)
(* that of the last octet of a slice whose MaxClusters is a power of two:  *)
(* BuildNetworkAddresses and GetClusterPrefixPool do not know each other.  *)
THEOREM VpnNetworkMeetsCorrect == Spec => []VpnNetworkMeets
<1>1. InputsInv => VpnNetworkMeets
  <2> SUFFICES ASSUME InputsInv PROVE VpnNetworkMeets
    OBVIOUS
  <2> DEFINE size == SizeOf(maxClusters)
             a == ipamInt * size
  <2>1. maxClusters \in 2 .. 32 /\ maxClusters \in 2 .. 256 /\ ipamInt \in 0 .. maxClusters - 1
    BY PoolIs DEF InputsInv
  <2>2. ThirdOctets(Pool(ipamInt)) = a .. (a + size - 1)
    BY <2>1, PoolIs
  <2>3. ThirdOctets(VpnNetwork(SliceSubnet)) = {255}
    <3>1. VpnNetwork(SliceSubnet).octets[3] = 255 /\ VpnNetwork(SliceSubnet).prefix = 24
      BY DEF VpnNetwork
    <3>2. 2^(24 - 24) = 1
      OBVIOUS
    <3>3. ThirdOctets(VpnNetwork(SliceSubnet)) = 255 .. (255 + 1 - 1)
      BY <3>1, <3>2, Zenon DEF ThirdOctets
    <3>4. 255 .. (255 + 1 - 1) = {255}
      OBVIOUS
    <3> QED BY <3>3, <3>4
  <2>4. (255 \in a .. (a + size - 1)) <=> (ipamInt = maxClusters - 1 /\ maxClusters \in {2, 4, 8, 16, 32})
    <3>1. CASE size = 128 /\ maxClusters = 2
      BY <2>1, <3>1
    <3>2. CASE size = 64 /\ maxClusters \in 3 .. 4
      BY <2>1, <3>2
    <3>3. CASE size = 32 /\ maxClusters \in 5 .. 8
      BY <2>1, <3>3
    <3>4. CASE size = 16 /\ maxClusters \in 9 .. 16
      BY <2>1, <3>4
    <3>5. CASE size = 8 /\ maxClusters \in 17 .. 32
      BY <2>1, <3>5
    <3> QED BY <2>1, <3>1, <3>2, <3>3, <3>4, <3>5, Sizes
  <2>5. ({255} \cap ThirdOctets(Pool(ipamInt)) # {}) <=> 255 \in a .. (a + size - 1)
    BY <2>2
  <2>6. (\E k \in 1 .. 5 : maxClusters = 2^k) <=> maxClusters \in {2, 4, 8, 16, 32}
    BY <2>1, PowersUpTo32
  <2> QED BY <2>3, <2>4, <2>5, <2>6, Zenon DEF VpnNetworkMeets
<1> QED BY <1>1, InputsInvariant, PTL
=============================================================================
