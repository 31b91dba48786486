---------------------------- MODULE MCSliceIpam ----------------------------
(* The address arithmetic on bounded inputs: the subnets of a slice for    *)
(* every Spec.MaxClusters the SliceConfig CRD admits and every octet the   *)
(* slice can then have, and ComputeClusterMap on every cluster list and    *)
(* every set of WorkerSliceConfigs over a few clusters and octets.  The    *)
(* inputs of the one are at their start while those of the other vary.     *)
EXTENDS SliceIpam, SequencesExt

CONSTANTS
  MinMaxClusters, MaxMaxClusters,   \* the bounds of the CRD: 2 and 32
  Cluster,    \* a few clusters
  MaxOctet,   \* bound: the largest octet an existing object may have
  Absent      \* stands for the octet of a cluster without an object

ASSUME MaxClustersAssumption ==
  /\ MinMaxClusters \in Nat /\ MaxMaxClusters \in Nat
  /\ 2 <= MinMaxClusters /\ MinMaxClusters <= MaxMaxClusters /\ MaxMaxClusters <= 32

ASSUME InputsAssumption ==
  IsFiniteSet(Cluster) /\ MaxOctet \in Nat /\ Absent \notin (0 .. MaxOctet) \cup {NoOctet}

SliceSubnet == <<10, 1, 0, 0>>   \* validateSliceSubnet: private, prefix 16

VARIABLES
  maxClusters, ipamInt,
  clusterNames, object   \* object[c]: the octet of c's object, or Absent

Octet == 0 .. MaxOctet

NoObjects == [c \in Cluster |-> Absent]

(* Two objects of a slice never have the same octet (OctetsUnique).        *)
Distinct(f) == \A c, d \in Cluster : f[c] \in Octet /\ f[c] = f[d] => c = d

Init ==
  /\ maxClusters = MinMaxClusters /\ ipamInt = 0
  /\ clusterNames = <<>> /\ object = NoObjects

NextOctet ==
  /\ clusterNames = <<>> /\ object = NoObjects
  /\ ipamInt + 1 < maxClusters /\ ipamInt' = ipamInt + 1
  /\ UNCHANGED <<maxClusters, clusterNames, object>>

NextMax ==
  /\ clusterNames = <<>> /\ object = NoObjects
  /\ ipamInt + 1 = maxClusters /\ maxClusters < MaxMaxClusters
  /\ maxClusters' = maxClusters + 1 /\ ipamInt' = 0
  /\ UNCHANGED <<clusterNames, object>>

ChangeList ==
  /\ maxClusters = MinMaxClusters /\ ipamInt = 0
  /\ clusterNames' \in SetToAllKPermutations(Cluster) \cup {<<>>}
  /\ UNCHANGED <<maxClusters, ipamInt, object>>

ChangeObject(c, o) ==
  /\ maxClusters = MinMaxClusters /\ ipamInt = 0
  /\ object' = [object EXCEPT ![c] = o] /\ Distinct(object')
  /\ UNCHANGED <<maxClusters, ipamInt, clusterNames>>

Next ==
  \/ NextOctet \/ NextMax \/ ChangeList
  \/ \E c \in Cluster, o \in Octet \cup {NoOctet, Absent} : ChangeObject(c, o)

Spec == Init /\ [][Next]_<<maxClusters, ipamInt, clusterNames, object>>
-----------------------------------------------------------------------------
Pool(i) == GetClusterPrefixPool(SliceSubnet, i, FindCIDRByMaxClusters(maxClusters))

(* The third octets of the addresses of a pool with prefix 17 to 24.       *)
ThirdOctets(pool) == pool.octets[3] .. (pool.octets[3] + 2^(24 - pool.prefix) - 1)

(* The subnet of a cluster lies in the slice's /16, is aligned to its      *)
(* prefix and shares no address with the subnet of any other octet, for    *)
(* every number of clusters FindCIDRByMaxClusters divides the slice into.  *)
SubnetsDisjoint ==
  /\ Pool(ipamInt).prefix \in 17 .. 24
  /\ \A k \in {1, 2} : Pool(ipamInt).octets[k] = SliceSubnet[k]
  /\ ThirdOctets(Pool(ipamInt)) \subseteq 0 .. 255
  /\ Pool(ipamInt).octets[3] % 2^(24 - Pool(ipamInt).prefix) = 0
  /\ Pool(ipamInt).octets[4] = 0
  /\ \A j \in (0 .. maxClusters - 1) \ {ipamInt} :
       ThirdOctets(Pool(ipamInt)) \cap ThirdOctets(Pool(j)) = {}

(* The VPN network BuildNetworkAddresses gives every gateway pair of the   *)
(* slice lies outside the subnets of the clusters, but for one: the        *)
(* cluster with the last octet of a slice that is divided without a rest,  *)
(* MaxClusters being a power of two.                                       *)
VpnNetworkMeets ==
  (ThirdOctets(VpnNetwork(SliceSubnet)) \cap ThirdOctets(Pool(ipamInt)) # {})
    <=> (ipamInt = maxClusters - 1 /\ \E k \in 1 .. 5 : maxClusters = 2^k)
-----------------------------------------------------------------------------
listed == [c \in {d \in Cluster : object[d] # Absent} |-> object[c]]

(* The loop: the names in order, each one without an octet taking          *)
(* unUsedIndexes[currentIndex]; panicked is set when the index is past the *)
(* end.                                                                    *)
unUsedIndexes ==
  SetToSortSeq({x \in 0 .. Len(clusterNames) - 1 : \A c \in Cluster : object[c] # x},
               LAMBDA x, y : x < y)

Turn(acc, c) ==
  IF object[c] \in Octet \/ acc.panicked THEN acc
  ELSE IF acc.currentIndex >= Len(unUsedIndexes) THEN [acc EXCEPT !.panicked = TRUE]
  ELSE [acc EXCEPT !.mapping = [d \in DOMAIN @ \cup {c} |->
                                  IF d = c THEN unUsedIndexes[acc.currentIndex + 1] ELSE @[d]],
                   !.currentIndex = @ + 1]

Loop ==
  FoldLeft(Turn,
           [mapping |-> [c \in {d \in Cluster : object[d] \in Octet} |-> object[c]],
            currentIndex |-> 0, panicked |-> FALSE],
           clusterNames)

(* The closed form ComputeClusterMap is what the loop computes, and it is  *)
(* undefined exactly when the loop runs past the end of unUsedIndexes.     *)
AgreesWithLoop ==
  /\ ComputeClusterMapPanics(clusterNames, listed) = Loop.panicked
  /\ ~Loop.panicked => ComputeClusterMap(clusterNames, listed) = Loop.mapping

(* The indexes taken never collide, with each other or with the octets of  *)
(* objects on their way out.                                               *)
MapInjective ==
  ~ComputeClusterMapPanics(clusterNames, listed) =>
    IsInjective(ComputeClusterMap(clusterNames, listed))
=============================================================================
