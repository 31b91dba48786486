------------------------------ MODULE SliceIpam ------------------------------
(***************************************************************************)
(* The address arithmetic of a slice: which index ("octet") each cluster   *)
(* of the slice gets (service/worker_slice_config_service.go), the subnet  *)
(* derived from it (util/common.go), and the number of the gateway pair of *)
(* two clusters (service/worker_slice_gateway_service.go).                 *)
(*                                                                         *)
(* Everything here is a constant operator.  Octets are the plain integers  *)
(* of the code; a nil Spec.Octet is NoOctet.                               *)
(***************************************************************************)
EXTENDS Integers, Sequences, FiniteSets, Functions

NoOctet == -1

-----------------------------------------------------------------------------
(* ComputeClusterMap: clusterNames is the slice's cluster list, listed the *)
(* function from the clusters that have a WorkerSliceConfig (in whatever   *)
(* state) to its octet.                                                    *)

(* The clusters whose octet is taken over unchanged.                       *)
KeepsOctet(listed) == {c \in DOMAIN listed : listed[c] # NoOctet}

UsedIndexes(listed) == {listed[c] : c \in KeepsOctet(listed)}

(* Faulty variants of the range: from one, and from minus one.             *)
UnUsedIndexesFromOne(clusterNames, listed) ==
  {x \in 1 .. Len(clusterNames) : x \notin UsedIndexes(listed)}
UnUsedIndexesFromBelow(clusterNames, listed) ==
  {x \in (-1) .. (Len(clusterNames) - 2) : x \notin UsedIndexes(listed)}

UnUsedIndexes(clusterNames, listed) ==
  {x \in 0 .. (Len(clusterNames) - 1) : x \notin UsedIndexes(listed)}

(* unUsedIndexes[k] of the code: the unused index with k smaller ones.     *)
IsUnUsedAt(unused, k, x) ==
  x \in unused /\ Cardinality({y \in unused : y < x}) = k

(* Faulty variant: the increment is missing.                               *)
CurrentIndexStuck(clusterNames, listed, c) == 0

(* currentIndex when the loop reaches cluster c: how many clusters before  *)
(* it in the list have already been given an index.                        *)
CurrentIndex(clusterNames, listed, c) ==
  Cardinality({j \in 1 .. Len(clusterNames) :
                 /\ clusterNames[j] \notin KeepsOctet(listed)
                 /\ \E i \in 1 .. Len(clusterNames) : j < i /\ clusterNames[i] = c})

NeedsOctet(clusterNames, listed) == Range(clusterNames) \ KeepsOctet(listed)

(* The loop indexes unUsedIndexes past its end: Go panics, the reconciler  *)
(* recovers the panic, reports an error and requeues the key.              *)
ComputeClusterMapPanics(clusterNames, listed) ==
  \E c \in NeedsOctet(clusterNames, listed) :
    \A x \in UnUsedIndexes(clusterNames, listed) :
      ~IsUnUsedAt(UnUsedIndexes(clusterNames, listed),
                  CurrentIndex(clusterNames, listed, c), x)

ComputeClusterMap(clusterNames, listed) ==
  [c \in Range(clusterNames) \cup KeepsOctet(listed) |->
     IF c \in KeepsOctet(listed)
     THEN listed[c]
     ELSE CHOOSE x \in UnUsedIndexes(clusterNames, listed) :
            IsUnUsedAt(UnUsedIndexes(clusterNames, listed),
                       CurrentIndex(clusterNames, listed, c), x)]

-----------------------------------------------------------------------------
(* Subnets.  An address pool is the four octets and the prefix length of a *)
(* CIDR string; parsing and printing the string are left out.              *)

(* Faulty variant: one bit short.                                          *)
FindCIDRByMaxClustersShort(maxCluster) ==
  LET fits == {i \in 0 .. 7 : maxCluster > 2^(i + 1)}
  IN  IF fits = {} THEN 17 ELSE 17 + (CHOOSE i \in fits : \A j \in fits : j <= i)

(* FindCIDRByMaxClusters returns "" below two clusters; 0 stands for it.   *)
FindCIDRByMaxClusters(maxCluster) ==
  LET fits == {i \in 0 .. 7 : maxCluster > 2^i}
  IN  IF fits = {} THEN 0 ELSE 17 + (CHOOSE i \in fits : \A j \in fits : j <= i)

(* The octet a prefix length controls and the distance of two successive   *)
(* subnets in it.                                                          *)
subnetOctetDiff(cidr) ==
  CASE cidr > 0 /\ cidr <= 24 ->
         [octet |-> 4 - 32 \div cidr, diff |-> 2^(32 - cidr) \div (256 * (32 \div cidr))]
    [] cidr > 24 /\ cidr <= 32 -> [octet |-> 4, diff |-> 2^(32 - cidr)]
    [] OTHER -> [octet |-> -1, diff |-> -1]

GetClusterPrefixPool(sliceSubnet, ipamInt, cidr) ==
  LET control == subnetOctetDiff(cidr)
  IN  [octets |-> [i \in 1 .. 4 |-> CASE i < control.octet -> sliceSubnet[i]
                                      [] i = control.octet -> ipamInt * control.diff
                                      [] OTHER -> 0],
       prefix |-> cidr]

(* Faulty variant: the VPN network at the low end of the slice's subnet.   *)
VpnNetworkLow(sliceSubnet) ==
  [octets |-> <<sliceSubnet[1], sliceSubnet[2], 0, 0>>, prefix |-> 24]

(* The VPN network of every gateway pair of a slice (BuildNetworkAddresses)*)
VpnNetwork(sliceSubnet) ==
  [octets |-> <<sliceSubnet[1], sliceSubnet[2], 255, 0>>, prefix |-> 24]

-----------------------------------------------------------------------------
(* Faulty variant: numbers from zero.                                      *)
calculateGatewayNumberFromZero(cluster1Ins, cluster2Ins) ==
  LET maximum == IF cluster2Ins > cluster1Ins THEN cluster2Ins ELSE cluster1Ins
      minimum == IF cluster2Ins > cluster1Ins THEN cluster1Ins ELSE cluster2Ins
  IN  ((maximum - 1) * (maximum - 2)) \div 2 + minimum - 1

(* Go's integer division truncates towards zero; the dividend is never     *)
(* negative here, because (m - 1) * (m - 2) is not for any integer m.      *)
calculateGatewayNumber(cluster1Ins, cluster2Ins) ==
  LET maximum == IF cluster2Ins > cluster1Ins THEN cluster2Ins ELSE cluster1Ins
      minimum == IF cluster2Ins > cluster1Ins THEN cluster1Ins ELSE cluster2Ins
  IN  ((maximum - 1) * (maximum - 2)) \div 2 + minimum
=============================================================================
