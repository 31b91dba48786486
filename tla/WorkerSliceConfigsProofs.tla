----------------------- MODULE WorkerSliceConfigsProofs -----------------------
(***************************************************************************)
(* The safety properties of WorkerSliceConfigs, proved for every set of    *)
(* clusters, every set of cluster lists without duplicates and every bound *)
(* on edits, forced deletions, failing calls and restarts.                 *)
(***************************************************************************)
EXTENDS WorkerSliceConfigs, SliceIpamProofs

Lists == ClusterLists \cup {<<>>}

LEMMA ListsAreLists ==
  ASSUME NEW l \in Lists
  PROVE  /\ l \in Seq(Cluster) /\ IsInjective(l) /\ Len(l) \in Nat
         /\ \A i \in 1 .. Len(l) : l[i] \in Cluster
         /\ Range(l) \subseteq Cluster
<1>1. l \in Seq(Cluster) /\ IsInjective(l)
  <2>1. CASE l \in ClusterLists
    BY <2>1, ListsAssumption
  <2>2. CASE l = <<>>
    BY <2>2 DEF IsInjective
  <2> QED BY <2>1, <2>2 DEF Lists
<1> QED BY <1>1 DEF Range

(* The call of ComputeClusterMap in PlanOctets is a legal one, and what it *)
(* returns has octets for the clusters of the slice.                       *)
LEMMA PlanIsCallable ==
  ASSUME TypeOK, OctetsUnique
  PROVE  Callable(spec.clusters, [c \in Listed |-> octet[c]], Cluster)
<1>1. spec.clusters \in Seq(Cluster) /\ IsInjective(spec.clusters)
  BY ListsAreLists DEF TypeOK, ReconcilerType, Lists
<1>2. [c \in Listed |-> octet[c]] \in [Listed -> Nat \cup {NoOctet}]
  BY DEF TypeOK, ObjectsType, Listed
<1>3. \A c, d \in KeepsOctet([e \in Listed |-> octet[e]]) : octet[c] = octet[d] => c = d
  BY DEF KeepsOctet, OctetsUnique, Listed
<1> QED BY <1>1, <1>2, <1>3 DEF Callable, KeepsOctet

(* A reconcile that ends leaves empty local state.                         *)
LEMMA ResetType ==
  ASSUME ReconcilerType, pc' = "idle", spec' = NoSpec, todo' = {}, clusterMap' = NoMap,
         index' = 1, lastCreated' = NoCluster
  PROVE  ReconcilerType'
<1>1. NoSpec \in [clusters : ClusterLists \cup {<<>>}, mode : Mode]
  BY DEF NoSpec, Mode, Net, NoNet
<1>2. DOMAIN NoMap = {} /\ NoMap \in [{} -> Nat]
  BY DEF NoMap
<1> QED BY <1>1, <1>2 DEF ReconcilerType

LEMMA VanishType ==
  ASSUME ObjectsType, NEW c \in Cluster, Vanish(c) PROVE ObjectsType'
BY DEF ObjectsType, Vanish, Finalizer

LEMMA DeleteObjectType ==
  ASSUME ObjectsType, QueuesType, WscReconcilerType, NEW c \in Cluster, DeleteObject(c)
  PROVE  ObjectsType' /\ wscQueue' \subseteq Cluster /\ fresh' \in BOOLEAN
<1>1. ObjectsType'
  <2>1. CASE Vanish(c)
    BY <2>1, VanishType
  <2>2. CASE ~Vanish(c)
    BY <2>2 DEF DeleteObject, ObjectsType, wscVars
  <2> QED BY <2>1, <2>2
<1>2. wscQueue' \subseteq Cluster /\ fresh' \in BOOLEAN
  BY DEF DeleteObject, Written, QueuesType, WscReconcilerType
<1> QED BY <1>1, <1>2

LEMMA OvertakenType ==
  ASSUME WscReconcilerType, NEW now \in {"absent", "now"}, Overtaken(now)
  PROVE  WscReconcilerType'
BY DEF Overtaken, WscReconcilerType

(* The map computed from the listed objects is one of octets of clusters.  *)
LEMMA PlanType ==
  ASSUME ObjectsType, ReconcilerType,
         ~ComputeClusterMapPanics(spec.clusters, [c \in Listed |-> octet[c]])
  PROVE  LET map == ComputeClusterMap(spec.clusters, [c \in Listed |-> octet[c]])
         IN  map \in [DOMAIN map -> Nat] /\ DOMAIN map \subseteq Cluster
<1> DEFINE listed == [c \in Listed |-> octet[c]]
           map == ComputeClusterMap(spec.clusters, listed)
<1>1. /\ DOMAIN listed = Listed /\ Listed \subseteq Cluster
      /\ listed \in [DOMAIN listed -> Nat \cup {NoOctet}]
  BY DEF ObjectsType, Listed
<1>2. Len(spec.clusters) \in Nat /\ Range(spec.clusters) \subseteq Cluster
  BY ListsAreLists DEF ReconcilerType, Lists
<1>3. KeepsOctet(listed) \subseteq Cluster
  BY <1>1 DEF KeepsOctet
<1> HIDE DEF listed
<1>4. map \in [Range(spec.clusters) \cup KeepsOctet(listed) -> Nat]
  BY <1>1, <1>2, ComputeClusterMapType DEF listed
<1> HIDE DEF map
<1>5. map \in [DOMAIN map -> Nat] /\ DOMAIN map \subseteq Cluster
  BY <1>2, <1>3, <1>4
<1> QED BY <1>5 DEF map, listed

LEMMA TypeInit == Init => TypeOK
<1> SUFFICES ASSUME Init PROVE TypeOK
  OBVIOUS
<1>1. SliceType /\ ObjectsType /\ QueuesType /\ WscReconcilerType /\ BoundsType
  BY DEF Init, SliceType, ObjectsType, QueuesType, WscReconcilerType, BoundsType,
         Mode, Net, NoNet
<1>2. ReconcilerType
  BY DEF Init, ReconcilerType, NoSpec, NoMap, Mode, Net, NoNet
<1> QED BY <1>1, <1>2 DEF TypeOK

(* The map covers the clusters of the slice that is being applied: without *)
(* this the octet written by CreateMinimalWorkerSliceConfig would be that  *)
(* of a cluster the map does not know.                                     *)
Planned ==
  pc \in {"apply", "gateways"} /\ spec.mode # NoNet =>
    Range(spec.clusters) \subseteq DOMAIN clusterMap

LEMMA PlannedIsOctet ==
  ASSUME ReconcilerType, Planned, pc = "apply", spec.mode # NoNet,
         index <= Len(spec.clusters)
  PROVE  clusterMap[spec.clusters[index]] \in Nat
<1>1. index \in 1 .. Len(spec.clusters) /\ spec.clusters \in Seq(Cluster)
  BY ListsAreLists DEF ReconcilerType, Lists
<1>2. spec.clusters[index] \in Range(spec.clusters)
  BY <1>1 DEF Range
<1> QED BY <1>2 DEF Planned, ReconcilerType

LEMMA TypeNext == TypeOK /\ Planned /\ [Next]_vars => TypeOK'
<1> SUFFICES ASSUME TypeOK, Planned, [Next]_vars PROVE TypeOK'
  OBVIOUS
<1> USE BoundsAssumption DEF TypeOK, Mode, wscVars, queueVars, localVars, workerVars, boundVars
<1>1. ASSUME NEW l \in ClusterLists, NEW m \in Modes, CreateSliceConfig(l, m) PROVE TypeOK'
  <2>1. SliceType' /\ ObjectsType' /\ QueuesType' /\ ReconcilerType' /\ BoundsType'
    BY <1>1
      DEF CreateSliceConfig, SliceType, ObjectsType, QueuesType, ReconcilerType, BoundsType
  <2> QED BY <1>1, <2>1, OvertakenType DEF CreateSliceConfig
<1>2. ASSUME NEW l \in ClusterLists, NEW m \in Modes, UpdateSliceConfig(l, m) PROVE TypeOK'
  <2>1. SliceType'
    BY <1>2 DEF UpdateSliceConfig, SliceType
  <2>2. ObjectsType' /\ QueuesType' /\ ReconcilerType' /\ BoundsType'
    BY <1>2
      DEF UpdateSliceConfig, QueuesType, ReconcilerType, BoundsType, ObjectsType
  <2> QED BY <1>2, <2>1, <2>2, OvertakenType DEF UpdateSliceConfig
<1>3. CASE DeleteSliceConfig
  <2>1. SliceType'
    BY <1>3 DEF DeleteSliceConfig, SliceType
  <2>2. ObjectsType' /\ QueuesType' /\ ReconcilerType' /\ BoundsType'
    BY <1>3
      DEF DeleteSliceConfig, QueuesType, ReconcilerType, BoundsType, ObjectsType
  <2>3. WscReconcilerType'
    <3>1. CASE slice.finalizer
      BY <1>3, <3>1 DEF DeleteSliceConfig, WscReconcilerType
    <3>2. CASE ~slice.finalizer
      BY <1>3, <3>2, OvertakenType DEF DeleteSliceConfig
    <3> QED BY <3>1, <3>2
  <2> QED BY <2>1, <2>2, <2>3
<1>4. ASSUME NEW c \in Cluster, ForceDelete(c) PROVE TypeOK'
  <2>1. ObjectsType' /\ wscQueue' \subseteq Cluster /\ fresh' \in BOOLEAN
    BY <1>4, DeleteObjectType DEF ForceDelete
  <2>2. SliceType' /\ QueuesType' /\ ReconcilerType' /\ WscReconcilerType' /\ BoundsType'
    BY <1>4, <2>1
      DEF ForceDelete, SliceType, QueuesType, ReconcilerType, WscReconcilerType,
          BoundsType
  <2> QED BY <2>1, <2>2
<1>5. ASSUME NEW c \in Cluster, WorkerAdopts(c) PROVE TypeOK'
  BY <1>5
    DEF WorkerAdopts, Written, SliceType, ObjectsType, QueuesType, ReconcilerType,
        WscReconcilerType, BoundsType, Finalizer
<1>6. ASSUME NEW c \in Cluster, WorkerReleases(c) PROVE TypeOK'
  <2>1. ObjectsType'
    <3>1. CASE finalizers[c] = {"worker"}
      BY <1>6, <3>1, VanishType DEF WorkerReleases
    <3>2. CASE finalizers[c] # {"worker"}
      BY <1>6, <3>2 DEF WorkerReleases, ObjectsType, Finalizer
    <3> QED BY <3>1, <3>2
  <2>2. SliceType' /\ QueuesType' /\ ReconcilerType' /\ WscReconcilerType' /\ BoundsType'
    BY <1>6 DEF WorkerReleases, Written, SliceType, QueuesType, ReconcilerType,
              WscReconcilerType, BoundsType
  <2> QED BY <2>1, <2>2
<1>7. ASSUME NEW c \in Cluster, GraceExpires(c) PROVE TypeOK'
  BY <1>7
    DEF GraceExpires, SliceType, ObjectsType, QueuesType, ReconcilerType,
        WscReconcilerType, BoundsType
<1>8. ASSUME NEW c \in Cluster, TimerFires(c) PROVE TypeOK'
  BY <1>8
    DEF TimerFires, SliceType, ObjectsType, QueuesType, ReconcilerType, WscReconcilerType,
        BoundsType
<1>9. CASE ReconcileAbsent
  BY ZenonT(60), <1>9
    DEF ReconcileAbsent, SliceType, ObjectsType, QueuesType, ReconcilerType,
        WscReconcilerType, BoundsType
<1>10. CASE ReconcileLive
  BY <1>10
    DEF ReconcileLive, Listed, SliceType, ObjectsType, QueuesType, ReconcilerType,
        WscReconcilerType, BoundsType
<1>11. ASSUME NEW c \in Cluster, CleanUpSlices(c) PROVE TypeOK'
  <2>1. CASE Exists(c)
    <3>1. ObjectsType' /\ wscQueue' \subseteq Cluster /\ fresh' \in BOOLEAN
      BY <1>11, <2>1, DeleteObjectType DEF CleanUpSlices
    <3>2. SliceType' /\ QueuesType' /\ ReconcilerType' /\ WscReconcilerType' /\ BoundsType'
      BY <1>11, <2>1, <3>1 DEF CleanUpSlices, SliceType, QueuesType, ReconcilerType,
                WscReconcilerType, BoundsType
    <3> QED BY <3>1, <3>2
  <2>2. CASE ~Exists(c)
    <3>1. ReconcilerType' /\ sliceQueue' \in BOOLEAN
      BY <1>11, <2>2, ResetType DEF CleanUpSlices, AbortReconcile
    <3>2. SliceType' /\ ObjectsType' /\ QueuesType' /\ WscReconcilerType' /\ BoundsType'
      BY <1>11, <2>2, <3>1 DEF CleanUpSlices, SliceType, ObjectsType, QueuesType,
                WscReconcilerType, BoundsType
    <3> QED BY <3>1, <3>2
  <2> QED BY <2>1, <2>2
<1>12. CASE PlanOctets
  <2> DEFINE listed == [c \in Listed |-> octet[c]]
  <2>1. SliceType' /\ ObjectsType' /\ wscQueue' \subseteq Cluster /\ timers' \subseteq Cluster
        /\ WscReconcilerType' /\ BoundsType'
    BY <1>12
      DEF PlanOctets, SliceType, ObjectsType, QueuesType, WscReconcilerType, BoundsType
  <2>2. CASE spec.mode # NoNet /\ ~ComputeClusterMapPanics(spec.clusters, listed)
    <3>1. clusterMap' = ComputeClusterMap(spec.clusters, listed)
          /\ pc' = "apply" /\ UNCHANGED <<spec, todo, index, lastCreated, sliceQueue>>
      BY <1>12, <2>2 DEF PlanOctets
    <3>2. clusterMap' \in [DOMAIN clusterMap' -> Nat] /\ DOMAIN clusterMap' \subseteq Cluster
      BY <2>2, <3>1, PlanType
    <3> QED BY <2>1, <3>1, <3>2 DEF ReconcilerType, QueuesType
  <2>3. CASE AbortReconcile
    BY <2>1, <2>3, ResetType DEF AbortReconcile, QueuesType
  <2>4. CASE spec.mode = NoNet
    <3>1. pc' = "apply" /\ UNCHANGED <<spec, todo, clusterMap, index, lastCreated, sliceQueue>>
      BY <1>12, <2>4 DEF PlanOctets
    <3> QED BY <2>1, <3>1 DEF ReconcilerType, QueuesType
  <2> QED BY <1>12, <2>2, <2>3, <2>4 DEF PlanOctets
<1>13. CASE ApplyCluster
  <2> DEFINE d == spec.clusters[index]
  <2>0. d \in Cluster
    BY <1>13, ListsAreLists DEF ApplyCluster, ReconcilerType, Lists
  <2>1. SliceType' /\ timers' \subseteq Cluster /\ BoundsType'
        /\ UNCHANGED <<wpc, cur, read, got>>
    BY <1>13 DEF ApplyCluster, SliceType, QueuesType, BoundsType
  <2>2. CASE Exists(d) /\ UpdateRefused(d)
    <3>1. AbortReconcile /\ UNCHANGED <<wscVars, wscQueue, fresh>>
      BY <1>13, <2>2 DEF ApplyCluster
    <3> QED BY <2>1, <3>1, ResetType
          DEF AbortReconcile, QueuesType, ObjectsType, WscReconcilerType
  <2>3. CASE ~(Exists(d) /\ UpdateRefused(d))
    <3>1. /\ IF Exists(d) THEN UpdateWorkerSliceConfig(d) ELSE CreateWorkerSliceConfig(d)
          /\ Written(d) /\ index' = index + 1
          /\ UNCHANGED <<pc, spec, todo, clusterMap, sliceQueue>>
      BY <1>13, <2>3 DEF ApplyCluster
    <3>2. spec.mode # NoNet => ipamOctet(d) \in Nat
      BY <1>13, PlannedIsOctet DEF ApplyCluster, ipamOctet
    <3> HIDE DEF d
    <3>3. ObjectsType' /\ lastCreated' \in Cluster \cup {NoCluster}
      BY <2>0, <3>1, <3>2
        DEF ObjectsType, UpdateWorkerSliceConfig, CreateWorkerSliceConfig, ipamOctet,
            ReconcilerType
    <3>4. QueuesType' /\ WscReconcilerType' /\ ReconcilerType'
      BY <2>0, <2>1, <3>1, <3>3 DEF QueuesType, WscReconcilerType, ReconcilerType, Written
    <3> QED BY <2>1, <3>3, <3>4
  <2> QED BY <2>2, <2>3
<1>14. CASE WscsApplied
  <2>1. ReconcilerType' /\ sliceQueue' \in BOOLEAN
    <3>1. CASE spec.mode = NoNet
      BY <1>14, <3>1, ResetType DEF WscsApplied, EndReconcile, QueuesType
    <3>2. CASE spec.mode # NoNet
      BY <1>14, <3>2 DEF WscsApplied, ReconcilerType, QueuesType
    <3> QED BY <3>1, <3>2
  <2>2. SliceType' /\ ObjectsType' /\ QueuesType' /\ WscReconcilerType' /\ BoundsType'
    BY <1>14, <2>1 DEF WscsApplied, SliceType, ObjectsType, QueuesType,
              WscReconcilerType, BoundsType
  <2> QED BY <2>1, <2>2
<1>15. CASE ReconcileDone
  <2>1. ReconcilerType'
    BY <1>15, ResetType DEF ReconcileDone, EndReconcile
  <2>2. SliceType' /\ ObjectsType' /\ QueuesType' /\ WscReconcilerType' /\ BoundsType'
    BY <1>15 DEF ReconcileDone, EndReconcile, SliceType, ObjectsType, QueuesType,
              WscReconcilerType, BoundsType
  <2> QED BY <2>1, <2>2
<1>16. CASE ReconcileDeleting
  BY ZenonT(60), <1>16
    DEF ReconcileDeleting, SliceType, ObjectsType, QueuesType, ReconcilerType,
        WscReconcilerType, BoundsType
<1>17. CASE ListForDeletion
  BY <1>17
    DEF ListForDeletion, Listed, SliceType, ObjectsType, QueuesType, ReconcilerType,
        WscReconcilerType, BoundsType
<1>18. ASSUME NEW c \in Cluster, DeleteWorkerSliceConfig(c) PROVE TypeOK'
  <2>1. CASE Exists(c)
    <3>1. ObjectsType' /\ wscQueue' \subseteq Cluster /\ fresh' \in BOOLEAN
      BY <1>18, <2>1, DeleteObjectType DEF DeleteWorkerSliceConfig
    <3>2. SliceType' /\ QueuesType' /\ ReconcilerType' /\ WscReconcilerType' /\ BoundsType'
      BY <1>18, <2>1, <3>1
        DEF DeleteWorkerSliceConfig, SliceType, QueuesType, ReconcilerType,
                WscReconcilerType, BoundsType
    <3> QED BY <3>1, <3>2
  <2>2. CASE ~Exists(c)
    <3>1. ReconcilerType' /\ sliceQueue' \in BOOLEAN
      BY <1>18, <2>2, ResetType DEF DeleteWorkerSliceConfig, AbortReconcile
    <3>2. SliceType' /\ ObjectsType' /\ QueuesType' /\ WscReconcilerType' /\ BoundsType'
      BY <1>18, <2>2, <3>1 DEF DeleteWorkerSliceConfig, SliceType, ObjectsType, QueuesType,
                WscReconcilerType, BoundsType
    <3> QED BY <3>1, <3>2
  <2> QED BY <2>1, <2>2
<1>19. CASE RemoveSliceFinalizer
  <2>1. ReconcilerType'
    BY <1>19, ResetType DEF RemoveSliceFinalizer, EndReconcile
  <2>2. SliceType' /\ ObjectsType' /\ QueuesType' /\ BoundsType'
    BY <1>19 DEF RemoveSliceFinalizer, EndReconcile, SliceType, ObjectsType, QueuesType,
              BoundsType
  <2> QED BY <1>19, <2>1, <2>2, OvertakenType DEF RemoveSliceFinalizer
<1>20. CASE ReconcileFails
  <2>1. ReconcilerType'
    BY <1>20, ResetType DEF ReconcileFails, AbortReconcile
  <2>2. SliceType' /\ ObjectsType' /\ QueuesType' /\ WscReconcilerType' /\ BoundsType'
    BY <1>20 DEF ReconcileFails, AbortReconcile, SliceType, ObjectsType, QueuesType,
              WscReconcilerType, BoundsType
  <2> QED BY <2>1, <2>2
<1>21. ASSUME NEW c \in Cluster, ReconcileWscAbsent(c) PROVE TypeOK'
  BY <1>21
    DEF ReconcileWscAbsent, SliceType, ObjectsType, QueuesType, ReconcilerType,
        WscReconcilerType, BoundsType
<1>22. ASSUME NEW c \in Cluster, ReconcileWscLive(c) PROVE TypeOK'
  BY <1>22
    DEF ReconcileWscLive, SliceType, ObjectsType, QueuesType, ReconcilerType,
        WscReconcilerType, BoundsType, Finalizer
<1>23. CASE CopySpec
  <2>1. cur \in Cluster /\ read \in Nat \cup {NoOctet}
    BY <1>23 DEF CopySpec, WscReconcilerType
  <2>2. ObjectsType'
    <3>1. CASE UNCHANGED <<copied, octet>>
      BY <1>23, <3>1 DEF CopySpec, ObjectsType
    <3>2. ASSUME NEW g \in got, copied' = [copied EXCEPT ![cur] = (g = "now")],
                 octet' = [octet EXCEPT ![cur] = read]
          PROVE  ObjectsType'
      BY <1>23, <2>1, <3>2 DEF CopySpec, ObjectsType
    <3> QED BY <1>23, <3>1, <3>2 DEF CopySpec
  <2>3. wscQueue' \subseteq Cluster
    BY <1>23, <2>1 DEF CopySpec, QueuesType
  <2>4. SliceType' /\ QueuesType' /\ ReconcilerType' /\ WscReconcilerType' /\ BoundsType'
    BY <1>23, <2>3 DEF CopySpec, WscIdle, SliceType, QueuesType, ReconcilerType,
              WscReconcilerType, BoundsType
  <2> QED BY <2>2, <2>4
<1>24. ASSUME NEW c \in Cluster, ReconcileWscWaits(c) PROVE TypeOK'
  BY <1>24
    DEF ReconcileWscWaits, SliceType, ObjectsType, QueuesType, ReconcilerType,
        WscReconcilerType, BoundsType
<1>25. ASSUME NEW c \in Cluster, RemoveWorkerFinalizers(c) PROVE TypeOK'
  <2>1. ObjectsType'
    BY <1>25, VanishType DEF RemoveWorkerFinalizers
  <2>2. SliceType' /\ QueuesType' /\ ReconcilerType' /\ WscReconcilerType' /\ BoundsType'
    BY <1>25 DEF RemoveWorkerFinalizers, SliceType, QueuesType, ReconcilerType,
              WscReconcilerType, BoundsType
  <2> QED BY <2>1, <2>2
<1>26. ASSUME NEW c \in Cluster, RemoveWorkerFinalizersFails(c) PROVE TypeOK'
  BY <1>26
    DEF RemoveWorkerFinalizersFails, SliceType, ObjectsType, QueuesType, ReconcilerType,
        WscReconcilerType, BoundsType
<1>27. CASE RecreateForced
  BY <1>27
    DEF RecreateForced, WscIdle, SliceType, ObjectsType, QueuesType, ReconcilerType,
        WscReconcilerType, BoundsType
<1>28. CASE ReconcileWscFails
  BY <1>28
    DEF ReconcileWscFails, WscIdle, SliceType, ObjectsType, QueuesType, ReconcilerType,
        WscReconcilerType, BoundsType
<1>29. CASE Crash
  <2>1. ReconcilerType'
    BY <1>29, ResetType DEF Crash
  <2>2. SliceType' /\ ObjectsType' /\ QueuesType' /\ WscReconcilerType' /\ BoundsType'
    BY <1>29 DEF Crash, WscIdle, Listed, SliceType, ObjectsType, QueuesType,
              WscReconcilerType, BoundsType
  <2> QED BY <2>1, <2>2
<1>30. CASE UNCHANGED vars
  BY <1>30
    DEF vars, SliceType, ObjectsType, QueuesType, ReconcilerType, WscReconcilerType,
        BoundsType
<1> QED
  BY <1>1, <1>2, <1>3, <1>4, <1>5, <1>6, <1>7, <1>8, <1>9, <1>10, <1>11, <1>12,
    <1>13, <1>14, <1>15, <1>16, <1>17, <1>18, <1>19, <1>20, <1>21, <1>22, <1>23,
    <1>24, <1>25, <1>26, <1>27, <1>28, <1>29, <1>30
    DEF Next, User, Worker, Time, Fault, SliceStep, WscFinish, WscStart

(* Only PlanOctets makes a map; the later steps of the same reconcile work *)
(* with that map and with the slice they have read.                        *)
KeepsPlan ==
  \/ pc' \notin {"apply", "gateways"}
  \/ pc \in {"apply", "gateways"} /\ UNCHANGED <<spec, clusterMap>>

LEMMA PlanStep ==
  ASSUME [Next]_vars
  PROVE  PlanOctets \/ KeepsPlan
<1> USE DEF wscVars, queueVars, localVars, workerVars, boundVars, KeepsPlan
<1>1. ASSUME NEW l \in ClusterLists, NEW m \in Modes, CreateSliceConfig(l, m) PROVE PlanOctets \/ KeepsPlan
  BY <1>1 DEF CreateSliceConfig
<1>2. ASSUME NEW l \in ClusterLists, NEW m \in Modes, UpdateSliceConfig(l, m) PROVE PlanOctets \/ KeepsPlan
  BY <1>2 DEF UpdateSliceConfig
<1>3. CASE DeleteSliceConfig
  BY <1>3 DEF DeleteSliceConfig
<1>4. ASSUME NEW c \in Cluster, ForceDelete(c) PROVE PlanOctets \/ KeepsPlan
  BY <1>4 DEF ForceDelete
<1>5. ASSUME NEW c \in Cluster, WorkerAdopts(c) PROVE PlanOctets \/ KeepsPlan
  BY <1>5 DEF WorkerAdopts
<1>6. ASSUME NEW c \in Cluster, WorkerReleases(c) PROVE PlanOctets \/ KeepsPlan
  BY <1>6 DEF WorkerReleases
<1>7. ASSUME NEW c \in Cluster, GraceExpires(c) PROVE PlanOctets \/ KeepsPlan
  BY <1>7 DEF GraceExpires
<1>8. ASSUME NEW c \in Cluster, TimerFires(c) PROVE PlanOctets \/ KeepsPlan
  BY <1>8 DEF TimerFires
<1>9. CASE ReconcileAbsent
  BY <1>9 DEF ReconcileAbsent
<1>10. CASE ReconcileLive
  BY <1>10 DEF ReconcileLive
<1>11. ASSUME NEW c \in Cluster, CleanUpSlices(c) PROVE PlanOctets \/ KeepsPlan
  <2>1. CASE Exists(c)
    BY <1>11, <2>1 DEF CleanUpSlices
  <2>2. CASE ~Exists(c)
    BY <1>11, <2>2 DEF CleanUpSlices, AbortReconcile
  <2> QED BY <2>1, <2>2
<1>12. CASE PlanOctets
  BY <1>12
<1>13. CASE ApplyCluster
  BY <1>13 DEF ApplyCluster, AbortReconcile
<1>14. CASE WscsApplied
  BY <1>14 DEF WscsApplied, EndReconcile
<1>15. CASE ReconcileDone
  BY <1>15 DEF ReconcileDone, EndReconcile
<1>16. CASE ReconcileDeleting
  BY <1>16 DEF ReconcileDeleting
<1>17. CASE ListForDeletion
  BY <1>17 DEF ListForDeletion
<1>18. ASSUME NEW c \in Cluster, DeleteWorkerSliceConfig(c) PROVE PlanOctets \/ KeepsPlan
  <2>1. CASE Exists(c)
    BY <1>18, <2>1 DEF DeleteWorkerSliceConfig
  <2>2. CASE ~Exists(c)
    BY <1>18, <2>2 DEF DeleteWorkerSliceConfig, AbortReconcile
  <2> QED BY <2>1, <2>2
<1>19. CASE RemoveSliceFinalizer
  BY <1>19 DEF RemoveSliceFinalizer, EndReconcile
<1>20. CASE ReconcileFails
  BY <1>20 DEF ReconcileFails, AbortReconcile
<1>21. ASSUME NEW c \in Cluster, ReconcileWscAbsent(c) PROVE PlanOctets \/ KeepsPlan
  BY <1>21 DEF ReconcileWscAbsent
<1>22. ASSUME NEW c \in Cluster, ReconcileWscLive(c) PROVE PlanOctets \/ KeepsPlan
  BY <1>22 DEF ReconcileWscLive
<1>23. CASE CopySpec
  BY <1>23 DEF CopySpec
<1>24. ASSUME NEW c \in Cluster, ReconcileWscWaits(c) PROVE PlanOctets \/ KeepsPlan
  BY <1>24 DEF ReconcileWscWaits
<1>25. ASSUME NEW c \in Cluster, RemoveWorkerFinalizers(c) PROVE PlanOctets \/ KeepsPlan
  BY <1>25 DEF RemoveWorkerFinalizers
<1>26. ASSUME NEW c \in Cluster, RemoveWorkerFinalizersFails(c) PROVE PlanOctets \/ KeepsPlan
  BY <1>26 DEF RemoveWorkerFinalizersFails
<1>27. CASE RecreateForced
  BY <1>27 DEF RecreateForced
<1>28. CASE ReconcileWscFails
  BY <1>28 DEF ReconcileWscFails
<1>29. CASE Crash
  BY <1>29 DEF Crash
<1>30. CASE UNCHANGED vars
  BY <1>30 DEF vars
<1> QED
  BY <1>1, <1>2, <1>3, <1>4, <1>5, <1>6, <1>7, <1>8, <1>9, <1>10, <1>11, <1>12,
    <1>13, <1>14, <1>15, <1>16, <1>17, <1>18, <1>19, <1>20, <1>21, <1>22, <1>23,
    <1>24, <1>25, <1>26, <1>27, <1>28, <1>29, <1>30
    DEF Next, User, Worker, Time, Fault, SliceStep, WscFinish, WscStart

LEMMA PlannedNext == TypeOK /\ Planned /\ [Next]_vars => Planned'
<1> SUFFICES ASSUME TypeOK, Planned, [Next]_vars PROVE Planned'
  OBVIOUS
<1>1. CASE PlanOctets
  <2> DEFINE listed == [c \in Listed |-> octet[c]]
  <2>1. CASE pc' \in {"apply", "gateways"} /\ spec'.mode # NoNet
    <3>1. /\ clusterMap' = ComputeClusterMap(spec.clusters, listed)
          /\ spec' = spec
      BY <1>1, <2>1 DEF PlanOctets, AbortReconcile
    <3>2. DOMAIN ComputeClusterMap(spec.clusters, listed)
            = Range(spec.clusters) \cup KeepsOctet(listed)
      BY DEF ComputeClusterMap
    <3> QED BY <3>1, <3>2 DEF Planned
  <2> QED BY <2>1 DEF Planned
<1>2. CASE ~PlanOctets
  BY <1>2, PlanStep DEF Planned, KeepsPlan
<1> QED BY <1>1, <1>2

LEMMA TypeInvariant == Spec => [](TypeOK /\ Planned)
<1>1. Init => TypeOK /\ Planned
  BY TypeInit DEF Init, Planned
<1>2. TypeOK /\ Planned /\ [Next]_vars => (TypeOK /\ Planned)'
  BY TypeNext, PlannedNext
<1> QED BY <1>1, <1>2, PTL DEF Spec

(* TypeOK holds in every state: for every set of clusters and every bound  *)
(* the octets, queues and local variables of both reconcilers keep their   *)
(* types, through failing calls, forced deletions and restarts.            *)
THEOREM TypeCorrect == Spec => []TypeOK
BY TypeInvariant, PTL
-----------------------------------------------------------------------------
(* The octets.  The inductive invariant adds to OctetsUnique and MapAgrees *)
(* what makes them survive a step.                                         *)

(* An octet belongs to an object: a cluster without one has given it back. *)
AbsentHasNone == \A c \in Cluster : state[c] = "absent" => octet[c] = NoOctet

(* The octet CopySpec is going to write back is the one the object has, as *)
(* long as nobody has written the object since it was read.                *)
ReadIsCurrent == wpc = "copy" /\ fresh => read = octet[cur] /\ state[cur] # "absent"

(* The map being applied gives no two clusters the same octet.             *)
MapSeparates ==
  pc \in {"apply", "gateways"} /\ spec.mode # NoNet => IsInjective(clusterMap)

ObjectInv == AbsentHasNone /\ ReadIsCurrent

OctetInv == ObjectInv /\ OctetsUnique /\ MapAgrees /\ MapSeparates

(* A step that leaves the objects alone, or that writes one of them in a   *)
(* way the WorkerSliceConfig reconciler notices.                           *)
LEMMA ObjectInvKept ==
  ASSUME ObjectInv, UNCHANGED <<state, octet>>,
         wpc' # "copy" \/ (UNCHANGED <<wpc, cur, read>> /\ (fresh' => fresh))
  PROVE  ObjectInv'
BY DEF ObjectInv, AbsentHasNone, ReadIsCurrent

LEMMA ObjectInvVanish ==
  ASSUME TypeOK, ObjectInv, NEW c \in Cluster, Vanish(c),
         wpc' # "copy" \/ (UNCHANGED <<wpc, cur, read>> /\ (fresh' => fresh /\ cur # c))
  PROVE  ObjectInv'
<1>1. AbsentHasNone'
  BY DEF ObjectInv, AbsentHasNone, Vanish, TypeOK, ObjectsType
<1>2. ReadIsCurrent'
  BY DEF ObjectInv, ReadIsCurrent, Vanish, TypeOK, ObjectsType, WscReconcilerType
<1> QED BY <1>1, <1>2 DEF ObjectInv

LEMMA ObjectInvDelete ==
  ASSUME TypeOK, ObjectInv, NEW c \in Cluster, DeleteObject(c), UNCHANGED <<wpc, cur, read>>
  PROVE  ObjectInv'
<1>1. CASE Vanish(c) /\ Written(c)
  BY <1>1, ObjectInvVanish DEF Written
<1>2. CASE /\ state[c] = "live" /\ state' = [state EXCEPT ![c] = "deleting"]
           /\ Written(c) /\ UNCHANGED octet
  <2>1. AbsentHasNone'
    BY <1>2 DEF ObjectInv, AbsentHasNone, TypeOK, ObjectsType
  <2>2. ReadIsCurrent'
    BY <1>2 DEF ObjectInv, ReadIsCurrent, Written, TypeOK, ObjectsType, WscReconcilerType
  <2> QED BY <2>1, <2>2 DEF ObjectInv
<1>3. CASE UNCHANGED <<wscVars, wscQueue, fresh>>
  BY <1>3, ObjectInvKept DEF wscVars
<1> QED BY <1>1, <1>2, <1>3 DEF DeleteObject

(* CopySpec writes an octet, but never another one.                        *)
LEMMA CopySpecKeepsOctets ==
  ASSUME TypeOK, ObjectInv, CopySpec
  PROVE  UNCHANGED octet
<1>1. cur \in Cluster
  BY DEF CopySpec, TypeOK, WscReconcilerType
<1>2. CASE fresh /\ octet' = [octet EXCEPT ![cur] = read]
  <2>1. read = octet[cur]
    BY <1>2 DEF CopySpec, ObjectInv, ReadIsCurrent
  <2> QED BY <1>1, <1>2, <2>1 DEF TypeOK, ObjectsType
<1> QED BY <1>2 DEF CopySpec

LEMMA ObjectInvNext ==
  TypeOK /\ Planned /\ ObjectInv /\ [Next]_vars => ObjectInv'
<1> SUFFICES ASSUME TypeOK, Planned, ObjectInv, [Next]_vars PROVE ObjectInv'
  OBVIOUS
<1> USE DEF wscVars, queueVars, localVars, workerVars, boundVars
<1>1. ASSUME NEW l \in ClusterLists, NEW m \in Modes, CreateSliceConfig(l, m) PROVE ObjectInv'
  BY <1>1, ObjectInvKept DEF CreateSliceConfig, Overtaken
<1>2. ASSUME NEW l \in ClusterLists, NEW m \in Modes, UpdateSliceConfig(l, m) PROVE ObjectInv'
  BY <1>2, ObjectInvKept DEF UpdateSliceConfig, Overtaken
<1>3. CASE DeleteSliceConfig
  BY <1>3, ObjectInvKept DEF DeleteSliceConfig, Overtaken
<1>4. ASSUME NEW c \in Cluster, ForceDelete(c) PROVE ObjectInv'
  BY <1>4, ObjectInvDelete DEF ForceDelete
<1>5. ASSUME NEW c \in Cluster, WorkerAdopts(c) PROVE ObjectInv'
  BY <1>5, ObjectInvKept DEF WorkerAdopts, Written
<1>6. ASSUME NEW c \in Cluster, WorkerReleases(c) PROVE ObjectInv'
  <2>1. CASE finalizers[c] = {"worker"}
    BY <1>6, <2>1, ObjectInvVanish DEF WorkerReleases, Written
  <2>2. CASE finalizers[c] # {"worker"}
    BY <1>6, <2>2, ObjectInvKept DEF WorkerReleases, Written
  <2> QED BY <2>1, <2>2
<1>7. ASSUME NEW c \in Cluster, GraceExpires(c) PROVE ObjectInv'
  BY <1>7, ObjectInvKept DEF GraceExpires
<1>8. ASSUME NEW c \in Cluster, TimerFires(c) PROVE ObjectInv'
  BY <1>8, ObjectInvKept DEF TimerFires
<1>9. CASE ReconcileAbsent
  BY <1>9, ObjectInvKept DEF ReconcileAbsent
<1>10. CASE ReconcileLive
  BY <1>10, ObjectInvKept DEF ReconcileLive
<1>11. ASSUME NEW c \in Cluster, CleanUpSlices(c) PROVE ObjectInv'
  <2>1. CASE Exists(c)
    BY <1>11, <2>1, ObjectInvDelete DEF CleanUpSlices
  <2>2. CASE ~Exists(c)
    BY <1>11, <2>2, ObjectInvKept DEF CleanUpSlices
  <2> QED BY <2>1, <2>2
<1>12. CASE PlanOctets
  BY <1>12, ObjectInvKept DEF PlanOctets
<1>13. CASE ApplyCluster
  <2> DEFINE d == spec.clusters[index]
  <2>0. d \in Cluster
    BY <1>13, ListsAreLists DEF ApplyCluster, TypeOK, ReconcilerType, Lists
  <2>1. CASE UNCHANGED <<wscVars, wscQueue, fresh>>
    BY <1>13, <2>1, ObjectInvKept DEF ApplyCluster
  <2>2. CASE /\ IF Exists(d) THEN UpdateWorkerSliceConfig(d) ELSE CreateWorkerSliceConfig(d)
             /\ Written(d)
    <3>1. UNCHANGED <<wpc, cur, read>>
      BY <1>13 DEF ApplyCluster
    <3> HIDE DEF d
    <3>2. /\ state' = [state EXCEPT ![d] = IF Exists(d) THEN @ ELSE "live"]
          /\ \A e \in Cluster \ {d} : octet'[e] = octet[e]
      BY <2>0, <2>2
        DEF UpdateWorkerSliceConfig, CreateWorkerSliceConfig, TypeOK, ObjectsType
    <3>3. state'[d] # "absent" /\ \A e \in Cluster \ {d} : state'[e] = state[e]
      BY <2>0, <3>2 DEF Exists, TypeOK, ObjectsType
    <3>4. AbsentHasNone'
      BY <2>0, <3>2, <3>3 DEF ObjectInv, AbsentHasNone
    <3>5. ReadIsCurrent'
      BY <2>0, <2>2, <3>1, <3>2, <3>3
        DEF ObjectInv, ReadIsCurrent, Written, TypeOK, WscReconcilerType
    <3> QED BY <3>4, <3>5 DEF ObjectInv
  <2> QED BY <1>13, <2>1, <2>2 DEF ApplyCluster
<1>14. CASE WscsApplied
  BY <1>14, ObjectInvKept DEF WscsApplied
<1>15. CASE ReconcileDone
  BY <1>15, ObjectInvKept DEF ReconcileDone
<1>16. CASE ReconcileDeleting
  BY <1>16, ObjectInvKept DEF ReconcileDeleting
<1>17. CASE ListForDeletion
  BY <1>17, ObjectInvKept DEF ListForDeletion
<1>18. ASSUME NEW c \in Cluster, DeleteWorkerSliceConfig(c) PROVE ObjectInv'
  <2>1. CASE Exists(c)
    BY <1>18, <2>1, ObjectInvDelete DEF DeleteWorkerSliceConfig
  <2>2. CASE ~Exists(c)
    BY <1>18, <2>2, ObjectInvKept DEF DeleteWorkerSliceConfig
  <2> QED BY <2>1, <2>2
<1>19. CASE RemoveSliceFinalizer
  BY <1>19, ObjectInvKept DEF RemoveSliceFinalizer, Overtaken
<1>20. CASE ReconcileFails
  BY <1>20, ObjectInvKept DEF ReconcileFails
<1>21. ASSUME NEW c \in Cluster, ReconcileWscAbsent(c) PROVE ObjectInv'
  BY <1>21, ObjectInvKept DEF ReconcileWscAbsent
<1>22. ASSUME NEW c \in Cluster, ReconcileWscLive(c) PROVE ObjectInv'
  BY <1>22 DEF ReconcileWscLive, ObjectInv, AbsentHasNone, ReadIsCurrent
<1>23. CASE CopySpec
  <2>1. UNCHANGED <<state, octet>>
    BY <1>23, CopySpecKeepsOctets DEF CopySpec
  <2> QED BY <1>23, <2>1, ObjectInvKept DEF CopySpec, WscIdle
<1>24. ASSUME NEW c \in Cluster, ReconcileWscWaits(c) PROVE ObjectInv'
  BY <1>24, ObjectInvKept DEF ReconcileWscWaits
<1>25. ASSUME NEW c \in Cluster, RemoveWorkerFinalizers(c) PROVE ObjectInv'
  BY <1>25, ObjectInvVanish DEF RemoveWorkerFinalizers
<1>26. ASSUME NEW c \in Cluster, RemoveWorkerFinalizersFails(c) PROVE ObjectInv'
  BY <1>26, ObjectInvKept DEF RemoveWorkerFinalizersFails
<1>27. CASE RecreateForced
  BY <1>27, ObjectInvKept DEF RecreateForced, WscIdle
<1>28. CASE ReconcileWscFails
  BY <1>28, ObjectInvKept DEF ReconcileWscFails, WscIdle
<1>29. CASE Crash
  BY <1>29, ObjectInvKept DEF Crash, WscIdle
<1>30. CASE UNCHANGED vars
  BY <1>30, ObjectInvKept DEF vars
<1> QED
  BY <1>1, <1>2, <1>3, <1>4, <1>5, <1>6, <1>7, <1>8, <1>9, <1>10, <1>11, <1>12,
    <1>13, <1>14, <1>15, <1>16, <1>17, <1>18, <1>19, <1>20, <1>21, <1>22, <1>23,
    <1>24, <1>25, <1>26, <1>27, <1>28, <1>29, <1>30
    DEF Next, User, Worker, Time, Fault, SliceStep, WscFinish, WscStart

(* The three things a step can do to the octets: nothing, give cluster c   *)
(* the octet planned for it when it has none, or take back the one of an   *)
(* object that vanishes.                                                   *)
Assigns(c) ==
  /\ pc = "apply" /\ spec.mode # NoNet /\ UNCHANGED <<pc, spec, clusterMap>>
  /\ c \in DOMAIN clusterMap /\ octet[c] = NoOctet
  /\ octet' = [octet EXCEPT ![c] = clusterMap[c]]

TakesBack(c) ==
  /\ octet' = [octet EXCEPT ![c] = NoOctet]
  /\ state'[c] = "absent"

OctetsChange == UNCHANGED octet \/ \E c \in Cluster : Assigns(c) \/ TakesBack(c)

LEMMA VanishTakesBack ==
  ASSUME TypeOK, NEW c \in Cluster, Vanish(c)
  PROVE  TakesBack(c)
BY DEF Vanish, TakesBack, TypeOK, ObjectsType

LEMMA DeleteTakesBack ==
  ASSUME TypeOK, NEW c \in Cluster, DeleteObject(c)
  PROVE  OctetsChange
<1>1. CASE Vanish(c)
  BY <1>1, VanishTakesBack DEF OctetsChange
<1>2. CASE UNCHANGED octet
  BY <1>2 DEF OctetsChange
<1> QED BY <1>1, <1>2 DEF DeleteObject, wscVars

LEMMA OctetStep ==
  ASSUME TypeOK, Planned, ObjectInv, [Next]_vars
  PROVE  OctetsChange
<1> USE DEF wscVars, queueVars, localVars, workerVars, boundVars
<1>1. ASSUME NEW l \in ClusterLists, NEW m \in Modes, CreateSliceConfig(l, m) PROVE OctetsChange
  BY <1>1 DEF CreateSliceConfig, OctetsChange
<1>2. ASSUME NEW l \in ClusterLists, NEW m \in Modes, UpdateSliceConfig(l, m) PROVE OctetsChange
  BY <1>2 DEF UpdateSliceConfig, OctetsChange
<1>3. CASE DeleteSliceConfig
  BY <1>3 DEF DeleteSliceConfig, OctetsChange
<1>4. ASSUME NEW c \in Cluster, ForceDelete(c) PROVE OctetsChange
  BY <1>4, DeleteTakesBack DEF ForceDelete
<1>5. ASSUME NEW c \in Cluster, WorkerAdopts(c) PROVE OctetsChange
  BY <1>5 DEF WorkerAdopts, OctetsChange
<1>6. ASSUME NEW c \in Cluster, WorkerReleases(c) PROVE OctetsChange
  <2>1. CASE finalizers[c] = {"worker"}
    BY <1>6, <2>1, VanishTakesBack DEF WorkerReleases, OctetsChange
  <2>2. CASE finalizers[c] # {"worker"}
    BY <1>6, <2>2 DEF WorkerReleases, OctetsChange
  <2> QED BY <2>1, <2>2
<1>7. ASSUME NEW c \in Cluster, GraceExpires(c) PROVE OctetsChange
  BY <1>7 DEF GraceExpires, OctetsChange
<1>8. ASSUME NEW c \in Cluster, TimerFires(c) PROVE OctetsChange
  BY <1>8 DEF TimerFires, OctetsChange
<1>9. CASE ReconcileAbsent
  BY <1>9 DEF ReconcileAbsent, OctetsChange
<1>10. CASE ReconcileLive
  BY <1>10 DEF ReconcileLive, OctetsChange
<1>11. ASSUME NEW c \in Cluster, CleanUpSlices(c) PROVE OctetsChange
  <2>1. CASE Exists(c)
    BY <1>11, <2>1, DeleteTakesBack DEF CleanUpSlices
  <2>2. CASE ~Exists(c)
    BY <1>11, <2>2 DEF CleanUpSlices, OctetsChange
  <2> QED BY <2>1, <2>2
<1>12. CASE PlanOctets
  BY <1>12 DEF PlanOctets, OctetsChange
<1>13. CASE ApplyCluster
  <2> DEFINE d == spec.clusters[index]
  <2>0. d \in Cluster /\ d \in Range(spec.clusters)
    BY <1>13, ListsAreLists DEF ApplyCluster, TypeOK, ReconcilerType, Lists, Range
  <2>1. CASE UNCHANGED <<wscVars, wscQueue, fresh>>
    BY <2>1 DEF OctetsChange
  <2>2. CASE /\ IF Exists(d) THEN UpdateWorkerSliceConfig(d) ELSE CreateWorkerSliceConfig(d)
             /\ ~(Exists(d) /\ UpdateRefused(d))
             /\ UNCHANGED <<pc, spec, clusterMap>>
    <3>1. pc = "apply"
      BY <1>13 DEF ApplyCluster
    <3>2. ~Exists(d) => octet[d] = NoOctet
      BY <2>0 DEF ObjectInv, AbsentHasNone, Exists
    <3> HIDE DEF d
    <3>3. CASE spec.mode = NoNet
      <4>1. octet' = [octet EXCEPT ![d] = octet[d]]
        BY <2>0, <2>2, <3>2, <3>3
         
            DEF UpdateWorkerSliceConfig, CreateWorkerSliceConfig, ipamOctet, TypeOK,
                ObjectsType
      <4> QED BY <2>0, <4>1 DEF OctetsChange, TypeOK, ObjectsType
    <3>4. CASE spec.mode # NoNet
      <4>1. d \in DOMAIN clusterMap
        BY <2>0, <3>1, <3>4 DEF Planned
      <4>2. octet' = [octet EXCEPT ![d] = clusterMap[d]]
        BY <2>0, <2>2, <3>4
         
            DEF UpdateWorkerSliceConfig, CreateWorkerSliceConfig, ipamOctet, TypeOK,
                ObjectsType
      <4>3. CASE octet[d] = NoOctet
        BY <2>0, <2>2, <3>1, <3>4, <4>1, <4>2, <4>3 DEF OctetsChange, Assigns
      <4>4. CASE octet[d] # NoOctet
        <5>1. octet[d] = clusterMap[d]
          BY <2>2, <3>2, <3>4, <4>4 DEF UpdateRefused, ipamOctet
        <5> QED BY <2>0, <4>2, <5>1 DEF OctetsChange, TypeOK, ObjectsType
      <4> QED BY <4>3, <4>4
    <3> QED BY <3>3, <3>4
  <2> QED BY <1>13, <2>1, <2>2 DEF ApplyCluster
<1>14. CASE WscsApplied
  BY <1>14 DEF WscsApplied, OctetsChange
<1>15. CASE ReconcileDone
  BY <1>15 DEF ReconcileDone, OctetsChange
<1>16. CASE ReconcileDeleting
  BY <1>16 DEF ReconcileDeleting, OctetsChange
<1>17. CASE ListForDeletion
  BY <1>17 DEF ListForDeletion, OctetsChange
<1>18. ASSUME NEW c \in Cluster, DeleteWorkerSliceConfig(c) PROVE OctetsChange
  <2>1. CASE Exists(c)
    BY <1>18, <2>1, DeleteTakesBack DEF DeleteWorkerSliceConfig
  <2>2. CASE ~Exists(c)
    BY <1>18, <2>2 DEF DeleteWorkerSliceConfig, OctetsChange
  <2> QED BY <2>1, <2>2
<1>19. CASE RemoveSliceFinalizer
  BY <1>19 DEF RemoveSliceFinalizer, OctetsChange
<1>20. CASE ReconcileFails
  BY <1>20 DEF ReconcileFails, OctetsChange
<1>21. ASSUME NEW c \in Cluster, ReconcileWscAbsent(c) PROVE OctetsChange
  BY <1>21 DEF ReconcileWscAbsent, OctetsChange
<1>22. ASSUME NEW c \in Cluster, ReconcileWscLive(c) PROVE OctetsChange
  BY <1>22 DEF ReconcileWscLive, OctetsChange
<1>23. CASE CopySpec
  BY <1>23, CopySpecKeepsOctets DEF OctetsChange
<1>24. ASSUME NEW c \in Cluster, ReconcileWscWaits(c) PROVE OctetsChange
  BY <1>24 DEF ReconcileWscWaits, OctetsChange
<1>25. ASSUME NEW c \in Cluster, RemoveWorkerFinalizers(c) PROVE OctetsChange
  BY <1>25, VanishTakesBack DEF RemoveWorkerFinalizers, OctetsChange
<1>26. ASSUME NEW c \in Cluster, RemoveWorkerFinalizersFails(c) PROVE OctetsChange
  BY <1>26 DEF RemoveWorkerFinalizersFails, OctetsChange
<1>27. CASE RecreateForced
  BY <1>27 DEF RecreateForced, OctetsChange
<1>28. CASE ReconcileWscFails
  BY <1>28 DEF ReconcileWscFails, OctetsChange
<1>29. CASE Crash
  BY <1>29 DEF Crash, OctetsChange
<1>30. CASE UNCHANGED vars
  BY <1>30 DEF vars, OctetsChange
<1> QED
  BY <1>1, <1>2, <1>3, <1>4, <1>5, <1>6, <1>7, <1>8, <1>9, <1>10, <1>11, <1>12,
    <1>13, <1>14, <1>15, <1>16, <1>17, <1>18, <1>19, <1>20, <1>21, <1>22, <1>23,
    <1>24, <1>25, <1>26, <1>27, <1>28, <1>29, <1>30
    DEF Next, User, Worker, Time, Fault, SliceStep, WscFinish, WscStart

(* The map PlanOctets computes agrees with all octets and separates the    *)
(* clusters: this is where ComputeClusterMap is used.                      *)
LEMMA PlanOctetsCorrect ==
  ASSUME TypeOK, OctetInv, PlanOctets
  PROVE  MapAgrees' /\ MapSeparates'
<1> DEFINE listed == [c \in Listed |-> octet[c]]
           map == ComputeClusterMap(spec.clusters, listed)
<1> SUFFICES ASSUME pc' \in {"apply", "gateways"}, spec'.mode # NoNet
             PROVE  MapAgrees' /\ MapSeparates'
  BY DEF MapAgrees, MapSeparates
<1>1. /\ ~ComputeClusterMapPanics(spec.clusters, listed)
      /\ clusterMap' = map /\ UNCHANGED octet
  BY DEF PlanOctets, AbortReconcile, wscVars
<1>2. Callable(spec.clusters, listed, Cluster)
  BY PlanIsCallable DEF OctetInv
<1>3. IsInjective(map)
  BY <1>1, <1>2, ComputeClusterMapInjective
<1>4. /\ DOMAIN map = Range(spec.clusters) \cup KeepsOctet(listed)
      /\ \A c \in KeepsOctet(listed) : map[c] = listed[c]
  BY DEF ComputeClusterMap
<1>5. \A c \in Cluster : octet[c] # NoOctet => c \in KeepsOctet(listed) /\ listed[c] = octet[c]
  BY DEF OctetInv, ObjectInv, AbsentHasNone, KeepsOctet, Listed, Exists
<1> HIDE DEF map, listed
<1>6. MapAgrees'
  BY <1>1, <1>4, <1>5 DEF MapAgrees
<1>7. MapSeparates'
  BY <1>1, <1>3 DEF MapSeparates
<1> QED BY <1>6, <1>7

LEMMA OctetInvNext ==
  TypeOK /\ Planned /\ OctetInv /\ [Next]_vars => OctetInv'
<1> SUFFICES ASSUME TypeOK, Planned, OctetInv, [Next]_vars PROVE OctetInv'
  OBVIOUS
<1>1. ObjectInv'
  BY ObjectInvNext DEF OctetInv
<1>2. OctetsChange
  BY OctetStep DEF OctetInv
<1>3. OctetsUnique'
  <2>1. CASE UNCHANGED octet
    BY <2>1 DEF OctetInv, OctetsUnique
  <2>2. ASSUME NEW c \in Cluster, TakesBack(c) PROVE OctetsUnique'
    BY <2>2 DEF OctetInv, OctetsUnique, TakesBack, TypeOK, ObjectsType
  <2>3. ASSUME NEW c \in Cluster, Assigns(c) PROVE OctetsUnique'
    <3>1. \A d \in Cluster : d # c => octet[d] # clusterMap[c]
      BY <2>3 DEF Assigns, OctetInv, MapAgrees, MapSeparates, IsInjective, NoOctet,
                  TypeOK, ReconcilerType
    <3>2. octet'[c] = clusterMap[c] /\ \A d \in Cluster : d # c => octet'[d] = octet[d]
      BY <2>3 DEF Assigns, TypeOK, ObjectsType
    <3> QED BY <3>1, <3>2 DEF OctetInv, OctetsUnique
  <2> QED BY <1>2, <2>1, <2>2, <2>3 DEF OctetsChange
<1>4. MapAgrees' /\ MapSeparates'
  <2>1. CASE PlanOctets
    BY <2>1, PlanOctetsCorrect
  <2>2. CASE pc' \notin {"apply", "gateways"}
    BY <2>2 DEF MapAgrees, MapSeparates
  <2>3. CASE pc \in {"apply", "gateways"} /\ UNCHANGED <<spec, clusterMap>>
    <3>1. MapSeparates'
      BY <2>3 DEF OctetInv, MapSeparates
    <3>2. ASSUME spec.mode # NoNet, NEW d \in Cluster, octet'[d] # NoOctet
          PROVE  d \in DOMAIN clusterMap /\ clusterMap[d] = octet'[d]
      <4>1. \A e \in Cluster : octet[e] # NoOctet =>
              e \in DOMAIN clusterMap /\ clusterMap[e] = octet[e]
        BY <2>3, <3>2 DEF OctetInv, MapAgrees
      <4>2. CASE UNCHANGED octet
        BY <3>2, <4>1, <4>2
      <4>3. ASSUME NEW c \in Cluster, TakesBack(c)
            PROVE  d \in DOMAIN clusterMap /\ clusterMap[d] = octet'[d]
        BY <3>2, <4>1, <4>3 DEF TakesBack, TypeOK, ObjectsType
      <4>4. ASSUME NEW c \in Cluster, Assigns(c)
            PROVE  d \in DOMAIN clusterMap /\ clusterMap[d] = octet'[d]
        BY <3>2, <4>1, <4>4 DEF Assigns, TypeOK, ObjectsType
      <4> QED BY <1>2, <4>2, <4>3, <4>4 DEF OctetsChange
    <3> QED BY <2>3, <3>1, <3>2 DEF MapAgrees
  <2> QED BY <2>1, <2>2, <2>3, PlanStep DEF KeepsPlan
<1> QED BY <1>1, <1>3, <1>4 DEF OctetInv

LEMMA OctetInvariant == Spec => [](TypeOK /\ Planned /\ OctetInv)
<1>1. Init => OctetInv
  BY DEF Init, OctetInv, ObjectInv, AbsentHasNone, ReadIsCurrent, OctetsUnique, MapAgrees,
         MapSeparates
<1>2. OctetInv /\ (TypeOK /\ Planned) /\ [Next]_vars => OctetInv'
  BY OctetInvNext
<1> QED BY <1>1, <1>2, TypeInvariant, PTL DEF Spec

(* No two clusters of a slice ever share an octet, for any number of       *)
(* clusters and whatever is edited, forced, refused or restarted while a   *)
(* reconcile writes the octets one object at a time.                       *)
THEOREM OctetsUniqueCorrect == Spec => []OctetsUnique
<1>1. OctetInv => OctetsUnique
  BY DEF OctetInv
<1> QED BY <1>1, OctetInvariant, PTL

(* The map of a reconcile never contradicts the octets of the objects, so  *)
(* preventUpdateWorkerSliceConfig never refuses the reconciler's update.   *)
THEOREM MapAgreesCorrect == Spec => []MapAgrees
<1>1. OctetInv => MapAgrees
  BY DEF OctetInv
<1> QED BY <1>1, OctetInvariant, PTL

LEMMA StableStep ==
  ASSUME TypeOK, Planned, OctetInv, [Next]_vars,
         NEW d \in Cluster, octet[d] # NoOctet, octet'[d] # octet[d]
  PROVE  state'[d] = "absent"
<1>1. OctetsChange
  BY OctetStep DEF OctetInv
<1>2. PICK c \in Cluster : Assigns(c) \/ TakesBack(c)
  BY <1>1 DEF OctetsChange
<1> QED BY <1>2 DEF Assigns, TakesBack, TypeOK, ObjectsType

(* An octet once assigned goes away only together with its object.         *)
THEOREM OctetStableCorrect == Spec => OctetStable
<1> DEFINE Stable == \A c \in Cluster :
                       octet[c] # NoOctet /\ octet'[c] # octet[c] => state'[c] = "absent"
<1>1. TypeOK /\ Planned /\ OctetInv /\ [Next]_vars => [Stable]_vars
  BY StableStep
<1> QED BY <1>1, OctetInvariant, PTL DEF Spec, OctetStable

LEMMA AllocationStep ==
  ASSUME TypeOK, Planned, OctetInv, [Next]_vars, octet' # octet
  PROVE  Octets!Next
<1>1. OctetsChange
  BY OctetStep DEF OctetInv
<1>2. PICK c \in Cluster : Assigns(c) \/ TakesBack(c)
  BY <1>1 DEF OctetsChange
<1>3. CASE Assigns(c)
  <2>1. octet'[c] = clusterMap[c] /\ clusterMap[c] \in Nat
    BY <1>3 DEF Assigns, TypeOK, ObjectsType, ReconcilerType
  <2>2. \A d \in Cluster : octet[d] # clusterMap[c]
    BY <1>3, <2>1 DEF Assigns, OctetInv, MapAgrees, MapSeparates, IsInjective, NoOctet
  <2> QED BY <1>3, <2>1, <2>2 DEF Assigns, Octets!Next, Octets!Acquire
<1>4. CASE TakesBack(c)
  <2>1. octet[c] # NoOctet
    BY <1>4 DEF TakesBack, TypeOK, ObjectsType
  <2> QED BY <1>4, <2>1 DEF TakesBack, Octets!Next, Octets!Release
<1> QED BY <1>2, <1>3, <1>4

(* The octets behave like OctetAllocator: every step of the two reconcilers*)
(* and of their environment hands out one octet that nobody holds, takes   *)
(* one back, or leaves them alone.                                         *)
THEOREM OctetAllocationCorrect == Spec => OctetAllocation
<1>1. Init => Octets!Init
  BY DEF Init, Octets!Init
<1>2. TypeOK /\ Planned /\ OctetInv /\ [Next]_vars => [Octets!Next]_octet
  BY AllocationStep
<1> QED BY <1>1, <1>2, OctetInvariant, PTL DEF Spec, OctetAllocation, Octets!Spec
-----------------------------------------------------------------------------
(* The range of the octets.                                                *)

MapBelowMax ==
  pc \in {"apply", "gateways"} /\ spec.mode # NoNet =>
    \A c \in DOMAIN clusterMap : clusterMap[c] < MaxClusters

LEMMA PlanBelowMax ==
  ASSUME \A l \in ClusterLists : Len(l) <= MaxClusters,
         TypeOK, OctetInv, OctetsBelowMax, PlanOctets
  PROVE  MapBelowMax'
<1> DEFINE listed == [c \in Listed |-> octet[c]]
           map == ComputeClusterMap(spec.clusters, listed)
<1> SUFFICES ASSUME pc' \in {"apply", "gateways"}, spec'.mode # NoNet
             PROVE  \A c \in DOMAIN clusterMap' : clusterMap'[c] < MaxClusters
  BY DEF MapBelowMax
<1>1. ~ComputeClusterMapPanics(spec.clusters, listed) /\ clusterMap' = map
  BY DEF PlanOctets, AbortReconcile
<1>2. Callable(spec.clusters, listed, Cluster)
  BY PlanIsCallable DEF OctetInv
<1>3. Len(spec.clusters) \in Nat /\ Len(spec.clusters) <= MaxClusters
  BY ListsAreLists, BoundsAssumption DEF TypeOK, ReconcilerType, Lists
<1>4. \A c \in KeepsOctet(listed) : listed[c] < MaxClusters
  BY DEF KeepsOctet, Listed, OctetsBelowMax
<1> HIDE DEF listed
<1>5. /\ map \in [Range(spec.clusters) \cup KeepsOctet(listed) -> Nat]
      /\ \A c \in KeepsOctet(listed) : map[c] = listed[c]
      /\ \A c \in NeedsOctet(spec.clusters, listed) : map[c] < Len(spec.clusters)
  BY <1>1, <1>2, <1>3, ComputeClusterMapType DEF Callable
<1> HIDE DEF map
<1>6. ASSUME NEW c \in DOMAIN map PROVE map[c] < MaxClusters
  <2>1. CASE c \in KeepsOctet(listed)
    BY <1>4, <1>5, <2>1
  <2>2. CASE c \in NeedsOctet(spec.clusters, listed)
    BY <1>3, <1>5, <2>2, BoundsAssumption
  <2> QED BY <1>5, <2>1, <2>2 DEF NeedsOctet
<1> QED BY <1>1, <1>6

LEMMA BelowMaxNext ==
  ASSUME \A l \in ClusterLists : Len(l) <= MaxClusters,
         OctetsBelowMax, MapBelowMax, TypeOK, Planned, OctetInv, [Next]_vars
  PROVE  OctetsBelowMax' /\ MapBelowMax'
<1>1. OctetsBelowMax'
  <2>1. OctetsChange
    BY OctetStep DEF OctetInv
  <2>2. CASE UNCHANGED octet
    BY <2>2 DEF OctetsBelowMax
  <2>3. ASSUME NEW c \in Cluster, TakesBack(c) PROVE OctetsBelowMax'
    BY <2>3, BoundsAssumption DEF OctetsBelowMax, TakesBack, NoOctet, TypeOK, ObjectsType
  <2>4. ASSUME NEW c \in Cluster, Assigns(c) PROVE OctetsBelowMax'
    BY <2>4 DEF OctetsBelowMax, MapBelowMax, Assigns, TypeOK, ObjectsType
  <2> QED BY <2>1, <2>2, <2>3, <2>4 DEF OctetsChange
<1>2. MapBelowMax'
  <2>1. CASE PlanOctets
    BY <2>1, PlanBelowMax
  <2>2. CASE KeepsPlan
    BY <2>2 DEF KeepsPlan, MapBelowMax
  <2> QED BY <2>1, <2>2, PlanStep
<1> QED BY <1>1, <1>2

LEMMA BelowMaxInit == Init => OctetsBelowMax /\ MapBelowMax
BY BoundsAssumption DEF Init, OctetsBelowMax, MapBelowMax, NoOctet

(* If no cluster list is longer than MaxClusters, as the webhooks promise, *)
(* every octet gives a subnet inside the slice's: the reconciler never     *)
(* counts further, however often clusters come and go.                     *)
THEOREM OctetsBelowMaxCorrect ==
  ASSUME \A l \in ClusterLists : Len(l) <= MaxClusters
  PROVE  Spec => []OctetsBelowMax
<1>1. (OctetsBelowMax /\ MapBelowMax) /\ (TypeOK /\ Planned /\ OctetInv) /\ [Next]_vars
        => (OctetsBelowMax /\ MapBelowMax)'
  BY BelowMaxNext
<1> QED BY <1>1, BelowMaxInit, OctetInvariant, PTL DEF Spec
-----------------------------------------------------------------------------
(* Places.  Lists that only grow and shrink at their end: every cluster    *)
(* has one position, and every position one cluster.                       *)
Ordered ==
  \A l, m \in ClusterLists :
    \A i \in 1 .. Len(l), j \in 1 .. Len(m) : l[i] = m[j] <=> i = j

(* The octet o is the position of c, counted from zero.                    *)
AtPlace(c, o) == \E l \in ClusterLists : \E i \in 1 .. Len(l) : l[i] = c /\ o = i - 1

InPlace == \A c \in Cluster : octet[c] # NoOctet => AtPlace(c, octet[c])

MapInPlace ==
  pc \in {"apply", "gateways"} /\ spec.mode # NoNet =>
    \A c \in DOMAIN clusterMap : AtPlace(c, clusterMap[c])

LEMMA OnePlace ==
  ASSUME Ordered, NEW c, NEW d, NEW o, NEW q, AtPlace(c, o), AtPlace(d, q)
  PROVE  o \in Nat /\ (c = d <=> o = q)
<1>1. PICK l \in ClusterLists : \E i \in 1 .. Len(l) : l[i] = c /\ o = i - 1
  BY DEF AtPlace
<1>2. PICK i \in 1 .. Len(l) : l[i] = c /\ o = i - 1
  BY <1>1
<1>3. PICK m \in ClusterLists : \E j \in 1 .. Len(m) : m[j] = d /\ q = j - 1
  BY DEF AtPlace
<1>4. PICK j \in 1 .. Len(m) : m[j] = d /\ q = j - 1
  BY <1>3
<1>5. c = d <=> i = j
  BY <1>2, <1>4 DEF Ordered
<1> QED BY <1>2, <1>4, <1>5

(* The list a reconcile works on is one of them, or empty.                 *)
LEMMA SpecPlace ==
  ASSUME TypeOK, NEW i \in 1 .. Len(spec.clusters) PROVE AtPlace(spec.clusters[i], i - 1)
<1>1. spec.clusters \in ClusterLists
  <2>1. spec.clusters \in ClusterLists \cup {<<>>} /\ spec.clusters # <<>>
    BY DEF TypeOK, ReconcilerType
  <2> QED BY <2>1
<1> QED BY <1>1 DEF AtPlace

(* What is listed when the octets are planned fits the positions, so       *)
(* ComputeClusterMap returns them.                                         *)
LEMMA PlanInPlace ==
  ASSUME Ordered, TypeOK, OctetsUnique, InPlace
  PROVE  LET listed == [c \in Listed |-> octet[c]]
         IN  /\ ~ComputeClusterMapPanics(spec.clusters, listed)
             /\ \A c \in DOMAIN ComputeClusterMap(spec.clusters, listed) :
                  AtPlace(c, ComputeClusterMap(spec.clusters, listed)[c])
<1> DEFINE listed == [c \in Listed |-> octet[c]]
           names == spec.clusters
           map == ComputeClusterMap(names, listed)
<1>1. \A c \in KeepsOctet(listed) : AtPlace(c, listed[c])
  BY DEF KeepsOctet, Listed, InPlace
<1>2. \A i \in 1 .. Len(names) : AtPlace(names[i], i - 1)
  BY SpecPlace
<1>3. Callable(names, listed, Cluster)
  BY PlanIsCallable
<1>4. names \in Seq(Cluster) /\ Len(names) \in Nat
  BY <1>3 DEF Callable
<1> HIDE DEF listed, names
<1>5. PlacesFit(names, listed)
  <2>1. ASSUME NEW i \in 1 .. Len(names), names[i] \in KeepsOctet(listed)
        PROVE  listed[names[i]] = i - 1
    BY <1>1, <1>2, <2>1, OnePlace
  <2>2. ASSUME NEW c \in KeepsOctet(listed) \ Range(names) PROVE listed[c] >= Len(names)
    <3>1. listed[c] \in Nat
      BY <1>1, OnePlace
    <3>2. CASE listed[c] < Len(names)
      <4>1. listed[c] + 1 \in 1 .. Len(names) /\ (listed[c] + 1) - 1 = listed[c]
        BY <1>4, <3>1, <3>2
      <4>2. AtPlace(names[listed[c] + 1], listed[c])
        BY <1>2, <4>1
      <4>3. names[listed[c] + 1] = c
        BY <1>1, <4>2, OnePlace
      <4> QED BY <1>4, <4>1, <4>3 DEF Range
    <3> QED BY <1>4, <3>1, <3>2
  <2> QED BY <2>1, <2>2 DEF PlacesFit
<1>6. ~ComputeClusterMapPanics(names, listed) /\ \A i \in 1 .. Len(names) : map[names[i]] = i - 1
  BY <1>3, <1>5, ComputeClusterMapInPlace
<1>7. DOMAIN map = Range(names) \cup KeepsOctet(listed) /\ \A c \in KeepsOctet(listed) : map[c] = listed[c]
  BY DEF ComputeClusterMap
<1> HIDE DEF map
<1>8. ASSUME NEW c \in DOMAIN map PROVE AtPlace(c, map[c])
  <2>1. CASE c \in KeepsOctet(listed)
    BY <1>1, <1>7, <2>1
  <2>2. CASE c \in Range(names)
    <3>1. PICK i \in 1 .. Len(names) : c = names[i]
      BY <1>4, <2>2 DEF Range
    <3> QED BY <1>2, <1>6, <3>1
  <2> QED BY <1>7, <2>1, <2>2
<1> QED BY <1>6, <1>8 DEF listed, names, map

LEMMA InPlaceNext ==
  ASSUME Ordered, TypeOK, Planned, OctetInv, InPlace, MapInPlace, [Next]_vars
  PROVE  InPlace' /\ MapInPlace'
<1>1. InPlace'
  <2>1. OctetsChange
    BY OctetStep DEF OctetInv
  <2>2. CASE UNCHANGED octet
    BY <2>2 DEF InPlace
  <2>3. ASSUME NEW c \in Cluster, TakesBack(c) PROVE InPlace'
    BY <2>3 DEF InPlace, TakesBack, TypeOK, ObjectsType
  <2>4. ASSUME NEW c \in Cluster, Assigns(c) PROVE InPlace'
    BY <2>4 DEF InPlace, MapInPlace, Assigns, TypeOK, ObjectsType
  <2> QED BY <2>1, <2>2, <2>3, <2>4 DEF OctetsChange
<1>2. MapInPlace'
  <2>1. CASE PlanOctets
    <3> SUFFICES ASSUME pc' \in {"apply", "gateways"}, spec'.mode # NoNet
                 PROVE  \A c \in DOMAIN clusterMap' : AtPlace(c, clusterMap'[c])
      BY DEF MapInPlace
    <3>1. clusterMap' = ComputeClusterMap(spec.clusters, [c \in Listed |-> octet[c]])
      BY <2>1 DEF PlanOctets, AbortReconcile
    <3> QED BY <3>1, PlanInPlace DEF OctetInv
  <2>2. CASE KeepsPlan
    BY <2>2 DEF KeepsPlan, MapInPlace
  <2> QED BY <2>1, <2>2, PlanStep
<1> QED BY <1>1, <1>2

LEMMA InPlaceInit == Init => InPlace /\ MapInPlace
BY DEF Init, InPlace, MapInPlace

(* As long as clusters only join and leave at the end of the list, every   *)
(* octet is the position of its cluster, also for the objects that linger  *)
(* after their cluster has left, and ComputeClusterMap never panics.       *)
THEOREM OctetsInPlace ==
  ASSUME Ordered
  PROVE  Spec => [](InPlace /\ ~ComputeClusterMapPanics(spec.clusters, [c \in Listed |-> octet[c]]))
<1>1. (InPlace /\ MapInPlace) /\ (TypeOK /\ Planned /\ OctetInv) /\ [Next]_vars
        => (InPlace /\ MapInPlace)'
  BY InPlaceNext
<1>2. TypeOK /\ OctetInv /\ InPlace => ~ComputeClusterMapPanics(spec.clusters, [c \in Listed |-> octet[c]])
  BY PlanInPlace DEF OctetInv
<1> QED BY <1>1, <1>2, InPlaceInit, OctetInvariant, PTL DEF Spec
-----------------------------------------------------------------------------
(* The deletion of a slice.                                                *)

(* While the slice's finalizer is missing nobody has created an object     *)
(* for it, and a reconcile only runs under the finalizer.                  *)
FinalizerGuards ==
  /\ slice.phase = "deleting" \/ pc # "idle" => slice.finalizer = TRUE
  /\ slice.finalizer = TRUE => slice.phase # "absent"
  /\ slice.finalizer # TRUE => \A c \in Cluster : state[c] # "live"

(* The objects that are still live when a deletion walks through its list  *)
(* are the ones it has not come to.                                        *)
DeletionCovers ==
  /\ pc \in {"deleteGateways", "deleteSlices"} => slice.phase = "deleting"
  /\ pc = "deleteSlices" => \A c \in Cluster : state[c] = "live" => c \in todo

OrphanInv == FinalizerGuards /\ DeletionCovers

(* A step that makes no object live and leaves the slice alone.            *)
LEMMA OrphanKept ==
  ASSUME OrphanInv, UNCHANGED slice,
         \A c \in Cluster : state'[c] = "live" => state[c] = "live",
         pc' = "idle" \/ UNCHANGED <<pc, todo>>
  PROVE  OrphanInv'
<1>1. FinalizerGuards'
  BY DEF OrphanInv, FinalizerGuards
<1>2. DeletionCovers'
  BY DEF OrphanInv, DeletionCovers
<1> QED BY <1>1, <1>2 DEF OrphanInv

LEMMA DeleteMakesNothingLive ==
  ASSUME TypeOK, NEW c \in Cluster, DeleteObject(c)
  PROVE  /\ \A d \in Cluster : state'[d] = "live" => state[d] = "live"
         /\ state'[c] # "live"
<1>1. CASE Vanish(c)
  BY <1>1 DEF Vanish, TypeOK, ObjectsType
<1>2. CASE ~Vanish(c)
  BY <1>2 DEF DeleteObject, wscVars, TypeOK, ObjectsType
<1> QED BY <1>1, <1>2

LEMMA OrphanNext == TypeOK /\ OrphanInv /\ [Next]_vars => OrphanInv'
<1> SUFFICES ASSUME TypeOK, OrphanInv, [Next]_vars PROVE OrphanInv'
  OBVIOUS
<1> USE DEF wscVars, queueVars, localVars, workerVars, boundVars
<1>1. ASSUME NEW l \in ClusterLists, NEW m \in Modes, CreateSliceConfig(l, m) PROVE OrphanInv'
  BY <1>1
    DEF CreateSliceConfig, OrphanInv, FinalizerGuards, DeletionCovers, TypeOK, SliceType
<1>2. ASSUME NEW l \in ClusterLists, NEW m \in Modes, UpdateSliceConfig(l, m) PROVE OrphanInv'
  BY <1>2
    DEF UpdateSliceConfig, OrphanInv, FinalizerGuards, DeletionCovers, TypeOK, SliceType
<1>3. CASE DeleteSliceConfig
  BY <1>3
    DEF DeleteSliceConfig, OrphanInv, FinalizerGuards, DeletionCovers, TypeOK, SliceType
<1>4. ASSUME NEW c \in Cluster, ForceDelete(c) PROVE OrphanInv'
  BY <1>4, OrphanKept, DeleteMakesNothingLive DEF ForceDelete
<1>5. ASSUME NEW c \in Cluster, WorkerAdopts(c) PROVE OrphanInv'
  BY <1>5, OrphanKept DEF WorkerAdopts
<1>6. ASSUME NEW c \in Cluster, WorkerReleases(c) PROVE OrphanInv'
  <2>1. \A d \in Cluster : state'[d] = "live" => state[d] = "live"
    BY <1>6 DEF WorkerReleases, Vanish, TypeOK, ObjectsType
  <2> QED BY <1>6, <2>1, OrphanKept DEF WorkerReleases
<1>7. ASSUME NEW c \in Cluster, GraceExpires(c) PROVE OrphanInv'
  BY <1>7, OrphanKept DEF GraceExpires
<1>8. ASSUME NEW c \in Cluster, TimerFires(c) PROVE OrphanInv'
  BY <1>8, OrphanKept DEF TimerFires
<1>9. CASE ReconcileAbsent
  BY <1>9, OrphanKept DEF ReconcileAbsent
<1>10. CASE ReconcileLive
  BY <1>10 DEF ReconcileLive, OrphanInv, FinalizerGuards, DeletionCovers, TypeOK, SliceType
<1>11. ASSUME NEW c \in Cluster, CleanUpSlices(c) PROVE OrphanInv'
  <2>1. CASE Exists(c)
    <3>1. \A d \in Cluster : state'[d] = "live" => state[d] = "live"
      BY <1>11, <2>1, DeleteMakesNothingLive DEF CleanUpSlices
    <3>2. pc = "cleanUpSlices" /\ UNCHANGED <<pc, slice>>
      BY <1>11, <2>1 DEF CleanUpSlices
    <3> QED BY <3>1, <3>2 DEF OrphanInv, FinalizerGuards, DeletionCovers
  <2>2. CASE ~Exists(c)
    BY <1>11, <2>2, OrphanKept DEF CleanUpSlices, AbortReconcile
  <2> QED BY <2>1, <2>2
<1>12. CASE PlanOctets
  <2>1. pc = "cleanUpSlices" /\ pc' \in {"idle", "apply"} /\ UNCHANGED <<slice, state>>
    BY <1>12 DEF PlanOctets, AbortReconcile
  <2> QED BY <2>1 DEF OrphanInv, FinalizerGuards, DeletionCovers
<1>13. CASE ApplyCluster
  <2>1. pc = "apply" /\ pc' \in {"idle", "apply"} /\ UNCHANGED slice
    BY <1>13 DEF ApplyCluster, AbortReconcile
  <2> QED BY <2>1 DEF OrphanInv, FinalizerGuards, DeletionCovers
<1>14. CASE WscsApplied
  <2>1. pc = "apply" /\ pc' \in {"idle", "gateways"} /\ UNCHANGED <<slice, state>>
    BY <1>14 DEF WscsApplied, EndReconcile
  <2> QED BY <2>1 DEF OrphanInv, FinalizerGuards, DeletionCovers
<1>15. CASE ReconcileDone
  BY <1>15, OrphanKept DEF ReconcileDone, EndReconcile
<1>16. CASE ReconcileDeleting
  BY <1>16
    DEF ReconcileDeleting, OrphanInv, FinalizerGuards, DeletionCovers, TypeOK, SliceType
<1>17. CASE ListForDeletion
  BY <1>17 DEF ListForDeletion, Listed, Exists, OrphanInv, FinalizerGuards, DeletionCovers
<1>18. ASSUME NEW c \in Cluster, DeleteWorkerSliceConfig(c) PROVE OrphanInv'
  <2>1. CASE Exists(c)
    <3>1. /\ \A d \in Cluster : state'[d] = "live" => state[d] = "live"
          /\ state'[c] # "live"
      BY <1>18, <2>1, DeleteMakesNothingLive DEF DeleteWorkerSliceConfig
    <3>2. todo' = todo \ {c} /\ UNCHANGED <<pc, slice>>
      BY <1>18, <2>1 DEF DeleteWorkerSliceConfig
    <3> QED BY <3>1, <3>2 DEF OrphanInv, FinalizerGuards, DeletionCovers
  <2>2. CASE ~Exists(c)
    BY <1>18, <2>2, OrphanKept DEF DeleteWorkerSliceConfig, AbortReconcile
  <2> QED BY <2>1, <2>2
<1>19. CASE RemoveSliceFinalizer
  <2>1. \A c \in Cluster : state[c] # "live"
    BY <1>19 DEF RemoveSliceFinalizer, OrphanInv, DeletionCovers
  <2>2. slice'.phase = "absent" /\ slice'.finalizer = FALSE /\ pc' = "idle" /\ UNCHANGED state
    BY <1>19 DEF RemoveSliceFinalizer, EndReconcile, TypeOK, SliceType
  <2> QED BY <2>1, <2>2 DEF OrphanInv, FinalizerGuards, DeletionCovers
<1>20. CASE ReconcileFails
  BY <1>20, OrphanKept DEF ReconcileFails, AbortReconcile
<1>21. ASSUME NEW c \in Cluster, ReconcileWscAbsent(c) PROVE OrphanInv'
  BY <1>21, OrphanKept DEF ReconcileWscAbsent
<1>22. ASSUME NEW c \in Cluster, ReconcileWscLive(c) PROVE OrphanInv'
  BY <1>22, OrphanKept DEF ReconcileWscLive
<1>23. CASE CopySpec
  BY <1>23, OrphanKept DEF CopySpec
<1>24. ASSUME NEW c \in Cluster, ReconcileWscWaits(c) PROVE OrphanInv'
  BY <1>24, OrphanKept DEF ReconcileWscWaits
<1>25. ASSUME NEW c \in Cluster, RemoveWorkerFinalizers(c) PROVE OrphanInv'
  <2>1. \A d \in Cluster : state'[d] = "live" => state[d] = "live"
    BY <1>25 DEF RemoveWorkerFinalizers, Vanish, TypeOK, ObjectsType
  <2> QED BY <1>25, <2>1, OrphanKept DEF RemoveWorkerFinalizers
<1>26. ASSUME NEW c \in Cluster, RemoveWorkerFinalizersFails(c) PROVE OrphanInv'
  BY <1>26, OrphanKept DEF RemoveWorkerFinalizersFails
<1>27. CASE RecreateForced
  BY <1>27, OrphanKept DEF RecreateForced
<1>28. CASE ReconcileWscFails
  BY <1>28, OrphanKept DEF ReconcileWscFails
<1>29. CASE Crash
  BY <1>29, OrphanKept DEF Crash
<1>30. CASE UNCHANGED vars
  BY <1>30, OrphanKept DEF vars
<1> QED
  BY <1>1, <1>2, <1>3, <1>4, <1>5, <1>6, <1>7, <1>8, <1>9, <1>10, <1>11, <1>12,
    <1>13, <1>14, <1>15, <1>16, <1>17, <1>18, <1>19, <1>20, <1>21, <1>22, <1>23,
    <1>24, <1>25, <1>26, <1>27, <1>28, <1>29, <1>30
    DEF Next, User, Worker, Time, Fault, SliceStep, WscFinish, WscStart

(* When a slice is gone, none of its WorkerSliceConfigs is left that       *)
(* nobody is going to delete: cleanUpSliceConfigResources before           *)
(* RemoveFinalizer is enough, whenever the slice is deleted.               *)
THEOREM NoOrphansCorrect == Spec => []NoOrphans
<1>1. Init => OrphanInv
  BY DEF Init, OrphanInv, FinalizerGuards, DeletionCovers
<1>2. OrphanInv /\ (TypeOK /\ Planned) /\ [Next]_vars => OrphanInv'
  BY OrphanNext
<1>3. OrphanInv => NoOrphans
  BY DEF OrphanInv, FinalizerGuards, NoOrphans
<1> QED BY <1>1, <1>2, <1>3, TypeInvariant, PTL DEF Spec
-----------------------------------------------------------------------------
(* The deletion of a WorkerSliceConfig.                                    *)

(* As long as no call has failed, the key of an object being deleted is    *)
(* queued or has a timer, also while somebody works on it.                 *)
Scheduled ==
  errors = 0 => \A c \in Cluster : state[c] = "deleting" => c \in wscQueue \cup timers

(* DeleteObject queues the key of what it marks.                           *)
LEMMA DeleteIsScheduled ==
  ASSUME TypeOK, Scheduled, NEW d \in Cluster, DeleteObject(d), UNCHANGED <<timers, errors>>
  PROVE  Scheduled'
<1>1. CASE Vanish(d) /\ Written(d)
  <2>1. \A c \in Cluster : state'[c] = "deleting" => state[c] = "deleting"
    BY <1>1 DEF Vanish, TypeOK, ObjectsType
  <2> QED BY <1>1, <2>1 DEF Written, Scheduled
<1>2. CASE state' = [state EXCEPT ![d] = "deleting"] /\ Written(d)
  BY <1>2 DEF Written, Scheduled, TypeOK, ObjectsType
<1>3. CASE UNCHANGED <<wscVars, wscQueue, fresh>>
  BY <1>3 DEF wscVars, Scheduled
<1> QED BY <1>1, <1>2, <1>3 DEF DeleteObject

LEMMA ScheduledNext == TypeOK /\ Scheduled /\ [Next]_vars => Scheduled'
<1> SUFFICES ASSUME TypeOK, Scheduled, [Next]_vars PROVE Scheduled'
  OBVIOUS
<1> USE DEF wscVars, queueVars, localVars, workerVars, boundVars
<1>1. CASE UNCHANGED <<state, wscQueue, timers>> /\ (errors' = 0 => errors = 0)
  BY <1>1 DEF Scheduled
<1>2. ASSUME NEW c \in Cluster, ForceDelete(c) PROVE Scheduled'
  BY <1>2, DeleteIsScheduled DEF ForceDelete
<1>3. ASSUME NEW c \in Cluster, WorkerAdopts(c) PROVE Scheduled'
  BY <1>3 DEF WorkerAdopts, Written, Scheduled
<1>4. ASSUME NEW c \in Cluster, WorkerReleases(c) PROVE Scheduled'
  <2>1. \A d \in Cluster : state'[d] = "deleting" => state[d] = "deleting"
    BY <1>4 DEF WorkerReleases, Vanish, TypeOK, ObjectsType
  <2> QED BY <1>4, <2>1 DEF WorkerReleases, Written, Scheduled
<1>5. ASSUME NEW c \in Cluster, TimerFires(c) PROVE Scheduled'
  BY <1>5 DEF TimerFires, Scheduled
<1>6. ASSUME NEW c \in Cluster, CleanUpSlices(c) \/ DeleteWorkerSliceConfig(c) PROVE Scheduled'
  <2>1. CASE Exists(c)
    BY <1>6, <2>1, DeleteIsScheduled DEF CleanUpSlices, DeleteWorkerSliceConfig
  <2>2. CASE ~Exists(c)
    BY <1>6, <2>2 DEF CleanUpSlices, DeleteWorkerSliceConfig, Scheduled
  <2> QED BY <2>1, <2>2
<1>7. CASE ApplyCluster
  <2>1. /\ \A d \in Cluster : state'[d] = "deleting" => state[d] = "deleting"
        /\ wscQueue \subseteq wscQueue' /\ UNCHANGED <<timers, errors>>
    <3>1. spec.clusters[index] \in Cluster
      BY <1>7, ListsAreLists DEF ApplyCluster, TypeOK, ReconcilerType, Lists
    <3> QED BY <1>7, <3>1 DEF ApplyCluster, UpdateWorkerSliceConfig, CreateWorkerSliceConfig,
                              Written, TypeOK, ObjectsType
  <2> QED BY <2>1 DEF Scheduled
<1>8. ASSUME NEW c \in Cluster, ReconcileWscAbsent(c) \/ ReconcileWscLive(c) PROVE Scheduled'
  <2>1. state[c] # "deleting" /\ wscQueue \ {c} \subseteq wscQueue' /\ UNCHANGED <<state, timers, errors>>
    BY <1>8 DEF ReconcileWscAbsent, ReconcileWscLive
  <2> QED BY <2>1 DEF Scheduled
<1>9. ASSUME NEW c \in Cluster, ReconcileWscWaits(c) PROVE Scheduled'
  BY <1>9 DEF ReconcileWscWaits, Scheduled
<1>10. ASSUME NEW c \in Cluster, RemoveWorkerFinalizers(c) PROVE Scheduled'
  BY <1>10 DEF RemoveWorkerFinalizers, Vanish, Scheduled, TypeOK, ObjectsType
<1>11. CASE CopySpec
  BY <1>11 DEF CopySpec, Scheduled
<1>12. CASE Crash
  BY <1>12 DEF Crash, Listed, Exists, Scheduled
<1>13. CASE ReconcileFails \/ ReconcileWscFails
            \/ \E c \in Cluster : RemoveWorkerFinalizersFails(c)
  <2>1. errors' # 0
    BY <1>13 DEF ReconcileFails, ReconcileWscFails, RemoveWorkerFinalizersFails, TypeOK,
                 BoundsType
  <2> QED BY <2>1 DEF Scheduled
<1>14. CASE UNCHANGED vars
  BY <1>1, <1>14 DEF vars
<1>15. CASE \/ \E l \in ClusterLists, m \in Modes : CreateSliceConfig(l, m) \/ UpdateSliceConfig(l, m)
            \/ DeleteSliceConfig \/ \E c \in Cluster : GraceExpires(c)
  BY <1>1, <1>15 DEF CreateSliceConfig, UpdateSliceConfig, DeleteSliceConfig, GraceExpires
<1>16. CASE \/ ReconcileAbsent \/ ReconcileLive \/ PlanOctets \/ WscsApplied \/ ReconcileDone
            \/ ReconcileDeleting \/ ListForDeletion \/ RemoveSliceFinalizer \/ RecreateForced
  BY <1>1, <1>16 DEF ReconcileAbsent, ReconcileLive, PlanOctets, WscsApplied, ReconcileDone,
       ReconcileDeleting, ListForDeletion, RemoveSliceFinalizer, RecreateForced
<1> QED
  BY <1>2, <1>3, <1>4, <1>5, <1>6, <1>7, <1>8, <1>9, <1>10, <1>11, <1>12, <1>13, <1>14,
     <1>15, <1>16
  DEF Next, User, Worker, Time, Fault, SliceStep, WscFinish, WscStart

(* Until a call fails, a WorkerSliceConfig that is being deleted is on     *)
(* somebody's list: RemoveWorkerFinalizers never leaves one behind without *)
(* the delayed requeue, for any number of clusters and restarts.  (A       *)
(* failing Update in it is only logged, and then it may.)                  *)
THEOREM DeletionScheduledCorrect == Spec => [](errors = 0 => DeletionScheduled)
<1>1. Init => Scheduled
  BY DEF Init, Scheduled
<1>2. Scheduled /\ (TypeOK /\ Planned) /\ [Next]_vars => Scheduled'
  BY ScheduledNext
<1>3. Scheduled => (errors = 0 => DeletionScheduled)
  BY DEF Scheduled, DeletionScheduled
<1> QED BY <1>1, <1>2, <1>3, TypeInvariant, PTL DEF Spec
-----------------------------------------------------------------------------
(* At rest.  Nobody forgets an object: each cluster is as the slice wants  *)
(* it, or somebody is still going to see to it.                            *)

(* The worker's finalizer never is the only one: what is being deleted is  *)
(* let go by ReconcileWorkerSliceConfig, which tells the slice.            *)
WorkersWait ==
  \A c \in Cluster : "worker" \in finalizers[c] => "controller" \in finalizers[c]

(* A reconcile whose slice is not queued again works on what it says now.  *)
SpecCurrent ==
  /\ slice.phase = "live" /\ pc # "idle" =>
       sliceQueue \/ (spec.clusters = slice.clusters /\ spec.mode = slice.mode)
  /\ slice.phase = "deleting" => sliceQueue \/ pc \in {"deleteGateways", "deleteSlices"}
  /\ pc = "cleanUpSlices" => todo \cap Range(spec.clusters) = {}
  /\ pc \notin {"apply", "gateways"} => index = 1

(* The slice reconcile has still to come to c.                             *)
Ahead(c) ==
  \/ pc = "cleanUpSlices"
  \/ pc = "apply" /\ \E i \in index .. Len(spec.clusters) : spec.clusters[i] = c

Copying(c) == wpc = "copy" /\ cur = c

(* The object of c has what the slice says, is queued, or is about to be   *)
(* given it by a reconcile that cannot have read an older slice.           *)
Made(c) ==
  /\ state[c] = "live" /\ (slice.mode = Net => octet[c] # NoOctet)
  /\ \/ copied[c] /\ (Copying(c) => "old" \notin got)
     \/ c \in wscQueue
     \/ Copying(c) /\ got = {"now"}

Leaves(c) == state[c] = "deleting" \/ (wpc = "forced" /\ cur = c)

Settling(c) ==
  \/ sliceQueue \/ slice.phase # "live"
  \/ c \in Range(slice.clusters) /\ (Ahead(c) \/ Leaves(c) \/ Made(c))
  \/ c \notin Range(slice.clusters) /\ (state[c] = "live" => pc = "cleanUpSlices" /\ c \in todo)

Undisturbed == errors = 0 /\ forced = 0

RestInv ==
  WorkersWait /\ SpecCurrent /\ (Undisturbed => \A c \in Cluster : Settling(c))

(* Finalizers.                                                             *)
LEMMA WorkersWaitNext ==
  ASSUME ~EagerWorkers, TypeOK, WorkersWait, [Next]_vars PROVE WorkersWait'
<1> USE DEF wscVars, queueVars, localVars, workerVars, boundVars
<1>1. CASE UNCHANGED finalizers
  BY <1>1 DEF WorkersWait
<1>2. ASSUME NEW c \in Cluster, Vanish(c) PROVE WorkersWait'
  BY <1>2 DEF Vanish, WorkersWait, TypeOK, ObjectsType
<1>3. ASSUME NEW c \in Cluster, DeleteObject(c) PROVE WorkersWait'
  BY <1>1, <1>2, <1>3 DEF DeleteObject
<1>4. ASSUME NEW c \in Cluster, WorkerAdopts(c) \/ ReconcileWscLive(c) PROVE WorkersWait'
  BY <1>4 DEF WorkerAdopts, ReconcileWscLive, WorkersWait, TypeOK, ObjectsType
<1>5. ASSUME NEW c \in Cluster, WorkerReleases(c) PROVE WorkersWait'
  <2>1. CASE finalizers' = [finalizers EXCEPT ![c] = @ \ {"worker"}]
    BY <2>1 DEF WorkersWait, TypeOK, ObjectsType
  <2> QED BY <1>2, <1>5, <2>1 DEF WorkerReleases
<1>6. ASSUME NEW c \in Cluster,
             \/ ForceDelete(c) \/ CleanUpSlices(c) \/ DeleteWorkerSliceConfig(c)
             \/ RemoveWorkerFinalizers(c)
      PROVE  WorkersWait'
  BY <1>1, <1>2, <1>3, <1>6
    DEF ForceDelete, CleanUpSlices, DeleteWorkerSliceConfig, RemoveWorkerFinalizers
<1>7. CASE ApplyCluster
  BY <1>1, <1>7 DEF ApplyCluster, UpdateWorkerSliceConfig, CreateWorkerSliceConfig
<1>8. CASE \/ \E l \in ClusterLists, m \in Modes : CreateSliceConfig(l, m) \/ UpdateSliceConfig(l, m)
           \/ DeleteSliceConfig \/ \E c \in Cluster : GraceExpires(c) \/ TimerFires(c)
  BY <1>1, <1>8 DEF CreateSliceConfig, UpdateSliceConfig, DeleteSliceConfig, GraceExpires, TimerFires
<1>9. CASE \/ ReconcileAbsent \/ ReconcileLive \/ PlanOctets \/ WscsApplied \/ ReconcileDone
           \/ ReconcileDeleting \/ ListForDeletion \/ RemoveSliceFinalizer
  BY <1>1, <1>9 DEF ReconcileAbsent, ReconcileLive, PlanOctets, WscsApplied, ReconcileDone,
       ReconcileDeleting, ListForDeletion, RemoveSliceFinalizer
<1>10. CASE \/ CopySpec \/ RecreateForced
            \/ \E c \in Cluster : ReconcileWscAbsent(c) \/ ReconcileWscWaits(c)
  BY <1>1, <1>10 DEF CopySpec, RecreateForced, ReconcileWscAbsent, ReconcileWscWaits
<1>11. CASE \/ ReconcileFails \/ ReconcileWscFails \/ Crash
            \/ \E c \in Cluster : RemoveWorkerFinalizersFails(c)
  BY <1>1, <1>11 DEF ReconcileFails, ReconcileWscFails, Crash, RemoveWorkerFinalizersFails
<1>12. CASE UNCHANGED vars
  BY <1>1, <1>12 DEF vars
<1> QED
  BY <1>4, <1>5, <1>6, <1>7, <1>8, <1>9, <1>10, <1>11, <1>12
  DEF Next, User, Worker, Time, Fault, SliceStep, WscFinish, WscStart

(* What the slice reconcile works on.                                      *)
LEMMA SpecKept ==
  ASSUME SpecCurrent, UNCHANGED <<slice, pc, spec, index>>, todo' \subseteq todo,
         sliceQueue => sliceQueue'
  PROVE  SpecCurrent'
BY DEF SpecCurrent

LEMMA SpecQueued ==
  ASSUME SpecCurrent, sliceQueue' = TRUE, pc' = "idle" /\ index' = 1 PROVE SpecCurrent'
BY DEF SpecCurrent

LEMMA SpecCurrentNext ==
  ASSUME TypeOK, OrphanInv, SpecCurrent, [Next]_vars PROVE SpecCurrent'
<1> USE DEF wscVars, queueVars, localVars, workerVars, boundVars
<1>1. CASE \E l \in ClusterLists, m \in Modes : CreateSliceConfig(l, m) \/ UpdateSliceConfig(l, m)
  BY <1>1 DEF CreateSliceConfig, UpdateSliceConfig, SpecCurrent
<1>2. CASE DeleteSliceConfig
  BY <1>2 DEF DeleteSliceConfig, SpecCurrent
<1>3. CASE \/ \E c \in Cluster : \/ ForceDelete(c) \/ WorkerAdopts(c) \/ WorkerReleases(c)
                                 \/ GraceExpires(c) \/ TimerFires(c)
  BY <1>3, SpecKept DEF ForceDelete, WorkerAdopts, WorkerReleases, GraceExpires, TimerFires
<1>4. CASE ReconcileAbsent
  BY <1>4 DEF ReconcileAbsent, SpecCurrent
<1>5. CASE ReconcileLive
  <2>1. /\ slice'.phase = "live" /\ slice'.clusters = slice.clusters /\ slice'.mode = slice.mode
        /\ spec'.clusters = slice.clusters /\ spec'.mode = slice.mode
    BY <1>5 DEF ReconcileLive, TypeOK, SliceType
  <2> QED BY <1>5, <2>1 DEF ReconcileLive, SpecCurrent
<1>6. ASSUME NEW c \in Cluster, CleanUpSlices(c) \/ DeleteWorkerSliceConfig(c) PROVE SpecCurrent'
  BY <1>6, SpecKept, SpecQueued DEF CleanUpSlices, DeleteWorkerSliceConfig, AbortReconcile
<1>7. CASE PlanOctets
  <2>1. CASE AbortReconcile
    BY <2>1, SpecQueued DEF AbortReconcile
  <2>2. CASE pc' = "apply" /\ UNCHANGED <<slice, spec, sliceQueue>>
    BY <1>7, <2>2 DEF PlanOctets, SpecCurrent
  <2> QED BY <1>7, <2>1, <2>2 DEF PlanOctets
<1>8. CASE ApplyCluster
  <2>1. CASE AbortReconcile
    BY <2>1, SpecQueued DEF AbortReconcile
  <2>2. CASE UNCHANGED <<slice, pc, spec, todo, sliceQueue>>
    BY <1>8, <2>2 DEF ApplyCluster, SpecCurrent
  <2> QED BY <1>8, <2>1, <2>2 DEF ApplyCluster
<1>9. CASE WscsApplied \/ ReconcileDone
  BY <1>9 DEF WscsApplied, ReconcileDone, EndReconcile, SpecCurrent
<1>10. CASE ReconcileDeleting \/ ListForDeletion
  BY <1>10 DEF ReconcileDeleting, ListForDeletion, SpecCurrent, OrphanInv, DeletionCovers
<1>11. CASE RemoveSliceFinalizer
  BY <1>11 DEF RemoveSliceFinalizer, EndReconcile, SpecCurrent, TypeOK, SliceType
<1>12. CASE ReconcileFails
  BY <1>12, SpecQueued DEF ReconcileFails, AbortReconcile
<1>13. CASE \/ CopySpec \/ RecreateForced \/ ReconcileWscFails
            \/ \E c \in Cluster : \/ ReconcileWscAbsent(c) \/ ReconcileWscLive(c)
                                  \/ ReconcileWscWaits(c) \/ RemoveWorkerFinalizers(c)
                                  \/ RemoveWorkerFinalizersFails(c)
  <2> DEFINE Held == UNCHANGED <<slice, pc, spec, index, todo>>
  <2>1. CASE RecreateForced
    <3>1. Held
      BY <2>1 DEF RecreateForced
    <3>2. sliceQueue => sliceQueue'
      BY <2>1, Zenon DEF RecreateForced
    <3> QED BY <3>1, <3>2, SpecKept
  <2>2. CASE CopySpec
    BY <2>2, SpecKept DEF CopySpec
  <2>3. CASE ReconcileWscFails
    BY <2>3, SpecKept DEF ReconcileWscFails
  <2>4. ASSUME NEW c \in Cluster, ReconcileWscAbsent(c) \/ ReconcileWscLive(c) \/ ReconcileWscWaits(c)
        PROVE  SpecCurrent'
    BY <2>4, SpecKept DEF ReconcileWscAbsent, ReconcileWscLive, ReconcileWscWaits
  <2>5. ASSUME NEW c \in Cluster, RemoveWorkerFinalizers(c) \/ RemoveWorkerFinalizersFails(c)
        PROVE  SpecCurrent'
    BY <2>5, SpecKept DEF RemoveWorkerFinalizers, RemoveWorkerFinalizersFails
  <2> QED BY <1>13, <2>1, <2>2, <2>3, <2>4, <2>5
<1>14. CASE Crash
  BY <1>14 DEF Crash, SpecCurrent
<1>15. CASE UNCHANGED vars
  BY <1>15, SpecKept DEF vars
<1> QED
  BY <1>1, <1>2, <1>3, <1>4, <1>5, <1>6, <1>7, <1>8, <1>9, <1>10, <1>11, <1>12, <1>13,
     <1>14, <1>15
  DEF Next, User, Worker, Time, Fault, SliceStep, WscFinish, WscStart


(* The clusters.  A queued slice, and one that is not live, settle nothing *)
(* yet.                                                                    *)
LEMMA Moot ==
  ASSUME NEW c \in Cluster, sliceQueue' = TRUE \/ slice'.phase # "live" PROVE Settling(c)'
BY DEF Settling

(* Neither the slice nor its reconcile moves, and the object of c is left  *)
(* alone, at most taken by or put back by its own reconciler.              *)
LEMMA SettlingKept ==
  ASSUME TypeOK, NEW c \in Cluster, Settling(c),
         UNCHANGED <<slice, pc, spec, index, todo>>, sliceQueue => sliceQueue',
         state'[c] = state[c], Made(c) => Made(c)',
         c \in Range(slice.clusters) /\ wpc = "forced" /\ cur = c =>
           (wpc' = "forced" /\ cur' = c) \/ sliceQueue'
  PROVE  Settling(c)'
<1>1. Ahead(c)' <=> Ahead(c)
  BY DEF Ahead
<1>2. c \in Range(slice.clusters) /\ Leaves(c) => Leaves(c)' \/ sliceQueue'
  BY DEF Leaves
<1> QED BY <1>1, <1>2 DEF Settling

(* The reconcile moves on, past no cluster.                                *)
LEMMA SettlingMoved ==
  ASSUME NEW c \in Cluster, Settling(c), pc # "cleanUpSlices", pc' # "cleanUpSlices",
         UNCHANGED <<slice, state, octet, copied, wscQueue, wpc, cur, got>>,
         sliceQueue => sliceQueue',
         Ahead(c) => Ahead(c)'
  PROVE  Settling(c)'
BY DEF Settling, Leaves, Made, Copying

(* The environment.                                                        *)
LEMMA SettlingEnvironment ==
  ASSUME TypeOK, WorkersWait, NEW c \in Cluster, Settling(c), Undisturbed', User \/ Worker \/ Time
  PROVE  Settling(c)'
<1> USE DEF queueVars, localVars, workerVars, boundVars
<1>1. CASE \E l \in ClusterLists, m \in Modes : CreateSliceConfig(l, m) \/ UpdateSliceConfig(l, m)
  BY <1>1, Moot DEF CreateSliceConfig, UpdateSliceConfig
<1>2. CASE DeleteSliceConfig
  BY <1>2, Moot DEF DeleteSliceConfig
<1>3. ASSUME NEW d \in Cluster PROVE ~ForceDelete(d)
  BY DEF ForceDelete, Undisturbed, TypeOK, BoundsType
<1>4. ASSUME NEW d \in Cluster, WorkerAdopts(d) PROVE Settling(c)'
  BY <1>4, SettlingKept DEF WorkerAdopts, Written, Made, Copying
<1>5. ASSUME NEW d \in Cluster, WorkerReleases(d) PROVE Settling(c)'
  <2>1. finalizers[d] # {"worker"}
    BY <1>5 DEF WorkerReleases, WorkersWait
  <2> QED BY <1>5, <2>1, SettlingKept DEF WorkerReleases, Written, Made, Copying
<1>6. ASSUME NEW d \in Cluster, GraceExpires(d) \/ TimerFires(d) PROVE Settling(c)'
  BY <1>6, SettlingKept DEF GraceExpires, TimerFires, wscVars, Made, Copying
<1> QED BY <1>1, <1>2, <1>3, <1>4, <1>5, <1>6 DEF User, Worker, Time

(* The reconciler of the objects.                                          *)
LEMMA SettlingWsc ==
  ASSUME TypeOK, ObjectInv, NEW c \in Cluster, Settling(c),
         WscFinish \/ \E d \in Cluster : WscStart(d)
  PROVE  Settling(c)'
<1> USE DEF queueVars, localVars, workerVars, boundVars
<1>1. ASSUME NEW d \in Cluster, ReconcileWscAbsent(d) PROVE Settling(c)'
  <2>1. Made(c) => c # d
    BY <1>1 DEF ReconcileWscAbsent, Made, Copying
  <2> QED BY <1>1, <2>1, SettlingKept DEF ReconcileWscAbsent, wscVars, Made, Copying
<1>2. ASSUME NEW d \in Cluster, ReconcileWscLive(d) PROVE Settling(c)'
  <2>1. CASE slice.phase # "live"
    BY <1>2, <2>1, Moot DEF ReconcileWscLive
  <2>2. CASE slice.phase = "live"
    <3>1. c \in wscQueue => c \in wscQueue' \/ Copying(c)'
      BY <1>2 DEF ReconcileWscLive, Copying
    <3>2. /\ wpc = "idle" /\ got' = {"now"}
          /\ UNCHANGED <<slice, state, octet, copied, sliceQueue, pc, spec, index, todo>>
      BY <1>2, <2>2 DEF ReconcileWscLive
    <3> QED BY <3>1, <3>2, SettlingKept DEF Made, Copying
  <2> QED BY <2>1, <2>2
<1>3. CASE CopySpec
  <2>1. UNCHANGED octet
    BY <1>3, CopySpecKeepsOctets
  <2>2. wpc = "copy" /\ UNCHANGED <<slice, state, sliceQueue, pc, spec, index, todo>>
    BY <1>3 DEF CopySpec
  <2>3. CASE slice.phase # "live"
    BY <2>2, <2>3, Moot
  <2>4. CASE slice.phase = "live"
    <3>1. wscQueue \subseteq wscQueue' /\ (cur # c => copied'[c] = copied[c])
      BY <1>3 DEF CopySpec, TypeOK, ObjectsType
    <3>2. \/ cur \in wscQueue'
          \/ copied' = copied /\ "absent" \in got
          \/ copied'[cur] \/ "old" \in got
      <4>1. \A g \in got \ {"absent"} : g = "now" \/ "old" \in got
        BY DEF TypeOK, WscReconcilerType
      <4>2. ASSUME NEW g \in got, g = "now", copied' = [copied EXCEPT ![cur] = (g = "now")]
            PROVE  copied'[cur]
        BY <1>3, <4>2 DEF CopySpec, TypeOK, ObjectsType, WscReconcilerType
      <4>3. CASE "absent" \in got /\ UNCHANGED <<copied, octet, wscQueue>>
        BY <4>3
      <4>4. CASE wscQueue' = wscQueue \cup {cur}
        BY <4>4
      <4>5. ASSUME NEW g \in got \ {"absent"}, copied' = [copied EXCEPT ![cur] = (g = "now")]
            PROVE  copied'[cur] \/ "old" \in got
        BY <4>1, <4>2, <4>5
      <4> QED BY <1>3, <4>3, <4>4, <4>5 DEF CopySpec
    <3>3. got = {"now"} => "absent" \notin got /\ "old" \notin got
      OBVIOUS
    <3>4. wpc' = "idle"
      BY <1>3 DEF CopySpec, WscIdle
    <3>5. Made(c) => Made(c)'
      BY <2>1, <2>2, <3>1, <3>2, <3>3, <3>4 DEF Made, Copying
    <3> QED BY <2>2, <3>4, <3>5, SettlingKept
  <2> QED BY <2>3, <2>4
<1>4. ASSUME NEW d \in Cluster, ReconcileWscWaits(d) PROVE Settling(c)'
  <2>1. Made(c) => c # d
    BY <1>4 DEF ReconcileWscWaits, Made, Copying
  <2> QED BY <1>4, <2>1, SettlingKept DEF ReconcileWscWaits, wscVars, Made, Copying
<1>5. ASSUME NEW d \in Cluster, RemoveWorkerFinalizers(d) PROVE Settling(c)'
  <2>1. /\ wpc = "idle" /\ wpc' = "forced" /\ cur' = d /\ wscQueue' = wscQueue \ {d}
        /\ UNCHANGED <<slice, sliceQueue, pc, spec, index, todo>>
    BY <1>5 DEF RemoveWorkerFinalizers
  <2>2. CASE c = d
    <3>1. state'[c] # "live"
      BY <1>5, <2>2 DEF RemoveWorkerFinalizers, Vanish, TypeOK, ObjectsType
    <3> QED BY <2>1, <2>2, <3>1 DEF Settling, Leaves
  <2>3. CASE c # d
    <3>1. state'[c] = state[c] /\ octet'[c] = octet[c] /\ copied'[c] = copied[c]
      BY <1>5, <2>3 DEF RemoveWorkerFinalizers, Vanish, TypeOK, ObjectsType
    <3> QED BY <2>1, <2>3, <3>1, SettlingKept DEF Made, Copying
  <2> QED BY <2>2, <2>3
<1>6. CASE RecreateForced
  <2>1. /\ wpc = "forced" /\ UNCHANGED <<slice, state, octet, copied, wscQueue, pc, spec, index, todo>>
        /\ sliceQueue => sliceQueue'
    BY <1>6 DEF RecreateForced, wscVars
  <2>4. wpc' = "idle"
    BY <1>6 DEF RecreateForced, WscIdle
  <2>2. CASE slice.phase # "live"
    BY <2>1, <2>2, Moot
  <2>3. CASE slice.phase = "live"
    <3>1. c \in Range(slice.clusters) /\ cur = c => sliceQueue'
      BY <1>6, <2>3 DEF RecreateForced
    <3> QED BY <2>1, <2>4, <3>1, SettlingKept DEF Made, Copying
  <2> QED BY <2>2, <2>3
<1> QED BY <1>1, <1>2, <1>3, <1>4, <1>5, <1>6 DEF WscFinish, WscStart

(* The reconciler of the slice.                                            *)
LEMMA SettlingSlice ==
  ASSUME TypeOK, Planned, OrphanInv, SpecCurrent, NEW c \in Cluster, Settling(c), SliceStep \/ ReconcileDone
  PROVE  Settling(c)'
<1> USE DEF queueVars, localVars, workerVars, boundVars
<1>1. CASE sliceQueue' = TRUE \/ slice'.phase # "live"
  BY <1>1, Moot
<1>2. CASE ReconcileAbsent \/ ReconcileDeleting \/ ListForDeletion \/ \E d \in Cluster : DeleteWorkerSliceConfig(d)
  <2>1. slice'.phase # "live"
    BY <1>2 DEF ReconcileAbsent, ReconcileDeleting, ListForDeletion, DeleteWorkerSliceConfig,
                OrphanInv, DeletionCovers
  <2> QED BY <1>1, <2>1
<1>3. CASE RemoveSliceFinalizer
  BY <1>1, <1>3 DEF RemoveSliceFinalizer, TypeOK, SliceType
<1>4. CASE ReconcileLive
  <2>1. slice'.clusters = slice.clusters /\ pc' = "cleanUpSlices" /\ UNCHANGED state
        /\ todo' = Listed \ Range(slice.clusters)
    BY <1>4 DEF ReconcileLive, TypeOK, SliceType, wscVars
  <2> QED BY <2>1 DEF Settling, Ahead, Listed, Exists
<1>5. ASSUME NEW d \in Cluster, CleanUpSlices(d) PROVE Settling(c)'
  <2>1. CASE ~Exists(d)
    BY <1>1, <1>5, <2>1 DEF CleanUpSlices, AbortReconcile
  <2>2. CASE Exists(d)
    <3>1. /\ pc' = "cleanUpSlices" /\ todo' = todo \ {d} /\ UNCHANGED <<slice, sliceQueue>>
          /\ DeleteObject(d)
      BY <1>5, <2>2 DEF CleanUpSlices
    <3>2. (state'[c] = "live" => state[c] = "live") /\ state'[d] # "live"
      BY <3>1, DeleteMakesNothingLive
    <3> QED BY <3>1, <3>2 DEF Settling, Ahead
  <2> QED BY <2>1, <2>2
<1>6. CASE SpecCurrent /\ ~sliceQueue /\ slice.phase = "live" /\ pc # "idle"
  <2>1. spec.clusters = slice.clusters /\ spec.mode = slice.mode
    BY <1>6 DEF SpecCurrent
  <2>2. spec.clusters \in Seq(Cluster) /\ index \in Nat
    BY ListsAreLists DEF TypeOK, ReconcilerType, Lists
  <2>3. CASE PlanOctets
    <3>1. CASE AbortReconcile
      BY <1>1, <3>1 DEF AbortReconcile
    <3>2. CASE pc' = "apply" /\ UNCHANGED <<spec, index>>
      <4>1. pc = "cleanUpSlices" /\ todo = {} /\ index = 1 /\ UNCHANGED <<slice, state>>
        BY <2>3 DEF PlanOctets, SpecCurrent, wscVars
      <4>2. c \in Range(slice.clusters) => Ahead(c)'
        BY <2>1, <2>2, <3>2, <4>1 DEF Ahead, Range
      <4> QED BY <1>6, <4>1, <4>2 DEF Settling
    <3> QED BY <2>3, <3>1, <3>2 DEF PlanOctets
  <2>4. CASE WscsApplied
    <3>1. ~Ahead(c) /\ pc = "apply"
      BY <2>2, <2>4 DEF WscsApplied, Ahead
    <3> QED BY <2>4, <3>1, SettlingMoved DEF WscsApplied, EndReconcile, wscVars
  <2>5. CASE ReconcileDone
    <3>1. ~Ahead(c) /\ pc = "gateways"
      BY <2>5 DEF ReconcileDone, Ahead
    <3> QED BY <2>5, <3>1, SettlingMoved DEF ReconcileDone, EndReconcile, wscVars
  <2>6. CASE ApplyCluster
    <3> DEFINE d == spec.clusters[index]
    <3>1. pc = "apply" /\ index \in 1 .. Len(spec.clusters) /\ d \in Cluster
      BY <2>2, <2>6 DEF ApplyCluster, TypeOK, ReconcilerType
    <3>2. CASE AbortReconcile
      BY <1>1, <3>2 DEF AbortReconcile
    <3>3. CASE /\ IF Exists(d) THEN UpdateWorkerSliceConfig(d) ELSE CreateWorkerSliceConfig(d)
               /\ wscQueue' = wscQueue \cup {d} /\ index' = index + 1
               /\ UNCHANGED <<slice, pc, spec, sliceQueue, wpc, cur, got>>
      <4>1. d \in Range(slice.clusters)
        BY <2>1, <2>2, <3>1 DEF Range
      <4>2. CASE c = d
        <5>1. state'[c] = "live" \/ state'[c] = "deleting"
          BY <3>1, <3>3, <4>2 DEF UpdateWorkerSliceConfig, CreateWorkerSliceConfig, Exists, TypeOK, ObjectsType
        <5>2. slice.mode = Net => octet'[c] # NoOctet
          <6> SUFFICES ASSUME slice.mode = Net PROVE octet'[c] # NoOctet
            OBVIOUS
          <6>1. clusterMap[d] \in Nat /\ spec.mode # NoNet
            BY <2>1, <3>1, PlannedIsOctet DEF TypeOK, Net, NoNet
          <6>2. octet'[c] = clusterMap[d]
            BY <3>1, <3>3, <4>2, <6>1 DEF UpdateWorkerSliceConfig, CreateWorkerSliceConfig, ipamOctet, TypeOK, ObjectsType
          <6> QED BY <6>1, <6>2 DEF NoOctet
        <5> QED BY <3>3, <4>1, <4>2, <5>1, <5>2 DEF Settling, Leaves, Made, Copying
      <4>3. CASE c # d
        <5>1. state'[c] = state[c] /\ octet'[c] = octet[c] /\ copied'[c] = copied[c]
          BY <3>1, <3>3, <4>3 DEF UpdateWorkerSliceConfig, CreateWorkerSliceConfig, TypeOK, ObjectsType
        <5>2. Ahead(c) => Ahead(c)'
          <6> SUFFICES ASSUME NEW i \in index .. Len(spec.clusters), spec.clusters[i] = c
                       PROVE  i \in index + 1 .. Len(spec.clusters)
            BY <3>1, <3>3 DEF Ahead
          <6> QED BY <2>2, <3>1, <4>3
        <5>3. (Leaves(c) => Leaves(c)') /\ (Made(c) => Made(c)')
          BY <3>3, <5>1 DEF Leaves, Made, Copying
        <5> QED BY <1>6, <3>1, <3>3, <5>1, <5>2, <5>3 DEF Settling
      <4> QED BY <4>2, <4>3
    <3> QED BY <2>6, <3>2, <3>3 DEF ApplyCluster, Written
  <2> QED BY <1>1, <1>2, <1>3, <1>4, <1>5, <2>3, <2>4, <2>5, <2>6 DEF SliceStep
<1>7. CASE ~(~sliceQueue /\ slice.phase = "live" /\ pc # "idle")
  <2>1. CASE PlanOctets \/ WscsApplied \/ ReconcileDone \/ ApplyCluster
    <3>1. (sliceQueue => sliceQueue' = TRUE) /\ UNCHANGED slice /\ pc # "idle"
      BY <2>1 DEF PlanOctets, WscsApplied, ReconcileDone, ApplyCluster, AbortReconcile, EndReconcile,
                  TypeOK, QueuesType
    <3> QED BY <1>1, <1>7, <3>1
  <2> QED BY <1>2, <1>3, <1>4, <1>5, <2>1 DEF SliceStep
<1> QED BY <1>6, <1>7

(* Only a fault or a forced deletion is counted, and none is taken back.   *)
LEMMA NothingForgiven ==
  ASSUME TypeOK, Undisturbed',
         \/ User \/ Worker \/ Time \/ SliceStep \/ ReconcileDone
         \/ WscFinish \/ \E c \in Cluster : WscStart(c)
  PROVE  Undisturbed
<1> USE DEF boundVars
<1>1. CASE UNCHANGED <<errors, forced>>
  BY <1>1 DEF Undisturbed
<1>2. CASE User
  <2>1. ASSUME NEW c \in Cluster, ForceDelete(c) PROVE Undisturbed
    BY <2>1 DEF ForceDelete, Undisturbed, TypeOK, BoundsType
  <2> QED BY <1>1, <1>2, <2>1 DEF User, CreateSliceConfig, UpdateSliceConfig, DeleteSliceConfig
<1>3. CASE Worker
  BY <1>1, <1>3 DEF Worker, WorkerAdopts, WorkerReleases
<1>4. CASE Time
  BY <1>1, <1>4 DEF Time, GraceExpires, TimerFires
<1>5. CASE SliceStep \/ ReconcileDone
  <2>1. ASSUME NEW c \in Cluster, CleanUpSlices(c) \/ DeleteWorkerSliceConfig(c) PROVE Undisturbed
    BY <1>1, <2>1 DEF CleanUpSlices, DeleteWorkerSliceConfig
  <2>2. CASE ReconcileAbsent \/ ReconcileLive \/ PlanOctets \/ ApplyCluster \/ WscsApplied
    BY <1>1, <2>2 DEF ReconcileAbsent, ReconcileLive, PlanOctets, ApplyCluster, WscsApplied
  <2>3. CASE ReconcileDeleting \/ ListForDeletion \/ RemoveSliceFinalizer \/ ReconcileDone
    BY <1>1, <2>3 DEF ReconcileDeleting, ListForDeletion, RemoveSliceFinalizer, ReconcileDone
  <2> QED BY <1>5, <2>1, <2>2, <2>3 DEF SliceStep
<1>6. CASE WscFinish
  BY <1>1, <1>6 DEF WscFinish, CopySpec, RecreateForced
<1>7. CASE \E c \in Cluster : WscStart(c)
  BY <1>1, <1>7 DEF WscStart, ReconcileWscAbsent, ReconcileWscLive, ReconcileWscWaits,
       RemoveWorkerFinalizers
<1> QED BY <1>2, <1>3, <1>4, <1>5, <1>6, <1>7

LEMMA RestInvNext ==
  ASSUME ~EagerWorkers, TypeOK, Planned, OctetInv, OrphanInv, RestInv, [Next]_vars
  PROVE  RestInv'
<1>1. WorkersWait' /\ SpecCurrent'
  BY WorkersWaitNext, SpecCurrentNext DEF RestInv
<1>2. ASSUME Undisturbed', NEW c \in Cluster PROVE Settling(c)'
  <2>1. CASE UNCHANGED vars
    <3>1. Undisturbed /\ UNCHANGED <<slice, pc, spec, index, todo, sliceQueue, state, octet, copied, wscQueue, wpc, cur, got>>
      BY <1>2, <2>1 DEF vars, wscVars, queueVars, localVars, workerVars, boundVars, Undisturbed
    <3> QED BY <3>1, SettlingKept DEF RestInv, Made, Copying
  <2>2. CASE Crash
    <3>1. sliceQueue' = TRUE \/ slice'.phase # "live"
      BY <2>2 DEF Crash
    <3> QED BY <3>1, Moot
  <2>3. ~(\/ ReconcileFails \/ ReconcileWscFails
          \/ \E d \in Cluster : RemoveWorkerFinalizersFails(d))
    BY <1>2 DEF ReconcileFails, ReconcileWscFails, RemoveWorkerFinalizersFails, Undisturbed, TypeOK,
                BoundsType
  <2>4. CASE Next /\ ~Fault
    <3>1. Undisturbed
      BY <1>2, <2>4, NothingForgiven DEF Next
    <3>2. Settling(c)
      BY <3>1 DEF RestInv
    <3> QED BY <1>2, <2>4, <3>2, SettlingEnvironment, SettlingWsc, SettlingSlice
         DEF Next, RestInv, OctetInv
  <2> QED BY <2>1, <2>2, <2>3, <2>4 DEF Next, Fault
<1> QED BY <1>1, <1>2 DEF RestInv

LEMMA RestInvInit == Init => RestInv
BY DEF Init, RestInv, WorkersWait, SpecCurrent, Settling

LEMMA AtRestSettled ==
  ASSUME TypeOK, OrphanInv, Scheduled, RestInv PROVE QuietIsSettled
<1> SUFFICES ASSUME Undisturbed, AtRest PROVE Settled
  BY DEF QuietIsSettled, Undisturbed
<1>1. slice.phase # "deleting"
  BY DEF AtRest, RestInv, SpecCurrent
<1>2. ASSUME NEW c \in Cluster PROVE state[c] # "deleting"
  BY DEF AtRest, Scheduled, Undisturbed
<1>3. ASSUME NEW c \in Cluster, slice.phase = "live", c \in Range(slice.clusters)
      PROVE  state[c] = "live" /\ copied[c] /\ (slice.mode = Net => octet[c] # NoOctet)
  BY <1>2, <1>3 DEF RestInv, Settling, Ahead, Leaves, Made, Copying, AtRest
<1>4. ASSUME NEW c \in Cluster, slice.phase = "live", c \notin Range(slice.clusters)
      PROVE  state[c] # "live"
  BY <1>4 DEF RestInv, Settling, AtRest
<1>5. ASSUME NEW c \in Cluster, slice.phase = "absent" PROVE state[c] # "live"
  BY <1>5 DEF OrphanInv, FinalizerGuards
<1> QED BY <1>1, <1>2, <1>3, <1>4, <1>5 DEF Settled, TypeOK, SliceType, ObjectsType

(* When both reconcilers have come to rest, the objects are those of the   *)
(* slice, for any number of clusters, edits and restarts: every way in     *)
(* which a reconcile ends early leaves the slice queued, and what a worker *)
(* holds on to is told to the slice when it goes.  Workers that adopt an   *)
(* object before its controller break it: the last of them to let go makes *)
(* the object vanish, and nobody is told.                                  *)
THEOREM QuietIsSettledCorrect ==
  ASSUME ~EagerWorkers PROVE Spec => []QuietIsSettled
<1>1. Init => TypeOK /\ OrphanInv /\ Scheduled /\ RestInv
  <2>1. Init => OrphanInv /\ Scheduled
    BY DEF Init, OrphanInv, FinalizerGuards, DeletionCovers, Scheduled
  <2> QED BY <2>1, TypeInit, RestInvInit
<1>2. TypeOK /\ Planned /\ OctetInv /\ OrphanInv /\ Scheduled /\ RestInv /\ [Next]_vars =>
        (OrphanInv /\ Scheduled /\ RestInv)'
  BY OrphanNext, ScheduledNext, RestInvNext
<1>3. TypeOK /\ OrphanInv /\ Scheduled /\ RestInv => QuietIsSettled
  BY AtRestSettled
<1> QED BY <1>1, <1>2, <1>3, OctetInvariant, PTL DEF Spec
=============================================================================
