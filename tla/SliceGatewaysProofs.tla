------------------------- MODULE SliceGatewaysProofs -------------------------
(***************************************************************************)
(* The gateways of a slice next to its WorkerSliceConfigs, for any set of  *)
(* clusters and lists and any bounds: types, that the gateway part of the  *)
(* reconcile and the gateway reconciler leave the octets alone, that a     *)
(* slice leaves no gateway behind, that the two gateways of two clusters   *)
(* fit together, and that the clusters are connected when all is at rest.  *)
(***************************************************************************)
EXTENDS SliceGateways, WorkerSliceConfigsProofs

(* A step of the gateway reconciler: the slice may be queued, a call may   *)
(* have failed, and nothing else of the base module is touched.            *)
Aside ==
  /\ sliceQueue' \in BOOLEAN /\ (sliceQueue => sliceQueue')
  /\ errors' \in Nat /\ (errors' = 0 => errors = 0)
  /\ UNCHANGED <<slice, wscVars, wscQueue, timers, pc, localVars, workerVars, edits, forced, crashes>>

(* The gateway part has met an error.                                      *)
GivesUp == AbortReconcile /\ UNCHANGED baseRest

(* Every other step is one of the base module, or touches none of it.      *)
LEMMA BaseStep ==
  ASSUME TypeOK, [GNext]_gvars PROVE [Next]_vars \/ Aside \/ GivesUp
<1>1. CASE (User \/ Worker \/ Time) /\ UNCHANGED gwVars
  BY <1>1 DEF Next
<1>2. CASE WscPart
  BY <1>2 DEF WscPart, Next, SliceStep
<1>3. CASE WscReconciler
  BY <1>3 DEF WscReconciler, Next
<1>4. CASE \E p \in Pairs : ForceDeleteGateway(p) \/ CertJobRuns(p)
  BY <1>4 DEF ForceDeleteGateway, CertJobRuns
<1>5. CASE GFault
  <2>1. CASE GwReconcileFails \/ \E p \in Pairs : RemoveGwFinalizersFails(p)
    BY <2>1 DEF GwReconcileFails, RemoveGwFinalizersFails, Aside, queueVars, TypeOK, QueuesType, BoundsType
  <2>2. CASE ReconcileFails \/ ReconcileWscFails \/ Crash \/ \E c \in Cluster : RemoveWorkerFinalizersFails(c)
    BY <2>2 DEF Next, Fault
  <2> QED BY <1>5, <2>1, <2>2 DEF GFault
<1>6. CASE GwPart
  <2>1. CASE ListObsoleteGateways \/ PairExists \/ GenerateCerts \/ ListAllGateways
    BY <2>1 DEF ListObsoleteGateways, PairExists, GenerateCerts, ListAllGateways
  <2>2. CASE CreateServer \/ CreateClient
    BY <2>2 DEF CreateServer, CreateClient, GwAbort, GivesUp
  <2>3. ASSUME NEW p \in Pairs, DeleteListedGateway(p) PROVE [Next]_vars \/ GivesUp
    BY <2>3 DEF DeleteListedGateway, GwAbort, GivesUp
  <2>4. CASE GatewaysDone
    BY <2>4 DEF GatewaysDone, Next
  <2>5. CASE GatewaysDeleted
    BY <2>5 DEF GatewaysDeleted, Next, SliceStep
  <2> QED BY <1>6, <2>1, <2>2, <2>3, <2>4, <2>5 DEF GwPart
<1>7. CASE GwReconciler
  <2>1. CASE TouchSlice
    BY <2>1 DEF TouchSlice, Aside, boundVars, TypeOK, QueuesType, BoundsType
  <2>2. CASE ~TouchSlice
    BY <1>7, <2>2 DEF GwReconciler, DeleteGwSecret, DeletePeer, DeletePeerSecret, ReconcileGwAbsent,
                      ReconcileGwLive, RemoveGwFinalizers
  <2> QED BY <2>1, <2>2
<1>8. CASE UNCHANGED gvars
  BY <1>8 DEF gvars
<1> QED BY <1>1, <1>2, <1>3, <1>4, <1>5, <1>6, <1>7, <1>8 DEF GNext

(* What is proved of the base module survives the other two kinds of steps.*)
BaseInv == TypeOK /\ Planned /\ OctetInv /\ OrphanInv

LEMMA BaseInvStep ==
  ASSUME BaseInv, [GNext]_gvars PROVE BaseInv'
<1>1. CASE [Next]_vars
  BY <1>1, TypeNext, PlannedNext, OctetInvNext, OrphanNext DEF BaseInv
<1>2. CASE Aside
  <2>1. UNCHANGED <<slice, state, octet, finalizers, expired, copied, wscQueue, timers, pc, spec, todo,
                    clusterMap, index, lastCreated, wpc, cur, read, got, fresh, edits, forced, crashes>>
        /\ sliceQueue' \in BOOLEAN /\ errors' \in Nat
    BY <1>2 DEF Aside, wscVars, localVars, workerVars
  <2>2. TypeOK'
    BY <2>1 DEF BaseInv, TypeOK, SliceType, ObjectsType, QueuesType, ReconcilerType, WscReconcilerType, BoundsType
  <2>3. Planned' /\ OrphanInv'
    BY <2>1 DEF BaseInv, Planned, OrphanInv, FinalizerGuards, DeletionCovers
  <2>4. OctetInv'
    BY <2>1 DEF BaseInv, OctetInv, ObjectInv, AbsentHasNone, ReadIsCurrent, OctetsUnique, MapAgrees, MapSeparates
  <2> QED BY <2>2, <2>3, <2>4 DEF BaseInv
<1>3. CASE GivesUp
  <2>1. /\ UNCHANGED <<slice, state, octet, finalizers, expired, copied, wscQueue, timers,
                       wpc, cur, read, got, fresh, edits, forced, errors, crashes>>
        /\ sliceQueue' = TRUE /\ pc' = "idle"
    BY <1>3 DEF GivesUp, AbortReconcile, baseRest, wscVars, workerVars, boundVars
  <2>2. ReconcilerType'
    BY <1>3, ResetType DEF GivesUp, AbortReconcile, BaseInv, TypeOK
  <2>3. TypeOK'
    BY <2>1, <2>2 DEF BaseInv, TypeOK, SliceType, ObjectsType, QueuesType, WscReconcilerType, BoundsType
  <2>4. Planned' /\ OrphanInv'
    BY <2>1 DEF BaseInv, Planned, OrphanInv, FinalizerGuards, DeletionCovers
  <2>5. OctetInv'
    BY <2>1 DEF BaseInv, OctetInv, ObjectInv, AbsentHasNone, ReadIsCurrent, OctetsUnique, MapAgrees, MapSeparates
  <2> QED BY <2>3, <2>4, <2>5 DEF BaseInv
<1> QED BY <1>1, <1>2, <1>3, BaseStep DEF BaseInv

LEMMA BaseInvInit == Init => BaseInv
<1>1. Init => OctetInv
  BY DEF Init, OctetInv, ObjectInv, AbsentHasNone, ReadIsCurrent, OctetsUnique, MapAgrees,
         MapSeparates
<1>2. Init => OrphanInv
  BY DEF Init, OrphanInv, FinalizerGuards, DeletionCovers
<1>3. Init => Planned
  BY DEF Init, Planned
<1> QED BY <1>1, <1>2, <1>3, TypeInit DEF BaseInv

LEMMA BaseInvariant == GSpec => []BaseInv
<1>1. GInit => BaseInv
  BY BaseInvInit DEF GInit
<1> QED BY <1>1, BaseInvStep, PTL DEF GSpec

(* With gateways, their reconciler and its writes of the slice in the      *)
(* system, the octets of the clusters are still distinct, the map of a     *)
(* reconcile still agrees with them up to the creation of the gateways     *)
(* that take their subnets from it, and no WorkerSliceConfig is orphaned.  *)
THEOREM GatewaysKeepOctets == GSpec => [](OctetsUnique /\ MapAgrees /\ NoOrphans)
<1>1. BaseInv => OctetsUnique /\ MapAgrees /\ NoOrphans
  BY DEF BaseInv, OctetInv, OrphanInv, FinalizerGuards, NoOrphans
<1> QED BY <1>1, BaseInvariant, PTL

(* Neither kind of step touches an object.                                 *)
LEMMA ObjectsLeft ==
  ASSUME Aside \/ GivesUp
  PROVE  UNCHANGED <<slice, state, octet, finalizers, copied, wscQueue, timers, wpc, cur, got, forced>>
BY DEF Aside, GivesUp, baseRest, wscVars, workerVars, boundVars

(* An octet still goes away only together with its object, ...             *)
THEOREM GatewaysKeepOctetStable == GSpec => OctetStable
<1> DEFINE Stable == \A c \in Cluster :
                       octet[c] # NoOctet /\ octet'[c] # octet[c] => state'[c] = "absent"
<1>1. BaseInv /\ [GNext]_gvars => [Stable]_vars
  BY BaseStep, ObjectsLeft, StableStep DEF BaseInv
<1> QED BY <1>1, BaseInvariant, PTL DEF GSpec, OctetStable

(* ... the octets still behave like an allocator that never hands one out  *)
(* twice ...                                                               *)
THEOREM GatewaysKeepAllocation == GSpec => OctetAllocation
<1>1. GInit => Octets!Init
  BY DEF GInit, Init, Octets!Init
<1>2. BaseInv /\ [GNext]_gvars => [Octets!Next]_octet
  BY BaseStep, ObjectsLeft, AllocationStep DEF BaseInv
<1> QED BY <1>1, <1>2, BaseInvariant, PTL DEF GSpec, OctetAllocation, Octets!Spec

(* ... and stay below MaxClusters where the webhooks keep the lists short. *)
THEOREM GatewaysKeepOctetsBelowMax ==
  ASSUME \A l \in ClusterLists : Len(l) <= MaxClusters
  PROVE  GSpec => []OctetsBelowMax
<1>1. GInit => OctetsBelowMax /\ MapBelowMax
  BY BelowMaxInit DEF GInit
<1>2. (OctetsBelowMax /\ MapBelowMax) /\ BaseInv /\ [GNext]_gvars => (OctetsBelowMax /\ MapBelowMax)'
  <2> SUFFICES ASSUME OctetsBelowMax, MapBelowMax, BaseInv, [GNext]_gvars
               PROVE  (OctetsBelowMax /\ MapBelowMax)'
    OBVIOUS
  <2>1. CASE [Next]_vars
    BY <2>1, BelowMaxNext DEF BaseInv
  <2>2. CASE Aside
    BY <2>2 DEF Aside, wscVars, localVars, OctetsBelowMax, MapBelowMax
  <2>3. CASE GivesUp
    BY <2>3, ObjectsLeft DEF GivesUp, AbortReconcile, OctetsBelowMax, MapBelowMax
  <2> QED BY <2>1, <2>2, <2>3, BaseStep DEF BaseInv
<1> QED BY <1>1, <1>2, BaseInvariant, PTL DEF GSpec

(* At rest, and in between.                                                *)
LEMMA SpecCurrentStep ==
  ASSUME BaseInv, SpecCurrent, [GNext]_gvars PROVE SpecCurrent'
<1>1. CASE [Next]_vars
  BY <1>1, SpecCurrentNext DEF BaseInv
<1>2. CASE Aside
  BY <1>2, SpecKept DEF Aside, localVars
<1>3. CASE GivesUp
  BY <1>3, SpecQueued DEF GivesUp, AbortReconcile
<1> QED BY <1>1, <1>2, <1>3, BaseStep DEF BaseInv

LEMMA RestStep ==
  ASSUME ~EagerWorkers, BaseInv, Scheduled, RestInv, [GNext]_gvars PROVE Scheduled' /\ RestInv'
<1>1. CASE [Next]_vars
  BY <1>1, ScheduledNext, RestInvNext DEF BaseInv
<1>2. CASE Aside
  <2>1. UNCHANGED <<slice, state, octet, finalizers, copied, wscQueue, timers, pc, spec, todo, index,
                    wpc, cur, got, forced>>
        /\ (sliceQueue => sliceQueue') /\ (errors' = 0 => errors = 0)
    BY <1>2 DEF Aside, wscVars, localVars, workerVars
  <2>2. Scheduled' /\ WorkersWait' /\ SpecCurrent'
    BY <2>1, SpecKept DEF Scheduled, RestInv, WorkersWait
  <2>3. ASSUME Undisturbed', NEW c \in Cluster PROVE Settling(c)'
    <3>1. Settling(c)
      BY <2>1, <2>3 DEF RestInv, Undisturbed
    <3> QED BY <2>1, <3>1, SettlingKept DEF BaseInv, Made, Copying
  <2> QED BY <2>2, <2>3 DEF RestInv
<1>3. CASE GivesUp
  <2>1. UNCHANGED <<state, finalizers, wscQueue, timers, errors>>
    BY <1>3 DEF GivesUp, baseRest, wscVars, boundVars
  <2>2. SpecCurrent' /\ \A c \in Cluster : Settling(c)'
    BY <1>3, SpecQueued, Moot DEF GivesUp, AbortReconcile, RestInv
  <2> QED BY <2>1, <2>2 DEF Scheduled, RestInv, WorkersWait
<1> QED BY <1>1, <1>2, <1>3, BaseStep DEF BaseInv

LEMMA RestInvariant ==
  ASSUME ~EagerWorkers PROVE GSpec => [](BaseInv /\ Scheduled /\ RestInv)
<1>1. GInit => Scheduled /\ RestInv
  BY RestInvInit DEF GInit, Init, Scheduled
<1>2. BaseInv /\ Scheduled /\ RestInv /\ [GNext]_gvars => (Scheduled /\ RestInv)'
  BY RestStep
<1> QED BY <1>1, <1>2, BaseInvariant, PTL DEF GSpec

(* The gateways, whose reconciler asks for reconciles of the slice and     *)
(* whose part of it may end one early, make no reconciler forget an        *)
(* object: without a fault, what is deleted is on somebody's list, and     *)
(* when the two controllers are at rest the objects are those of the slice.*)
THEOREM GatewaysKeepSettled ==
  ASSUME ~EagerWorkers
  PROVE  GSpec => []((errors = 0 => DeletionScheduled) /\ QuietIsSettled)
<1>1. BaseInv /\ Scheduled /\ RestInv => QuietIsSettled
  BY AtRestSettled DEF BaseInv
<1>2. Scheduled => (errors = 0 => DeletionScheduled)
  BY DEF Scheduled, DeletionScheduled
<1> QED BY <1>1, <1>2, RestInvariant, PTL
-----------------------------------------------------------------------------
(* Types.  They need to know where the gateway part of the reconcile runs  *)
(* and which positions of the cluster list it may be at.                   *)

GwPartPlaced ==
  /\ gwpc \in {"cleanup", "pairs", "client", "certs"} => pc = "gateways"
  /\ gwpc = "delete" => pc = "deleteGateways"
  /\ pc = "gateways" => spec.mode # NoNet

(* The positions stay inside the list while there are pairs left.          *)
PairsPlaced ==
  /\ gwpc \notin {"pairs", "client", "certs"} => at = <<1, 2>>
  /\ at[1] >= 1 /\ at[1] < at[2]
  /\ PairsLeft => at[2] <= Len(spec.clusters)
  /\ gwpc \in {"client", "certs"} => PairsLeft

GwReconcilerPlaced == gpc # "idle" => gcur \in Pairs

GwPlaced == GwPartPlaced /\ PairsPlaced /\ GwReconcilerPlaced

GwRecord ==
  [state : {"absent", "live", "deleting"}, host : {"", "Server", "Client"},
   number : Nat, net : (Nat \cup {NoOctet}) \X (Nat \cup {NoOctet}), finalizer : BOOLEAN]

GwObjectsType ==
  /\ gw \in [Pairs -> GwRecord]
  /\ secret \in [Pairs -> {"none", "ordered", "made"}] /\ gwQueue \subseteq Pairs

GwLocalsType ==
  /\ gwpc \in {"none", "cleanup", "pairs", "client", "certs", "delete"}
  /\ gtodo \subseteq Pairs /\ at \in Nat \X Nat
  /\ gpc \in {"idle", "secret", "pair", "peerSecret", "touch"} /\ gcur \in Pairs \cup {NoPair}
  /\ stale \in BOOLEAN /\ forcedGw \in Nat

GwInv == GwObjectsType /\ GwLocalsType /\ GwPlaced

(* A gateway number is never negative, whichever of the octets is zero.    *)
LEMMA GatewayNumberType ==
  ASSUME NEW a \in Nat, NEW b \in Nat PROVE calculateGatewayNumber(a, b) \in Nat
<1> DEFINE m == IF b > a THEN b ELSE a
           n == IF b > a THEN a ELSE b
<1>1. m \in Nat /\ n \in Nat
  OBVIOUS
<1> HIDE DEF m, n
<1>2. (m - 1) * (m - 2) \in Nat
  <2>1. CASE m = 0
    BY <2>1
  <2>2. CASE m = 1
    BY <2>2
  <2>3. CASE m >= 2
    <3>1. m - 1 \in Nat /\ m - 2 \in Nat
      BY <1>1, <2>3
    <3> HIDE DEF m
    <3>2. \A x, y \in Nat : x * y \in Nat
      OBVIOUS
    <3> QED BY <3>1, <3>2
  <2> QED BY <1>1, <2>1, <2>2, <2>3
<1>3. \A x \in Nat : x \div 2 \in Nat
  OBVIOUS
<1>4. ((m - 1) * (m - 2)) \div 2 + n \in Nat
  BY <1>1, <1>2, <1>3
<1> QED BY <1>4 DEF calculateGatewayNumber, m, n

LEMMA PeerIsPair == ASSUME NEW p \in Pairs PROVE Peer(p) \in Pairs
BY DEF Pairs, Peer

(* The two clusters of a pair of positions are different ones, and the map *)
(* knows the octets of both.                                               *)
LEMMA ServerPairType ==
  ASSUME TypeOK, Planned, GwPartPlaced, PairsPlaced, GwLocalsType, PairsLeft, pc = "gateways"
  PROVE  /\ ServerPair \in Pairs
         /\ clusterMap[ServerPair[1]] \in Nat /\ clusterMap[ServerPair[2]] \in Nat
<1> DEFINE l == spec.clusters
<1>1. l \in Seq(Cluster) /\ IsInjective(l) /\ Len(l) \in Nat
  BY ListsAreLists DEF TypeOK, ReconcilerType, Lists
<1>2. at[1] \in 1 .. Len(l) /\ at[2] \in 1 .. Len(l) /\ at[1] # at[2]
  BY <1>1 DEF PairsPlaced, PairsLeft, GwLocalsType
<1>3. l[at[1]] \in Range(l) /\ l[at[2]] \in Range(l)
  BY <1>1, <1>2 DEF Range
<1>4. l[at[1]] \in Cluster /\ l[at[2]] \in Cluster /\ l[at[1]] # l[at[2]]
  BY <1>1, <1>2 DEF IsInjective
<1>5. Range(l) \subseteq DOMAIN clusterMap /\ clusterMap \in [DOMAIN clusterMap -> Nat]
  BY DEF Planned, GwPartPlaced, TypeOK, ReconcilerType
<1>6. ServerPair = <<l[at[1]], l[at[2]]>> /\ ServerPair[1] = l[at[1]] /\ ServerPair[2] = l[at[2]]
  BY DEF ServerPair
<1> HIDE DEF l
<1>7. clusterMap[ServerPair[1]] \in Nat /\ clusterMap[ServerPair[2]] \in Nat
  BY <1>3, <1>5, <1>6
<1> QED BY <1>4, <1>6, <1>7 DEF Pairs

LEMMA NextPairType ==
  ASSUME TypeOK, PairsPlaced, GwLocalsType, PairsLeft
  PROVE  /\ NextPair \in Nat \X Nat /\ NextPair[1] >= 1 /\ NextPair[1] < NextPair[2]
         /\ NextPair[1] < Len(spec.clusters) => NextPair[2] <= Len(spec.clusters)
<1>1. Len(spec.clusters) \in Nat
  BY ListsAreLists DEF TypeOK, ReconcilerType, Lists
<1>2. at[1] \in Nat /\ at[2] \in Nat /\ at[1] >= 1 /\ at[1] < at[2] /\ at[2] <= Len(spec.clusters)
  BY DEF PairsPlaced, GwLocalsType
<1>3. CASE at[2] < Len(spec.clusters)
  <2>1. NextPair = <<at[1], at[2] + 1>>
    BY <1>3 DEF NextPair
  <2> QED BY <1>1, <1>2, <1>3, <2>1
<1>4. CASE ~(at[2] < Len(spec.clusters))
  <2>1. NextPair = <<at[1] + 1, at[1] + 2>>
    BY <1>4 DEF NextPair
  <2> QED BY <1>1, <1>2, <1>4, <2>1
<1> QED BY <1>3, <1>4

LEMMA DeleteGatewayType ==
  ASSUME GwObjectsType, NEW p \in Pairs, DeleteGateway(p)
  PROVE  gw' \in [Pairs -> GwRecord] /\ gwQueue' \subseteq Pairs
<1>1. NoGateway \in GwRecord
  BY DEF NoGateway, GwRecord
<1>2. [gw[p] EXCEPT !.state = "deleting"] \in GwRecord
  BY ZenonT(60) DEF GwObjectsType, GwRecord
<1> QED BY <1>1, <1>2 DEF DeleteGateway, GwObjectsType

LEMMA CreateGatewayType ==
  ASSUME GwObjectsType, NEW p \in Pairs, NEW host \in {"Server", "Client"}, NEW number \in Nat,
         clusterMap[p[1]] \in Nat, clusterMap[p[2]] \in Nat, CreateGateway(p, host, number)
  PROVE  gw' \in [Pairs -> GwRecord] /\ gwQueue' \subseteq Pairs
<1>1. [state |-> "live", host |-> host, number |-> number,
       net |-> <<clusterMap[p[1]], clusterMap[p[2]]>>, finalizer |-> FALSE] \in GwRecord
  BY DEF GwRecord
<1> QED BY <1>1 DEF CreateGateway, GwObjectsType
LEMMA NoPartsTouched ==
  ASSUME \/ User \/ Worker \/ Time \/ WscReconciler \/ ReconcileWscFails
         \/ \E c \in Cluster : RemoveWorkerFinalizersFails(c)
  PROVE  UNCHANGED <<pc, spec>>
<1> USE DEF localVars
<1>1. CASE User
  BY <1>1 DEF User, CreateSliceConfig, UpdateSliceConfig, DeleteSliceConfig, ForceDelete
<1>2. CASE Worker \/ Time
  BY <1>2 DEF Worker, WorkerAdopts, WorkerReleases, Time, GraceExpires, TimerFires
<1>3. CASE WscReconciler
  BY <1>3 DEF WscReconciler, WscFinish, WscStart, CopySpec, RecreateForced, ReconcileWscAbsent,
              ReconcileWscLive, ReconcileWscWaits, RemoveWorkerFinalizers
<1>4. CASE ReconcileWscFails \/ \E c \in Cluster : RemoveWorkerFinalizersFails(c)
  BY <1>4 DEF ReconcileWscFails, RemoveWorkerFinalizersFails
<1> QED BY <1>1, <1>2, <1>3, <1>4

(* The gateway part is not running while the rest of the reconcile is, and *)
(* is reached with a network only.                                         *)
LEMMA WscPartPlaced ==
  ASSUME GwInv, WscPart
  PROVE  /\ UNCHANGED gwVars /\ gwpc = "none"
         /\ pc' = "gateways" => spec'.mode # NoNet
<1>1. UNCHANGED gwVars
  BY DEF WscPart
<1>2. pc \notin {"gateways", "deleteGateways"}
  BY DEF WscPart, ReconcileAbsent, ReconcileLive, PlanOctets, ApplyCluster, WscsApplied,
         ReconcileDeleting, RemoveSliceFinalizer, CleanUpSlices, DeleteWorkerSliceConfig
<1>3. gwpc = "none"
  BY <1>2 DEF GwInv, GwPlaced, GwPartPlaced, GwLocalsType
<1>4. pc' = "gateways" => WscsApplied
  BY <1>2 DEF WscPart, ReconcileAbsent, ReconcileLive, PlanOctets, ApplyCluster, AbortReconcile,
         EndReconcile, ReconcileDeleting, RemoveSliceFinalizer, CleanUpSlices, DeleteWorkerSliceConfig
<1>5. WscsApplied /\ pc' = "gateways" => spec'.mode # NoNet
  BY DEF WscsApplied, EndReconcile, localVars
<1> QED BY <1>1, <1>3, <1>4, <1>5

(* A step that ends the gateway part together with the reconcile.          *)
LEMMA PartDoneKeeps ==
  ASSUME TypeOK', GwInv, GwObjectsType', GwPartDone, pc' \notin {"gateways"},
         gpc' \in {"idle", "secret", "pair", "peerSecret", "touch"}, gcur' \in Pairs \cup {NoPair},
         GwReconcilerPlaced', stale' \in BOOLEAN, forcedGw' \in Nat
  PROVE  GwInv'
<1>1. GwLocalsType'
  BY DEF GwLocalsType, GwPartDone
<1>2. Len(spec'.clusters) \in Nat
  BY ListsAreLists DEF TypeOK, ReconcilerType, Lists
<1>3. GwPartPlaced' /\ PairsPlaced'
  BY <1>2 DEF GwPartDone, GwPartPlaced, PairsPlaced, PairsLeft
<1> QED BY <1>1, <1>3 DEF GwInv, GwPlaced

(* A step that leaves the gateway part where it is.                        *)
LEMMA PartKept ==
  ASSUME GwInv, GwObjectsType', UNCHANGED <<pc, spec, gwpc, at>>, gtodo' \subseteq gtodo,
         gpc' \in {"idle", "secret", "pair", "peerSecret", "touch"}, gcur' \in Pairs \cup {NoPair},
         GwReconcilerPlaced', stale' \in BOOLEAN, forcedGw' \in Nat
  PROVE  GwInv'
<1>1. GwLocalsType'
  BY DEF GwInv, GwLocalsType
<1>2. GwPartPlaced' /\ PairsPlaced'
  BY DEF GwInv, GwPlaced, GwPartPlaced, PairsPlaced, PairsLeft
<1> QED BY <1>1, <1>2 DEF GwInv, GwPlaced

LEMMA WscPartKeepsGwInv ==
  ASSUME TypeOK', GwInv, WscPart, stale' \in BOOLEAN PROVE GwInv'
<1>1. UNCHANGED gwVars /\ gwpc = "none" /\ (pc' = "gateways" => spec'.mode # NoNet)
  BY WscPartPlaced
<1>2. UNCHANGED <<gw, secret, gwQueue, gwpc, gtodo, at, gpc, gcur, forcedGw>>
  BY <1>1 DEF gwVars
<1>3. GwObjectsType' /\ GwLocalsType' /\ GwReconcilerPlaced'
  BY <1>2 DEF GwInv, GwPlaced, GwObjectsType, GwLocalsType, GwReconcilerPlaced
<1>4. Len(spec'.clusters) \in Nat
  BY ListsAreLists DEF TypeOK, ReconcilerType, Lists
<1>5. at' = <<1, 2>> /\ gwpc' = "none"
  BY <1>1, <1>2 DEF GwInv, GwPlaced, PairsPlaced
<1>6. GwPartPlaced' /\ PairsPlaced'
  BY <1>1, <1>4, <1>5 DEF GwPartPlaced, PairsPlaced, PairsLeft
<1> QED BY <1>3, <1>6 DEF GwInv, GwPlaced

LEMMA GwPartKeepsGwInv ==
  ASSUME TypeOK, TypeOK', Planned, GwInv, GwPart, stale' \in BOOLEAN PROVE GwInv'
<1> USE DEF GwInv, GwPlaced
<1>1. UNCHANGED <<gpc, gcur, forcedGw>>
  BY DEF GwPart, ListObsoleteGateways, PairExists, CreateServer, CreateClient, GenerateCerts,
         GatewaysDone, ListAllGateways, GatewaysDeleted, DeleteListedGateway
<1>2. /\ gpc' \in {"idle", "secret", "pair", "peerSecret", "touch"} /\ gcur' \in Pairs \cup {NoPair}
      /\ GwReconcilerPlaced' /\ forcedGw' \in Nat
  BY <1>1 DEF GwLocalsType, GwReconcilerPlaced
<1>3. UNCHANGED vars => UNCHANGED <<pc, spec>>
  BY DEF vars, localVars
<1>4. Len(spec.clusters) \in Nat
  BY ListsAreLists DEF TypeOK, ReconcilerType, Lists
<1>5. ASSUME GwAbort, UNCHANGED <<gw, gwQueue, secret>> PROVE GwInv'
  <2>1. GwPartDone /\ pc' = "idle"
    BY <1>5 DEF GwAbort, AbortReconcile
  <2>2. GwObjectsType'
    BY <1>5 DEF GwObjectsType
  <2> QED BY <1>2, <2>1, <2>2, PartDoneKeeps
<1>6. CreatesPairs => pc = "gateways" /\ (PairsLeft => at[2] <= Len(spec.clusters))
  BY DEF CreatesPairs, GwPartPlaced, PairsPlaced
<1>7. CASE ListObsoleteGateways \/ ListAllGateways
  <2>1. /\ UNCHANGED <<gw, secret, gwQueue, at, pc, spec>> /\ gwpc = "none"
        /\ gtodo' \subseteq Pairs
        /\ \/ gwpc' = "cleanup" /\ pc = "gateways"
           \/ gwpc' = "delete" /\ pc = "deleteGateways"
    BY <1>3, <1>7 DEF ListObsoleteGateways, ListAllGateways, GwListed
  <2>2. GwObjectsType' /\ GwLocalsType'
    BY <1>2, <2>1 DEF GwObjectsType, GwLocalsType
  <2>3. GwPartPlaced' /\ PairsPlaced'
    BY <2>1 DEF GwPartPlaced, PairsPlaced, PairsLeft
  <2> QED BY <1>2, <2>2, <2>3
<1>8. CASE PairExists \/ GenerateCerts
  <2>1. pc = "gateways" /\ PairsLeft
    BY <1>6, <1>8 DEF PairExists, GenerateCerts, GwPartPlaced, PairsPlaced
  <2>2. UNCHANGED <<gw, gwQueue, gtodo, pc, spec>> /\ gwpc' = "pairs" /\ at' = NextPair
    BY <1>3, <1>8 DEF PairExists, GenerateCerts
  <2>3. ServerPair \in Pairs /\ Peer(ServerPair) \in Pairs
    BY <2>1, ServerPairType, PeerIsPair
  <2>4. secret' \in [Pairs -> {"none", "ordered", "made"}]
    BY <1>8, <2>3 DEF PairExists, GenerateCerts, GwObjectsType
  <2>5. GwObjectsType' /\ GwLocalsType'
    BY <1>2, <2>1, <2>2, <2>4, NextPairType DEF GwObjectsType, GwLocalsType
  <2>6. GwPartPlaced' /\ PairsPlaced'
    BY <2>1, <2>2, NextPairType DEF GwPartPlaced, PairsPlaced, PairsLeft
  <2> QED BY <1>2, <2>5, <2>6
<1>9. CASE CreateServer \/ CreateClient
  <2>1. pc = "gateways" /\ PairsLeft
    BY <1>6, <1>9 DEF CreateServer, CreateClient, GwPartPlaced, PairsPlaced
  <2>2. /\ ServerPair \in Pairs /\ Peer(ServerPair) \in Pairs /\ gatewayNumber \in Nat
        /\ clusterMap[ServerPair[1]] \in Nat /\ clusterMap[ServerPair[2]] \in Nat
        /\ clusterMap[Peer(ServerPair)[1]] \in Nat /\ clusterMap[Peer(ServerPair)[2]] \in Nat
    <3>1. /\ ServerPair \in Pairs
          /\ clusterMap[ServerPair[1]] \in Nat /\ clusterMap[ServerPair[2]] \in Nat
      BY <2>1, ServerPairType
    <3>2. Peer(ServerPair)[1] = ServerPair[2] /\ Peer(ServerPair)[2] = ServerPair[1]
      BY DEF Peer
    <3> QED BY <3>1, <3>2, PeerIsPair, GatewayNumberType DEF gatewayNumber
  <2>3. UNCHANGED secret
    BY <1>9 DEF CreateServer, CreateClient
  <2>4. CASE GwAbort /\ UNCHANGED <<gw, gwQueue>>
    BY <1>5, <2>3, <2>4
  <2>5. CASE ~(GwAbort /\ UNCHANGED <<gw, gwQueue>>)
    <3>1. /\ UNCHANGED <<pc, spec, gtodo, at>> /\ gwpc' \in {"client", "certs"}
          /\ \/ CreateGateway(ServerPair, "Server", gatewayNumber)
             \/ CreateGateway(Peer(ServerPair), "Client", gatewayNumber)
      BY <1>3, <1>9, <2>5 DEF CreateServer, CreateClient
    <3>2. gw' \in [Pairs -> GwRecord] /\ gwQueue' \subseteq Pairs
      BY <2>2, <3>1, CreateGatewayType
    <3>3. GwObjectsType' /\ GwLocalsType'
      BY <1>2, <2>3, <3>1, <3>2 DEF GwObjectsType, GwLocalsType
    <3>4. GwPartPlaced' /\ PairsPlaced'
      BY <2>1, <3>1 DEF GwPartPlaced, PairsPlaced, PairsLeft
    <3> QED BY <1>2, <3>3, <3>4
  <2> QED BY <2>4, <2>5
<1>10. CASE GatewaysDone
  BY <1>2, <1>10, PartDoneKeeps DEF GatewaysDone, ReconcileDone, EndReconcile, GwObjectsType
<1>11. CASE GatewaysDeleted
  BY <1>2, <1>11, PartDoneKeeps DEF GatewaysDeleted, ListForDeletion, GwObjectsType
<1>12. ASSUME NEW p \in Pairs, DeleteListedGateway(p) PROVE GwInv'
  <2>1. CASE GwAbort /\ UNCHANGED <<gw, gwQueue>>
    BY <1>5, <1>12, <2>1 DEF DeleteListedGateway
  <2>2. CASE ~(GwAbort /\ UNCHANGED <<gw, gwQueue>>)
    <3>1. DeleteGateway(p) /\ gtodo' = gtodo \ {p} /\ UNCHANGED <<gwpc, at, secret, pc, spec>>
      BY <1>3, <1>12, <2>2 DEF DeleteListedGateway
    <3>2. GwObjectsType'
      BY <3>1, DeleteGatewayType DEF GwObjectsType
    <3> QED BY <1>2, <3>1, <3>2, PartKept
  <2> QED BY <2>1, <2>2
<1> QED BY <1>7, <1>8, <1>9, <1>10, <1>11, <1>12 DEF GwPart
(* The gateway reconciler and the certificate job.                         *)
LEMMA GwReconcilerKeepsGwInv ==
  ASSUME TypeOK, GwInv, stale' \in BOOLEAN,
         \/ GwReconciler \/ GwReconcileFails
         \/ \E p \in Pairs : \/ RemoveGwFinalizersFails(p) \/ ForceDeleteGateway(p)
                             \/ CertJobRuns(p)
  PROVE  GwInv'
<1> USE DEF GwInv, GwPlaced
<1> DEFINE Places == {"idle", "secret", "pair", "peerSecret", "touch"}
           Kept == /\ UNCHANGED <<pc, spec, gwpc, gtodo, at>> /\ forcedGw' \in Nat
                   /\ gpc' \in Places /\ gcur' \in Pairs \cup {NoPair}
                   /\ GwReconcilerPlaced'
<1>1. UNCHANGED vars => UNCHANGED <<pc, spec>>
  BY DEF vars, localVars
<1>2. ASSUME Kept, GwObjectsType' PROVE GwInv'
  BY <1>2, PartKept
<1>3. NoGateway \in GwRecord
  BY DEF NoGateway, GwRecord
<1>4. gpc # "idle" => gcur \in Pairs /\ Peer(gcur) \in Pairs
  BY PeerIsPair DEF GwReconcilerPlaced
<1>5. CASE DeleteGwSecret \/ DeletePeerSecret
  <2>1. Kept
    BY <1>1, <1>5 DEF DeleteGwSecret, DeletePeerSecret, GwLocalsType, GwReconcilerPlaced
  <2>2. GwObjectsType'
    BY <1>4, <1>5 DEF DeleteGwSecret, DeletePeerSecret, DeleteSecret, GwObjectsType
  <2> QED BY <1>2, <2>1, <2>2
<1>6. CASE DeletePeer
  <2>1. Kept
    BY <1>1, <1>6 DEF DeletePeer, GwIdle, GwLocalsType, GwReconcilerPlaced
  <2>2. GwObjectsType'
    <3>1. CASE DeleteGateway(Peer(gcur))
      BY <1>4, <1>6, <3>1, DeleteGatewayType DEF DeletePeer, GwObjectsType
    <3>2. CASE ~DeleteGateway(Peer(gcur))
      BY <1>6, <3>2 DEF DeletePeer, GwObjectsType
    <3> QED BY <3>1, <3>2
  <2> QED BY <1>2, <2>1, <2>2
<1>7. CASE TouchSlice \/ GwReconcileFails
  <2>1. Kept
    BY <1>7 DEF TouchSlice, GwReconcileFails, GwIdle, localVars, GwLocalsType, GwReconcilerPlaced
  <2>2. GwObjectsType'
    BY <1>4, <1>7 DEF TouchSlice, GwReconcileFails, GwObjectsType
  <2> QED BY <1>2, <2>1, <2>2
<1>8. ASSUME NEW p \in Pairs, ReconcileGwAbsent(p) \/ ReconcileGwLive(p) PROVE GwInv'
  <2>1. Kept
    BY <1>1, <1>8 DEF ReconcileGwAbsent, ReconcileGwLive, GwLocalsType, GwReconcilerPlaced
  <2>2. [gw[p] EXCEPT !.finalizer = TRUE] \in GwRecord
    BY ZenonT(60) DEF GwObjectsType, GwRecord
  <2>3. GwObjectsType'
    BY <1>8, <2>2 DEF ReconcileGwAbsent, ReconcileGwLive, GwObjectsType
  <2> QED BY <1>2, <2>1, <2>3
<1>9. ASSUME NEW p \in Pairs, RemoveGwFinalizers(p) \/ RemoveGwFinalizersFails(p) PROVE GwInv'
  <2>1. Kept
    BY <1>1, <1>9 DEF RemoveGwFinalizers, RemoveGwFinalizersFails, localVars, GwLocalsType,
                      GwReconcilerPlaced
  <2>2. GwObjectsType'
    BY <1>3, <1>9 DEF RemoveGwFinalizers, RemoveGwFinalizersFails, GwObjectsType
  <2> QED BY <1>2, <2>1, <2>2
<1>10. ASSUME NEW p \in Pairs, ForceDeleteGateway(p) PROVE GwInv'
  <2>1. Kept
    BY <1>1, <1>10 DEF ForceDeleteGateway, GwLocalsType, GwReconcilerPlaced
  <2>2. GwObjectsType'
    BY <1>10, DeleteGatewayType DEF ForceDeleteGateway, GwObjectsType
  <2> QED BY <1>2, <2>1, <2>2
<1>11. ASSUME NEW p \in Pairs, CertJobRuns(p) PROVE GwInv'
  <2>1. Kept
    BY <1>1, <1>11 DEF CertJobRuns, GwLocalsType, GwReconcilerPlaced
  <2>2. GwObjectsType'
    BY <1>11, PeerIsPair DEF CertJobRuns, GwObjectsType
  <2> QED BY <1>2, <2>1, <2>2
<1> QED BY <1>5, <1>6, <1>7, <1>8, <1>9, <1>10, <1>11 DEF GwReconciler

LEMMA GwInvStep ==
  ASSUME BaseInv, BaseInv', GwInv, [GNext]_gvars PROVE GwInv'
<1> USE DEF BaseInv
<1>1. CASE UNCHANGED gvars
  BY <1>1 DEF gvars, gwVars, vars, localVars, GwInv, GwPlaced, GwObjectsType, GwLocalsType,
              GwPartPlaced, PairsPlaced, PairsLeft, GwReconcilerPlaced
<1>2. CASE GNext
  <2>1. stale' \in BOOLEAN
    BY <1>2 DEF GNext
  <2>2. ASSUME UNCHANGED gwVars, UNCHANGED <<pc, spec>> PROVE GwInv'
    BY <2>1, <2>2 DEF gwVars, GwInv, GwPlaced, GwObjectsType, GwLocalsType, GwPartPlaced,
                      PairsPlaced, PairsLeft, GwReconcilerPlaced
  <2>3. CASE (User \/ Worker \/ Time) /\ UNCHANGED gwVars
    BY <2>2, <2>3, NoPartsTouched
  <2>4. CASE WscReconciler
    BY <2>2, <2>4, NoPartsTouched DEF WscReconciler
  <2>5. CASE (ReconcileWscFails \/ \E c \in Cluster : RemoveWorkerFinalizersFails(c)) /\ UNCHANGED gwVars
    BY <2>2, <2>5, NoPartsTouched
  <2>6. CASE ReconcileFails /\ GwPartDone /\ UNCHANGED <<gw, secret, gwQueue, gpc, gcur, forcedGw>>
    BY <2>1, <2>6, PartDoneKeeps
      DEF ReconcileFails, AbortReconcile, GwInv, GwPlaced, GwObjectsType, GwLocalsType,
          GwReconcilerPlaced
  <2>7. CASE Crash /\ GwPartDone /\ GwIdle /\ gwQueue' = GwListed /\ UNCHANGED <<gw, secret, forcedGw>>
    <3>1. GwObjectsType'
      BY <2>7 DEF GwInv, GwObjectsType, GwListed
    <3>2. gpc' = "idle" /\ gcur' = NoPair /\ GwReconcilerPlaced' /\ forcedGw' \in Nat
      BY <2>7 DEF GwIdle, GwReconcilerPlaced, GwInv, GwLocalsType
    <3> QED BY <2>1, <2>7, <3>1, <3>2, PartDoneKeeps DEF Crash
  <2>8. CASE WscPart
    BY <2>1, <2>8, WscPartKeepsGwInv
  <2>9. CASE GwPart
    BY <2>1, <2>9, GwPartKeepsGwInv
  <2>10. CASE \/ GwReconciler \/ GwReconcileFails
              \/ \E p \in Pairs : \/ RemoveGwFinalizersFails(p) \/ ForceDeleteGateway(p)
                                  \/ CertJobRuns(p)
    BY <2>1, <2>10, GwReconcilerKeepsGwInv
  <2> QED BY <1>2, <2>3, <2>4, <2>5, <2>6, <2>7, <2>8, <2>9, <2>10 DEF GNext, GFault
<1> QED BY <1>1, <1>2

LEMMA GwInvInit == GInit => GwInv
<1> SUFFICES ASSUME GInit PROVE GwInv
  OBVIOUS
<1>1. NoGateway \in GwRecord
  BY DEF NoGateway, GwRecord
<1>2. GwObjectsType /\ GwLocalsType
  BY <1>1 DEF GInit, GwObjectsType, GwLocalsType
<1>3. pc = "idle" /\ Len(spec.clusters) = 0
  BY DEF GInit, Init, NoSpec
<1>4. GwPlaced
  BY <1>3 DEF GInit, GwPlaced, GwPartPlaced, PairsPlaced, PairsLeft, GwReconcilerPlaced
<1> QED BY <1>2, <1>4 DEF GwInv

LEMMA GwInvariant == GSpec => [](BaseInv /\ GwInv)
<1>1. GInit => BaseInv /\ GwInv
  BY BaseInvInit, GwInvInit DEF GInit
<1>2. BaseInv /\ GwInv /\ [GNext]_gvars => (BaseInv /\ GwInv)'
  BY BaseInvStep, GwInvStep
<1> QED BY <1>1, <1>2, PTL DEF GSpec

(* Every variable of the gateways has its type for any cluster lists: the  *)
(* loop of createMinimumGatewaysIfNotExists never leaves the list, takes   *)
(* two different clusters the map has octets for, and a gateway number is  *)
(* natural although the octets start at zero.                              *)
THEOREM GTypeCorrect == GSpec => []GTypeOK
<1>1. BaseInv /\ GwInv => GTypeOK
  BY DEF BaseInv, GwInv, GTypeOK, GwObjectsType, GwLocalsType, GwRecord
<1> QED BY <1>1, GwInvariant, PTL
-----------------------------------------------------------------------------
(* A deleted slice leaves no live gateway.  Gateways are only created by a *)
(* reconcile, which has put its finalizer on the slice, ...                *)
GwFinalizerGuards == slice.finalizer # TRUE => \A p \in Pairs : gw[p].state # "live"

(* ... and a deletion that has listed them has all of them on its list     *)
(* until it goes on to the WorkerSliceConfigs.                             *)
GwDeletionCovers ==
  /\ gwpc = "delete" => \A p \in Pairs : gw[p].state = "live" => p \in gtodo
  /\ pc = "deleteSlices" => \A p \in Pairs : gw[p].state # "live"

GwOrphanInv == GwFinalizerGuards /\ GwDeletionCovers

(* No step but the two creations makes a gateway live.                     *)
MakesNoneLive == \A p \in Pairs : gw'[p].state = "live" => gw[p].state = "live"

LEMMA DeleteMakesNoneLive ==
  ASSUME GwInv, NEW p \in Pairs, DeleteGateway(p)
  PROVE  MakesNoneLive /\ gw'[p].state # "live"
BY DEF DeleteGateway, MakesNoneLive, GwInv, GwObjectsType, GwRecord, NoGateway

LEMMA OrphanKeptByGw ==
  ASSUME GwOrphanInv, MakesNoneLive, slice' = slice \/ slice'.finalizer = slice.finalizer,
         UNCHANGED <<pc, gwpc, gtodo>>
  PROVE  GwOrphanInv'
BY DEF GwOrphanInv, GwFinalizerGuards, GwDeletionCovers, MakesNoneLive
(* The steps of the base module, with the gateways left alone.             *)
LEMMA BaseStepKeepsOrphanInv ==
  ASSUME BaseInv, GwInv, GwOrphanInv, UNCHANGED gwVars,
         \/ User \/ Worker \/ Time \/ WscPart \/ WscReconciler \/ ReconcileWscFails
         \/ \E c \in Cluster : RemoveWorkerFinalizersFails(c)
  PROVE  GwOrphanInv'
<1>1. UNCHANGED <<gw, gwpc, gtodo>>
  BY DEF gwVars
<1>2. MakesNoneLive
  BY <1>1 DEF MakesNoneLive
<1>3. CASE User
  <2>1. UNCHANGED pc
    BY <1>3, NoPartsTouched
  <2>2. ASSUME NEW l \in ClusterLists, NEW m \in Modes, CreateSliceConfig(l, m) PROVE GwOrphanInv'
    <3>1. slice.finalizer # TRUE
      BY <2>2 DEF CreateSliceConfig, BaseInv, OrphanInv, FinalizerGuards
    <3> QED BY <1>1, <2>1, <3>1 DEF GwOrphanInv, GwFinalizerGuards, GwDeletionCovers
  <2>3. ASSUME NEW l \in ClusterLists, NEW m \in Modes, UpdateSliceConfig(l, m) PROVE GwOrphanInv'
    <3>1. slice'.finalizer = slice.finalizer
      BY <2>3 DEF UpdateSliceConfig, BaseInv, TypeOK, SliceType
    <3> QED BY <1>1, <1>2, <2>1, <3>1, OrphanKeptByGw
  <2>4. CASE DeleteSliceConfig
    <3>1. slice'.finalizer = slice.finalizer
      BY <2>4 DEF DeleteSliceConfig, BaseInv, TypeOK, SliceType
    <3> QED BY <1>1, <1>2, <2>1, <3>1, OrphanKeptByGw
  <2>5. ASSUME NEW c \in Cluster, ForceDelete(c) PROVE GwOrphanInv'
    BY <1>1, <1>2, <2>1, <2>5, OrphanKeptByGw DEF ForceDelete
  <2> QED BY <1>3, <2>2, <2>3, <2>4, <2>5 DEF User
<1>4. CASE \/ Worker \/ Time \/ WscReconciler \/ ReconcileWscFails
           \/ \E c \in Cluster : RemoveWorkerFinalizersFails(c)
  <2>1. UNCHANGED pc
    BY <1>4, NoPartsTouched
  <2>2. UNCHANGED slice
    BY <1>4 DEF Worker, WorkerAdopts, WorkerReleases, Time, GraceExpires, TimerFires, WscReconciler,
                WscFinish, WscStart, CopySpec, RecreateForced, ReconcileWscAbsent, ReconcileWscLive,
                ReconcileWscWaits, RemoveWorkerFinalizers, ReconcileWscFails,
                RemoveWorkerFinalizersFails
  <2> QED BY <1>1, <1>2, <2>1, <2>2, OrphanKeptByGw
<1>5. CASE WscPart
  <2>1. gwpc' = "none"
    BY <1>1, <1>5, WscPartPlaced
  <2>2. pc' = "deleteSlices" => pc = "deleteSlices"
    BY <1>5 DEF WscPart, ReconcileAbsent, ReconcileLive, PlanOctets, ApplyCluster, WscsApplied,
                AbortReconcile, EndReconcile, ReconcileDeleting, RemoveSliceFinalizer,
                CleanUpSlices, DeleteWorkerSliceConfig
  <2>3. CASE ReconcileLive
    <3>1. slice'.finalizer = TRUE
      BY <2>3 DEF ReconcileLive, BaseInv, TypeOK, SliceType
    <3> QED BY <1>1, <2>1, <2>2, <3>1 DEF GwOrphanInv, GwFinalizerGuards, GwDeletionCovers
  <2>4. CASE RemoveSliceFinalizer
    BY <1>1, <2>1, <2>2, <2>4
      DEF RemoveSliceFinalizer, GwOrphanInv, GwFinalizerGuards, GwDeletionCovers
  <2>5. CASE ~(ReconcileLive \/ RemoveSliceFinalizer)
    <3>1. UNCHANGED slice
      BY <1>5, <2>5 DEF WscPart, ReconcileAbsent, PlanOctets, ApplyCluster, WscsApplied,
                        ReconcileDeleting, CleanUpSlices, DeleteWorkerSliceConfig
    <3> QED BY <1>1, <2>1, <2>2, <3>1 DEF GwOrphanInv, GwFinalizerGuards, GwDeletionCovers
  <2> QED BY <2>3, <2>4, <2>5
<1> QED BY <1>3, <1>4, <1>5

LEMMA GwPartKeepsOrphanInv ==
  ASSUME BaseInv, GwInv, GwOrphanInv, GwPart PROVE GwOrphanInv'
<1> USE DEF GwInv, GwPlaced
<1>1. UNCHANGED slice
  BY DEF GwPart, ListObsoleteGateways, PairExists, CreateServer, CreateClient, GenerateCerts,
         GatewaysDone, ListAllGateways, GatewaysDeleted, DeleteListedGateway, vars, baseRest,
         ReconcileDone, ListForDeletion
<1>2. UNCHANGED vars => UNCHANGED pc
  BY DEF vars
<1>3. ASSUME GwAbort, UNCHANGED gw PROVE GwOrphanInv'
  BY <1>1, <1>3 DEF GwAbort, AbortReconcile, GwPartDone, GwOrphanInv, GwFinalizerGuards,
                    GwDeletionCovers
<1>4. CASE ListObsoleteGateways \/ PairExists \/ GenerateCerts
  BY <1>1, <1>2, <1>4 DEF ListObsoleteGateways, PairExists, GenerateCerts, GwOrphanInv,
                          GwFinalizerGuards, GwDeletionCovers
<1>5. CASE ListAllGateways
  BY <1>1, <1>2, <1>5 DEF ListAllGateways, GwOrphanInv, GwFinalizerGuards, GwDeletionCovers,
                          GwListed, GwExists
<1>6. CASE CreateServer \/ CreateClient
  <2>1. pc = "gateways"
    BY <1>6 DEF CreateServer, CreateClient, CreatesPairs, GwPartPlaced
  <2>2. slice.finalizer = TRUE
    BY <2>1 DEF BaseInv, OrphanInv, FinalizerGuards
  <2>3. CASE GwAbort /\ UNCHANGED gw
    BY <1>3, <2>3
  <2>4. CASE ~(GwAbort /\ UNCHANGED gw)
    <3>1. gwpc' \in {"client", "certs"} /\ pc' = "gateways"
      BY <1>2, <1>6, <2>1, <2>4 DEF CreateServer, CreateClient
    <3> QED BY <1>1, <2>2, <3>1 DEF GwOrphanInv, GwFinalizerGuards, GwDeletionCovers
  <2> QED BY <2>3, <2>4
<1>7. CASE GatewaysDone
  BY <1>1, <1>7 DEF GatewaysDone, ReconcileDone, EndReconcile, GwPartDone, GwOrphanInv,
                    GwFinalizerGuards, GwDeletionCovers
<1>8. CASE GatewaysDeleted
  BY <1>1, <1>8 DEF GatewaysDeleted, ListForDeletion, GwPartDone, GwOrphanInv, GwFinalizerGuards,
                    GwDeletionCovers
<1>9. ASSUME NEW p \in Pairs, DeleteListedGateway(p) PROVE GwOrphanInv'
  <2>1. CASE GwAbort /\ UNCHANGED gw
    BY <1>3, <2>1
  <2>2. CASE ~(GwAbort /\ UNCHANGED gw)
    <3>1. DeleteGateway(p) /\ gtodo' = gtodo \ {p} /\ UNCHANGED <<gwpc, pc>>
      BY <1>2, <1>9, <2>2 DEF DeleteListedGateway
    <3>2. MakesNoneLive /\ gw'[p].state # "live"
      BY <3>1, DeleteMakesNoneLive
    <3> QED BY <1>1, <3>1, <3>2 DEF GwOrphanInv, GwFinalizerGuards, GwDeletionCovers, MakesNoneLive
  <2> QED BY <2>1, <2>2
<1> QED BY <1>4, <1>5, <1>6, <1>7, <1>8, <1>9 DEF GwPart

LEMMA GwReconcilerKeepsOrphanInv ==
  ASSUME GwInv, GwOrphanInv,
         \/ GwReconciler \/ GwReconcileFails
         \/ \E p \in Pairs : \/ RemoveGwFinalizersFails(p) \/ ForceDeleteGateway(p)
                             \/ CertJobRuns(p)
  PROVE  GwOrphanInv'
<1>1. UNCHANGED vars => UNCHANGED <<slice, pc>>
  BY DEF vars
<1>2. UNCHANGED <<slice, pc, gwpc, gtodo>>
  BY <1>1 DEF GwReconciler, DeleteGwSecret, DeletePeer, DeletePeerSecret, TouchSlice,
              ReconcileGwAbsent, ReconcileGwLive, RemoveGwFinalizers, GwReconcileFails,
              RemoveGwFinalizersFails, ForceDeleteGateway, CertJobRuns
<1>3. MakesNoneLive
  <2>1. CASE UNCHANGED gw
    BY <2>1 DEF MakesNoneLive
  <2>2. ASSUME NEW p \in Pairs, DeleteGateway(p) PROVE MakesNoneLive
    BY <2>2, DeleteMakesNoneLive
  <2>3. ASSUME NEW p \in Pairs, ReconcileGwLive(p) \/ RemoveGwFinalizers(p) PROVE MakesNoneLive
    <3>1. /\ gw[p] \in GwRecord /\ NoGateway.state = "absent"
          /\ [gw[p] EXCEPT !.finalizer = TRUE].state = gw[p].state
      BY DEF GwInv, GwObjectsType, GwRecord, NoGateway
    <3>2. \A q \in Pairs : q # p => gw'[q] = gw[q]
      BY <2>3 DEF ReconcileGwLive, RemoveGwFinalizers, GwInv, GwObjectsType
    <3>3. gw'[p] \in {[gw[p] EXCEPT !.finalizer = TRUE], NoGateway}
      BY <2>3 DEF ReconcileGwLive, RemoveGwFinalizers, GwInv, GwObjectsType
    <3> QED BY <3>1, <3>2, <3>3 DEF MakesNoneLive
  <2>4. gpc # "idle" => Peer(gcur) \in Pairs
    BY PeerIsPair DEF GwInv, GwPlaced, GwReconcilerPlaced
  <2> QED BY <2>1, <2>2, <2>3, <2>4
        DEF GwReconciler, DeleteGwSecret, DeletePeer, DeletePeerSecret, TouchSlice,
            ReconcileGwAbsent, GwReconcileFails, RemoveGwFinalizersFails, ForceDeleteGateway,
            CertJobRuns
<1> QED BY <1>2, <1>3, OrphanKeptByGw

LEMMA GwOrphanStep ==
  ASSUME BaseInv, GwInv, GwOrphanInv, [GNext]_gvars PROVE GwOrphanInv'
<1>1. CASE UNCHANGED gvars
  BY <1>1 DEF gvars, gwVars, vars, GwOrphanInv, GwFinalizerGuards, GwDeletionCovers
<1>2. CASE (User \/ Worker \/ Time) /\ UNCHANGED gwVars
  BY <1>2, BaseStepKeepsOrphanInv
<1>3. CASE WscPart \/ WscReconciler
  BY <1>3, BaseStepKeepsOrphanInv DEF WscPart, WscReconciler
<1>4. CASE (ReconcileWscFails \/ \E c \in Cluster : RemoveWorkerFinalizersFails(c)) /\ UNCHANGED gwVars
  BY <1>4, BaseStepKeepsOrphanInv
<1>5. CASE (ReconcileFails \/ Crash) /\ GwPartDone /\ UNCHANGED gw
  BY <1>5 DEF ReconcileFails, Crash, AbortReconcile, GwPartDone, GwOrphanInv, GwFinalizerGuards,
              GwDeletionCovers
<1>6. CASE GwPart
  BY <1>6, GwPartKeepsOrphanInv
<1>7. CASE \/ GwReconciler \/ GwReconcileFails
           \/ \E p \in Pairs : \/ RemoveGwFinalizersFails(p) \/ ForceDeleteGateway(p)
                               \/ CertJobRuns(p)
  BY <1>7, GwReconcilerKeepsOrphanInv
<1> QED BY <1>1, <1>2, <1>3, <1>4, <1>5, <1>6, <1>7 DEF GNext, GFault

(* Whatever the user, the restarts, the failing calls and the gateway      *)
(* reconciler do while DeleteWorkerSliceGatewaysByLabel works through its  *)
(* list, a slice whose finalizer is gone has left no gateway that nobody   *)
(* is going to delete.                                                     *)
THEOREM NoGatewayOrphansCorrect == GSpec => []NoGatewayOrphans
<1>1. GInit => GwOrphanInv
  <2> SUFFICES ASSUME GInit PROVE GwOrphanInv
    OBVIOUS
  <2>1. \A p \in Pairs : gw[p].state # "live"
    BY DEF GInit, NoGateway
  <2> QED BY <2>1 DEF GwOrphanInv, GwFinalizerGuards, GwDeletionCovers, GInit
<1>2. BaseInv /\ GwOrphanInv => NoGatewayOrphans
  BY DEF BaseInv, OrphanInv, FinalizerGuards, GwOrphanInv, GwFinalizerGuards, NoGatewayOrphans
<1>3. BaseInv /\ GwInv /\ GwOrphanInv /\ [GNext]_gvars => GwOrphanInv'
  BY GwOrphanStep
<1> QED BY <1>1, <1>2, <1>3, GwInvariant, PTL DEF GSpec
-----------------------------------------------------------------------------
(* The gateways of two clusters fit together.  With lists that grow and    *)
(* shrink at their end the octets are the positions of the clusters, so a  *)
(* gateway made long ago has the subnets, the number and the role that the *)
(* reconcile would give it now.                                            *)
GwInPlace ==
  \A p \in Pairs : GwExists(p) =>
    /\ AtPlace(p[1], gw[p].net[1]) /\ AtPlace(p[2], gw[p].net[2])
    /\ gw[p].number = calculateGatewayNumber(gw[p].net[1], gw[p].net[2])
    /\ gw[p].host = IF gw[p].net[1] < gw[p].net[2] THEN "Server" ELSE "Client"

PlaceInv == InPlace /\ MapInPlace /\ GwInPlace

LEMMA GatewayNumberCommutes ==
  ASSUME NEW a \in Nat, NEW b \in Nat
  PROVE  calculateGatewayNumber(a, b) = calculateGatewayNumber(b, a)
<1>1. CASE a = b
  BY <1>1
<1>2. CASE a < b
  BY <1>2 DEF calculateGatewayNumber
<1>3. CASE b < a
  BY <1>3 DEF calculateGatewayNumber
<1> QED BY <1>1, <1>2, <1>3

(* A gateway that is kept keeps what it was made with.                     *)
KeptGateway(p) ==
  gw'[p].net = gw[p].net /\ gw'[p].number = gw[p].number /\ gw'[p].host = gw[p].host

KeepsOrDrops == \A p \in Pairs : GwExists(p)' => GwExists(p) /\ KeptGateway(p)

LEMMA PlacesKept ==
  ASSUME GwInPlace, KeepsOrDrops PROVE GwInPlace'
BY DEF GwInPlace, KeepsOrDrops, KeptGateway

LEMMA DeleteKeepsOrDrops ==
  ASSUME GwInv, NEW p \in Pairs, GwExists(p), DeleteGateway(p) PROVE KeepsOrDrops
<1>1. gw[p] \in GwRecord /\ \A q \in Pairs : q # p => gw'[q] = gw[q]
  BY DEF DeleteGateway, GwInv, GwObjectsType
<1>2. CASE gw'[p] = [gw[p] EXCEPT !.state = "deleting"]
  <2>1. KeptGateway(p)
    BY <1>1, <1>2 DEF KeptGateway, GwRecord
  <2> QED BY <1>1, <2>1 DEF KeepsOrDrops, KeptGateway, GwExists
<1>3. CASE gw'[p] = NoGateway
  <2>1. NoGateway.state = "absent"
    BY DEF NoGateway
  <2> QED BY <1>1, <1>3, <2>1 DEF KeepsOrDrops, KeptGateway, GwExists
<1> QED BY <1>2, <1>3 DEF DeleteGateway, GwInv, GwObjectsType

(* Every step keeps the gateways or drops one, or is one of the two        *)
(* creations.                                                              *)
LEMMA GatewayStep ==
  ASSUME GwInv, [GNext]_gvars
  PROVE  \/ KeepsOrDrops
         \/ CreatesPairs /\ PairsLeft /\ CreateGateway(ServerPair, "Server", gatewayNumber)
         \/ gwpc = "client" /\ CreateGateway(Peer(ServerPair), "Client", gatewayNumber)
<1>1. ASSUME UNCHANGED gw PROVE KeepsOrDrops
  BY <1>1 DEF KeepsOrDrops, KeptGateway, GwExists
<1>2. CASE \/ UNCHANGED gvars
           \/ (User \/ Worker \/ Time) /\ UNCHANGED gwVars
           \/ WscPart \/ WscReconciler
           \/ \E p \in Pairs : CertJobRuns(p)
  BY <1>1, <1>2 DEF gvars, gwVars, WscPart, WscReconciler, CertJobRuns
<1>3. CASE GFault
  BY <1>1, <1>3 DEF GFault, gwVars, GwReconcileFails, RemoveGwFinalizersFails
<1>4. ASSUME NEW p \in Pairs, ForceDeleteGateway(p) PROVE KeepsOrDrops
  BY <1>4, DeleteKeepsOrDrops DEF ForceDeleteGateway, GwExists
<1>5. ASSUME NEW p \in Pairs, ReconcileGwLive(p) \/ RemoveGwFinalizers(p) PROVE KeepsOrDrops
  <2>1. \A q \in Pairs : q # p => gw'[q] = gw[q]
    BY <1>5 DEF ReconcileGwLive, RemoveGwFinalizers, GwInv, GwObjectsType
  <2>2. CASE ReconcileGwLive(p)
    <3>1. gw'[p] = [gw[p] EXCEPT !.finalizer = TRUE] /\ gw[p] \in GwRecord
      BY <2>2 DEF ReconcileGwLive, GwInv, GwObjectsType
    <3>2. KeptGateway(p) /\ gw'[p].state = gw[p].state
      BY <3>1 DEF KeptGateway, GwRecord
    <3> QED BY <2>1, <3>2 DEF KeepsOrDrops, KeptGateway, GwExists
  <2>3. CASE RemoveGwFinalizers(p)
    <3>1. gw'[p] = NoGateway
      BY <2>3 DEF RemoveGwFinalizers, GwInv, GwObjectsType
    <3>2. NoGateway.state = "absent"
      BY DEF NoGateway
    <3> QED BY <2>1, <3>1, <3>2 DEF KeepsOrDrops, KeptGateway, GwExists
  <2> QED BY <1>5, <2>2, <2>3
<1>6. CASE GwReconciler
  <2>1. CASE DeletePeer
    <3>1. gpc # "idle" => Peer(gcur) \in Pairs
      BY PeerIsPair DEF GwInv, GwPlaced, GwReconcilerPlaced
    <3> QED BY <1>1, <2>1, <3>1, DeleteKeepsOrDrops DEF DeletePeer
  <2> QED BY <1>1, <1>5, <1>6, <2>1
        DEF GwReconciler, DeleteGwSecret, DeletePeerSecret, TouchSlice, ReconcileGwAbsent
<1>7. CASE GwPart
  <2>1. CASE \/ ListObsoleteGateways \/ PairExists \/ GenerateCerts \/ GatewaysDone
             \/ ListAllGateways \/ GatewaysDeleted
    BY <1>1, <2>1 DEF ListObsoleteGateways, PairExists, GenerateCerts, GatewaysDone,
                      ListAllGateways, GatewaysDeleted
  <2>2. ASSUME NEW p \in Pairs, DeleteListedGateway(p) PROVE KeepsOrDrops
    <3>1. CASE GwExists(p)
      BY <2>2, <3>1, DeleteKeepsOrDrops DEF DeleteListedGateway
    <3>2. CASE ~GwExists(p)
      <4>1. UNCHANGED gw
        BY <2>2, <3>2 DEF DeleteListedGateway
      <4> QED BY <1>1, <4>1
    <3> QED BY <3>1, <3>2
  <2> QED BY <1>1, <1>7, <2>1, <2>2 DEF GwPart, CreateServer, CreateClient
<1> QED BY <1>2, <1>3, <1>4, <1>6, <1>7 DEF GNext

(* The two clusters the gateway part is at, and their octets.              *)
LEMMA ServerPairInPlace ==
  ASSUME Ordered, TypeOK, Planned, MapInPlace, GwInv, PairsLeft, pc = "gateways"
  PROVE  /\ AtPlace(ServerPair[1], clusterMap[ServerPair[1]])
         /\ AtPlace(ServerPair[2], clusterMap[ServerPair[2]])
         /\ clusterMap[ServerPair[1]] < clusterMap[ServerPair[2]]
<1> DEFINE l == spec.clusters
<1>1. l \in Seq(Cluster) /\ Len(l) \in Nat
  BY ListsAreLists DEF TypeOK, ReconcilerType, Lists
<1>2. at[1] \in 1 .. Len(l) /\ at[2] \in 1 .. Len(l) /\ at[1] < at[2]
  BY <1>1 DEF PairsPlaced, PairsLeft, GwLocalsType, GwInv, GwPlaced
<1>3. Range(l) \subseteq DOMAIN clusterMap /\ spec.mode # NoNet
  BY DEF Planned, GwPartPlaced, GwInv, GwPlaced
<1>4. l[at[1]] \in DOMAIN clusterMap /\ l[at[2]] \in DOMAIN clusterMap
  BY <1>1, <1>2, <1>3 DEF Range
<1>5. AtPlace(l[at[1]], clusterMap[l[at[1]]]) /\ AtPlace(l[at[2]], clusterMap[l[at[2]]])
  BY <1>3, <1>4 DEF MapInPlace
<1>6. AtPlace(l[at[1]], at[1] - 1) /\ AtPlace(l[at[2]], at[2] - 1)
  BY <1>2, SpecPlace
<1>7. clusterMap[l[at[1]]] = at[1] - 1 /\ clusterMap[l[at[2]]] = at[2] - 1
  BY <1>5, <1>6, OnePlace
<1>8. ServerPair[1] = l[at[1]] /\ ServerPair[2] = l[at[2]]
  BY DEF ServerPair
<1> HIDE DEF l
<1> QED BY <1>2, <1>5, <1>7, <1>8

LEMMA CreationInPlace ==
  ASSUME Ordered, BaseInv, MapInPlace, GwInPlace, GwInv, PairsLeft, pc = "gateways",
         \/ CreateGateway(ServerPair, "Server", gatewayNumber)
         \/ CreateGateway(Peer(ServerPair), "Client", gatewayNumber)
  PROVE  GwInPlace'
<1> DEFINE a == clusterMap[ServerPair[1]]
           b == clusterMap[ServerPair[2]]
<1>1. AtPlace(ServerPair[1], a) /\ AtPlace(ServerPair[2], b) /\ a < b
  BY ServerPairInPlace DEF BaseInv
<1>2. ServerPair \in Pairs /\ a \in Nat /\ b \in Nat
  BY ServerPairType DEF BaseInv, GwInv, GwPlaced
<1>3. Peer(ServerPair) \in Pairs /\ Peer(ServerPair)[1] = ServerPair[2] /\ Peer(ServerPair)[2] = ServerPair[1]
  BY <1>2, PeerIsPair DEF Peer
<1>4. gatewayNumber = calculateGatewayNumber(a, b)
  BY DEF gatewayNumber
<1>5. calculateGatewayNumber(b, a) = calculateGatewayNumber(a, b)
  BY <1>2, GatewayNumberCommutes
<1> HIDE DEF a, b
<1>6. ASSUME NEW p \in Pairs, NEW host, gw' = [gw EXCEPT ![p] = [state |-> "live", host |-> host,
                number |-> gatewayNumber, net |-> <<clusterMap[p[1]], clusterMap[p[2]]>>,
                finalizer |-> FALSE]]
      PROVE  /\ gw'[p].host = host /\ gw'[p].number = gatewayNumber
             /\ gw'[p].net[1] = clusterMap[p[1]] /\ gw'[p].net[2] = clusterMap[p[2]]
             /\ \A q \in Pairs : q # p => gw'[q] = gw[q]
  BY <1>6 DEF GwInv, GwObjectsType
<1>7. CASE CreateGateway(ServerPair, "Server", gatewayNumber)
  <2>1. /\ gw'[ServerPair].host = "Server" /\ gw'[ServerPair].number = gatewayNumber
        /\ gw'[ServerPair].net[1] = a /\ gw'[ServerPair].net[2] = b
        /\ \A q \in Pairs : q # ServerPair => gw'[q] = gw[q]
    BY <1>2, <1>6, <1>7 DEF CreateGateway, a, b
  <2> QED BY <1>1, <1>2, <1>4, <2>1 DEF GwInPlace, GwExists
<1>8. CASE CreateGateway(Peer(ServerPair), "Client", gatewayNumber)
  <2> DEFINE q == Peer(ServerPair)
  <2>1. /\ gw'[q].host = "Client" /\ gw'[q].number = gatewayNumber
        /\ gw'[q].net[1] = b /\ gw'[q].net[2] = a
        /\ \A p \in Pairs : p # q => gw'[p] = gw[p]
    BY <1>3, <1>6, <1>8 DEF CreateGateway, a, b
  <2>2. q \in Pairs /\ q[1] = ServerPair[2] /\ q[2] = ServerPair[1] /\ ~(b < a)
    BY <1>1, <1>2, <1>3
  <2> HIDE DEF q
  <2> QED BY <1>1, <1>4, <1>5, <2>1, <2>2 DEF GwInPlace, GwExists
<1> QED BY <1>7, <1>8

LEMMA PlaceStep ==
  ASSUME Ordered, BaseInv, GwInv, PlaceInv, [GNext]_gvars PROVE PlaceInv'
<1>1. InPlace' /\ MapInPlace'
  <2>1. CASE [Next]_vars
    BY <2>1, InPlaceNext DEF BaseInv, PlaceInv
  <2>2. CASE Aside
    BY <2>2 DEF Aside, wscVars, localVars, PlaceInv, InPlace, MapInPlace
  <2>3. CASE GivesUp
    BY <2>3, ObjectsLeft DEF GivesUp, AbortReconcile, PlaceInv, InPlace, MapInPlace
  <2> QED BY <2>1, <2>2, <2>3, BaseStep DEF BaseInv
<1>2. GwInPlace'
  <2>1. CASE KeepsOrDrops
    BY <2>1, PlacesKept DEF PlaceInv
  <2>2. CASE CreatesPairs /\ PairsLeft /\ CreateGateway(ServerPair, "Server", gatewayNumber)
    <3>1. pc = "gateways"
      BY <2>2 DEF CreatesPairs, GwInv, GwPlaced, GwPartPlaced
    <3> QED BY <2>2, <3>1, CreationInPlace DEF PlaceInv
  <2>3. CASE gwpc = "client" /\ CreateGateway(Peer(ServerPair), "Client", gatewayNumber)
    <3>1. pc = "gateways" /\ PairsLeft
      BY <2>3 DEF GwInv, GwPlaced, GwPartPlaced, PairsPlaced
    <3> QED BY <2>3, <3>1, CreationInPlace DEF PlaceInv
  <2> QED BY <2>1, <2>2, <2>3, GatewayStep
<1> QED BY <1>1, <1>2 DEF PlaceInv

LEMMA PlaceInvariant == ASSUME Ordered PROVE GSpec => [](BaseInv /\ GwInv /\ PlaceInv)
<1>1. GInit => PlaceInv
  <2> SUFFICES ASSUME GInit PROVE PlaceInv
    OBVIOUS
  <2>1. \A p \in Pairs : ~GwExists(p)
    BY DEF GInit, GwExists, NoGateway
  <2> QED BY <2>1, InPlaceInit DEF GInit, PlaceInv, GwInPlace
<1>2. (BaseInv /\ GwInv) /\ PlaceInv /\ [GNext]_gvars => PlaceInv'
  BY PlaceStep
<1> QED BY <1>1, <1>2, GwInvariant, PTL DEF GSpec

(* The two gateways of two clusters fit together in every state, whatever  *)
(* fails, is restarted, deleted by hand or edited while the reconcilers    *)
(* create and delete them one by one, provided clusters join and leave at  *)
(* the end of the list.  (Listing two clusters in the other order between  *)
(* the creation of the first gateway and a retry makes two servers.)       *)
THEOREM PairsAgreeCorrect == ASSUME Ordered PROVE GSpec => []PairsAgree
<1>1. GwInv /\ GwInPlace => PairsAgree
  <2> SUFFICES ASSUME GwInv, GwInPlace, NEW p \in Pairs, GwExists(p), GwExists(Peer(p))
               PROVE  /\ {gw[p].host, gw[Peer(p)].host} = {"Server", "Client"}
                      /\ gw[p].number = gw[Peer(p)].number
                      /\ gw[p].net = <<gw[Peer(p)].net[2], gw[Peer(p)].net[1]>>
    BY DEF PairsAgree, GwExists
  <2> DEFINE q == Peer(p)
  <2>1. q \in Pairs /\ q[1] = p[2] /\ q[2] = p[1] /\ p[1] # p[2]
    BY PeerIsPair DEF Peer, Pairs
  <2>2. /\ AtPlace(p[1], gw[p].net[1]) /\ AtPlace(p[2], gw[p].net[2])
        /\ gw[p].number = calculateGatewayNumber(gw[p].net[1], gw[p].net[2])
        /\ gw[p].host = IF gw[p].net[1] < gw[p].net[2] THEN "Server" ELSE "Client"
    BY DEF GwInPlace
  <2> HIDE DEF q
  <2>3. /\ AtPlace(p[2], gw[q].net[1]) /\ AtPlace(p[1], gw[q].net[2])
        /\ gw[q].number = calculateGatewayNumber(gw[q].net[1], gw[q].net[2])
        /\ gw[q].host = IF gw[q].net[1] < gw[q].net[2] THEN "Server" ELSE "Client"
    BY <2>1 DEF GwInPlace, q
  <2>4. /\ gw[q].net[2] = gw[p].net[1] /\ gw[q].net[1] = gw[p].net[2]
        /\ gw[p].net[1] \in Nat /\ gw[p].net[2] \in Nat /\ gw[p].net[1] # gw[p].net[2]
    BY <2>1, <2>2, <2>3, OnePlace
  <2>5. gw[p].number = gw[q].number
    BY <2>2, <2>3, <2>4, GatewayNumberCommutes
  <2>6. gw[p].net = <<gw[p].net[1], gw[p].net[2]>>
    <3>1. gw[p].net \in (Nat \cup {NoOctet}) \X (Nat \cup {NoOctet})
      BY DEF GwInv, GwObjectsType, GwRecord
    <3>2. \A S : \A t \in S \X S : t = <<t[1], t[2]>>
      OBVIOUS
    <3> QED BY <3>1, <3>2
  <2>7. {gw[p].host, gw[q].host} = {"Server", "Client"}
    <3>1. gw[p].net[1] < gw[p].net[2] <=> ~(gw[q].net[1] < gw[q].net[2])
      BY <2>4
    <3> QED BY <2>2, <2>3, <3>1
  <2> QED BY <2>4, <2>5, <2>6, <2>7 DEF q
<1> QED BY <1>1, PlaceInvariant, PTL DEF PlaceInv
-----------------------------------------------------------------------------
(* At rest.  While no call has failed and nobody has deleted a gateway by  *)
(* hand, every pair of clusters the slice wants connected has its gateways *)
(* or somebody is still going to see to them.                              *)

(* The gateway part has still to come to the positions i and j.            *)
After(i, j) == i > at[1] \/ (i = at[1] /\ j > at[2])

(* It has still to create the gateway p, if it is not there: all of them   *)
(* at a position to come, and at the present one the server and the client *)
(* as far as they are not created.                                         *)
Coming(p) ==
  \E i, j \in 1 .. Len(spec.clusters) :
    /\ i < j
    /\ p \in {<<spec.clusters[i], spec.clusters[j]>>, <<spec.clusters[j], spec.clusters[i]>>}
    /\ \/ After(i, j)
       \/ i = at[1] /\ j = at[2] /\ gwpc \notin {"client", "certs"}
       \/ i = at[1] /\ j = at[2] /\ gwpc = "client" /\ p = Peer(ServerPair)

StillAhead(p) == pc \in {"cleanUpSlices", "apply"} \/ (pc = "gateways" /\ Coming(p))

(* Who sees to p: the slice's next reconcile or the present one, the       *)
(* reconcile of the gateway while there is one, or the one that has let it *)
(* or its peer go and is going to tell the slice, if the slice has not     *)
(* been written, and queued, in between.                                   *)
Attended(p) ==
  \/ sliceQueue \/ StillAhead(p) \/ GwExists(p)
  \/ gpc \in {"secret", "pair"} /\ gcur = p
  \/ HoldsSlice /\ ~stale /\ gcur \in {p, Peer(p)}

Attendance == \A p \in WantedPairs : Attended(p)

DeletingQueued == \A p \in Pairs : gw[p].state = "deleting" => p \in gwQueue

StaleHolds == stale => HoldsSlice

NoGwFault == errors = 0 /\ forcedGw = 0

ConnectInv == StaleHolds /\ (NoGwFault => DeletingQueued /\ Attendance)

(* A step that does not queue the slice, and leaves it live, leaves it     *)
(* alone; the reconcile stays where it is or goes on.                      *)
GoesOn ==
  \/ ~sliceQueue /\ UNCHANGED <<pc, spec>>
  \/ pc' \in {"cleanUpSlices", "apply"}
  \/ ~sliceQueue /\ pc = "apply" /\ pc' = "gateways" /\ UNCHANGED spec
  \/ ~sliceQueue /\ pc = "apply" /\ spec.mode = NoNet

LEMMA QuietBaseStep ==
  ASSUME TypeOK, OrphanInv, ~sliceQueue', slice'.phase = "live",
         User \/ Worker \/ Time \/ WscPart \/ WscReconciler
  PROVE  UNCHANGED slice /\ ~SliceWritten /\ GoesOn
<1> USE DEF queueVars, localVars, workerVars, boundVars
<1>1. ASSUME UNCHANGED <<slice, edits>>, wpc # "forced" \/ wpc' # "idle" PROVE ~SliceWritten
  BY <1>1 DEF SliceWritten
<1>2. CASE User
  <2>1. ASSUME NEW l \in ClusterLists, NEW m \in Modes, CreateSliceConfig(l, m) \/ UpdateSliceConfig(l, m)
        PROVE  FALSE
    BY <2>1 DEF CreateSliceConfig, UpdateSliceConfig
  <2>2. ~DeleteSliceConfig
    BY DEF DeleteSliceConfig, TypeOK, SliceType
  <2>3. ASSUME NEW c \in Cluster, ForceDelete(c) PROVE UNCHANGED slice /\ ~SliceWritten /\ GoesOn
    BY <1>1, <2>3 DEF ForceDelete, GoesOn
  <2> QED BY <1>2, <2>1, <2>2, <2>3 DEF User
<1>3. CASE Worker \/ Time
  <2>1. ASSUME NEW c \in Cluster,
               WorkerAdopts(c) \/ WorkerReleases(c) \/ GraceExpires(c) \/ TimerFires(c)
        PROVE  UNCHANGED <<slice, edits, wpc, pc, spec, sliceQueue>>
    BY <2>1 DEF WorkerAdopts, WorkerReleases, GraceExpires, TimerFires
  <2> QED BY <1>1, <1>3, <2>1 DEF Worker, Time, GoesOn
<1>4. CASE WscReconciler
  <2>1. CASE RecreateForced
    <3>1. ~sliceQueue /\ ~(slice.phase = "live" /\ cur \in Range(slice.clusters))
      BY <2>1, Zenon DEF RecreateForced
    <3>2. UNCHANGED <<slice, edits, pc, spec>>
      BY <2>1 DEF RecreateForced
    <3> QED BY <3>1, <3>2 DEF SliceWritten, GoesOn
  <2>2. CASE CopySpec
    BY <1>1, <2>2 DEF CopySpec, GoesOn
  <2>3. ASSUME NEW c \in Cluster, WscStart(c)
        PROVE  wpc = "idle" /\ UNCHANGED <<slice, edits, pc, spec, sliceQueue>>
    BY <2>3 DEF WscStart, ReconcileWscAbsent, ReconcileWscLive, ReconcileWscWaits,
                RemoveWorkerFinalizers
  <2> QED BY <1>1, <1>4, <2>1, <2>2, <2>3 DEF WscReconciler, WscFinish, GoesOn
<1>5. CASE WscPart
  <2>1. ASSUME NEW c \in Cluster, CleanUpSlices(c) \/ DeleteWorkerSliceConfig(c)
        PROVE  UNCHANGED slice /\ ~SliceWritten /\ GoesOn
    BY <1>1, <2>1 DEF CleanUpSlices, DeleteWorkerSliceConfig, AbortReconcile, GoesOn
  <2>2. ~ReconcileAbsent /\ ~ReconcileDeleting /\ ~RemoveSliceFinalizer
    BY DEF ReconcileAbsent, ReconcileDeleting, RemoveSliceFinalizer, TypeOK, SliceType
  <2>3. CASE ReconcileLive
    <3>1. slice' = slice
      <4>1. slice.finalizer = TRUE
        BY <2>3 DEF ReconcileLive, TypeOK, SliceType
      <4> QED BY <2>3, <4>1 DEF ReconcileLive, TypeOK, SliceType
    <3> QED BY <1>1, <2>3, <3>1 DEF ReconcileLive, GoesOn
  <2>4. CASE PlanOctets \/ ApplyCluster \/ WscsApplied
    BY <1>1, <2>4 DEF PlanOctets, ApplyCluster, WscsApplied, AbortReconcile, EndReconcile, GoesOn
  <2> QED BY <1>5, <2>1, <2>2, <2>3, <2>4 DEF WscPart
<1> QED BY <1>2, <1>3, <1>4, <1>5

(* At the first positions everything is still to come.                     *)
LEMMA AllComing ==
  ASSUME TypeOK', at' = <<1, 2>>, gwpc' \notin {"client", "certs"}, NEW p \in Pairs,
         p[1] \in Range(spec'.clusters), p[2] \in Range(spec'.clusters)
  PROVE  Coming(p)'
<1> DEFINE l == spec'.clusters
<1>1. l \in Seq(Cluster) /\ Len(l) \in Nat
  BY ListsAreLists DEF TypeOK, ReconcilerType, Lists
<1>2. PICK i \in 1 .. Len(l) : l[i] = p[1]
  BY <1>1 DEF Range
<1>3. PICK j \in 1 .. Len(l) : l[j] = p[2]
  BY <1>1 DEF Range
<1>4. p = <<p[1], p[2]>> /\ i # j
  BY <1>2, <1>3 DEF Pairs
<1>5. \A a, b \in 1 .. Len(l) : a < b => After(a, b)' \/ (a = at'[1] /\ b = at'[2])
  BY <1>1 DEF After
<1>6. i < j \/ j < i
  BY <1>1, <1>4
<1> QED BY <1>2, <1>3, <1>4, <1>5, <1>6 DEF Coming

(* A pair that is wanted stays wanted while the slice is left alone.       *)
LEMMA WantedBefore ==
  ASSUME UNCHANGED slice, NEW p \in WantedPairs' PROVE p \in WantedPairs
BY DEF WantedPairs

LEMMA WantedIsListed ==
  ASSUME NEW p \in WantedPairs
  PROVE  /\ p \in Pairs /\ slice.phase = "live" /\ slice.mode # NoNet
         /\ p[1] \in Range(slice.clusters) /\ p[2] \in Range(slice.clusters)
         /\ Peer(p) \in WantedPairs
BY PeerIsPair DEF WantedPairs, Net, NoNet, Peer

(* The gateway part is where it was, the gateway is still there if it was, *)
(* and the gateway reconciler is where it was.                             *)
LEMMA AttendedKept ==
  ASSUME NEW p \in Pairs, Attended(p), sliceQueue => sliceQueue',
         StillAhead(p) => StillAhead(p)' \/ GwExists(p)', GwExists(p) => GwExists(p)',
         UNCHANGED <<gpc, gcur>>, HoldsSlice /\ ~stale => ~stale'
  PROVE  Attended(p)'
BY DEF Attended, HoldsSlice

LEMMA StillAheadKept ==
  ASSUME NEW p \in Pairs, StillAhead(p), UNCHANGED <<pc, spec, at, gwpc>> PROVE StillAhead(p)'
BY DEF StillAhead, Coming, After, ServerPair, Peer

(* The steps of the base module.                                           *)
LEMMA AttendedBase ==
  ASSUME BaseInv, BaseInv', SpecCurrent, GwInv, GwInv', Attendance, ~sliceQueue',
         User \/ Worker \/ Time \/ WscPart \/ WscReconciler, UNCHANGED gwVars,
         stale' = (HoldsSlice' /\ (stale \/ (HoldsSlice /\ SliceWritten))),
         NEW p \in WantedPairs'
  PROVE  Attended(p)'
<1>1. slice'.phase = "live"
  BY DEF WantedPairs
<1>2. UNCHANGED slice /\ ~SliceWritten /\ GoesOn
  BY <1>1, QuietBaseStep DEF BaseInv
<1>3. p \in WantedPairs /\ p \in Pairs /\ Attended(p)
  BY <1>2, WantedBefore, WantedIsListed DEF Attendance
<1>4. UNCHANGED <<gw, gwpc, at, gpc, gcur>>
  BY DEF gwVars
<1>5. HoldsSlice /\ ~stale => ~stale'
  BY <1>2
<1>6. CASE ~sliceQueue /\ UNCHANGED <<pc, spec>>
  <2>1. StillAhead(p) => StillAhead(p)'
    BY <1>3, <1>4, <1>6, StillAheadKept
  <2> QED BY <1>3, <1>4, <1>5, <1>6, <2>1, AttendedKept DEF GwExists
<1>7. CASE pc' \in {"cleanUpSlices", "apply"}
  BY <1>7 DEF Attended, StillAhead
<1>8. CASE ~sliceQueue /\ pc = "apply" /\ pc' = "gateways" /\ UNCHANGED spec
  <2>1. spec'.clusters = slice'.clusters
    BY <1>1, <1>2, <1>8 DEF SpecCurrent
  <2>2. p[1] \in Range(spec'.clusters) /\ p[2] \in Range(spec'.clusters)
    BY <2>1, <1>3, WantedIsListed, <1>2
  <2>3. gwpc' = "none" /\ at' = <<1, 2>>
    BY <1>4, <1>8 DEF GwInv, GwPlaced, GwPartPlaced, PairsPlaced, GwLocalsType
  <2>4. Coming(p)'
    BY <1>3, <2>2, <2>3, AllComing DEF BaseInv
  <2> QED BY <1>8, <2>4 DEF Attended, StillAhead
<1>9. CASE ~sliceQueue /\ pc = "apply" /\ spec.mode = NoNet
  <2>1. slice.mode = NoNet
    BY <1>1, <1>2, <1>9 DEF SpecCurrent
  <2> QED BY <1>3, <2>1, WantedIsListed
<1> QED BY <1>2, <1>6, <1>7, <1>8, <1>9 DEF GoesOn

(* The gateway part of the reconcile.  The next pair of positions comes    *)
(* right after the present one.                                            *)
LEMMA NextPairCovers ==
  ASSUME TypeOK, GwLocalsType, PairsPlaced, PairsLeft, at' = NextPair, UNCHANGED spec,
         NEW i \in 1 .. Len(spec.clusters), NEW j \in 1 .. Len(spec.clusters), i < j, After(i, j)
  PROVE  After(i, j)' \/ (i = at'[1] /\ j = at'[2])
<1>1. Len(spec.clusters) \in Nat /\ at[1] \in Nat /\ at[2] \in Nat
  BY ListsAreLists DEF TypeOK, ReconcilerType, Lists, GwLocalsType
<1>2. CASE at[2] < Len(spec.clusters)
  <2>1. at'[1] = at[1] /\ at'[2] = at[2] + 1
    BY <1>2 DEF NextPair
  <2> QED BY <1>1, <2>1 DEF After
<1>3. CASE ~(at[2] < Len(spec.clusters))
  <2>1. at'[1] = at[1] + 1 /\ at'[2] = at[1] + 2
    BY <1>3 DEF NextPair
  <2> QED BY <1>1, <1>3, <2>1 DEF After, PairsPlaced
<1> QED BY <1>2, <1>3

(* When the gateway part leaves a pair of positions, both gateways exist   *)
(* or are not its business any more.                                       *)
LEMMA ComingNext ==
  ASSUME TypeOK, GwLocalsType, PairsPlaced, PairsLeft, at' = NextPair, UNCHANGED spec,
         gwpc' = "pairs", NEW p \in Pairs, Coming(p),
         gwpc = "certs" \/ (GwExists(ServerPair) /\ GwExists(Peer(ServerPair)))
  PROVE  Coming(p)' \/ GwExists(p)
<1>1. PICK i \in 1 .. Len(spec.clusters), j \in 1 .. Len(spec.clusters) :
        /\ i < j
        /\ p \in {<<spec.clusters[i], spec.clusters[j]>>, <<spec.clusters[j], spec.clusters[i]>>}
        /\ \/ After(i, j)
           \/ i = at[1] /\ j = at[2] /\ gwpc \notin {"client", "certs"}
           \/ i = at[1] /\ j = at[2] /\ gwpc = "client" /\ p = Peer(ServerPair)
  BY DEF Coming
<1>2. CASE After(i, j)
  <2>1. After(i, j)' \/ (i = at'[1] /\ j = at'[2])
    BY <1>1, <1>2, NextPairCovers
  <2>2. i \in 1 .. Len(spec'.clusters) /\ j \in 1 .. Len(spec'.clusters)
    OBVIOUS
  <2> QED BY <1>1, <2>1, <2>2 DEF Coming
<1>3. CASE i = at[1] /\ j = at[2] /\ gwpc # "certs"
  <2>1. p \in {ServerPair, Peer(ServerPair)}
    BY <1>1, <1>3 DEF ServerPair, Peer
  <2> QED BY <1>3, <2>1
<1> QED BY <1>1, <1>2, <1>3

LEMMA NotWritten == ASSUME UNCHANGED <<slice, edits, wpc>> PROVE ~SliceWritten
BY DEF SliceWritten

(* A created gateway exists, and no other one is touched.                  *)
LEMMA Created ==
  ASSUME GwInv, NEW p \in Pairs, NEW host, NEW number, CreateGateway(p, host, number)
  PROVE  GwExists(p)' /\ (\A q \in Pairs : GwExists(q) => GwExists(q)')
<1>1. gw'[p].state = "live" /\ \A q \in Pairs : q # p => gw'[q] = gw[q]
  BY DEF CreateGateway, GwInv, GwObjectsType
<1> QED BY <1>1 DEF GwExists

(* While the two gateways of a pair of positions are created: what was     *)
(* still to come is, or exists now.                                        *)
LEMMA ComingCreated ==
  ASSUME GwInv, UNCHANGED <<spec, at>>, NEW p \in Pairs, Coming(p),
         \/ gwpc \notin {"client", "certs"} /\ gwpc' = "client" /\ GwExists(ServerPair)'
         \/ gwpc = "client" /\ gwpc' = "certs" /\ GwExists(Peer(ServerPair))'
  PROVE  Coming(p)' \/ GwExists(p)'
<1>1. PICK i \in 1 .. Len(spec.clusters), j \in 1 .. Len(spec.clusters) :
        /\ i < j
        /\ p \in {<<spec.clusters[i], spec.clusters[j]>>, <<spec.clusters[j], spec.clusters[i]>>}
        /\ \/ After(i, j)
           \/ i = at[1] /\ j = at[2] /\ gwpc \notin {"client", "certs"}
           \/ i = at[1] /\ j = at[2] /\ gwpc = "client" /\ p = Peer(ServerPair)
  BY DEF Coming
<1>2. ServerPair' = ServerPair /\ Peer(ServerPair)' = Peer(ServerPair)
  BY DEF ServerPair, Peer
<1>3. ASSUME NEW q, GwExists(q)', p = q PROVE GwExists(p)'
  BY <1>3 DEF GwExists
<1>4. CASE After(i, j)
  <2>1. After(i, j)'
    BY <1>4 DEF After
  <2>2. i \in 1 .. Len(spec'.clusters) /\ j \in 1 .. Len(spec'.clusters)
    OBVIOUS
  <2> QED BY <1>1, <2>1, <2>2 DEF Coming
<1>5. CASE i = at[1] /\ j = at[2] /\ gwpc \notin {"client", "certs"}
  <2>1. gwpc' = "client" /\ GwExists(ServerPair)'
    BY <1>5
  <2>2. CASE p = ServerPair
    BY <2>1, <2>2, <1>2 DEF GwExists
  <2>3. CASE p = Peer(ServerPair)
    <3>1. p = Peer(ServerPair)' /\ i = at'[1] /\ j = at'[2]
      BY <1>2, <1>5, <2>3
    <3>2. i \in 1 .. Len(spec'.clusters) /\ j \in 1 .. Len(spec'.clusters)
      OBVIOUS
    <3> QED BY <1>1, <2>1, <3>1, <3>2 DEF Coming
  <2>4. p \in {ServerPair, Peer(ServerPair)}
    BY <1>1, <1>5 DEF ServerPair, Peer
  <2> QED BY <2>2, <2>3, <2>4
<1>6. CASE gwpc = "client" /\ p = Peer(ServerPair)
  BY <1>2, <1>6 DEF GwExists
<1> QED BY <1>1, <1>4, <1>5, <1>6

LEMMA AttendedPart ==
  ASSUME BaseInv, BaseInv', SpecCurrent, GwInv, Attendance, ~sliceQueue', GwPart,
         stale' = (HoldsSlice' /\ (stale \/ (HoldsSlice /\ SliceWritten))),
         NEW p \in WantedPairs'
  PROVE  Attended(p)'
<1> USE DEF GwInv, GwPlaced
<1>1. ~GwAbort
  BY DEF GwAbort, AbortReconcile
<1>2. UNCHANGED <<slice, edits, wpc, sliceQueue>>
  BY <1>1 DEF GwPart, ListObsoleteGateways, PairExists, CreateServer, CreateClient, GenerateCerts,
              GatewaysDone, ListAllGateways, GatewaysDeleted, DeleteListedGateway, vars, queueVars,
              workerVars, boundVars, ReconcileDone, EndReconcile, ListForDeletion
<1>3. UNCHANGED <<gpc, gcur>>
  BY DEF GwPart, ListObsoleteGateways, PairExists, CreateServer, CreateClient, GenerateCerts,
         GatewaysDone, ListAllGateways, GatewaysDeleted, DeleteListedGateway
<1>4. p \in WantedPairs /\ p \in Pairs /\ Attended(p) /\ slice.phase = "live"
  BY <1>2, WantedBefore, WantedIsListed DEF Attendance
<1>5. HoldsSlice /\ ~stale => ~stale'
  BY <1>2, NotWritten
<1>6. pc # "deleteGateways" /\ gwpc # "delete"
  BY <1>4 DEF BaseInv, OrphanInv, DeletionCovers, GwPartPlaced
<1>7. CreatesPairs => pc = "gateways"
  BY DEF CreatesPairs, GwPartPlaced
<1>8. UNCHANGED vars => UNCHANGED <<pc, spec>>
  BY DEF vars, localVars
<1>9. ASSUME GwExists(p) => GwExists(p)', pc = "gateways", pc' = "gateways",
             Coming(p) => Coming(p)' \/ GwExists(p)'
      PROVE  Attended(p)'
  BY <1>2, <1>3, <1>4, <1>5, <1>9, AttendedKept DEF StillAhead
<1>10. CASE ListObsoleteGateways
  <2>1. /\ gwpc = "none" /\ gwpc' = "cleanup" /\ pc = "gateways"
        /\ UNCHANGED <<pc, spec, at, gw>>
    BY <1>8, <1>10 DEF ListObsoleteGateways
  <2>2. Coming(p) => Coming(p)'
    BY <2>1 DEF Coming, After
  <2> QED BY <1>9, <2>1, <2>2 DEF GwExists
<1>11. CASE PairExists \/ GenerateCerts
  <2>1. /\ pc = "gateways" /\ PairsLeft /\ at' = NextPair /\ gwpc' = "pairs"
        /\ UNCHANGED <<pc, spec, gw>>
        /\ gwpc = "certs" \/ (GwExists(ServerPair) /\ GwExists(Peer(ServerPair)))
    BY <1>7, <1>8, <1>11 DEF PairExists, GenerateCerts, GwPartPlaced, PairsPlaced
  <2>2. Coming(p) => Coming(p)' \/ GwExists(p)
    BY <1>4, <2>1, ComingNext DEF BaseInv
  <2> QED BY <1>9, <2>1, <2>2 DEF GwExists
<1>12. CASE CreateServer \/ CreateClient
  <2>1. pc = "gateways" /\ PairsLeft
    BY <1>7, <1>12 DEF CreateServer, CreateClient, GwPartPlaced, PairsPlaced
  <2>2. ServerPair \in Pairs /\ Peer(ServerPair) \in Pairs
    BY <2>1, ServerPairType, PeerIsPair DEF BaseInv
  <2>3. /\ UNCHANGED <<pc, spec, at>>
        /\ \/ /\ gwpc \notin {"client", "certs"} /\ gwpc' = "client"
              /\ CreateGateway(ServerPair, "Server", gatewayNumber)
           \/ /\ gwpc = "client" /\ gwpc' = "certs"
              /\ CreateGateway(Peer(ServerPair), "Client", gatewayNumber)
    BY <1>1, <1>8, <1>12 DEF CreateServer, CreateClient, CreatesPairs
  <2>4. UNCHANGED ServerPair /\ UNCHANGED Peer(ServerPair)
    BY <2>3 DEF ServerPair, Peer
  <2>5. /\ GwExists(p) => GwExists(p)'
        /\ \/ gwpc \notin {"client", "certs"} /\ gwpc' = "client" /\ GwExists(ServerPair)'
           \/ gwpc = "client" /\ gwpc' = "certs" /\ GwExists(Peer(ServerPair))'
    <3>1. \A q \in Pairs : CreateGateway(q, "Server", gatewayNumber) \/ CreateGateway(q, "Client", gatewayNumber)
            => gw'[q].state # "absent" /\ \A r \in Pairs : GwExists(r) => gw'[r].state # "absent"
      BY Created DEF GwExists
    <3> QED BY <1>4, <2>2, <2>3, <2>4, <3>1 DEF GwExists
  <2>6. Coming(p) => Coming(p)' \/ GwExists(p)'
    BY <1>4, <2>3, <2>5, ComingCreated
  <2> QED BY <1>9, <2>1, <2>3, <2>5, <2>6
<1>13. CASE GatewaysDone
  <2>1. ~Coming(p)
    <3>1. Len(spec.clusters) \in Nat /\ at[1] \in Nat /\ at[2] \in Nat /\ ~(at[1] < Len(spec.clusters))
      BY <1>13, ListsAreLists DEF GatewaysDone, PairsLeft, BaseInv, TypeOK, ReconcilerType, Lists, GwLocalsType
    <3>2. \A i, j \in 1 .. Len(spec.clusters) : i < j => ~(i > at[1]) /\ i # at[1]
      BY <3>1
    <3> QED BY <3>2 DEF Coming, After
  <2>2. ~StillAhead(p) /\ UNCHANGED gw
    BY <1>7, <1>13, <2>1 DEF GatewaysDone, StillAhead
  <2> QED BY <1>2, <1>3, <1>4, <1>5, <2>2, AttendedKept DEF GwExists
<1>14. ASSUME NEW q \in Pairs, DeleteListedGateway(q) PROVE Attended(p)'
  <2>1. gwpc = "cleanup" /\ pc = "gateways" /\ UNCHANGED <<pc, spec, gwpc, at>>
    BY <1>1, <1>6, <1>8, <1>14 DEF DeleteListedGateway, GwPartPlaced
  <2>2. CASE sliceQueue
    BY <1>2, <2>2
  <2>3. CASE ~sliceQueue
    <3>1. p[1] \in Range(spec'.clusters) /\ p[2] \in Range(spec'.clusters)
      BY <1>4, <2>1, <2>3, WantedIsListed DEF SpecCurrent
    <3>2. Coming(p)'
      BY <1>4, <2>1, <3>1, AllComing DEF PairsPlaced, BaseInv
    <3> QED BY <2>1, <3>2 DEF Attended, StillAhead
  <2> QED BY <2>2, <2>3
<1>15. ~ListAllGateways /\ ~GatewaysDeleted
  BY <1>6 DEF ListAllGateways, GatewaysDeleted
<1> QED BY <1>10, <1>11, <1>12, <1>13, <1>14, <1>15 DEF GwPart

(* The gateway reconciler and the certificate job.                         *)
LEMMA AttendedReconciler ==
  ASSUME BaseInv, GwInv, StaleHolds, Attendance, ~sliceQueue',
         GwReconciler \/ \E q \in Pairs : CertJobRuns(q),
         stale' = (HoldsSlice' /\ (stale \/ (HoldsSlice /\ SliceWritten))),
         NEW p \in WantedPairs'
  PROVE  Attended(p)'
<1> USE DEF GwInv, GwPlaced
<1>1. UNCHANGED <<slice, edits, wpc, pc, spec, at, gwpc>> /\ (sliceQueue => sliceQueue')
  <2>1. CASE TouchSlice
    BY <2>1 DEF TouchSlice, localVars, workerVars, boundVars
  <2>2. CASE UNCHANGED <<vars, at, gwpc>>
    BY <2>2 DEF vars, queueVars, localVars, workerVars, boundVars
  <2> QED BY <2>1, <2>2 DEF GwReconciler, DeleteGwSecret, DeletePeer, DeletePeerSecret,
               ReconcileGwAbsent, ReconcileGwLive, RemoveGwFinalizers, CertJobRuns
<1>2. p \in WantedPairs /\ p \in Pairs /\ Attended(p) /\ ~sliceQueue
  BY <1>1, WantedBefore, WantedIsListed DEF Attendance
<1>3. StillAhead(p) => StillAhead(p)'
  BY <1>1, <1>2, StillAheadKept
<1>4. stale' <=> HoldsSlice' /\ stale
  BY <1>1, NotWritten DEF StaleHolds, GwLocalsType
<1>5. ASSUME GwExists(p) => GwExists(p)', UNCHANGED <<gpc, gcur>> PROVE Attended(p)'
  BY <1>1, <1>2, <1>3, <1>4, <1>5, AttendedKept
<1>6. CASE (\E q \in Pairs : CertJobRuns(q) \/ ReconcileGwAbsent(q))
  BY <1>5, <1>6 DEF CertJobRuns, ReconcileGwAbsent, GwExists
<1>7. ASSUME NEW q \in Pairs, ReconcileGwLive(q) PROVE Attended(p)'
  <2>1. gw' = [gw EXCEPT ![q] = [@ EXCEPT !.finalizer = TRUE]] /\ gw[q] \in GwRecord
    BY <1>7 DEF ReconcileGwLive, GwObjectsType
  <2>2. gw'[q].state = gw[q].state /\ \A r \in Pairs : r # q => gw'[r] = gw[r]
    BY <2>1 DEF GwRecord, GwObjectsType
  <2> QED BY <1>2, <1>5, <1>7, <2>2 DEF ReconcileGwLive, GwExists
<1>8. ASSUME NEW q \in Pairs, RemoveGwFinalizers(q) PROVE Attended(p)'
  <2>1. gpc = "idle" /\ gpc' = "secret" /\ gcur' = q
    BY <1>8 DEF RemoveGwFinalizers
  <2>2. CASE p = q
    BY <2>1, <2>2 DEF Attended
  <2>3. CASE p # q
    <3>1. gw'[p] = gw[p]
      BY <1>2, <1>8, <2>3 DEF RemoveGwFinalizers, GwObjectsType
    <3> QED BY <1>2, <1>3, <2>1, <3>1 DEF Attended, GwExists, HoldsSlice
  <2> QED BY <2>2, <2>3
<1>9. CASE DeleteGwSecret
  BY <1>2, <1>3, <1>9 DEF DeleteGwSecret, Attended, GwExists, HoldsSlice
<1>10. CASE DeletePeerSecret
  BY <1>2, <1>3, <1>4, <1>10 DEF DeletePeerSecret, Attended, GwExists, HoldsSlice
<1>11. CASE TouchSlice
  <2>1. stale
    BY <1>11, Zenon DEF TouchSlice
  <2>2. gpc = "touch" /\ UNCHANGED gw
    BY <1>11 DEF TouchSlice
  <2> QED BY <1>2, <1>3, <2>1, <2>2 DEF Attended, GwExists
<1>12. CASE DeletePeer
  <2>1. gpc = "pair" /\ ~HoldsSlice /\ ~stale /\ ~stale' /\ gcur \in Pairs
    BY <1>4, <1>12 DEF DeletePeer, HoldsSlice, StaleHolds, GwReconcilerPlaced
  <2>2. CASE gcur \in {p, Peer(p)}
    <3>1. DeletedForcefully
      BY <1>2, <2>2, WantedIsListed DEF DeletedForcefully
    <3>2. gpc' \in {"peerSecret", "touch"} /\ UNCHANGED gcur
      BY <1>12, <3>1 DEF DeletePeer
    <3>3. gcur' \in {p, Peer(p)} /\ HoldsSlice'
      BY <2>2, <3>2 DEF HoldsSlice
    <3> QED BY <2>1, <3>3 DEF Attended, Peer
  <2>3. CASE gcur \notin {p, Peer(p)}
    <3>1. p # Peer(gcur) /\ Peer(gcur) \in Pairs
      BY <1>2, <2>1, <2>3, PeerIsPair DEF Peer, Pairs
    <3>2. GwExists(p) => GwExists(p)'
      BY <1>2, <1>12, <3>1 DEF DeletePeer, DeleteGateway, GwExists, GwObjectsType
    <3> QED BY <1>2, <1>3, <2>1, <2>3, <3>2 DEF Attended
  <2> QED BY <2>2, <2>3
<1> QED BY <1>6, <1>7, <1>8, <1>9, <1>10, <1>11, <1>12 DEF GwReconciler

(* A gateway being deleted is queued until its reconcile begins.           *)
LEMMA DeleteQueues ==
  ASSUME GwInv, DeletingQueued, NEW p \in Pairs, GwExists(p), DeleteGateway(p)
  PROVE  DeletingQueued'
<1>1. gw[p].state \in {"live", "deleting"} /\ gwQueue \subseteq gwQueue'
  BY DEF GwExists, DeleteGateway, GwInv, GwObjectsType, GwRecord
<1>2. \A q \in Pairs : q # p => gw'[q] = gw[q]
  BY DEF DeleteGateway, GwInv, GwObjectsType
<1>3. p \in gwQueue'
  BY <1>1 DEF DeleteGateway, DeletingQueued
<1> QED BY <1>1, <1>2, <1>3 DEF DeletingQueued

LEMMA DeletingQueuedStep ==
  ASSUME GwInv, BaseInv, DeletingQueued,
         \/ UNCHANGED <<gw, gwQueue>> \/ GwPart \/ GwReconciler
         \/ gwQueue' = GwListed /\ UNCHANGED gw
  PROVE  DeletingQueued'
<1>1. ASSUME UNCHANGED gw, gwQueue \subseteq gwQueue' PROVE DeletingQueued'
  BY <1>1 DEF DeletingQueued
<1>2. CASE gwQueue' = GwListed /\ UNCHANGED gw
  BY <1>2 DEF DeletingQueued, GwListed, GwExists
<1>3. CASE GwPart
  <2>1. ASSUME NEW q \in Pairs, NEW host, NEW number, CreateGateway(q, host, number)
        PROVE  DeletingQueued'
    <3>1. gw'[q].state = "live" /\ \A r \in Pairs : r # q => gw'[r] = gw[r]
      BY <2>1 DEF CreateGateway, GwInv, GwObjectsType
    <3>2. gwQueue \subseteq gwQueue'
      BY <2>1 DEF CreateGateway
    <3> QED BY <3>1, <3>2 DEF DeletingQueued
  <2>2. CASE CreateServer \/ CreateClient
    <3>1. pc = "gateways" /\ PairsLeft
      BY <2>2 DEF CreateServer, CreateClient, CreatesPairs, GwInv, GwPlaced, GwPartPlaced, PairsPlaced
    <3>2. ServerPair \in Pairs /\ Peer(ServerPair) \in Pairs
      BY <3>1, ServerPairType, PeerIsPair DEF BaseInv, GwInv, GwPlaced
    <3> QED BY <1>1, <2>1, <2>2, <3>2 DEF CreateServer, CreateClient
  <2>3. ASSUME NEW q \in Pairs, DeleteListedGateway(q) PROVE DeletingQueued'
    BY <1>1, <2>3, DeleteQueues DEF DeleteListedGateway
  <2> QED BY <1>1, <1>3, <2>2, <2>3 DEF GwPart, ListObsoleteGateways, PairExists, GenerateCerts,
       GatewaysDone, ListAllGateways, GatewaysDeleted
<1>4. CASE GwReconciler
  <2>1. CASE DeletePeer
    <3>1. Peer(gcur) \in Pairs
      BY <2>1, PeerIsPair DEF DeletePeer, GwInv, GwPlaced, GwReconcilerPlaced
    <3> QED BY <1>1, <2>1, <3>1, DeleteQueues DEF DeletePeer
  <2>2. ASSUME NEW q \in Pairs, ReconcileGwAbsent(q) \/ ReconcileGwLive(q) \/ RemoveGwFinalizers(q)
        PROVE  DeletingQueued'
    <3>1. gw'[q].state # "deleting"
      <4>1. [gw[q] EXCEPT !.finalizer = TRUE].state = gw[q].state /\ NoGateway.state = "absent"
        BY DEF NoGateway, GwInv, GwObjectsType, GwRecord
      <4> QED BY <2>2, <4>1 DEF ReconcileGwAbsent, ReconcileGwLive, RemoveGwFinalizers, GwExists,
                                GwInv, GwObjectsType
    <3>2. \A r \in Pairs : r # q => gw'[r] = gw[r] /\ (r \in gwQueue => r \in gwQueue')
      BY <2>2 DEF ReconcileGwAbsent, ReconcileGwLive, RemoveGwFinalizers, GwInv, GwObjectsType
    <3> QED BY <3>1, <3>2 DEF DeletingQueued
  <2> QED BY <1>1, <1>4, <2>1, <2>2 DEF GwReconciler, DeleteGwSecret, DeletePeerSecret, TouchSlice
<1> QED BY <1>1, <1>2, <1>3, <1>4

(* What a step is when no call fails and nobody deletes a gateway by hand. *)
Orderly ==
  \/ (User \/ Worker \/ Time \/ WscPart \/ WscReconciler) /\ UNCHANGED gwVars
  \/ GwPart \/ GwReconciler \/ \E q \in Pairs : CertJobRuns(q)

Restart == Crash /\ gwQueue' = GwListed /\ UNCHANGED <<gw, forcedGw>>

LEMMA OrderlyStep ==
  ASSUME TypeOK, GwInv, GNext, NoGwFault' PROVE Orderly \/ Restart
<1>1. errors \in Nat /\ forcedGw \in Nat /\ errors' = 0 /\ forcedGw' = 0
  BY DEF TypeOK, BoundsType, GwInv, GwLocalsType, NoGwFault
<1>2. ~(\/ ReconcileFails \/ ReconcileWscFails \/ GwReconcileFails
        \/ (\E c \in Cluster : RemoveWorkerFinalizersFails(c))
        \/ (\E p \in Pairs : RemoveGwFinalizersFails(p) \/ ForceDeleteGateway(p)))
  BY <1>1 DEF ReconcileFails, ReconcileWscFails, GwReconcileFails, RemoveWorkerFinalizersFails,
              RemoveGwFinalizersFails, ForceDeleteGateway
<1>3. WscPart \/ WscReconciler => UNCHANGED gwVars
  BY DEF WscPart, WscReconciler
<1> QED BY <1>2, <1>3 DEF GNext, GFault, Orderly, Restart

(* The count of failed calls stands in the base module, the other one here.*)
LEMMA NothingForgivenHere ==
  ASSUME TypeOK, [GNext]_gvars, GwInv, NoGwFault' PROVE NoGwFault
<1> USE DEF NoGwFault
<1>1. CASE UNCHANGED gvars
  BY <1>1 DEF gvars, gwVars, vars, boundVars
<1>2. CASE Restart
  BY <1>2 DEF Restart, Crash
<1>3. CASE GwPart \/ GwReconciler \/ \E q \in Pairs : CertJobRuns(q)
  <2>1. UNCHANGED forcedGw
    BY <1>3 DEF GwPart, ListObsoleteGateways, PairExists, CreateServer, CreateClient, GenerateCerts,
       GatewaysDone, ListAllGateways, GatewaysDeleted, DeleteListedGateway, GwReconciler,
       DeleteGwSecret, DeletePeer, DeletePeerSecret, TouchSlice, ReconcileGwAbsent, ReconcileGwLive,
       RemoveGwFinalizers, CertJobRuns
  <2>2. UNCHANGED errors
    <3>1. UNCHANGED vars \/ UNCHANGED boundVars => UNCHANGED errors
      BY DEF vars, boundVars
    <3> QED BY <1>3, <3>1 DEF GwPart, ListObsoleteGateways, PairExists, CreateServer, CreateClient,
       GenerateCerts, GatewaysDone, ListAllGateways, GatewaysDeleted, DeleteListedGateway, baseRest,
       ReconcileDone, ListForDeletion, GwReconciler, DeleteGwSecret, DeletePeer, DeletePeerSecret,
       TouchSlice, ReconcileGwAbsent, ReconcileGwLive, RemoveGwFinalizers, CertJobRuns
  <2> QED BY <2>1, <2>2
<1>4. CASE (User \/ Worker \/ Time \/ WscPart \/ WscReconciler) /\ UNCHANGED gwVars
  <2>1. UNCHANGED forcedGw
    BY <1>4 DEF gwVars
  <2>2. UNCHANGED errors
    <3> USE DEF boundVars
    <3>1. CASE User
      BY <3>1 DEF User, CreateSliceConfig, UpdateSliceConfig, DeleteSliceConfig, ForceDelete
    <3>2. CASE Worker \/ Time
      BY <3>2 DEF Worker, WorkerAdopts, WorkerReleases, Time, GraceExpires, TimerFires
    <3>3. CASE WscPart
      BY <3>3 DEF WscPart, ReconcileAbsent, ReconcileLive, PlanOctets, ApplyCluster, WscsApplied,
         ReconcileDeleting, RemoveSliceFinalizer, CleanUpSlices, DeleteWorkerSliceConfig
    <3>4. CASE WscReconciler
      BY <3>4 DEF WscReconciler, WscFinish, CopySpec, RecreateForced, WscStart, ReconcileWscAbsent,
         ReconcileWscLive, ReconcileWscWaits, RemoveWorkerFinalizers
    <3> QED BY <1>4, <3>1, <3>2, <3>3, <3>4
  <2> QED BY <2>1, <2>2
<1> QED BY <1>1, <1>2, <1>3, <1>4, OrderlyStep DEF Orderly

LEMMA ConnectStep ==
  ASSUME BaseInv, BaseInv', SpecCurrent, GwInv, GwInv', ConnectInv, [GNext]_gvars
  PROVE  ConnectInv'
<1>1. CASE UNCHANGED gvars
  <2>1. UNCHANGED <<slice, sliceQueue, pc, spec, errors, gw, gwQueue, gwpc, at, gpc, gcur, stale, forcedGw>>
    BY <1>1 DEF gvars, gwVars, vars, queueVars, localVars, boundVars
  <2>2. \A p \in Pairs : StillAhead(p) => StillAhead(p)'
    BY <2>1, StillAheadKept
  <2>3. \A p \in Pairs : Attended(p) => Attended(p)'
    BY <2>1, <2>2 DEF Attended, GwExists, HoldsSlice
  <2>4. \A p \in WantedPairs' : p \in WantedPairs /\ p \in Pairs
    BY <2>1, WantedBefore, WantedIsListed
  <2>5. Attendance => Attendance'
    BY <2>3, <2>4 DEF Attendance
  <2> QED BY <2>1, <2>5 DEF ConnectInv, StaleHolds, HoldsSlice, NoGwFault, DeletingQueued
<1>2. CASE GNext
  <2>1. stale' = (HoldsSlice' /\ (stale \/ (HoldsSlice /\ SliceWritten)))
    BY <1>2 DEF GNext
  <2>2. StaleHolds'
    BY <2>1 DEF StaleHolds
  <2>3. ASSUME NoGwFault' PROVE DeletingQueued' /\ Attendance'
    <3>1. StaleHolds /\ DeletingQueued /\ Attendance
      BY <1>2, <2>3, NothingForgivenHere DEF ConnectInv, BaseInv
    <3>2. Orderly \/ Restart
      BY <1>2, <2>3, OrderlyStep DEF BaseInv
    <3>3. DeletingQueued'
      <4>1. UNCHANGED gwVars => UNCHANGED <<gw, gwQueue>>
        BY DEF gwVars
      <4> QED BY <3>1, <3>2, <4>1, DeletingQueuedStep DEF Orderly, Restart, CertJobRuns
    <3>4. ASSUME NEW p \in WantedPairs' PROVE Attended(p)'
      <4>1. CASE sliceQueue' = TRUE
        BY <4>1 DEF Attended
      <4>2. CASE ~sliceQueue'
        <5>1. ~Restart
          BY <4>2 DEF Restart, Crash, WantedPairs
        <5> QED BY <2>1, <3>1, <3>2, <4>2, <5>1, AttendedBase, AttendedPart, AttendedReconciler DEF Orderly
      <4> QED BY <4>1, <4>2 DEF BaseInv, TypeOK, QueuesType
    <3> QED BY <3>3, <3>4 DEF Attendance
  <2> QED BY <2>2, <2>3 DEF ConnectInv
<1> QED BY <1>1, <1>2

LEMMA ConnectInvariant == GSpec => [](BaseInv /\ GwInv /\ ConnectInv)
<1> DEFINE Inv == BaseInv /\ GwInv
<1>1. GInit => SpecCurrent /\ ConnectInv
  <2> SUFFICES ASSUME GInit PROVE SpecCurrent /\ ConnectInv
    OBVIOUS
  <2>1. WantedPairs = {}
    BY DEF GInit, Init, WantedPairs
  <2>2. \A p \in Pairs : gw[p].state # "deleting"
    BY DEF GInit, NoGateway
  <2>3. SpecCurrent
    BY DEF GInit, Init, SpecCurrent
  <2> QED BY <2>1, <2>2, <2>3 DEF GInit, ConnectInv, StaleHolds, DeletingQueued, Attendance
<1>2. Inv /\ Inv' /\ SpecCurrent /\ ConnectInv /\ [GNext]_gvars => (SpecCurrent /\ ConnectInv)'
  BY ConnectStep, SpecCurrentStep
<1> QED BY <1>1, <1>2, GwInvariant, PTL DEF GSpec

LEMMA RestHasGateways ==
  ASSUME GwInv, ConnectInv, NoGwFault, Quiet, NEW p \in WantedPairs
  PROVE  gw[p].state = "live"
<1>1. p \in Pairs
  BY WantedIsListed
<1>2. GwExists(p)
  BY DEF Quiet, AtRest, ConnectInv, Attendance, Attended, StillAhead, HoldsSlice
<1> QED BY <1>1, <1>2 DEF GwExists, Quiet, ConnectInv, DeletingQueued, GwInv, GwObjectsType, GwRecord

(* When the three reconcilers have come to rest, with no call having failed*)
(* and no gateway deleted by hand, every two clusters of the slice have    *)
(* both gateways, whatever lists the user has written and whatever workers,*)
(* restarts and deletions of WorkerSliceConfigs by hand did in between:    *)
(* whoever lets a gateway go that is wanted tells the slice, or the slice  *)
(* has been written, and thereby queued, since its reconcile had read it.  *)
THEOREM QuietHasGateways ==
  GSpec => [](errors = 0 /\ forcedGw = 0 /\ Quiet => \A p \in WantedPairs : gw[p].state = "live")
<1>1. GwInv /\ ConnectInv =>
        (errors = 0 /\ forcedGw = 0 /\ Quiet => \A p \in WantedPairs : gw[p].state = "live")
  BY RestHasGateways DEF NoGwFault
<1> QED BY <1>1, ConnectInvariant, PTL

(* What the gateways carry at rest is what the positions of their clusters *)
(* give them, and so are the octets of the WorkerSliceConfigs.             *)
LEMMA RestIsConnected ==
  ASSUME Ordered, TypeOK, GwInv, PlaceInv, ConnectInv, QuietIsSettled,
         errors = 0, forced = 0, forcedGw = 0, Quiet
  PROVE  Connected
<1>1. Settled
  BY DEF QuietIsSettled, Quiet
<1>2. ASSUME NEW p \in WantedPairs
      PROVE  /\ gw[p].state = "live"
             /\ gw[p].net[1] = octet[p[1]] /\ gw[p].net[2] = octet[p[2]]
             /\ gw[p].host = IF gw[p].net[1] < gw[p].net[2] THEN "Server" ELSE "Client"
             /\ gw[p].net[1] \in Nat /\ gw[p].net[2] \in Nat /\ gw[p].net[1] # gw[p].net[2]
  <2>1. p \in Pairs /\ p[1] \in Cluster /\ p[2] \in Cluster /\ p[1] # p[2]
    BY WantedIsListed DEF Pairs
  <2>2. gw[p].state = "live" /\ GwExists(p)
    BY RestHasGateways DEF NoGwFault, GwExists
  <2>3. octet[p[1]] # NoOctet /\ octet[p[2]] # NoOctet
    BY <1>1, <2>1 DEF Settled, WantedPairs
  <2>4. AtPlace(p[1], octet[p[1]]) /\ AtPlace(p[2], octet[p[2]])
    BY <2>1, <2>3 DEF PlaceInv, InPlace
  <2>5. /\ AtPlace(p[1], gw[p].net[1]) /\ AtPlace(p[2], gw[p].net[2])
        /\ gw[p].host = IF gw[p].net[1] < gw[p].net[2] THEN "Server" ELSE "Client"
    BY <2>1, <2>2 DEF PlaceInv, GwInPlace
  <2>6. /\ gw[p].net[1] = octet[p[1]] /\ gw[p].net[2] = octet[p[2]]
        /\ gw[p].net[1] \in Nat /\ gw[p].net[2] \in Nat /\ gw[p].net[1] # gw[p].net[2]
    BY <2>1, <2>4, <2>5, OnePlace
  <2> QED BY <2>2, <2>5, <2>6
<1>3. ASSUME NEW p \in WantedPairs
      PROVE  /\ gw[p].net = <<octet[p[1]], octet[p[2]]>>
             /\ (gw[p].host = "Server") = (gw[Peer(p)].host = "Client")
  <2>1. gw[p].net = <<gw[p].net[1], gw[p].net[2]>>
    <3>1. gw[p].net \in (Nat \cup {NoOctet}) \X (Nat \cup {NoOctet})
      BY WantedIsListed DEF GwInv, GwObjectsType, GwRecord
    <3>2. \A S : \A t \in S \X S : t = <<t[1], t[2]>>
      OBVIOUS
    <3> QED BY <3>1, <3>2
  <2>2. Peer(p) \in WantedPairs /\ Peer(p)[1] = p[2] /\ Peer(p)[2] = p[1]
    BY WantedIsListed DEF Peer
  <2>3. gw[p].net[1] < gw[p].net[2] <=> ~(gw[Peer(p)].net[1] < gw[Peer(p)].net[2])
    BY <1>2, <2>2
  <2>4. (gw[p].host = "Server") = (gw[Peer(p)].host = "Client")
    BY <1>2, <2>2, <2>3
  <2> QED BY <1>2, <2>1, <2>4
<1> QED BY <1>2, <1>3 DEF Connected

(* When nobody has deleted WorkerSliceConfigs by hand either, the gateways *)
(* are a server and a client and carry the present subnets, for any number *)
(* of clusters, edits and restarts.  The lists grow and shrink at their    *)
(* end; workers wait for the controller's finalizer.                       *)
THEOREM QuietIsConnectedCorrect ==
  ASSUME Ordered, ~EagerWorkers
  PROVE  GSpec => [](errors = 0 /\ forced = 0 /\ forcedGw = 0 => QuietIsConnected)
<1> DEFINE Inv == BaseInv /\ GwInv /\ PlaceInv
           Rest == BaseInv /\ Scheduled /\ RestInv
<1>1. Inv /\ Rest /\ ConnectInv => (errors = 0 /\ forced = 0 /\ forcedGw = 0 => QuietIsConnected)
  BY RestIsConnected, AtRestSettled DEF BaseInv, QuietIsConnected
<1>2. GSpec => []Inv
  BY PlaceInvariant
<1>3. GSpec => []Rest
  BY RestInvariant
<1> QED BY <1>1, <1>2, <1>3, ConnectInvariant, PTL
=============================================================================
