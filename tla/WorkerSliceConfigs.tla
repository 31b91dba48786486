------------------------- MODULE WorkerSliceConfigs -------------------------
(***************************************************************************)
(* One SliceConfig, the WorkerSliceConfig objects derived from it (at most *)
(* one per cluster), and the two controllers that work on them at the same *)
(* time: the SliceConfig reconciler (service/slice_config_service.go with  *)
(* the helpers of service/worker_slice_config_service.go it calls) and the *)
(* WorkerSliceConfig reconciler (service/worker_slice_config_service.go).  *)
(* The environment is the user, the worker operators of the clusters, the  *)
(* Kubernetes API server (which may refuse a call) and restarts of the     *)
(* controller process.                                                     *)
(*                                                                         *)
(* One step is one API call that matters, together with the computation up *)
(* to the next one.  An Update carries the resourceVersion it was read     *)
(* with: a Get directly followed by its Update is one step, because the    *)
(* Update of an object that changed in between fails and the key is tried  *)
(* again.                                                                  *)
(***************************************************************************)
EXTENDS SliceIpam

CONSTANTS
  Cluster,        \* the registered clusters of the project
  ClusterLists,   \* the cluster lists a user may write into the slice
  MaxClusters,    \* Spec.MaxClusters of the slice
  NoCluster,      \* no cluster
  Workers,        \* the clusters whose worker operator uses a finalizer
  EagerWorkers,   \* whether it may do so before the controller has put its own
  Modes,          \* the overlay modes a user may ask for, a subset of Mode
  MaxEdits,       \* bound: creations, updates and deletions of the slice
  MaxForced,      \* bound: WorkerSliceConfigs deleted by hand
  MaxErrors,      \* bound: API calls that fail
  MaxCrashes,     \* bound: restarts of the controller
  MaxEvents       \* bound: all of these together

NoNet == "no-network"
Net   == "single-network"
Mode  == {NoNet, Net}

(* validateClustersOnCreate / OnUpdate refuse a list with duplicates.      *)
ASSUME ListsAssumption ==
  \A l \in ClusterLists : l \in Seq(Cluster) /\ IsInjective(l)

ASSUME BoundsAssumption ==
  /\ NoCluster \notin Cluster /\ Workers \subseteq Cluster /\ EagerWorkers \in BOOLEAN
  /\ MaxClusters \in Nat
  /\ Modes \subseteq Mode
  /\ MaxEdits \in Nat /\ MaxForced \in Nat /\ MaxErrors \in Nat /\ MaxCrashes \in Nat
  /\ MaxEvents \in Nat

VARIABLES
  slice,       \* the SliceConfig object
  state,       \* state[c]: the WorkerSliceConfig of c is absent, live or deleting
  octet,       \* octet[c]: its Spec.Octet
  finalizers,  \* finalizers[c]: who still holds it
  expired,     \* expired[c]: the grace period of its deletion is over
  copied,      \* copied[c]: its spec is a copy of what the slice says now
  sliceQueue,  \* the SliceConfig key is in the work queue
  wscQueue,    \* the WorkerSliceConfig keys in the work queue
  timers,      \* the WorkerSliceConfig keys with a delayed requeue
  pc,          \* where the SliceConfig reconciler is
  spec,        \* the slice it has read: [clusters, mode]
  todo,        \* the listed objects it has still to delete
  clusterMap,  \* the octets it has computed
  index,       \* the cluster of the list it is at
  lastCreated, \* the last cluster it has created a WorkerSliceConfig for
  wpc,         \* where the WorkerSliceConfig reconciler is
  cur,         \* the cluster of the object it is at
  read,        \* the octet that object had when it was read
  fresh,       \* nobody has written that object since it was read
  got,         \* what its Get of the slice, some time after that, may have found
  edits, forced, errors, crashes

wscVars    == <<state, octet, finalizers, expired, copied>>
queueVars  == <<sliceQueue, wscQueue, timers>>
localVars  == <<spec, todo, clusterMap, index, lastCreated>>
workerVars == <<wpc, cur, read, fresh, got>>
boundVars  == <<edits, forced, errors, crashes>>
vars == <<slice, wscVars, queueVars, pc, localVars, workerVars, boundVars>>

Finalizer == {"controller", "worker"}

NoSpec == [clusters |-> <<>>, mode |-> Net]
NoMap  == [c \in {} |-> 0]

Exists(c) == state[c] # "absent"

(* Faulty variant: the objects being deleted are filtered out.             *)
ListedLive == {c \in Cluster : state[c] = "live"}

Listed == {c \in Cluster : Exists(c)}
-----------------------------------------------------------------------------
Init ==
  /\ slice = [phase |-> "absent", clusters |-> <<>>, mode |-> Net, finalizer |-> FALSE]
  /\ state = [c \in Cluster |-> "absent"]
  /\ octet = [c \in Cluster |-> NoOctet]
  /\ finalizers = [c \in Cluster |-> {}]
  /\ expired = [c \in Cluster |-> FALSE]
  /\ copied = [c \in Cluster |-> FALSE]
  /\ sliceQueue = FALSE /\ wscQueue = {} /\ timers = {}
  /\ pc = "idle" /\ spec = NoSpec /\ todo = {} /\ clusterMap = NoMap
  /\ index = 1 /\ lastCreated = NoCluster
  /\ wpc = "idle" /\ cur = NoCluster /\ read = NoOctet /\ fresh = TRUE /\ got = {}
  /\ edits = 0 /\ forced = 0 /\ errors = 0 /\ crashes = 0
-----------------------------------------------------------------------------
(* The WorkerSliceConfig objects in the API server.                        *)

(* The object of c ceases to exist.                                        *)
Vanish(c) ==
  /\ state' = [state EXCEPT ![c] = "absent"]
  /\ octet' = [octet EXCEPT ![c] = NoOctet]
  /\ finalizers' = [finalizers EXCEPT ![c] = {}]
  /\ expired' = [expired EXCEPT ![c] = FALSE]
  /\ copied' = [copied EXCEPT ![c] = FALSE]

(* A write to the object of c queues its key; a copy of it that the other  *)
(* reconciler has read is then out of date.                                *)
Written(c) ==
  /\ wscQueue' = wscQueue \cup {c}
  /\ fresh' = (fresh /\ cur # c)

(* A Delete call: an object with finalizers is only marked, and marking it *)
(* again changes nothing.                                                  *)
DeleteObject(c) ==
  \/ finalizers[c] = {} /\ Vanish(c) /\ Written(c)
  \/ /\ finalizers[c] # {} /\ state[c] = "live"
     /\ state' = [state EXCEPT ![c] = "deleting"]
     /\ Written(c)
     /\ UNCHANGED <<octet, finalizers, expired, copied>>
  \/ /\ finalizers[c] # {} /\ state[c] = "deleting"
     /\ UNCHANGED <<wscVars, wscQueue, fresh>>
-----------------------------------------------------------------------------
(* The user.  The guards are those of the admission webhooks.              *)

Event == edits + forced + errors + crashes < MaxEvents

(* The slice changes.  A reconcile of an object under way may have read it *)
(* before that (what it found is then "old") or reads it from now on.      *)
Overtaken(now) ==
  /\ got' = IF got = {} THEN {} ELSE {IF g = "now" THEN "old" ELSE g : g \in got} \cup {now}
  /\ UNCHANGED <<wpc, cur, read, fresh>>

(* validateMaxClusterCount                                                 *)
ValidateSliceConfigCreate(clusters) == Len(clusters) <= MaxClusters

(* The count is only looked at outside the no-network mode and when the    *)
(* mode stays the same (preventMaxClusterCountUpdate).                     *)
ValidateSliceConfigUpdate(clusters, mode) ==
  /\ mode # slice.mode => slice.mode = NoNet
  /\ mode # NoNet /\ mode = slice.mode => Len(clusters) <= MaxClusters

CreateSliceConfig(clusters, mode) ==
  /\ slice.phase = "absent" /\ edits < MaxEdits /\ Event
  /\ ValidateSliceConfigCreate(clusters)
  /\ slice' = [phase |-> "live", clusters |-> clusters, mode |-> mode,
               finalizer |-> FALSE]
  /\ copied' = [c \in Cluster |-> FALSE]
  /\ Overtaken("now") /\ edits' = edits + 1
  /\ sliceQueue' = TRUE
  /\ UNCHANGED <<state, octet, finalizers, expired, wscQueue, timers, pc, localVars,
                 forced, errors, crashes>>

UpdateSliceConfig(clusters, mode) ==
  /\ slice.phase = "live" /\ edits < MaxEdits /\ Event
  /\ ValidateSliceConfigUpdate(clusters, mode)
  /\ slice' = [slice EXCEPT !.clusters = clusters, !.mode = mode]
  /\ copied' = [c \in Cluster |-> FALSE]
  /\ Overtaken("now") /\ edits' = edits + 1
  /\ sliceQueue' = TRUE
  /\ UNCHANGED <<state, octet, finalizers, expired, wscQueue, timers, pc, localVars,
                 forced, errors, crashes>>

DeleteSliceConfig ==
  /\ slice.phase = "live" /\ edits < MaxEdits /\ Event
  /\ slice' = [slice EXCEPT !.phase = IF slice.finalizer THEN "deleting" ELSE "absent"]
  /\ IF slice.finalizer THEN UNCHANGED workerVars ELSE Overtaken("absent")
  /\ edits' = edits + 1
  /\ sliceQueue' = TRUE
  /\ UNCHANGED <<wscVars, wscQueue, pc, localVars, forced, errors, crashes, timers>>

(* Somebody deletes the WorkerSliceConfig of c by hand.                    *)
ForceDelete(c) ==
  /\ state[c] = "live" /\ forced < MaxForced /\ Event
  /\ DeleteObject(c)
  /\ forced' = forced + 1
  /\ UNCHANGED <<slice, sliceQueue, pc, localVars, wpc, cur, read, got, edits, errors, crashes, timers>>
-----------------------------------------------------------------------------
(* The worker operator of cluster c puts a finalizer of its own on the     *)
(* object and takes it off when it has cleaned up.                         *)

WorkerAdopts(c) ==
  /\ c \in Workers /\ (EagerWorkers \/ "controller" \in finalizers[c])
  /\ state[c] = "live" /\ "worker" \notin finalizers[c]
  /\ finalizers' = [finalizers EXCEPT ![c] = @ \cup {"worker"}]
  /\ Written(c)
  /\ UNCHANGED <<slice, state, octet, expired, copied, sliceQueue, pc, localVars,
                 wpc, cur, read, got, boundVars, timers>>

WorkerReleases(c) ==
  /\ state[c] = "deleting" /\ "worker" \in finalizers[c]
  /\ IF finalizers[c] = {"worker"}
     THEN Vanish(c)
     ELSE /\ finalizers' = [finalizers EXCEPT ![c] = @ \ {"worker"}]
          /\ UNCHANGED <<state, octet, expired, copied>>
  /\ Written(c)
  /\ UNCHANGED <<slice, sliceQueue, pc, localVars, wpc, cur, read, got, boundVars, timers>>

(* KubesliceWorkerDeleteRequeueTime minutes have passed since the deletion *)
(* of c's object; only a remaining finalizer of the worker makes that      *)
(* matter.                                                                 *)
GraceExpires(c) ==
  /\ state[c] = "deleting" /\ "worker" \in finalizers[c] /\ ~expired[c]
  /\ expired' = [expired EXCEPT ![c] = TRUE]
  /\ UNCHANGED <<slice, state, octet, finalizers, copied, queueVars, pc, localVars,
                 workerVars, boundVars>>

(* A delayed requeue is due: it was asked for after the deletion, for as   *)
(* long as the grace period.                                               *)
TimerFires(c) ==
  /\ c \in timers
  /\ state[c] = "deleting" /\ "worker" \in finalizers[c] => expired[c]
  /\ timers' = timers \ {c}
  /\ wscQueue' = wscQueue \cup {c}
  /\ UNCHANGED <<slice, wscVars, sliceQueue, pc, localVars, workerVars, boundVars>>
-----------------------------------------------------------------------------
(* The SliceConfig reconciler: ReconcileSliceConfig.                       *)

(* Faulty variant: the error is swallowed, the key is not queued again.    *)
AbortReconcileSilently ==
  /\ pc' = "idle" /\ UNCHANGED sliceQueue
  /\ spec' = NoSpec /\ todo' = {} /\ clusterMap' = NoMap /\ index' = 1
  /\ lastCreated' = NoCluster

(* The reconcile returns an error: the key is queued again.                *)
AbortReconcile ==
  /\ pc' = "idle" /\ sliceQueue' = TRUE
  /\ spec' = NoSpec /\ todo' = {} /\ clusterMap' = NoMap /\ index' = 1
  /\ lastCreated' = NoCluster

EndReconcile ==
  /\ pc' = "idle"
  /\ spec' = NoSpec /\ todo' = {} /\ clusterMap' = NoMap /\ index' = 1
  /\ lastCreated' = NoCluster
  /\ UNCHANGED sliceQueue

(* The key of a slice that is gone: nothing to do.                         *)
ReconcileAbsent ==
  /\ pc = "idle" /\ sliceQueue /\ slice.phase = "absent"
  /\ sliceQueue' = FALSE
  /\ UNCHANGED <<slice, wscVars, wscQueue, pc, localVars, workerVars, boundVars, timers>>

(* Get, AddFinalizer (whose own write queues the key again), and the List  *)
(* of cleanUpSlices: the objects of clusters the slice no longer has.      *)
ReconcileLive ==
  /\ pc = "idle" /\ sliceQueue /\ slice.phase = "live"
  /\ slice' = [slice EXCEPT !.finalizer = TRUE]
  /\ sliceQueue' = ~slice.finalizer
  /\ spec' = [clusters |-> slice.clusters, mode |-> slice.mode]
  /\ todo' = Listed \ Range(slice.clusters)
  /\ pc' = "cleanUpSlices"
  /\ UNCHANGED <<wscVars, wscQueue, clusterMap, index, lastCreated, workerVars, boundVars, timers>>

(* cleanUpSlices deletes one of them.  One that has vanished since it was  *)
(* listed makes Delete return NotFound.                                    *)
CleanUpSlices(c) ==
  /\ pc = "cleanUpSlices" /\ c \in todo
  /\ IF Exists(c)
     THEN /\ DeleteObject(c)
          /\ todo' = todo \ {c}
          /\ UNCHANGED <<pc, spec, clusterMap, index, lastCreated, sliceQueue>>
     ELSE AbortReconcile /\ UNCHANGED <<wscVars, wscQueue, fresh>>
  /\ UNCHANGED <<slice, wpc, cur, read, got, boundVars, timers>>

(* ListWorkerSliceConfigs and ComputeClusterMap; a slice without an overlay*)
(* network has no octets.                                                  *)
PlanOctets ==
  /\ pc = "cleanUpSlices" /\ todo = {}
  /\ LET listed == [c \in Listed |-> octet[c]]
     IN  \/ /\ spec.mode # NoNet /\ ComputeClusterMapPanics(spec.clusters, listed)
            /\ AbortReconcile
         \/ /\ spec.mode # NoNet /\ ~ComputeClusterMapPanics(spec.clusters, listed)
            /\ clusterMap' = ComputeClusterMap(spec.clusters, listed)
            /\ pc' = "apply"
            /\ UNCHANGED <<spec, todo, index, lastCreated, sliceQueue>>
         \/ /\ spec.mode = NoNet
            /\ pc' = "apply"
            /\ UNCHANGED <<spec, todo, clusterMap, index, lastCreated, sliceQueue>>
  /\ UNCHANGED <<slice, wscVars, wscQueue, workerVars, boundVars, timers>>

(* The octet the object of c is to carry.                                  *)
ipamOctet(c) == IF spec.mode = NoNet THEN NoOctet ELSE clusterMap[c]

CreateWorkerSliceConfig(c) ==
  /\ state' = [state EXCEPT ![c] = "live"]
  /\ octet' = [octet EXCEPT ![c] = ipamOctet(c)]
  /\ UNCHANGED <<finalizers, expired, copied>>
  /\ lastCreated' = c

(* preventUpdateWorkerSliceConfig refuses an update that changes an octet. *)
UpdateRefused(c) == spec.mode # NoNet /\ octet[c] \notin {NoOctet, ipamOctet(c)}

(* The new timestamp annotation makes every update a write.                *)
UpdateWorkerSliceConfig(c) ==
  /\ octet' = [octet EXCEPT ![c] = IF spec.mode = NoNet THEN @ ELSE ipamOctet(c)]
  /\ UNCHANGED <<state, finalizers, expired, copied, lastCreated>>

(* One turn of the loop of CreateMinimalWorkerSliceConfig(ForNoNetworkSlice)*)
ApplyCluster ==
  /\ pc = "apply" /\ index <= Len(spec.clusters)
  /\ LET c == spec.clusters[index]
     IN  IF Exists(c) /\ UpdateRefused(c)
         THEN AbortReconcile /\ UNCHANGED <<wscVars, wscQueue, fresh>>
         ELSE /\ IF Exists(c) THEN UpdateWorkerSliceConfig(c) ELSE CreateWorkerSliceConfig(c)
              /\ Written(c)
              /\ index' = index + 1
              /\ UNCHANGED <<pc, spec, todo, clusterMap, sliceQueue>>
  /\ UNCHANGED <<slice, wpc, cur, read, got, boundVars, timers>>

(* All objects are written; a slice with a network goes on to its gateways.*)
WscsApplied ==
  /\ pc = "apply" /\ index > Len(spec.clusters)
  /\ IF spec.mode = NoNet
     THEN EndReconcile
     ELSE pc' = "gateways" /\ UNCHANGED <<localVars, sliceQueue>>
  /\ UNCHANGED <<slice, wscVars, wscQueue, workerVars, boundVars, timers>>

(* The rest of the reconcile (gateways, key rotation, service imports) is  *)
(* over and has touched nothing modelled here.                             *)
ReconcileDone ==
  /\ pc = "gateways"
  /\ EndReconcile
  /\ UNCHANGED <<slice, wscVars, wscQueue, workerVars, boundVars, timers>>

(* cleanUpSliceConfigResources of a slice that is being deleted: after the *)
(* gateways the worker slice configs are listed ...                        *)
ReconcileDeleting ==
  /\ pc = "idle" /\ sliceQueue /\ slice.phase = "deleting"
  /\ sliceQueue' = FALSE
  /\ pc' = "deleteGateways"
  /\ UNCHANGED <<slice, wscVars, wscQueue, localVars, workerVars, boundVars, timers>>

ListForDeletion ==
  /\ pc = "deleteGateways"
  /\ todo' = Listed
  /\ pc' = "deleteSlices"
  /\ UNCHANGED <<slice, wscVars, queueVars, spec, clusterMap, index, lastCreated,
                 workerVars, boundVars>>

(* ... and deleted one by one (DeleteWorkerSliceConfigByLabel) ...         *)
DeleteWorkerSliceConfig(c) ==
  /\ pc = "deleteSlices" /\ c \in todo
  /\ IF Exists(c)
     THEN /\ DeleteObject(c)
          /\ todo' = todo \ {c}
          /\ UNCHANGED <<pc, spec, clusterMap, index, lastCreated, sliceQueue>>
     ELSE AbortReconcile /\ UNCHANGED <<wscVars, wscQueue, fresh>>
  /\ UNCHANGED <<slice, wpc, cur, read, got, boundVars, timers>>

(* Faulty variant: the finalizer goes before the objects are deleted.      *)
RemoveSliceFinalizerEarly ==
  /\ pc = "deleteSlices"
  /\ slice' = [slice EXCEPT !.phase = "absent", !.finalizer = FALSE]
  /\ EndReconcile /\ Overtaken("absent")
  /\ UNCHANGED <<wscVars, wscQueue, boundVars, timers>>

(* ... and RemoveFinalizer lets the slice go.                              *)
RemoveSliceFinalizer ==
  /\ pc = "deleteSlices" /\ todo = {}
  /\ slice' = [slice EXCEPT !.phase = "absent", !.finalizer = FALSE]
  /\ EndReconcile /\ Overtaken("absent")
  /\ UNCHANGED <<wscVars, wscQueue, boundVars, timers>>

(* An API call of the reconcile fails.                                     *)
ReconcileFails ==
  /\ pc # "idle" /\ errors < MaxErrors /\ Event
  /\ errors' = errors + 1
  /\ AbortReconcile
  /\ UNCHANGED <<slice, wscVars, wscQueue, workerVars, edits, forced, crashes, timers>>
-----------------------------------------------------------------------------
(* The WorkerSliceConfig reconciler: ReconcileWorkerSliceConfig.           *)

WscIdle == wpc' = "idle" /\ cur' = NoCluster /\ read' = NoOctet /\ fresh' = TRUE /\ got' = {}

ReconcileWscAbsent(c) ==
  /\ wpc = "idle" /\ c \in wscQueue /\ state[c] = "absent"
  /\ wscQueue' = wscQueue \ {c}
  /\ UNCHANGED <<slice, wscVars, sliceQueue, pc, localVars, workerVars, boundVars, timers>>

(* Get and AddFinalizer; the object read is used in CopySpec.              *)
ReconcileWscLive(c) ==
  /\ wpc = "idle" /\ c \in wscQueue /\ state[c] = "live"
  /\ finalizers' = [finalizers EXCEPT ![c] = @ \cup {"controller"}]
  /\ wscQueue' = IF "controller" \in finalizers[c] THEN wscQueue \ {c} ELSE wscQueue
  /\ wpc' = "copy" /\ cur' = c /\ read' = octet[c] /\ fresh' = TRUE
  /\ got' = {IF slice.phase = "absent" THEN "absent" ELSE "now"}
  /\ UNCHANGED <<slice, state, octet, expired, copied, sliceQueue, pc, localVars, boundVars, timers>>

(* Faulty variant: the write does not carry the version that was read.     *)
CopySpecBlindly ==
  /\ wpc = "copy"
  /\ IF slice.phase # "absent" /\ Exists(cur)
     THEN /\ copied' = [copied EXCEPT ![cur] = TRUE]
          /\ octet' = [octet EXCEPT ![cur] = read]
          /\ wscQueue' = wscQueue \cup {cur}
     ELSE UNCHANGED <<wscQueue, copied, octet>>
  /\ WscIdle
  /\ UNCHANGED <<slice, state, finalizers, expired, sliceQueue, pc, localVars, boundVars, timers>>

(* The spec of the slice is copied into the object, unless there was no    *)
(* slice; the octet the object had when it was read is written back.  If   *)
(* the object has changed since, the Update is a conflict and the key is   *)
(* tried again.  A write that changes the object queues it, and a copy of  *)
(* an old spec may be what the object has.                                 *)
CopySpec ==
  /\ wpc = "copy"
  /\ \/ "absent" \in got /\ UNCHANGED <<copied, octet, wscQueue>>
     \/ /\ got # {"absent"} /\ ~fresh
        /\ wscQueue' = wscQueue \cup {cur} /\ UNCHANGED <<copied, octet>>
     \/ \E g \in got \ {"absent"} :
          /\ fresh
          /\ copied' = [copied EXCEPT ![cur] = (g = "now")]
          /\ octet' = [octet EXCEPT ![cur] = read]
          /\ \/ (g = "old" \/ ~copied[cur]) /\ wscQueue' = wscQueue \cup {cur}
             \/ (g = "old" \/ copied[cur]) /\ UNCHANGED wscQueue
  /\ WscIdle
  /\ UNCHANGED <<slice, state, finalizers, expired, sliceQueue, pc, localVars, boundVars, timers>>

(* RemoveWorkerFinalizers waits for the worker's finalizer until the grace *)
(* period is over, provided the controller's own one is on the object.     *)
WaitsForWorker(c) == finalizers[c] = Finalizer /\ ~expired[c]

(* Faulty variant: nothing asks for the delayed requeue.                   *)
ReconcileWscForgets(c) ==
  /\ wpc = "idle" /\ c \in wscQueue /\ state[c] = "deleting" /\ WaitsForWorker(c)
  /\ wscQueue' = wscQueue \ {c}
  /\ UNCHANGED <<slice, wscVars, sliceQueue, pc, localVars, workerVars, boundVars, timers>>

ReconcileWscWaits(c) ==
  /\ wpc = "idle" /\ c \in wscQueue /\ state[c] = "deleting" /\ WaitsForWorker(c)
  /\ wscQueue' = wscQueue \ {c}
  /\ timers' = timers \cup {c}
  /\ UNCHANGED <<slice, wscVars, sliceQueue, pc, localVars, workerVars, boundVars>>

(* ... and then drops all finalizers, which makes the object vanish.       *)
RemoveWorkerFinalizers(c) ==
  /\ wpc = "idle" /\ c \in wscQueue /\ state[c] = "deleting" /\ ~WaitsForWorker(c)
  /\ Vanish(c)
  /\ wscQueue' = wscQueue \ {c}
  /\ wpc' = "forced" /\ cur' = c /\ UNCHANGED <<read, fresh, got>>
  /\ UNCHANGED <<slice, sliceQueue, pc, localVars, boundVars, timers>>

(* The Update that drops them fails: the error is logged, not returned.    *)
RemoveWorkerFinalizersFails(c) ==
  /\ wpc = "idle" /\ c \in wscQueue /\ state[c] = "deleting" /\ ~WaitsForWorker(c)
  /\ errors < MaxErrors /\ Event
  /\ errors' = errors + 1
  /\ wscQueue' = wscQueue \ {c}
  /\ wpc' = "forced" /\ cur' = c /\ UNCHANGED <<read, fresh, got>>
  /\ UNCHANGED <<slice, wscVars, sliceQueue, pc, localVars, edits, forced, crashes, timers>>

(* Faulty variant: the slice is not told.                                  *)
ForcedUnnoticed ==
  /\ wpc = "forced"
  /\ WscIdle
  /\ UNCHANGED <<slice, wscVars, sliceQueue, wscQueue, pc, localVars, boundVars, timers>>

(* The object of a cluster the live slice still has was deleted by force:  *)
(* the slice's timestamp annotation is renewed, which queues the slice.    *)
RecreateForced ==
  /\ wpc = "forced"
  /\ sliceQueue' = (sliceQueue \/ (slice.phase = "live" /\ cur \in Range(slice.clusters)))
  /\ WscIdle
  /\ UNCHANGED <<slice, wscVars, wscQueue, pc, localVars, boundVars, timers>>

(* An API call of the reconcile fails and the error is returned.           *)
ReconcileWscFails ==
  /\ wpc # "idle" /\ errors < MaxErrors /\ Event
  /\ errors' = errors + 1
  /\ wscQueue' = wscQueue \cup {cur}
  /\ WscIdle
  /\ UNCHANGED <<slice, wscVars, sliceQueue, pc, localVars, edits, forced, crashes, timers>>
-----------------------------------------------------------------------------
(* The process is restarted: what it had in memory is lost, and the first  *)
(* listing of the informers queues every object.                           *)
Crash ==
  /\ crashes < MaxCrashes /\ Event
  /\ crashes' = crashes + 1
  /\ pc' = "idle" /\ sliceQueue' = (slice.phase # "absent")
  /\ spec' = NoSpec /\ todo' = {} /\ clusterMap' = NoMap /\ index' = 1
  /\ lastCreated' = NoCluster
  /\ wscQueue' = Listed /\ timers' = {}
  /\ WscIdle
  /\ UNCHANGED <<slice, wscVars, edits, forced, errors>>

User ==
  \/ \E l \in ClusterLists, m \in Modes : CreateSliceConfig(l, m) \/ UpdateSliceConfig(l, m)
  \/ DeleteSliceConfig
  \/ \E c \in Cluster : ForceDelete(c)

Worker == \E c \in Cluster : WorkerAdopts(c) \/ WorkerReleases(c)

Time == \E c \in Cluster : GraceExpires(c) \/ TimerFires(c)

(* The steps of the SliceConfig reconciler that belong to the objects of   *)
(* this module; ReconcileDone and ReconcileFails complete it.              *)
SliceStep ==
  \/ ReconcileAbsent \/ ReconcileLive \/ PlanOctets \/ ApplyCluster \/ WscsApplied
  \/ ReconcileDeleting \/ ListForDeletion \/ RemoveSliceFinalizer
  \/ \E c \in Cluster : CleanUpSlices(c) \/ DeleteWorkerSliceConfig(c)

WscStart(c) ==
  \/ ReconcileWscAbsent(c) \/ ReconcileWscLive(c) \/ ReconcileWscWaits(c)
  \/ RemoveWorkerFinalizers(c)

WscFinish == CopySpec \/ RecreateForced

Fault ==
  \/ ReconcileFails \/ ReconcileWscFails \/ Crash
  \/ \E c \in Cluster : RemoveWorkerFinalizersFails(c)

Next ==
  \/ User \/ Worker \/ Time \/ Fault
  \/ SliceStep \/ ReconcileDone
  \/ WscFinish \/ \E c \in Cluster : WscStart(c)

Spec == Init /\ [][Next]_vars

(* A controller's worker goroutine goes on while its queue is not empty,   *)
(* and time passes.  Users, worker operators and faults owe nothing, not   *)
(* even the queue a fair choice among its keys.                            *)
Fairness ==
  /\ WF_vars(SliceStep \/ ReconcileDone)
  /\ WF_vars(WscFinish \/ \E c \in Cluster : WscStart(c))
  /\ \A c \in Cluster : WF_vars(GraceExpires(c)) /\ WF_vars(TimerFires(c))

FairSpec == Spec /\ Fairness
-----------------------------------------------------------------------------
SliceType ==
  slice \in [phase : {"absent", "live", "deleting"}, clusters : ClusterLists \cup {<<>>},
             mode : Mode, finalizer : BOOLEAN]

ObjectsType ==
  /\ state \in [Cluster -> {"absent", "live", "deleting"}]
  /\ octet \in [Cluster -> Nat \cup {NoOctet}]
  /\ finalizers \in [Cluster -> SUBSET Finalizer]
  /\ expired \in [Cluster -> BOOLEAN]
  /\ copied \in [Cluster -> BOOLEAN]

QueuesType ==
  sliceQueue \in BOOLEAN /\ wscQueue \subseteq Cluster /\ timers \subseteq Cluster

ReconcilerType ==
  /\ pc \in {"idle", "cleanUpSlices", "apply", "gateways", "deleteGateways", "deleteSlices"}
  /\ spec \in [clusters : ClusterLists \cup {<<>>}, mode : Mode]
  /\ todo \subseteq Cluster
  /\ DOMAIN clusterMap \subseteq Cluster /\ clusterMap \in [DOMAIN clusterMap -> Nat]
  /\ index \in Nat \ {0}
  /\ lastCreated \in Cluster \cup {NoCluster}

WscReconcilerType ==
  /\ wpc \in {"idle", "copy", "forced"}
  /\ cur \in Cluster \cup {NoCluster} /\ (wpc # "idle" => cur \in Cluster)
  /\ read \in Nat \cup {NoOctet} /\ fresh \in BOOLEAN /\ got \subseteq {"absent", "old", "now"}

BoundsType == edits \in Nat /\ forced \in Nat /\ errors \in Nat /\ crashes \in Nat

(* Every variable has its type; an octet is a natural number or missing,   *)
(* and a reconcile past its first step works on a cluster.                 *)
TypeOK ==
  /\ SliceType /\ ObjectsType /\ QueuesType
  /\ ReconcilerType /\ WscReconcilerType /\ BoundsType

(* No two WorkerSliceConfigs of the slice carry the same octet, the ones   *)
(* being deleted included: two clusters never share a subnet, whatever is  *)
(* edited, forced, refused or restarted while ComputeClusterMap's result   *)
(* is being written cluster by cluster.                                    *)
OctetsUnique ==
  \A c, d \in Cluster : octet[c] # NoOctet /\ octet[c] = octet[d] => c = d

(* The octets about to be written never contradict the ones in the API     *)
(* server, so preventUpdateWorkerSliceConfig never refuses the reconciler's*)
(* own update: at every turn of the loop the map computed before it still  *)
(* agrees with every object that has an octet.                             *)
MapAgrees ==
  pc \in {"apply", "gateways"} /\ spec.mode # NoNet =>
    \A c \in Cluster : octet[c] # NoOctet =>
      c \in DOMAIN clusterMap /\ clusterMap[c] = octet[c]

(* Every octet gives a subnet inside the slice's: FindCIDRByMaxClusters    *)
(* divides it into at least MaxClusters parts.                             *)
OctetsBelowMax == \A c \in Cluster : octet[c] < MaxClusters

(* A slice that is gone has left no WorkerSliceConfig behind that nobody   *)
(* is going to delete (cleanUpSliceConfigResources before RemoveFinalizer).*)
NoOrphans == slice.phase = "absent" => \A c \in Cluster : state[c] # "live"

(* A WorkerSliceConfig being deleted is on somebody's list: its key is     *)
(* queued, has a delayed requeue or is being worked on.                    *)
(* RemoveWorkerFinalizers promises the delayed requeue whenever it leaves  *)
(* finalizers behind.                                                      *)
DeletionScheduled ==
  \A c \in Cluster : state[c] = "deleting" => c \in wscQueue \cup timers \cup {cur}

(* An octet, once assigned, only goes away together with its object.       *)
OctetStable ==
  [][\A c \in Cluster : octet[c] # NoOctet /\ octet'[c] # octet[c] => state'[c] = "absent"]_vars

(* The octets behave like an allocator that never hands one out twice.     *)
Octets == INSTANCE OctetAllocator WITH None <- NoOctet, held <- octet
OctetAllocation == Octets!Spec

(* What a quiet system looks like: exactly the clusters of a live slice    *)
(* have a WorkerSliceConfig, with an octet if there is a network and the   *)
(* present spec of the slice; a slice that is gone has none.               *)
Settled ==
  /\ slice.phase # "deleting"
  /\ \A c \in Cluster :
       IF slice.phase = "live" /\ c \in Range(slice.clusters)
       THEN /\ state[c] = "live" /\ copied[c]
            /\ slice.mode = Net => octet[c] # NoOctet
       ELSE state[c] = "absent"

(* Neither controller of this module has anything left to do.              *)
AtRest ==
  ~sliceQueue /\ wscQueue = {} /\ timers = {} /\ pc = "idle" /\ wpc = "idle"

(* A reconciler forgets no work: when both come to rest, with no call      *)
(* having failed and nobody having deleted objects by hand, the objects    *)
(* are those of the slice as it is now, however edits, restarts and the    *)
(* slow deletions of the workers fell between the steps.                   *)
QuietIsSettled == errors = 0 /\ forced = 0 /\ AtRest => Settled

(* Once the users stop, the reconcilers bring the objects in line with the *)
(* slice and leave them there: through the panics of ComputeClusterMap     *)
(* while replaced clusters linger, through restarts and workers that never *)
(* answer.  An object deleted by hand before it has its finalizer may stay *)
(* away: see Recreated.                                                    *)
Converges == <>[](forced = 0 => Settled)

(* The WorkerSliceConfig of a cluster the slice still has, deleted by hand *)
(* after the reconciler has put its finalizer on it, comes back.           *)
Recreated ==
  \A c \in Cluster :
    state[c] = "deleting" /\ "controller" \in finalizers[c] ~>
      state[c] = "live" \/ slice.phase # "live" \/ c \notin Range(slice.clusters)
=============================================================================
