------------------------- MODULE ClusterRegistration -------------------------
(***************************************************************************)
(* The worker clusters of one project: the Cluster reconciler              *)
(* (service/cluster_service.go) with the service account, token and role   *)
(* binding a worker logs in with (service/access_control_service.go), the  *)
(* deregistration that waits ten minutes for the worker, and the project's *)
(* default slice (service/default_slice_service.go), which is to hold the  *)
(* namespaces no other slice has.                                          *)
(*                                                                         *)
(* One goroutine reconciles the clusters, one at a time; another one the   *)
(* other slice.  The worker operator, the token controller of Kubernetes   *)
(* and the time are external.                                              *)
(***************************************************************************)
EXTENDS Naturals, FiniteSets

CONSTANTS
  Cluster,
  Namespace,              \* application namespaces in the worker clusters
  DefaultSliceCreation,   \* the project asks for a default slice
  Selections,             \* what users make the other slice select
  Events,                 \* the kinds of events that happen in this instance
  MaxEvents               \* bound: events in a behaviour

Pair == Namespace \X Cluster

(* removeSliceApplicationNamespaces takes elements out of the list it is   *)
(* ranging over, which skips elements of lists longer than two.            *)
ASSUME ClusterAssumption == IsFiniteSet(Cluster) /\ Cardinality(Cluster) <= 2
ASSUME DefaultAssumption == DefaultSliceCreation \in BOOLEAN
ASSUME SelectionAssumption == Selections \subseteq SUBSET Pair
ASSUME BoundAssumption == MaxEvents \in Nat

VARIABLES
  cluster,     \* cluster[c]: the Cluster object
  reported,    \* reported[c][n]: status.namespaces, whose the namespace is
  sa, rb,      \* clusters with a service account, with a role binding
  secret,      \* secret[c]: the token secret, "stale" once its account is gone
  default,     \* the default slice: whether there is one, clusters, namespaces
  other,       \* namespaces the other slice selects; {} when there is none
  placed,      \* clusters with a worker object of the other slice
  queued, timer, late,   \* work queue; delayed requeues; deleted 10 min ago
  pc, at, copy, had, seen, fresh,  \* the reconcile, its cluster, what it has read
  sliceQueued, slicePc, sliceSpec, \* the other slice's reconcile
  events

objects == <<cluster, reported, sa, rb, secret, default, other>>
local == <<at, copy, had, seen, fresh>>
sliceRec == <<placed, sliceQueued, slicePc, sliceSpec>>
vars == <<objects, queued, timer, late, pc, local, sliceRec, events>>

NoObject == [state |-> "absent", fin |-> FALSE, dereg |-> FALSE, status |-> "none",
             progress |-> FALSE, secretName |-> FALSE]
NoReport == [n \in Namespace |-> "gone"]
NoSlice == [exists |-> FALSE, clusters |-> {}, apps |-> {}]
ClustersOf(apps) == {p[2] : p \in apps}
OfCluster(apps, c) == {p \in apps : p[2] = c}

Init ==
  /\ cluster = [c \in Cluster |-> NoObject] /\ reported = [c \in Cluster |-> NoReport]
  /\ sa = {} /\ rb = {} /\ secret = [c \in Cluster |-> "none"]
  /\ default = NoSlice /\ other = {}
  /\ queued = {} /\ timer = {} /\ late = {}
  /\ pc = "idle" /\ at = {} /\ copy = NoObject /\ had = FALSE /\ seen = NoReport /\ fresh = TRUE
  /\ placed = {} /\ sliceQueued = FALSE /\ slicePc = "idle" /\ sliceSpec = {} /\ events = 0

Event(kind) == kind \in Events /\ events < MaxEvents /\ events' = events + 1

(* Cluster c is written.  It goes when its last finalizer has been removed *)
(* after its deletion; whoever has read it before now has an old version.  *)
Write(c, r) ==
  LET gone == r.state = "deleting" /\ ~r.fin /\ ~r.dereg IN
  /\ cluster' = [cluster EXCEPT ![c] = IF gone THEN NoObject ELSE r]
  /\ reported' = IF gone THEN [reported EXCEPT ![c] = NoReport] ELSE reported
  /\ late' = IF gone THEN late \ {c} ELSE late

(* Somebody other than its reconcile writes it.                            *)
Touch(c, r) ==
  /\ Write(c, r)
  /\ queued' = queued \cup {c} /\ fresh' = (fresh /\ at # {c})
-----------------------------------------------------------------------------
(* Users.                                                                  *)
CreateCluster(c) ==
  /\ cluster[c].state = "absent" /\ Event("create")
  /\ Touch(c, [NoObject EXCEPT !.state = "live"])
  /\ UNCHANGED <<sa, rb, secret, default, other, timer, pc, at, copy, had, seen, sliceRec>>

(* validateClusterInAnySlice: worker objects of the default slice do not   *)
(* count, and a slice has none before it has been reconciled.              *)
ValidateClusterDelete(c) ==
  /\ cluster[c].state = "live" /\ c \notin placed /\ Event("delete")
  /\ Touch(c, [cluster[c] EXCEPT !.state = "deleting"])
  /\ UNCHANGED <<sa, rb, secret, default, other, timer, pc, at, copy, had, seen, sliceRec>>

(* The other slice is made, changed or deleted, with its worker objects;   *)
(* its clusters have to be registered.                                     *)
EditSlice(s) ==
  /\ s # other /\ \A c \in ClustersOf(s) : cluster[c].status = "registered"
  /\ Event("slice")
  /\ other' = s /\ sliceQueued' = (s # {})
  /\ placed' = IF s = {} THEN {} ELSE placed
  /\ UNCHANGED <<cluster, reported, sa, rb, secret, default, queued, timer, late, pc, local,
                 slicePc, sliceSpec>>
-----------------------------------------------------------------------------
(* The worker operator: it registers, having the secret named in the       *)
(* status, puts its own finalizer on the cluster and reports the           *)
(* namespaces there are ...                                                *)
WorkerRegisters(c, present) ==
  /\ cluster[c].state = "live" /\ cluster[c].secretName /\ cluster[c].status = "none"
  /\ cluster' = [cluster EXCEPT ![c].status = "registered", ![c].dereg = TRUE]
  /\ reported' = [reported EXCEPT ![c] = [n \in Namespace |-> IF n \in present THEN "free" ELSE "gone"]]
  /\ queued' = queued \cup {c} /\ fresh' = (fresh /\ at # {c}) /\ UNCHANGED late
  /\ UNCHANGED <<sa, rb, secret, default, other, timer, pc, at, copy, had, seen, sliceRec, events>>

(* ... reports namespaces that come and go, and which slice they are in,   *)
(* any of them when two slices select one namespace ...                    *)
Assigned(n, c) ==
  LET slices == (IF <<n, c>> \in default.apps THEN {"default"} ELSE {})
                \cup (IF <<n, c>> \in other THEN {"other"} ELSE {}) IN
  IF slices = {} THEN {"free"} ELSE slices

WorkerReports(c, n, v) ==
  /\ cluster[c].status = "registered" /\ reported[c][n] # v
  /\ reported' = [reported EXCEPT ![c][n] = v]
  /\ queued' = queued \cup {c} /\ fresh' = (fresh /\ at # {c})
  /\ UNCHANGED <<cluster, sa, rb, secret, default, other, timer, late, pc, at, copy, had, seen, sliceRec>>

NamespaceComesOrGoes(c, n) ==
  /\ Event("namespace")
  /\ WorkerReports(c, n, IF reported[c][n] = "gone" THEN "free" ELSE "gone")

NamespaceAssigned(c, n) ==
  /\ reported[c][n] \notin Assigned(n, c) \cup {"gone"}
  /\ \E v \in Assigned(n, c) : WorkerReports(c, n, v)
  /\ UNCHANGED events

(* ... and, unless it is out of reach, uninstalls and lets the cluster go. *)
(* "deregistered" stands for DeregisterFailed too.                         *)
WorkerDeregisters(c) ==
  /\ cluster[c].state = "deleting" /\ cluster[c].status = "registered" /\ Event("uninstall")
  /\ Touch(c, [cluster[c] EXCEPT !.status = "deregistered"])
  /\ UNCHANGED <<sa, rb, secret, default, other, timer, pc, at, copy, had, seen, sliceRec>>

WorkerLetsGo(c) ==
  /\ cluster[c].state = "deleting" /\ cluster[c].status = "deregistered" /\ cluster[c].dereg
  /\ Touch(c, [cluster[c] EXCEPT !.dereg = FALSE])
  /\ UNCHANGED <<sa, rb, secret, default, other, timer, pc, at, copy, had, seen, sliceRec, events>>

(* Kubernetes removes the token secret of a service account that is gone.  *)
TokenController(c) ==
  /\ secret[c] = "stale" /\ secret' = [secret EXCEPT ![c] = "none"]
  /\ UNCHANGED <<cluster, reported, sa, rb, default, other, queued, timer, late, pc, local,
                 sliceRec, events>>

(* Ten minutes have passed since the deletion of c.                        *)
TenMinutes(c) ==
  /\ cluster[c].state = "deleting" /\ c \notin late /\ late' = late \cup {c}
  /\ UNCHANGED <<objects, queued, timer, pc, local, sliceRec, events>>

(* A delayed requeue comes due, the one of 610 seconds after the ten       *)
(* minutes.                                                                *)
Timer(c, k) ==
  /\ <<c, k>> \in timer /\ (k = "long" /\ cluster[c].state = "deleting" => c \in late)
  /\ timer' = timer \ {<<c, k>>} /\ queued' = queued \cup {c}
  /\ UNCHANGED <<objects, late, pc, local, sliceRec, events>>
-----------------------------------------------------------------------------
(* The default slice is written through the SliceConfig webhook:           *)
(* validateClustersOnCreate and -OnUpdate want every cluster to exist and  *)
(* the new ones to be registered, validateGrantedClusterNamespaces refuses *)
(* a namespace that another slice is reported to have.                     *)
Admitted(d) ==
  /\ \A c \in d.clusters :
       /\ cluster[c].state # "absent"
       /\ c \in default.clusters \/ cluster[c].status = "registered"
  /\ \A p \in d.apps : reported[p[2]][p[1]] # "other"

(* Faulty variant: the cluster is not let go of.                           *)
DoneAt == /\ pc' = "idle" /\ at' = at /\ copy' = NoObject /\ had' = FALSE
          /\ seen' = NoReport /\ fresh' = TRUE

(* ReconcileCluster: how it ends, and how it goes on.                      *)
Done == /\ pc' = "idle" /\ at' = {} /\ copy' = NoObject /\ had' = FALSE
        /\ seen' = NoReport /\ fresh' = TRUE
Me == CHOOSE c \in Cluster : at = {c}
Abort == Done /\ queued' = queued \cup at /\ UNCHANGED <<objects, timer, late>>
Go(next) == pc' = next /\ UNCHANGED <<at, copy, had, seen>>

ReconcileAbsent(c) ==
  /\ pc = "idle" /\ c \in queued /\ cluster[c].state = "absent"
  /\ queued' = queued \ {c}
  /\ UNCHANGED <<objects, timer, late, pc, local, sliceRec, events>>

(* The finalizer and the labels of the namespace (steps 1 and 2), then the *)
(* service account is looked for (step 3).  An account and a binding that  *)
(* are there are left as they are.                                         *)
ReconcileLive(c) ==
  /\ pc = "idle" /\ c \in queued /\ cluster[c].state = "live"
  /\ cluster' = [cluster EXCEPT ![c].fin = TRUE]
  /\ queued' = IF cluster[c].fin THEN queued \ {c} ELSE queued
  /\ pc' = CASE c \notin sa -> "account" [] c \in sa \ rb -> "binding" [] OTHER -> "status"
  /\ at' = {c} /\ had' = (c \in sa) /\ seen' = reported[c]
  /\ UNCHANGED <<copy, fresh, reported, sa, rb, secret, default, other, timer, late, sliceRec, events>>

(* ReconcileWorkerClusterServiceAccountAndRoleBindings: a new account gets *)
(* its secret.                                                             *)
CreateAccount ==
  /\ pc = "account" /\ sa' = sa \cup at /\ Go("secret")
  /\ UNCHANGED <<cluster, reported, rb, secret, default, other, queued, timer, late, fresh,
                 sliceRec, events>>

CreateSecret ==
  /\ pc = "secret"
  /\ IF secret[Me] = "none"
     THEN /\ secret' = [secret EXCEPT ![Me] = "good"] /\ Go("binding")
          /\ UNCHANGED <<cluster, reported, sa, rb, default, other, queued, timer, late, fresh>>
     ELSE Abort
  /\ UNCHANGED <<sliceRec, events>>

(* Faulty variant: nobody comes back for the secret's name.                *)
CreateBindingOnly ==
  /\ pc = "binding" /\ rb' = rb \cup at
  /\ IF had THEN Go("status") /\ UNCHANGED fresh ELSE Done
  /\ UNCHANGED <<cluster, reported, sa, secret, default, other, queued, timer, late, sliceRec, events>>

(* The role binding; then a reconcile that has not found the account comes *)
(* back in 30 seconds.                                                     *)
CreateBinding ==
  /\ pc = "binding" /\ rb' = rb \cup at
  /\ IF had THEN Go("status") /\ UNCHANGED <<timer, fresh>>
            ELSE Done /\ timer' = timer \cup {<<Me, "short">>}
  /\ UNCHANGED <<cluster, reported, sa, secret, default, other, queued, late, sliceRec, events>>

(* Faulty variant: the status is set on the copy and not written.          *)
SetSecretNameInCopy ==
  /\ pc = "status"
  /\ IF fresh /\ secret[Me] # "none"
     THEN Go("default") /\ UNCHANGED <<objects, queued, timer, late, fresh>>
     ELSE Abort
  /\ UNCHANGED <<sliceRec, events>>

(* Steps 4 and 5: the secret is looked up by the account's reference and   *)
(* named in the status.                                                    *)
SetSecretName ==
  /\ pc = "status"
  /\ IF fresh /\ secret[Me] # "none"
     THEN /\ cluster' = [cluster EXCEPT ![Me].secretName = TRUE]
          /\ queued' = IF cluster[Me].secretName THEN queued ELSE queued \cup at
          /\ Go("default")
          /\ UNCHANGED <<reported, sa, rb, secret, default, other, timer, late, fresh>>
     ELSE Abort
  /\ UNCHANGED <<sliceRec, events>>

(* Faulty variant: namespaces are added and never removed.                 *)
UpdatedAddsOnly ==
  LET added == {<<n, Me>> : n \in {m \in Namespace : seen[m] = "free"}} \ default.apps IN
  IF ~default.exists THEN [exists |-> TRUE, clusters |-> at, apps |-> added]
  ELSE IF added # {} THEN [default EXCEPT !.clusters = @ \cup at, !.apps = @ \cup added]
  ELSE default

(* DefaultSliceOperations, from the status the reconcile has read: what    *)
(* the default slice is to become.  A namespace that no slice has is added *)
(* or else those the worker does not report to be in it are removed, and   *)
(* only then the cluster is added, too.                                    *)
Updated ==
  LET added == {<<n, Me>> : n \in {m \in Namespace : seen[m] = "free"}} \ default.apps
      removed == {p \in OfCluster(default.apps, Me) : seen[p[1]] # "default"} IN
  IF ~default.exists THEN [exists |-> TRUE, clusters |-> at, apps |-> added]
  ELSE IF added # {}
       THEN [default EXCEPT !.clusters = @ \cup at, !.apps = @ \cup added]
  ELSE IF removed # {}
       THEN [default EXCEPT !.clusters = @ \cup at, !.apps = @ \ removed]
  ELSE default

DefaultSliceOperations ==
  /\ pc = "default"
  /\ IF DefaultSliceCreation /\ Updated # default
     THEN IF Admitted(Updated)
          THEN /\ default' = Updated /\ Done
               /\ UNCHANGED <<cluster, reported, sa, rb, secret, other, queued, timer, late>>
          ELSE Abort
     ELSE Done /\ UNCHANGED <<objects, queued, timer, late>>
  /\ UNCHANGED <<sliceRec, events>>
-----------------------------------------------------------------------------
(* The cluster is being deleted: DeregisterClusterFromDefaultSlice comes   *)
(* first, and takes the cluster off the list if it takes namespaces off.   *)
(* While the webhook refuses that, the cluster just stays in the queue.    *)
Without(c) ==
  IF DefaultSliceCreation /\ c \in default.clusters /\ OfCluster(default.apps, c) # {}
  THEN [default EXCEPT !.clusters = @ \ {c}, !.apps = @ \ OfCluster(@, c)]
  ELSE default

ReconcileDeleting(c) ==
  /\ pc = "idle" /\ c \in queued /\ cluster[c].state = "deleting"
  /\ Without(c) = default \/ Admitted(Without(c))
  /\ default' = Without(c) /\ queued' = queued \ {c}
  /\ pc' = IF cluster[c].dereg THEN "deregister" ELSE "unbind"
  /\ at' = {c} /\ copy' = cluster[c]
  /\ UNCHANGED <<had, seen, fresh, cluster, reported, sa, rb, secret, other, timer, late, sliceRec, events>>

(* Faulty variant: it waits for the worker for ever.                       *)
WaitForWorkerOnly ==
  /\ pc = "deregister" /\ Done /\ UNCHANGED <<objects, queued, timer, late, sliceRec, events>>

(* The worker's finalizer is there: wait for the worker, or remove it when *)
(* ten minutes have passed.  An error of UpdateStatus is dropped.          *)
WaitForWorker ==
  /\ pc = "deregister"
  /\ IF Me \in late
     THEN IF fresh THEN Write(Me, [copy EXCEPT !.dereg = FALSE]) /\ queued' = queued \cup at
                        /\ Done /\ UNCHANGED <<sa, rb, secret, default, other, timer>>
                   ELSE Abort
     ELSE /\ IF copy.status = "registered" /\ ~copy.progress
             THEN /\ cluster' = IF fresh THEN [cluster EXCEPT ![Me].progress = TRUE] ELSE cluster
                  /\ queued' = IF fresh THEN queued \cup at ELSE queued
                  /\ timer' = timer \cup {<<Me, "long">>}
             ELSE UNCHANGED <<cluster, queued, timer>>
          /\ Done /\ UNCHANGED <<reported, sa, rb, secret, default, other, late>>
  /\ UNCHANGED <<sliceRec, events>>

(* cleanUpClusterResources: the binding, the account; then the finalizer.  *)
RemoveBinding ==
  /\ pc = "unbind" /\ rb' = rb \ at /\ Go("unaccount")
  /\ UNCHANGED <<cluster, reported, sa, secret, default, other, queued, timer, late, fresh,
                 sliceRec, events>>

(* Faulty variant: only the binding is removed.                            *)
KeepAccount ==
  /\ pc = "unaccount" /\ Go("finalizer")
  /\ UNCHANGED <<objects, queued, timer, late, fresh, sliceRec, events>>

RemoveAccount ==
  /\ pc = "unaccount" /\ sa' = sa \ at /\ Go("finalizer")
  /\ secret' = IF secret[Me] = "good" THEN [secret EXCEPT ![Me] = "stale"] ELSE secret
  /\ UNCHANGED <<cluster, reported, rb, default, other, queued, timer, late, fresh, sliceRec, events>>

RemoveClusterFinalizer ==
  /\ pc = "finalizer"
  /\ IF fresh THEN /\ Write(Me, [copy EXCEPT !.fin = FALSE]) /\ queued' = queued \cup at
                   /\ Done /\ UNCHANGED <<sa, rb, secret, default, other, timer>>
              ELSE Abort
  /\ UNCHANGED <<sliceRec, events>>
-----------------------------------------------------------------------------
(* The other slice's reconcile reads it ...                                *)
ReadSlice ==
  /\ slicePc = "idle" /\ sliceQueued
  /\ sliceQueued' = FALSE /\ sliceSpec' = other /\ slicePc' = "apply"
  /\ UNCHANGED <<objects, placed, queued, timer, late, pc, local, events>>

(* ... and takes what it selects out of the default slice.  A namespace of *)
(* several clusters that loses all of them stays with an empty list, which *)
(* validateApplicationNamespaces refuses.                                  *)
Filtered == [default EXCEPT !.apps = @ \ sliceSpec]
Emptied ==
  \E p \in default.apps :
    LET entry == {q \in default.apps : q[1] = p[1]} IN
    Cardinality(entry) > 1 /\ entry \subseteq sliceSpec

HandleDefaultSliceConfigAppns ==
  /\ slicePc = "apply"
  /\ IF DefaultSliceCreation /\ Filtered # default
     THEN IF ~Emptied /\ Admitted(Filtered)
          THEN default' = Filtered /\ slicePc' = "place" /\ UNCHANGED <<sliceQueued, sliceSpec>>
          ELSE sliceQueued' = TRUE /\ slicePc' = "idle" /\ sliceSpec' = {} /\ UNCHANGED default
     ELSE slicePc' = "place" /\ UNCHANGED <<default, sliceQueued, sliceSpec>>
  /\ UNCHANGED <<cluster, reported, sa, rb, secret, other, placed, queued, timer, late, pc, local, events>>

(* ... and only then makes its worker objects.                             *)
CreateMinimalWorkerSliceConfig ==
  /\ slicePc = "place" /\ slicePc' = "idle" /\ sliceSpec' = {}
  /\ placed' = IF other = {} THEN {} ELSE ClustersOf(sliceSpec)
  /\ UNCHANGED <<objects, sliceQueued, queued, timer, late, pc, local, events>>
-----------------------------------------------------------------------------
(* An API call of the reconcile fails.                                     *)
Fail == pc # "idle" /\ Event("error") /\ Abort /\ UNCHANGED sliceRec

(* The manager restarts: timers are lost, everything is listed.            *)
Crash ==
  /\ Event("crash") /\ Done
  /\ timer' = {} /\ queued' = {c \in Cluster : cluster[c].state # "absent"}
  /\ sliceQueued' = (other # {}) /\ slicePc' = "idle" /\ sliceSpec' = {}
  /\ UNCHANGED <<objects, placed, late>>

Quiet == pc = "idle" /\ queued = {} /\ slicePc = "idle" /\ ~sliceQueued

(* The default slice lists a cluster that is gone; the webhook then        *)
(* refuses every change of the slice.                                      *)
Poisoned == \E c \in default.clusters : cluster[c].state = "absent"

(* The account of a cluster has no secret, and never gets one: it was      *)
(* created with the account only, and either that failed or the secret was *)
(* one of an account before it.                                            *)
Keyless(c) == c \in sa /\ secret[c] = "none"

(* The other slice takes a namespace in all the clusters it has in the     *)
(* default slice, several: the change it makes is refused (see Emptied).   *)
Wedged ==
  \E p \in default.apps :
    LET entry == {q \in default.apps : q[1] = p[1]} IN
    Cardinality(entry) > 1 /\ entry \subseteq other

(* The informers' periodic resync, every ten hours: by then the workers    *)
(* have reported, and what is still queued is what fails over and over.    *)
Retrying(c) ==
  Poisoned \/ Wedged \/ Keyless(c) \/ (cluster[c].secretName /\ cluster[c].status = "none")

Resync ==
  /\ pc = "idle" /\ slicePc = "idle" /\ (sliceQueued => Poisoned \/ Wedged)
  /\ \A c \in Cluster :
       /\ c \in queued => Retrying(c)
       /\ cluster[c].status = "registered" =>
            \A n \in Namespace : reported[c][n] \in Assigned(n, c) \cup {"gone"}
  /\ queued' = {c \in Cluster : cluster[c].state # "absent"} /\ sliceQueued' = (other # {})
  /\ UNCHANGED <<objects, timer, late, pc, local, placed, slicePc, sliceSpec, events>>

Environment ==
  \/ \E c \in Cluster : CreateCluster(c) \/ ValidateClusterDelete(c)
                        \/ (\E present \in SUBSET Namespace : WorkerRegisters(c, present))
                        \/ WorkerDeregisters(c) \/ WorkerLetsGo(c)
                        \/ \E n \in Namespace : NamespaceComesOrGoes(c, n)
  \/ (\E s \in Selections : EditSlice(s)) \/ Fail \/ Crash

Pick(c) == ReconcileAbsent(c) \/ ReconcileLive(c) \/ ReconcileDeleting(c)

Proceed ==
  \/ CreateAccount \/ CreateSecret \/ CreateBinding \/ SetSecretName \/ DefaultSliceOperations
  \/ WaitForWorker \/ RemoveBinding \/ RemoveAccount \/ RemoveClusterFinalizer

SliceReconcile == ReadSlice \/ HandleDefaultSliceConfigAppns \/ CreateMinimalWorkerSliceConfig

Clock(c) == TenMinutes(c) \/ Timer(c, "short") \/ Timer(c, "long")
Reports(c) == \E n \in Namespace : NamespaceAssigned(c, n)

Next ==
  \/ Environment \/ Proceed \/ SliceReconcile \/ Resync
  \/ \E c \in Cluster : Pick(c) \/ Clock(c) \/ TokenController(c) \/ Reports(c)

Spec == Init /\ [][Next]_vars

(* The work queue hands out every cluster in it, also when others fail     *)
(* over and over; a worker reports while it is registered, but nothing     *)
(* says that it ever uninstalls.                                           *)
FairSpec ==
  /\ Spec /\ WF_vars(Proceed) /\ WF_vars(SliceReconcile) /\ SF_vars(Resync)
  /\ \A c \in Cluster :
       /\ SF_vars(Pick(c)) /\ WF_vars(Clock(c)) /\ WF_vars(TokenController(c)) /\ WF_vars(Reports(c))
-----------------------------------------------------------------------------
(* Types of the objects and of the reconcilers' state.                     *)
Status == {"none", "registered", "deregistered"}
Object == [state : {"absent", "live", "deleting"}, fin : BOOLEAN, dereg : BOOLEAN,
           status : Status, progress : BOOLEAN, secretName : BOOLEAN]
Report == [Namespace -> {"gone", "free", "default", "other"}]

TypeOK ==
  /\ cluster \in [Cluster -> Object] /\ reported \in [Cluster -> Report]
  /\ sa \subseteq Cluster /\ rb \subseteq Cluster
  /\ secret \in [Cluster -> {"none", "good", "stale"}]
  /\ default \in [exists : BOOLEAN, clusters : SUBSET Cluster, apps : SUBSET Pair]
  /\ other \subseteq Pair /\ placed \subseteq Cluster /\ queued \subseteq Cluster /\ late \subseteq Cluster
  /\ timer \subseteq Cluster \X {"short", "long"}
  /\ pc \in {"idle", "account", "secret", "binding", "status", "default", "deregister",
             "unbind", "unaccount", "finalizer"}
  /\ at \subseteq Cluster /\ Cardinality(at) = (IF pc = "idle" THEN 0 ELSE 1)
  /\ copy \in Object /\ had \in BOOLEAN /\ seen \in Report /\ fresh \in BOOLEAN
  /\ sliceQueued \in BOOLEAN /\ slicePc \in {"idle", "apply", "place"} /\ sliceSpec \subseteq Pair
  /\ events \in 0..MaxEvents

(* A cluster that is gone leaves no credentials a worker could log in      *)
(* with: cleanUpClusterResources comes before its finalizer is removed,    *)
(* and no reconcile under way creates them anew.                           *)
NoCredentialsLeft == \A c \in sa \cup rb : cluster[c].state # "absent"

(* When nothing is queued, not even with a delay, the live clusters have   *)
(* their account and binding, and name their secret in the status.         *)
QuietIsRegistered ==
  Quiet /\ timer = {} =>
    \A c \in Cluster : cluster[c].state = "live" => c \in sa \cap rb /\ cluster[c].secretName

(* "If not removed even after 10 mins, remove it": a cluster that is       *)
(* deleted goes, whether or not its worker can be reached, and whatever    *)
(* fails or restarts meanwhile, unless the default slice cannot be written.*)
Deregistered ==
  \A c \in Cluster : cluster[c].state = "deleting" ~> cluster[c].state = "absent" \/ Poisoned

(* A cluster that stays comes to name its secret, unless its account was   *)
(* left without one.                                                       *)
Registered ==
  \A c \in Cluster :
    <>[](cluster[c].state = "live" => cluster[c].secretName \/ Keyless(c))

(* The default slice comes to hold the namespaces of the registered        *)
(* clusters that no other slice selects, and no others, as long as it can  *)
(* be written.                                                             *)
Exact(c) ==
  \A n \in Namespace :
    <<n, c>> \in default.apps <=> reported[c][n] # "gone" /\ <<n, c>> \notin other

NamespacesSettle ==
  DefaultSliceCreation =>
    \A c \in Cluster :
      <>[](cluster[c].state = "live" /\ cluster[c].status = "registered" => Exact(c) \/ Keyless(c) \/ Poisoned \/ Wedged)
=============================================================================
