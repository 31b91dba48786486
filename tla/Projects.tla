------------------------------ MODULE Projects ------------------------------
(***************************************************************************)
(* One project: the namespace the Project reconciler makes for it          *)
(* (service/project_service.go, service/namespace_service.go), the roles   *)
(* and the users' service accounts and role bindings in there              *)
(* (service/access_control_service.go), and its deletion, which has to     *)
(* take along whatever users have put into the namespace.  Deletions go    *)
(* through the admission webhooks like anybody else's.                     *)
(*                                                                         *)
(* What becomes of an export, a slice, a cluster or a QoS profile once it  *)
(* is being deleted is the business of its own reconciler: here it goes    *)
(* away some time later.  "slice" stands for a SliceConfig together with   *)
(* its worker objects; the default slice is in ClusterRegistration.        *)
(***************************************************************************)
EXTENDS Naturals, FiniteSets

CONSTANTS
  User,
  Specs,         \* the ServiceAccount sections users give the project
  Foreign,       \* accounts that users may make in the namespace by hand
  Events,        \* the kinds of events that happen in this instance
  MaxEvents      \* bound: events in a behaviour

AccessType == {"readOnly", "readWrite"}
Account == AccessType \X User
Role == {"worker", "readOnly", "readWrite"}
Kind == {"export", "slice", "cluster", "qos"}
State == {"absent", "live", "deleting"}

ASSUME SpecsAssumption == Specs # {} /\ Specs \subseteq [AccessType -> SUBSET User]
ASSUME ForeignAssumption == Foreign \subseteq Account
ASSUME BoundAssumption == MaxEvents \in Nat

VARIABLES
  configMap,   \* the ConfigMap namespace-labels-config has labels; nobody edits it
  project,     \* the Project: state, finalizer, spec, labels of the ConfigMap
  ns,          \* its namespace: state, and whether labelled as the project's
  roles,       \* the Roles in the namespace
  sa, secret, rb,   \* accounts with their ServiceAccount, Secret, RoleBinding
  foreign,     \* accounts in the namespace that are not the project's
  content,     \* content[k]: what users have put into the namespace
  onboarded,   \* worker slices of the slice have application namespaces
  queued,      \* the project is in the work queue
  pc,          \* where the reconcile is
  spec,        \* the spec it has read
  access,      \* the access type it is at
  todo,        \* accounts it has listed for the current loop
  fresh,       \* the project has not been written since it was read
  events

vars == <<configMap, project, ns, roles, sa, secret, rb, foreign, content, onboarded,
          queued, pc, spec, access, todo, fresh, events>>
access_vars == <<roles, sa, secret, rb>>
users == <<foreign, onboarded>>
local == <<spec, access, todo, fresh>>

NoSpec == [t \in AccessType |-> {}]
NoProject == [state |-> "absent", fin |-> FALSE, spec |-> NoSpec, config |-> FALSE]

(* Faulty variant: the name of an account does not tell the access type.   *)
WantedByName(s, t) == s[t]

(* The accounts the spec s wants for access type t.                        *)
Wanted(s, t) == {<<t, u>> : u \in s[t]}
Of(set, t) == {a \in set : a[1] = t}

Init ==
  /\ configMap \in BOOLEAN /\ project = NoProject
  /\ ns \in [state : {"absent", "active"}, labelled : {FALSE}]
  /\ roles = {} /\ sa = {} /\ secret = {} /\ rb = {}
  /\ foreign \in SUBSET Foreign /\ (ns.state = "absent" => foreign = {})
  /\ onboarded = FALSE
  /\ content = [k \in Kind |-> "absent"]
  /\ queued = FALSE /\ pc = "idle" /\ spec = NoSpec /\ access = "readOnly"
  /\ todo = {} /\ fresh = TRUE /\ events = 0

Event(kind) == kind \in Events /\ events < MaxEvents /\ events' = events + 1

(* The project is written; a reconcile under way now holds an old version. *)
WriteProject(p) == project' = p /\ queued' = TRUE /\ fresh' = (pc = "idle")
-----------------------------------------------------------------------------
(* Users.                                                                  *)

(* validateSANamesIfAlreadyExists, validateRoleBindingIfExists: names that *)
(* clash with somebody else's account are refused, in updates only, those  *)
(* of the reconciler included.                                             *)
validateServiceAccount(s) == \A t \in AccessType : Wanted(s, t) \cap foreign = {}

CreateProject(s) ==
  /\ project.state = "absent" /\ Event("create")
  /\ WriteProject([NoProject EXCEPT !.state = "live", !.spec = s])
  /\ UNCHANGED <<configMap, users, ns, access_vars, content, pc, spec, access, todo>>

ValidateProjectUpdate(s) ==
  /\ project.state = "live" /\ s # project.spec /\ validateServiceAccount(s)
  /\ Event("update")
  /\ WriteProject([project EXCEPT !.spec = s])
  /\ UNCHANGED <<configMap, users, ns, access_vars, content, pc, spec, access, todo>>

(* ValidateProjectDelete refuses while a slice is found.                   *)
ValidateProjectDelete ==
  /\ project.state = "live" /\ content["slice"] = "absent" /\ Event("delete")
  /\ WriteProject(IF project.fin THEN [project EXCEPT !.state = "deleting"] ELSE NoProject)
  /\ UNCHANGED <<configMap, users, ns, access_vars, content, pc, spec, access, todo>>

(* A user adds a cluster, a slice of it or an export of that; the webhooks *)
(* want a project namespace and what the object refers to.                 *)
Needs(k) == CASE k = "export" -> content["slice"] # "absent"
              [] k = "slice" -> content["cluster"] = "live"
              [] OTHER -> TRUE

AddContent(k) ==
  /\ k # "qos" /\ content[k] = "absent" /\ ns = [state |-> "active", labelled |-> TRUE]
  /\ Needs(k) /\ Event("content")
  /\ content' = [content EXCEPT ![k] = "live"]
  /\ UNCHANGED <<configMap, users, project, ns, access_vars, queued, pc, local>>

(* A user also makes an account in the namespace by hand, or removes it ...*)
EditAccount(a) ==
  /\ ns.state = "active" /\ a \in Foreign \ sa /\ Event("account")
  /\ foreign' = IF a \in foreign THEN foreign \ {a} ELSE foreign \cup {a}
  /\ UNCHANGED <<configMap, project, ns, access_vars, content, onboarded, queued, pc, local>>

(* ... and takes namespaces of the workers into the slice, or out of it.   *)
OnboardNamespaces ==
  /\ content["slice"] = "live" /\ Event("onboard")
  /\ onboarded' = ~onboarded
  /\ UNCHANGED <<configMap, project, ns, access_vars, foreign, content, queued, pc, local>>
-----------------------------------------------------------------------------
(* The other reconcilers, the namespace controller, the webhooks.          *)

(* Delete calls the webhooks refuse: of a slice with exports or onboarded  *)
(* namespaces, of a cluster or a QoS profile that worker objects of a      *)
(* slice refer to.                                                         *)
checkNamespaceDeboardingStatus(k) == k = "slice" /\ onboarded
validateIfServiceExportConfigExists(k) == k = "slice" /\ content["export"] # "absent"
validateClusterInAnySlice(k) == k = "cluster" /\ content["slice"] # "absent"
validateIfQosExistsOnAnySlice(k) == k = "qos" /\ content["slice"] # "absent"

DeleteRefused(k) ==
  \/ checkNamespaceDeboardingStatus(k)
  \/ validateIfServiceExportConfigExists(k)
  \/ validateClusterInAnySlice(k)
  \/ validateIfQosExistsOnAnySlice(k)

Finalize(k) ==
  /\ content[k] = "deleting"
  /\ content' = [content EXCEPT ![k] = "absent"]
  /\ UNCHANGED <<configMap, users, project, ns, access_vars, queued, pc, local, events>>

(* A namespace that is being deleted loses its contents, in any order ...  *)
TerminateContent(k) ==
  /\ ns.state = "terminating" /\ content[k] = "live" /\ ~DeleteRefused(k)
  /\ content' = [content EXCEPT ![k] = "deleting"]
  /\ UNCHANGED <<configMap, users, project, ns, access_vars, queued, pc, local, events>>

TerminateAccess ==
  /\ ns.state = "terminating" /\ (access_vars # <<{}, {}, {}, {}>> \/ foreign # {})
  /\ roles' = {} /\ sa' = {} /\ secret' = {} /\ rb' = {} /\ foreign' = {}
  /\ UNCHANGED <<configMap, onboarded, project, ns, content, queued, pc, local, events>>

(* ... and goes when nothing is left.                                      *)
NamespaceGone ==
  /\ ns.state = "terminating" /\ access_vars = <<{}, {}, {}, {}>> /\ foreign = {}
  /\ \A k \in Kind : content[k] = "absent"
  /\ ns' = [state |-> "absent", labelled |-> FALSE]
  /\ UNCHANGED <<configMap, users, project, access_vars, content, queued, pc, local, events>>
-----------------------------------------------------------------------------
(* ReconcileProject: how it ends, and how it goes on.                      *)
Done == pc' = "idle" /\ spec' = NoSpec /\ access' = "readOnly" /\ todo' = {} /\ fresh' = TRUE
Abort == Done /\ queued' = TRUE

ReconcileAbsent ==
  /\ pc = "idle" /\ queued /\ project.state = "absent"
  /\ queued' = FALSE
  /\ UNCHANGED <<configMap, users, project, ns, access_vars, content, pc, local, events>>

(* The finalizer, then the labels of the ConfigMap (step 1).  If the       *)
(* webhook refuses that the project stays queued, and is tried again.      *)
ReconcileLive ==
  LET p == [project EXCEPT !.fin = TRUE, !.config = @ \/ configMap] IN
  /\ pc = "idle" /\ queued /\ project.state = "live" /\ validateServiceAccount(project.spec)
  /\ project' = p /\ queued' = (p # project)
  /\ pc' = "namespace" /\ spec' = project.spec
  /\ UNCHANGED <<configMap, users, ns, access_vars, content, access, todo, fresh, events>>

(* Faulty variant: a namespace that is there stays as it is.               *)
CreateNamespaceOnly ==
  /\ pc = "namespace"
  /\ ns' = IF ns.state = "absent" THEN [state |-> "active", labelled |-> TRUE] ELSE ns
  /\ pc' = "worker"
  /\ UNCHANGED <<configMap, users, project, access_vars, content, queued, local, events>>

(* Step 2: the namespace is created, or labelled, in whatever state.       *)
ReconcileProjectNamespace ==
  /\ pc = "namespace"
  /\ ns' = IF ns.state = "absent" THEN [state |-> "active", labelled |-> TRUE]
                                  ELSE [ns EXCEPT !.labelled = TRUE]
  /\ pc' = "worker"
  /\ UNCHANGED <<configMap, users, project, access_vars, content, queued, local, events>>

(* Steps 3 and 4: a role is updated, or created, which a namespace that is *)
(* being deleted does not allow.                                           *)
ReconcileRole(r, next) ==
  /\ pc = r
  /\ IF r \in roles \/ ns.state = "active"
     THEN /\ roles' = roles \cup {r} /\ pc' = next
          /\ UNCHANGED <<queued, local>>
     ELSE Abort /\ UNCHANGED roles
  /\ UNCHANGED <<configMap, users, project, ns, sa, secret, rb, content, events>>

ReconcileWorkerClusterRole == ReconcileRole("worker", "readOnly")
ReconcileReadOnlyRole == ReconcileRole("readOnly", "readWrite")
ReconcileReadWriteRole == ReconcileRole("readWrite", "obsolete")

(* Steps 5 and 6, for one access type after the other.  First what the     *)
(* spec does not ask for is listed, by owner label and access type ...     *)
ListObsolete ==
  /\ pc = "obsolete"
  /\ todo' = Of(sa \cup rb, access) \ Wanted(spec, access)
  /\ pc' = "cleanup"
  /\ UNCHANGED <<configMap, users, project, ns, access_vars, content, queued, spec, access, fresh, events>>

(* Faulty variant: the service account goes, its role binding stays.       *)
DeleteAccountOnly(a) ==
  /\ pc = "cleanup" /\ a \in todo
  /\ sa' = sa \ {a} /\ secret' = secret \ {a} /\ todo' = todo \ {a}
  /\ UNCHANGED <<configMap, users, project, ns, roles, rb, content, queued, pc, spec, access, fresh, events>>

(* ... and deleted: bindings, then accounts, and Kubernetes deletes the    *)
(* token secret of an account that goes.  NotFound is an error.            *)
DeleteObsolete(a) ==
  /\ pc = "cleanup" /\ a \in todo
  /\ \/ /\ a \in rb
        /\ rb' = rb \ {a} /\ todo' = IF a \in sa THEN todo ELSE todo \ {a}
        /\ UNCHANGED <<sa, secret, queued, pc, spec, access, fresh>>
     \/ /\ todo \cap rb = {} /\ a \in sa
        /\ sa' = sa \ {a} /\ secret' = secret \ {a} /\ todo' = todo \ {a}
        /\ UNCHANGED <<rb, queued, pc, spec, access, fresh>>
     \/ /\ a \notin sa \cup rb
        /\ Abort /\ UNCHANGED <<sa, secret, rb>>
  /\ UNCHANGED <<configMap, users, project, ns, roles, content, events>>

StartAccounts ==
  /\ pc = "cleanup" /\ todo = {}
  /\ pc' = "accounts" /\ todo' = Wanted(spec, access)
  /\ UNCHANGED <<configMap, users, project, ns, access_vars, content, queued, spec, access, fresh, events>>

(* The accounts: one that is there is left alone, a new one is created and *)
(* its secret after it.                                                    *)
SkipAccount(a) ==
  /\ pc = "accounts" /\ a \in todo /\ a \in sa \cup foreign
  /\ todo' = todo \ {a}
  /\ UNCHANGED <<configMap, users, project, ns, access_vars, content, queued, pc, spec, access, fresh, events>>

CreateServiceAccount(a) ==
  /\ pc = "accounts" /\ a \in todo /\ a \notin sa \cup foreign
  /\ IF ns.state = "active"
     THEN /\ sa' = sa \cup {a} /\ pc' = "secret"
          /\ UNCHANGED <<queued, local>>
     ELSE Abort /\ UNCHANGED sa
  /\ UNCHANGED <<configMap, users, project, ns, roles, secret, rb, content, events>>

CreateSecret ==
  /\ pc = "secret"
  /\ \E a \in todo : a \in sa \ secret /\ secret' = secret \cup {a} /\ todo' = todo \ {a}
  /\ pc' = "accounts"
  /\ UNCHANGED <<configMap, users, project, ns, roles, sa, rb, content, queued, spec, access, fresh, events>>

StartBindings ==
  /\ pc = "accounts" /\ todo = {}
  /\ pc' = "bindings" /\ todo' = Wanted(spec, access)
  /\ UNCHANGED <<configMap, users, project, ns, access_vars, content, queued, spec, access, fresh, events>>

(* The role bindings: created or updated.                                  *)
CreateOrUpdateRoleBinding(a) ==
  /\ pc = "bindings" /\ a \in todo
  /\ IF a \in rb \/ ns.state = "active"
     THEN rb' = rb \cup {a} /\ todo' = todo \ {a} /\ UNCHANGED <<queued, pc, spec, access, fresh>>
     ELSE Abort /\ UNCHANGED rb
  /\ UNCHANGED <<configMap, users, project, ns, roles, sa, secret, content, events>>

NextAccessType ==
  /\ pc = "bindings" /\ todo = {}
  /\ IF access = "readOnly" THEN access' = "readWrite" /\ pc' = "obsolete"
                            ELSE pc' = "labels" /\ UNCHANGED access
  /\ UNCHANGED <<configMap, users, project, ns, access_vars, content, queued, spec, todo, fresh, events>>

(* Step 7 replaces the labels of the project, those of step 1 included: if *)
(* the ConfigMap has labels, every reconcile makes itself work for another.*)
ReplaceLabels ==
  /\ pc = "labels"
  /\ IF fresh /\ validateServiceAccount(spec)
     THEN /\ project' = [project EXCEPT !.config = FALSE]
          /\ queued' = (queued \/ project.config)
          /\ pc' = "defaultQoS" /\ UNCHANGED local
     ELSE Abort /\ UNCHANGED project
  /\ UNCHANGED <<configMap, users, ns, access_vars, content, events>>

(* Step 8: the default QoS profile.                                        *)
CreateDefaultQoS ==
  /\ pc = "defaultQoS" /\ Done
  /\ content' = IF content["qos"] = "absent" /\ ns.state = "active"
                THEN [content EXCEPT !["qos"] = "live"] ELSE content
  /\ queued' = (queued \/ (content["qos"] = "absent" /\ ns.state # "active"))
  /\ UNCHANGED <<configMap, users, project, ns, access_vars, events>>
-----------------------------------------------------------------------------
(* CleanUpProjectResources: exports, slices, clusters, QoS profiles.       *)
(* Faulty variant: clusters before the slices that use them.               *)
AfterClusters == [export |-> "cluster", cluster |-> "slice", slice |-> "qos", qos |-> "deleteNamespace"]

After == [export |-> "slice", slice |-> "cluster", cluster |-> "qos", qos |-> "deleteNamespace"]

ReconcileDeleting ==
  /\ pc = "idle" /\ queued /\ project.state = "deleting"
  /\ queued' = FALSE /\ pc' = "export"
  /\ UNCHANGED <<configMap, users, project, ns, access_vars, content, local, events>>

(* One kind: everything listed is deleted, or the webhook refuses.         *)
DeleteKind(k) ==
  /\ pc = k
  /\ IF content[k] # "absent" /\ DeleteRefused(k)
     THEN Abort /\ UNCHANGED content
     ELSE /\ content' = [content EXCEPT ![k] = IF @ = "live" THEN "deleting" ELSE @]
          /\ pc' = After[k] /\ UNCHANGED <<queued, local>>
  /\ UNCHANGED <<configMap, users, project, ns, access_vars, events>>

DeleteServiceExportConfigs == DeleteKind("export")
DeleteSliceConfigs == DeleteKind("slice")
DeleteClusters == DeleteKind("cluster")
DeleteSliceQoSConfig == DeleteKind("qos")

(* Faulty variant: the namespace is left to be deleted by somebody else.   *)
SkipNamespace ==
  /\ pc = "deleteNamespace" /\ pc' = "finalizer"
  /\ UNCHANGED <<configMap, users, project, ns, access_vars, content, queued, local, events>>

DeleteNamespace ==
  /\ pc = "deleteNamespace"
  /\ ns' = IF ns.state = "active" THEN [ns EXCEPT !.state = "terminating"] ELSE ns
  /\ pc' = "finalizer"
  /\ UNCHANGED <<configMap, users, project, access_vars, content, queued, local, events>>

RemoveProjectFinalizer ==
  /\ pc = "finalizer"
  /\ IF fresh /\ validateServiceAccount(project.spec)
     THEN project' = NoProject /\ queued' = TRUE /\ Done
     ELSE Abort /\ UNCHANGED project
  /\ UNCHANGED <<configMap, users, ns, access_vars, content, events>>
-----------------------------------------------------------------------------
(* An API call of the reconcile fails.                                     *)
Fail ==
  /\ pc # "idle" /\ Event("error") /\ Abort
  /\ UNCHANGED <<configMap, users, project, ns, access_vars, content>>

(* The manager restarts.                                                   *)
Crash ==
  /\ Event("crash") /\ Done /\ queued' = (project.state # "absent")
  /\ UNCHANGED <<configMap, users, project, ns, access_vars, content>>

Quiet == pc = "idle" /\ ~queued

(* The informers' periodic resync.                                         *)
Resync ==
  /\ "resync" \in Events /\ Quiet /\ project.state # "absent"
  /\ queued' = TRUE
  /\ UNCHANGED <<configMap, users, project, ns, access_vars, content, pc, local, events>>

Environment ==
  \/ \E s \in Specs : CreateProject(s) \/ ValidateProjectUpdate(s)
  \/ ValidateProjectDelete \/ (\E k \in Kind : AddContent(k))
  \/ (\E a \in Account : EditAccount(a)) \/ OnboardNamespaces \/ Fail \/ Crash

Cluster ==
  \/ \E k \in Kind : Finalize(k) \/ TerminateContent(k)
  \/ TerminateAccess \/ NamespaceGone

Reconcile ==
  \/ ReconcileAbsent \/ ReconcileLive \/ ReconcileProjectNamespace
  \/ ReconcileWorkerClusterRole \/ ReconcileReadOnlyRole \/ ReconcileReadWriteRole
  \/ ListObsolete \/ StartAccounts \/ CreateSecret \/ StartBindings \/ NextAccessType
  \/ \E a \in Account :
       DeleteObsolete(a) \/ SkipAccount(a) \/ CreateServiceAccount(a) \/ CreateOrUpdateRoleBinding(a)
  \/ ReplaceLabels \/ CreateDefaultQoS
  \/ ReconcileDeleting \/ DeleteServiceExportConfigs \/ DeleteSliceConfigs
  \/ DeleteClusters \/ DeleteSliceQoSConfig \/ DeleteNamespace
  \/ RemoveProjectFinalizer

Next == Environment \/ Cluster \/ Reconcile \/ Resync

Spec == Init /\ [][Next]_vars
FairSpec ==
  /\ Spec /\ WF_vars(Reconcile) /\ WF_vars(Resync)
  /\ WF_vars(TerminateAccess) /\ WF_vars(NamespaceGone)
  /\ \A k \in Kind : WF_vars(Finalize(k)) /\ WF_vars(TerminateContent(k))
-----------------------------------------------------------------------------
(* Types of the objects and of the reconcile's state.                      *)
TypeOK ==
  /\ configMap \in BOOLEAN
  /\ project \in [state : State, fin : BOOLEAN, spec : [AccessType -> SUBSET User], config : BOOLEAN]
  /\ ns \in [state : {"absent", "active", "terminating"}, labelled : BOOLEAN]
  /\ roles \subseteq Role /\ sa \subseteq Account /\ secret \subseteq Account /\ rb \subseteq Account
  /\ foreign \subseteq Foreign /\ onboarded \in BOOLEAN
  /\ content \in [Kind -> State] /\ queued \in BOOLEAN
  /\ pc \in {"idle", "namespace", "worker", "readOnly", "readWrite", "obsolete", "cleanup",
             "accounts", "secret", "bindings", "labels", "defaultQoS", "deleteNamespace", "finalizer"} \cup Kind
  /\ spec \in [AccessType -> SUBSET User] /\ access \in AccessType
  /\ todo \subseteq Account /\ fresh \in BOOLEAN /\ events \in 0..MaxEvents

(* A project that is gone leaves no namespace of its own that nobody is    *)
(* about to delete: RemoveFinalizer comes after DeleteNamespace.           *)
NamespaceFollows == project.state = "absent" => ns # [state |-> "active", labelled |-> TRUE]

(* When the reconciler has nothing to do, the users of the spec, and only  *)
(* they, have a role binding and an account of the access they are given.  *)
(* Accounts that users make by hand are excepted: one that is removed just *)
(* after a reconcile has passed over it is missed until the next resync.   *)
Granted(except) ==
  \A t \in AccessType :
    /\ Of(rb, t) = Wanted(project.spec, t)
    /\ Of(sa, t) \cup (except \cap Wanted(project.spec, t)) = Wanted(project.spec, t)

QuietIsGranted ==
  Quiet /\ project.state = "live" /\ ns.state = "active" => roles = Role /\ Granted(Foreign)

(* A project that is deleted disappears, whatever is in its namespace, if  *)
(* that is not a slice which keeps namespaces of the workers for ever.     *)
Deleted == project.state = "deleting" ~> (project.state = "absent" \/ []onboarded)

(* The namespace of a project that stays comes to be, with what the spec   *)
(* grants, unless the spec has a name that is somebody else's there; that  *)
(* of a project that has gone goes too.  A slice that keeps namespaces of  *)
(* the workers holds up either deletion.                                   *)
HeldUp == onboarded /\ (project.state = "deleting" \/ ns.state = "terminating")

Provisioned ==
  <>[](HeldUp \/
       IF project.state = "live"
       THEN validateServiceAccount(project.spec) =>
              ns = [state |-> "active", labelled |-> TRUE] /\ Granted({})
       ELSE ns # [state |-> "active", labelled |-> TRUE])
=============================================================================
