---------------------------- MODULE ProjectsProofs ----------------------------
(***************************************************************************)
(* Safety of Projects, proved for any users, specs, foreign accounts and   *)
(* number of events.                                                       *)
(***************************************************************************)
EXTENDS Projects, TLAPS

ObjectsType ==
  /\ configMap \in BOOLEAN
  /\ project \in [state : State, fin : BOOLEAN, spec : [AccessType -> SUBSET User], config : BOOLEAN]
  /\ ns \in [state : {"absent", "active", "terminating"}, labelled : BOOLEAN]
  /\ content \in [Kind -> State] /\ queued \in BOOLEAN /\ events \in 0..MaxEvents

AccessObjectsType ==
  /\ roles \subseteq Role /\ sa \subseteq Account /\ secret \subseteq Account /\ rb \subseteq Account
  /\ foreign \subseteq Foreign /\ onboarded \in BOOLEAN

LocalType ==
  /\ pc \in {"idle", "namespace", "worker", "readOnly", "readWrite", "obsolete", "cleanup",
             "accounts", "secret", "bindings", "labels", "defaultQoS", "deleteNamespace", "finalizer"} \cup Kind
  /\ spec \in [AccessType -> SUBSET User] /\ access \in AccessType
  /\ todo \subseteq Account /\ fresh \in BOOLEAN

Types == ObjectsType /\ AccessObjectsType /\ LocalType

LEMMA Nothing ==
  /\ NoSpec \in [AccessType -> SUBSET User] /\ "readOnly" \in AccessType
  /\ NoProject \in [state : State, fin : BOOLEAN, spec : [AccessType -> SUBSET User], config : BOOLEAN]
  /\ NoProject.state = "absent" /\ NoProject.fin = FALSE
BY DEF NoSpec, NoProject, AccessType, State

(* The accounts a spec wants, and those of an access type.                 *)
LEMMA WantedType ==
  ASSUME NEW s \in [AccessType -> SUBSET User], NEW t \in AccessType
  PROVE  Wanted(s, t) \subseteq Account /\ \A a \in Wanted(s, t) : a[1] = t
BY DEF Wanted, Account

LEMMA DoneType == ASSUME Done PROVE LocalType'
BY Nothing DEF Done, LocalType

LEMMA EventType ==
  ASSUME events \in 0..MaxEvents, NEW kind, Event(kind) PROVE events' \in 0..MaxEvents
BY BoundAssumption DEF Event

LEMMA WriteType ==
  ASSUME ObjectsType, LocalType,
         NEW p \in [state : State, fin : BOOLEAN, spec : [AccessType -> SUBSET User], config : BOOLEAN],
         NEW kind, Event(kind), WriteProject(p), UNCHANGED <<configMap, ns, content, pc, spec, access, todo>>
  PROVE  ObjectsType' /\ LocalType'
BY EventType DEF ObjectsType, LocalType, WriteProject

LEMMA EnvironmentType ==
  ASSUME Types, Environment PROVE Types'
<1> USE DEF Types
<1>1. ASSUME NEW s \in Specs, CreateProject(s) PROVE Types'
  <2>1. [NoProject EXCEPT !.state = "live", !.spec = s] \in
          [state : State, fin : BOOLEAN, spec : [AccessType -> SUBSET User], config : BOOLEAN]
    BY Nothing, SpecsAssumption DEF NoProject, State
  <2> QED BY <1>1, <2>1, WriteType DEF CreateProject, AccessObjectsType, access_vars, users
<1>2. ASSUME NEW s \in Specs, ValidateProjectUpdate(s) PROVE Types'
  <2>1. [project EXCEPT !.spec = s] \in
          [state : State, fin : BOOLEAN, spec : [AccessType -> SUBSET User], config : BOOLEAN]
    BY SpecsAssumption DEF ObjectsType
  <2> QED BY <1>2, <2>1, WriteType DEF ValidateProjectUpdate, AccessObjectsType, access_vars, users
<1>3. ASSUME ValidateProjectDelete PROVE Types'
  <2>1. (IF project.fin THEN [project EXCEPT !.state = "deleting"] ELSE NoProject) \in
          [state : State, fin : BOOLEAN, spec : [AccessType -> SUBSET User], config : BOOLEAN]
    BY Nothing DEF ObjectsType, State
  <2> QED BY <1>3, <2>1, WriteType DEF ValidateProjectDelete, AccessObjectsType, access_vars, users
<1>4. ASSUME NEW k \in Kind, AddContent(k) PROVE Types'
  BY <1>4, EventType
     DEF AddContent, ObjectsType, AccessObjectsType, LocalType, State, access_vars, local, users
<1>5. ASSUME Fail PROVE Types'
  BY <1>5, EventType, DoneType DEF Fail, Abort, ObjectsType, AccessObjectsType, access_vars, users
<1>6. ASSUME Crash PROVE Types'
  BY <1>6, EventType, DoneType DEF Crash, ObjectsType, AccessObjectsType, access_vars, users
<1>7. ASSUME NEW a \in Account, EditAccount(a) PROVE Types'
  BY <1>7, EventType DEF EditAccount, ObjectsType, AccessObjectsType, LocalType, access_vars, local
<1>8. ASSUME OnboardNamespaces PROVE Types'
  BY <1>8, EventType DEF OnboardNamespaces, ObjectsType, AccessObjectsType, LocalType, access_vars, local
<1> QED BY <1>1, <1>2, <1>3, <1>4, <1>5, <1>6, <1>7, <1>8 DEF Environment

LEMMA ClusterType ==
  ASSUME Types, Cluster \/ Resync PROVE Types'
<1> USE DEF Types, ObjectsType, AccessObjectsType, LocalType, local, users
<1>1. ASSUME NEW k \in Kind, Finalize(k) PROVE Types'
  BY <1>1 DEF Finalize, State, access_vars
<1>2. ASSUME NEW k \in Kind, TerminateContent(k) PROVE Types'
  BY <1>2 DEF TerminateContent, State, access_vars
<1>3. ASSUME TerminateAccess PROVE Types'
  BY <1>3 DEF TerminateAccess
<1>4. ASSUME NamespaceGone PROVE Types'
  BY <1>4 DEF NamespaceGone, access_vars
<1>5. ASSUME Resync PROVE Types'
  BY <1>5 DEF Resync, access_vars
<1> QED BY <1>1, <1>2, <1>3, <1>4, <1>5 DEF Cluster

LEMMA AbortType ==
  ASSUME Types, Abort, UNCHANGED <<configMap, project, ns, content, events>>, AccessObjectsType'
  PROVE  Types'
BY DoneType DEF Abort, Types, ObjectsType

(* The reconcile of a live project, up to its last loop ...                *)
LEMMA PrepareType ==
  ASSUME Types,
         \/ ReconcileAbsent \/ ReconcileLive \/ ReconcileProjectNamespace
         \/ ReconcileWorkerClusterRole \/ ReconcileReadOnlyRole \/ ReconcileReadWriteRole
  PROVE  Types'
<1>1. CASE ReconcileAbsent
  BY <1>1 DEF ReconcileAbsent, Types, ObjectsType, AccessObjectsType, LocalType, access_vars, local, users
<1>2. CASE ReconcileLive
  BY <1>2 DEF ReconcileLive, Types, ObjectsType, AccessObjectsType, LocalType, access_vars, users
<1>3. CASE ReconcileProjectNamespace
  BY <1>3 DEF ReconcileProjectNamespace, Types, ObjectsType, AccessObjectsType, LocalType, access_vars, local, users
<1>4. ASSUME NEW r \in Role, NEW next \in {"readOnly", "readWrite", "obsolete"}, ReconcileRole(r, next)
      PROVE  Types'
  <2>1. CASE r \in roles \/ ns.state = "active"
    BY ZenonT(60), <1>4, <2>1 DEF ReconcileRole, Types, ObjectsType, AccessObjectsType, LocalType, local, users
  <2>2. CASE ~(r \in roles \/ ns.state = "active")
    BY <1>4, <2>2, AbortType DEF ReconcileRole, Types, AccessObjectsType, users
  <2> QED BY <2>1, <2>2
<1> QED BY <1>1, <1>2, <1>3, <1>4
        DEF ReconcileWorkerClusterRole, ReconcileReadOnlyRole, ReconcileReadWriteRole, Role

LEMMA LoopsType ==
  ASSUME Types,
         \/ ListObsolete \/ StartAccounts \/ CreateSecret \/ StartBindings \/ NextAccessType
         \/ \E a \in Account :
              DeleteObsolete(a) \/ SkipAccount(a) \/ CreateServiceAccount(a) \/ CreateOrUpdateRoleBinding(a)
  PROVE  Types'
<1> USE DEF Types, ObjectsType, AccessObjectsType, LocalType, local, users
<1>1. CASE ListObsolete
  BY <1>1 DEF ListObsolete, access_vars, Of
<1>2. CASE StartAccounts
  BY <1>2, WantedType DEF StartAccounts, access_vars, users
<1>3. CASE CreateSecret
  BY <1>3 DEF CreateSecret
<1>4. CASE StartBindings
  BY <1>4, WantedType DEF StartBindings, access_vars, users
<1>5. CASE NextAccessType
  BY <1>5 DEF NextAccessType, access_vars, AccessType
<1>6. ASSUME NEW a \in Account, DeleteObsolete(a) PROVE Types'
  <2>1. CASE a \in sa \cup rb
    BY <1>6, <2>1 DEF DeleteObsolete
  <2>2. CASE a \notin sa \cup rb
    BY <1>6, <2>2, AbortType DEF DeleteObsolete
  <2> QED BY <2>1, <2>2
<1>7. ASSUME NEW a \in Account, SkipAccount(a) PROVE Types'
  BY <1>7 DEF SkipAccount, access_vars, users
<1>8. ASSUME NEW a \in Account, CreateServiceAccount(a) PROVE Types'
  <2>1. CASE ns.state = "active"
    BY <1>8, <2>1 DEF CreateServiceAccount
  <2>2. CASE ns.state # "active"
    BY <1>8, <2>2, AbortType DEF CreateServiceAccount
  <2> QED BY <2>1, <2>2
<1>9. ASSUME NEW a \in Account, CreateOrUpdateRoleBinding(a) PROVE Types'
  <2>1. CASE a \in rb \/ ns.state = "active"
    BY <1>9, <2>1 DEF CreateOrUpdateRoleBinding
  <2>2. CASE ~(a \in rb \/ ns.state = "active")
    BY <1>9, <2>2, AbortType DEF CreateOrUpdateRoleBinding
  <2> QED BY <2>1, <2>2
<1> QED BY <1>1, <1>2, <1>3, <1>4, <1>5, <1>6, <1>7, <1>8, <1>9

(* ... its end, and the deletion.                                          *)
LEMMA EndType ==
  ASSUME Types,
         \/ ReplaceLabels \/ CreateDefaultQoS \/ ReconcileDeleting \/ DeleteNamespace
         \/ RemoveProjectFinalizer \/ \E k \in Kind : DeleteKind(k)
  PROVE  Types'
<1>1. CASE ReplaceLabels
  <2>1. CASE fresh /\ validateServiceAccount(spec)
    BY <1>1, <2>1 DEF ReplaceLabels, Types, ObjectsType, AccessObjectsType, LocalType, access_vars, local, users
  <2>2. CASE ~(fresh /\ validateServiceAccount(spec))
    BY <1>1, <2>2, AbortType DEF ReplaceLabels, Types, AccessObjectsType, access_vars, users
  <2> QED BY <2>1, <2>2
<1>2. CASE CreateDefaultQoS
  BY <1>2, DoneType DEF CreateDefaultQoS, Types, ObjectsType, AccessObjectsType, access_vars, users, Kind, State
<1>3. CASE ReconcileDeleting
  BY <1>3 DEF ReconcileDeleting, Types, ObjectsType, AccessObjectsType, LocalType, access_vars, local, users, Kind
<1>4. CASE DeleteNamespace
  BY <1>4 DEF DeleteNamespace, Types, ObjectsType, AccessObjectsType, LocalType, access_vars, local, users
<1>5. CASE RemoveProjectFinalizer
  <2>1. CASE fresh /\ validateServiceAccount(project.spec)
    BY <1>5, <2>1, DoneType, Nothing
       DEF RemoveProjectFinalizer, Types, ObjectsType, AccessObjectsType, access_vars, users
  <2>2. CASE ~(fresh /\ validateServiceAccount(project.spec))
    BY <1>5, <2>2, AbortType DEF RemoveProjectFinalizer, Types, AccessObjectsType, access_vars, users
  <2> QED BY <2>1, <2>2
<1>6. ASSUME NEW k \in Kind, DeleteKind(k) PROVE Types'
  <2>1. CASE content[k] # "absent" /\ DeleteRefused(k)
    BY <1>6, <2>1, AbortType DEF DeleteKind, Types, AccessObjectsType, access_vars, users
  <2>2. CASE ~(content[k] # "absent" /\ DeleteRefused(k))
    <3>1. After[k] \in Kind \cup {"deleteNamespace"}
      BY DEF After, Kind
    <3> QED BY <1>6, <2>2, <3>1
            DEF DeleteKind, Types, ObjectsType, AccessObjectsType, LocalType, access_vars, local, users, State
  <2> QED BY <2>1, <2>2
<1> QED BY <1>1, <1>2, <1>3, <1>4, <1>5, <1>6

LEMMA DeleteKinds ==
  DeleteServiceExportConfigs \/ DeleteSliceConfigs \/ DeleteClusters \/ DeleteSliceQoSConfig =>
    \E k \in Kind : DeleteKind(k)
BY DEF DeleteServiceExportConfigs, DeleteSliceConfigs, DeleteClusters, DeleteSliceQoSConfig, Kind

LEMMA TypeStep ==
  ASSUME Types, [Next]_vars PROVE Types'
<1>1. CASE Reconcile
  BY <1>1, PrepareType, LoopsType, EndType, DeleteKinds DEF Reconcile
<1>2. CASE UNCHANGED vars
  BY <1>2 DEF vars, access_vars, local, users, Types, ObjectsType, AccessObjectsType, LocalType
<1> QED BY <1>1, <1>2, EnvironmentType, ClusterType DEF Next

LEMMA TypeInit == Init => Types
<1> SUFFICES ASSUME Init PROVE Types
  OBVIOUS
<1>1. content \in [Kind -> State] /\ queued \in BOOLEAN /\ events \in 0..MaxEvents
  <2>1. "absent" \in State
    BY DEF State
  <2>2. content \in [Kind -> State]
    BY <2>1 DEF Init
  <2>3. queued = FALSE /\ events = 0
    BY DEF Init
  <2>4. events \in 0..MaxEvents
    BY <2>3, BoundAssumption
  <2> QED BY <2>2, <2>3, <2>4
<1>2. ns \in [state : {"absent", "active", "terminating"}, labelled : BOOLEAN]
  BY DEF Init
<1>3. ObjectsType
  BY <1>1, <1>2, Nothing DEF Init, ObjectsType
<1>4. AccessObjectsType /\ LocalType
  BY Nothing DEF Init, AccessObjectsType, LocalType
<1> QED BY <1>3, <1>4 DEF Types

(* Objects and the reconcile's state keep their types.                     *)
THEOREM TypeCorrect == Spec => []TypeOK
<1>1. Types /\ [Next]_vars => Types'
  BY TypeStep
<1>2. Types => TypeOK
  BY DEF Types, ObjectsType, AccessObjectsType, LocalType, TypeOK
<1> QED BY <1>1, <1>2, TypeInit, PTL DEF Spec
-----------------------------------------------------------------------------
(* The project's namespace.  It is made and labelled under the project's   *)
(* finalizer, which goes when the namespace has been deleted.              *)
Own == [state |-> "active", labelled |-> TRUE]

NamespaceInv ==
  /\ project.state = "absent" => ~project.fin
  /\ ~project.fin => ns # Own
  /\ pc = "namespace" => project.fin
  /\ pc = "finalizer" => ns.state # "active"

LEMMA WritesKeepNamespace ==
  ASSUME Types, NamespaceInv, Environment PROVE NamespaceInv'
<1>1. ASSUME NEW s \in Specs, CreateProject(s) PROVE NamespaceInv'
  <2>1. project' = [NoProject EXCEPT !.state = "live", !.spec = s]
    BY <1>1 DEF CreateProject, WriteProject
  <2>2. project'.state = "live" /\ project'.fin = FALSE
    BY <2>1 DEF NoProject
  <2> QED BY <1>1, <2>2 DEF CreateProject, NamespaceInv, Own
<1>2. ASSUME NEW s \in Specs, ValidateProjectUpdate(s) PROVE NamespaceInv'
  <2>1. project'.state = project.state /\ project'.fin = project.fin
    BY <1>2 DEF ValidateProjectUpdate, WriteProject, Types, ObjectsType
  <2> QED BY <1>2, <2>1 DEF ValidateProjectUpdate, NamespaceInv, Own
<1>3. ASSUME ValidateProjectDelete PROVE NamespaceInv'
  <2>1. CASE project.fin
    <3>1. project'.state = "deleting" /\ project'.fin
      BY <1>3, <2>1 DEF ValidateProjectDelete, WriteProject, Types, ObjectsType
    <3> QED BY <1>3, <2>1, <3>1 DEF ValidateProjectDelete, NamespaceInv, Own
  <2>2. CASE ~project.fin
    <3>1. project'.state = "absent" /\ ~project'.fin
      BY <1>3, <2>2, Nothing DEF ValidateProjectDelete, WriteProject
    <3> QED BY <1>3, <2>2, <3>1 DEF ValidateProjectDelete, NamespaceInv, Own
  <2> QED BY <2>1, <2>2
<1>4. ASSUME NEW k \in Kind, AddContent(k) PROVE NamespaceInv'
  BY <1>4 DEF AddContent, NamespaceInv, Own
<1>5. ASSUME (\E a \in Account : EditAccount(a)) \/ OnboardNamespaces PROVE NamespaceInv'
  BY <1>5 DEF EditAccount, OnboardNamespaces, NamespaceInv, Own
<1>6. ASSUME Fail \/ Crash PROVE NamespaceInv'
  BY <1>6 DEF Fail, Crash, Abort, Done, NamespaceInv, Own
<1> QED BY <1>1, <1>2, <1>3, <1>4, <1>5, <1>6 DEF Environment

LEMMA ClusterKeepsNamespace ==
  ASSUME NamespaceInv, Cluster \/ Resync PROVE NamespaceInv'
<1>1. CASE NamespaceGone
  BY <1>1 DEF NamespaceGone, NamespaceInv, Own
<1>2. CASE UNCHANGED <<project, ns, pc>>
  BY <1>2 DEF NamespaceInv, Own
<1> QED BY <1>1, <1>2 DEF Cluster, Resync, Finalize, TerminateContent, TerminateAccess

LEMMA ReconcileKeepsNamespace ==
  ASSUME Types, NamespaceInv, Reconcile PROVE NamespaceInv'
<1>1. CASE ReconcileLive
  <2>1. project'.state = "live" /\ project'.fin
    BY <1>1 DEF ReconcileLive, Types, ObjectsType
  <2> QED BY <1>1, <2>1 DEF ReconcileLive, NamespaceInv, Own
<1>2. CASE ReconcileProjectNamespace
  BY <1>2 DEF ReconcileProjectNamespace, NamespaceInv
<1>3. CASE ReplaceLabels
  <2>1. project'.state = project.state /\ project'.fin = project.fin
    BY <1>3 DEF ReplaceLabels, Types, ObjectsType
  <2> QED BY <1>3, <2>1 DEF ReplaceLabels, Abort, Done, NamespaceInv, Own
<1>4. CASE DeleteNamespace
  <2>1. ns'.state # "active" /\ UNCHANGED project /\ pc' = "finalizer"
    BY <1>4 DEF DeleteNamespace, Types, ObjectsType
  <2> QED BY <2>1 DEF NamespaceInv, Own
<1>5. CASE RemoveProjectFinalizer
  BY <1>5, Nothing DEF RemoveProjectFinalizer, Abort, Done, NamespaceInv, Own
<1>6. ASSUME UNCHANGED <<project, ns>>, pc' \notin {"namespace", "finalizer"} PROVE NamespaceInv'
  BY <1>6 DEF NamespaceInv, Own
<1>7. CASE ReconcileAbsent
  BY <1>7 DEF ReconcileAbsent, NamespaceInv, Own
<1>8. CASE ReconcileDeleting \/ \E k \in Kind : DeleteKind(k)
  BY <1>8, <1>6 DEF ReconcileDeleting, DeleteKind, Abort, Done, After, Kind
<1>9. CASE ReconcileWorkerClusterRole \/ ReconcileReadOnlyRole \/ ReconcileReadWriteRole
  BY <1>9, <1>6 DEF ReconcileWorkerClusterRole, ReconcileReadOnlyRole, ReconcileReadWriteRole,
     ReconcileRole, Abort, Done
<1>10. CASE ListObsolete \/ StartAccounts \/ CreateSecret \/ StartBindings \/ NextAccessType
            \/ CreateDefaultQoS
  BY <1>10, <1>6 DEF ListObsolete, StartAccounts, CreateSecret, StartBindings, NextAccessType,
     CreateDefaultQoS, Done
<1>11. ASSUME NEW a \in Account,
              DeleteObsolete(a) \/ SkipAccount(a) \/ CreateServiceAccount(a) \/ CreateOrUpdateRoleBinding(a)
       PROVE  NamespaceInv'
  BY <1>11, <1>6 DEF DeleteObsolete, SkipAccount, CreateServiceAccount, CreateOrUpdateRoleBinding,
     Abort, Done
<1> QED BY <1>1, <1>2, <1>3, <1>4, <1>5, <1>7, <1>8, <1>9, <1>10, <1>11, DeleteKinds DEF Reconcile

(* A project that is gone leaves no namespace of its own that nobody is    *)
(* about to delete, although users delete the project and make it again    *)
(* while a reconcile is under way, which may fail anywhere.                *)
THEOREM NamespaceFollowsCorrect == Spec => []NamespaceFollows
<1>1. Init => NamespaceInv
  <2>1. Init => ns.labelled = FALSE /\ Own.labelled = TRUE
    BY DEF Init, Own
  <2> QED BY <2>1, Nothing DEF Init, NamespaceInv
<1>2. Types /\ NamespaceInv /\ [Next]_vars => NamespaceInv'
  <2>1. UNCHANGED vars /\ NamespaceInv => NamespaceInv'
    BY DEF vars, NamespaceInv, Own
  <2> QED BY <2>1, WritesKeepNamespace, ClusterKeepsNamespace, ReconcileKeepsNamespace DEF Next
<1>3. NamespaceInv => NamespaceFollows
  BY DEF NamespaceInv, NamespaceFollows, Own
<1> QED BY <1>1, <1>2, <1>3, TypeInit, TypeStep, PTL DEF Spec
-----------------------------------------------------------------------------
(* What is granted, while the reconcile goes through it step by step.      *)
AccessPc == {"obsolete", "cleanup", "accounts", "secret", "bindings"}
LivePc == {"namespace"} \cup Role \cup AccessPc \cup {"labels", "defaultQoS"}
DeletionPc == Kind \cup {"deleteNamespace", "finalizer"}

(* Bindings R and accounts S are what s grants for access type t.          *)
Gives(R, S, s, t) ==
  /\ Of(R, t) = Wanted(s, t)
  /\ Of(S, t) \cup (Foreign \cap Wanted(s, t)) = Wanted(s, t)

(* The reconcile works for the project as it is, or will be repeated; a    *)
(* project that is made anew during a deletion is in the queue.            *)
Linked ==
  /\ pc \in LivePc => queued \/ (project.state = "live" => spec = project.spec)
  /\ pc \in DeletionPc => queued \/ project.state # "live"
  /\ pc \in {"idle", "namespace"} \cup Role => access = "readOnly"

RolesDone ==
  /\ pc = "readOnly" => "worker" \in roles
  /\ pc = "readWrite" => "worker" \in roles /\ "readOnly" \in roles
  /\ pc \in AccessPc \cup {"labels", "defaultQoS"} => roles = Role

(* Where the loops over the accounts of the current access type are ...    *)
Current ==
  LET wanted == Wanted(spec, access) IN
  /\ pc = "cleanup" => /\ \A a \in todo : a[1] = access
                       /\ Of(sa \cup rb, access) \subseteq wanted \cup todo
                       /\ todo \cap wanted = {}
  /\ pc \in {"accounts", "secret", "bindings"} =>
       Of(sa \cup rb, access) \subseteq wanted /\ todo \subseteq wanted
  /\ pc \in {"accounts", "secret"} => wanted \subseteq sa \cup Foreign \cup todo
  /\ pc = "bindings" => wanted \subseteq sa \cup Foreign /\ wanted \subseteq rb \cup todo

(* ... and the access types that are done with.                            *)
Earlier ==
  /\ pc \in AccessPc /\ access = "readWrite" => Gives(rb, sa, spec, "readOnly")
  /\ pc \in {"labels", "defaultQoS"} =>
       Gives(rb, sa, spec, "readOnly") /\ Gives(rb, sa, spec, "readWrite")

AtRest ==
  pc = "idle" /\ ~queued /\ project.state = "live" =>
    /\ roles = Role
    /\ Gives(rb, sa, project.spec, "readOnly") /\ Gives(rb, sa, project.spec, "readWrite")

(* A namespace that is not active never becomes so with anything in it:    *)
(* what is granted has to be shown for an active one only.                 *)
GrantInv ==
  /\ Linked
  /\ ns.state = "active" => RolesDone /\ Current /\ Earlier /\ AtRest

LEMMA GivesKeeps ==
  ASSUME NEW R, NEW S, NEW R2, NEW S2, NEW s, NEW t, Gives(R, S, s, t),
         \A b : b[1] = t => (b \in R2 <=> b \in R) /\ (b \in S2 <=> b \in S)
  PROVE  Gives(R2, S2, s, t)
<1>1. Of(R2, t) = Of(R, t) /\ Of(S2, t) = Of(S, t)
  BY DEF Of
<1> QED BY <1>1 DEF Gives

(* A loop over accounts that has got to its end.                           *)
LEMMA GivesAtEnd ==
  ASSUME NEW R, NEW S, NEW s \in [AccessType -> SUBSET User], NEW t \in AccessType,
         Of(S \cup R, t) \subseteq Wanted(s, t), Wanted(s, t) \subseteq S \cup Foreign,
         Wanted(s, t) \subseteq R
  PROVE  Gives(R, S, s, t)
BY WantedType DEF Gives, Of

(* A reconcile that ends with the project in the queue has shown nothing.  *)
LEMMA EndsQueued ==
  ASSUME Done, queued' PROVE GrantInv'
BY DEF Done, GrantInv, Linked, RolesDone, Current, Earlier, AtRest, LivePc, DeletionPc,
   Role, AccessPc, Kind

LEMMA AbortKeeps == ASSUME Abort PROVE GrantInv'
BY EndsQueued DEF Abort

LEMMA OthersKeep ==
  ASSUME GrantInv, UNCHANGED <<pc, spec, access, todo>>,
         queued' \/ UNCHANGED <<project, queued>>,
         ns'.state = "active" => ns.state = "active" /\ UNCHANGED <<roles, sa, rb>>
  PROVE  GrantInv'
<1>1. Linked'
  BY DEF GrantInv, Linked
<1>2. ASSUME ns'.state = "active" PROVE (RolesDone /\ Current /\ Earlier /\ AtRest)'
  BY <1>2 DEF GrantInv, RolesDone, Current, Earlier, AtRest
<1> QED BY <1>1, <1>2 DEF GrantInv

LEMMA EnvironmentKeeps ==
  ASSUME Types, GrantInv, Environment \/ Cluster \/ Resync PROVE GrantInv'
<1>1. ASSUME NEW s \in Specs, CreateProject(s) \/ ValidateProjectUpdate(s) PROVE GrantInv'
  BY <1>1, OthersKeep DEF CreateProject, ValidateProjectUpdate, WriteProject, access_vars
<1>2. ASSUME ValidateProjectDelete PROVE GrantInv'
  BY <1>2, OthersKeep DEF ValidateProjectDelete, WriteProject, access_vars
<1>3. ASSUME NEW k \in Kind, AddContent(k) \/ Finalize(k) \/ TerminateContent(k) PROVE GrantInv'
  BY <1>3, OthersKeep DEF AddContent, Finalize, TerminateContent, access_vars, local
<1>4. ASSUME (\E a \in Account : EditAccount(a)) \/ OnboardNamespaces PROVE GrantInv'
  BY <1>4, OthersKeep DEF EditAccount, OnboardNamespaces, access_vars, local
<1>5. ASSUME TerminateAccess PROVE GrantInv'
  BY <1>5, OthersKeep DEF TerminateAccess, local
<1>6. ASSUME NamespaceGone PROVE GrantInv'
  BY <1>6, OthersKeep DEF NamespaceGone, access_vars, local
<1>7. ASSUME Resync PROVE GrantInv'
  BY <1>7, OthersKeep DEF Resync, access_vars, local
<1>8. ASSUME Fail PROVE GrantInv'
  BY <1>8, AbortKeeps DEF Fail
<1>9. ASSUME Crash PROVE GrantInv'
  <2>1. CASE project.state = "absent"
    BY <1>9, <2>1 DEF Crash, Done, GrantInv, Linked, RolesDone, Current, Earlier, AtRest, LivePc,
       DeletionPc, Role, AccessPc, Kind
  <2>2. CASE project.state # "absent"
    BY <1>9, <2>2, EndsQueued DEF Crash
  <2> QED BY <2>1, <2>2
<1> QED BY <1>1, <1>2, <1>3, <1>4, <1>5, <1>6, <1>7, <1>8, <1>9 DEF Environment, Cluster

LEMMA PrepareKeeps ==
  ASSUME Types, GrantInv,
         \/ ReconcileAbsent \/ ReconcileLive \/ ReconcileProjectNamespace
         \/ ReconcileWorkerClusterRole \/ ReconcileReadOnlyRole \/ ReconcileReadWriteRole
  PROVE  GrantInv'
<1> USE DEF LivePc, DeletionPc, Role, AccessPc, Kind
<1>1. CASE ReconcileAbsent
  BY <1>1 DEF ReconcileAbsent, local, access_vars, GrantInv, Linked, RolesDone, Current, Earlier, AtRest
<1>2. CASE ReconcileLive
  <2>1. project'.spec = project.spec /\ access = "readOnly"
    BY <1>2 DEF ReconcileLive, Types, ObjectsType, GrantInv, Linked
  <2>2. Linked'
    BY <1>2, <2>1 DEF ReconcileLive, Linked
  <2> QED BY <1>2, <2>2 DEF ReconcileLive, GrantInv, RolesDone, Current, Earlier, AtRest
<1>3. CASE ReconcileProjectNamespace
  <2>1. Linked'
    BY <1>3 DEF ReconcileProjectNamespace, local, GrantInv, Linked
  <2> QED BY <1>3, <2>1 DEF ReconcileProjectNamespace, GrantInv, RolesDone, Current, Earlier, AtRest
<1>4. ASSUME NEW r \in Role, NEW next, ReconcileRole(r, next), r \in roles \/ ns.state = "active",
             \/ r = "worker" /\ next = "readOnly"
             \/ r = "readOnly" /\ next = "readWrite"
             \/ r = "readWrite" /\ next = "obsolete"
      PROVE  GrantInv'
  <2>1. Linked' /\ access' = "readOnly"
    BY <1>4 DEF ReconcileRole, local, GrantInv, Linked
  <2>2. ns.state = "active" => RolesDone'
    BY <1>4 DEF ReconcileRole, GrantInv, RolesDone, Types, AccessObjectsType
  <2> QED BY <1>4, <2>1, <2>2 DEF ReconcileRole, GrantInv, Current, Earlier, AtRest
<1>5. ASSUME NEW r \in Role, NEW next, ReconcileRole(r, next), ~(r \in roles \/ ns.state = "active")
      PROVE  GrantInv'
  BY <1>5, AbortKeeps DEF ReconcileRole
<1> QED BY <1>1, <1>2, <1>3, <1>4, <1>5
        DEF ReconcileWorkerClusterRole, ReconcileReadOnlyRole, ReconcileReadWriteRole

LEMMA LoopsKeep ==
  ASSUME Types, GrantInv,
         \/ ListObsolete \/ StartAccounts \/ CreateSecret \/ StartBindings \/ NextAccessType
         \/ \E a \in Account :
              DeleteObsolete(a) \/ SkipAccount(a) \/ CreateServiceAccount(a) \/ CreateOrUpdateRoleBinding(a)
  PROVE  GrantInv'
<1>1. spec \in [AccessType -> SUBSET User] /\ access \in AccessType
  BY DEF Types, LocalType
<1>2. \A a \in Wanted(spec, access) : a[1] = access
  BY <1>1, WantedType
<1> USE DEF LivePc, DeletionPc, Role, AccessPc, Kind
<1>3. CASE ListObsolete
  BY <1>3 DEF ListObsolete, access_vars, Of, GrantInv, Linked, RolesDone, Current, Earlier, AtRest
<1>4. CASE StartAccounts
  BY <1>4 DEF StartAccounts, access_vars, GrantInv, Linked, RolesDone, Current, Earlier, AtRest
<1>5. CASE CreateSecret
  BY <1>5 DEF CreateSecret, GrantInv, Linked, RolesDone, Current, Earlier, AtRest
<1>6. CASE StartBindings
  BY <1>6 DEF StartBindings, access_vars, GrantInv, Linked, RolesDone, Current, Earlier, AtRest
<1>7. CASE NextAccessType
  <2>1. ns.state = "active" => Gives(rb, sa, spec, access)
    BY <1>1, <1>7, GivesAtEnd DEF NextAccessType, GrantInv, Current
  <2>2. CASE access = "readOnly"
    BY <1>7, <2>1, <2>2
       DEF NextAccessType, access_vars, GrantInv, Linked, RolesDone, Current, Earlier, AtRest
  <2>3. CASE access = "readWrite"
    BY <1>7, <2>1, <2>3
       DEF NextAccessType, access_vars, GrantInv, Linked, RolesDone, Current, Earlier, AtRest
  <2> QED BY <1>1, <2>2, <2>3 DEF AccessType
<1>8. ASSUME NEW a \in Account, DeleteObsolete(a), a \in sa \cup rb PROVE GrantInv'
  <2>1. pc = "cleanup" /\ pc' = pc /\ a \in todo /\ UNCHANGED <<ns, project, queued, spec, access, roles>>
    BY <1>8 DEF DeleteObsolete
  <2>2. ASSUME ns.state = "active" PROVE (Current /\ Earlier)'
    <3>1. a[1] = access /\ a \notin Wanted(spec, access)
      BY <2>1, <2>2 DEF GrantInv, Current
    <3>2. Current'
      BY <1>8, <2>1, <2>2, <3>1 DEF DeleteObsolete, GrantInv, Current, Of
    <3>3. \A b : b[1] # access => (b \in rb' <=> b \in rb) /\ (b \in sa' <=> b \in sa)
      BY <1>8, <3>1 DEF DeleteObsolete
    <3>4. Earlier'
      BY <2>1, <2>2, <3>3, GivesKeeps DEF GrantInv, Earlier
    <3> QED BY <3>2, <3>4
  <2> QED BY <2>1, <2>2 DEF GrantInv, Linked, RolesDone, AtRest
<1>9. ASSUME NEW a \in Account, DeleteObsolete(a), a \notin sa \cup rb PROVE GrantInv'
  BY <1>9, AbortKeeps DEF DeleteObsolete
<1>10. ASSUME NEW a \in Account, SkipAccount(a) PROVE GrantInv'
  <2>1. a \in sa \cup Foreign
    BY <1>10 DEF SkipAccount, Types, AccessObjectsType
  <2> QED BY <1>10, <2>1
          DEF SkipAccount, access_vars, GrantInv, Linked, RolesDone, Current, Earlier, AtRest
<1>11. ASSUME NEW a \in Account, CreateServiceAccount(a), ns.state = "active" PROVE GrantInv'
  <2>1. a \in Wanted(spec, access) /\ pc = "accounts"
    BY <1>11 DEF CreateServiceAccount, GrantInv, Current
  <2>2. \A b : b[1] # access => (b \in sa' <=> b \in sa)
    BY <1>2, <1>11, <2>1 DEF CreateServiceAccount
  <2>3. Current'
    BY <1>11, <2>1 DEF CreateServiceAccount, local, GrantInv, Current, Of
  <2>4. Earlier'
    BY <1>11, <2>1, <2>2, GivesKeeps DEF CreateServiceAccount, local, GrantInv, Earlier
  <2> QED BY <1>11, <2>3, <2>4 DEF CreateServiceAccount, local, GrantInv, Linked, RolesDone, AtRest
<1>12. ASSUME NEW a \in Account, CreateServiceAccount(a), ns.state # "active" PROVE GrantInv'
  BY <1>12, AbortKeeps DEF CreateServiceAccount
<1>13. ASSUME NEW a \in Account, CreateOrUpdateRoleBinding(a), a \in rb \/ ns.state = "active"
       PROVE  GrantInv'
  <2>1. pc = "bindings" /\ pc' = pc /\ UNCHANGED <<ns, project, queued, spec, access, roles, sa>>
    BY <1>13 DEF CreateOrUpdateRoleBinding
  <2>2. ASSUME ns.state = "active" PROVE (Current /\ Earlier)'
    <3>1. a \in Wanted(spec, access) /\ a[1] = access
      BY <1>2, <1>13, <2>2 DEF CreateOrUpdateRoleBinding, GrantInv, Current
    <3>2. \A b : b[1] # access => (b \in rb' <=> b \in rb)
      BY <1>13, <3>1 DEF CreateOrUpdateRoleBinding
    <3>3. Current'
      BY <1>13, <2>1, <2>2, <3>1 DEF CreateOrUpdateRoleBinding, GrantInv, Current, Of
    <3>4. Earlier'
      BY <2>1, <2>2, <3>2, GivesKeeps DEF GrantInv, Earlier
    <3> QED BY <3>3, <3>4
  <2> QED BY <2>1, <2>2 DEF GrantInv, Linked, RolesDone, AtRest
<1>14. ASSUME NEW a \in Account, CreateOrUpdateRoleBinding(a), ~(a \in rb \/ ns.state = "active")
       PROVE  GrantInv'
  BY <1>14, AbortKeeps DEF CreateOrUpdateRoleBinding
<1> QED BY <1>3, <1>4, <1>5, <1>6, <1>7, <1>8, <1>9, <1>10, <1>11, <1>12, <1>13, <1>14

LEMMA EndKeeps ==
  ASSUME Types, GrantInv,
         \/ ReplaceLabels \/ CreateDefaultQoS \/ ReconcileDeleting \/ DeleteNamespace
         \/ RemoveProjectFinalizer \/ \E k \in Kind : DeleteKind(k)
  PROVE  GrantInv'
<1> USE DEF LivePc, DeletionPc, Role, AccessPc, Kind
<1>1. CASE ReplaceLabels
  <2>1. CASE fresh /\ validateServiceAccount(spec)
    <3>1. project'.state = project.state /\ project'.spec = project.spec
      BY <1>1, <2>1 DEF ReplaceLabels, Types, ObjectsType
    <3>2. Linked'
      BY <1>1, <2>1, <3>1 DEF ReplaceLabels, local, GrantInv, Linked
    <3> QED BY <1>1, <2>1, <3>2
            DEF ReplaceLabels, local, access_vars, GrantInv, RolesDone, Current, Earlier, AtRest
  <2>2. CASE ~(fresh /\ validateServiceAccount(spec))
    BY <1>1, <2>2, AbortKeeps DEF ReplaceLabels
  <2> QED BY <2>1, <2>2
<1>2. CASE CreateDefaultQoS
  <2>1. CASE queued'
    BY <1>2, <2>1, EndsQueued DEF CreateDefaultQoS
  <2>2. CASE ~queued'
    <3>1. project.state = "live" => spec = project.spec
      BY <1>2, <2>2 DEF CreateDefaultQoS, GrantInv, Linked
    <3>2. ns'.state = "active" => AtRest'
      BY <1>2, <3>1 DEF CreateDefaultQoS, access_vars, GrantInv, RolesDone, Earlier, AtRest
    <3> QED BY <1>2, <3>2 DEF CreateDefaultQoS, Done, GrantInv, Linked, RolesDone, Current, Earlier
  <2> QED BY <2>1, <2>2
<1>3. CASE ReconcileDeleting
  BY <1>3 DEF ReconcileDeleting, local, GrantInv, Linked, RolesDone, Current, Earlier, AtRest
<1>4. CASE DeleteNamespace
  BY <1>4 DEF DeleteNamespace, local, GrantInv, Linked, RolesDone, Current, Earlier, AtRest
<1>5. CASE RemoveProjectFinalizer
  BY <1>5, EndsQueued, AbortKeeps DEF RemoveProjectFinalizer
<1>6. ASSUME NEW k \in Kind, DeleteKind(k) PROVE GrantInv'
  <2>1. CASE content[k] # "absent" /\ DeleteRefused(k)
    BY <1>6, <2>1, AbortKeeps DEF DeleteKind
  <2>2. CASE ~(content[k] # "absent" /\ DeleteRefused(k))
    <3>1. After[k] \in Kind \cup {"deleteNamespace"}
      BY DEF After
    <3> QED BY <1>6, <2>2, <3>1
            DEF DeleteKind, local, GrantInv, Linked, RolesDone, Current, Earlier, AtRest
  <2> QED BY <2>1, <2>2
<1> QED BY <1>1, <1>2, <1>3, <1>4, <1>5, <1>6

LEMMA GrantStep ==
  ASSUME Types, GrantInv, [Next]_vars PROVE GrantInv'
<1>1. CASE Reconcile
  BY <1>1, PrepareKeeps, LoopsKeep, EndKeeps, DeleteKinds DEF Reconcile
<1>2. CASE UNCHANGED vars
  BY <1>2, OthersKeep DEF vars
<1> QED BY <1>1, <1>2, EnvironmentKeeps DEF Next

(* When the reconciler has nothing to do, the users of the spec, and only  *)
(* they, have a binding and an account of their access type, however the   *)
(* spec was edited, whatever failed, and whoever made the namespace.       *)
THEOREM QuietIsGrantedCorrect == Spec => []QuietIsGranted
<1>1. Init => GrantInv
  BY Nothing DEF Init, GrantInv, Linked, RolesDone, Current, Earlier, AtRest, LivePc, DeletionPc,
     Role, AccessPc, Kind
<1>2. GrantInv => QuietIsGranted
  <2>1. SUFFICES ASSUME GrantInv, Quiet, project.state = "live", ns.state = "active"
                 PROVE  roles = Role /\ Granted(Foreign)
    BY DEF QuietIsGranted
  <2>2. AtRest
    BY <2>1 DEF GrantInv
  <2> QED BY <2>1, <2>2 DEF AtRest, Quiet, Granted, Gives, AccessType
<1>3. Types /\ GrantInv /\ [Next]_vars => GrantInv'
  BY GrantStep
<1> QED BY <1>1, <1>2, <1>3, TypeInit, TypeStep, PTL DEF Spec
=============================================================================
