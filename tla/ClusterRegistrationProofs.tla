---------------------- MODULE ClusterRegistrationProofs ----------------------
(***************************************************************************)
(* Type correctness of ClusterRegistration and the fate of credentials,    *)
(* proved for any one or two clusters, any namespaces, selections and      *)
(* number of events.                                                       *)
(***************************************************************************)
EXTENDS ClusterRegistration, FiniteSetTheorems, TLAPS

(* The reconcile is at one cluster while it runs, and at none otherwise.   *)
AtOne ==
  /\ pc = "idle" => at = {}
  /\ pc # "idle" => \E c \in Cluster : at = {c}

(* TypeOK without the cardinality.                                         *)
Types ==
  /\ cluster \in [Cluster -> Object] /\ reported \in [Cluster -> Report]
  /\ sa \subseteq Cluster /\ rb \subseteq Cluster
  /\ secret \in [Cluster -> {"none", "good", "stale"}]
  /\ default \in [exists : BOOLEAN, clusters : SUBSET Cluster, apps : SUBSET Pair]
  /\ other \subseteq Pair /\ placed \subseteq Cluster /\ queued \subseteq Cluster /\ late \subseteq Cluster
  /\ timer \subseteq Cluster \X {"short", "long"}
  /\ pc \in {"idle", "account", "secret", "binding", "status", "default", "deregister",
             "unbind", "unaccount", "finalizer"}
  /\ copy \in Object /\ had \in BOOLEAN /\ seen \in Report /\ fresh \in BOOLEAN
  /\ sliceQueued \in BOOLEAN /\ slicePc \in {"idle", "apply", "place"} /\ sliceSpec \subseteq Pair
  /\ events \in 0..MaxEvents

LEMMA TypesAreTypes == Types /\ AtOne <=> TypeOK
<1>1. ASSUME Types, AtOne PROVE TypeOK
  <2>1. at \subseteq Cluster /\ Cardinality(at) = (IF pc = "idle" THEN 0 ELSE 1)
    BY <1>1, FS_EmptySet, FS_Singleton DEF AtOne
  <2> QED BY <1>1, <2>1 DEF Types, TypeOK
<1>2. ASSUME TypeOK PROVE Types /\ AtOne
  <2>1. at \subseteq Cluster /\ IsFiniteSet(at)
    BY <1>2, ClusterAssumption, FS_Subset DEF TypeOK
  <2>2. AtOne
    BY <1>2, <2>1, FS_EmptySet, FS_Singleton DEF TypeOK, AtOne
  <2> QED BY <1>2, <2>2 DEF Types, TypeOK
<1> QED BY <1>1, <1>2

LEMMA MeIsAt ==
  ASSUME AtOne, pc # "idle" PROVE Me \in Cluster /\ at = {Me}
<1>1. PICK c \in Cluster : at = {c}
  BY DEF AtOne
<1>2. \A d \in Cluster : at = {d} <=> d = c
  BY <1>1
<1> QED BY <1>1, <1>2 DEF Me

LEMMA Empties ==
  /\ NoObject \in Object /\ NoReport \in Report
  /\ NoObject.state = "absent" /\ ~NoObject.fin
BY DEF NoObject, Object, Status, NoReport, Report

(* The fields of a cluster that are set one by one.                        *)
LEMMA FinalizerType ==
  ASSUME NEW f \in [Cluster -> Object], NEW c \in Cluster
  PROVE  [f EXCEPT ![c].fin = TRUE] \in [Cluster -> Object]
<1>1. [f[c] EXCEPT !.fin = TRUE] \in Object
  BY DEF Object
<1> QED BY <1>1

LEMMA ProgressType ==
  ASSUME NEW f \in [Cluster -> Object], NEW c \in Cluster
  PROVE  [f EXCEPT ![c].progress = TRUE] \in [Cluster -> Object]
<1>1. [f[c] EXCEPT !.progress = TRUE] \in Object
  BY DEF Object
<1> QED BY <1>1

LEMMA SecretNameType ==
  ASSUME NEW f \in [Cluster -> Object], NEW c \in Cluster
  PROVE  [f EXCEPT ![c].secretName = TRUE] \in [Cluster -> Object]
<1>1. [f[c] EXCEPT !.secretName = TRUE] \in Object
  BY DEF Object
<1> QED BY <1>1

LEMMA RegistersType ==
  ASSUME NEW f \in [Cluster -> Object], NEW c \in Cluster
  PROVE  [f EXCEPT ![c].status = "registered", ![c].dereg = TRUE] \in [Cluster -> Object]
<1>1. [f[c] EXCEPT !.status = "registered"] \in Object
  BY DEF Object, Status
<1>2. [[f[c] EXCEPT !.status = "registered"] EXCEPT !.dereg = TRUE] \in Object
  BY <1>1 DEF Object
<1> QED BY <1>1, <1>2

(* A cluster keeps its type when it is written.                            *)
LEMMA WriteType ==
  ASSUME Types, NEW c \in Cluster, NEW r \in Object, Write(c, r)
  PROVE  /\ cluster' \in [Cluster -> Object] /\ reported' \in [Cluster -> Report]
         /\ late' \subseteq Cluster
BY Empties DEF Types, Write

LEMMA TouchType ==
  ASSUME Types, NEW c \in Cluster, NEW r \in Object, Touch(c, r)
  PROVE  /\ cluster' \in [Cluster -> Object] /\ reported' \in [Cluster -> Report]
         /\ late' \subseteq Cluster /\ queued' \subseteq Cluster /\ fresh' \in BOOLEAN
BY WriteType DEF Types, Touch

LEMMA EventType ==
  ASSUME events \in 0..MaxEvents, NEW kind, Event(kind) PROVE events' \in 0..MaxEvents
BY BoundAssumption DEF Event

LEMMA DoneType ==
  ASSUME Done
  PROVE  /\ AtOne' /\ pc' = "idle" /\ copy' \in Object /\ had' \in BOOLEAN
         /\ seen' \in Report /\ fresh' \in BOOLEAN
BY Empties DEF Done, AtOne

LEMMA AbortType ==
  ASSUME Types, AtOne, Abort, UNCHANGED sliceRec, events' \in 0..MaxEvents
  PROVE  Types' /\ AtOne'
<1>1. at \subseteq Cluster
  BY DEF AtOne
<1> QED BY <1>1, DoneType DEF Types, Abort, objects, sliceRec

LEMMA UpdatedType ==
  ASSUME Types, AtOne, pc # "idle"
  PROVE  Updated \in [exists : BOOLEAN, clusters : SUBSET Cluster, apps : SUBSET Pair]
<1>1. Me \in Cluster /\ at \subseteq Cluster
  BY MeIsAt
<1>2. {<<n, Me>> : n \in {m \in Namespace : seen[m] = "free"}} \subseteq Pair
  BY <1>1 DEF Pair
<1> QED BY <1>1, <1>2 DEF Updated, Types

LEMMA WithoutType ==
  ASSUME Types, NEW c \in Cluster
  PROVE  Without(c) \in [exists : BOOLEAN, clusters : SUBSET Cluster, apps : SUBSET Pair]
BY DEF Types, Without
-----------------------------------------------------------------------------
(* The actions keep the types, group by group as in Next.                  *)
LEMMA EnvironmentType ==
  ASSUME Types, AtOne, Environment PROVE Types' /\ AtOne'
<1>1. ASSUME NEW c \in Cluster, CreateCluster(c) PROVE Types' /\ AtOne'
  <2>1. [NoObject EXCEPT !.state = "live"] \in Object
    BY Empties DEF Object
  <2> QED BY <1>1, <2>1, TouchType, EventType DEF CreateCluster, Types, AtOne, sliceRec
<1>2. ASSUME NEW c \in Cluster, ValidateClusterDelete(c) PROVE Types' /\ AtOne'
  <2>1. [cluster[c] EXCEPT !.state = "deleting"] \in Object
    BY DEF Types, Object
  <2> QED BY <1>2, <2>1, TouchType, EventType DEF ValidateClusterDelete, Types, AtOne, sliceRec
<1>3. ASSUME NEW c \in Cluster, NEW present \in SUBSET Namespace, WorkerRegisters(c, present)
      PROVE  Types' /\ AtOne'
  <2>1. [cluster EXCEPT ![c].status = "registered", ![c].dereg = TRUE] \in [Cluster -> Object]
    BY RegistersType DEF Types
  <2>2. [n \in Namespace |-> IF n \in present THEN "free" ELSE "gone"] \in Report
    BY DEF Report
  <2> QED BY <1>3, <2>1, <2>2 DEF WorkerRegisters, Types, AtOne, sliceRec
<1>4. ASSUME NEW c \in Cluster, WorkerDeregisters(c) PROVE Types' /\ AtOne'
  <2>1. [cluster[c] EXCEPT !.status = "deregistered"] \in Object
    BY DEF Types, Object, Status
  <2> QED BY <1>4, <2>1, TouchType, EventType DEF WorkerDeregisters, Types, AtOne, sliceRec
<1>5. ASSUME NEW c \in Cluster, WorkerLetsGo(c) PROVE Types' /\ AtOne'
  <2>1. [cluster[c] EXCEPT !.dereg = FALSE] \in Object
    BY DEF Types, Object
  <2> QED BY <1>5, <2>1, TouchType DEF WorkerLetsGo, Types, AtOne, sliceRec
<1>6. ASSUME NEW c \in Cluster, NEW n \in Namespace, NamespaceComesOrGoes(c, n)
      PROVE  Types' /\ AtOne'
  BY <1>6, EventType DEF NamespaceComesOrGoes, WorkerReports, Types, Report, AtOne, sliceRec
<1>7. ASSUME NEW s \in Selections, EditSlice(s) PROVE Types' /\ AtOne'
  BY <1>7, EventType, SelectionAssumption DEF EditSlice, Types, AtOne, local
<1>8. ASSUME Fail PROVE Types' /\ AtOne'
  BY <1>8, EventType, AbortType DEF Fail, Types
<1>9. ASSUME Crash PROVE Types' /\ AtOne'
  BY <1>9, EventType, DoneType DEF Crash, Types, objects
<1> QED BY <1>1, <1>2, <1>3, <1>4, <1>5, <1>6, <1>7, <1>8, <1>9 DEF Environment

LEMMA PickType ==
  ASSUME Types, AtOne, NEW c \in Cluster, Pick(c) PROVE Types' /\ AtOne'
<1>1. CASE ReconcileAbsent(c)
  BY <1>1 DEF ReconcileAbsent, Types, AtOne, objects, local, sliceRec
<1>2. CASE ReconcileLive(c)
  <2>1. [cluster EXCEPT ![c].fin = TRUE] \in [Cluster -> Object]
    BY FinalizerType DEF Types
  <2> QED BY <1>2, <2>1 DEF ReconcileLive, Types, AtOne, sliceRec
<1>3. CASE ReconcileDeleting(c)
  BY <1>3, WithoutType DEF ReconcileDeleting, Types, AtOne, sliceRec
<1> QED BY <1>1, <1>2, <1>3 DEF Pick

LEMMA ProceedType ==
  ASSUME Types, AtOne, Proceed PROVE Types' /\ AtOne'
<1>1. pc # "idle" /\ Me \in Cluster /\ at = {Me}
  BY MeIsAt DEF Proceed, CreateAccount, CreateSecret, CreateBinding, SetSecretName,
     DefaultSliceOperations, WaitForWorker, RemoveBinding, RemoveAccount, RemoveClusterFinalizer
<1>2. CASE CreateAccount
  BY <1>1, <1>2 DEF CreateAccount, Go, Types, AtOne, sliceRec
<1>3. CASE CreateSecret
  BY <1>1, <1>3, AbortType DEF CreateSecret, Go, Types, AtOne, sliceRec
<1>4. CASE CreateBinding
  BY <1>1, <1>4, DoneType DEF CreateBinding, Go, Types, AtOne, sliceRec
<1>5. CASE SetSecretName
  <2>1. [cluster EXCEPT ![Me].secretName = TRUE] \in [Cluster -> Object]
    BY <1>1, SecretNameType DEF Types
  <2> QED BY <1>1, <1>5, <2>1, AbortType DEF SetSecretName, Go, Types, AtOne, sliceRec
<1>6. CASE DefaultSliceOperations
  BY <1>1, <1>6, AbortType, DoneType, UpdatedType
     DEF DefaultSliceOperations, Types, objects, sliceRec
<1>7. CASE WaitForWorker
  <2>1. CASE Me \in late
    <3>1. [copy EXCEPT !.dereg = FALSE] \in Object
      BY DEF Types, Object
    <3> QED BY <1>1, <1>7, <2>1, <3>1, WriteType, AbortType, DoneType
            DEF WaitForWorker, Types, sliceRec
  <2>2. CASE Me \notin late
    <3>1. [cluster EXCEPT ![Me].progress = TRUE] \in [Cluster -> Object]
      BY <1>1, ProgressType DEF Types
    <3>2. <<Me, "long">> \in Cluster \X {"short", "long"}
      BY <1>1
    <3>3. /\ cluster' \in [Cluster -> Object] /\ queued' \subseteq Cluster
          /\ timer' \subseteq Cluster \X {"short", "long"}
      BY ZenonT(60), <1>1, <1>7, <2>2, <3>1, <3>2 DEF WaitForWorker, Types
    <3>4. Done /\ UNCHANGED <<reported, sa, rb, secret, default, other, late, sliceRec, events>>
      BY <1>7, <2>2 DEF WaitForWorker
    <3> QED BY <3>3, <3>4, DoneType DEF Types, sliceRec
  <2> QED BY <2>1, <2>2
<1>8. CASE RemoveBinding
  BY <1>1, <1>8 DEF RemoveBinding, Go, Types, AtOne, sliceRec
<1>9. CASE RemoveAccount
  BY <1>1, <1>9 DEF RemoveAccount, Go, Types, AtOne, sliceRec
<1>10. CASE RemoveClusterFinalizer
  <2>1. [copy EXCEPT !.fin = FALSE] \in Object
    BY DEF Types, Object
  <2> QED BY <1>1, <1>10, <2>1, WriteType, AbortType, DoneType
          DEF RemoveClusterFinalizer, Types, sliceRec
<1> QED BY <1>2, <1>3, <1>4, <1>5, <1>6, <1>7, <1>8, <1>9, <1>10 DEF Proceed

LEMMA OtherType ==
  ASSUME Types, AtOne,
         \/ SliceReconcile \/ Resync
         \/ \E c \in Cluster : Clock(c) \/ TokenController(c) \/ Reports(c)
  PROVE  Types' /\ AtOne'
<1>1. CASE ReadSlice
  BY <1>1 DEF ReadSlice, Types, AtOne, objects, local
<1>2. CASE HandleDefaultSliceConfigAppns
  <2>1. Filtered \in [exists : BOOLEAN, clusters : SUBSET Cluster, apps : SUBSET Pair]
    BY DEF Filtered, Types
  <2> QED BY <1>2, <2>1 DEF HandleDefaultSliceConfigAppns, Types, AtOne, local
<1>3. CASE CreateMinimalWorkerSliceConfig
  <2>1. ClustersOf(sliceSpec) \subseteq Cluster
    BY DEF ClustersOf, Types, Pair
  <2> QED BY <1>3, <2>1 DEF CreateMinimalWorkerSliceConfig, Types, AtOne, objects, local
<1>4. CASE Resync
  BY <1>4 DEF Resync, Types, AtOne, objects, local
<1>5. ASSUME NEW c \in Cluster, Clock(c) PROVE Types' /\ AtOne'
  BY <1>5 DEF Clock, TenMinutes, Timer, Types, AtOne, objects, local, sliceRec
<1>6. ASSUME NEW c \in Cluster, TokenController(c) PROVE Types' /\ AtOne'
  BY <1>6 DEF TokenController, Types, AtOne, local, sliceRec
<1>7. ASSUME NEW c \in Cluster, NEW n \in Namespace, NamespaceAssigned(c, n)
      PROVE  Types' /\ AtOne'
  BY <1>7 DEF NamespaceAssigned, Assigned, WorkerReports, Types, Report, AtOne, sliceRec
<1> QED BY <1>1, <1>2, <1>3, <1>4, <1>5, <1>6, <1>7 DEF SliceReconcile, Reports

LEMMA TypeStep ==
  ASSUME Types, AtOne, [Next]_vars PROVE Types' /\ AtOne'
<1>1. CASE Next
  BY <1>1, EnvironmentType, PickType, ProceedType, OtherType DEF Next
<1>2. CASE UNCHANGED vars
  BY <1>2 DEF vars, objects, local, sliceRec, Types, AtOne
<1> QED BY <1>1, <1>2

LEMMA TypeInit == Init => Types /\ AtOne
<1> SUFFICES ASSUME Init PROVE Types /\ AtOne
  OBVIOUS
<1>1. NoSlice \in [exists : BOOLEAN, clusters : SUBSET Cluster, apps : SUBSET Pair]
  BY DEF NoSlice
<1>2. /\ cluster \in [Cluster -> Object] /\ reported \in [Cluster -> Report]
      /\ secret \in [Cluster -> {"none", "good", "stale"}]
  BY Empties DEF Init
<1>3. events \in 0..MaxEvents
  BY BoundAssumption DEF Init
<1> QED BY <1>1, <1>2, <1>3, Empties DEF Init, Types, AtOne

(* Objects, queues and the reconcilers' state keep their types, whatever   *)
(* workers, users and faults do; a running reconcile is at one cluster.    *)
THEOREM TypeCorrect == Spec => []TypeOK
<1>1. Types /\ AtOne /\ [Next]_vars => (Types /\ AtOne)'
  BY TypeStep
<1>2. Types /\ AtOne => TypeOK
  BY TypesAreTypes
<1> QED BY <1>1, <1>2, TypeInit, PTL DEF Spec
-----------------------------------------------------------------------------
(* Credentials exist only for clusters with the controller's finalizer:    *)
(* the reconcile sets it before it creates them and has removed them when  *)
(* it removes it.                                                          *)
Held == \A c \in Cluster : cluster[c].fin => cluster[c].state # "absent"
Guarded == \A c \in sa \cup rb : cluster[c].fin

(* What is being registered has its finalizer and keeps it meanwhile.      *)
Creating ==
  pc \in {"account", "secret", "binding", "status", "default"} =>
    \A c \in at : cluster[c].fin

(* A cluster being deleted, as it was read, still has its finalizer if it  *)
(* has credentials; these go one after the other.                          *)
Leaving ==
  pc \in {"deregister", "unbind", "unaccount", "finalizer"} =>
    copy.state = "deleting" /\ \A c \in at : c \in sa \cup rb => copy.fin
Cleaned ==
  /\ pc = "unaccount" => at \cap rb = {}
  /\ pc = "finalizer" => at \cap (sa \cup rb) = {}

CredInv == Held /\ Guarded /\ Creating /\ Leaving /\ Cleaned

(* Others write clusters, too, but never touch that finalizer.             *)
LEMMA OthersKeep ==
  ASSUME CredInv, Held', \A c \in Cluster : cluster'[c].fin = cluster[c].fin,
         sa \cup rb \subseteq Cluster, at \subseteq Cluster,
         UNCHANGED <<sa, rb, pc, at, copy>>
  PROVE  CredInv'
BY DEF CredInv, Guarded, Creating, Leaving, Cleaned

LEMMA WriteKeeps ==
  ASSUME Types, Held, NEW c \in Cluster, NEW r \in Object, Write(c, r),
         r.fin = cluster[c].fin, r.state # "absent"
  PROVE  Held' /\ \A d \in Cluster : cluster'[d].fin = cluster[d].fin
<1>1. CASE r.state = "deleting" /\ ~r.fin /\ ~r.dereg
  <2>1. cluster' = [cluster EXCEPT ![c] = NoObject]
    BY <1>1 DEF Write
  <2> QED BY <1>1, <2>1, Empties DEF Types, Held, Object
<1>2. CASE ~(r.state = "deleting" /\ ~r.fin /\ ~r.dereg)
  <2>1. cluster' = [cluster EXCEPT ![c] = r]
    BY <1>2 DEF Write
  <2> QED BY <2>1 DEF Types, Held
<1> QED BY <1>1, <1>2

LEMMA TouchKeeps ==
  ASSUME Types, AtOne, CredInv, NEW c \in Cluster, NEW r \in Object, Touch(c, r),
         r.fin = cluster[c].fin, r.state # "absent", UNCHANGED <<sa, rb, pc, at, copy>>
  PROVE  CredInv'
<1>1. Held' /\ \A d \in Cluster : cluster'[d].fin = cluster[d].fin
  BY WriteKeeps DEF Touch, CredInv
<1>2. sa \cup rb \subseteq Cluster /\ at \subseteq Cluster
  BY DEF Types, AtOne
<1> QED BY <1>1, <1>2, OthersKeep

(* The reconcile's own writes take the finalizer off a cluster only when   *)
(* that has no credentials.                                                *)
LEMMA WriteClears ==
  ASSUME Types, CredInv, NEW c \in Cluster, NEW r \in Object, Write(c, r),
         r.fin => r.state # "absent", c \in sa \cup rb => r.fin, UNCHANGED <<sa, rb>>
  PROVE  Held' /\ Guarded'
<1>1. \A d \in Cluster : d # c => cluster'[d] = cluster[d]
  BY DEF Write, Types
<1>2. \/ cluster'[c] = r
      \/ cluster'[c] = NoObject /\ c \notin sa \cup rb
  BY DEF Write, Types
<1> QED BY <1>1, <1>2, Empties DEF Types, CredInv, Held, Guarded

(* A reconcile that has ended has nothing to answer for.                   *)
LEMMA DoneKeeps ==
  ASSUME Held', Guarded', Done PROVE CredInv'
BY DEF CredInv, Done, Creating, Leaving, Cleaned

LEMMA AbortKeeps ==
  ASSUME CredInv, Abort PROVE CredInv'
<1>1. Held' /\ Guarded'
  BY DEF CredInv, Abort, objects, Held, Guarded
<1> QED BY <1>1, DoneKeeps DEF Abort

LEMMA EnvironmentKeeps ==
  ASSUME Types, AtOne, CredInv, Environment PROVE CredInv'
<1>1. ASSUME NEW c \in Cluster, CreateCluster(c) PROVE CredInv'
  <2>1. [NoObject EXCEPT !.state = "live"] \in Object
    BY Empties DEF Object
  <2>2. cluster[c].fin = FALSE
    BY <1>1 DEF CreateCluster, CredInv, Held, Types, Object
  <2>3. /\ [NoObject EXCEPT !.state = "live"].fin = FALSE
        /\ [NoObject EXCEPT !.state = "live"].state = "live"
    BY DEF NoObject
  <2> QED BY <1>1, <2>1, <2>2, <2>3, TouchKeeps DEF CreateCluster
<1>2. ASSUME NEW c \in Cluster, ValidateClusterDelete(c) PROVE CredInv'
  <2>1. [cluster[c] EXCEPT !.state = "deleting"] \in Object
    BY DEF Types, Object
  <2> QED BY <1>2, <2>1, TouchKeeps DEF ValidateClusterDelete, Types, Object
<1>3. ASSUME NEW c \in Cluster, NEW present \in SUBSET Namespace, WorkerRegisters(c, present)
      PROVE  CredInv'
  <2>1. \A d \in Cluster : /\ cluster'[d].fin = cluster[d].fin
                           /\ cluster'[d].state = cluster[d].state
    BY <1>3 DEF WorkerRegisters, Types, Object
  <2>2. Held' /\ sa \cup rb \subseteq Cluster /\ at \subseteq Cluster
    BY <2>1 DEF CredInv, Held, Types, AtOne
  <2> QED BY <1>3, <2>1, <2>2, OthersKeep DEF WorkerRegisters
<1>4. ASSUME NEW c \in Cluster, WorkerDeregisters(c) PROVE CredInv'
  <2>1. [cluster[c] EXCEPT !.status = "deregistered"] \in Object
    BY DEF Types, Object, Status
  <2> QED BY <1>4, <2>1, TouchKeeps DEF WorkerDeregisters, Types, Object
<1>5. ASSUME NEW c \in Cluster, WorkerLetsGo(c) PROVE CredInv'
  <2>1. [cluster[c] EXCEPT !.dereg = FALSE] \in Object
    BY DEF Types, Object
  <2> QED BY <1>5, <2>1, TouchKeeps DEF WorkerLetsGo, Types, Object
<1>6. ASSUME NEW c \in Cluster, NEW n \in Namespace, NamespaceComesOrGoes(c, n)
      PROVE  CredInv'
  BY <1>6 DEF NamespaceComesOrGoes, WorkerReports, CredInv, Held, Guarded, Creating, Leaving, Cleaned
<1>7. ASSUME NEW s \in Selections, EditSlice(s) PROVE CredInv'
  BY <1>7 DEF EditSlice, local, CredInv, Held, Guarded, Creating, Leaving, Cleaned
<1>8. ASSUME Fail PROVE CredInv'
  BY <1>8, AbortKeeps DEF Fail
<1>9. ASSUME Crash PROVE CredInv'
  BY <1>9, DoneKeeps DEF Crash, CredInv, objects, Held, Guarded
<1> QED BY <1>1, <1>2, <1>3, <1>4, <1>5, <1>6, <1>7, <1>8, <1>9 DEF Environment

LEMMA PickKeeps ==
  ASSUME Types, AtOne, CredInv, NEW c \in Cluster, Pick(c) PROVE CredInv'
<1>1. CASE ReconcileAbsent(c)
  BY <1>1 DEF ReconcileAbsent, objects, local, CredInv, Held, Guarded, Creating, Leaving, Cleaned
<1>2. CASE ReconcileLive(c)
  <2>1. /\ cluster'[c].fin /\ cluster'[c].state = "live"
        /\ \A d \in Cluster : d # c => cluster'[d] = cluster[d]
    BY <1>2 DEF ReconcileLive, Types, Object
  <2>2. Held' /\ Guarded' /\ Creating'
    BY <1>2, <2>1 DEF ReconcileLive, Types, CredInv, Held, Guarded, Creating
  <2>3. Leaving' /\ Cleaned'
    BY <1>2 DEF ReconcileLive, Leaving, Cleaned
  <2> QED BY <2>2, <2>3 DEF CredInv
<1>3. CASE ReconcileDeleting(c)
  BY <1>3 DEF ReconcileDeleting, CredInv, Held, Guarded, Creating, Leaving, Cleaned
<1> QED BY <1>1, <1>2, <1>3 DEF Pick

LEMMA ProceedKeeps ==
  ASSUME Types, AtOne, CredInv, Proceed PROVE CredInv'
<1>1. pc # "idle" /\ Me \in Cluster /\ at = {Me}
  BY MeIsAt DEF Proceed, CreateAccount, CreateSecret, CreateBinding, SetSecretName,
     DefaultSliceOperations, WaitForWorker, RemoveBinding, RemoveAccount, RemoveClusterFinalizer
<1>2. CASE CreateAccount
  BY <1>2 DEF CreateAccount, Go, CredInv, Held, Guarded, Creating, Leaving, Cleaned
<1>3. CASE CreateSecret
  <2>1. CASE secret[Me] = "none"
    BY <1>3, <2>1 DEF CreateSecret, Go, CredInv, Held, Guarded, Creating, Leaving, Cleaned
  <2> QED BY <1>3, <2>1, AbortKeeps DEF CreateSecret
<1>4. CASE CreateBinding
  <2>1. Held' /\ Guarded'
    BY <1>4 DEF CreateBinding, CredInv, Held, Guarded, Creating
  <2>2. CASE had
    BY <1>4, <2>1, <2>2 DEF CreateBinding, Go, CredInv, Creating, Leaving, Cleaned
  <2> QED BY <1>4, <2>1, <2>2, DoneKeeps DEF CreateBinding
<1>5. CASE SetSecretName
  <2>1. CASE fresh /\ secret[Me] # "none"
    <3>1. \A d \in Cluster : /\ cluster'[d].fin = cluster[d].fin
                             /\ cluster'[d].state = cluster[d].state
      BY <1>1, <1>5, <2>1 DEF SetSecretName, Types, Object
    <3>2. Held' /\ sa \cup rb \subseteq Cluster
      BY <3>1 DEF CredInv, Held, Types
    <3> QED BY <1>1, <1>5, <2>1, <3>1, <3>2
            DEF SetSecretName, Go, CredInv, Guarded, Creating, Leaving, Cleaned
  <2> QED BY <1>5, <2>1, AbortKeeps DEF SetSecretName
<1>6. CASE DefaultSliceOperations
  BY <1>6, AbortKeeps, DoneKeeps DEF DefaultSliceOperations, objects, CredInv, Held, Guarded
<1>7. CASE WaitForWorker
  <2> DEFINE r == [copy EXCEPT !.dereg = FALSE]
  <2>1. CASE Me \in late /\ fresh
    <3>1. r \in Object /\ r.fin = copy.fin /\ r.state = "deleting" /\ (Me \in sa \cup rb => r.fin)
      BY <1>1, <1>7 DEF WaitForWorker, Types, Object, CredInv, Leaving
    <3>2. Write(Me, r) /\ Done /\ UNCHANGED <<sa, rb>>
      BY <1>7, <2>1 DEF WaitForWorker
    <3> QED BY <1>1, <3>1, <3>2, WriteClears, DoneKeeps
  <2>2. CASE Me \in late /\ ~fresh
    BY <1>7, <2>2, AbortKeeps DEF WaitForWorker
  <2>3. CASE Me \notin late
    <3>1. \A d \in Cluster : /\ cluster'[d].fin = cluster[d].fin
                             /\ cluster'[d].state = cluster[d].state
      BY <1>1, <1>7, <2>3 DEF WaitForWorker, Types, Object
    <3>2. Held' /\ Guarded'
      BY <1>7, <2>3, <3>1 DEF WaitForWorker, CredInv, Held, Guarded, Types
    <3> QED BY <1>7, <2>3, <3>2, DoneKeeps DEF WaitForWorker
  <2> QED BY <2>1, <2>2, <2>3
<1>8. CASE RemoveBinding
  BY <1>8 DEF RemoveBinding, Go, CredInv, Held, Guarded, Creating, Leaving, Cleaned
<1>9. CASE RemoveAccount
  BY <1>9 DEF RemoveAccount, Go, CredInv, Held, Guarded, Creating, Leaving, Cleaned
<1>10. CASE RemoveClusterFinalizer
  <2> DEFINE r == [copy EXCEPT !.fin = FALSE]
  <2>1. CASE fresh
    <3>1. r \in Object /\ ~r.fin /\ Me \notin sa \cup rb
      BY <1>1, <1>10 DEF RemoveClusterFinalizer, Types, Object, CredInv, Cleaned
    <3>2. Write(Me, r) /\ Done /\ UNCHANGED <<sa, rb>>
      BY <1>10, <2>1 DEF RemoveClusterFinalizer
    <3> QED BY <1>1, <3>1, <3>2, WriteClears, DoneKeeps
  <2> QED BY <1>10, <2>1, AbortKeeps DEF RemoveClusterFinalizer
<1> QED BY <1>2, <1>3, <1>4, <1>5, <1>6, <1>7, <1>8, <1>9, <1>10 DEF Proceed

LEMMA OtherKeeps ==
  ASSUME CredInv,
         \/ SliceReconcile \/ Resync
         \/ \E c \in Cluster : Clock(c) \/ TokenController(c) \/ Reports(c)
  PROVE  CredInv'
<1>1. UNCHANGED <<cluster, sa, rb, pc, at, copy>>
  BY DEF SliceReconcile, ReadSlice, HandleDefaultSliceConfigAppns, CreateMinimalWorkerSliceConfig,
     Resync, Clock, TenMinutes, Timer, TokenController, Reports, NamespaceAssigned, WorkerReports, objects, local
<1> QED BY <1>1 DEF CredInv, Held, Guarded, Creating, Leaving, Cleaned

LEMMA CredStep ==
  ASSUME Types, AtOne, CredInv, [Next]_vars PROVE CredInv'
<1>1. CASE Next
  BY <1>1, EnvironmentKeeps, PickKeeps, ProceedKeeps, OtherKeeps DEF Next
<1>2. CASE UNCHANGED vars
  BY <1>2 DEF vars, objects, local, CredInv, Held, Guarded, Creating, Leaving, Cleaned
<1> QED BY <1>1, <1>2

(* A cluster that is gone leaves neither account nor role binding behind:  *)
(* cleanUpClusterResources comes before its finalizer is removed, and no   *)
(* reconcile under way makes new ones, whoever writes the cluster          *)
(* meanwhile, and whatever fails or restarts.                              *)
THEOREM NoCredentialsLeftCorrect == Spec => []NoCredentialsLeft
<1>1. Init => Types /\ AtOne /\ CredInv
  <2>1. Init => CredInv
    BY Empties DEF Init, CredInv, Held, Guarded, Creating, Leaving, Cleaned
  <2> QED BY <2>1, TypeInit
<1>2. Types /\ AtOne /\ CredInv /\ [Next]_vars => (Types /\ AtOne /\ CredInv)'
  BY TypeStep, CredStep
<1>3. Types /\ AtOne /\ CredInv => NoCredentialsLeft
  BY DEF Types, CredInv, Held, Guarded, NoCredentialsLeft
<1> QED BY <1>1, <1>2, <1>3, PTL DEF Spec
-----------------------------------------------------------------------------
(* Registration.  A live cluster has all it needs, or somebody comes back  *)
(* for it, or the reconcile is on its way to the status.                   *)
Registering == pc \in {"account", "secret", "binding", "status"}
Deleting == pc \in {"deregister", "unbind", "unaccount", "finalizer"}

Attended(c) == c \in queued \/ <<c, "short">> \in timer \/ (Registering /\ at = {c})
Complete(c) == c \in sa \cap rb /\ cluster[c].secretName

LiveCovered == \A c \in Cluster : cluster[c].state = "live" => Attended(c) \/ Complete(c)

(* What the reconcile has found or created stays: nobody else deletes      *)
(* accounts and bindings.                                                  *)
OnTheWay ==
  /\ pc \in {"secret", "binding", "status"} => at \subseteq sa
  /\ pc = "status" => at \subseteq rb

(* A cluster registered anew while the deletion of the one before it is    *)
(* still going on has been queued.                                         *)
Reborn == Deleting => \A c \in at : cluster[c].state = "live" => c \in queued

RegInv == LiveCovered /\ OnTheWay /\ Reborn

(* Nobody but the reconcile and the user who creates it makes a cluster    *)
(* need anything.                                                          *)
LEMMA RegOthers ==
  ASSUME RegInv, AtOne, queued \subseteq queued', timer \subseteq timer',
         UNCHANGED <<sa, rb, pc, at>>,
         \A c \in Cluster : cluster'[c].state = "live"
           => \/ c \in queued'
              \/ cluster[c].state = "live" /\ (cluster[c].secretName => cluster'[c].secretName)
  PROVE  RegInv'
<1>1. LiveCovered'
  BY DEF RegInv, LiveCovered, Attended, Complete, Registering
<1>2. OnTheWay'
  BY DEF RegInv, OnTheWay
<1>3. Reborn'
  BY DEF RegInv, Reborn, Deleting, AtOne
<1> QED BY <1>1, <1>2, <1>3 DEF RegInv

(* A reconcile ends: what it was about to register is asked for again.     *)
LEMMA RegDone ==
  ASSUME RegInv, Done, queued \subseteq queued', timer \subseteq timer', sa \cap rb \subseteq sa' \cap rb',
         \A c \in Cluster : cluster'[c].state = "live"
           => cluster[c].state = "live" /\ (cluster[c].secretName => cluster'[c].secretName),
         Registering => \A c \in at : c \in queued' \/ <<c, "short">> \in timer'
  PROVE  RegInv'
<1>1. LiveCovered'
  <2> SUFFICES ASSUME NEW c \in Cluster, cluster'[c].state = "live"
               PROVE  c \in queued' \/ <<c, "short">> \in timer' \/ Complete(c)'
    BY DEF LiveCovered, Attended
  <2>1. Attended(c) \/ Complete(c)
    BY DEF RegInv, LiveCovered
  <2> QED BY <2>1 DEF Attended, Complete
<1> QED BY <1>1 DEF RegInv, OnTheWay, Reborn, Deleting, Done

LEMMA RegAbort ==
  ASSUME RegInv, Abort PROVE RegInv'
BY RegDone DEF Abort, objects

LEMMA RegTouch ==
  ASSUME Types, AtOne, RegInv, NEW c \in Cluster, NEW r \in Object, Touch(c, r),
         UNCHANGED <<sa, rb, pc, at, timer>>
  PROVE  RegInv'
<1>1. \A d \in Cluster : d # c => cluster'[d] = cluster[d]
  BY DEF Touch, Write, Types
<1> QED BY <1>1, RegOthers DEF Touch

LEMMA RegEnvironment ==
  ASSUME Types, AtOne, RegInv, Environment PROVE RegInv'
<1>1. ASSUME NEW c \in Cluster, CreateCluster(c) PROVE RegInv'
  <2>1. [NoObject EXCEPT !.state = "live"] \in Object
    BY Empties DEF Object
  <2> QED BY <1>1, <2>1, RegTouch DEF CreateCluster
<1>2. ASSUME NEW c \in Cluster, ValidateClusterDelete(c) PROVE RegInv'
  <2>1. [cluster[c] EXCEPT !.state = "deleting"] \in Object
    BY DEF Types, Object
  <2> QED BY <1>2, <2>1, RegTouch DEF ValidateClusterDelete
<1>3. ASSUME NEW c \in Cluster, NEW present \in SUBSET Namespace, WorkerRegisters(c, present)
      PROVE  RegInv'
  <2>1. \A d \in Cluster : d # c => cluster'[d] = cluster[d]
    BY <1>3 DEF WorkerRegisters, Types
  <2> QED BY <1>3, <2>1, RegOthers DEF WorkerRegisters
<1>4. ASSUME NEW c \in Cluster, WorkerDeregisters(c) PROVE RegInv'
  <2>1. [cluster[c] EXCEPT !.status = "deregistered"] \in Object
    BY DEF Types, Object, Status
  <2> QED BY <1>4, <2>1, RegTouch DEF WorkerDeregisters
<1>5. ASSUME NEW c \in Cluster, WorkerLetsGo(c) PROVE RegInv'
  <2>1. [cluster[c] EXCEPT !.dereg = FALSE] \in Object
    BY DEF Types, Object
  <2> QED BY <1>5, <2>1, RegTouch DEF WorkerLetsGo
<1>6. ASSUME NEW c \in Cluster, NEW n \in Namespace, NamespaceComesOrGoes(c, n)
      PROVE  RegInv'
  BY <1>6, RegOthers DEF NamespaceComesOrGoes, WorkerReports
<1>7. ASSUME NEW s \in Selections, EditSlice(s) PROVE RegInv'
  BY <1>7, RegOthers DEF EditSlice, local
<1>8. ASSUME Fail PROVE RegInv'
  BY <1>8, RegAbort DEF Fail
<1>9. ASSUME Crash PROVE RegInv'
  BY <1>9 DEF Crash, Done, objects, RegInv, LiveCovered, Attended, OnTheWay, Reborn, Deleting
<1> QED BY <1>1, <1>2, <1>3, <1>4, <1>5, <1>6, <1>7, <1>8, <1>9 DEF Environment

LEMMA RegPick ==
  ASSUME Types, AtOne, RegInv, NEW c \in Cluster, Pick(c) PROVE RegInv'
<1> USE DEF RegInv, LiveCovered, Attended, Complete, Registering, Deleting, OnTheWay, Reborn
<1>1. CASE ReconcileAbsent(c)
  BY <1>1 DEF ReconcileAbsent, objects, local
<1>2. CASE ReconcileLive(c)
  <2>1. \A d \in Cluster : /\ cluster'[d].state = cluster[d].state
                           /\ cluster'[d].secretName = cluster[d].secretName
    BY <1>2 DEF ReconcileLive, Types, Object
  <2>2. /\ pc = "idle" /\ at' = {c} /\ UNCHANGED <<sa, rb, timer>> /\ queued \ {c} \subseteq queued'
        /\ \/ pc' = "account" \/ (pc' = "binding" /\ c \in sa)
           \/ (pc' = "status" /\ c \in sa \cap rb)
    BY <1>2 DEF ReconcileLive
  <2> QED BY <2>1, <2>2
<1>3. CASE ReconcileDeleting(c)
  BY <1>3 DEF ReconcileDeleting
<1> QED BY <1>1, <1>2, <1>3 DEF Pick

LEMMA RegProceed ==
  ASSUME Types, AtOne, CredInv, RegInv, Proceed PROVE RegInv'
<1>1. pc # "idle" /\ Me \in Cluster /\ at = {Me}
  BY MeIsAt DEF Proceed, CreateAccount, CreateSecret, CreateBinding, SetSecretName,
     DefaultSliceOperations, WaitForWorker, RemoveBinding, RemoveAccount, RemoveClusterFinalizer
<1>2. CASE CreateAccount
  BY <1>1, <1>2 DEF CreateAccount, Go, RegInv, LiveCovered, Attended, Complete, Registering,
                    Deleting, OnTheWay, Reborn
<1>3. CASE CreateSecret
  <2>1. CASE secret[Me] = "none"
    BY <1>1, <1>3, <2>1 DEF CreateSecret, Go, RegInv, LiveCovered, Attended, Complete,
                            Registering, Deleting, OnTheWay, Reborn
  <2> QED BY <1>3, <2>1, RegAbort DEF CreateSecret
<1>4. CASE CreateBinding
  <2>1. CASE had
    <3>1. /\ pc = "binding" /\ pc' = "status" /\ at' = at /\ rb' = rb \cup at
          /\ UNCHANGED <<cluster, sa, queued, timer>>
      BY <1>4, <2>1 DEF CreateBinding, Go
    <3>2. OnTheWay' /\ Reborn'
      BY <3>1 DEF RegInv, OnTheWay, Reborn, Deleting
    <3>3. LiveCovered'
      BY <3>1 DEF RegInv, LiveCovered, Attended, Complete, Registering
    <3> QED BY <3>2, <3>3 DEF RegInv
  <2>2. CASE ~had
    BY <1>1, <1>4, <2>2, RegDone DEF CreateBinding
  <2> QED BY <2>1, <2>2
<1>5. CASE SetSecretName
  <2>1. CASE fresh /\ secret[Me] # "none"
    <3>1. /\ cluster'[Me].secretName
          /\ \A d \in Cluster : d # Me => cluster'[d] = cluster[d]
      BY <1>1, <1>5, <2>1 DEF SetSecretName, Types, Object
    <3>2. /\ pc = "status" /\ pc' = "default" /\ at' = at /\ queued \subseteq queued'
          /\ UNCHANGED <<sa, rb, timer>>
      BY <1>5, <2>1 DEF SetSecretName, Go
    <3> QED BY <1>1, <3>1, <3>2 DEF RegInv, LiveCovered, Attended, Complete, Registering,
                                    Deleting, OnTheWay, Reborn
  <2> QED BY <1>5, <2>1, RegAbort DEF SetSecretName
<1>6. CASE DefaultSliceOperations
  <2>1. ~Registering
    BY <1>6 DEF DefaultSliceOperations, Registering
  <2> QED BY <1>6, <2>1, RegAbort, RegDone DEF DefaultSliceOperations, objects
<1>7. CASE WaitForWorker
  <2> DEFINE r == [copy EXCEPT !.dereg = FALSE]
  <2>0. ~Registering
    BY <1>7 DEF WaitForWorker, Registering
  <2>1. CASE Me \in late /\ fresh
    <3>1. r.state = "deleting" /\ r \in Object
      BY <1>7 DEF WaitForWorker, Types, Object, CredInv, Leaving
    <3>2. Write(Me, r) /\ Done /\ queued' = queued \cup at /\ UNCHANGED <<sa, rb, timer>>
      BY <1>7, <2>1 DEF WaitForWorker
    <3>3. /\ cluster'[Me].state # "live"
          /\ \A d \in Cluster : d # Me => cluster'[d] = cluster[d]
      BY <1>1, <3>1, <3>2, Empties DEF Write, Types
    <3> QED BY <2>0, <3>2, <3>3, RegDone
  <2>2. CASE Me \in late /\ ~fresh
    BY <1>7, <2>2, RegAbort DEF WaitForWorker
  <2>3. CASE Me \notin late
    <3>1. \A d \in Cluster : /\ cluster'[d].secretName = cluster[d].secretName
                             /\ cluster'[d].state = cluster[d].state
      BY <1>1, <1>7, <2>3 DEF WaitForWorker, Types, Object
    <3>2. queued \subseteq queued' /\ timer \subseteq timer' /\ Done /\ UNCHANGED <<sa, rb>>
      BY <1>7, <2>3 DEF WaitForWorker
    <3> QED BY <2>0, <3>1, <3>2, RegDone
  <2> QED BY <2>1, <2>2, <2>3
<1>8. CASE RemoveBinding
  BY <1>1, <1>8 DEF RemoveBinding, Go, RegInv, LiveCovered, Attended, Complete, Registering,
                    Deleting, OnTheWay, Reborn
<1>9. CASE RemoveAccount
  BY <1>1, <1>9 DEF RemoveAccount, Go, RegInv, LiveCovered, Attended, Complete, Registering,
                    Deleting, OnTheWay, Reborn
<1>10. CASE RemoveClusterFinalizer
  <2> DEFINE r == [copy EXCEPT !.fin = FALSE]
  <2>0. ~Registering
    BY <1>10 DEF RemoveClusterFinalizer, Registering
  <2>1. CASE fresh
    <3>1. r.state = "deleting" /\ r \in Object
      BY <1>10 DEF RemoveClusterFinalizer, Types, Object, CredInv, Leaving
    <3>2. Write(Me, r) /\ Done /\ queued' = queued \cup at /\ UNCHANGED <<sa, rb, timer>>
      BY <1>10, <2>1 DEF RemoveClusterFinalizer
    <3>3. /\ cluster'[Me].state # "live"
          /\ \A d \in Cluster : d # Me => cluster'[d] = cluster[d]
      BY <1>1, <3>1, <3>2, Empties DEF Write, Types
    <3> QED BY <2>0, <3>2, <3>3, RegDone
  <2> QED BY <1>10, <2>1, RegAbort DEF RemoveClusterFinalizer
<1> QED BY <1>2, <1>3, <1>4, <1>5, <1>6, <1>7, <1>8, <1>9, <1>10 DEF Proceed

LEMMA RegOther ==
  ASSUME AtOne, RegInv,
         \/ SliceReconcile \/ Resync
         \/ \E c \in Cluster : Clock(c) \/ TokenController(c) \/ Reports(c)
  PROVE  RegInv'
<1>1. CASE SliceReconcile
  BY <1>1, RegOthers DEF SliceReconcile, ReadSlice, HandleDefaultSliceConfigAppns,
     CreateMinimalWorkerSliceConfig, objects, local
<1>2. CASE Resync
  BY <1>2 DEF Resync, objects, local, RegInv, LiveCovered, Attended, OnTheWay, Reborn, Deleting
<1>3. ASSUME NEW c \in Cluster, Clock(c) PROVE RegInv'
  <2>1. CASE TenMinutes(c)
    BY <2>1, RegOthers DEF TenMinutes, objects, local
  <2>2. ASSUME NEW k, Timer(c, k) PROVE RegInv'
    BY <2>2 DEF Timer, objects, local, RegInv, LiveCovered, Attended, Complete, Registering,
                OnTheWay, Reborn, Deleting
  <2> QED BY <1>3, <2>1, <2>2 DEF Clock
<1>4. ASSUME NEW c \in Cluster, TokenController(c) \/ Reports(c) PROVE RegInv'
  BY <1>4, RegOthers DEF TokenController, Reports, NamespaceAssigned, WorkerReports, local
<1> QED BY <1>1, <1>2, <1>3, <1>4

LEMMA RegStep ==
  ASSUME Types, AtOne, CredInv, RegInv, [Next]_vars PROVE RegInv'
<1>1. CASE Next
  BY <1>1, RegEnvironment, RegPick, RegProceed, RegOther DEF Next
<1>2. CASE UNCHANGED vars
  BY <1>2 DEF vars, objects, local, RegInv, LiveCovered, Attended, Complete, Registering,
              OnTheWay, Reborn, Deleting
<1> QED BY <1>1, <1>2

(* When nothing is left to do the live clusters are registered: no step    *)
(* of ReconcileCluster that fails, finds an old version or is interrupted  *)
(* by a restart, and no deletion that overlaps the next registration of    *)
(* the same name, loses a cluster without its account, binding or the name *)
(* of its secret.                                                          *)
THEOREM QuietIsRegisteredCorrect == Spec => []QuietIsRegistered
<1>1. Init => Types /\ AtOne /\ CredInv /\ RegInv
  <2>1. Init => CredInv
    BY Empties DEF Init, CredInv, Held, Guarded, Creating, Leaving, Cleaned
  <2>2. Init => RegInv
    BY Empties DEF Init, RegInv, LiveCovered, OnTheWay, Reborn, Deleting
  <2> QED BY <2>1, <2>2, TypeInit
<1>2. Types /\ AtOne /\ CredInv /\ RegInv /\ [Next]_vars
        => (Types /\ AtOne /\ CredInv /\ RegInv)'
  BY TypeStep, CredStep, RegStep
<1>3. Types /\ AtOne /\ CredInv /\ RegInv => QuietIsRegistered
  BY DEF RegInv, LiveCovered, Attended, Registering, Complete, Quiet, QuietIsRegistered
<1> QED BY <1>1, <1>2, <1>3, PTL DEF Spec
=============================================================================
