--------------------------- MODULE ServiceExports ---------------------------
(***************************************************************************)
(* One service of one slice.  The worker operators of the clusters that    *)
(* run the service each keep a ServiceExportConfig; the controller keeps   *)
(* one WorkerServiceImport per cluster of the slice, whose spec lists the  *)
(* endpoints of all the live exports.  Three reconcilers work on them, one *)
(* request at a time each: of ServiceExportConfigs                         *)
(* (service/service_export_config_service.go), of WorkerServiceImports     *)
(* (service/worker_service_import_service.go), and step 8 of the           *)
(* SliceConfig reconcile, which runs the import creation of the former     *)
(* with the cluster list it has read itself; a slice without a network     *)
(* does not get to that step.                                              *)
(*                                                                         *)
(* An endpoint list is the set of pairs <<export, version of its spec>>.   *)
(* Writes fail with Conflict when the object has been written since it was *)
(* read; a Get and the Update that follows it at once are one step.  An    *)
(* import on which a worker operator holds a finalizer of its own only     *)
(* stays in its queue longer (ten minutes at most, service_helper.go:50),  *)
(* which any order of the requests allows for.                             *)
(***************************************************************************)
EXTENDS Naturals, FiniteSets

CONSTANTS
  Cluster, Export,
  Sources,     \* which clusters the exports may come from, a set of functions
  Exported,    \* the exports that have just been created at the start
  Lists,       \* the cluster lists (sets) users give the slice
  NoExport, NoCluster,
  Events,      \* the kinds of events that happen in this instance
  MaxEvents    \* bound: events in a behaviour

ASSUME SourceAssumption == Sources \subseteq [Export -> Cluster]
ASSUME ExportedAssumption == Exported \subseteq Export
ASSUME ListsAssumption == Lists \subseteq SUBSET Cluster
ASSUME NoneAssumption == NoExport \notin Export /\ NoCluster \notin Cluster
ASSUME MaxEventsAssumption == MaxEvents \in Nat

Version == {0, 1}

VARIABLES
  source,       \* source[e]: the cluster whose worker keeps the export e
  slice,        \* the SliceConfig: whether it exists, its clusters
  exp,          \* exp[e]: the ServiceExportConfig e
  imp,          \* imp[c]: the WorkerServiceImport of cluster c
  sliceQueue, expQueue, impQueue,   \* requests in the work queues
  run,          \* the reconciles "slice" and "export" under way
  pending,      \* the exports step 8 of the slice reconcile has still to do
  fresh,        \* nobody has written the export since its reconcile read it
  dirty,        \* imports written since ForceReconciliation has listed them
  im,           \* the WorkerServiceImport reconcile under way
  lapses,       \* what went wrong and nobody was told, see Lapses
  events

vars == <<source, slice, exp, imp, sliceQueue, expQueue, impQueue, run, pending,
          fresh, dirty, im, lapses, events>>

NoExp == [state |-> "absent", fin |-> FALSE, labelled |-> FALSE, ver |-> 0]
NoImp == [state |-> "absent", fin |-> FALSE, lists |-> {}]
Idle  == [pc |-> "idle", e |-> NoExport, clusters |-> {}, todo |-> {}]
ImIdle == [pc |-> "idle", c |-> NoCluster, read |-> {}, e |-> NoExport, fresh |-> TRUE]

(* Two errors are only logged, and a list that was read may be outdated.   *)
Lapses ==
  [force : BOOLEAN,               \* a ForceReconciliation has failed
   finalizers : SUBSET Cluster,   \* imports the finalizer Update failed on
   late : SUBSET Cluster]         \* imports last created or annotated when the
                                  \* slice or the exports did not ask for it

Process == {"slice", "export"}

ExpExists(e) == exp[e].state # "absent"
ImpExists(c) == imp[c].state # "absent"

(* ListWorkerServiceImport: the imports of the service, by owner label.    *)
ListWorkerServiceImport == {c \in Cluster : ImpExists(c)}

(* Faulty variant: exports that are being deleted are found too.           *)
LookupDeletingToo == {e \in Export : ExpExists(e) /\ exp[e].labelled}

(* LookupServiceExportForService: by labels, without the deleted ones.     *)
LookupServiceExportForService ==
  {e \in Export : exp[e].state = "live" /\ exp[e].labelled}

(* getServiceExportBySliceName of the slice reconciler: deleted or not.    *)
getServiceExportBySliceName == {e \in Export : ExpExists(e) /\ exp[e].labelled}

(* The spec copySpecFromServiceExportConfigToWorkerServiceImport builds.   *)
copySpec(es) == {<<e, exp[e].ver>> : e \in es}

Init ==
  /\ source \in Sources
  /\ \E l \in Lists : slice = [exists |-> TRUE, clusters |-> l]
  /\ \A e \in Exported : source[e] \in slice.clusters
  /\ exp = [e \in Export |-> IF e \in Exported THEN [NoExp EXCEPT !.state = "live"] ELSE NoExp]
  /\ imp = [c \in Cluster |-> NoImp]
  /\ sliceQueue = FALSE /\ expQueue = Exported /\ impQueue = {}
  /\ run = [p \in Process |-> Idle] /\ pending = {} /\ fresh = TRUE /\ dirty = {}
  /\ im = ImIdle /\ events = 0
  /\ lapses = [force |-> FALSE, finalizers |-> {}, late |-> {}]
-----------------------------------------------------------------------------
(* Writes of exports and imports, with the events the watchers get.        *)
WriteExp(e, r) ==
  /\ exp' = [exp EXCEPT ![e] = r] /\ expQueue' = expQueue \cup {e}
  /\ fresh' = (fresh /\ run["export"].e # e)

(* The same for the import reconciler's cached export.                     *)
ImSeesExp(e) == [im EXCEPT !.fresh = @ /\ im.e # e]

WriteImp(c, r) ==
  /\ imp' = [imp EXCEPT ![c] = r] /\ impQueue' = impQueue \cup {c}
  /\ dirty' = IF run["export"].pc = "touch" THEN dirty \cup {c} ELSE dirty

ImSeesImp(c) == [im EXCEPT !.fresh = @ /\ ~(im.pc = "write" /\ im.c = c)]

(* Delete of an import that is being deleted changes nothing.              *)
DeleteImp(c) ==
  IF imp[c].state = "deleting" THEN UNCHANGED <<imp, impQueue, dirty, im>>
  ELSE /\ WriteImp(c, IF imp[c].fin THEN [imp[c] EXCEPT !.state = "deleting"] ELSE NoImp)
       /\ im' = ImSeesImp(c)

Event(kind) == kind \in Events /\ events < MaxEvents /\ events' = events + 1

reconcilers == <<run, pending>>

(* validateServiceExportClusterAndSlice: the slice exists and the source   *)
(* cluster (and the endpoints', the same here) is in it.  The webhook asks *)
(* for it on every create and update, the controller's own ones included.  *)
Admitted(e) == slice.exists /\ source[e] \in slice.clusters
-----------------------------------------------------------------------------
(* The environment: worker operators, users, faults.                       *)

CreateExport(e) ==
  /\ ~ExpExists(e) /\ Admitted(e) /\ Event("create")
  /\ WriteExp(e, [NoExp EXCEPT !.state = "live"]) /\ im' = ImSeesExp(e)
  /\ UNCHANGED <<source, slice, imp, sliceQueue, impQueue, reconcilers, dirty, lapses>>

(* The service's endpoints change.                                         *)
UpdateExport(e) ==
  /\ exp[e].state = "live" /\ Admitted(e) /\ Event("update")
  /\ WriteExp(e, [exp[e] EXCEPT !.ver = 1 - @]) /\ im' = ImSeesExp(e)
  /\ UNCHANGED <<source, slice, imp, sliceQueue, impQueue, reconcilers, dirty, lapses>>

(* The worker deletes its export, or DeleteServiceExportConfigs does.      *)
DeleteExport(e) ==
  /\ exp[e].state = "live" /\ Event("delete")
  /\ WriteExp(e, IF exp[e].fin THEN [exp[e] EXCEPT !.state = "deleting"] ELSE NoExp)
  /\ im' = ImSeesExp(e)
  /\ UNCHANGED <<source, slice, imp, sliceQueue, impQueue, reconcilers, dirty, lapses>>

(* A user deletes an import.  Without the finalizer nobody gets to see it. *)
ForceDelete(c) ==
  /\ imp[c].state = "live" /\ Event("force")
  /\ DeleteImp(c)
  /\ UNCHANGED <<source, slice, exp, sliceQueue, expQueue, reconcilers, fresh, lapses>>

UpdateSlice(l) ==
  /\ slice.exists /\ l # slice.clusters /\ Event("slice")
  /\ slice' = [slice EXCEPT !.clusters = l] /\ sliceQueue' = TRUE
  /\ UNCHANGED <<source, exp, imp, expQueue, impQueue, reconcilers, fresh, dirty, im, lapses>>

(* validateIfServiceExportConfigExists refuses the deletion while exports  *)
(* of the slice are found, by label.  The slice's own objects are deleted  *)
(* in other modules; none of the imports are.                              *)
DeleteSlice ==
  /\ slice.exists /\ getServiceExportBySliceName = {} /\ Event("sliceDelete")
  /\ slice' = [exists |-> FALSE, clusters |-> {}] /\ sliceQueue' = FALSE
  /\ UNCHANGED <<source, exp, imp, expQueue, impQueue, reconcilers, fresh, dirty, im, lapses>>

CreateSlice(l) ==
  /\ ~slice.exists /\ Event("slice")
  /\ slice' = [exists |-> TRUE, clusters |-> l] /\ sliceQueue' = TRUE
  /\ UNCHANGED <<source, exp, imp, expQueue, impQueue, reconcilers, fresh, dirty, im, lapses>>
-----------------------------------------------------------------------------
(* A reconcile of p ends; with an error the request is queued again.       *)
Ended(p) == run' = [run EXCEPT ![p] = Idle]

(* Faulty variant: whatever fails is queued as an export.                  *)
RequeuedBlindly(p) ==
  /\ expQueue' = expQueue \cup {run[p].e}
  /\ sliceQueue' = (sliceQueue \/ (p = "slice" /\ slice.exists))

Requeued(p) ==
  /\ expQueue' = IF p = "export" THEN expQueue \cup {run[p].e} ELSE expQueue
  /\ sliceQueue' = (sliceQueue \/ (p = "slice" /\ slice.exists))

Abort(p) ==
  /\ Ended(p) /\ Requeued(p) /\ fresh' = (p = "export" \/ fresh)
  /\ pending' = IF p = "slice" THEN {} ELSE pending
  /\ dirty' = IF p = "export" THEN {} ELSE dirty

At(p, pc) == run[p].pc = pc
Goto(p, pc) == run' = [run EXCEPT ![p].pc = pc]
-----------------------------------------------------------------------------
(* ReconcileServiceExportConfig.                                           *)
TakeExport(e) == At("export", "idle") /\ e \in expQueue

ReconcileExportAbsent(e) ==
  /\ TakeExport(e) /\ ~ExpExists(e)
  /\ expQueue' = expQueue \ {e}
  /\ UNCHANGED <<source, slice, exp, imp, sliceQueue, impQueue, reconcilers, fresh, dirty, im, lapses, events>>

(* A live export gets the finalizer if it has none yet.  An update that is *)
(* not admitted is tried again and again, that is, the export stays queued.*)
ReconcileExportLive(e) ==
  /\ TakeExport(e) /\ exp[e].state = "live"
  /\ exp[e].fin \/ Admitted(e)
  /\ exp' = [exp EXCEPT ![e].fin = TRUE]
  /\ expQueue' = IF exp[e].fin THEN expQueue \ {e} ELSE expQueue
  /\ im' = IF exp[e].fin THEN im ELSE ImSeesExp(e)
  /\ run' = [run EXCEPT !["export"] = [Idle EXCEPT !.pc = "labels", !.e = e]]
  /\ UNCHANGED <<source, slice, imp, sliceQueue, impQueue, pending, fresh, dirty, lapses, events>>

(* No slice: nothing is done, and nobody comes back.                       *)
SliceMissing ==
  /\ At("export", "labels") /\ ~slice.exists
  /\ Ended("export") /\ fresh' = TRUE
  /\ UNCHANGED <<source, slice, exp, imp, sliceQueue, expQueue, impQueue, pending, dirty, im, lapses, events>>

(* The slice is read, the labels are written if they are not there.        *)
LabelExport ==
  LET e == run["export"].e IN
  /\ At("export", "labels") /\ slice.exists
  /\ IF exp[e].labelled \/ (fresh /\ Admitted(e))
     THEN /\ exp' = [exp EXCEPT ![e].labelled = TRUE]
          /\ expQueue' = IF exp[e].labelled THEN expQueue ELSE expQueue \cup {e}
          /\ im' = IF exp[e].labelled THEN im ELSE ImSeesExp(e)
          /\ run' = [run EXCEPT !["export"].pc = "list", !["export"].clusters = slice.clusters]
          /\ UNCHANGED <<sliceQueue, pending, fresh, dirty>>
     ELSE Abort("export") /\ UNCHANGED <<exp, im>>
  /\ UNCHANGED <<source, slice, imp, impQueue, lapses, events>>
-----------------------------------------------------------------------------
(* Faulty variant: the imports of removed clusters are not looked for.     *)
SkipRemoved(p) ==
  /\ At(p, "list")
  /\ run' = [run EXCEPT ![p].pc = "remove", ![p].todo = {}]
  /\ UNCHANGED <<source, slice, exp, imp, sliceQueue, expQueue, impQueue, pending, fresh, dirty, im, lapses, events>>

(* CreateMinimalWorkerServiceImport, called by both reconcilers.  First    *)
(* cleanUpWorkerServiceImportsForRemovedClusters lists what is to go.      *)
ListRemoved(p) ==
  /\ At(p, "list")
  /\ run' = [run EXCEPT ![p].pc = "remove",
                        ![p].todo = ListWorkerServiceImport \ run[p].clusters]
  /\ UNCHANGED <<source, slice, exp, imp, sliceQueue, expQueue, impQueue, pending, fresh, dirty, im, lapses, events>>

(* One Delete of that clean-up, or of DeleteWorkerServiceImportByLabel;    *)
(* NotFound is an error.                                                   *)
DeleteListed(p, c) ==
  /\ run[p].pc \in {"remove", "delete"} /\ c \in run[p].todo
  /\ IF ImpExists(c)
     THEN /\ DeleteImp(c)
          /\ run' = [run EXCEPT ![p].todo = @ \ {c}]
          /\ UNCHANGED <<sliceQueue, expQueue, pending, fresh>>
     ELSE Abort(p) /\ UNCHANGED <<imp, impQueue, im>>
  /\ UNCHANGED <<source, slice, exp, lapses, events>>

StartApply(p) ==
  /\ At(p, "remove") /\ run[p].todo = {}
  /\ run' = [run EXCEPT ![p].pc = "apply", ![p].todo = run[p].clusters]
  /\ UNCHANGED <<source, slice, exp, imp, sliceQueue, expQueue, impQueue, pending, fresh, dirty, im, lapses, events>>

(* Does anybody want an import for c at present?                           *)
Asked(c) == c \in slice.clusters /\ LookupServiceExportForService # {}

(* Faulty variant: an import that exists is left alone.                    *)
ApplyOnlyNew(p, c) ==
  /\ At(p, "apply") /\ c \in run[p].todo
  /\ IF ImpExists(c)
     THEN UNCHANGED <<imp, impQueue, dirty, im>>
     ELSE WriteImp(c, [NoImp EXCEPT !.state = "live"]) /\ im' = ImSeesImp(c)
  /\ run' = [run EXCEPT ![p].todo = @ \ {c}]
  /\ lapses' = [lapses EXCEPT !.late = IF Asked(c) THEN @ \ {c} ELSE @ \cup {c}]
  /\ UNCHANGED <<source, slice, exp, sliceQueue, expQueue, pending, fresh, events>>

(* Then every cluster: a missing import is created, one that exists has    *)
(* its annotation written, so that it is reconciled.                       *)
ApplyCluster(p, c) ==
  /\ At(p, "apply") /\ c \in run[p].todo
  /\ WriteImp(c, IF ImpExists(c) THEN imp[c] ELSE [NoImp EXCEPT !.state = "live"])
  /\ im' = ImSeesImp(c)
  /\ run' = [run EXCEPT ![p].todo = @ \ {c}]
  /\ lapses' = [lapses EXCEPT !.late = IF Asked(c) THEN @ \ {c} ELSE @ \cup {c}]
  /\ UNCHANGED <<source, slice, exp, sliceQueue, expQueue, pending, fresh, events>>

ExportApplied ==
  /\ At("export", "apply") /\ run["export"].todo = {}
  /\ Ended("export") /\ fresh' = TRUE
  /\ UNCHANGED <<source, slice, exp, imp, sliceQueue, expQueue, impQueue, pending, dirty, im, lapses, events>>
-----------------------------------------------------------------------------
(* Step 8 of ReconcileSliceConfig: the cluster list is the one read when   *)
(* the reconcile began.                                                    *)
ReconcileSlice ==
  /\ sliceQueue /\ At("slice", "idle")
  /\ sliceQueue' = FALSE
  /\ run' = [run EXCEPT !["slice"] = [Idle EXCEPT !.pc = "exports", !.clusters = slice.clusters]]
  /\ UNCHANGED <<source, slice, exp, imp, expQueue, impQueue, pending, fresh, dirty, im, lapses, events>>

ListExports ==
  /\ At("slice", "exports")
  /\ pending' = getServiceExportBySliceName
  /\ Goto("slice", "next")
  /\ UNCHANGED <<source, slice, exp, imp, sliceQueue, expQueue, impQueue, fresh, dirty, im, lapses, events>>

NextExport ==
  /\ At("slice", "next") \/ (At("slice", "apply") /\ run["slice"].todo = {})
  /\ \/ /\ pending = {} /\ Ended("slice") /\ UNCHANGED pending
     \/ \E e \in pending : Goto("slice", "list") /\ pending' = pending \ {e}
  /\ UNCHANGED <<source, slice, exp, imp, sliceQueue, expQueue, impQueue, fresh, dirty, im, lapses, events>>
-----------------------------------------------------------------------------
(* Faulty variant: the export that is being deleted counts as another.     *)
KeepsForItself(e) == LookupDeletingToo # {}

(* cleanUpServiceExportConfigResources keeps the imports if there are      *)
(* exports of another cluster.                                             *)
KeepsImports(e) ==
  LET others == LookupServiceExportForService
  IN  ~(others = {} \/ \E o \in others : others = {o} /\ source[o] = source[e])

ReconcileExportDeleting(e) ==
  /\ TakeExport(e) /\ exp[e].state = "deleting"
  /\ expQueue' = expQueue \ {e}
  /\ run' = [run EXCEPT !["export"] =
              [Idle EXCEPT !.pc = IF KeepsImports(e) THEN "listTouch" ELSE "listDelete", !.e = e]]
  /\ UNCHANGED <<source, slice, exp, imp, sliceQueue, impQueue, pending, fresh, dirty, im, lapses, events>>

ListForDeletion ==
  /\ run["export"].pc \in {"listTouch", "listDelete"}
  /\ run' = [run EXCEPT !["export"].todo = ListWorkerServiceImport,
                        !["export"].pc = IF @ = "listTouch" THEN "touch" ELSE "delete"]
  /\ dirty' = {}
  /\ UNCHANGED <<source, slice, exp, imp, sliceQueue, expQueue, impQueue, pending, fresh, im, lapses, events>>

(* ForceReconciliation writes the imports as listed; it stops at the first *)
(* one that has changed or gone, and the caller only logs that.            *)
TouchListed(c) ==
  /\ At("export", "touch") /\ c \in run["export"].todo
  /\ IF c \in dirty
     THEN /\ run' = [run EXCEPT !["export"].todo = {}]
          /\ lapses' = [lapses EXCEPT !.force = TRUE]
          /\ UNCHANGED <<imp, impQueue, dirty, im>>
     ELSE /\ WriteImp(c, imp[c]) /\ im' = ImSeesImp(c)
          /\ run' = [run EXCEPT !["export"].todo = @ \ {c}]
          /\ UNCHANGED lapses
  /\ UNCHANGED <<source, slice, exp, sliceQueue, expQueue, pending, fresh, events>>

(* RemoveFinalizer, with the export as it was read.  An export of a        *)
(* cluster that has left the slice never gets past the webhook.            *)
RemoveExportFinalizer ==
  LET e == run["export"].e IN
  /\ run["export"].pc \in {"touch", "delete"} /\ run["export"].todo = {}
  /\ IF fresh /\ Admitted(e)
     THEN /\ exp' = [exp EXCEPT ![e] = NoExp] /\ expQueue' = expQueue \cup {e}
          /\ im' = ImSeesExp(e)
          /\ Ended("export") /\ dirty' = {}
          /\ UNCHANGED <<sliceQueue, pending, fresh>>
     ELSE Abort("export") /\ UNCHANGED <<exp, im>>
  /\ UNCHANGED <<source, slice, imp, impQueue, lapses, events>>
-----------------------------------------------------------------------------
(* ReconcileWorkerServiceImport.                                           *)
TakeImport(c) == im.pc = "idle" /\ c \in impQueue

ReconcileImportAbsent(c) ==
  /\ TakeImport(c) /\ ~ImpExists(c)
  /\ impQueue' = impQueue \ {c}
  /\ UNCHANGED <<source, slice, exp, imp, sliceQueue, expQueue, reconcilers, fresh, dirty, im, lapses, events>>

(* The finalizer if needed, then the exports; without any, it returns.     *)
ReconcileImportLive(c) ==
  /\ TakeImport(c) /\ imp[c].state = "live"
  /\ IF imp[c].fin
     THEN impQueue' = impQueue \ {c} /\ UNCHANGED <<imp, dirty>>
     ELSE WriteImp(c, [imp[c] EXCEPT !.fin = TRUE])
  /\ im' = IF LookupServiceExportForService = {} THEN im
           ELSE [ImIdle EXCEPT !.pc = "write", !.c = c,
                               !.read = copySpec(LookupServiceExportForService)]
  /\ UNCHANGED <<source, slice, exp, sliceQueue, expQueue, reconcilers, fresh, lapses, events>>

(* Update with what was read; a Conflict has it done again.                *)
WriteSpec ==
  /\ im.pc = "write"
  /\ IF im.fresh /\ im.read # imp[im.c].lists
     THEN WriteImp(im.c, [imp[im.c] EXCEPT !.lists = im.read])
     ELSE /\ impQueue' = IF im.fresh THEN impQueue ELSE impQueue \cup {im.c}
          /\ UNCHANGED <<imp, dirty>>
  /\ im' = ImIdle
  /\ UNCHANGED <<source, slice, exp, sliceQueue, expQueue, reconcilers, fresh, lapses, events>>

(* RemoveWorkerFinalizers: an import that is being deleted loses its       *)
(* finalizers and is gone ...                                              *)
ReconcileImportDeleting(c) ==
  /\ TakeImport(c) /\ imp[c].state = "deleting"
  /\ WriteImp(c, NoImp)
  /\ im' = [ImIdle EXCEPT !.pc = "lookup", !.c = c]
  /\ lapses' = [lapses EXCEPT !.finalizers = @ \ {c}]
  /\ UNCHANGED <<source, slice, exp, sliceQueue, expQueue, reconcilers, fresh, events>>

(* ... or stays, if that Update fails: the error is logged and the         *)
(* reconcile goes on as if the import were gone, without coming back ...   *)
RemoveWorkerFinalizersFails(c) ==
  /\ TakeImport(c) /\ imp[c].state = "deleting" /\ Event("error")
  /\ impQueue' = impQueue \ {c}
  /\ im' = [ImIdle EXCEPT !.pc = "lookup", !.c = c]
  /\ lapses' = [lapses EXCEPT !.finalizers = @ \cup {c}]
  /\ UNCHANGED <<source, slice, exp, imp, sliceQueue, expQueue, reconcilers, fresh, dirty>>

(* ... then an export that wants it is looked for, the first of a listing  *)
(* that comes in no particular order ...                                   *)
LookupForRecreation ==
  /\ im.pc = "lookup"
  /\ \/ /\ LookupServiceExportForService = {} \/ ~slice.exists \/ im.c \notin slice.clusters
        /\ im' = ImIdle
     \/ /\ slice.exists /\ im.c \in slice.clusters
        /\ \E e \in LookupServiceExportForService : im' = [im EXCEPT !.pc = "recreate", !.e = e]
  /\ UNCHANGED <<source, slice, exp, imp, sliceQueue, expQueue, impQueue, reconcilers, fresh, dirty, lapses, events>>

(* ... and written, so that it is reconciled.  If that fails the request   *)
(* comes back and finds no import any more.                                *)
TouchExport ==
  /\ im.pc = "recreate"
  /\ IF im.fresh /\ Admitted(im.e)
     THEN WriteExp(im.e, exp[im.e]) /\ UNCHANGED impQueue
     ELSE impQueue' = impQueue \cup {im.c} /\ UNCHANGED <<exp, expQueue, fresh>>
  /\ im' = ImIdle
  /\ UNCHANGED <<source, slice, imp, sliceQueue, reconcilers, dirty, lapses, events>>
-----------------------------------------------------------------------------
(* Errors of listing and touching the imports that stay are only logged.   *)
Logged == At("export", "listTouch") \/ (At("export", "touch") /\ run["export"].todo # {})

(* An API call fails: otherwise the reconcile returns the error and is     *)
(* queued again.                                                           *)
Fail ==
  /\ Event("error")
  /\ \/ \E p \in Process :
          /\ ~At(p, "idle") /\ ~(p = "export" /\ Logged)
          /\ Abort(p) /\ UNCHANGED <<im, impQueue, lapses>>
     \/ /\ Logged /\ lapses' = [lapses EXCEPT !.force = TRUE]
        /\ run' = [run EXCEPT !["export"].pc = "touch", !["export"].todo = {}]
        /\ UNCHANGED <<im, impQueue, expQueue, sliceQueue, pending, fresh, dirty>>
     \/ /\ im.pc # "idle" /\ im' = ImIdle /\ impQueue' = impQueue \cup {im.c}
        /\ UNCHANGED <<run, expQueue, sliceQueue, pending, fresh, dirty, lapses>>
  /\ UNCHANGED <<source, slice, exp, imp>>

AllQueued ==
  /\ expQueue' = {e \in Export : ExpExists(e)} /\ impQueue' = ListWorkerServiceImport
  /\ sliceQueue' = slice.exists

(* The manager restarts: the reconciles are lost, everything is listed.    *)
Crash ==
  /\ Event("crash") /\ AllQueued
  /\ run' = [p \in Process |-> Idle] /\ pending' = {} /\ im' = ImIdle
  /\ fresh' = TRUE /\ dirty' = {}
  /\ UNCHANGED <<source, slice, exp, imp, lapses>>

Quiet ==
  /\ ~sliceQueue /\ expQueue = {} /\ impQueue = {}
  /\ im.pc = "idle" /\ \A p \in Process : At(p, "idle")

(* The informers' periodic resync, when there is nothing else to do.       *)
Resync ==
  /\ "resync" \in Events /\ Quiet /\ AllQueued
  /\ UNCHANGED <<source, slice, exp, imp, reconcilers, fresh, dirty, im, lapses, events>>
-----------------------------------------------------------------------------
Environment ==
  \/ \E e \in Export : CreateExport(e) \/ UpdateExport(e) \/ DeleteExport(e)
  \/ \E c \in Cluster : ForceDelete(c) \/ RemoveWorkerFinalizersFails(c)
  \/ \E l \in Lists : UpdateSlice(l) \/ CreateSlice(l)
  \/ DeleteSlice \/ Fail \/ Crash

CreateMinimal(p) ==
  \/ ListRemoved(p) \/ StartApply(p)
  \/ \E c \in Cluster : DeleteListed(p, c) \/ ApplyCluster(p, c)

ExportStep ==
  \/ \E e \in Export : ReconcileExportAbsent(e) \/ ReconcileExportLive(e) \/ ReconcileExportDeleting(e)
  \/ SliceMissing \/ LabelExport \/ CreateMinimal("export") \/ ExportApplied
  \/ ListForDeletion \/ (\E c \in Cluster : TouchListed(c)) \/ RemoveExportFinalizer

SliceStep == ReconcileSlice \/ ListExports \/ NextExport \/ CreateMinimal("slice")

ImportStep ==
  \/ \E c \in Cluster : ReconcileImportAbsent(c) \/ ReconcileImportLive(c) \/ ReconcileImportDeleting(c)
  \/ WriteSpec \/ LookupForRecreation \/ TouchExport

Next == Environment \/ ExportStep \/ SliceStep \/ ImportStep \/ Resync

Spec == Init /\ [][Next]_vars

(* The work queues hand out every request and the resync period passes.    *)
FairSpec ==
  Spec /\ WF_vars(ExportStep) /\ WF_vars(SliceStep) /\ WF_vars(ImportStep) /\ WF_vars(Resync)
-----------------------------------------------------------------------------
RunType == [pc : {"idle", "labels", "list", "remove", "apply", "exports", "next",
                  "listTouch", "listDelete", "touch", "delete"},
            e : Export \cup {NoExport}, clusters : SUBSET Cluster, todo : SUBSET Cluster]
ImType == [pc : {"idle", "write", "lookup", "recreate"}, c : Cluster \cup {NoCluster},
           read : SUBSET (Export \X Version), e : Export \cup {NoExport}, fresh : BOOLEAN]
ExpType == [state : {"absent", "live", "deleting"}, fin : BOOLEAN, labelled : BOOLEAN,
            ver : Version]
ImpType == [state : {"absent", "live", "deleting"}, fin : BOOLEAN,
            lists : SUBSET (Export \X Version)]

(* Types of the objects, the queues and the reconcilers' local state.      *)
TypeOK ==
  /\ source \in [Export -> Cluster] /\ slice \in [exists : BOOLEAN, clusters : SUBSET Cluster]
  /\ exp \in [Export -> ExpType] /\ imp \in [Cluster -> ImpType]
  /\ sliceQueue \in BOOLEAN /\ expQueue \subseteq Export /\ impQueue \subseteq Cluster
  /\ run \in [Process -> RunType] /\ pending \subseteq Export
  /\ fresh \in BOOLEAN /\ dirty \subseteq Cluster /\ lapses \in Lapses
  /\ im \in ImType
  /\ events \in 0..MaxEvents

Live == {e \in Export : exp[e].state = "live"}

(* The imports are what the exports and the slice ask for.                 *)
Exact ==
  \A c \in Cluster :
    IF c \in slice.clusters
    THEN imp[c].state = "live" /\ imp[c].lists = copySpec(Live)
    ELSE ~ImpExists(c)

(* Once nothing is left to do, every import is live, lists exactly the     *)
(* live exports at their latest specs and belongs to a cluster of the      *)
(* slice, whatever was edited meanwhile.  Exceptions: an import whose      *)
(* finalizer Update failed is still being deleted; lists may be old after  *)
(* a ForceReconciliation has failed; and an export reconcile that had read *)
(* the slice before a cluster left writes the import of that cluster again *)
(* (late).  An import may be missing until the next resync.                *)
QuietIsExact ==
  Quiet /\ slice.exists /\ Live # {} =>
    \A c \in Cluster : ImpExists(c) =>
      \/ imp[c].state = "deleting" /\ c \in lapses.finalizers
      \/ /\ imp[c].state = "live"
         /\ lapses.force \/ imp[c].lists = copySpec(Live)
         /\ c \in lapses.late \/ c \in slice.clusters

(* With the last export the imports go: "If no ServiceExportConfig are     *)
(* found: delete all service imports".  What remains is an import whose    *)
(* finalizer Update failed, or one that a slice reconcile wrote again for  *)
(* an export it had listed before it was deleted (late).                   *)
NoOrphanImports ==
  Quiet /\ (\A e \in Export : ~ExpExists(e)) =>
    \A c \in Cluster : ImpExists(c) =>
      \/ imp[c].state = "deleting" /\ c \in lapses.finalizers
      \/ imp[c].state = "live" /\ c \in lapses.late

(* Whatever has happened (edits of the slice, forced deletions, errors, a  *)
(* restart, work that was lost), the imports of a slice that has exports   *)
(* become exact and stay so, if the webhook lets those exports be          *)
(* labelled.                                                               *)
Settles ==
  <>[](slice.exists /\ Live # {} /\ (\A e \in Live : exp[e].labelled \/ Admitted(e)) => Exact)
=============================================================================
