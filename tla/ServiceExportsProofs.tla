------------------------ MODULE ServiceExportsProofs ------------------------
(***************************************************************************)
(* The exports and imports of a service, for any clusters, any exports and *)
(* any number of events: types, that nothing is forgotten, and that no     *)
(* import is left behind but those the three lapses name.                  *)
(***************************************************************************)
EXTENDS ServiceExports, TLAPS

me == run["export"].e

Removing == run["export"].pc \in {"listTouch", "listDelete", "touch", "delete"}

(* A reconcile under way is about an export or an import.                  *)
Placed ==
  /\ IF run["export"].pc = "idle" THEN me = NoExport ELSE me \in Export
  /\ im.pc # "idle" => im.c \in Cluster
  /\ im.pc = "recreate" => im.e \in Export

Types == TypeOK /\ Placed
LEMMA Empties ==
  /\ NoExp \in ExpType /\ [NoExp EXCEPT !.state = "live"] \in ExpType
  /\ NoImp \in ImpType /\ [NoImp EXCEPT !.state = "live"] \in ImpType
  /\ Idle \in RunType /\ ImIdle \in ImType
BY DEF NoExp, ExpType, Version, NoImp, ImpType, Idle, RunType, ImIdle, ImType

LEMMA Updates ==
  /\ \A r \in ExpType : /\ [r EXCEPT !.fin = TRUE] \in ExpType /\ [r EXCEPT !.labelled = TRUE] \in ExpType
                        /\ [r EXCEPT !.state = "deleting"] \in ExpType
  /\ \A r \in ImpType : /\ [r EXCEPT !.fin = TRUE] \in ImpType /\ [r EXCEPT !.state = "deleting"] \in ImpType
BY DEF ExpType, ImpType

LEMMA ListsUpdate ==
  ASSUME NEW r \in ImpType, NEW l \in SUBSET (Export \X Version)
  PROVE  [r EXCEPT !.lists = l] \in ImpType
BY DEF ImpType

LEMMA LapsesSet ==
  ASSUME NEW x \in Lapses
  PROVE  /\ [x EXCEPT !.force = TRUE] \in Lapses
         /\ \A c \in Cluster :
              /\ [x EXCEPT !.finalizers = @ \cup {c}] \in Lapses /\ [x EXCEPT !.finalizers = @ \ {c}] \in Lapses
              /\ [x EXCEPT !.late = @ \cup {c}] \in Lapses /\ [x EXCEPT !.late = @ \ {c}] \in Lapses
BY DEF Lapses

LEMMA Processes == "export" \in Process /\ "slice" \in Process
BY DEF Process

LEMMA copySpecType ==
  ASSUME TypeOK, NEW es \in SUBSET Export PROVE copySpec(es) \in SUBSET (Export \X Version)
BY DEF TypeOK, ExpType, copySpec

LEMMA EventType ==
  ASSUME events \in 0..MaxEvents, NEW kind, Event(kind) PROVE events' \in 0..MaxEvents
BY MaxEventsAssumption DEF Event

(* The local state of the reconciles is set field by field.                *)
LEMMA RunSet ==
  ASSUME NEW r \in [Process -> RunType], NEW p \in Process, NEW x \in RunType
  PROVE  /\ [r EXCEPT ![p] = x] \in [Process -> RunType]
         /\ [r EXCEPT ![p] = x][p] = x
         /\ \A q \in Process : q # p => [r EXCEPT ![p] = x][q] = r[q]
OBVIOUS

LEMMA RunTodo ==
  ASSUME TypeOK, NEW p \in Process, NEW t \in SUBSET Cluster,
         run' = [run EXCEPT ![p].todo = t]
  PROVE  /\ run' \in [Process -> RunType] /\ \A q \in Process : q # p => run'[q] = run[q]
         /\ run'[p].pc = run[p].pc /\ run'[p].e = run[p].e /\ run'[p].clusters = run[p].clusters /\ run'[p].todo = t
<1> DEFINE x == [run[p] EXCEPT !.todo = t]
<1>1. x \in RunType /\ x.pc = run[p].pc /\ x.e = run[p].e /\ x.clusters = run[p].clusters /\ x.todo = t
  BY DEF TypeOK, RunType
<1>2. run' = [run EXCEPT ![p] = x]
  OBVIOUS
<1> HIDE DEF x
<1>3. run' \in [Process -> RunType] /\ run'[p] = x /\ \A q \in Process : q # p => run'[q] = run[q]
  <2>1. run \in [Process -> RunType]
    BY DEF TypeOK
  <2> QED BY ONLY <1>1, <1>2, <2>1, p \in Process, RunSet
<1> QED BY <1>1, <1>3

LEMMA RunGoto ==
  ASSUME TypeOK, NEW p \in Process, NEW pc \in {"idle", "labels", "list", "remove", "apply", "exports", "next",
                     "listTouch", "listDelete", "touch", "delete"},
         run' = [run EXCEPT ![p].pc = pc]
  PROVE  /\ run' \in [Process -> RunType] /\ \A q \in Process : q # p => run'[q] = run[q]
         /\ run'[p].pc = pc /\ run'[p].e = run[p].e /\ run'[p].clusters = run[p].clusters /\ run'[p].todo = run[p].todo
<1> DEFINE x == [run[p] EXCEPT !.pc = pc]
<1>1. x \in RunType /\ x.pc = pc /\ x.e = run[p].e /\ x.clusters = run[p].clusters /\ x.todo = run[p].todo
  BY DEF TypeOK, RunType
<1>2. run' = [run EXCEPT ![p] = x]
  OBVIOUS
<1> HIDE DEF x
<1>3. run' \in [Process -> RunType] /\ run'[p] = x /\ \A q \in Process : q # p => run'[q] = run[q]
  <2>1. run \in [Process -> RunType]
    BY DEF TypeOK
  <2> QED BY ONLY <1>1, <1>2, <2>1, p \in Process, RunSet
<1> QED BY <1>1, <1>3

LEMMA RunPhase ==
  ASSUME TypeOK, NEW p \in Process, NEW t \in SUBSET Cluster, NEW pc \in {"idle", "labels", "list", "remove", "apply", "exports", "next",
                     "listTouch", "listDelete", "touch", "delete"},
         run' = [run EXCEPT ![p].pc = pc, ![p].todo = t]
  PROVE  /\ run' \in [Process -> RunType] /\ \A q \in Process : q # p => run'[q] = run[q]
         /\ run'[p].pc = pc /\ run'[p].e = run[p].e /\ run'[p].clusters = run[p].clusters /\ run'[p].todo = t
<1> DEFINE x == [run[p] EXCEPT !.pc = pc, !.todo = t]
<1>1. x \in RunType /\ x.pc = pc /\ x.e = run[p].e /\ x.clusters = run[p].clusters /\ x.todo = t
  BY DEF TypeOK, RunType
<1>2. run' = [run EXCEPT ![p] = x]
  OBVIOUS
<1> HIDE DEF x
<1>3. run' \in [Process -> RunType] /\ run'[p] = x /\ \A q \in Process : q # p => run'[q] = run[q]
  <2>1. run \in [Process -> RunType]
    BY DEF TypeOK
  <2> QED BY ONLY <1>1, <1>2, <2>1, p \in Process, RunSet
<1> QED BY <1>1, <1>3

LEMMA RunRead ==
  ASSUME TypeOK, NEW p \in Process, NEW l \in SUBSET Cluster, NEW pc \in {"idle", "labels", "list", "remove", "apply", "exports", "next",
                     "listTouch", "listDelete", "touch", "delete"},
         run' = [run EXCEPT ![p].pc = pc, ![p].clusters = l]
  PROVE  /\ run' \in [Process -> RunType] /\ \A q \in Process : q # p => run'[q] = run[q]
         /\ run'[p].pc = pc /\ run'[p].e = run[p].e /\ run'[p].clusters = l /\ run'[p].todo = run[p].todo
<1> DEFINE x == [run[p] EXCEPT !.pc = pc, !.clusters = l]
<1>1. x \in RunType /\ x.pc = pc /\ x.e = run[p].e /\ x.clusters = l /\ x.todo = run[p].todo
  BY DEF TypeOK, RunType
<1>2. run' = [run EXCEPT ![p] = x]
  OBVIOUS
<1> HIDE DEF x
<1>3. run' \in [Process -> RunType] /\ run'[p] = x /\ \A q \in Process : q # p => run'[q] = run[q]
  <2>1. run \in [Process -> RunType]
    BY DEF TypeOK
  <2> QED BY ONLY <1>1, <1>2, <2>1, p \in Process, RunSet
<1> QED BY <1>1, <1>3

LEMMA RunPlaced ==
  ASSUME Placed, NEW p \in Process, run[p].pc # "idle", run'[p].pc # "idle", run'[p].e = run[p].e,
         \A q \in Process : q # p => run'[q] = run[q]
  PROVE  IF run'["export"].pc = "idle" THEN me' = NoExport ELSE me' \in Export
BY Processes DEF Placed, me

LEMMA ImSees ==
  ASSUME TypeOK, NEW e, NEW c
  PROVE  /\ ImSeesExp(e) \in ImType /\ ImSeesImp(c) \in ImType
         /\ \A x \in {ImSeesExp(e), ImSeesImp(c)} :
              x.pc = im.pc /\ x.c = im.c /\ x.e = im.e /\ x.read = im.read
BY DEF TypeOK, ImType, ImSeesExp, ImSeesImp

LEMMA WriteExpType ==
  ASSUME TypeOK, NEW e \in Export, NEW r \in ExpType, WriteExp(e, r)
  PROVE  exp' \in [Export -> ExpType] /\ expQueue' \subseteq Export /\ fresh' \in BOOLEAN
BY DEF TypeOK, WriteExp

LEMMA WriteImpType ==
  ASSUME TypeOK, NEW c \in Cluster, NEW r \in ImpType, WriteImp(c, r)
  PROVE  imp' \in [Cluster -> ImpType] /\ impQueue' \subseteq Cluster /\ dirty' \subseteq Cluster
BY DEF TypeOK, WriteImp

LEMMA DeleteImpType ==
  ASSUME TypeOK, NEW c \in Cluster, DeleteImp(c)
  PROVE  /\ imp' \in [Cluster -> ImpType] /\ impQueue' \subseteq Cluster /\ dirty' \subseteq Cluster
         /\ im' = im \/ im' = ImSeesImp(c)
<1>1. [imp[c] EXCEPT !.state = "deleting"] \in ImpType
  BY DEF TypeOK, ImpType
<1>2. CASE imp[c].state = "deleting"
  BY <1>2 DEF DeleteImp, TypeOK
<1>3. CASE imp[c].state # "deleting"
  BY <1>1, <1>3, Empties, WriteImpType DEF DeleteImp
<1> QED BY <1>2, <1>3

LEMMA AbortType ==
  ASSUME Types, NEW p \in Process, run[p].pc # "idle", Abort(p)
  PROVE  /\ run' \in [Process -> RunType] /\ pending' \subseteq Export /\ fresh' \in BOOLEAN
         /\ dirty' \subseteq Cluster /\ expQueue' \subseteq Export /\ sliceQueue' \in BOOLEAN
         /\ IF run'["export"].pc = "idle" THEN me' = NoExport ELSE me' \in Export
<1>1. run' \in [Process -> RunType] /\ run'[p] = Idle /\ \A q \in Process : q # p => run'[q] = run[q]
  BY RunSet, Empties DEF Types, TypeOK, Abort, Ended
<1>2. p = "export" => me \in Export
  BY DEF Types, Placed, me
<1>3. expQueue' \subseteq Export
  BY <1>2 DEF Abort, Requeued, Types, TypeOK, me
<1>4. IF run'["export"].pc = "idle" THEN me' = NoExport ELSE me' \in Export
  <2>1. CASE p = "export"
    BY <1>1, <2>1 DEF Idle, me
  <2>2. CASE p # "export"
    BY <1>1, <2>2, Processes DEF Types, Placed, me
  <2> QED BY <2>1, <2>2
<1>5. fresh' \in BOOLEAN
  BY DEF Abort
<1>6. sliceQueue' \in BOOLEAN
  BY DEF Abort, Requeued
<1> QED BY <1>1, <1>3, <1>4, <1>5, <1>6 DEF Abort, Types, TypeOK
-----------------------------------------------------------------------------
(* The actions keep the types, group by group as in Next.                  *)
LEMMA EnvironmentType ==
  ASSUME Types, Environment PROVE Types'
<1> USE DEF Types, Placed, me
<1>1. ASSUME NEW e \in Export, CreateExport(e) \/ UpdateExport(e) \/ DeleteExport(e) PROVE Types'
  <2>1. PICK r \in ExpType : WriteExp(e, r)
    <3>1. [exp[e] EXCEPT !.ver = 1 - @] \in ExpType
      BY DEF TypeOK, ExpType, Version
    <3>2. [exp[e] EXCEPT !.state = "deleting"] \in ExpType
      BY DEF TypeOK, ExpType
    <3> QED BY <1>1, <3>1, <3>2, Empties DEF CreateExport, UpdateExport, DeleteExport
  <2>2. exp' \in [Export -> ExpType] /\ expQueue' \subseteq Export /\ fresh' \in BOOLEAN
    BY <2>1, WriteExpType
  <2>3. im' = ImSeesExp(e) /\ events' \in 0..MaxEvents
        /\ UNCHANGED <<source, slice, imp, sliceQueue, impQueue, run, pending, dirty, lapses>>
    BY <1>1, EventType DEF CreateExport, UpdateExport, DeleteExport, TypeOK, reconcilers
  <2> QED BY <2>2, <2>3, ImSees DEF TypeOK
<1>2. ASSUME NEW c \in Cluster, ForceDelete(c) PROVE Types'
  BY <1>2, DeleteImpType, ImSees, EventType DEF ForceDelete, TypeOK, reconcilers
<1>3. ASSUME NEW l \in Lists, UpdateSlice(l) \/ CreateSlice(l) PROVE Types'
  <2>1. slice' = [exists |-> TRUE, clusters |-> l] /\ sliceQueue' = TRUE
    BY <1>3 DEF UpdateSlice, CreateSlice, TypeOK
  <2>2. [exists |-> TRUE, clusters |-> l] \in [exists : BOOLEAN, clusters : SUBSET Cluster]
    BY ListsAssumption
  <2> QED BY <1>3, <2>1, <2>2, EventType DEF UpdateSlice, CreateSlice, TypeOK, reconcilers
<1>4. CASE DeleteSlice
  BY <1>4, EventType DEF DeleteSlice, TypeOK, reconcilers
<1>5. CASE Fail
  <2>1. events' \in 0..MaxEvents /\ UNCHANGED <<source, slice, exp, imp>>
    BY <1>5, EventType DEF Fail, TypeOK
  <2>2. ASSUME NEW p \in Process, ~At(p, "idle"), Abort(p), UNCHANGED <<im, impQueue, lapses>>
        PROVE  Types'
    BY <2>1, <2>2, AbortType DEF At, TypeOK
  <2>3. ASSUME Logged, run' = [run EXCEPT !["export"].pc = "touch", !["export"].todo = {}],
               lapses' = [lapses EXCEPT !.force = TRUE],
               UNCHANGED <<im, impQueue, expQueue, sliceQueue, pending, fresh, dirty>>
        PROVE  Types'
    <3>1. run' \in [Process -> RunType] /\ run'["export"].pc = "touch" /\ me' = me
      <4> DEFINE x == [run["export"] EXCEPT !.pc = "touch", !.todo = {}]
      <4>1. x \in RunType /\ x.pc = "touch" /\ x.e = me
        BY ZenonT(60), Processes DEF TypeOK, RunType
      <4>2. run' = [run EXCEPT !["export"] = x]
        BY <2>3
      <4> QED BY <4>1, <4>2, Processes DEF TypeOK
    <3>2. me \in Export
      BY <2>3 DEF Logged, At
    <3> QED BY <2>1, <2>3, <3>1, <3>2, LapsesSet DEF TypeOK
  <2>4. ASSUME im.pc # "idle", im' = ImIdle, impQueue' = impQueue \cup {im.c},
               UNCHANGED <<run, expQueue, sliceQueue, pending, fresh, dirty, lapses>>
        PROVE  Types'
    BY <2>1, <2>4, Empties DEF TypeOK, ImIdle
  <2> QED BY <1>5, <2>2, <2>3, <2>4 DEF Fail
<1>6. CASE Crash
  <2>1. run' \in [Process -> RunType] /\ run'["export"] = Idle
    BY <1>6, Empties, Processes DEF Crash
  <2>2. expQueue' \subseteq Export /\ impQueue' \subseteq Cluster /\ sliceQueue' \in BOOLEAN
    BY <1>6 DEF Crash, AllQueued, ListWorkerServiceImport, TypeOK
  <2>3. UNCHANGED <<source, slice, exp, imp, lapses>> /\ im' = ImIdle
        /\ fresh' = TRUE /\ dirty' = {} /\ pending' = {} /\ events' \in 0..MaxEvents
    BY <1>6, EventType DEF Crash, TypeOK
  <2> QED BY <2>1, <2>2, <2>3, Empties DEF TypeOK, Idle, ImIdle
<1>7. ASSUME NEW c \in Cluster, RemoveWorkerFinalizersFails(c) PROVE Types'
  <2>1. im' \in ImType /\ im'.pc = "lookup" /\ im'.c = c
    BY <1>7 DEF RemoveWorkerFinalizersFails, ImIdle, ImType
  <2> QED BY <1>7, <2>1, EventType, LapsesSet DEF RemoveWorkerFinalizersFails, TypeOK, reconcilers
<1> QED BY <1>1, <1>2, <1>3, <1>4, <1>5, <1>6, <1>7 DEF Environment

(* CreateMinimalWorkerServiceImport, in either reconcile.                  *)
LEMMA CreateMinimalType ==
  ASSUME Types, NEW p \in Process, CreateMinimal(p) PROVE Types'
<1> USE Processes DEF Types, Placed, me
<1>0. run[p] \in RunType /\ run[p].todo \subseteq Cluster /\ run[p].clusters \subseteq Cluster
  BY DEF TypeOK, RunType
<1>1. CASE ListRemoved(p)
  <2> DEFINE t == ListWorkerServiceImport \ run[p].clusters
  <2>1. t \in SUBSET Cluster /\ run' = [run EXCEPT ![p].pc = "remove", ![p].todo = t]
    BY <1>1 DEF ListRemoved, ListWorkerServiceImport
  <2> HIDE DEF t
  <2>2. run' \in [Process -> RunType]
    BY <2>1, RunPhase
  <2>3. IF run'["export"].pc = "idle" THEN me' = NoExport ELSE me' \in Export
    <3>1. run'[p].pc = "remove" /\ run'[p].e = run[p].e /\ \A q \in Process : q # p => run'[q] = run[q]
      BY <2>1, RunPhase
    <3>2. run[p].pc # "idle"
      BY <1>1 DEF ListRemoved, At
    <3> QED BY <3>1, <3>2, RunPlaced
  <2> QED BY <1>1, <2>2, <2>3 DEF ListRemoved, TypeOK
<1>2. CASE StartApply(p)
  <2>1. run' = [run EXCEPT ![p].pc = "apply", ![p].todo = run[p].clusters]
    BY <1>2 DEF StartApply
  <2>2. run' \in [Process -> RunType]
    BY <1>0, <2>1, RunPhase
  <2>3. IF run'["export"].pc = "idle" THEN me' = NoExport ELSE me' \in Export
    <3>1. run'[p].pc = "apply" /\ run'[p].e = run[p].e /\ \A q \in Process : q # p => run'[q] = run[q]
      BY <1>0, <2>1, RunPhase
    <3>2. run[p].pc # "idle"
      BY <1>2 DEF StartApply, At
    <3> QED BY <3>1, <3>2, RunPlaced
  <2> QED BY <1>2, <2>2, <2>3 DEF StartApply, TypeOK
<1>3. ASSUME NEW c \in Cluster, DeleteListed(p, c) PROVE Types'
  <2>1. CASE ImpExists(c)
    <3> DEFINE t == run[p].todo \ {c}
    <3>1. t \in SUBSET Cluster /\ run' = [run EXCEPT ![p].todo = t]
      BY <1>0, <1>3, <2>1 DEF DeleteListed
    <3>2. /\ imp' \in [Cluster -> ImpType] /\ impQueue' \subseteq Cluster /\ dirty' \subseteq Cluster
          /\ im' = im \/ im' = ImSeesImp(c)
      BY <1>3, <2>1, DeleteImpType DEF DeleteListed
    <3> HIDE DEF t
    <3>3. run' \in [Process -> RunType]
      BY <3>1, RunTodo
    <3>4. IF run'["export"].pc = "idle" THEN me' = NoExport ELSE me' \in Export
      <4>1. run'[p].pc = run[p].pc /\ run'[p].e = run[p].e /\ \A q \in Process : q # p => run'[q] = run[q]
        BY <3>1, RunTodo
      <4>2. run[p].pc # "idle"
        BY <1>3 DEF DeleteListed
      <4> QED BY <4>1, <4>2, RunPlaced
    <3>5. UNCHANGED <<source, slice, exp, sliceQueue, expQueue, pending, fresh, lapses, events>>
      BY <1>3, <2>1 DEF DeleteListed
    <3> QED BY <3>2, <3>3, <3>4, <3>5, ImSees DEF TypeOK
  <2>2. CASE ~ImpExists(c)
    <3>1. run[p].pc # "idle"
      BY <1>3 DEF DeleteListed
    <3> QED BY <1>3, <2>2, <3>1, AbortType DEF DeleteListed, TypeOK
  <2> QED BY <2>1, <2>2
<1>4. ASSUME NEW c \in Cluster, ApplyCluster(p, c) PROVE Types'
  <2> DEFINE t == run[p].todo \ {c}
             r == IF ImpExists(c) THEN imp[c] ELSE [NoImp EXCEPT !.state = "live"]
  <2>1. t \in SUBSET Cluster /\ run' = [run EXCEPT ![p].todo = t]
    BY <1>0, <1>4 DEF ApplyCluster
  <2>2. r \in ImpType /\ WriteImp(c, r)
    BY <1>4, Empties DEF TypeOK, ApplyCluster
  <2> HIDE DEF t, r
  <2>3. imp' \in [Cluster -> ImpType] /\ impQueue' \subseteq Cluster /\ dirty' \subseteq Cluster
    BY <2>2, WriteImpType
  <2>4. run' \in [Process -> RunType]
    BY <2>1, RunTodo
  <2>5. IF run'["export"].pc = "idle" THEN me' = NoExport ELSE me' \in Export
    <3>1. run'[p].pc = run[p].pc /\ run'[p].e = run[p].e /\ \A q \in Process : q # p => run'[q] = run[q]
      BY <2>1, RunTodo
    <3>2. run[p].pc # "idle"
      BY <1>4 DEF ApplyCluster, At
    <3> QED BY <3>1, <3>2, RunPlaced
  <2>6. im' = ImSeesImp(c) /\ UNCHANGED <<source, slice, exp, sliceQueue, expQueue, pending, fresh, events>>
    BY <1>4 DEF ApplyCluster
  <2>7. lapses' \in Lapses
    BY <1>4, LapsesSet DEF ApplyCluster, TypeOK
  <2> QED BY <2>3, <2>4, <2>5, <2>6, <2>7, ImSees DEF TypeOK
<1> QED BY <1>1, <1>2, <1>3, <1>4 DEF CreateMinimal

LEMMA ExportType ==
  ASSUME Types, ExportStep PROVE Types'
<1> USE Processes DEF Types, Placed, me
<1>0. run["export"] \in RunType /\ run["export"].todo \subseteq Cluster
  BY DEF TypeOK, RunType
<1>1. ASSUME NEW e \in Export, ReconcileExportAbsent(e) PROVE Types'
  BY <1>1 DEF ReconcileExportAbsent, TypeOK, reconcilers
<1>2. ASSUME NEW e \in Export, ReconcileExportLive(e) PROVE Types'
  <2> DEFINE x == [Idle EXCEPT !.pc = "labels", !.e = e]
  <2>1. x \in RunType /\ x.pc = "labels" /\ x.e = e
    BY DEF Idle, RunType
  <2>2. [exp[e] EXCEPT !.fin = TRUE] \in ExpType
    BY ZenonT(60) DEF TypeOK, ExpType
  <2>3. exp' \in [Export -> ExpType]
    BY <1>2, <2>2 DEF ReconcileExportLive, TypeOK
  <2>4. run' = [run EXCEPT !["export"] = x]
    BY <1>2 DEF ReconcileExportLive
  <2> HIDE DEF x
  <2>5. run' \in [Process -> RunType] /\ run'["export"] = x
    BY <2>1, <2>4 DEF TypeOK
  <2>6. im' \in ImType /\ im'.pc = im.pc /\ im'.c = im.c /\ im'.e = im.e
    BY <1>2, ImSees DEF ReconcileExportLive, TypeOK
  <2> QED BY <1>2, <2>1, <2>3, <2>5, <2>6 DEF ReconcileExportLive, TypeOK
<1>3. ASSUME NEW e \in Export, ReconcileExportDeleting(e) PROVE Types'
  <2> DEFINE x == [Idle EXCEPT !.pc = IF KeepsImports(e) THEN "listTouch" ELSE "listDelete", !.e = e]
  <2>1. x \in RunType /\ x.pc \in {"listTouch", "listDelete"} /\ x.e = e
    BY DEF Idle, RunType
  <2>2. run' = [run EXCEPT !["export"] = x]
    BY <1>3 DEF ReconcileExportDeleting
  <2> HIDE DEF x
  <2>3. run' \in [Process -> RunType] /\ run'["export"] = x
    BY <2>1, <2>2 DEF TypeOK
  <2> QED BY <1>3, <2>1, <2>3 DEF ReconcileExportDeleting, TypeOK
<1>4. CASE SliceMissing \/ ExportApplied
  <2>1. run' \in [Process -> RunType] /\ run'["export"] = Idle
    BY <1>4, Empties DEF SliceMissing, ExportApplied, Ended, TypeOK
  <2>2. fresh' = TRUE /\ UNCHANGED <<source, slice, exp, imp, sliceQueue, expQueue, impQueue, pending, dirty, im, lapses, events>>
    BY <1>4 DEF SliceMissing, ExportApplied
  <2>3. Idle.pc = "idle" /\ Idle.e = NoExport
    BY DEF Idle
  <2> QED BY <2>1, <2>2, <2>3 DEF TypeOK
<1>5. CASE LabelExport
  <2>1. me \in Export /\ run["export"].pc # "idle"
    BY <1>5 DEF LabelExport, At
  <2>2. CASE exp[me].labelled \/ (fresh /\ Admitted(me))
    <3>1. exp[me] \in ExpType /\ [exp[me] EXCEPT !.labelled = TRUE] \in ExpType
      BY <2>1, Updates DEF TypeOK
    <3>2. exp' \in [Export -> ExpType]
      BY <1>5, <2>1, <2>2, <3>1 DEF LabelExport, TypeOK
    <3>3. slice.clusters \in SUBSET Cluster
      BY DEF TypeOK
    <3>4. run' = [run EXCEPT !["export"].pc = "list", !["export"].clusters = slice.clusters]
      BY <1>5, <2>2 DEF LabelExport
    <3>5. run' \in [Process -> RunType] /\ run'["export"].pc = "list" /\ me' = me
      BY <3>3, <3>4, RunRead
    <3>6. im' \in ImType /\ im'.pc = im.pc /\ im'.c = im.c /\ im'.e = im.e
      BY SMTT(30), <1>5, <2>2, ImSees DEF LabelExport, TypeOK
    <3> QED BY <1>5, <2>1, <2>2, <3>2, <3>5, <3>6 DEF LabelExport, TypeOK
  <2>3. CASE ~(exp[me].labelled \/ (fresh /\ Admitted(me)))
    BY <1>5, <2>1, <2>3, AbortType DEF LabelExport, TypeOK
  <2> QED BY <2>2, <2>3
<1>6. CASE ListForDeletion
  <2> DEFINE pc == IF run["export"].pc = "listTouch" THEN "touch" ELSE "delete"
             x == [run["export"] EXCEPT !.todo = ListWorkerServiceImport, !.pc = pc]
  <2>1. x \in RunType /\ x.pc = pc /\ x.e = me
    BY ZenonT(60) DEF TypeOK, RunType, ListWorkerServiceImport
  <2>2. run' = [run EXCEPT !["export"] = x]
    BY <1>6 DEF ListForDeletion
  <2>3. pc # "idle" /\ me \in Export
    BY <1>6 DEF ListForDeletion
  <2> HIDE DEF x, pc
  <2>4. run' \in [Process -> RunType] /\ run'["export"] = x
    BY <2>1, <2>2 DEF TypeOK
  <2> QED BY <1>6, <2>1, <2>3, <2>4 DEF ListForDeletion, TypeOK
<1>7. ASSUME NEW c \in Cluster, TouchListed(c) PROVE Types'
  <2>1. PICK t \in SUBSET Cluster : run' = [run EXCEPT !["export"].todo = t]
    <3>1. run["export"].todo \ {c} \in SUBSET Cluster
      BY <1>0
    <3> QED BY <1>7, <3>1 DEF TouchListed
  <2>2. run' \in [Process -> RunType] /\ run'["export"].pc = run["export"].pc /\ me' = me
    BY <2>1, RunTodo
  <2>3. CASE c \in dirty
    BY <1>7, <2>2, <2>3, LapsesSet DEF TouchListed, TypeOK
  <2>4. CASE c \notin dirty
    <3>1. imp[c] \in ImpType /\ WriteImp(c, imp[c]) /\ im' = ImSeesImp(c)
      BY <1>7, <2>4 DEF TouchListed, TypeOK
    <3>2. imp' \in [Cluster -> ImpType] /\ impQueue' \subseteq Cluster /\ dirty' \subseteq Cluster
      BY <3>1, WriteImpType
    <3> QED BY <1>7, <2>2, <2>4, <3>1, <3>2, ImSees DEF TouchListed, TypeOK
  <2> QED BY <2>3, <2>4
<1>8. CASE RemoveExportFinalizer
  <2>1. me \in Export /\ run["export"].pc # "idle"
    BY <1>8 DEF RemoveExportFinalizer
  <2>2. CASE fresh /\ Admitted(me)
    <3>1. exp' \in [Export -> ExpType] /\ expQueue' \subseteq Export
      BY <1>8, <2>1, <2>2, Empties DEF RemoveExportFinalizer, TypeOK
    <3>2. run' \in [Process -> RunType] /\ run'["export"] = Idle
      BY <1>8, <2>2, Empties DEF RemoveExportFinalizer, Ended, TypeOK
    <3>3. im' \in ImType /\ im'.pc = im.pc /\ im'.c = im.c /\ im'.e = im.e
      BY <1>8, <2>2, ImSees DEF RemoveExportFinalizer
    <3> QED BY <1>8, <2>2, <3>1, <3>2, <3>3 DEF RemoveExportFinalizer, TypeOK, Idle
  <2>3. CASE ~(fresh /\ Admitted(me))
    BY <1>8, <2>1, <2>3, AbortType DEF RemoveExportFinalizer, TypeOK
  <2> QED BY <2>2, <2>3
<1>9. CASE CreateMinimal("export")
  BY <1>9, CreateMinimalType
<1> QED BY <1>1, <1>2, <1>3, <1>4, <1>5, <1>6, <1>7, <1>8, <1>9 DEF ExportStep

LEMMA SliceType ==
  ASSUME Types, SliceStep PROVE Types'
<1> USE Processes DEF Types, Placed, me
<1>1. CASE ReconcileSlice
  <2> DEFINE x == [Idle EXCEPT !.pc = "exports", !.clusters = slice.clusters]
  <2>1. x \in RunType
    BY DEF TypeOK, Idle, RunType
  <2>2. run' = [run EXCEPT !["slice"] = x] /\ sliceQueue' = FALSE
    BY <1>1 DEF ReconcileSlice
  <2> HIDE DEF x
  <2>3. run' \in [Process -> RunType] /\ run'["export"] = run["export"]
    BY <2>1, <2>2 DEF TypeOK
  <2> QED BY <1>1, <2>2, <2>3 DEF ReconcileSlice, TypeOK
<1>2. CASE ListExports
  <2>1. run' \in [Process -> RunType] /\ run'["export"] = run["export"]
    <3>1. run' = [run EXCEPT !["slice"].pc = "next"]
      BY <1>2 DEF ListExports, Goto
    <3> DEFINE x == [run["slice"] EXCEPT !.pc = "next"]
    <3>2. x \in RunType
      BY DEF TypeOK, RunType
    <3>3. run' = [run EXCEPT !["slice"] = x]
      BY <3>1
    <3> HIDE DEF x
    <3> QED BY <3>2, <3>3 DEF TypeOK
  <2> QED BY <1>2, <2>1 DEF ListExports, getServiceExportBySliceName, TypeOK
<1>3. CASE NextExport
  <2>1. run' \in [Process -> RunType] /\ run'["export"] = run["export"]
    <3>1. CASE Ended("slice")
      BY <3>1, Empties DEF Ended, TypeOK
    <3>2. CASE Goto("slice", "list")
      <4>1. run' = [run EXCEPT !["slice"].pc = "list"]
        BY <3>2 DEF Goto
      <4> DEFINE x == [run["slice"] EXCEPT !.pc = "list"]
      <4>2. x \in RunType
        BY DEF TypeOK, RunType
      <4>3. run' = [run EXCEPT !["slice"] = x]
        BY <4>1
      <4> HIDE DEF x
      <4> QED BY <4>2, <4>3 DEF TypeOK
    <3> QED BY <1>3, <3>1, <3>2 DEF NextExport
  <2> QED BY <1>3, <2>1 DEF NextExport, TypeOK
<1>4. CASE CreateMinimal("slice")
  BY <1>4, CreateMinimalType
<1> QED BY <1>1, <1>2, <1>3, <1>4 DEF SliceStep

LEMMA ImportType ==
  ASSUME Types, ImportStep PROVE Types'
<1> USE DEF Types, Placed, me
<1>1. ASSUME NEW c \in Cluster, ReconcileImportAbsent(c) PROVE Types'
  BY <1>1 DEF ReconcileImportAbsent, TypeOK, reconcilers
<1>2. ASSUME NEW c \in Cluster, ReconcileImportLive(c) PROVE Types'
  <2>1. copySpec(LookupServiceExportForService) \in SUBSET (Export \X Version)
    BY copySpecType DEF LookupServiceExportForService
  <2>2. im' \in ImType /\ (im'.pc # "idle" => im'.c \in Cluster) /\ im'.pc # "recreate"
    BY <1>2, <2>1 DEF ReconcileImportLive, TakeImport, ImIdle, ImType, TypeOK
  <2>3. [imp[c] EXCEPT !.fin = TRUE] \in ImpType
    BY Updates DEF TypeOK
  <2>4. imp' \in [Cluster -> ImpType] /\ impQueue' \subseteq Cluster /\ dirty' \subseteq Cluster
    <3>1. CASE imp[c].fin
      BY <1>2, <3>1 DEF ReconcileImportLive, TypeOK
    <3>2. CASE ~imp[c].fin
      BY <1>2, <2>3, <3>2, WriteImpType DEF ReconcileImportLive
    <3> QED BY <3>1, <3>2
  <2> QED BY <1>2, <2>2, <2>4 DEF ReconcileImportLive, TypeOK, reconcilers
<1>3. CASE WriteSpec
  <2>1. im.c \in Cluster /\ im.read \in SUBSET (Export \X Version)
    BY <1>3 DEF WriteSpec, TypeOK, ImType
  <2>2. [imp[im.c] EXCEPT !.lists = im.read] \in ImpType
    BY <2>1, ListsUpdate DEF TypeOK
  <2>3. imp' \in [Cluster -> ImpType] /\ impQueue' \subseteq Cluster /\ dirty' \subseteq Cluster
    <3>1. CASE im.fresh /\ im.read # imp[im.c].lists
      BY <1>3, <2>1, <2>2, <3>1, WriteImpType DEF WriteSpec
    <3>2. CASE ~(im.fresh /\ im.read # imp[im.c].lists)
      BY <1>3, <2>1, <3>2 DEF WriteSpec, TypeOK
    <3> QED BY <3>1, <3>2
  <2> QED BY <1>3, <2>3, Empties DEF WriteSpec, TypeOK, reconcilers, ImIdle
<1>4. ASSUME NEW c \in Cluster, ReconcileImportDeleting(c) PROVE Types'
  <2>1. im' \in ImType /\ im'.pc = "lookup" /\ im'.c = c
    BY <1>4 DEF ReconcileImportDeleting, ImIdle, ImType
  <2>2. imp' \in [Cluster -> ImpType] /\ impQueue' \subseteq Cluster /\ dirty' \subseteq Cluster
    BY <1>4, Empties, WriteImpType DEF ReconcileImportDeleting
  <2> QED BY <1>4, <2>1, <2>2, LapsesSet DEF ReconcileImportDeleting, TypeOK, reconcilers
<1>5. CASE LookupForRecreation
  <2>1. CASE im' = ImIdle
    BY <1>5, <2>1, Empties DEF LookupForRecreation, TypeOK, reconcilers, ImIdle
  <2>2. ASSUME NEW e \in LookupServiceExportForService, im' = [im EXCEPT !.pc = "recreate", !.e = e]
        PROVE  Types'
    <3>1. im' \in ImType /\ im'.c = im.c /\ im'.e = e /\ e \in Export
      BY <2>2 DEF TypeOK, ImType, LookupServiceExportForService
    <3>2. im.c \in Cluster
      BY <1>5 DEF LookupForRecreation
    <3> QED BY <1>5, <3>1, <3>2 DEF LookupForRecreation, TypeOK, reconcilers
  <2> QED BY <1>5, <2>1, <2>2 DEF LookupForRecreation
<1>6. CASE TouchExport
  <2>1. im.e \in Export /\ im.c \in Cluster
    BY <1>6 DEF TouchExport
  <2>2. CASE im.fresh /\ Admitted(im.e)
    <3>1. exp[im.e] \in ExpType /\ WriteExp(im.e, exp[im.e]) /\ UNCHANGED impQueue
      BY <1>6, <2>1, <2>2 DEF TouchExport, TypeOK
    <3>2. exp' \in [Export -> ExpType] /\ expQueue' \subseteq Export /\ fresh' \in BOOLEAN
      BY <2>1, <3>1, WriteExpType
    <3> QED BY <1>6, <3>1, <3>2, Empties DEF TouchExport, TypeOK, reconcilers, ImIdle
  <2>3. CASE ~(im.fresh /\ Admitted(im.e))
    BY <1>6, <2>1, <2>3, Empties DEF TouchExport, TypeOK, reconcilers, ImIdle
  <2> QED BY <2>2, <2>3
<1> QED BY <1>1, <1>2, <1>3, <1>4, <1>5, <1>6 DEF ImportStep

LEMMA TypeStep == Types /\ [Next]_vars => Types'
<1> SUFFICES ASSUME Types, [Next]_vars PROVE Types'
  OBVIOUS
<1>1. CASE Resync
  BY <1>1 DEF Resync, AllQueued, ListWorkerServiceImport, reconcilers, Types, TypeOK, Placed, me
<1>2. CASE UNCHANGED vars
  BY <1>2 DEF vars, Types, TypeOK, Placed, me
<1> QED BY <1>1, <1>2, EnvironmentType, ExportType, SliceType, ImportType DEF Next

LEMMA TypeInit == Init => Types
<1> SUFFICES ASSUME Init PROVE Types
  OBVIOUS
<1>1. /\ exp \in [Export -> ExpType] /\ imp \in [Cluster -> ImpType]
      /\ run \in [Process -> RunType] /\ im \in ImType
  BY Empties DEF Init
<1>2. /\ source \in [Export -> Cluster] /\ slice \in [exists : BOOLEAN, clusters : SUBSET Cluster]
      /\ expQueue \subseteq Export /\ events \in 0..MaxEvents
  BY SourceAssumption, ListsAssumption, ExportedAssumption, MaxEventsAssumption DEF Init
<1>3. Placed
  BY Processes DEF Init, Placed, me, Idle, ImIdle
<1>4. lapses \in Lapses
  BY DEF Init, Lapses
<1> QED BY <1>1, <1>2, <1>3, <1>4 DEF Init, Types, TypeOK

(* Objects, queues and what the three reconcilers hold keep their types,   *)
(* for any clusters and exports, whatever users, workers and faults do.    *)
THEOREM TypeCorrect == Spec => []TypeOK
<1>1. Types => TypeOK
  BY DEF Types
<1> QED BY <1>1, TypeInit, TypeStep, PTL DEF Spec
-----------------------------------------------------------------------------
(* What the actions do to the local state of the reconciles.               *)
Others(p) == \A q \in Process : q # p => run'[q] = run[q]

Moves(p, pc, l, t) ==
  /\ run'[p].pc = pc /\ run'[p].e = run[p].e /\ run'[p].clusters = l /\ run'[p].todo = t
  /\ Others(p)

Stops(p) == run'[p] = Idle /\ Others(p)

LEMMA IdleFields == Idle.pc = "idle" /\ Idle.e = NoExport /\ Idle.todo = {}
BY DEF Idle

LEMMA CreateMinimalRuns ==
  ASSUME Types, NEW p \in Process
  PROVE  /\ ListRemoved(p) => Moves(p, "remove", run[p].clusters, ListWorkerServiceImport \ run[p].clusters)
         /\ StartApply(p) => Moves(p, "apply", run[p].clusters, run[p].clusters)
         /\ \A c \in Cluster : DeleteListed(p, c) /\ ImpExists(c) =>
              Moves(p, run[p].pc, run[p].clusters, run[p].todo \ {c})
         /\ \A c \in Cluster : ApplyCluster(p, c) =>
              Moves(p, run[p].pc, run[p].clusters, run[p].todo \ {c})
<1> USE DEF Moves, Others, Types
<1>0. run[p].todo \subseteq Cluster /\ run[p].clusters \subseteq Cluster
  BY DEF TypeOK, RunType
<1>1. ASSUME ListRemoved(p)
      PROVE  Moves(p, "remove", run[p].clusters, ListWorkerServiceImport \ run[p].clusters)
  <2> DEFINE t == ListWorkerServiceImport \ run[p].clusters
  <2>1. t \in SUBSET Cluster /\ run' = [run EXCEPT ![p].pc = "remove", ![p].todo = t]
    BY <1>1 DEF ListRemoved, ListWorkerServiceImport
  <2> HIDE DEF t
  <2>2. Moves(p, "remove", run[p].clusters, t)
    BY <2>1, RunPhase
  <2> QED BY <2>2 DEF t
<1>2. ASSUME StartApply(p) PROVE Moves(p, "apply", run[p].clusters, run[p].clusters)
  <2>1. run' = [run EXCEPT ![p].pc = "apply", ![p].todo = run[p].clusters]
    BY <1>2 DEF StartApply
  <2> QED BY <1>0, <2>1, RunPhase
<1>3. ASSUME NEW c \in Cluster, (DeleteListed(p, c) /\ ImpExists(c)) \/ ApplyCluster(p, c)
      PROVE  Moves(p, run[p].pc, run[p].clusters, run[p].todo \ {c})
  <2> DEFINE t == run[p].todo \ {c}
  <2>1. t \in SUBSET Cluster /\ run' = [run EXCEPT ![p].todo = t]
    BY <1>0, <1>3 DEF DeleteListed, ApplyCluster
  <2> HIDE DEF t
  <2>2. Moves(p, run[p].pc, run[p].clusters, t)
    BY <2>1, RunTodo
  <2> QED BY <2>2 DEF t
<1> QED BY <1>1, <1>2, <1>3

LEMMA ExportRuns ==
  ASSUME Types
  PROVE  /\ LabelExport /\ (exp[me].labelled \/ (fresh /\ Admitted(me))) =>
              Moves("export", "list", slice.clusters, run["export"].todo)
         /\ \A c \in Cluster : TouchListed(c) =>
              Moves("export", "touch", run["export"].clusters,
                    IF c \in dirty THEN {} ELSE run["export"].todo \ {c})
         /\ ListForDeletion =>
              Moves("export", IF run["export"].pc = "listTouch" THEN "touch" ELSE "delete",
                    run["export"].clusters, ListWorkerServiceImport)
         /\ run' = [run EXCEPT !["export"].pc = "touch", !["export"].todo = {}] =>
              Moves("export", "touch", run["export"].clusters, {})
         /\ \A e \in Export : ReconcileExportLive(e) =>
              run'["export"].pc = "labels" /\ run'["export"].e = e /\ Others("export")
         /\ \A e \in Export : ReconcileExportDeleting(e) =>
              /\ run'["export"].pc = (IF KeepsImports(e) THEN "listTouch" ELSE "listDelete")
              /\ run'["export"].e = e /\ Others("export")
<1> USE Processes DEF Types
<1>0. run \in [Process -> RunType] /\ run["export"] \in RunType /\ run["export"].todo \subseteq Cluster
  BY DEF TypeOK, RunType
<1>1. ASSUME LabelExport, exp[me].labelled \/ (fresh /\ Admitted(me))
      PROVE  Moves("export", "list", slice.clusters, run["export"].todo)
  <2>1. slice.clusters \in SUBSET Cluster
    BY DEF TypeOK
  <2>2. run' = [run EXCEPT !["export"].pc = "list", !["export"].clusters = slice.clusters]
    BY <1>1 DEF LabelExport, me
  <2> QED BY <2>1, <2>2, RunRead DEF Moves, Others
<1>2. ASSUME NEW c \in Cluster, TouchListed(c)
      PROVE  Moves("export", "touch", run["export"].clusters,
                   IF c \in dirty THEN {} ELSE run["export"].todo \ {c})
  <2> DEFINE t == IF c \in dirty THEN {} ELSE run["export"].todo \ {c}
  <2>1. t \in SUBSET Cluster
    BY <1>0
  <2>2. run' = [run EXCEPT !["export"].todo = t] /\ run["export"].pc = "touch"
    BY <1>2 DEF TouchListed, At
  <2> HIDE DEF t
  <2>3. Moves("export", "touch", run["export"].clusters, t)
    BY <2>1, <2>2, RunTodo DEF Moves, Others
  <2> QED BY <2>3 DEF t
<1>3. ASSUME ListForDeletion
      PROVE  Moves("export", IF run["export"].pc = "listTouch" THEN "touch" ELSE "delete",
                   run["export"].clusters, ListWorkerServiceImport)
  <2> DEFINE pc == IF run["export"].pc = "listTouch" THEN "touch" ELSE "delete"
             x == [run["export"] EXCEPT !.todo = ListWorkerServiceImport, !.pc = pc]
  <2>1. /\ x \in RunType /\ x.pc = pc /\ x.e = run["export"].e
        /\ x.todo = ListWorkerServiceImport /\ x.clusters = run["export"].clusters
    BY <1>0 DEF RunType, ListWorkerServiceImport
  <2>2. run' = [run EXCEPT !["export"] = x]
    BY <1>3 DEF ListForDeletion
  <2> HIDE DEF x, pc
  <2>3. run'["export"] = x /\ Others("export")
    BY <1>0, <2>1, <2>2 DEF Others
  <2>4. Moves("export", pc, run["export"].clusters, ListWorkerServiceImport)
    BY <2>1, <2>3 DEF Moves
  <2> QED BY <2>4 DEF pc
<1>4. ASSUME run' = [run EXCEPT !["export"].pc = "touch", !["export"].todo = {}]
      PROVE  Moves("export", "touch", run["export"].clusters, {})
  <2> DEFINE x == [run["export"] EXCEPT !.pc = "touch", !.todo = {}]
  <2>2. /\ x \in RunType /\ x.pc = "touch" /\ x.e = run["export"].e
        /\ x.todo = {} /\ x.clusters = run["export"].clusters
    BY <1>0 DEF RunType
  <2>3. run' = [run EXCEPT !["export"] = x]
    BY <1>4
  <2> HIDE DEF x
  <2>4. run'["export"] = x /\ Others("export")
    BY <1>0, <2>2, <2>3 DEF Others
  <2> QED BY <2>2, <2>4 DEF Moves
<1>5. ASSUME NEW e \in Export, ReconcileExportLive(e)
      PROVE  run'["export"].pc = "labels" /\ run'["export"].e = e /\ Others("export")
  <2> DEFINE x == [Idle EXCEPT !.pc = "labels", !.e = e]
  <2>1. x.pc = "labels" /\ x.e = e
    BY DEF Idle
  <2>2. run' = [run EXCEPT !["export"] = x]
    BY <1>5 DEF ReconcileExportLive
  <2> HIDE DEF x
  <2> QED BY <1>0, <2>1, <2>2 DEF Others
<1>6. ASSUME NEW e \in Export, ReconcileExportDeleting(e)
      PROVE  /\ run'["export"].pc = (IF KeepsImports(e) THEN "listTouch" ELSE "listDelete")
             /\ run'["export"].e = e /\ Others("export")
  <2> DEFINE pc == IF KeepsImports(e) THEN "listTouch" ELSE "listDelete"
             x == [Idle EXCEPT !.pc = pc, !.e = e]
  <2>2. run' = [run EXCEPT !["export"] = x]
    BY <1>6 DEF ReconcileExportDeleting
  <2> HIDE DEF pc
  <2>1. x.pc = pc /\ x.e = e
    BY DEF Idle
  <2> HIDE DEF x
  <2>3. run'["export"] = x /\ Others("export")
    BY <1>0, <2>2 DEF Others
  <2> QED BY <2>1, <2>3 DEF pc
<1> QED BY <1>1, <1>2, <1>3, <1>4, <1>5, <1>6

LEMMA SliceRuns ==
  ASSUME Types
  PROVE  /\ ReconcileSlice => /\ run'["slice"].pc = "exports" /\ run'["slice"].clusters = slice.clusters
                              /\ Others("slice")
         /\ ListExports => Moves("slice", "next", run["slice"].clusters, run["slice"].todo)
         /\ NextExport => \/ Stops("slice")
                          \/ Moves("slice", "list", run["slice"].clusters, run["slice"].todo)
<1> USE Processes DEF Types
<1>0. run \in [Process -> RunType] /\ run["slice"] \in RunType
  BY DEF TypeOK
<1>1. ASSUME ReconcileSlice
      PROVE  run'["slice"].pc = "exports" /\ run'["slice"].clusters = slice.clusters /\ Others("slice")
  <2> DEFINE x == [Idle EXCEPT !.pc = "exports", !.clusters = slice.clusters]
  <2>1. x.pc = "exports" /\ x.clusters = slice.clusters
    BY DEF Idle
  <2>2. run' = [run EXCEPT !["slice"] = x]
    BY <1>1 DEF ReconcileSlice
  <2> HIDE DEF x
  <2> QED BY <1>0, <2>1, <2>2 DEF Others
<1>2. ASSUME NEW pc, Goto("slice", pc)
      PROVE  Moves("slice", pc, run["slice"].clusters, run["slice"].todo)
  <2> DEFINE x == [run["slice"] EXCEPT !.pc = pc]
  <2>1. x.pc = pc /\ x.e = run["slice"].e /\ x.todo = run["slice"].todo /\ x.clusters = run["slice"].clusters
    BY <1>0 DEF RunType
  <2>2. run' = [run EXCEPT !["slice"] = x]
    BY <1>2 DEF Goto
  <2> HIDE DEF x
  <2>3. run'["slice"] = x /\ Others("slice")
    BY <1>0, <2>2 DEF Others
  <2> QED BY <2>1, <2>3 DEF Moves
<1>3. Ended("slice") => Stops("slice")
  BY <1>0 DEF Ended, Stops, Others
<1> QED BY <1>1, <1>2, <1>3 DEF ListExports, NextExport

LEMMA EndedRuns ==
  ASSUME Types, NEW p \in Process, Ended(p) PROVE Stops(p)
BY DEF Types, TypeOK, Ended, Stops, Others
-----------------------------------------------------------------------------
(* The export a reconcile is about stays until that reconcile lets it go.  *)
Pinned ==
  /\ \A e \in Export : exp[e].labelled \/ exp[e].state = "deleting" => exp[e].fin
  /\ run["export"].pc # "idle" => ExpExists(me) /\ exp[me].fin
  /\ Removing => exp[me].state = "deleting"

(* What it has read is current when it starts; as long as that is so, an   *)
(* export it removes is not queued.                                        *)
Current ==
  /\ run["export"].pc = "idle" => fresh
  /\ Removing /\ fresh => me \notin expQueue

(* An import that is being deleted is going to be reconciled, unless the   *)
(* Update that should have removed its finalizer has failed.               *)
DeletionQueued ==
  \A c \in Cluster : imp[c].state = "deleting" => c \in impQueue \/ c \in lapses.finalizers

ExportInv == Pinned /\ Current /\ DeletionQueued

Removals == {"listTouch", "listDelete", "touch", "delete"}

(* A reconcile goes on without touching the exports.                       *)
LEMMA RunsOn ==
  ASSUME Types, Pinned, Current, UNCHANGED <<exp, fresh, expQueue>>,
         NEW p \in Process, NEW pc, NEW l, NEW t, Moves(p, pc, l, t),
         run[p].pc # "idle", pc # "idle", pc \in Removals => run[p].pc \in Removals
  PROVE  (Pinned /\ Current)'
<1>1. me' = me /\ (run["export"].pc = "idle" <=> run'["export"].pc = "idle")
  BY Processes DEF Moves, Others, me
<1>2. Removing' => Removing
  BY Processes DEF Moves, Others, Removing, Removals
<1> QED BY <1>1, <1>2 DEF Pinned, Current, ExpExists

(* It stops, and what it had read is forgotten.                            *)
LEMMA RunStops ==
  ASSUME Types, Pinned, UNCHANGED exp, run'["export"] = Idle, fresh' = TRUE
  PROVE  (Pinned /\ Current)'
<1>1. run'["export"].pc = "idle" /\ ~Removing'
  BY IdleFields DEF Removing
<1> QED BY <1>1 DEF Pinned, Current

LEMMA AbortExport ==
  ASSUME Types, Pinned, Current, UNCHANGED exp, NEW p \in Process, Abort(p)
  PROVE  (Pinned /\ Current)'
<1>1. Stops(p)
  BY EndedRuns DEF Abort
<1>2. CASE p = "export"
  BY <1>1, <1>2, RunStops DEF Abort, Stops
<1>3. CASE p # "export"
  <2>1. UNCHANGED <<fresh, expQueue>> /\ run'["export"] = run["export"]
    BY <1>1, <1>3, Processes DEF Abort, Requeued, Stops, Others, Types, TypeOK
  <2> QED BY <2>1 DEF Pinned, Current, Removing, me, ExpExists
<1> QED BY <1>2, <1>3

(* Nothing of that is touched.                                             *)
LEMMA ExportAside ==
  ASSUME Pinned, Current, UNCHANGED <<exp, fresh, expQueue>>, run'["export"] = run["export"]
  PROVE  (Pinned /\ Current)'
BY DEF Pinned, Current, Removing, me, ExpExists

LEMMA WrittenExp ==
  ASSUME Types, NEW e \in Export, NEW r, exp' = [exp EXCEPT ![e] = r]
  PROVE  exp'[e] = r /\ \A x \in Export : x # e => exp'[x] = exp[x]
BY DEF Types, TypeOK

LEMMA WrittenImp ==
  ASSUME Types, NEW c \in Cluster, NEW r, imp' = [imp EXCEPT ![c] = r]
  PROVE  imp'[c] = r /\ \A x \in Cluster : x # c => imp'[x] = imp[x]
BY DEF Types, TypeOK

(* The fields of lapses, by the actions that change them.                  *)
LEMMA LapsesFields ==
  ASSUME Types
  PROVE  /\ lapses' = [lapses EXCEPT !.force = TRUE] =>
              lapses'.force /\ lapses'.finalizers = lapses.finalizers /\ lapses'.late = lapses.late
         /\ \A c \in Cluster : \A p \in Process : ApplyCluster(p, c) =>
              /\ lapses'.force = lapses.force /\ lapses'.finalizers = lapses.finalizers
              /\ lapses'.late = (IF Asked(c) THEN lapses.late \ {c} ELSE lapses.late \cup {c})
         /\ \A c \in Cluster : RemoveWorkerFinalizersFails(c) =>
              /\ lapses'.force = lapses.force /\ lapses'.late = lapses.late
              /\ lapses'.finalizers = lapses.finalizers \cup {c}
         /\ \A c \in Cluster : ReconcileImportDeleting(c) =>
              /\ lapses'.force = lapses.force /\ lapses'.late = lapses.late
              /\ lapses'.finalizers = lapses.finalizers \ {c}
<1>1. lapses \in Lapses
  BY DEF Types, TypeOK
<1>2. ASSUME lapses' = [lapses EXCEPT !.force = TRUE]
      PROVE  lapses'.force /\ lapses'.finalizers = lapses.finalizers /\ lapses'.late = lapses.late
  BY <1>1, <1>2 DEF Lapses
<1>3. ASSUME NEW c \in Cluster, NEW p \in Process, ApplyCluster(p, c)
      PROVE  /\ lapses'.force = lapses.force /\ lapses'.finalizers = lapses.finalizers
             /\ lapses'.late = (IF Asked(c) THEN lapses.late \ {c} ELSE lapses.late \cup {c})
  BY <1>1, <1>3 DEF Lapses, ApplyCluster
<1>4. ASSUME NEW c \in Cluster, RemoveWorkerFinalizersFails(c)
      PROVE  /\ lapses'.force = lapses.force /\ lapses'.late = lapses.late
             /\ lapses'.finalizers = lapses.finalizers \cup {c}
  BY <1>1, <1>4 DEF Lapses, RemoveWorkerFinalizersFails
<1>5. ASSUME NEW c \in Cluster, ReconcileImportDeleting(c)
      PROVE  /\ lapses'.force = lapses.force /\ lapses'.late = lapses.late
             /\ lapses'.finalizers = lapses.finalizers \ {c}
  BY <1>1, <1>5 DEF Lapses, ReconcileImportDeleting
<1> QED BY <1>2, <1>3, <1>4, <1>5

(* A deletion of an import either changes nothing or is seen by all.       *)
LEMMA DeletedImp ==
  ASSUME Types, NEW c \in Cluster, DeleteImp(c)
  PROVE  /\ imp'[c].state # "live" /\ \A x \in Cluster : x # c => imp'[x] = imp[x]
         /\ \/ UNCHANGED <<imp, impQueue, dirty, im>>
            \/ impQueue' = impQueue \cup {c} /\ im' = ImSeesImp(c)
<1>1. CASE imp[c].state = "deleting"
  BY <1>1 DEF DeleteImp
<1>2. CASE imp[c].state # "deleting"
  <2> DEFINE r == IF imp[c].fin THEN [imp[c] EXCEPT !.state = "deleting"] ELSE NoImp
  <2>1. r.state # "live"
    BY DEF Types, TypeOK, ImpType, NoImp
  <2>2. WriteImp(c, r) /\ im' = ImSeesImp(c)
    BY <1>2 DEF DeleteImp
  <2> HIDE DEF r
  <2> QED BY <2>1, <2>2, WrittenImp DEF WriteImp
<1> QED BY <1>1, <1>2

(* What the workers do to an export.                                       *)
LEMMA WorkerEvent ==
  ASSUME Types, NEW e \in Export, CreateExport(e) \/ UpdateExport(e) \/ DeleteExport(e)
  PROVE  /\ \A x \in Export : x # e => exp'[x] = exp[x]
         /\ expQueue' = expQueue \cup {e} /\ fresh' = (fresh /\ me # e) /\ im' = ImSeesExp(e)
         /\ UNCHANGED <<source, slice, imp, sliceQueue, impQueue, run, pending, dirty, lapses>>
         /\ \/ ~ExpExists(e) /\ exp'[e].state = "live" /\ ~exp'[e].fin /\ ~exp'[e].labelled
            \/ /\ exp[e].state = "live" /\ exp'[e].state = "live"
               /\ exp'[e].fin = exp[e].fin /\ exp'[e].labelled = exp[e].labelled
            \/ /\ exp[e].state = "live" /\ exp'[e].state = "deleting" /\ exp[e].fin
               /\ exp'[e].fin = exp[e].fin /\ exp'[e].labelled = exp[e].labelled
            \/ exp[e].state = "live" /\ ~exp[e].fin /\ exp'[e] = NoExp
<1>0. exp[e] \in ExpType
  BY DEF Types, TypeOK
<1>1. CASE CreateExport(e)
  <2>1. exp'[e] = [NoExp EXCEPT !.state = "live"] /\ \A x \in Export : x # e => exp'[x] = exp[x]
    BY <1>1, WrittenExp DEF CreateExport, WriteExp
  <2>2. exp'[e].state = "live" /\ ~exp'[e].fin /\ ~exp'[e].labelled
    BY <2>1 DEF NoExp
  <2> QED BY <1>1, <2>1, <2>2 DEF CreateExport, WriteExp, reconcilers, me
<1>2. CASE UpdateExport(e)
  <2>1. exp'[e] = [exp[e] EXCEPT !.ver = 1 - @] /\ \A x \in Export : x # e => exp'[x] = exp[x]
    BY <1>2, WrittenExp DEF UpdateExport, WriteExp
  <2>2. exp[e].state = "live"
    BY <1>2 DEF UpdateExport
  <2>3. exp'[e].state = "live" /\ exp'[e].fin = exp[e].fin /\ exp'[e].labelled = exp[e].labelled
    BY <1>0, <2>1, <2>2 DEF ExpType
  <2> QED BY <1>2, <2>1, <2>2, <2>3 DEF UpdateExport, WriteExp, reconcilers, me
<1>3. CASE DeleteExport(e)
  <2> DEFINE r == IF exp[e].fin THEN [exp[e] EXCEPT !.state = "deleting"] ELSE NoExp
  <2>1. exp[e].state = "live" /\ WriteExp(e, r) /\ im' = ImSeesExp(e)
        /\ UNCHANGED <<source, slice, imp, sliceQueue, impQueue, run, pending, dirty, lapses>>
    BY <1>3 DEF DeleteExport, reconcilers
  <2>2. exp[e].fin => r.state = "deleting" /\ r.fin = exp[e].fin /\ r.labelled = exp[e].labelled
    BY <1>0 DEF ExpType
  <2>3. ~exp[e].fin => r = NoExp
    OBVIOUS
  <2> HIDE DEF r
  <2>4. exp'[e] = r /\ \A x \in Export : x # e => exp'[x] = exp[x]
    BY <2>1, WrittenExp DEF WriteExp
  <2> QED BY <2>1, <2>2, <2>3, <2>4 DEF WriteExp, me
<1> QED BY <1>1, <1>2, <1>3

LEMMA ExportInvEnvironment ==
  ASSUME Types, Pinned, Current, Environment PROVE (Pinned /\ Current)'
<1>1. ASSUME NEW e \in Export, CreateExport(e) \/ UpdateExport(e) \/ DeleteExport(e)
      PROVE  (Pinned /\ Current)'
  <2>1. NoExp.state = "absent" /\ ~NoExp.labelled
    BY DEF NoExp
  <2>2. UNCHANGED run /\ (run["export"].pc = "idle" => me # e) /\ (run["export"].pc # "idle" => me \in Export)
    BY <1>1, WorkerEvent, NoneAssumption DEF Types, Placed
  <2>3. Pinned'
    BY <1>1, <2>1, <2>2, WorkerEvent DEF Pinned, ExpExists, Removing, me
  <2>4. Current'
    BY <1>1, <2>2, WorkerEvent DEF Current, Removing, me
  <2> QED BY <2>3, <2>4
<1>2. ASSUME NEW c \in Cluster, ForceDelete(c) PROVE (Pinned /\ Current)'
  BY <1>2, ExportAside DEF ForceDelete, reconcilers
<1>3. ASSUME NEW l \in Lists, UpdateSlice(l) \/ CreateSlice(l) PROVE (Pinned /\ Current)'
  BY <1>3, ExportAside DEF UpdateSlice, CreateSlice, reconcilers
<1>4. CASE DeleteSlice
  BY <1>4, ExportAside DEF DeleteSlice, reconcilers
<1>5. CASE Fail
  <2>0. UNCHANGED exp
    BY <1>5 DEF Fail
  <2>1. ASSUME NEW p \in Process, Abort(p) PROVE (Pinned /\ Current)'
    BY <2>0, <2>1, AbortExport
  <2>2. ASSUME Logged, run' = [run EXCEPT !["export"].pc = "touch", !["export"].todo = {}],
               UNCHANGED <<fresh, expQueue>>
        PROVE  (Pinned /\ Current)'
    <3>1. Moves("export", "touch", run["export"].clusters, {})
      BY <2>2, ExportRuns
    <3>2. run["export"].pc # "idle" /\ run["export"].pc \in Removals
      BY <2>2 DEF Logged, At, Removals
    <3> QED BY <2>0, <2>2, <3>1, <3>2, Processes, RunsOn
  <2>3. ASSUME UNCHANGED <<run, expQueue, fresh>> PROVE (Pinned /\ Current)'
    BY <2>0, <2>3, ExportAside
  <2> QED BY <1>5, <2>1, <2>2, <2>3 DEF Fail
<1>6. CASE Crash
  <2>1. run'["export"] = Idle /\ fresh' = TRUE /\ UNCHANGED exp
    BY <1>6, Processes DEF Crash
  <2> QED BY <2>1, RunStops
<1>7. ASSUME NEW c \in Cluster, RemoveWorkerFinalizersFails(c) PROVE (Pinned /\ Current)'
  BY <1>7, ExportAside DEF RemoveWorkerFinalizersFails, reconcilers
<1> QED BY <1>1, <1>2, <1>3, <1>4, <1>5, <1>6, <1>7 DEF Environment

LEMMA ExportInvCreateMinimal ==
  ASSUME Types, Pinned, Current, NEW p \in Process, CreateMinimal(p) PROVE (Pinned /\ Current)'
<1>1. CASE ListRemoved(p) \/ StartApply(p)
  <2>1. run[p].pc # "idle" /\ UNCHANGED <<exp, fresh, expQueue>>
    BY <1>1 DEF ListRemoved, StartApply, At
  <2>2. "remove" \notin Removals /\ "apply" \notin Removals
    BY DEF Removals
  <2> QED BY <1>1, <2>1, <2>2, CreateMinimalRuns, RunsOn
<1>2. ASSUME NEW c \in Cluster, DeleteListed(p, c) PROVE (Pinned /\ Current)'
  <2>1. CASE ImpExists(c)
    <3>1. run[p].pc # "idle" /\ UNCHANGED <<exp, fresh, expQueue>>
      BY <1>2, <2>1 DEF DeleteListed
    <3> QED BY <1>2, <2>1, <3>1, CreateMinimalRuns, RunsOn
  <2>2. CASE ~ImpExists(c)
    BY <1>2, <2>2, AbortExport DEF DeleteListed
  <2> QED BY <2>1, <2>2
<1>3. ASSUME NEW c \in Cluster, ApplyCluster(p, c) PROVE (Pinned /\ Current)'
  <2>1. run[p].pc # "idle" /\ UNCHANGED <<exp, fresh, expQueue>>
    BY <1>3 DEF ApplyCluster, At
  <2> QED BY <1>3, <2>1, CreateMinimalRuns, RunsOn
<1> QED BY <1>1, <1>2, <1>3 DEF CreateMinimal

LEMMA ExportInvExport ==
  ASSUME Types, Pinned, Current, ExportStep PROVE (Pinned /\ Current)'
<1> USE Processes
<1>1. ASSUME NEW e \in Export, ReconcileExportAbsent(e) PROVE (Pinned /\ Current)'
  BY <1>1 DEF ReconcileExportAbsent, TakeExport, At, reconcilers, Pinned, Current, Removing, me, ExpExists
<1>2. ASSUME NEW e \in Export, ReconcileExportLive(e) PROVE (Pinned /\ Current)'
  <2>0. exp[e] \in ExpType
    BY DEF Types, TypeOK
  <2> DEFINE r == [exp[e] EXCEPT !.fin = TRUE]
  <2>1. exp' = [exp EXCEPT ![e] = r] /\ exp[e].state = "live"
    BY <1>2 DEF ReconcileExportLive
  <2>2. r.state = "live" /\ r.fin
    BY <2>0, <2>1 DEF ExpType
  <2> HIDE DEF r
  <2>3. exp'[e] = r /\ \A x \in Export : x # e => exp'[x] = exp[x]
    BY <2>1, WrittenExp
  <2>4. run'["export"].pc = "labels" /\ me' = e
    BY <1>2, ExportRuns DEF me
  <2> QED BY <2>2, <2>3, <2>4 DEF Pinned, Current, Removing, ExpExists
<1>3. ASSUME NEW e \in Export, ReconcileExportDeleting(e) PROVE (Pinned /\ Current)'
  <2>1. run'["export"].pc # "idle" /\ me' = e
    BY <1>3, ExportRuns DEF me
  <2>2. UNCHANGED <<exp, fresh>> /\ expQueue' = expQueue \ {e} /\ exp[e].state = "deleting"
    BY <1>3 DEF ReconcileExportDeleting
  <2> QED BY <2>1, <2>2 DEF Pinned, Current, Removing, ExpExists
<1>4. CASE SliceMissing \/ ExportApplied
  <2>1. run'["export"] = Idle
    BY <1>4, EndedRuns DEF SliceMissing, ExportApplied, Stops
  <2>2. fresh' = TRUE /\ UNCHANGED exp
    BY <1>4 DEF SliceMissing, ExportApplied
  <2> QED BY <2>1, <2>2, RunStops
<1>5. CASE LabelExport
  <2>1. CASE exp[me].labelled \/ (fresh /\ Admitted(me))
    <3>0. me \in Export /\ exp[me] \in ExpType /\ ExpExists(me) /\ exp[me].fin
      BY <1>5 DEF LabelExport, At, Types, TypeOK, Placed, Pinned
    <3> DEFINE r == [exp[me] EXCEPT !.labelled = TRUE]
    <3>1. exp' = [exp EXCEPT ![me] = r]
      BY <1>5, <2>1 DEF LabelExport, me
    <3>2. r.state = exp[me].state /\ r.fin
      BY <3>0 DEF ExpType
    <3> HIDE DEF r
    <3>3. exp'[me] = r /\ \A x \in Export : x # me => exp'[x] = exp[x]
      BY <3>0, <3>1, WrittenExp
    <3>4. run'["export"].pc = "list" /\ me' = me
      BY <1>5, <2>1, ExportRuns DEF Moves, me
    <3> QED BY <3>0, <3>2, <3>3, <3>4 DEF Pinned, Current, Removing, ExpExists
  <2>2. CASE ~(exp[me].labelled \/ (fresh /\ Admitted(me)))
    BY <1>5, <2>2, AbortExport DEF LabelExport, me
  <2> QED BY <2>1, <2>2
<1>6. CASE ListForDeletion
  <2>1. run["export"].pc # "idle" /\ run["export"].pc \in Removals /\ UNCHANGED <<exp, fresh, expQueue>>
    BY <1>6 DEF ListForDeletion, Removals
  <2> QED BY <1>6, <2>1, ExportRuns, RunsOn
<1>7. ASSUME NEW c \in Cluster, TouchListed(c) PROVE (Pinned /\ Current)'
  <2>1. run["export"].pc # "idle" /\ run["export"].pc \in Removals /\ UNCHANGED <<exp, fresh, expQueue>>
    BY <1>7 DEF TouchListed, At, Removals
  <2> QED BY <1>7, <2>1, ExportRuns, RunsOn
<1>8. CASE RemoveExportFinalizer
  <2>1. CASE fresh /\ Admitted(me)
    <3>0. me \in Export
      BY <1>8 DEF RemoveExportFinalizer, Types, Placed
    <3>1. exp'[me] = NoExp /\ \A x \in Export : x # me => exp'[x] = exp[x]
      BY <1>8, <2>1, <3>0, WrittenExp DEF RemoveExportFinalizer, me
    <3>2. run'["export"].pc = "idle" /\ ~Removing' /\ fresh'
      BY <1>8, <2>1, EndedRuns, IdleFields DEF RemoveExportFinalizer, Stops, Removing, me
    <3>3. NoExp.state = "absent" /\ ~NoExp.labelled
      BY DEF NoExp
    <3> QED BY <3>1, <3>2, <3>3 DEF Pinned, Current
  <2>2. CASE ~(fresh /\ Admitted(me))
    BY <1>8, <2>2, AbortExport DEF RemoveExportFinalizer, me
  <2> QED BY <2>1, <2>2
<1>9. CASE CreateMinimal("export")
  BY <1>9, ExportInvCreateMinimal
<1> QED BY <1>1, <1>2, <1>3, <1>4, <1>5, <1>6, <1>7, <1>8, <1>9 DEF ExportStep

LEMMA ExportInvRest ==
  ASSUME Types, Pinned, Current, SliceStep \/ ImportStep \/ Resync \/ UNCHANGED vars
  PROVE  (Pinned /\ Current)'
<1> USE Processes
<1>1. CASE ReconcileSlice \/ ListExports \/ NextExport
  <2>1. run'["export"] = run["export"]
    BY <1>1, SliceRuns DEF Moves, Stops, Others
  <2> QED BY <1>1, <2>1, ExportAside DEF ReconcileSlice, ListExports, NextExport
<1>2. CASE CreateMinimal("slice")
  BY <1>2, ExportInvCreateMinimal
<1>3. CASE TouchExport
  <2>1. im.e \in Export
    BY <1>3 DEF TouchExport, Types, Placed
  <2>2. CASE im.fresh /\ Admitted(im.e)
    <3>1. /\ exp' = [exp EXCEPT ![im.e] = exp[im.e]] /\ expQueue' = expQueue \cup {im.e}
          /\ fresh' = (fresh /\ me # im.e) /\ UNCHANGED run
      BY <1>3, <2>2 DEF TouchExport, WriteExp, me, reconcilers
    <3>2. exp' = exp
      BY <3>1 DEF Types, TypeOK
    <3>3. run["export"].pc = "idle" => me # im.e
      BY <2>1, NoneAssumption DEF Types, Placed
    <3> QED BY <3>1, <3>2, <3>3 DEF Pinned, Current, Removing, ExpExists, me
  <2>3. CASE ~(im.fresh /\ Admitted(im.e))
    BY <1>3, <2>3, ExportAside DEF TouchExport, reconcilers
  <2> QED BY <2>2, <2>3
<1>4. CASE WriteSpec \/ LookupForRecreation
  BY <1>4, ExportAside DEF WriteSpec, LookupForRecreation, reconcilers
<1>5. ASSUME NEW c \in Cluster,
             ReconcileImportAbsent(c) \/ ReconcileImportLive(c) \/ ReconcileImportDeleting(c)
      PROVE  (Pinned /\ Current)'
  BY <1>5, ExportAside DEF ReconcileImportAbsent, ReconcileImportLive, ReconcileImportDeleting, reconcilers
<1>6. CASE Resync
  <2>1. UNCHANGED <<exp, run, fresh>> /\ run["export"].pc = "idle"
    BY <1>6 DEF Resync, Quiet, At, reconcilers
  <2> QED BY <2>1 DEF Pinned, Current, Removing, ExpExists, me
<1>7. CASE UNCHANGED vars
  BY <1>7, ExportAside DEF vars
<1> QED BY <1>1, <1>2, <1>3, <1>4, <1>5, <1>6, <1>7 DEF SliceStep, ImportStep

(* Every write of an import queues it.                                     *)
LEMMA WriteQueues ==
  ASSUME Types, DeletionQueued, NEW c \in Cluster, NEW r, WriteImp(c, r),
         lapses.finalizers \ {c} \subseteq lapses'.finalizers
  PROVE  DeletionQueued'
BY WrittenImp DEF WriteImp, DeletionQueued

LEMMA QueueGrows ==
  ASSUME DeletionQueued, UNCHANGED imp, impQueue \subseteq impQueue',
         lapses.finalizers \subseteq lapses'.finalizers
  PROVE  DeletionQueued'
BY DEF DeletionQueued

LEMMA DeletionQueuedStep ==
  ASSUME Types, DeletionQueued, [Next]_vars PROVE DeletionQueued'
<1>0. ASSUME NEW c \in Cluster, DeleteImp(c), UNCHANGED lapses PROVE DeletionQueued'
  BY <1>0, WriteQueues, QueueGrows DEF DeleteImp
<1>1. CASE Environment
  <2>1. ASSUME NEW e \in Export, CreateExport(e) \/ UpdateExport(e) \/ DeleteExport(e) PROVE DeletionQueued'
    BY <2>1, WorkerEvent, QueueGrows
  <2>2. ASSUME NEW c \in Cluster, ForceDelete(c) PROVE DeletionQueued'
    BY <1>0, <2>2 DEF ForceDelete
  <2>3. CASE \E l \in Lists : UpdateSlice(l) \/ CreateSlice(l)
    BY <2>3, QueueGrows DEF UpdateSlice, CreateSlice
  <2>4. CASE DeleteSlice
    BY <2>4, QueueGrows DEF DeleteSlice
  <2>5. CASE Fail
    <3>1. UNCHANGED imp /\ impQueue \subseteq impQueue'
      BY <2>5 DEF Fail
    <3>2. lapses.finalizers \subseteq lapses'.finalizers
      BY <2>5, LapsesFields DEF Fail
    <3> QED BY <3>1, <3>2, QueueGrows
  <2>6. CASE Crash
    BY <2>6 DEF Crash, AllQueued, ListWorkerServiceImport, ImpExists, DeletionQueued
  <2>7. ASSUME NEW c \in Cluster, RemoveWorkerFinalizersFails(c) PROVE DeletionQueued'
    <3>1. UNCHANGED imp /\ impQueue' = impQueue \ {c}
      BY <2>7 DEF RemoveWorkerFinalizersFails
    <3> QED BY <2>7, <3>1, LapsesFields DEF DeletionQueued
  <2> QED BY <1>1, <2>1, <2>2, <2>3, <2>4, <2>5, <2>6, <2>7 DEF Environment
<1>2. ASSUME NEW p \in Process, CreateMinimal(p) PROVE DeletionQueued'
  <2>1. CASE ListRemoved(p) \/ StartApply(p)
    BY <2>1, QueueGrows DEF ListRemoved, StartApply
  <2>2. ASSUME NEW c \in Cluster, DeleteListed(p, c) PROVE DeletionQueued'
    BY <1>0, <2>2, QueueGrows DEF DeleteListed
  <2>3. ASSUME NEW c \in Cluster, ApplyCluster(p, c) PROVE DeletionQueued'
    <3>1. lapses'.finalizers = lapses.finalizers
      BY <2>3, LapsesFields
    <3> QED BY <2>3, <3>1, WriteQueues DEF ApplyCluster
  <2> QED BY <1>2, <2>1, <2>2, <2>3 DEF CreateMinimal
<1>3. CASE ExportStep
  <2>1. ASSUME NEW e \in Export,
               ReconcileExportAbsent(e) \/ ReconcileExportLive(e) \/ ReconcileExportDeleting(e)
        PROVE  DeletionQueued'
    BY <2>1, QueueGrows DEF ReconcileExportAbsent, ReconcileExportLive, ReconcileExportDeleting
  <2>2. CASE SliceMissing \/ LabelExport \/ ExportApplied \/ ListForDeletion \/ RemoveExportFinalizer
    BY <2>2, QueueGrows DEF SliceMissing, LabelExport, ExportApplied, ListForDeletion, RemoveExportFinalizer
  <2>3. ASSUME NEW c \in Cluster, TouchListed(c) PROVE DeletionQueued'
    <3>1. lapses.finalizers = lapses'.finalizers
      BY <2>3, LapsesFields DEF TouchListed
    <3> QED BY <2>3, <3>1, WriteQueues, QueueGrows DEF TouchListed
  <2> QED BY <1>2, <1>3, <2>1, <2>2, <2>3, Processes DEF ExportStep
<1>4. CASE SliceStep
  <2>1. CASE ReconcileSlice \/ ListExports \/ NextExport
    BY <2>1, QueueGrows DEF ReconcileSlice, ListExports, NextExport
  <2> QED BY <1>2, <1>4, <2>1, Processes DEF SliceStep
<1>5. CASE ImportStep
  <2>1. ASSUME NEW c \in Cluster, ReconcileImportAbsent(c) PROVE DeletionQueued'
    BY <2>1 DEF ReconcileImportAbsent, ImpExists, DeletionQueued
  <2>2. ASSUME NEW c \in Cluster, ReconcileImportLive(c) PROVE DeletionQueued'
    <3>1. CASE imp[c].fin
      BY <2>2, <3>1 DEF ReconcileImportLive, DeletionQueued
    <3>2. CASE ~imp[c].fin
      BY <2>2, <3>2, WriteQueues DEF ReconcileImportLive
    <3> QED BY <3>1, <3>2
  <2>3. ASSUME NEW c \in Cluster, ReconcileImportDeleting(c) PROVE DeletionQueued'
    BY <2>3, WriteQueues, LapsesFields DEF ReconcileImportDeleting
  <2>4. CASE WriteSpec
    <3>1. im.c \in Cluster
      BY <2>4 DEF WriteSpec, Types, Placed
    <3>2. CASE im.fresh /\ im.read # imp[im.c].lists
      BY <2>4, <3>1, <3>2, WriteQueues DEF WriteSpec
    <3>3. CASE ~(im.fresh /\ im.read # imp[im.c].lists)
      BY <2>4, <3>3, QueueGrows DEF WriteSpec
    <3> QED BY <3>2, <3>3
  <2>5. CASE LookupForRecreation \/ TouchExport
    BY <2>5, QueueGrows DEF LookupForRecreation, TouchExport
  <2> QED BY <1>5, <2>1, <2>2, <2>3, <2>4, <2>5 DEF ImportStep
<1>6. CASE Resync
  BY <1>6 DEF Resync, AllQueued, ListWorkerServiceImport, ImpExists, DeletionQueued
<1>7. CASE UNCHANGED vars
  BY <1>7, QueueGrows DEF vars
<1> QED BY <1>1, <1>3, <1>4, <1>5, <1>6, <1>7 DEF Next

LEMMA ExportInvStep == Types /\ ExportInv /\ [Next]_vars => ExportInv'
<1> SUFFICES ASSUME Types, ExportInv, [Next]_vars PROVE ExportInv'
  OBVIOUS
<1>1. Pinned /\ Current /\ DeletionQueued
  BY DEF ExportInv
<1>2. (Pinned /\ Current)'
  BY <1>1, ExportInvEnvironment, ExportInvExport, ExportInvRest DEF Next
<1> QED BY <1>1, <1>2, DeletionQueuedStep DEF ExportInv

LEMMA ExportInvInit == Init => ExportInv
<1> SUFFICES ASSUME Init PROVE ExportInv
  OBVIOUS
<1>1. run["export"].pc = "idle" /\ fresh
  BY Processes, IdleFields DEF Init
<1>2. \A e \in Export : ~exp[e].labelled /\ exp[e].state # "deleting"
  BY DEF Init, NoExp
<1>3. \A c \in Cluster : imp[c].state # "deleting"
  BY DEF Init, NoImp
<1> QED BY <1>1, <1>2, <1>3 DEF ExportInv, Pinned, Current, DeletionQueued, Removing
-----------------------------------------------------------------------------
(* As long as the slice is not deleted ...                                 *)
SliceStays == "sliceDelete" \notin Events

LEMMA SliceThere == SliceStays /\ slice.exists /\ [Next]_vars => slice'.exists
<1> SUFFICES ASSUME SliceStays, slice.exists, [Next]_vars PROVE slice'.exists
  OBVIOUS
<1>1. CASE Environment
  <2>1. ASSUME NEW l \in Lists, UpdateSlice(l) PROVE slice'.exists
    <3>1. slice' = [slice EXCEPT !.clusters = l]
      BY <2>1 DEF UpdateSlice
    <3> QED BY <3>1
  <2> QED BY <1>1, <2>1 DEF SliceStays, Environment, CreateExport, UpdateExport, DeleteExport, ForceDelete,
              RemoveWorkerFinalizersFails, CreateSlice, DeleteSlice, Fail, Crash, Event
<1>2. ASSUME NEW p \in Process, CreateMinimal(p) PROVE UNCHANGED slice
  BY <1>2 DEF CreateMinimal, ListRemoved, StartApply, DeleteListed, ApplyCluster
<1>3. CASE ExportStep
  BY <1>2, <1>3, Processes DEF ExportStep, ReconcileExportAbsent, ReconcileExportLive,
     ReconcileExportDeleting, SliceMissing, LabelExport, ExportApplied, ListForDeletion, TouchListed,
     RemoveExportFinalizer
<1>4. CASE SliceStep
  BY <1>2, <1>4, Processes DEF SliceStep, ReconcileSlice, ListExports, NextExport
<1>5. CASE ImportStep
  BY <1>5 DEF ImportStep, ReconcileImportAbsent, ReconcileImportLive, ReconcileImportDeleting,
     WriteSpec, LookupForRecreation, TouchExport
<1>6. CASE Resync \/ UNCHANGED vars
  BY <1>6 DEF Resync, vars
<1> QED BY <1>1, <1>3, <1>4, <1>5, <1>6 DEF Next

(* ... the import of a cluster that is not in it is going to be removed,   *)
(* by the slice's reconcile ...                                            *)
SliceRemoves(c) ==
  /\ run["slice"].pc # "idle" /\ c \notin run["slice"].clusters
  /\ \/ run["slice"].pc \in {"exports", "list"}
     \/ run["slice"].pc = "remove" /\ c \in run["slice"].todo
     \/ run["slice"].pc \in {"next", "remove", "apply"} /\ pending # {}

(* ... or by that of the exports ...                                       *)
OnItsWay(c) ==
  \/ run["export"].pc = "labels"
  \/ run["export"].pc = "list" /\ c \notin run["export"].clusters
  \/ run["export"].pc = "remove" /\ c \in run["export"].todo

ExportRemoves(c) ==
  \A e \in LookupServiceExportForService : e \in expQueue \/ (me = e /\ OnItsWay(c))

Leaving(c) == sliceQueue \/ SliceRemoves(c) \/ ExportRemoves(c)

(* ... unless it has been written again by a reconcile that was late.      *)
Leave ==
  \A c \in Cluster :
    imp[c].state = "live" /\ c \notin slice.clusters => c \in lapses.late \/ Leaving(c)

LEMMA LeaveOn ==
  ASSUME Leave, UNCHANGED slice,
         \A c \in Cluster : imp'[c].state = "live" /\ c \notin slice.clusters =>
           \/ c \in lapses'.late
           \/ /\ imp[c].state = "live" /\ (c \in lapses.late => c \in lapses'.late)
              /\ Leaving(c) => Leaving(c)'
  PROVE  Leave'
BY DEF Leave

LEMMA LookupSame ==
  ASSUME UNCHANGED exp PROVE LookupServiceExportForService' = LookupServiceExportForService
BY DEF LookupServiceExportForService

(* The slice's reconcile stays where it is.                                *)
LEMMA LeavingExport ==
  ASSUME sliceQueue => sliceQueue', UNCHANGED pending, Others("export"), NEW c,
         ExportRemoves(c) => ExportRemoves(c)', Leaving(c)
  PROVE  Leaving(c)'
BY Processes DEF Leaving, SliceRemoves, Others, Process

(* The export's does.                                                      *)
LEMMA LeavingSlice ==
  ASSUME UNCHANGED <<exp, sliceQueue>>, expQueue \subseteq expQueue', Others("slice"), NEW c,
         SliceRemoves(c) => Leaving(c)', Leaving(c)
  PROVE  Leaving(c)'
<1>1. ExportRemoves(c) => ExportRemoves(c)'
  BY LookupSame, Processes DEF ExportRemoves, OnItsWay, me, Others, Process
<1> QED BY <1>1 DEF Leaving

LEMMA LeavingSame ==
  ASSUME UNCHANGED <<exp, run, pending>>, sliceQueue => sliceQueue', expQueue \subseteq expQueue', NEW c, Leaving(c)
  PROVE  Leaving(c)'
<1>1. ExportRemoves(c) => ExportRemoves(c)'
  BY LookupSame DEF ExportRemoves, OnItsWay, me
<1> QED BY <1>1 DEF Leaving, SliceRemoves

LEMMA LeavingAbort ==
  ASSUME Types, slice.exists, UNCHANGED exp, NEW p \in Process, Abort(p), NEW c, Leaving(c)
  PROVE  Leaving(c)'
<1>1. CASE p = "export"
  <2>1. me \in expQueue' /\ expQueue \subseteq expQueue'
    BY <1>1 DEF Abort, Requeued, me
  <2>2. UNCHANGED pending /\ Others("export")
    BY <1>1, EndedRuns DEF Abort, Stops
  <2>3. ExportRemoves(c) => ExportRemoves(c)'
    BY <2>1, LookupSame DEF ExportRemoves
  <2>4. sliceQueue => sliceQueue'
    BY <1>1 DEF Abort, Requeued
  <2> QED BY <2>2, <2>3, <2>4, LeavingExport
<1>2. CASE p = "slice"
  BY <1>2 DEF Abort, Requeued, Leaving
<1> QED BY <1>1, <1>2 DEF Process

(* An export's reconcile goes on.                                          *)
LEMMA LeavingMoves ==
  ASSUME UNCHANGED <<exp, expQueue, sliceQueue, pending>>, NEW pc, NEW l, NEW t, Moves("export", pc, l, t), NEW c,
         OnItsWay(c) => OnItsWay(c)', Leaving(c)
  PROVE  Leaving(c)'
<1>1. me' = me /\ Others("export")
  BY DEF Moves, me
<1>2. ExportRemoves(c) => ExportRemoves(c)'
  BY <1>1, LookupSame DEF ExportRemoves
<1> QED BY <1>1, <1>2, LeavingExport

LEMMA LeaveMinimal ==
  ASSUME Types, slice.exists, Leave, NEW p \in Process, CreateMinimal(p) PROVE Leave'
<1> USE Processes
<1>0. UNCHANGED slice /\ UNCHANGED exp
  BY DEF CreateMinimal, ListRemoved, StartApply, DeleteListed, ApplyCluster
<1>1. CASE ListRemoved(p)
  <2>1. UNCHANGED <<imp, lapses, expQueue, sliceQueue, pending>> /\ run[p].pc = "list"
    BY <1>1 DEF ListRemoved, At
  <2>2. Moves(p, "remove", run[p].clusters, ListWorkerServiceImport \ run[p].clusters)
    BY <1>1, CreateMinimalRuns
  <2>3. ASSUME NEW c \in Cluster, imp[c].state = "live", Leaving(c) PROVE Leaving(c)'
    <3>1. c \in ListWorkerServiceImport
      BY <2>3 DEF ListWorkerServiceImport, ImpExists
    <3>2. CASE p = "export"
      <4>1. OnItsWay(c) => OnItsWay(c)'
        BY <2>1, <2>2, <3>1, <3>2 DEF OnItsWay, Moves
      <4> QED BY <1>0, <2>1, <2>2, <2>3, <3>2, <4>1, LeavingMoves
    <3>3. CASE p = "slice"
      <4>1. SliceRemoves(c) => SliceRemoves(c)'
        BY <2>1, <2>2, <3>1, <3>3 DEF SliceRemoves, Moves
      <4> QED BY <1>0, <2>1, <2>2, <2>3, <3>3, <4>1, LeavingSlice DEF Moves, Leaving
    <3> QED BY <3>2, <3>3 DEF Process
  <2> QED BY <1>0, <2>1, <2>3, LeaveOn
<1>2. CASE StartApply(p)
  <2>1. UNCHANGED <<imp, lapses, expQueue, sliceQueue, pending>> /\ run[p].pc = "remove" /\ run[p].todo = {}
    BY <1>2 DEF StartApply, At
  <2>2. Moves(p, "apply", run[p].clusters, run[p].clusters)
    BY <1>2, CreateMinimalRuns
  <2>3. ASSUME NEW c \in Cluster, Leaving(c) PROVE Leaving(c)'
    <3>2. CASE p = "export"
      <4>1. OnItsWay(c) => OnItsWay(c)'
        BY <2>1, <3>2 DEF OnItsWay
      <4> QED BY <1>0, <2>1, <2>2, <2>3, <3>2, <4>1, LeavingMoves
    <3>3. CASE p = "slice"
      <4>1. SliceRemoves(c) => SliceRemoves(c)'
        BY <2>1, <2>2, <3>3 DEF SliceRemoves, Moves
      <4> QED BY <1>0, <2>1, <2>2, <2>3, <3>3, <4>1, LeavingSlice DEF Moves, Leaving
    <3> QED BY <3>2, <3>3 DEF Process
  <2> QED BY <1>0, <2>1, <2>3, LeaveOn
<1>3. ASSUME NEW c \in Cluster, DeleteListed(p, c) PROVE Leave'
  <2>1. CASE ImpExists(c)
    <3>1. /\ UNCHANGED <<lapses, expQueue, sliceQueue, pending>> /\ run[p].pc \in {"remove", "delete"}
          /\ DeleteImp(c)
      BY <1>3, <2>1 DEF DeleteListed
    <3>2. Moves(p, run[p].pc, run[p].clusters, run[p].todo \ {c})
      BY <1>3, <2>1, CreateMinimalRuns
    <3>3. ASSUME NEW x \in Cluster, x # c, Leaving(x) PROVE Leaving(x)'
      <4>2. CASE p = "export"
        <5>1. OnItsWay(x) => OnItsWay(x)'
          BY <3>1, <3>2, <3>3, <4>2 DEF OnItsWay, Moves
        <5> QED BY <1>0, <3>1, <3>2, <3>3, <4>2, <5>1, LeavingMoves
      <4>3. CASE p = "slice"
        <5>1. SliceRemoves(x) => SliceRemoves(x)'
          BY <3>1, <3>2, <3>3, <4>3 DEF SliceRemoves, Moves
        <5> QED BY <1>0, <3>1, <3>2, <3>3, <4>3, <5>1, LeavingSlice DEF Moves, Leaving
      <4> QED BY <4>2, <4>3 DEF Process
    <3>4. imp'[c].state # "live" /\ \A x \in Cluster : x # c => imp'[x] = imp[x]
      BY <3>1, DeletedImp
    <3> QED BY <1>0, <3>1, <3>3, <3>4, LeaveOn
  <2>2. CASE ~ImpExists(c)
    <3>1. Abort(p) /\ UNCHANGED <<imp, lapses>>
      BY <1>3, <2>2 DEF DeleteListed
    <3> QED BY <1>0, <3>1, LeavingAbort, LeaveOn
  <2> QED BY <2>1, <2>2
<1>4. ASSUME NEW c \in Cluster, ApplyCluster(p, c) PROVE Leave'
  <2>1. UNCHANGED <<expQueue, sliceQueue, pending>> /\ run[p].pc = "apply"
    BY <1>4 DEF ApplyCluster, At
  <2>2. Moves(p, run[p].pc, run[p].clusters, run[p].todo \ {c})
    BY <1>4, CreateMinimalRuns
  <2>3. ASSUME NEW x \in Cluster, Leaving(x) PROVE Leaving(x)'
    <3>2. CASE p = "export"
      <4>1. OnItsWay(x) => OnItsWay(x)'
        BY <2>1, <3>2 DEF OnItsWay
      <4> QED BY <1>0, <2>1, <2>2, <2>3, <3>2, <4>1, LeavingMoves
    <3>3. CASE p = "slice"
      <4>1. SliceRemoves(x) => SliceRemoves(x)'
        BY <2>1, <2>2, <3>3 DEF SliceRemoves, Moves
      <4> QED BY <1>0, <2>1, <2>2, <2>3, <3>3, <4>1, LeavingSlice DEF Moves, Leaving
    <3> QED BY <3>2, <3>3 DEF Process
  <2>4. lapses'.late = (IF Asked(c) THEN lapses.late \ {c} ELSE lapses.late \cup {c})
    BY <1>4, LapsesFields
  <2>5. \A x \in Cluster : x # c => imp'[x] = imp[x]
    BY <1>4, WrittenImp DEF ApplyCluster, WriteImp
  <2>6. c \notin slice.clusters => c \in lapses'.late
    BY <2>4 DEF Asked
  <2> QED BY <1>0, <2>3, <2>4, <2>5, <2>6, LeaveOn
<1> QED BY <1>1, <1>2, <1>3, <1>4 DEF CreateMinimal

LEMMA LeaveEnvironment ==
  ASSUME Types, SliceStays, slice.exists, Leave, Environment PROVE Leave'
<1> USE Processes
<1>1. ASSUME NEW e \in Export, CreateExport(e) \/ UpdateExport(e) \/ DeleteExport(e) PROVE Leave'
  <2>1. /\ UNCHANGED <<source, slice, imp, sliceQueue, run, pending, lapses>> /\ expQueue \subseteq expQueue'
        /\ \A x \in Export : x # e => exp'[x] = exp[x]
    BY <1>1, WorkerEvent
  <2>2. (exp'[e].state = "live" /\ exp'[e].labelled) => (exp[e].state = "live" /\ exp[e].labelled)
    BY <1>1, WorkerEvent DEF NoExp
  <2>3. LookupServiceExportForService' \subseteq LookupServiceExportForService
    BY <2>1, <2>2 DEF LookupServiceExportForService
  <2>4. ASSUME NEW c \in Cluster, Leaving(c) PROVE Leaving(c)'
    <3>1. ExportRemoves(c) => ExportRemoves(c)'
      BY <2>1, <2>3 DEF ExportRemoves, OnItsWay, me
    <3> QED BY <2>1, <2>4, <3>1 DEF Leaving, SliceRemoves
  <2> QED BY <2>1, <2>4, LeaveOn
<1>2. ASSUME NEW c \in Cluster, ForceDelete(c) PROVE Leave'
  <2>1. UNCHANGED <<slice, exp, expQueue, sliceQueue, run, pending, lapses>> /\ DeleteImp(c)
    BY <1>2 DEF ForceDelete, reconcilers
  <2> QED BY <2>1, DeletedImp, LeavingSame, LeaveOn
<1>3. ASSUME NEW c \in Cluster, RemoveWorkerFinalizersFails(c) PROVE Leave'
  <2>1. UNCHANGED <<slice, exp, imp, expQueue, sliceQueue, run, pending>> /\ lapses'.late = lapses.late
    BY <1>3, LapsesFields DEF RemoveWorkerFinalizersFails, reconcilers
  <2> QED BY <2>1, LeavingSame, LeaveOn
<1>4. CASE \E l \in Lists : UpdateSlice(l) \/ CreateSlice(l)
  BY <1>4 DEF UpdateSlice, CreateSlice, Leave, Leaving
<1>5. CASE DeleteSlice
  BY <1>5 DEF DeleteSlice, SliceStays, Event
<1>6. CASE Fail
  <2>0. UNCHANGED <<slice, exp, imp>>
    BY <1>6 DEF Fail
  <2>1. ASSUME NEW p \in Process, Abort(p), UNCHANGED lapses PROVE Leave'
    BY <2>0, <2>1, LeavingAbort, LeaveOn
  <2>2. ASSUME Logged, run' = [run EXCEPT !["export"].pc = "touch", !["export"].todo = {}],
               lapses' = [lapses EXCEPT !.force = TRUE], UNCHANGED <<expQueue, sliceQueue, pending>>
        PROVE  Leave'
    <3>1. Moves("export", "touch", run["export"].clusters, {}) /\ lapses'.late = lapses.late
      BY <2>2, ExportRuns, LapsesFields
    <3>2. \A c \in Cluster : ~OnItsWay(c)
      BY <2>2 DEF Logged, At, OnItsWay
    <3> QED BY <2>0, <2>2, <3>1, <3>2, LeavingMoves, LeaveOn
  <2>3. ASSUME UNCHANGED <<run, expQueue, sliceQueue, pending, lapses>> PROVE Leave'
    BY <2>0, <2>3, LeavingSame, LeaveOn
  <2> QED BY <1>6, <2>1, <2>2, <2>3 DEF Fail
<1>7. CASE Crash
  BY <1>7 DEF Crash, AllQueued, Leave, Leaving
<1> QED BY <1>1, <1>2, <1>3, <1>4, <1>5, <1>6, <1>7 DEF Environment

LEMMA LeaveExport ==
  ASSUME Types, ExportInv, slice.exists, Leave, ExportStep PROVE Leave'
<1> USE Processes
<1>1. ASSUME NEW e \in Export, ReconcileExportAbsent(e) PROVE Leave'
  <2>1. /\ UNCHANGED <<slice, exp, imp, sliceQueue, run, pending, lapses>> /\ ~ExpExists(e)
        /\ expQueue' = expQueue \ {e}
    BY <1>1 DEF ReconcileExportAbsent, reconcilers
  <2>2. e \notin LookupServiceExportForService
    BY <2>1 DEF LookupServiceExportForService, ExpExists
  <2>3. ASSUME NEW c \in Cluster, Leaving(c) PROVE Leaving(c)'
    <3>1. ExportRemoves(c) => ExportRemoves(c)'
      BY <2>1, <2>2, LookupSame DEF ExportRemoves, OnItsWay, me
    <3> QED BY <2>1, <2>3, <3>1 DEF Leaving, SliceRemoves
  <2> QED BY <2>1, <2>3, LeaveOn
<1>2. ASSUME NEW e \in Export, ReconcileExportLive(e) \/ ReconcileExportDeleting(e) PROVE Leave'
  <2>1. /\ UNCHANGED <<slice, imp, sliceQueue, pending, lapses>> /\ Others("export") /\ run["export"].pc = "idle"
        /\ \A x \in expQueue : x # e => x \in expQueue'
    BY <1>2, ExportRuns DEF ReconcileExportLive, ReconcileExportDeleting, TakeExport, At
  <2>2. LookupServiceExportForService' = LookupServiceExportForService
    <3>1. CASE ReconcileExportDeleting(e)
      BY <3>1, LookupSame DEF ReconcileExportDeleting
    <3>2. CASE ReconcileExportLive(e)
      <4> DEFINE r == [exp[e] EXCEPT !.fin = TRUE]
      <4>1. exp' = [exp EXCEPT ![e] = r]
        BY <3>2 DEF ReconcileExportLive
      <4>2. r.state = exp[e].state /\ r.labelled = exp[e].labelled
        BY DEF Types, TypeOK, ExpType
      <4> HIDE DEF r
      <4> QED BY <4>1, <4>2, WrittenExp DEF LookupServiceExportForService
    <3> QED BY <1>2, <3>1, <3>2
  <2>3. e \in LookupServiceExportForService => run'["export"].pc = "labels" /\ me' = e
    BY <1>2, ExportRuns DEF ReconcileExportDeleting, LookupServiceExportForService, me
  <2>4. ASSUME NEW c \in Cluster, Leaving(c) PROVE Leaving(c)'
    <3>1. ~OnItsWay(c)
      BY <2>1 DEF OnItsWay
    <3>2. ExportRemoves(c) => ExportRemoves(c)'
      BY <2>1, <2>2, <2>3, <3>1 DEF ExportRemoves, OnItsWay
    <3> QED BY <2>1, <2>4, <3>2, LeavingExport
  <2> QED BY <2>1, <2>4, LeaveOn
<1>3. CASE SliceMissing
  BY <1>3 DEF SliceMissing
<1>4. CASE LabelExport
  <2>1. CASE exp[me].labelled \/ (fresh /\ Admitted(me))
    <3>0. me \in Export /\ exp[me] \in ExpType
      BY <1>4 DEF LabelExport, At, Types, TypeOK, Placed
    <3>1. /\ UNCHANGED <<slice, imp, sliceQueue, pending, lapses>> /\ expQueue \subseteq expQueue'
          /\ \A x \in Export : x # me => exp'[x] = exp[x]
      BY <1>4, <2>1 DEF LabelExport, me, Types, TypeOK
    <3>2. run'["export"].pc = "list" /\ run'["export"].clusters = slice.clusters /\ me' = me /\ Others("export")
      BY <1>4, <2>1, ExportRuns DEF Moves, me
    <3>3. ASSUME NEW c \in Cluster, c \notin slice.clusters, Leaving(c) PROVE Leaving(c)'
      <4>1. ExportRemoves(c) => ExportRemoves(c)'
        BY <3>1, <3>2, <3>3 DEF ExportRemoves, OnItsWay, LookupServiceExportForService
      <4> QED BY <3>1, <3>2, <3>3, <4>1, LeavingExport
    <3> QED BY <3>1, <3>3, LeaveOn
  <2>2. CASE ~(exp[me].labelled \/ (fresh /\ Admitted(me)))
    BY <1>4, <2>2, LeavingAbort, LeaveOn DEF LabelExport, me
  <2> QED BY <2>1, <2>2
<1>5. CASE ExportApplied
  <2>1. UNCHANGED <<slice, exp, imp, expQueue, sliceQueue, pending, lapses>> /\ run["export"].pc = "apply"
        /\ Others("export")
    BY <1>5, EndedRuns DEF ExportApplied, At, Stops
  <2>2. ASSUME NEW c \in Cluster, Leaving(c) PROVE Leaving(c)'
    <3>1. ExportRemoves(c) => ExportRemoves(c)'
      BY <2>1, LookupSame DEF ExportRemoves, OnItsWay
    <3> QED BY <2>1, <2>2, <3>1, LeavingExport
  <2> QED BY <2>1, <2>2, LeaveOn
<1>6. CASE ListForDeletion
  <2>1. UNCHANGED <<slice, exp, imp, expQueue, sliceQueue, pending, lapses>> /\ \A c \in Cluster : ~OnItsWay(c)
    BY <1>6 DEF ListForDeletion, OnItsWay
  <2> QED BY <1>6, <2>1, ExportRuns, LeavingMoves, LeaveOn
<1>7. ASSUME NEW c \in Cluster, TouchListed(c) PROVE Leave'
  <2>1. UNCHANGED <<slice, exp, expQueue, sliceQueue, pending>> /\ \A x \in Cluster : ~OnItsWay(x)
    BY <1>7 DEF TouchListed, OnItsWay, At
  <2>2. UNCHANGED imp /\ lapses'.late = lapses.late
    BY <1>7, LapsesFields DEF TouchListed, WriteImp, Types, TypeOK
  <2>3. \A x \in Cluster : Leaving(x) => Leaving(x)'
    BY <1>7, <2>1, ExportRuns, LeavingMoves
  <2> QED BY <2>1, <2>2, <2>3, LeaveOn
<1>8. CASE RemoveExportFinalizer
  <2>0. run["export"].pc \in {"touch", "delete"} /\ me \in Export /\ UNCHANGED <<slice, imp, lapses>>
    BY <1>8 DEF RemoveExportFinalizer, Types, Placed
  <2>1. CASE fresh /\ Admitted(me)
    <3>1. exp'[me] = NoExp /\ \A x \in Export : x # me => exp'[x] = exp[x]
      BY <1>8, <2>0, <2>1, WrittenExp DEF RemoveExportFinalizer, me
    <3>2. LookupServiceExportForService' \subseteq LookupServiceExportForService
      BY <3>1 DEF LookupServiceExportForService, NoExp
    <3>3. expQueue \subseteq expQueue' /\ UNCHANGED <<sliceQueue, pending>> /\ Others("export")
      BY <1>8, <2>1, EndedRuns DEF RemoveExportFinalizer, Stops, me
    <3>4. ASSUME NEW c \in Cluster, Leaving(c) PROVE Leaving(c)'
      <4>1. ExportRemoves(c) => ExportRemoves(c)'
        BY <2>0, <3>2, <3>3 DEF ExportRemoves, OnItsWay
      <4> QED BY <3>3, <3>4, <4>1, LeavingExport
    <3> QED BY <2>0, <3>4, LeaveOn
  <2>2. CASE ~(fresh /\ Admitted(me))
    BY <1>8, <2>0, <2>2, LeavingAbort, LeaveOn DEF RemoveExportFinalizer, me
  <2> QED BY <2>1, <2>2
<1>9. CASE CreateMinimal("export")
  BY <1>9, LeaveMinimal
<1> QED BY <1>1, <1>2, <1>3, <1>4, <1>5, <1>6, <1>7, <1>8, <1>9 DEF ExportStep

LEMMA LeaveRest ==
  ASSUME Types, slice.exists, Leave, SliceStep \/ ImportStep \/ Resync \/ UNCHANGED vars PROVE Leave'
<1> USE Processes
<1>1. CASE ReconcileSlice
  <2>1. UNCHANGED <<slice, exp, imp, expQueue, pending, lapses>> /\ Others("slice")
        /\ run'["slice"].pc = "exports" /\ run'["slice"].clusters = slice.clusters
    BY <1>1, SliceRuns DEF ReconcileSlice
  <2>2. ASSUME NEW c \in Cluster, c \notin slice.clusters PROVE Leaving(c)'
    BY <2>1, <2>2 DEF Leaving, SliceRemoves
  <2> QED BY <2>1, <2>2 DEF Leave
<1>2. CASE ListExports
  <2>1. /\ UNCHANGED <<slice, exp, imp, expQueue, sliceQueue, lapses>> /\ run["slice"].pc = "exports"
        /\ Moves("slice", "next", run["slice"].clusters, run["slice"].todo)
        /\ LookupServiceExportForService \subseteq pending'
    BY <1>2, SliceRuns DEF ListExports, At, LookupServiceExportForService, getServiceExportBySliceName, ExpExists
  <2>2. ASSUME NEW c \in Cluster, Leaving(c) PROVE Leaving(c)'
    <3>1. ExportRemoves(c) => ExportRemoves(c)'
      BY <2>1, LookupSame DEF ExportRemoves, OnItsWay, me, Moves, Others
    <3>2. CASE LookupServiceExportForService = {}
      BY <2>1, <3>2, LookupSame DEF ExportRemoves, Leaving
    <3>3. CASE LookupServiceExportForService # {}
      <4>1. SliceRemoves(c) => SliceRemoves(c)'
        BY <2>1, <3>3 DEF SliceRemoves, Moves
      <4> QED BY <2>1, <2>2, <3>1, <4>1 DEF Leaving
    <3> QED BY <3>2, <3>3
  <2> QED BY <2>1, <2>2, LeaveOn
<1>3. CASE NextExport
  <2>1. UNCHANGED <<slice, exp, imp, expQueue, sliceQueue, lapses>> /\ Others("slice")
    BY <1>3, SliceRuns DEF NextExport, Stops, Moves
  <2>2. ASSUME NEW c \in Cluster, SliceRemoves(c) PROVE Leaving(c)'
    <3>1. pending # {}
      BY <1>3, <2>2 DEF NextExport, At, SliceRemoves
    <3>2. Goto("slice", "list")
      BY <1>3, <3>1 DEF NextExport
    <3>3. run'["slice"].pc = "list" /\ run'["slice"].clusters = run["slice"].clusters
      BY <3>2, RunGoto DEF Goto, Types
    <3> QED BY <2>2, <3>3 DEF SliceRemoves, Leaving
  <2> QED BY <2>1, <2>2, LeavingSlice, LeaveOn
<1>4. CASE CreateMinimal("slice")
  BY <1>4, LeaveMinimal
<1>5. CASE ImportStep
  <2>0. UNCHANGED <<slice, exp, run, pending, sliceQueue>> /\ expQueue \subseteq expQueue' /\ lapses'.late = lapses.late
    BY <1>5, LapsesFields DEF ImportStep, ReconcileImportAbsent, ReconcileImportLive, ReconcileImportDeleting,
       WriteSpec, LookupForRecreation, TouchExport, WriteExp, reconcilers, Types, TypeOK, Placed
  <2>1. \A c \in Cluster : imp'[c].state = "live" => imp[c].state = "live"
    <3>0. ASSUME NEW c \in Cluster, NEW r, WriteImp(c, r), r.state = "live" => imp[c].state = "live"
          PROVE  \A x \in Cluster : imp'[x].state = "live" => imp[x].state = "live"
      BY <3>0, WrittenImp DEF WriteImp
    <3>1. ASSUME NEW c \in Cluster, ReconcileImportLive(c)
          PROVE  \A x \in Cluster : imp'[x].state = "live" => imp[x].state = "live"
      BY <3>0, <3>1 DEF ReconcileImportLive
    <3>2. ASSUME NEW c \in Cluster, ReconcileImportDeleting(c)
          PROVE  \A x \in Cluster : imp'[x].state = "live" => imp[x].state = "live"
      <4>1. NoImp.state # "live"
        BY DEF NoImp
      <4> QED BY <3>0, <3>2, <4>1 DEF ReconcileImportDeleting
    <3>3. ASSUME WriteSpec PROVE \A x \in Cluster : imp'[x].state = "live" => imp[x].state = "live"
      <4>0. im.c \in Cluster
        BY <3>3 DEF WriteSpec, Types, Placed
      <4> DEFINE r == [imp[im.c] EXCEPT !.lists = im.read]
      <4>1. r.state = imp[im.c].state
        BY <4>0 DEF Types, TypeOK, ImpType
      <4>2. WriteImp(im.c, r) \/ UNCHANGED imp
        BY <3>3 DEF WriteSpec
      <4> HIDE DEF r
      <4> QED BY <3>0, <4>0, <4>1, <4>2
    <3> QED BY <1>5, <3>1, <3>2, <3>3 DEF ImportStep, ReconcileImportAbsent, LookupForRecreation, TouchExport
  <2> QED BY <2>0, <2>1, LeavingSame, LeaveOn
<1>6. CASE Resync
  BY <1>6 DEF Resync, AllQueued, Leave, Leaving
<1>7. CASE UNCHANGED vars
  BY <1>7, LeavingSame, LeaveOn DEF vars
<1> QED BY <1>1, <1>2, <1>3, <1>4, <1>5, <1>6, <1>7 DEF SliceStep

(* A live export gets its labels.                                          *)
LabelsComing ==
  \A e \in Export : exp[e].state = "live" /\ ~exp[e].labelled =>
    e \in expQueue \/ (run["export"].pc = "labels" /\ me = e)

LEMMA LabelsOn ==
  ASSUME LabelsComing, UNCHANGED exp, expQueue \subseteq expQueue',
         run["export"].pc = "labels" =>
           (run'["export"].pc = "labels" /\ me' = me) \/ me \in expQueue'
  PROVE  LabelsComing'
BY DEF LabelsComing

LEMMA LabelsSame ==
  ASSUME LabelsComing, UNCHANGED <<exp, expQueue>>, run'["export"] = run["export"] PROVE LabelsComing'
BY DEF LabelsComing, me

LEMMA LabelsAbort ==
  ASSUME Types, LabelsComing, UNCHANGED exp, NEW p \in Process, Abort(p) PROVE LabelsComing'
<1>1. CASE p = "export"
  BY <1>1, LabelsOn DEF Abort, Requeued, me
<1>2. CASE p # "export"
  <2>1. run'["export"] = run["export"] /\ expQueue' = expQueue
    BY <1>2, EndedRuns, Processes DEF Abort, Requeued, Stops, Others
  <2> QED BY <2>1, LabelsSame
<1> QED BY <1>1, <1>2

LEMMA LabelsMinimal ==
  ASSUME Types, LabelsComing, NEW p \in Process, CreateMinimal(p) PROVE LabelsComing'
<1>1. ASSUME NEW pc, NEW l, NEW t, Moves(p, pc, l, t), run[p].pc # "labels", UNCHANGED <<exp, expQueue>>
      PROVE  LabelsComing'
  <2>1. CASE p = "export"
    BY <1>1, <2>1, LabelsOn
  <2>2. CASE p # "export"
    BY <1>1, <2>2, LabelsSame, Processes DEF Moves, Others
  <2> QED BY <2>1, <2>2
<1>2. CASE ListRemoved(p)
  BY <1>1, <1>2, CreateMinimalRuns DEF ListRemoved, At
<1>3. CASE StartApply(p)
  BY <1>1, <1>3, CreateMinimalRuns DEF StartApply, At
<1>4. ASSUME NEW c \in Cluster, DeleteListed(p, c) PROVE LabelsComing'
  <2>1. CASE ImpExists(c)
    BY <1>1, <1>4, <2>1, CreateMinimalRuns DEF DeleteListed
  <2>2. CASE ~ImpExists(c)
    BY <1>4, <2>2, LabelsAbort DEF DeleteListed
  <2> QED BY <2>1, <2>2
<1>5. ASSUME NEW c \in Cluster, ApplyCluster(p, c) PROVE LabelsComing'
  BY <1>1, <1>5, CreateMinimalRuns DEF ApplyCluster, At
<1> QED BY <1>2, <1>3, <1>4, <1>5 DEF CreateMinimal

LEMMA LabelsStep ==
  ASSUME Types, ExportInv, slice.exists, LabelsComing, [Next]_vars PROVE LabelsComing'
<1> USE Processes
<1>1. CASE Environment
  <2>1. ASSUME NEW e \in Export, CreateExport(e) \/ UpdateExport(e) \/ DeleteExport(e) PROVE LabelsComing'
    BY <2>1, WorkerEvent DEF LabelsComing, me
  <2>2. CASE \E c \in Cluster : ForceDelete(c) \/ RemoveWorkerFinalizersFails(c)
    BY <2>2, LabelsSame DEF ForceDelete, RemoveWorkerFinalizersFails, reconcilers
  <2>3. CASE DeleteSlice \/ \E l \in Lists : UpdateSlice(l) \/ CreateSlice(l)
    BY <2>3, LabelsSame DEF UpdateSlice, CreateSlice, DeleteSlice, reconcilers
  <2>4. CASE Fail
    <3>1. ASSUME Logged, UNCHANGED <<exp, expQueue>> PROVE LabelsComing'
      BY <3>1, LabelsOn DEF Logged, At
    <3> QED BY <2>4, <3>1, LabelsAbort, LabelsSame DEF Fail
  <2>5. CASE Crash
    BY <2>5 DEF Crash, AllQueued, ExpExists, LabelsComing
  <2> QED BY <1>1, <2>1, <2>2, <2>3, <2>4, <2>5 DEF Environment
<1>3. CASE ExportStep
  <2>1. ASSUME NEW e \in Export, ReconcileExportAbsent(e) PROVE LabelsComing'
    BY <2>1 DEF ReconcileExportAbsent, reconcilers, ExpExists, LabelsComing, me
  <2>2. ASSUME NEW e \in Export, ReconcileExportLive(e) PROVE LabelsComing'
    <3>1. \A x \in Export : x # e => exp'[x] = exp[x]
      BY <2>2 DEF ReconcileExportLive, Types, TypeOK
    <3>2. run'["export"].pc = "labels" /\ me' = e /\ run["export"].pc = "idle"
      BY <2>2, ExportRuns DEF ReconcileExportLive, TakeExport, At, me
    <3>3. \A x \in expQueue : x # e => x \in expQueue'
      BY <2>2 DEF ReconcileExportLive
    <3> QED BY <3>1, <3>2, <3>3 DEF LabelsComing
  <2>3. ASSUME NEW e \in Export, ReconcileExportDeleting(e) PROVE LabelsComing'
    BY <2>3 DEF ReconcileExportDeleting, TakeExport, At, LabelsComing
  <2>4. CASE ExportApplied \/ ListForDeletion
    BY <2>4, LabelsOn DEF ExportApplied, ListForDeletion, At
  <2>5. CASE SliceMissing
    BY <2>5 DEF SliceMissing
  <2>6. CASE LabelExport
    <3>1. CASE exp[me].labelled \/ (fresh /\ Admitted(me))
      <4>0. me \in Export /\ exp[me] \in ExpType
        BY <2>6 DEF LabelExport, At, Types, TypeOK, Placed
      <4> DEFINE r == [exp[me] EXCEPT !.labelled = TRUE]
      <4>1. exp' = [exp EXCEPT ![me] = r]
        BY <2>6, <3>1 DEF LabelExport, me
      <4>2. r.labelled = TRUE
        BY <4>0 DEF ExpType
      <4> HIDE DEF r
      <4>3. exp'[me] = r /\ \A x \in Export : x # me => exp'[x] = exp[x]
        BY <4>0, <4>1, WrittenExp
      <4>4. expQueue \subseteq expQueue'
        BY <2>6, <3>1 DEF LabelExport, me
      <4> QED BY <4>0, <4>2, <4>3, <4>4 DEF LabelsComing
    <3>2. CASE ~(exp[me].labelled \/ (fresh /\ Admitted(me)))
      BY <2>6, <3>2, LabelsAbort DEF LabelExport, me
    <3> QED BY <3>1, <3>2
  <2>7. ASSUME NEW c \in Cluster, TouchListed(c) PROVE LabelsComing'
    BY <2>7, LabelsOn DEF TouchListed, At
  <2>8. CASE RemoveExportFinalizer
    <3>1. CASE fresh /\ Admitted(me)
      <4>0. me \in Export /\ run["export"].pc # "labels"
        BY <2>8 DEF RemoveExportFinalizer, Types, Placed
      <4>1. exp'[me] = NoExp /\ \A x \in Export : x # me => exp'[x] = exp[x]
        BY <2>8, <3>1, <4>0, WrittenExp DEF RemoveExportFinalizer, me
      <4>2. expQueue \subseteq expQueue' /\ NoExp.state = "absent"
        BY <2>8, <3>1 DEF RemoveExportFinalizer, NoExp, me
      <4> QED BY <4>0, <4>1, <4>2 DEF LabelsComing
    <3>2. CASE ~(fresh /\ Admitted(me))
      BY <2>8, <3>2, LabelsAbort DEF RemoveExportFinalizer, me
    <3> QED BY <3>1, <3>2
  <2>9. CASE CreateMinimal("export")
    BY <2>9, LabelsMinimal
  <2> QED BY <1>3, <2>1, <2>2, <2>3, <2>4, <2>5, <2>6, <2>7, <2>8, <2>9 DEF ExportStep
<1>4. CASE SliceStep
  <2>1. CASE ReconcileSlice \/ ListExports \/ NextExport
    <3>1. run'["export"] = run["export"]
      BY <2>1, SliceRuns DEF Moves, Stops, Others
    <3> QED BY <2>1, <3>1, LabelsSame DEF ReconcileSlice, ListExports, NextExport
  <2> QED BY <1>4, <2>1, LabelsMinimal DEF SliceStep
<1>5. CASE ImportStep
  <2>1. CASE TouchExport
    <3>1. expQueue \subseteq expQueue' /\ UNCHANGED <<exp, run>>
      BY <2>1 DEF TouchExport, WriteExp, reconcilers, Types, TypeOK, Placed
    <3> QED BY <3>1, LabelsOn DEF me
  <2> QED BY <1>5, <2>1, LabelsSame DEF ImportStep, ReconcileImportAbsent, ReconcileImportLive,
     ReconcileImportDeleting, WriteSpec, LookupForRecreation, reconcilers
<1>6. CASE Resync
  BY <1>6 DEF Resync, Quiet, At, AllQueued, ExpExists, LabelsComing
<1>7. CASE UNCHANGED vars
  BY <1>7, LabelsSame DEF vars
<1> QED BY <1>1, <1>3, <1>4, <1>5, <1>6, <1>7 DEF Next

Wanted == copySpec(LookupServiceExportForService)

Early == {"labels", "list", "listTouch", "listDelete"}
Late == {"apply", "touch", "delete"}

(* From there on the reconcile gets to the import of c, if it is live.     *)
Reached(c, pc, l, t) ==
  pc \in Early \/ (pc = "remove" /\ c \in l \cup t) \/ (pc \in Late /\ c \in t)

(* The reconcile of an export is going to write the import of c.           *)
Coming(c) ==
  \/ \E e \in expQueue : ExpExists(e) /\ exp[e].labelled
  \/ /\ run["export"].pc # "idle" /\ exp[me].labelled
     /\ Reached(c, run["export"].pc, run["export"].clusters, run["export"].todo)

(* The import of c lists the exports, or is going to.                      *)
Follows(c) ==
  \/ c \in impQueue \/ Coming(c)
  \/ im.pc = "write" /\ im.c = c /\ (im.fresh => im.read = Wanted)
  \/ imp[c].lists = Wanted

Followed ==
  ~lapses.force /\ LookupServiceExportForService # {} =>
    \A c \in Cluster : imp[c].state = "live" => Follows(c)

SettledInv == slice.exists /\ Leave /\ LabelsComing /\ Followed

ImKeeps == im'.pc = im.pc /\ im'.c = im.c /\ im'.read = im.read /\ (im'.fresh => im.fresh)

LEMMA ImSeesKeeps ==
  ASSUME Types, NEW e, NEW c, im' = im \/ im' = ImSeesExp(e) \/ im' = ImSeesImp(c) PROVE ImKeeps
BY DEF Types, TypeOK, ImType, ImSeesExp, ImSeesImp, ImKeeps

(* What the imports should list depends on the labelled live exports only. *)
LEMMA WantedSame ==
  ASSUME \A e \in Export :
           /\ (exp'[e].state = "live" /\ exp'[e].labelled) <=> (exp[e].state = "live" /\ exp[e].labelled)
           /\ exp[e].state = "live" /\ exp[e].labelled => exp'[e].ver = exp[e].ver
  PROVE  /\ LookupServiceExportForService' = LookupServiceExportForService
         /\ Wanted' = Wanted
<1>1. LookupServiceExportForService' = LookupServiceExportForService
  BY DEF LookupServiceExportForService
<1>2. \A e \in LookupServiceExportForService : exp'[e].ver = exp[e].ver
  BY DEF LookupServiceExportForService
<1> QED BY <1>1, <1>2 DEF Wanted, copySpec

(* The imports follow as long as what they should list stays the same, no  *)
(* request is lost and what is coming is.                                  *)
LEMMA FollowedOn ==
  ASSUME Followed, lapses.force => lapses'.force,
         LookupServiceExportForService' = LookupServiceExportForService, Wanted' = Wanted,
         impQueue \subseteq impQueue', ImKeeps,
         \A c \in Cluster : imp'[c].state = "live" =>
           \/ c \in impQueue'
           \/ imp[c].state = "live" /\ imp'[c].lists = imp[c].lists /\ (Coming(c) => Coming(c)')
  PROVE  Followed'
<1> SUFFICES ASSUME ~lapses'.force, LookupServiceExportForService' # {}, NEW c \in Cluster,
                    imp'[c].state = "live", c \notin impQueue'
             PROVE  Follows(c)'
  BY DEF Followed, Follows
<1>1. Follows(c)
  BY DEF Followed
<1>2. CASE Coming(c)
  BY <1>2 DEF Follows
<1>3. CASE im.pc = "write" /\ im.c = c /\ (im.fresh => im.read = Wanted)
  BY <1>3 DEF Follows, ImKeeps
<1>4. CASE imp[c].lists = Wanted
  BY <1>4 DEF Follows
<1> QED BY <1>1, <1>2, <1>3, <1>4 DEF Follows

(* The same where no export is written.                                    *)
LEMMA FollowedMeanwhile ==
  ASSUME Followed, lapses.force => lapses'.force, UNCHANGED exp, impQueue \subseteq impQueue', ImKeeps,
         \A c \in Cluster : imp'[c].state = "live" =>
           \/ c \in impQueue'
           \/ imp[c].state = "live" /\ imp'[c].lists = imp[c].lists /\ (Coming(c) => Coming(c)')
  PROVE  Followed'
<1>1. LookupServiceExportForService' = LookupServiceExportForService /\ Wanted' = Wanted
  BY WantedSame
<1> QED BY <1>1, FollowedOn

LEMMA ComingSame ==
  ASSUME UNCHANGED exp, expQueue \subseteq expQueue', run'["export"] = run["export"], NEW c, Coming(c)
  PROVE  Coming(c)'
BY DEF Coming, ExpExists, me

LEMMA ComingAbort ==
  ASSUME Types, Pinned, UNCHANGED exp, NEW p \in Process, Abort(p), NEW c, Coming(c) PROVE Coming(c)'
<1>1. expQueue \subseteq expQueue'
  BY DEF Abort, Requeued
<1>2. CASE p = "export"
  <2>1. me \in expQueue'
    BY <1>2 DEF Abort, Requeued, me
  <2> QED BY <1>1, <2>1 DEF Coming, Pinned, ExpExists
<1>3. CASE p # "export"
  <2>1. run'["export"] = run["export"]
    BY <1>3, EndedRuns, Processes DEF Abort, Stops, Others
  <2> QED BY <1>1, <2>1, ComingSame
<1> QED BY <1>2, <1>3

LEMMA ComingMoves ==
  ASSUME UNCHANGED <<exp, expQueue>>, NEW p \in Process, NEW pc, NEW l, NEW t, Moves(p, pc, l, t), pc # "idle", NEW c,
         p = "export" => (Reached(c, run[p].pc, run[p].clusters, run[p].todo) => Reached(c, pc, l, t)),
         Coming(c)
  PROVE  Coming(c)'
<1>1. CASE p = "export"
  <2>1. me' = me /\ run'["export"].pc = pc /\ run'["export"].todo = t /\ run'["export"].clusters = l
    BY <1>1 DEF Moves, me
  <2> QED BY <1>1, <2>1 DEF Coming, ExpExists, me
<1>2. CASE p # "export"
  BY <1>2, ComingSame, Processes DEF Moves, Others
<1> QED BY <1>1, <1>2

(* A write of an import queues it, the others are as they were.            *)
LEMMA FollowedWrite ==
  ASSUME Types, Followed, UNCHANGED exp, lapses.force => lapses'.force, ImKeeps,
         NEW c \in Cluster, NEW r, WriteImp(c, r),
         \A x \in Cluster : x # c /\ Coming(x) => Coming(x)'
  PROVE  Followed'
<1>1. \A x \in Cluster : x # c => imp'[x] = imp[x]
  BY WrittenImp DEF WriteImp
<1>2. impQueue' = impQueue \cup {c}
  BY DEF WriteImp
<1> QED BY <1>1, <1>2, FollowedMeanwhile DEF ImpExists

LEMMA FollowedMinimal ==
  ASSUME Types, ExportInv, Followed, NEW p \in Process, CreateMinimal(p) PROVE Followed'
<1>0. Pinned
  BY DEF ExportInv
<1>1. CASE ListRemoved(p)
  <2>1. UNCHANGED <<exp, expQueue, imp, impQueue, im, lapses>> /\ run[p].pc = "list"
    BY <1>1 DEF ListRemoved, At
  <2>2. ASSUME NEW c \in Cluster, imp[c].state = "live", Coming(c) PROVE Coming(c)'
    <3>1. c \in ListWorkerServiceImport
      BY <2>2 DEF ListWorkerServiceImport, ImpExists
    <3> DEFINE l == run[p].clusters
               t == ListWorkerServiceImport \ l
    <3>2. Moves(p, "remove", l, t)
      BY <1>1, CreateMinimalRuns
    <3>3. Reached(c, "remove", l, t)
      BY <3>1 DEF Reached
    <3> HIDE DEF l, t
    <3> QED BY <2>1, <2>2, <3>2, <3>3, ComingMoves
  <2> QED BY <2>1, <2>2, FollowedMeanwhile DEF ImKeeps
<1>2. CASE StartApply(p)
  <2>1. UNCHANGED <<exp, expQueue, imp, impQueue, im, lapses>> /\ run[p].pc = "remove" /\ run[p].todo = {}
    BY <1>2 DEF StartApply, At
  <2>2. Moves(p, "apply", run[p].clusters, run[p].clusters)
    BY <1>2, CreateMinimalRuns
  <2>3. ASSUME NEW c \in Cluster, Coming(c) PROVE Coming(c)'
    <3>1. Reached(c, run[p].pc, run[p].clusters, run[p].todo) => Reached(c, "apply", run[p].clusters, run[p].clusters)
      BY <2>1 DEF Reached, Early, Late
    <3> QED BY <2>1, <2>2, <2>3, <3>1, ComingMoves
  <2> QED BY <2>1, <2>3, FollowedMeanwhile DEF ImKeeps
<1>3. ASSUME NEW c \in Cluster, DeleteListed(p, c) PROVE Followed'
  <2>1. CASE ImpExists(c)
    <3>1. UNCHANGED <<exp, expQueue, lapses>> /\ DeleteImp(c) /\ run[p].pc \in {"remove", "delete"}
      BY <1>3, <2>1 DEF DeleteListed
    <3>2. ASSUME NEW x \in Cluster, x # c, Coming(x) PROVE Coming(x)'
      <4>1. Moves(p, run[p].pc, run[p].clusters, run[p].todo \ {c})
        BY <1>3, <2>1, CreateMinimalRuns
      <4>2. Reached(x, run[p].pc, run[p].clusters, run[p].todo) =>
              Reached(x, run[p].pc, run[p].clusters, run[p].todo \ {c})
        BY <3>1, <3>2 DEF Reached, Early, Late
      <4> QED BY <3>1, <3>2, <4>1, <4>2, ComingMoves
    <3>3. /\ imp'[c].state # "live" /\ \A x \in Cluster : x # c => imp'[x] = imp[x]
          /\ impQueue \subseteq impQueue' /\ ImKeeps
      BY <3>1, DeletedImp, ImSeesKeeps
    <3> QED BY <3>1, <3>2, <3>3, FollowedMeanwhile
  <2>2. CASE ~ImpExists(c)
    <3>1. UNCHANGED <<exp, imp, impQueue, im, lapses>> /\ Abort(p)
      BY <1>3, <2>2 DEF DeleteListed
    <3> QED BY <1>0, <3>1, ComingAbort, FollowedMeanwhile DEF ImKeeps
  <2> QED BY <2>1, <2>2
<1>4. ASSUME NEW c \in Cluster, ApplyCluster(p, c) PROVE Followed'
  <2>1. UNCHANGED <<exp, expQueue>> /\ im' = ImSeesImp(c) /\ run[p].pc = "apply"
    BY <1>4 DEF ApplyCluster, At
  <2>2. PICK r : WriteImp(c, r)
    BY <1>4 DEF ApplyCluster
  <2>3. ASSUME NEW x \in Cluster, x # c, Coming(x) PROVE Coming(x)'
    <3>1. Moves(p, run[p].pc, run[p].clusters, run[p].todo \ {c})
      BY <1>4, CreateMinimalRuns
    <3>2. Reached(x, run[p].pc, run[p].clusters, run[p].todo) =>
            Reached(x, run[p].pc, run[p].clusters, run[p].todo \ {c})
      BY <2>1, <2>3 DEF Reached, Early, Late
    <3> QED BY <2>1, <2>3, <3>1, <3>2, ComingMoves
  <2>4. lapses'.force = lapses.force
    BY <1>4, LapsesFields
  <2> QED BY <2>1, <2>2, <2>3, <2>4, ImSeesKeeps, FollowedWrite
<1> QED BY <1>1, <1>2, <1>3, <1>4 DEF CreateMinimal

LEMMA FollowedWorkers ==
  ASSUME Types, ExportInv, Followed, NEW e \in Export, CreateExport(e) \/ UpdateExport(e) \/ DeleteExport(e)
  PROVE  Followed'
<1>0. /\ Pinned /\ expQueue' = expQueue \cup {e} /\ UNCHANGED <<run, imp, impQueue, lapses>> /\ ImKeeps
      /\ \A x \in Export : x # e => exp'[x] = exp[x]
  BY WorkerEvent, ImSeesKeeps DEF ExportInv
<1>1. CASE ExpExists(e) /\ exp[e].labelled
  <2>1. ExpExists(e)' /\ exp'[e].labelled
    BY <1>1, WorkerEvent DEF Pinned, ExportInv, ExpExists
  <2>2. \A c \in Cluster : Coming(c)'
    BY <1>0, <2>1 DEF Coming
  <2> QED BY <2>2 DEF Followed, Follows
<1>2. CASE ~(ExpExists(e) /\ exp[e].labelled)
  <2>1. ~(exp'[e].state = "live" /\ exp'[e].labelled) /\ ~(exp[e].state = "live" /\ exp[e].labelled)
    BY <1>2, WorkerEvent DEF ExpExists, NoExp
  <2>2. LookupServiceExportForService' = LookupServiceExportForService /\ Wanted' = Wanted
    BY <1>0, <2>1, WantedSame
  <2>3. ASSUME NEW c \in Cluster, Coming(c) PROVE Coming(c)'
    <3>1. ASSUME NEW x \in expQueue, ExpExists(x), exp[x].labelled PROVE Coming(c)'
      <4>1. x # e /\ x \in Export
        BY <1>2, <3>1 DEF Types, TypeOK
      <4> QED BY <1>0, <3>1, <4>1 DEF Coming, ExpExists
    <3>2. ASSUME run["export"].pc # "idle", exp[me].labelled PROVE me' = me /\ exp'[me].labelled
      <4>1. me # e /\ me \in Export
        BY <1>0, <1>2, <3>2 DEF Pinned, Types, Placed
      <4> QED BY <1>0, <3>2, <4>1 DEF me
    <3> QED BY <1>0, <2>3, <3>1, <3>2 DEF Coming
  <2> QED BY <1>0, <2>2, <2>3, FollowedOn DEF ImpExists
<1> QED BY <1>1, <1>2

LEMMA FollowedRestart ==
  ASSUME UNCHANGED imp, impQueue' = ListWorkerServiceImport PROVE Followed'
BY DEF ListWorkerServiceImport, ImpExists, Followed, Follows

LEMMA FollowedEnvironment ==
  ASSUME Types, ExportInv, Followed, Environment PROVE Followed'
<1> USE Processes
<1>0. Pinned
  BY DEF ExportInv
<1>2. ASSUME NEW c \in Cluster, ForceDelete(c) PROVE Followed'
  <2>1. UNCHANGED <<exp, expQueue, lapses, run>> /\ DeleteImp(c)
    BY <1>2 DEF ForceDelete, reconcilers
  <2>2. /\ imp'[c].state # "live" /\ \A x \in Cluster : x # c => imp'[x] = imp[x]
        /\ impQueue \subseteq impQueue' /\ ImKeeps
    BY <2>1, DeletedImp, ImSeesKeeps
  <2> QED BY <2>1, <2>2, ComingSame, FollowedMeanwhile
<1>3. CASE DeleteSlice \/ \E l \in Lists : UpdateSlice(l) \/ CreateSlice(l)
  <2>1. UNCHANGED <<exp, expQueue, lapses, run, imp, impQueue, im>>
    BY <1>3 DEF DeleteSlice, UpdateSlice, CreateSlice, reconcilers
  <2> QED BY <2>1, ComingSame, FollowedMeanwhile DEF ImKeeps
<1>4. CASE Fail
  <2>0. UNCHANGED <<exp, imp>>
    BY <1>4 DEF Fail
  <2>1. ASSUME NEW p \in Process, Abort(p), UNCHANGED <<im, impQueue, lapses>> PROVE Followed'
    BY <1>0, <2>0, <2>1, ComingAbort, FollowedMeanwhile DEF ImKeeps
  <2>2. ASSUME lapses' = [lapses EXCEPT !.force = TRUE] PROVE Followed'
    BY <2>2, LapsesFields DEF Followed
  <2>3. ASSUME im.pc # "idle", im' = ImIdle, impQueue' = impQueue \cup {im.c},
               UNCHANGED <<run, expQueue, lapses>>
        PROVE  Followed'
    <3>1. LookupServiceExportForService' = LookupServiceExportForService /\ Wanted' = Wanted
      BY <2>0, WantedSame
    <3>2. \A c \in Cluster : Coming(c) => Coming(c)'
      BY <2>0, <2>3, ComingSame
    <3> QED BY <2>0, <2>3, <3>1, <3>2 DEF Followed, Follows, ImpExists
  <2> QED BY <1>4, <2>1, <2>2, <2>3 DEF Fail
<1>5. CASE Crash
  BY <1>5, FollowedRestart DEF Crash, AllQueued
<1>6. ASSUME NEW c \in Cluster, RemoveWorkerFinalizersFails(c) PROVE Followed'
  <2>1. /\ UNCHANGED <<exp, expQueue, run, imp>> /\ im.pc = "idle" /\ imp[c].state # "live"
        /\ impQueue' = impQueue \ {c} /\ lapses'.force = lapses.force
    BY <1>6, LapsesFields DEF RemoveWorkerFinalizersFails, TakeImport, reconcilers
  <2>2. LookupServiceExportForService' = LookupServiceExportForService /\ Wanted' = Wanted
    BY <2>1, WantedSame
  <2>3. \A x \in Cluster : Coming(x) => Coming(x)'
    BY <2>1, ComingSame
  <2> QED BY <2>1, <2>2, <2>3 DEF Followed, Follows
<1> QED BY <1>2, <1>3, <1>4, <1>5, <1>6, FollowedWorkers DEF Environment

LEMMA FollowedExport ==
  ASSUME Types, ExportInv, slice.exists, Followed, ExportStep PROVE Followed'
<1> USE Processes
<1>0. Pinned /\ Current
  BY DEF ExportInv
<1>1. ASSUME NEW e \in Export, ReconcileExportAbsent(e) PROVE Followed'
  <2>1. /\ UNCHANGED <<exp, lapses, run, imp, impQueue, im>> /\ ~ExpExists(e)
        /\ expQueue' = expQueue \ {e}
    BY <1>1 DEF ReconcileExportAbsent, reconcilers
  <2>2. \A c \in Cluster : Coming(c) => Coming(c)'
    BY <2>1 DEF Coming, ExpExists, me
  <2> QED BY <2>1, <2>2, FollowedMeanwhile DEF ImKeeps
<1>2. ASSUME NEW e \in Export, ReconcileExportLive(e) PROVE Followed'
  <2>0. exp[e] \in ExpType
    BY DEF Types, TypeOK
  <2> DEFINE r == [exp[e] EXCEPT !.fin = TRUE]
  <2>1. exp' = [exp EXCEPT ![e] = r]
    BY <1>2 DEF ReconcileExportLive
  <2>2. r.state = exp[e].state /\ r.labelled = exp[e].labelled /\ r.ver = exp[e].ver
    BY <2>0 DEF ExpType
  <2> HIDE DEF r
  <2>3. exp'[e] = r /\ \A x \in Export : x # e => exp'[x] = exp[x]
    BY <2>1, WrittenExp
  <2>4. LookupServiceExportForService' = LookupServiceExportForService /\ Wanted' = Wanted
    BY <2>2, <2>3, WantedSame
  <2>5. /\ UNCHANGED <<imp, impQueue, lapses>> /\ ImKeeps /\ run["export"].pc = "idle"
        /\ run'["export"].pc = "labels" /\ me' = e /\ \A x \in expQueue : x # e => x \in expQueue'
    BY <1>2, ExportRuns, ImSeesKeeps DEF ReconcileExportLive, TakeExport, At, me
  <2>6. ASSUME NEW c \in Cluster, Coming(c) PROVE Coming(c)'
    <3>1. PICK x \in expQueue : ExpExists(x) /\ exp[x].labelled
      BY <2>5, <2>6 DEF Coming
    <3>2. CASE x = e
      BY <2>2, <2>3, <2>5, <3>1, <3>2 DEF Coming, Reached, Early
    <3>3. CASE x # e
      BY <2>3, <2>5, <3>1, <3>3 DEF Coming, ExpExists, Types, TypeOK
    <3> QED BY <3>2, <3>3
  <2> QED BY <2>4, <2>5, <2>6, FollowedOn DEF ImpExists
<1>3. ASSUME NEW e \in Export, ReconcileExportDeleting(e) PROVE Followed'
  <2>1. /\ UNCHANGED <<exp, lapses, imp, impQueue, im>> /\ expQueue' = expQueue \ {e}
        /\ run["export"].pc = "idle" /\ run'["export"].pc \in {"listTouch", "listDelete"} /\ me' = e
    BY <1>3, ExportRuns DEF ReconcileExportDeleting, TakeExport, At, me
  <2>2. \A c \in Cluster : Coming(c) => Coming(c)'
    BY <2>1 DEF Coming, ExpExists, Reached, Early
  <2> QED BY <2>1, <2>2, FollowedMeanwhile DEF ImKeeps
<1>4. CASE ExportApplied
  <2>1. /\ UNCHANGED <<exp, lapses, imp, impQueue, im, expQueue>>
        /\ run["export"].pc = "apply" /\ run["export"].todo = {}
    BY <1>4 DEF ExportApplied, At
  <2>2. \A c \in Cluster : Coming(c) => Coming(c)'
    BY <2>1 DEF Coming, ExpExists, Reached, Early, Late
  <2> QED BY <2>1, <2>2, FollowedMeanwhile DEF ImKeeps
<1>5. CASE SliceMissing
  BY <1>5 DEF SliceMissing
<1>6. CASE LabelExport
  <2>1. CASE exp[me].labelled \/ (fresh /\ Admitted(me))
    <3>0. me \in Export /\ exp[me] \in ExpType
      BY <1>6 DEF LabelExport, At, Types, TypeOK, Placed
    <3> DEFINE r == [exp[me] EXCEPT !.labelled = TRUE]
    <3>1. exp' = [exp EXCEPT ![me] = r]
      BY <1>6, <2>1 DEF LabelExport, me
    <3>2. r.labelled = TRUE
      BY <3>0 DEF ExpType
    <3> HIDE DEF r
    <3>3. exp'[me].labelled = TRUE
      BY <3>0, <3>1, <3>2, WrittenExp
    <3>4. run'["export"].pc = "list" /\ me' = me
      BY <1>6, <2>1, ExportRuns DEF Moves, me
    <3>5. \A c \in Cluster : Coming(c)'
      BY <3>3, <3>4 DEF Coming, Reached, Early
    <3> QED BY <3>5 DEF Followed, Follows
  <2>2. CASE ~(exp[me].labelled \/ (fresh /\ Admitted(me)))
    <3>1. UNCHANGED <<exp, imp, impQueue, im, lapses>> /\ Abort("export")
      BY <1>6, <2>2 DEF LabelExport, me
    <3> QED BY <1>0, <3>1, ComingAbort, FollowedMeanwhile DEF ImKeeps
  <2> QED BY <2>1, <2>2
<1>7. CASE ListForDeletion
  <2>1. UNCHANGED <<exp, expQueue, imp, impQueue, im, lapses>>
    BY <1>7 DEF ListForDeletion
  <2>2. ASSUME NEW c \in Cluster, imp[c].state = "live", Coming(c) PROVE Coming(c)'
    <3> DEFINE pc == IF run["export"].pc = "listTouch" THEN "touch" ELSE "delete"
    <3>1. Moves("export", pc, run["export"].clusters, ListWorkerServiceImport)
      BY <1>7, ExportRuns
    <3>2. pc # "idle" /\ Reached(c, pc, run["export"].clusters, ListWorkerServiceImport)
      BY <2>2 DEF Reached, Late, ListWorkerServiceImport, ImpExists
    <3> HIDE DEF pc
    <3> QED BY <2>1, <2>2, <3>1, <3>2, ComingMoves
  <2> QED BY <2>1, <2>2, FollowedMeanwhile DEF ImKeeps
<1>8. ASSUME NEW c \in Cluster, TouchListed(c) PROVE Followed'
  <2>1. CASE c \in dirty
    BY <1>8, <2>1, LapsesFields DEF TouchListed, Followed
  <2>2. CASE c \notin dirty
    <3>1. /\ UNCHANGED <<exp, expQueue, lapses>> /\ im' = ImSeesImp(c) /\ WriteImp(c, imp[c])
          /\ run["export"].pc = "touch"
      BY <1>8, <2>2 DEF TouchListed, At
    <3>2. ASSUME NEW x \in Cluster, x # c, Coming(x) PROVE Coming(x)'
      <4>1. Moves("export", "touch", run["export"].clusters, run["export"].todo \ {c})
        BY <1>8, <2>2, ExportRuns
      <4>2. Reached(x, run["export"].pc, run["export"].clusters, run["export"].todo) =>
              Reached(x, "touch", run["export"].clusters, run["export"].todo \ {c})
        BY <3>1, <3>2 DEF Reached, Early, Late
      <4> QED BY <3>1, <3>2, <4>1, <4>2, ComingMoves
    <3> QED BY <3>1, <3>2, ImSeesKeeps, FollowedWrite
  <2> QED BY <2>1, <2>2
<1>9. CASE RemoveExportFinalizer
  <2>0. run["export"].pc \in {"touch", "delete"} /\ run["export"].todo = {} /\ me \in Export
    BY <1>9 DEF RemoveExportFinalizer, Types, Placed
  <2>1. CASE fresh /\ Admitted(me)
    <3>1. exp'[me] = NoExp /\ \A x \in Export : x # me => exp'[x] = exp[x]
      BY <1>9, <2>0, <2>1, WrittenExp DEF RemoveExportFinalizer, me
    <3>2. NoExp.state # "live" /\ exp[me].state = "deleting" /\ me \notin expQueue
      BY <1>0, <2>0, <2>1 DEF Pinned, Current, Removing, NoExp
    <3>3. LookupServiceExportForService' = LookupServiceExportForService /\ Wanted' = Wanted
      BY <3>1, <3>2, WantedSame
    <3>4. UNCHANGED <<imp, impQueue, lapses>> /\ ImKeeps /\ expQueue \subseteq expQueue'
      BY <1>9, <2>1, ImSeesKeeps DEF RemoveExportFinalizer, me
    <3>5. ASSUME NEW c \in Cluster, Coming(c) PROVE Coming(c)'
      <4>1. PICK x \in expQueue : ExpExists(x) /\ exp[x].labelled
        BY <2>0, <3>5 DEF Coming, Reached, Early, Late
      <4>2. x # me /\ x \in Export
        BY <3>2, <4>1 DEF Types, TypeOK
      <4> QED BY <3>1, <3>4, <4>1, <4>2 DEF Coming, ExpExists
    <3> QED BY <3>3, <3>4, <3>5, FollowedOn DEF ImpExists
  <2>2. CASE ~(fresh /\ Admitted(me))
    <3>1. UNCHANGED <<exp, imp, impQueue, im, lapses>> /\ Abort("export")
      BY <1>9, <2>2 DEF RemoveExportFinalizer, me
    <3> QED BY <1>0, <3>1, ComingAbort, FollowedMeanwhile DEF ImKeeps
  <2> QED BY <2>1, <2>2
<1>10. CASE CreateMinimal("export")
  BY <1>10, FollowedMinimal
<1> QED BY <1>1, <1>2, <1>3, <1>4, <1>5, <1>6, <1>7, <1>8, <1>9, <1>10 DEF ExportStep

LEMMA FollowedSlice ==
  ASSUME Types, ExportInv, Followed, SliceStep PROVE Followed'
<1> USE Processes
<1>1. CASE ReconcileSlice \/ ListExports \/ NextExport
  <2>1. run'["export"] = run["export"]
    BY <1>1, SliceRuns DEF Moves, Stops, Others
  <2>2. UNCHANGED <<exp, expQueue, lapses, imp, impQueue, im>>
    BY <1>1 DEF ReconcileSlice, ListExports, NextExport
  <2> QED BY <2>1, <2>2, ComingSame, FollowedMeanwhile DEF ImKeeps
<1> QED BY <1>1, FollowedMinimal DEF SliceStep

LEMMA FollowedImport ==
  ASSUME Types, Followed, ImportStep PROVE Followed'
<1>0. LookupServiceExportForService \subseteq Export
  BY DEF LookupServiceExportForService
<1>1. ASSUME UNCHANGED <<exp, expQueue, run>>
      PROVE  /\ LookupServiceExportForService' = LookupServiceExportForService /\ Wanted' = Wanted
             /\ \A c \in Cluster : Coming(c) => Coming(c)'
  BY <1>1, WantedSame, ComingSame
<1>2. ASSUME NEW c \in Cluster, ReconcileImportAbsent(c) PROVE Followed'
  <2>1. /\ UNCHANGED <<exp, expQueue, run, imp, im, lapses>> /\ imp[c].state # "live"
        /\ impQueue' = impQueue \ {c}
    BY <1>2 DEF ReconcileImportAbsent, ImpExists, reconcilers
  <2> QED BY <1>1, <2>1 DEF Followed, Follows
<1>3. ASSUME NEW c \in Cluster, ReconcileImportLive(c), LookupServiceExportForService # {} PROVE Followed'
  <2>0. UNCHANGED <<exp, expQueue, run, lapses>> /\ im.pc = "idle"
    BY <1>3 DEF ReconcileImportLive, TakeImport, reconcilers
  <2>1. im'.pc = "write" /\ im'.c = c /\ im'.read = Wanted
    BY <1>3 DEF ReconcileImportLive, ImIdle, Wanted
  <2>2. \A x \in Cluster : x # c => imp'[x] = imp[x] /\ (x \in impQueue => x \in impQueue')
    <3>1. CASE imp[c].fin
      BY <1>3, <3>1 DEF ReconcileImportLive
    <3>2. CASE ~imp[c].fin
      BY <1>3, <3>2, WrittenImp DEF ReconcileImportLive, WriteImp
    <3> QED BY <3>1, <3>2
  <2>3. ASSUME NEW x \in Cluster, imp'[x].state = "live", ~lapses.force PROVE Follows(x)'
    <3>1. CASE x = c
      BY <1>1, <2>0, <2>1, <3>1 DEF Follows
    <3>2. CASE x # c
      <4>1. Follows(x)
        BY <1>3, <2>2, <2>3, <3>2 DEF Followed
      <4> QED BY <1>1, <2>0, <2>2, <3>2, <4>1 DEF Follows
    <3> QED BY <3>1, <3>2
  <2> QED BY <2>0, <2>3 DEF Followed
<1>4. ASSUME NEW c \in Cluster, ReconcileImportLive(c), LookupServiceExportForService = {} PROVE Followed'
  <2>1. UNCHANGED <<exp, expQueue, run>>
    BY <1>4 DEF ReconcileImportLive, reconcilers
  <2> QED BY <1>1, <1>4, <2>1 DEF Followed
<1>5. CASE WriteSpec
  <2>0. UNCHANGED <<exp, expQueue, run, lapses>> /\ im.pc = "write" /\ im.c \in Cluster
    BY <1>5 DEF WriteSpec, reconcilers, Types, Placed
  <2>1. CASE im.fresh /\ im.read # imp[im.c].lists
    <3>1. PICK r : WriteImp(im.c, r)
      BY <1>5, <2>1 DEF WriteSpec
    <3>2. impQueue' = impQueue \cup {im.c} /\ \A x \in Cluster : x # im.c => imp'[x] = imp[x]
      BY <2>0, <3>1, WrittenImp DEF WriteImp
    <3> QED BY <1>1, <2>0, <3>2 DEF Followed, Follows
  <2>2. CASE im.fresh /\ im.read = imp[im.c].lists
    <3>1. UNCHANGED <<imp, impQueue>>
      BY <1>5, <2>2 DEF WriteSpec
    <3> QED BY <1>1, <2>0, <2>2, <3>1 DEF Followed, Follows
  <2>3. CASE ~im.fresh
    <3>1. UNCHANGED imp /\ impQueue' = impQueue \cup {im.c}
      BY <1>5, <2>3 DEF WriteSpec
    <3> QED BY <1>1, <2>0, <3>1 DEF Followed, Follows
  <2> QED BY <2>1, <2>2, <2>3
<1>6. ASSUME NEW c \in Cluster, ReconcileImportDeleting(c) PROVE Followed'
  <2>0. UNCHANGED <<exp, expQueue, run>> /\ im.pc = "idle" /\ WriteImp(c, NoImp) /\ lapses'.force = lapses.force
    BY <1>6, LapsesFields DEF ReconcileImportDeleting, TakeImport, reconcilers
  <2>1. impQueue' = impQueue \cup {c} /\ \A x \in Cluster : x # c => imp'[x] = imp[x]
    BY <2>0, WrittenImp DEF WriteImp
  <2> QED BY <1>1, <2>0, <2>1 DEF Followed, Follows
<1>7. CASE LookupForRecreation
  <2>0. UNCHANGED <<exp, expQueue, run, lapses, imp, impQueue>> /\ im.pc = "lookup"
    BY <1>7 DEF LookupForRecreation, reconcilers
  <2> QED BY <1>1, <2>0 DEF Followed, Follows
<1>8. CASE TouchExport
  <2>0. UNCHANGED <<exp, run, lapses, imp>> /\ im.pc = "recreate" /\ impQueue \subseteq impQueue'
        /\ expQueue \subseteq expQueue'
    BY <1>8 DEF TouchExport, WriteExp, reconcilers, Types, TypeOK, Placed
  <2>1. /\ LookupServiceExportForService' = LookupServiceExportForService /\ Wanted' = Wanted
        /\ \A c \in Cluster : Coming(c) => Coming(c)'
    BY <2>0, WantedSame, ComingSame
  <2> QED BY <2>0, <2>1 DEF Followed, Follows
<1> QED BY <1>2, <1>3, <1>4, <1>5, <1>6, <1>7, <1>8 DEF ImportStep

LEMMA SettledStep ==
  ASSUME SliceStays, Types, ExportInv, SettledInv, [Next]_vars PROVE SettledInv'
<1>1. slice.exists /\ Leave /\ LabelsComing /\ Followed
  BY DEF SettledInv
<1>2. slice'.exists
  BY <1>1, SliceThere
<1>3. Leave'
  BY <1>1, LeaveEnvironment, LeaveExport, LeaveRest DEF Next
<1>4. Followed'
  <2>1. CASE Resync
    BY <2>1, FollowedRestart DEF Resync, AllQueued
  <2>2. CASE UNCHANGED vars
    BY <1>1, <2>2, ComingSame, FollowedMeanwhile DEF vars, ImKeeps
  <2> QED BY <1>1, <2>1, <2>2, FollowedEnvironment, FollowedExport, FollowedSlice, FollowedImport DEF Next
<1> QED BY <1>1, <1>2, <1>3, <1>4, LabelsStep DEF SettledInv

LEMMA SettledInit == Init => SettledInv
<1> SUFFICES ASSUME Init PROVE SettledInv
  OBVIOUS
<1>1. \A c \in Cluster : imp[c].state # "live"
  BY DEF Init, NoImp
<1>2. LabelsComing
  BY DEF Init, NoExp, LabelsComing
<1>3. slice.exists
  BY DEF Init
<1> QED BY <1>1, <1>2, <1>3 DEF SettledInv, Leave, Followed

LEMMA SettledIsExact == Types /\ ExportInv /\ SettledInv => QuietIsExact
<1> SUFFICES ASSUME Types, ExportInv, SettledInv, Quiet, Live # {}, NEW c \in Cluster, ImpExists(c)
             PROVE  \/ imp[c].state = "deleting" /\ c \in lapses.finalizers
                    \/ /\ imp[c].state = "live"
                       /\ lapses.force \/ imp[c].lists = copySpec(Live)
                       /\ c \in lapses.late \/ c \in slice.clusters
  BY DEF QuietIsExact
<1>1. /\ ~sliceQueue /\ expQueue = {} /\ impQueue = {} /\ im.pc = "idle"
      /\ run["export"].pc = "idle" /\ run["slice"].pc = "idle"
  BY Processes DEF Quiet, At
<1>2. CASE imp[c].state = "deleting"
  BY <1>1, <1>2 DEF ExportInv, DeletionQueued
<1>3. CASE imp[c].state = "live"
  <2>1. Live = LookupServiceExportForService
    BY <1>1 DEF SettledInv, LabelsComing, Live, LookupServiceExportForService
  <2>2. lapses.force \/ Follows(c)
    BY <1>3, <2>1 DEF SettledInv, Followed
  <2>3. lapses.force \/ imp[c].lists = copySpec(Live)
    BY <1>1, <2>1, <2>2 DEF Follows, Coming, Wanted
  <2>4. ~Leaving(c)
    BY <1>1, <2>1 DEF Leaving, SliceRemoves, ExportRemoves, OnItsWay
  <2>5. c \in lapses.late \/ c \in slice.clusters
    BY <1>3, <2>4 DEF SettledInv, Leave
  <2> QED BY <1>3, <2>3, <2>5
<1>4. imp[c].state \in {"absent", "live", "deleting"}
  BY DEF Types, TypeOK, ImpType
<1> QED BY <1>2, <1>3, <1>4 DEF ImpExists

(* If the slice is not deleted, then whatever the workers do, however the  *)
(* clusters of the slice are edited, whatever imports users delete,        *)
(* whatever calls fail and however often the manager restarts: once the    *)
(* queues are empty, every import that is live lists exactly the live      *)
(* exports at their latest specs, unless a ForceReconciliation has failed, *)
(* and is of a cluster of the slice, unless a late reconcile wrote it; any *)
(* other is one whose finalizer Update has failed.                         *)
THEOREM QuietIsExactCorrect ==
  ASSUME SliceStays PROVE Spec => []QuietIsExact
<1>1. Init => Types /\ ExportInv /\ SettledInv
  BY TypeInit, ExportInvInit, SettledInit
<1>2. Types /\ ExportInv /\ SettledInv /\ [Next]_vars => (Types /\ ExportInv /\ SettledInv)'
  BY TypeStep, ExportInvStep, SettledStep
<1> QED BY <1>1, <1>2, SettledIsExact, PTL DEF Spec
-----------------------------------------------------------------------------
(* An import that somebody asked for when it was written last has an       *)
(* export whose finalizer will have it removed.                            *)
Guarded(e) == ExpExists(e) /\ exp[e].fin

AskedFor(c) == imp[c].state = "live" /\ c \notin lapses.late

Kept ==
  /\ (\E c \in Cluster : AskedFor(c)) => \E e \in Export : Guarded(e)
  /\ run["export"].pc \in {"listTouch", "touch"} => \E e \in Export : e # me /\ Guarded(e)
  /\ run["export"].pc = "delete" =>
       \A c \in Cluster : AskedFor(c) =>
         c \in run["export"].todo \/ \E e \in Export : e # me /\ Guarded(e)

(* No import comes to be asked for and the reconcile stays where it is, or *)
(* leaves the removal of imports.                                          *)
LEMMA KeptOn ==
  ASSUME Kept, \A e \in Export : Guarded(e) => Guarded(e)',
         \A c \in Cluster : AskedFor(c)' => AskedFor(c),
         \/ run'["export"] = run["export"]
         \/ run'["export"].pc \notin {"listTouch", "touch", "delete"}
  PROVE  Kept'
<1>1. CASE run'["export"] = run["export"]
  BY <1>1 DEF Kept, me
<1>2. CASE run'["export"].pc \notin {"listTouch", "touch", "delete"}
  BY <1>2 DEF Kept
<1> QED BY <1>1, <1>2

LEMMA GuardedSame ==
  ASSUME UNCHANGED exp PROVE \A e \in Export : Guarded(e) => Guarded(e)'
BY DEF Guarded, ExpExists

LEMMA KeptAbort ==
  ASSUME Types, Kept, UNCHANGED <<exp, imp, lapses>>, NEW p \in Process, Abort(p) PROVE Kept'
<1>1. run'["export"] = run["export"] \/ run'["export"].pc = "idle"
  BY EndedRuns, IdleFields, Processes DEF Abort, Stops, Others
<1> QED BY <1>1, KeptOn, GuardedSame DEF AskedFor

LEMMA KeptEnvironment ==
  ASSUME Types, ExportInv, Kept, Environment PROVE Kept'
<1> USE Processes
<1>1. ASSUME NEW e \in Export, CreateExport(e) \/ UpdateExport(e) \/ DeleteExport(e) PROVE Kept'
  <2>1. \A x \in Export : Guarded(x) => Guarded(x)'
    BY <1>1, WorkerEvent DEF Guarded, ExpExists
  <2> QED BY <1>1, <2>1, WorkerEvent, KeptOn DEF AskedFor
<1>2. ASSUME NEW c \in Cluster, ForceDelete(c) PROVE Kept'
  <2>1. UNCHANGED <<exp, run, lapses>> /\ DeleteImp(c)
    BY <1>2 DEF ForceDelete, reconcilers
  <2> QED BY <2>1, DeletedImp, GuardedSame, KeptOn DEF AskedFor
<1>3. CASE DeleteSlice \/ \E l \in Lists : UpdateSlice(l) \/ CreateSlice(l)
  <2>1. UNCHANGED <<exp, imp, run, lapses>>
    BY <1>3 DEF UpdateSlice, CreateSlice, DeleteSlice, reconcilers
  <2> QED BY <2>1, GuardedSame, KeptOn DEF AskedFor
<1>4. CASE Fail
  <2>0. UNCHANGED <<exp, imp>> /\ lapses'.late = lapses.late
    BY <1>4, LapsesFields DEF Fail
  <2>1. ASSUME NEW p \in Process, Abort(p), UNCHANGED lapses PROVE Kept'
    BY <2>0, <2>1, KeptAbort
  <2>2. ASSUME Logged, run' = [run EXCEPT !["export"].pc = "touch", !["export"].todo = {}] PROVE Kept'
    <3>1. run'["export"].pc = "touch" /\ me' = me /\ run["export"].pc \in {"listTouch", "touch"}
      BY <2>2, ExportRuns DEF Moves, me, Logged, At
    <3> QED BY <2>0, <3>1, GuardedSame DEF Kept, AskedFor
  <2> QED BY <1>4, <2>0, <2>1, <2>2, KeptOn, GuardedSame DEF Fail, AskedFor
<1>5. CASE Crash
  <2>1. UNCHANGED <<exp, imp, lapses>> /\ run'["export"].pc = "idle"
    BY <1>5, IdleFields DEF Crash
  <2> QED BY <2>1, GuardedSame, KeptOn DEF AskedFor
<1>6. ASSUME NEW c \in Cluster, RemoveWorkerFinalizersFails(c) PROVE Kept'
  <2>1. UNCHANGED <<exp, imp, run>> /\ lapses'.late = lapses.late
    BY <1>6, LapsesFields DEF RemoveWorkerFinalizersFails, reconcilers
  <2> QED BY <2>1, GuardedSame, KeptOn DEF AskedFor
<1> QED BY <1>1, <1>2, <1>3, <1>4, <1>5, <1>6 DEF Environment

LEMMA KeptMinimal ==
  ASSUME Types, ExportInv, Kept, NEW p \in Process, CreateMinimal(p) PROVE Kept'
<1> USE Processes
<1>0. Pinned
  BY DEF ExportInv
<1>1. CASE ListRemoved(p) \/ StartApply(p)
  <2>1. UNCHANGED <<exp, imp, lapses>>
    BY <1>1 DEF ListRemoved, StartApply
  <2>2. run'["export"] = run["export"] \/ run'["export"].pc \in {"remove", "apply"}
    BY <1>1, CreateMinimalRuns DEF Moves, Others
  <2> QED BY <2>1, <2>2, KeptOn, GuardedSame DEF AskedFor
<1>2. ASSUME NEW c \in Cluster, DeleteListed(p, c) PROVE Kept'
  <2>1. CASE ImpExists(c)
    <3>1. /\ UNCHANGED <<exp, lapses>> /\ DeleteImp(c)
          /\ Moves(p, run[p].pc, run[p].clusters, run[p].todo \ {c})
      BY <1>2, <2>1, CreateMinimalRuns DEF DeleteListed
    <3>2. /\ run'["export"].pc = run["export"].pc /\ me' = me
          /\ \A x \in run["export"].todo : x # c => x \in run'["export"].todo
      BY <3>1 DEF Moves, Others, me
    <3>3. \A x \in Cluster : AskedFor(x)' => AskedFor(x) /\ x # c
      BY <3>1, DeletedImp DEF AskedFor
    <3> QED BY <3>1, <3>2, <3>3, GuardedSame DEF Kept
  <2>2. CASE ~ImpExists(c)
    BY <1>2, <2>2, KeptAbort DEF DeleteListed
  <2> QED BY <2>1, <2>2
<1>3. ASSUME NEW c \in Cluster, ApplyCluster(p, c) PROVE Kept'
  <2>1. /\ UNCHANGED exp /\ run[p].pc = "apply"
        /\ Moves(p, run[p].pc, run[p].clusters, run[p].todo \ {c})
        /\ lapses'.late = (IF Asked(c) THEN lapses.late \ {c} ELSE lapses.late \cup {c})
    BY <1>3, CreateMinimalRuns, LapsesFields DEF ApplyCluster, At
  <2>2. run'["export"] = run["export"] \/ run'["export"].pc = "apply"
    BY <2>1 DEF Moves, Others
  <2>3. \A x \in Cluster : x # c => imp'[x] = imp[x]
    BY <1>3, WrittenImp DEF ApplyCluster, WriteImp
  <2>4. CASE Asked(c)
    <3>1. PICK o \in LookupServiceExportForService : TRUE
      BY <2>4 DEF Asked
    <3>2. o \in Export /\ exp[o].state = "live" /\ Guarded(o)'
      BY <1>0, <2>1, <3>1 DEF LookupServiceExportForService, Pinned, Guarded, ExpExists
    <3>3. Removing => o # me
      BY <1>0, <3>2 DEF Pinned
    <3>4. run'["export"].pc \in {"listTouch", "touch", "delete"} => Removing /\ me' = me
      BY <2>2 DEF Removing, me
    <3> QED BY <3>2, <3>3, <3>4 DEF Kept
  <2>5. CASE ~Asked(c)
    <3>1. \A x \in Cluster : AskedFor(x)' => AskedFor(x)
      BY <2>1, <2>3, <2>5 DEF AskedFor
    <3> QED BY <2>1, <2>2, <3>1, KeptOn, GuardedSame
  <2> QED BY <2>4, <2>5
<1> QED BY <1>1, <1>2, <1>3 DEF CreateMinimal

LEMMA KeptExport ==
  ASSUME Types, ExportInv, Kept, ExportStep PROVE Kept'
<1> USE Processes
<1>0. Pinned
  BY DEF ExportInv
<1>1. ASSUME NEW e \in Export, ReconcileExportAbsent(e) PROVE Kept'
  BY <1>1, KeptOn, GuardedSame DEF ReconcileExportAbsent, AskedFor, reconcilers
<1>2. ASSUME NEW e \in Export, ReconcileExportLive(e) PROVE Kept'
  <2> DEFINE r == [exp[e] EXCEPT !.fin = TRUE]
  <2>1. exp' = [exp EXCEPT ![e] = r] /\ UNCHANGED <<imp, lapses>>
    BY <1>2 DEF ReconcileExportLive
  <2>2. r.state = exp[e].state /\ r.fin = TRUE
    BY DEF Types, TypeOK, ExpType
  <2> HIDE DEF r
  <2>3. \A x \in Export : Guarded(x) => Guarded(x)'
    BY <2>1, <2>2, WrittenExp DEF Guarded, ExpExists
  <2>4. run'["export"].pc = "labels"
    BY <1>2, ExportRuns
  <2> QED BY <2>1, <2>3, <2>4, KeptOn DEF AskedFor
<1>3. ASSUME NEW e \in Export, ReconcileExportDeleting(e) PROVE Kept'
  <2>1. UNCHANGED <<exp, imp, lapses>> /\ exp[e].state = "deleting"
    BY <1>3 DEF ReconcileExportDeleting
  <2>2. run'["export"].pc \in {"listTouch", "listDelete"} /\ me' = e
    BY <1>3, ExportRuns DEF me
  <2>3. CASE KeepsImports(e)
    <3>1. PICK o \in LookupServiceExportForService : TRUE
      BY <2>3 DEF KeepsImports
    <3>2. o \in Export /\ o # e /\ Guarded(o)
      BY <1>0, <2>1, <3>1 DEF LookupServiceExportForService, Guarded, ExpExists, Pinned
    <3>3. Guarded(o)'
      BY <2>1, <3>2, GuardedSame
    <3> QED BY <2>1, <2>2, <3>2, <3>3 DEF Kept, AskedFor
  <2>4. CASE ~KeepsImports(e)
    <3>1. run'["export"].pc = "listDelete"
      BY <1>3, <2>4, ExportRuns
    <3> QED BY <2>1, <3>1, KeptOn, GuardedSame DEF AskedFor
  <2> QED BY <2>3, <2>4
<1>4. CASE SliceMissing \/ ExportApplied
  <2>1. run'["export"].pc = "idle" /\ UNCHANGED <<exp, imp, lapses>>
    BY <1>4, EndedRuns, IdleFields DEF SliceMissing, ExportApplied, Stops
  <2> QED BY <2>1, KeptOn, GuardedSame DEF AskedFor
<1>5. CASE LabelExport
  <2>1. CASE exp[me].labelled \/ (fresh /\ Admitted(me))
    <3>0. me \in Export /\ exp[me] \in ExpType
      BY <1>5 DEF LabelExport, At, Types, TypeOK, Placed
    <3> DEFINE r == [exp[me] EXCEPT !.labelled = TRUE]
    <3>1. exp' = [exp EXCEPT ![me] = r] /\ UNCHANGED <<imp, lapses>>
      BY <1>5, <2>1 DEF LabelExport, me
    <3>2. r.state = exp[me].state /\ r.fin = exp[me].fin
      BY <3>0 DEF ExpType
    <3> HIDE DEF r
    <3>3. \A x \in Export : Guarded(x) => Guarded(x)'
      BY <3>0, <3>1, <3>2, WrittenExp DEF Guarded, ExpExists
    <3>4. run'["export"].pc = "list"
      BY <1>5, <2>1, ExportRuns DEF Moves
    <3> QED BY <3>1, <3>3, <3>4, KeptOn DEF AskedFor
  <2>2. CASE ~(exp[me].labelled \/ (fresh /\ Admitted(me)))
    BY <1>5, <2>2, KeptAbort DEF LabelExport, me
  <2> QED BY <2>1, <2>2
<1>6. CASE ListForDeletion
  <2>1. /\ UNCHANGED <<exp, imp, lapses>> /\ run["export"].pc \in {"listTouch", "listDelete"} /\ me' = me
        /\ run'["export"].pc = (IF run["export"].pc = "listTouch" THEN "touch" ELSE "delete")
        /\ run'["export"].todo = ListWorkerServiceImport
    BY <1>6, ExportRuns DEF ListForDeletion, Moves, me
  <2> QED BY <2>1, GuardedSame DEF Kept, AskedFor, ListWorkerServiceImport, ImpExists
<1>7. ASSUME NEW c \in Cluster, TouchListed(c) PROVE Kept'
  <2>1. UNCHANGED exp /\ run["export"].pc = "touch" /\ run'["export"].pc = "touch" /\ me' = me
    BY <1>7, ExportRuns DEF TouchListed, At, Moves, me
  <2>2. UNCHANGED imp /\ lapses'.late = lapses.late
    BY <1>7, LapsesFields DEF TouchListed, WriteImp, Types, TypeOK
  <2> QED BY <2>1, <2>2, GuardedSame DEF Kept, AskedFor
<1>8. CASE RemoveExportFinalizer
  <2>0. run["export"].pc \in {"touch", "delete"} /\ run["export"].todo = {} /\ me \in Export
    BY <1>8 DEF RemoveExportFinalizer, Types, Placed
  <2>1. CASE fresh /\ Admitted(me)
    <3>1. exp'[me] = NoExp /\ \A x \in Export : x # me => exp'[x] = exp[x]
      BY <1>8, <2>0, <2>1, WrittenExp DEF RemoveExportFinalizer, me
    <3>2. UNCHANGED <<imp, lapses>> /\ run'["export"].pc = "idle"
      BY <1>8, <2>1, EndedRuns, IdleFields DEF RemoveExportFinalizer, Stops, me
    <3>3. (\E c \in Cluster : AskedFor(c)) => \E e \in Export : e # me /\ Guarded(e)
      BY <2>0 DEF Kept
    <3> QED BY <3>1, <3>2, <3>3 DEF Kept, Guarded, ExpExists, AskedFor
  <2>2. CASE ~(fresh /\ Admitted(me))
    BY <1>8, <2>2, KeptAbort DEF RemoveExportFinalizer, me
  <2> QED BY <2>1, <2>2
<1>9. CASE CreateMinimal("export")
  BY <1>9, KeptMinimal
<1> QED BY <1>1, <1>2, <1>3, <1>4, <1>5, <1>6, <1>7, <1>8, <1>9 DEF ExportStep

LEMMA KeptImport ==
  ASSUME Types, Kept, ImportStep PROVE Kept'
<1>0. ASSUME UNCHANGED <<exp, run>>, lapses'.late = lapses.late, NEW c \in Cluster, NEW r, WriteImp(c, r),
             r.state = "live" => imp[c].state = "live"
      PROVE  Kept'
  BY <1>0, WrittenImp, GuardedSame, KeptOn DEF WriteImp, AskedFor
<1>1. ASSUME NEW c \in Cluster, ReconcileImportLive(c) PROVE Kept'
  <2>1. UNCHANGED <<exp, run, lapses>> /\ imp[c].state = "live"
    BY <1>1 DEF ReconcileImportLive, reconcilers
  <2>2. CASE imp[c].fin
    BY <1>1, <2>1, <2>2, GuardedSame, KeptOn DEF ReconcileImportLive, AskedFor
  <2>3. CASE ~imp[c].fin
    BY <1>0, <1>1, <2>1, <2>3 DEF ReconcileImportLive
  <2> QED BY <2>2, <2>3
<1>2. ASSUME NEW c \in Cluster, ReconcileImportDeleting(c) PROVE Kept'
  <2>1. /\ UNCHANGED <<exp, run>> /\ lapses'.late = lapses.late
        /\ WriteImp(c, NoImp) /\ NoImp.state # "live"
    BY <1>2, LapsesFields DEF ReconcileImportDeleting, reconcilers, NoImp
  <2> QED BY <1>0, <2>1
<1>3. CASE WriteSpec
  <2>0. UNCHANGED <<exp, run, lapses>> /\ im.c \in Cluster
    BY <1>3 DEF WriteSpec, reconcilers, Types, Placed
  <2>1. CASE im.fresh /\ im.read # imp[im.c].lists
    <3> DEFINE r == [imp[im.c] EXCEPT !.lists = im.read]
    <3>1. WriteImp(im.c, r)
      BY <1>3, <2>1 DEF WriteSpec
    <3>2. r.state = imp[im.c].state
      BY <2>0 DEF Types, TypeOK, ImpType
    <3> HIDE DEF r
    <3> QED BY <1>0, <2>0, <3>1, <3>2
  <2>2. CASE ~(im.fresh /\ im.read # imp[im.c].lists)
    BY <1>3, <2>0, <2>2, GuardedSame, KeptOn DEF WriteSpec, AskedFor
  <2> QED BY <2>1, <2>2
<1>4. CASE TouchExport
  <2>1. UNCHANGED <<exp, run, imp, lapses>>
    BY <1>4 DEF TouchExport, WriteExp, reconcilers, Types, TypeOK, Placed
  <2> QED BY <2>1, GuardedSame, KeptOn DEF AskedFor
<1>5. CASE LookupForRecreation \/ \E c \in Cluster : ReconcileImportAbsent(c)
  <2>1. UNCHANGED <<exp, run, imp, lapses>>
    BY <1>5 DEF LookupForRecreation, ReconcileImportAbsent, reconcilers
  <2> QED BY <2>1, GuardedSame, KeptOn DEF AskedFor
<1> QED BY <1>1, <1>2, <1>3, <1>4, <1>5 DEF ImportStep

LEMMA KeptStep ==
  ASSUME Types, ExportInv, Kept, [Next]_vars PROVE Kept'
<1> USE Processes
<1>1. CASE ReconcileSlice \/ ListExports \/ NextExport
  <2>1. run'["export"] = run["export"]
    BY <1>1, SliceRuns DEF Moves, Stops, Others
  <2>2. UNCHANGED <<exp, imp, lapses>>
    BY <1>1 DEF ReconcileSlice, ListExports, NextExport
  <2> QED BY <2>1, <2>2, GuardedSame, KeptOn DEF AskedFor
<1>2. CASE Resync \/ UNCHANGED vars
  <2>1. UNCHANGED <<exp, run, imp, lapses>>
    BY <1>2 DEF vars, Resync, reconcilers
  <2> QED BY <2>1, GuardedSame, KeptOn DEF AskedFor
<1> QED BY <1>1, <1>2, KeptEnvironment, KeptExport, KeptImport, KeptMinimal DEF Next, SliceStep

LEMMA KeptInit == Init => Kept
<1> SUFFICES ASSUME Init PROVE Kept
  OBVIOUS
<1>1. run["export"].pc = "idle"
  BY Processes, IdleFields DEF Init
<1>2. \A c \in Cluster : imp[c].state # "live"
  BY DEF Init, NoImp
<1> QED BY <1>1, <1>2 DEF Kept, AskedFor

(* "If no ServiceExportConfig are found: delete all service imports", for  *)
(* whatever the workers and users do, whatever calls fail and however      *)
(* often the manager restarts: when the last export is gone and nothing is *)
(* left to do, the imports that remain are those whose finalizer Update    *)
(* has failed and those that a late reconcile wrote again.                 *)
THEOREM NoOrphanImportsCorrect == Spec => []NoOrphanImports
<1>1. Init => Types /\ ExportInv /\ Kept
  BY TypeInit, ExportInvInit, KeptInit
<1>2. Types /\ ExportInv /\ Kept /\ [Next]_vars => (Types /\ ExportInv /\ Kept)'
  BY TypeStep, ExportInvStep, KeptStep
<1>3. Types /\ ExportInv /\ Kept => NoOrphanImports
  <2> SUFFICES ASSUME Types, ExportInv, Kept, Quiet, \A e \in Export : ~ExpExists(e), NEW c \in Cluster, ImpExists(c)
               PROVE  \/ imp[c].state = "deleting" /\ c \in lapses.finalizers
                      \/ imp[c].state = "live" /\ c \in lapses.late
    BY DEF NoOrphanImports
  <2>1. imp[c].state = "live" => c \in lapses.late
    BY DEF Kept, Guarded, AskedFor
  <2>2. imp[c].state = "deleting" => c \in lapses.finalizers
    BY DEF Quiet, ExportInv, DeletionQueued
  <2>3. imp[c].state \in {"absent", "live", "deleting"}
    BY DEF Types, TypeOK, ImpType
  <2> QED BY <2>1, <2>2, <2>3 DEF ImpExists
<1> QED BY <1>1, <1>2, <1>3, PTL DEF Spec
=============================================================================
