------------------------ MODULE VpnKeyRotationsProofs ------------------------
(***************************************************************************)
(* The key rotations of any number of slices with any gateway pairs that   *)
(* share one jobCreationInProgress: types, and what the verdict of         *)
(* verifyAllJobsAreCompleted is worth.                                     *)
(***************************************************************************)
EXTENDS VpnKeyRotations, TLAPS

(* What is about to be stamped has an owner: a slice that goes writes its  *)
(* object, or leaves it alone if it does not own it.                       *)
StampsOwned == pc = "stamp" /\ fresh => cur \in owned

Types == TypeOK /\ StampsOwned

LEMMA TypeInit == Init => Types
<1> SUFFICES ASSUME Init PROVE Types
  OBVIOUS
<1>1. [s \in Slice |-> [p \in Pair |-> NoJobs]] \in [Slice -> [Pair -> [JobState -> Nat]]]
  BY DEF NoJobs
<1> QED BY <1>1 DEF Init, Types, TypeOK, StampsOwned

(* A job that moves on leaves counts behind.                               *)
LEMMA MoveType ==
  ASSUME TypeOK, NEW s \in Slice, NEW p \in Pair, NEW from \in JobState, NEW to \in JobState,
         MoveJob(s, p, from, to)
  PROVE  jobs' \in [Slice -> [Pair -> [JobState -> Nat]]]
<1>1. jobs[s][p][from] \in Nat /\ jobs[s][p][from] - 1 \in Nat
  BY DEF MoveJob, TypeOK
<1> QED BY <1>1 DEF MoveJob, TypeOK

(* A new job of one pair, or of every pair.                                *)
LEMMA AddType ==
  ASSUME TypeOK, NEW s \in Slice
  PROVE  /\ \A p \in Pair : [jobs EXCEPT ![s][p]["waiting"] = @ + 1]
                              \in [Slice -> [Pair -> [JobState -> Nat]]]
         /\ [jobs EXCEPT ![s] = [p \in Pair |-> [jobs[s][p] EXCEPT !["waiting"] = @ + 1]]]
              \in [Slice -> [Pair -> [JobState -> Nat]]]
<1> DEFINE more(p) == [jobs[s][p] EXCEPT !["waiting"] = @ + 1]
<1>1. \A p \in Pair : jobs[s][p] \in [JobState -> Nat]
  BY DEF TypeOK
<1>2. ASSUME NEW p \in Pair PROVE more(p) \in [JobState -> Nat]
  BY <1>1 DEF JobState
<1>3. jobs \in [Slice -> [Pair -> [JobState -> Nat]]]
  BY DEF TypeOK
<1>4. ASSUME NEW p \in Pair
      PROVE  [jobs EXCEPT ![s][p]["waiting"] = @ + 1]
               \in [Slice -> [Pair -> [JobState -> Nat]]]
  <2>1. [jobs EXCEPT ![s][p]["waiting"] = @ + 1] = [jobs EXCEPT ![s][p] = more(p)]
    OBVIOUS
  <2> QED BY ONLY <2>1, <1>2, <1>3
<1>5. [jobs EXCEPT ![s] = [p \in Pair |-> [jobs[s][p] EXCEPT !["waiting"] = @ + 1]]]
        \in [Slice -> [Pair -> [JobState -> Nat]]]
  <2>1. [p \in Pair |-> more(p)] \in [Pair -> [JobState -> Nat]]
    BY <1>2
  <2> QED BY ONLY <2>1, <1>3
<1> QED BY <1>4, <1>5

LEMMA StartType ==
  ASSUME Types, NEW s \in Slice, Start(s) PROVE Types'
<1> USE DEF Types, TypeOK, StampsOwned, objectVars, ghostVars, fateVars, localVars
<1>1. CASE ReconcileAbsent(s)
  BY <1>1 DEF ReconcileAbsent
<1>2. CASE ReconcileDeviation(s)
  BY <1>2 DEF ReconcileDeviation, Takes
<1>3. CASE ReconcileVerifies(s)
  BY <1>3 DEF ReconcileVerifies, Takes, Begin
<1>4. CASE ReconcileTriggers(s)
  BY <1>4 DEF ReconcileTriggers, Takes, Begin
<1>5. CASE ReconcileValid(s)
  BY <1>5 DEF ReconcileValid, Takes, Begin
<1> QED BY <1>1, <1>2, <1>3, <1>4, <1>5 DEF Start

LEMMA ContinueType ==
  ASSUME Types, Continue \/ ReconcileFails \/ Crash PROVE Types'
<1> USE DEF Types, TypeOK, StampsOwned, objectVars, ghostVars, fateVars, localVars, Idle
<1>1. ASSUME NEW p \in Pair, TriggerJob(p) PROVE Types'
  <2>1. cur \in Slice
    BY <1>1 DEF TriggerJob
  <2>2. jobs' \in [Slice -> [Pair -> [JobState -> Nat]]]
    <3> HIDE DEF TypeOK, Idle
    <3>1. jobs \in [Slice -> [Pair -> [JobState -> Nat]]]
      BY DEF TypeOK
    <3>2. [jobs EXCEPT ![cur][p]["waiting"] = @ + 1] \in [Slice -> [Pair -> [JobState -> Nat]]]
      BY <2>1, AddType
    <3>3. jobs' = jobs \/ jobs' = [jobs EXCEPT ![cur][p]["waiting"] = @ + 1]
      BY <1>1 DEF TriggerJob
    <3> QED BY ONLY <3>1, <3>2, <3>3
  <2> QED BY <1>1, <2>1, <2>2 DEF TriggerJob, TriggerAborted
<1>2. CASE JobsTriggered
  BY <1>2 DEF JobsTriggered
<1>3. CASE Stamp
  BY <1>3 DEF Stamp, StampWith
<1>4. CASE Requeue
  BY <1>4 DEF Requeue
<1>5. CASE ReconcileFails
  <2>1. cur \in Slice /\ events' \in Nat
    BY <1>5 DEF ReconcileFails, Event
  <2> QED BY <1>5, <2>1 DEF ReconcileFails, TriggerAborted
<1>6. CASE Crash
  <2>1. events' \in Nat /\ queue' \subseteq Slice /\ triggered' \subseteq Slice
    BY <1>6 DEF Crash, TriggerAborted, Event
  <2> QED BY <1>6, <2>1 DEF Crash
<1> QED BY <1>1, <1>2, <1>3, <1>4, <1>5, <1>6 DEF Continue

LEMMA UserType ==
  ASSUME Types, NEW s \in Slice,
         User(s) \/ CreateMinimalVpnKeyRotationConfig(s) \/ Expire(s)
         \/ TimerFires(s) \/ Resync(s)
  PROVE  Types'
<1> USE DEF Types, TypeOK, StampsOwned, objectVars, ghostVars, fateVars, localVars,
            Written, Event, FallDue, Abandon
<1>1. CASE CreateSliceConfig(s)
  <2>1. jobs' \in [Slice -> [Pair -> [JobState -> Nat]]]
    BY <1>1, AddType DEF CreateSliceConfig
  <2> QED BY <1>1, <2>1 DEF CreateSliceConfig
<1>2. CASE DeleteSliceConfig(s)
  <2>a. events' \in Nat
    BY <1>2 DEF DeleteSliceConfig
  <2>b. fresh' \in BOOLEAN
    BY <1>2 DEF DeleteSliceConfig
  <2>c. abandoned' \in BOOLEAN
    BY <1>2 DEF DeleteSliceConfig
  <2>1. events' \in Nat /\ fresh' \in BOOLEAN /\ abandoned' \in BOOLEAN
    BY <2>a, <2>b, <2>c
  <2>2. CASE s \in owned
    BY <1>2, <2>1, <2>2 DEF DeleteSliceConfig
  <2>3. CASE s \notin owned
    BY <1>2, <2>1, <2>3 DEF DeleteSliceConfig
  <2> QED BY <2>2, <2>3
<1>3. CASE validateRenewNow(s)
  BY <1>3 DEF validateRenewNow
<1>4. CASE validateRotationInterval(s)
  <2>a. events' \in Nat
    BY <1>4 DEF validateRotationInterval
  <2>b. fresh' \in BOOLEAN
    BY <1>4 DEF validateRotationInterval
  <2>c. abandoned' \in BOOLEAN
    BY <1>4 DEF validateRotationInterval
  <2>1. events' \in Nat /\ fresh' \in BOOLEAN /\ abandoned' \in BOOLEAN
    BY <2>a, <2>b, <2>c
  <2>2. renewed' \in [Slice -> SUBSET Pair]
    BY <1>4 DEF validateRotationInterval
  <2> QED BY <1>4, <2>1, <2>2 DEF validateRotationInterval
<1>5. ASSUME NEW p \in Pair, ReconcileClusters(s, p) PROVE Types'
  <2>1. jobs' \in [Slice -> [Pair -> [JobState -> Nat]]]
    BY <1>5, AddType DEF ReconcileClusters
  <2> QED BY <1>5, <2>1 DEF ReconcileClusters
<1>6. CASE CreateMinimalVpnKeyRotationConfig(s)
  BY <1>6 DEF CreateMinimalVpnKeyRotationConfig
<1>7. CASE Expire(s)
  BY <1>7 DEF Expire
<1>8. CASE TimerFires(s) \/ Resync(s)
  BY <1>8 DEF TimerFires, Resync
<1> QED BY <1>1, <1>2, <1>3, <1>4, <1>5, <1>6, <1>7, <1>8 DEF User

LEMMA JobType ==
  ASSUME Types, NEW s \in Slice, NEW p \in Pair,
         Job(s, p) \/ JobFails(s, p) \/ JobExpires(s, p)
  PROVE  Types'
<1> USE DEF Types, TypeOK, StampsOwned, objectVars, ghostVars, fateVars, localVars
<1>1. CASE JobStarts(s, p)
  BY <1>1, MoveType DEF JobStarts, JobState
<1>2. CASE JobFinishes(s, p)
  BY <1>2, MoveType DEF JobFinishes, JobState
<1>3. CASE JobFails(s, p)
  BY <1>3, MoveType DEF JobFails, JobState, Event
<1>4. CASE JobExpires(s, p)
  <2>1. jobs' \in [Slice -> [Pair -> [JobState -> Nat]]]
    <3> HIDE DEF TypeOK
    <3>1. jobs \in [Slice -> [Pair -> [JobState -> Nat]]]
      BY DEF TypeOK
    <3>2. jobs' = [jobs EXCEPT ![s][p] = [@ EXCEPT !["done"] = 0, !["failed"] = 0]]
      BY <1>4, <3>1 DEF JobExpires
    <3> QED BY <3>1, <3>2
  <2> QED BY <1>4, <2>1 DEF JobExpires
<1> QED BY <1>1, <1>2, <1>3, <1>4 DEF Job

LEMMA TypeStep == Types /\ [Next]_vars => Types'
<1> SUFFICES ASSUME Types, [Next]_vars PROVE Types'
  OBVIOUS
<1>1. CASE Next
  BY <1>1, StartType, ContinueType, UserType, JobType DEF Next
<1>2. CASE UNCHANGED vars
  BY <1>2 DEF vars, Types, TypeOK, StampsOwned, objectVars, ghostVars, fateVars, localVars
<1> QED BY <1>1, <1>2

(* Every variable keeps its type, a reconcile under way is about a slice,  *)
(* and an object only gets a time of creation when it has an owner,        *)
(* whatever users, jobs, failing calls and restarts do meanwhile.          *)
THEOREM TypeCorrect == Spec => []TypeOK
<1>1. Types => TypeOK
  BY DEF Types
<1> QED BY <1>1, TypeInit, TypeStep, PTL DEF Spec
-----------------------------------------------------------------------------
(* The verdict.  A pair of a slice that has started its jobs and has not   *)
(* been stamped since has its new certificate, or a job that will make it, *)
(* or is one of those the reconciler is still starting jobs for.  A failed *)
(* job is the only thing that takes a pair out of this.                    *)
Covered(s, p) ==
  \/ p \in renewed[s]
  \/ jobs[s][p]["waiting"] > 0 \/ jobs[s][p]["active"] > 0
  \/ pc = "trigger" /\ cur = s /\ p \in todo

RenewInv ==
  /\ \A s \in triggered : rotation[s] = "expired"
  /\ ~jobFailed => \A s \in triggered, p \in Pair : Covered(s, p)

(* A step that leaves the renewals under way alone, or advances them.      *)
LEMMA RenewFrame ==
  ASSUME RenewInv, triggered' \subseteq triggered, ~jobFailed' => ~jobFailed,
         \A s \in triggered' : rotation'[s] = "expired",
         \A s \in triggered', p \in Pair : Covered(s, p) => Covered(s, p)'
  PROVE  RenewInv'
<1>1. \A s \in triggered' : s \in triggered
  OBVIOUS
<1>2. ASSUME ~jobFailed', NEW s \in triggered', NEW p \in Pair PROVE Covered(s, p)'
  BY <1>1, <1>2 DEF RenewInv
<1> QED BY <1>2 DEF RenewInv

LEMMA RenewStart ==
  ASSUME TypeOK, RenewInv, NEW s \in Slice, Start(s) PROVE RenewInv'
<1> USE DEF objectVars, ghostVars, fateVars, localVars
<1>1. CASE ReconcileTriggers(s)
  <2>1. /\ triggered' = triggered \cup {s} /\ rotation' = rotation /\ rotation[s] = "expired"
        /\ jobFailed' = jobFailed /\ renewed' = renewed /\ jobs' = jobs
        /\ pc = "idle" /\ pc' = "trigger" /\ cur' = s /\ todo' = Pair
    BY <1>1 DEF ReconcileTriggers, Takes, Begin
  <2> QED BY <2>1 DEF RenewInv, Covered
<1>2. CASE ~ReconcileTriggers(s)
  <2>1. /\ triggered' = triggered /\ rotation' = rotation /\ renewed' = renewed
        /\ jobFailed' = jobFailed /\ jobs' = jobs /\ pc = "idle"
    BY <1>2 DEF Start, ReconcileAbsent, ReconcileDeviation, ReconcileVerifies, ReconcileValid,
                Takes
  <2> QED BY <2>1 DEF RenewInv, Covered
<1> QED BY <1>1, <1>2

LEMMA RenewContinue ==
  ASSUME TypeOK, RenewInv, Continue \/ ReconcileFails \/ Crash PROVE RenewInv'
<1> USE DEF objectVars, ghostVars, fateVars, localVars, Idle
<1>1. ASSUME NEW p \in Pair, TriggerJob(p) PROVE RenewInv'
  <2>1. /\ rotation' = rotation /\ renewed' = renewed /\ jobFailed' = jobFailed
        /\ triggered' \subseteq triggered
    BY <1>1 DEF TriggerJob, TriggerAborted
  <2>2. CASE cur \in live
    <3>1. /\ jobs' = [jobs EXCEPT ![cur][p]["waiting"] = @ + 1]
          /\ todo' = todo \ {p} /\ pc' = pc /\ cur' = cur /\ cur \in Slice
      BY <1>1, <2>2 DEF TriggerJob, TypeOK
    <3>2. ASSUME NEW s \in triggered', NEW q \in Pair, Covered(s, q) PROVE Covered(s, q)'
      <4>1. s \in Slice /\ jobs \in [Slice -> [Pair -> [JobState -> Nat]]]
        BY <2>1 DEF TypeOK
      <4>2. CASE s = cur /\ q = p
        <5>1. jobs'[s][q]["waiting"] = jobs[s][q]["waiting"] + 1
          BY <3>1, <4>1, <4>2 DEF JobState
        <5>2. jobs[s][q]["waiting"] \in Nat
          BY <4>1 DEF JobState
        <5> QED BY <5>1, <5>2 DEF Covered
      <4>3. CASE ~(s = cur /\ q = p)
        <5>1. jobs'[s][q] = jobs[s][q]
          BY <3>1, <4>1, <4>3
        <5> QED BY <2>1, <3>1, <3>2, <4>3, <5>1 DEF Covered
      <4> QED BY <4>2, <4>3
    <3> QED BY <2>1, <3>2, RenewFrame DEF RenewInv
  <2>3. CASE cur \notin live
    <3>1. jobs' = jobs /\ cur \notin triggered'
      BY <1>1, <2>3 DEF TriggerJob, TriggerAborted
    <3> QED BY <2>1, <3>1, RenewFrame DEF RenewInv, Covered
  <2> QED BY <2>2, <2>3
<1>2. CASE JobsTriggered
  BY <1>2 DEF JobsTriggered, RenewInv, Covered
<1>3. CASE Stamp
  <2>1. /\ triggered' \subseteq triggered /\ jobFailed' = jobFailed /\ jobs' = jobs
        /\ pc = "stamp"
    BY <1>3 DEF Stamp, StampWith
  <2>2. \A s \in triggered' : rotation'[s] = rotation[s] /\ renewed'[s] = renewed[s]
    BY <1>3 DEF Stamp, StampWith, TypeOK
  <2> QED BY <2>1, <2>2, RenewFrame DEF RenewInv, Covered
<1>4. CASE Requeue
  BY <1>4 DEF Requeue, RenewInv, Covered
<1>5. CASE ReconcileFails \/ Crash
  <2>1. /\ rotation' = rotation /\ renewed' = renewed /\ jobFailed' = jobFailed /\ jobs' = jobs
        /\ triggered' \subseteq triggered /\ (pc = "trigger" => cur \notin triggered')
    BY <1>5 DEF ReconcileFails, Crash, TriggerAborted
  <2> QED BY <2>1, RenewFrame DEF RenewInv, Covered
<1> QED BY <1>1, <1>2, <1>3, <1>4, <1>5 DEF Continue

(* New jobs only add to what waits.                                        *)
LEMMA RenewAdd ==
  ASSUME TypeOK, RenewInv, UNCHANGED <<rotation, triggered, jobFailed, renewed, localVars>>,
         \A s \in Slice, p \in Pair :
           /\ jobs[s][p]["waiting"] > 0 => jobs'[s][p]["waiting"] > 0
           /\ jobs'[s][p]["active"] = jobs[s][p]["active"]
  PROVE  RenewInv'
<1>1. ASSUME NEW s \in triggered', NEW p \in Pair, Covered(s, p) PROVE Covered(s, p)'
  <2>1. s \in Slice
    BY DEF TypeOK
  <2> QED BY <1>1, <2>1 DEF Covered, localVars
<1>2. triggered' = triggered /\ rotation' = rotation /\ jobFailed' = jobFailed
  OBVIOUS
<1> QED BY <1>1, <1>2, RenewFrame DEF RenewInv

LEMMA RenewUser ==
  ASSUME TypeOK, RenewInv, NEW s \in Slice,
         User(s) \/ CreateMinimalVpnKeyRotationConfig(s) \/ Expire(s)
         \/ TimerFires(s) \/ Resync(s)
  PROVE  RenewInv'
<1> USE DEF objectVars, ghostVars, fateVars
<1> DEFINE Aside(t) == /\ jobs' = jobs /\ jobFailed' = jobFailed /\ UNCHANGED localVars
                       /\ triggered' \subseteq triggered
                       /\ rotation'[t] = rotation[t] /\ renewed'[t] = renewed[t]
<1>0. jobs \in [Slice -> [Pair -> [JobState -> Nat]]]
  BY DEF TypeOK
<1>1. CASE CreateSliceConfig(s)
  <2>1. jobs' = [jobs EXCEPT ![s] = [p \in Pair |-> [jobs[s][p] EXCEPT !["waiting"] = @ + 1]]]
    BY <1>1 DEF CreateSliceConfig
  <2>2. ASSUME NEW t \in Slice, NEW p \in Pair
        PROVE  /\ jobs[t][p]["waiting"] > 0 => jobs'[t][p]["waiting"] > 0
               /\ jobs'[t][p]["active"] = jobs[t][p]["active"]
    <3>1. jobs[t][p]["waiting"] \in Nat
      BY <1>0 DEF JobState
    <3>2. jobs'[t][p] = jobs[t][p] \/ jobs'[t][p] = [jobs[t][p] EXCEPT !["waiting"] = @ + 1]
      BY <1>0, <2>1
    <3>3. jobs[t][p] \in [JobState -> Nat]
      BY <1>0
    <3> QED BY <3>1, <3>2, <3>3 DEF JobState
  <2> QED BY <1>1, <2>2, RenewAdd DEF CreateSliceConfig
<1>2. ASSUME NEW q \in Pair, ReconcileClusters(s, q) PROVE RenewInv'
  <2>1. jobs' = [jobs EXCEPT ![s][q]["waiting"] = @ + 1]
    BY <1>2 DEF ReconcileClusters
  <2>2. ASSUME NEW t \in Slice, NEW p \in Pair
        PROVE  /\ jobs[t][p]["waiting"] > 0 => jobs'[t][p]["waiting"] > 0
               /\ jobs'[t][p]["active"] = jobs[t][p]["active"]
    <3>1. jobs[t][p]["waiting"] \in Nat
      BY <1>0 DEF JobState
    <3>2. jobs'[t][p] = jobs[t][p] \/ jobs'[t][p] = [jobs[t][p] EXCEPT !["waiting"] = @ + 1]
      BY <1>0, <2>1
    <3>3. jobs[t][p] \in [JobState -> Nat]
      BY <1>0
    <3> QED BY <3>1, <3>2, <3>3 DEF JobState
  <2> QED BY <1>2, <2>2, RenewAdd DEF ReconcileClusters
<1>3. CASE DeleteSliceConfig(s)
  <2>1. \A t \in triggered' : Aside(t)
    BY <1>3 DEF DeleteSliceConfig, Abandon, TypeOK
  <2>2. triggered' \subseteq triggered /\ jobFailed' = jobFailed
    BY <1>3 DEF DeleteSliceConfig, Abandon
  <2> QED BY <2>1, <2>2, RenewFrame DEF RenewInv, Covered, localVars
<1>4. CASE validateRenewNow(s) \/ Expire(s)
  BY <1>4 DEF validateRenewNow, Expire, FallDue, RenewInv, Covered, localVars, TypeOK
<1>5. CASE validateRotationInterval(s)
  <2>1. CASE FallDue(s)
    BY <1>5, <2>1 DEF validateRotationInterval, FallDue, RenewInv, Covered, localVars, TypeOK
  <2>2. CASE rotation' = [rotation EXCEPT ![s] = "valid"] /\ Abandon(s)
    <3>1. \A t \in triggered' : Aside(t)
      BY <1>5, <2>2 DEF validateRotationInterval, Abandon, TypeOK
    <3>2. triggered' \subseteq triggered /\ jobFailed' = jobFailed
      BY <2>2 DEF Abandon
    <3> QED BY <3>1, <3>2, RenewFrame DEF RenewInv, Covered, localVars
  <2> QED BY <1>5, <2>1, <2>2 DEF validateRotationInterval
<1>6. CASE CreateMinimalVpnKeyRotationConfig(s)
  <2>1. s \notin triggered
    BY <1>6 DEF CreateMinimalVpnKeyRotationConfig, RenewInv
  <2> QED BY <1>6, <2>1 DEF CreateMinimalVpnKeyRotationConfig, RenewInv, Covered, localVars,
                            TypeOK
<1>7. CASE TimerFires(s) \/ Resync(s)
  BY <1>7 DEF TimerFires, Resync, RenewInv, Covered, localVars
<1> QED BY <1>1, <1>2, <1>3, <1>4, <1>5, <1>6, <1>7 DEF User

(* Only the pair whose job moves on is touched.                            *)
LEMMA MoveElsewhere ==
  ASSUME TypeOK, NEW s \in Slice, NEW p \in Pair, NEW from \in JobState, NEW to \in JobState,
         from # to, MoveJob(s, p, from, to)
  PROVE  /\ \A t \in Slice, q \in Pair : ~(t = s /\ q = p) => jobs'[t][q] = jobs[t][q]
         /\ jobs'[s][p][to] > 0
<1>1. jobs \in [Slice -> [Pair -> [JobState -> Nat]]]
  BY DEF TypeOK
<1> DEFINE mid == [jobs EXCEPT ![s][p][from] = @ - 1]
           add == IF to = "active" THEN mid[s][p][to] + 1 ELSE 1
<1>2. jobs' = [mid EXCEPT ![s][p][to] = add]
  BY DEF MoveJob
<1>3. mid[s][p][to] = jobs[s][p][to] /\ jobs[s][p][to] \in Nat
  BY <1>1
<1>4. add > 0
  BY <1>3
<1>5. \A t \in Slice, q \in Pair : ~(t = s /\ q = p) => mid[t][q] = jobs[t][q]
  BY <1>1
<1>6. s \in DOMAIN mid /\ p \in DOMAIN mid[s] /\ to \in DOMAIN mid[s][p]
      /\ DOMAIN mid = Slice /\ \A t \in Slice : DOMAIN mid[t] = Pair
  BY <1>1
<1> HIDE DEF mid, add
<1> QED BY <1>2, <1>4, <1>5, <1>6

LEMMA RenewJob ==
  ASSUME TypeOK, RenewInv, NEW s \in Slice, NEW p \in Pair,
         Job(s, p) \/ JobFails(s, p) \/ JobExpires(s, p)
  PROVE  RenewInv'
<1> USE DEF objectVars, ghostVars, fateVars
<1>0. jobs \in [Slice -> [Pair -> [JobState -> Nat]]] /\ triggered \subseteq Slice
  BY DEF TypeOK
<1>1. CASE JobStarts(s, p)
  <2>1. ASSUME NEW t \in Slice, NEW q \in Pair
        PROVE  \/ jobs'[t][q] = jobs[t][q]
               \/ jobs'[t][q]["active"] > 0
    BY <1>1, MoveElsewhere DEF JobStarts, JobState
  <2> QED BY <1>0, <1>1, <2>1, RenewFrame DEF JobStarts, RenewInv, Covered, localVars
<1>2. CASE JobFinishes(s, p)
  <2>1. ASSUME NEW t \in triggered, NEW q \in Pair
        PROVE  /\ renewed[t] \subseteq renewed'[t]
               /\ jobs'[t][q] = jobs[t][q] \/ q \in renewed'[t]
    <3>2. t \in Slice /\ rotation[t] = "expired"
      BY <1>0 DEF RenewInv
    <3>3. renewed' = [renewed EXCEPT ![s] = IF rotation[s] = "expired" THEN @ \cup {p} ELSE @]
      BY <1>2 DEF JobFinishes
    <3>4. CASE t = s /\ q = p
      BY <3>2, <3>3, <3>4 DEF TypeOK
    <3>5. CASE ~(t = s /\ q = p)
      <4>1. jobs'[t][q] = jobs[t][q]
        BY <1>2, <3>2, <3>5, MoveElsewhere DEF JobFinishes, JobState
      <4> QED BY <3>2, <3>3, <4>1 DEF TypeOK
    <3> QED BY <3>4, <3>5
  <2>2. UNCHANGED <<triggered, jobFailed, rotation, localVars>>
    BY <1>2 DEF JobFinishes
  <2>3. ASSUME NEW t \in triggered', NEW q \in Pair, Covered(t, q) PROVE Covered(t, q)'
    BY <2>1, <2>2, <2>3 DEF Covered, localVars
  <2> QED BY <2>2, <2>3, RenewFrame DEF RenewInv
<1>3. CASE JobFails(s, p)
  BY <1>3 DEF JobFails, RenewInv
<1>4. CASE JobExpires(s, p)
  <2>1. \A t \in Slice, q \in Pair : /\ jobs'[t][q]["waiting"] = jobs[t][q]["waiting"]
                                     /\ jobs'[t][q]["active"] = jobs[t][q]["active"]
    BY <1>4, <1>0 DEF JobExpires, JobState
  <2> QED BY <1>4, <2>1, RenewAdd DEF JobExpires
<1> QED BY <1>1, <1>2, <1>3, <1>4 DEF Job

LEMMA RenewStep == TypeOK /\ RenewInv /\ [Next]_vars => RenewInv'
<1> SUFFICES ASSUME TypeOK, RenewInv, [Next]_vars PROVE RenewInv'
  OBVIOUS
<1>1. CASE Next
  BY <1>1, RenewStart, RenewContinue, RenewUser, RenewJob DEF Next
<1>2. CASE UNCHANGED vars
  BY <1>2 DEF vars, RenewInv, Covered, objectVars, ghostVars, fateVars, localVars
<1> QED BY <1>1, <1>2

(* Jobs that are found complete leave no pair of the slice uncovered.      *)
LEMMA VerdictStep ==
  ASSUME TypeOK, RenewInv, [Next]_vars, NEW s \in Slice,
         pc = "idle", pc' = "stamp", cur' = s, s \in triggered, ~jobFailed,
         \A p \in Pair : jobs[s][p]["waiting"] = 0
  PROVE  renewed[s] = Pair
<1>1. PICK t \in Slice : ReconcileVerifies(t)
  BY DEF Next, vars, objectVars, ghostVars, fateVars, localVars, User, Start, Continue, Job, Idle,
         Begin, CreateSliceConfig, DeleteSliceConfig, validateRenewNow,
         validateRotationInterval, ReconcileClusters, CreateMinimalVpnKeyRotationConfig,
         Expire, ReconcileAbsent, ReconcileDeviation, ReconcileTriggers, ReconcileValid,
         TimerFires, Resync, JobStarts, JobFinishes, JobFails, JobExpires, JobsTriggered,
         Stamp, StampWith, Requeue, TriggerJob, ReconcileFails, Crash
<1>2. cur' = t /\ verifyAllJobsAreCompleted(t) \notin {"JobStatusRunning", "JobNotCreated"}
      /\ verifyAllJobsAreCompleted(t) # "JobStatusError"
  BY <1>1 DEF ReconcileVerifies, Begin
<1>3. ~ \E p \in Pair : jobs[s][p]["active"] > 0
  BY <1>2 DEF verifyAllJobsAreCompleted
<1>4. \A p \in Pair : p \in renewed[s]
  BY <1>3 DEF RenewInv, Covered
<1> QED BY <1>4 DEF TypeOK

(* VerdictSound for any number of slices and gateway pairs: jobs found     *)
(* complete by verifyAllJobsAreCompleted have renewed every certificate of *)
(* a slice that has started its own jobs, although the flag that sends     *)
(* the reconciler to look at them belongs to all slices, is lost in a      *)
(* restart and is reset by the rotation of another slice.                  *)
THEOREM VerdictSoundCorrect == Spec => VerdictSound
<1>1. Init => RenewInv
  BY DEF Init, RenewInv
<1>2. TypeOK /\ RenewInv /\ [Next]_vars
      => [\A s \in Slice :
            /\ pc = "idle" /\ pc' = "stamp" /\ cur' = s /\ rotation[s] = "expired"
            /\ s \in triggered /\ ~jobFailed /\ \A p \in Pair : jobs[s][p]["waiting"] = 0
            => renewed[s] = Pair]_vars
  BY VerdictStep
<1> QED BY <1>1, <1>2, TypeCorrect, RenewStep, PTL DEF Spec, VerdictSound
=============================================================================
