--------------------------- MODULE VpnKeyRotations ---------------------------
(***************************************************************************)
(* The VpnKeyRotation objects of several slices and the one reconciler     *)
(* that renews their certificates (service/vpn_key_rotation_service.go):   *)
(* when the certificates of a slice expire it starts a job for every       *)
(* gateway pair, looks at the jobs every half minute, and stamps the       *)
(* object with a new expiry time when they are over.  That jobs have been  *)
(* started is kept in one flag of the process, jobCreationInProgress, for  *)
(* all slices together.                                                    *)
(*                                                                         *)
(* Times are abstract: a rotation is new (no times set), valid or expired. *)
(* The gateway pairs of a slice are a fixed set.                           *)
(***************************************************************************)
EXTENDS Integers, FiniteSets

CONSTANTS
  Slice,         \* the slices with a network
  Pair,          \* the gateway pairs of each of them
  NoSlice,       \* no slice
  MaxEvents,     \* bound: edits of slices, expiry times that pass, jobs and API
                 \* calls that fail and restarts of the controller, all together
  MaxJobs        \* bound: unfinished jobs of one pair

ASSUME VpnAssumption ==
  /\ NoSlice \notin Slice /\ Pair # {}
  /\ MaxEvents \in Nat /\ MaxJobs \in Nat

VARIABLES
  live,        \* the SliceConfigs that exist
  rotation,    \* rotation[s]: the VpnKeyRotation object of s
  synced,      \* the slices whose object says what the slice says
  owned,       \* the slices whose object refers to the slice as its owner
  stamped,     \* the slices whose object has a time of creation
  jobs,        \* jobs[s][p]: how many certificate jobs are in which state
  renewed,     \* renewed[s]: if expired, the pairs with a certificate made since
  triggered,   \* the slices that have started their jobs and are not stamped yet
  jobFailed,   \* a job has failed for good
  abandoned,   \* a slice has been deleted or given more time in this state
  jobCreationInProgress,
  queue,       \* the keys in the work queue
  timers,      \* the keys with a delayed requeue
  pc, cur,     \* where the reconciler is, and for which slice
  todo,        \* the pairs it has still to start a job for
  fresh,       \* nobody has written the object since it was read
  events

objectVars == <<live, rotation, synced, owned, stamped>>
fateVars   == <<triggered, jobFailed, abandoned>>
ghostVars  == <<renewed, fateVars>>
localVars  == <<pc, cur, todo>>
vars == <<objectVars, jobs, ghostVars, jobCreationInProgress, queue, timers,
          localVars, fresh, events>>

JobState == {"waiting", "active", "done", "failed"}

NoJobs == [j \in JobState |-> 0]

Init ==
  /\ live = {} /\ synced = {} /\ owned = {} /\ stamped = {}
  /\ rotation = [s \in Slice |-> "absent"]
  /\ jobs = [s \in Slice |-> [p \in Pair |-> NoJobs]]
  /\ renewed = [s \in Slice |-> {}] /\ triggered = {} /\ jobFailed = FALSE /\ abandoned = FALSE
  /\ jobCreationInProgress = FALSE
  /\ queue = {} /\ timers = {}
  /\ pc = "idle" /\ cur = NoSlice /\ todo = {} /\ fresh = TRUE
  /\ events = 0
-----------------------------------------------------------------------------
Event == events < MaxEvents /\ events' = events + 1

(* A write to the object of s.                                             *)
Written(s) == queue' = queue \cup {s} /\ fresh' = (fresh /\ cur # s)

Unfinished(s, p) == jobs[s][p]["waiting"] + jobs[s][p]["active"]

(* The certificates of s are due for renewal from now on.                  *)
FallDue(s) ==
  /\ rotation' = [rotation EXCEPT ![s] = "expired"]
  /\ UNCHANGED ghostVars

(* The slice gives up the renewal it has started.                          *)
Abandon(s) ==
  /\ abandoned' = (abandoned \/ s \in triggered)
  /\ triggered' = triggered \ {s} /\ renewed' = [renewed EXCEPT ![s] = {}]
  /\ UNCHANGED jobFailed
-----------------------------------------------------------------------------
(* Users and the SliceConfig reconciler.                                   *)

(* A slice is created and its gateways with it: a first job for every pair *)
(* (SliceGateways has the details).                                        *)
CreateSliceConfig(s) ==
  /\ s \notin live /\ \A p \in Pair : Unfinished(s, p) < MaxJobs
  /\ live' = live \cup {s}
  /\ jobs' = [jobs EXCEPT ![s] = [p \in Pair |-> [jobs[s][p] EXCEPT !["waiting"] = @ + 1]]]
  /\ UNCHANGED <<rotation, synced, owned, stamped, ghostVars, jobCreationInProgress,
                 queue, timers, localVars, fresh, events>>

CreateMinimalVpnKeyRotationConfig(s) ==
  /\ s \in live /\ rotation[s] = "absent"
  /\ rotation' = [rotation EXCEPT ![s] = "new"]
  /\ Written(s)
  /\ UNCHANGED <<live, synced, owned, stamped, jobs, ghostVars, jobCreationInProgress,
                 timers, localVars, events>>

(* The clusters of the slice change: pair p is made anew, with its job, and *)
(* the new list is written into the object.                                *)
ReconcileClusters(s, p) ==
  /\ s \in live /\ rotation[s] # "absent" /\ Unfinished(s, p) < MaxJobs
  /\ jobs' = [jobs EXCEPT ![s][p]["waiting"] = @ + 1]
  /\ synced' = synced \ {s} /\ Event
  /\ Written(s)
  /\ UNCHANGED <<live, rotation, owned, stamped, ghostVars, jobCreationInProgress,
                 timers, localVars>>

(* Spec.RenewBefore is set: the webhook moves the expiry time to the past. *)
validateRenewNow(s) ==
  /\ s \in live /\ rotation[s] # "absent"
  /\ FallDue(s) /\ Event
  /\ Written(s)
  /\ UNCHANGED <<live, synced, owned, stamped, jobs, jobCreationInProgress, timers,
                 localVars>>

(* Spec.RotationInterval is changed: the webhook computes a new expiry     *)
(* time from the time of creation, earlier or later than now.  Without a   *)
(* time of creation it panics, and the change is refused.                  *)
validateRotationInterval(s) ==
  /\ s \in live \cap stamped
  /\ \/ FallDue(s)
     \/ /\ rotation' = [rotation EXCEPT ![s] = "valid"]
        /\ Abandon(s)
  /\ Event
  /\ Written(s)
  /\ UNCHANGED <<live, synced, owned, stamped, jobs, jobCreationInProgress, timers,
                 localVars>>

(* The slice is gone, its gateways too; Kubernetes collects the object if  *)
(* the slice owns it.  Jobs go on.                                         *)
DeleteSliceConfig(s) ==
  /\ s \in live
  /\ live' = live \ {s} /\ Event
  /\ IF s \in owned
     THEN /\ rotation' = [rotation EXCEPT ![s] = "absent"]
          /\ owned' = owned \ {s} /\ synced' = synced \ {s} /\ stamped' = stamped \ {s}
          /\ Written(s)
     ELSE UNCHANGED <<rotation, owned, synced, stamped, queue, fresh>>
  /\ Abandon(s)
  /\ UNCHANGED <<jobs, jobCreationInProgress, timers, localVars>>

Expire(s) ==
  /\ rotation[s] = "valid"
  /\ FallDue(s) /\ Event
  /\ UNCHANGED <<live, synced, owned, stamped, jobs, jobCreationInProgress, queue,
                 timers, localVars, fresh>>
-----------------------------------------------------------------------------
(* The jobs of the cluster: created, then taken up by Kubernetes (Active), *)
(* then over, and removed a day later.                                     *)

(* Nobody counts the finished ones.                                        *)
MoveJob(s, p, from, to) ==
  /\ jobs[s][p][from] > 0
  /\ jobs' = [jobs EXCEPT ![s][p][from] = @ - 1,
                         ![s][p][to] = IF to = "active" THEN @ + 1 ELSE 1]

JobStarts(s, p) ==
  /\ MoveJob(s, p, "waiting", "active")
  /\ UNCHANGED <<objectVars, ghostVars, jobCreationInProgress, queue, timers, localVars,
                 fresh, events>>

JobFinishes(s, p) ==
  /\ MoveJob(s, p, "active", "done")
  /\ renewed' = [renewed EXCEPT ![s] = IF rotation[s] = "expired" THEN @ \cup {p} ELSE @]
  /\ UNCHANGED <<objectVars, fateVars, jobCreationInProgress, queue, timers, localVars,
                 fresh, events>>

JobFails(s, p) ==
  /\ Event
  /\ MoveJob(s, p, "active", "failed") /\ jobFailed' = TRUE
  /\ UNCHANGED <<objectVars, renewed, triggered, abandoned, jobCreationInProgress, queue,
                 timers, localVars, fresh>>

(* TTLSecondsAfterFinished, a day, is longer than the half minute between  *)
(* two looks at the jobs.                                                  *)
JobExpires(s, p) ==
  /\ jobs[s][p]["done"] + jobs[s][p]["failed"] > 0
  /\ rotation[s] \in {"new", "expired"} => s \notin queue \cup timers \cup {cur}
  /\ jobs' = [jobs EXCEPT ![s][p]["done"] = 0, ![s][p]["failed"] = 0]
  /\ UNCHANGED <<objectVars, ghostVars, jobCreationInProgress, queue, timers, localVars,
                 fresh, events>>
-----------------------------------------------------------------------------
(* The reconciler: ReconcileVpnKeyRotation.                                *)

Idle == pc' = "idle" /\ cur' = NoSlice /\ todo' = {} /\ fresh' = TRUE

Begin(s, where) == pc' = where /\ cur' = s /\ fresh' = TRUE /\ queue' = queue \ {s}

ReconcileAbsent(s) ==
  /\ pc = "idle" /\ s \in queue /\ rotation[s] = "absent"
  /\ queue' = queue \ {s}
  /\ UNCHANGED <<objectVars, jobs, ghostVars, jobCreationInProgress, timers, localVars,
                 fresh, events>>

(* From here on the slice is found; otherwise the reconcile fails, and the *)
(* key stays in the queue.                                                 *)
Takes(s) == pc = "idle" /\ s \in queue /\ rotation[s] # "absent" /\ s \in live

(* Faulty variant: the owner is set on the object that was read, not on    *)
(* the copy that is written.                                               *)
ReconcileDeviationOwnerless(s) ==
  /\ Takes(s) /\ s \notin synced
  /\ synced' = synced \cup {s}
  /\ UNCHANGED <<live, rotation, owned, stamped, jobs, ghostVars, jobCreationInProgress,
                 queue, timers, localVars, fresh, events>>

(* Clusters, interval, gateway names and the owner are brought in line     *)
(* with the slice; the key is asked for again.                             *)
ReconcileDeviation(s) ==
  /\ Takes(s) /\ s \notin synced
  /\ synced' = synced \cup {s} /\ owned' = owned \cup {s}
  /\ UNCHANGED <<live, rotation, stamped, jobs, ghostVars, jobCreationInProgress, queue,
                 timers, localVars, fresh, events>>

(* Faulty variant: running jobs are not looked for.                        *)
verifyFinished(s) ==
  IF \A p \in Pair : jobs[s][p] = NoJobs THEN "JobNotCreated"
  ELSE IF \E p \in Pair : jobs[s][p]["failed"] > 0 THEN "JobStatusError"
  ELSE "JobStatusComplete"

verifyAllJobsAreCompleted(s) ==
  IF \A p \in Pair : jobs[s][p] = NoJobs THEN "JobNotCreated"
  ELSE IF \E p \in Pair : jobs[s][p]["failed"] > 0 THEN "JobStatusError"
  ELSE IF \E p \in Pair : jobs[s][p]["active"] > 0 THEN "JobStatusRunning"
  ELSE "JobStatusComplete"

(* The jobs of a new rotation, or of an expired one after jobs have been   *)
(* started for some slice, are looked at.                                  *)
ReconcileVerifies(s) ==
  /\ Takes(s) /\ s \in synced
  /\ rotation[s] = "new" \/ (rotation[s] = "expired" /\ jobCreationInProgress)
  /\ CASE verifyAllJobsAreCompleted(s) \in {"JobStatusRunning", "JobNotCreated"} ->
            /\ timers' = timers \cup {s} /\ queue' = queue \ {s}
            /\ UNCHANGED <<pc, cur, fresh>>
       [] verifyAllJobsAreCompleted(s) = "JobStatusError" ->
            /\ queue' = queue \ {s}
            /\ UNCHANGED <<timers, pc, cur, fresh>>
       [] OTHER -> Begin(s, "stamp") /\ UNCHANGED timers
  /\ UNCHANGED <<objectVars, jobs, ghostVars, jobCreationInProgress, todo, events>>

ReconcileTriggers(s) ==
  /\ Takes(s) /\ s \in synced
  /\ rotation[s] = "expired" /\ ~jobCreationInProgress
  /\ Begin(s, "trigger") /\ todo' = Pair
  /\ triggered' = triggered \cup {s}
  /\ UNCHANGED <<objectVars, jobs, renewed, jobFailed, abandoned, jobCreationInProgress,
                 timers, events>>

ReconcileValid(s) ==
  /\ Takes(s) /\ s \in synced /\ rotation[s] = "valid"
  /\ Begin(s, "requeue")
  /\ UNCHANGED <<objectVars, jobs, ghostVars, jobCreationInProgress, todo, timers,
                 events>>

(* The jobs of the current slice have not all been started.                *)
TriggerAborted == triggered' = IF pc = "trigger" THEN triggered \ {cur} ELSE triggered

(* triggerJobsForCertCreation: GenerateCerts for one pair; it fails when   *)
(* the slice has gone.                                                     *)
TriggerJob(p) ==
  /\ pc = "trigger" /\ p \in todo
  /\ IF cur \in live
     THEN /\ Unfinished(cur, p) < MaxJobs
          /\ jobs' = [jobs EXCEPT ![cur][p]["waiting"] = @ + 1]
          /\ todo' = todo \ {p}
          /\ UNCHANGED <<pc, cur, fresh, queue, triggered>>
     ELSE Idle /\ TriggerAborted /\ queue' = queue \cup {cur} /\ UNCHANGED jobs
  /\ UNCHANGED <<objectVars, renewed, jobFailed, abandoned, jobCreationInProgress,
                 timers, events>>

JobsTriggered ==
  /\ pc = "trigger" /\ todo = {}
  /\ jobCreationInProgress' = TRUE
  /\ timers' = timers \cup {cur}
  /\ Idle
  /\ UNCHANGED <<objectVars, jobs, ghostVars, queue, events>>

(* The new times are written, with the version that was read.  The flag is *)
(* only reset by a rotation, not by the first stamp.                       *)
StampWith(flag) ==
  /\ pc = "stamp"
  /\ IF fresh
     THEN /\ rotation' = [rotation EXCEPT ![cur] = "valid"] /\ stamped' = stamped \cup {cur}
          /\ jobCreationInProgress' = flag
          /\ triggered' = triggered \ {cur} /\ renewed' = [renewed EXCEPT ![cur] = {}]
          /\ timers' = timers \cup {cur}
     ELSE UNCHANGED <<rotation, stamped, jobCreationInProgress, triggered, renewed, timers>>
  /\ queue' = queue \cup {cur}
  /\ Idle
  /\ UNCHANGED <<live, synced, owned, jobs, jobFailed, abandoned, events>>

(* Faulty variant: the flag is never reset.                                *)
StampOnly == StampWith(jobCreationInProgress)

Stamp == StampWith(jobCreationInProgress /\ rotation[cur] = "new")

(* The time left is computed from the object that was read.  If it is over *)
(* by now, RequeueAfter is not positive and asks for nothing.              *)
Requeue ==
  /\ pc = "requeue"
  /\ timers' = IF fresh /\ rotation[cur] = "expired" THEN timers ELSE timers \cup {cur}
  /\ Idle
  /\ UNCHANGED <<objectVars, jobs, ghostVars, jobCreationInProgress, queue, events>>

ReconcileFails ==
  /\ pc # "idle"
  /\ Event
  /\ queue' = queue \cup {cur}
  /\ Idle /\ TriggerAborted
  /\ UNCHANGED <<objectVars, jobs, renewed, jobFailed, abandoned, jobCreationInProgress,
                 timers>>

(* A delayed requeue is due; that of a valid rotation is not yet.          *)
TimerFires(s) ==
  /\ s \in timers /\ rotation[s] # "valid"
  /\ timers' = timers \ {s} /\ queue' = queue \cup {s}
  /\ UNCHANGED <<objectVars, jobs, ghostVars, jobCreationInProgress, localVars, fresh,
                 events>>

(* Every ten hours the informer hands out every object, which matters for  *)
(* those that nothing else brings back.                                    *)
Resync(s) ==
  /\ rotation[s] # "absent" /\ s \notin queue \cup timers
  /\ queue' = queue \cup {s}
  /\ UNCHANGED <<objectVars, jobs, ghostVars, jobCreationInProgress, timers, localVars,
                 fresh, events>>

Crash ==
  /\ Event
  /\ jobCreationInProgress' = FALSE
  /\ queue' = {s \in Slice : rotation[s] # "absent"} /\ timers' = {}
  /\ Idle /\ TriggerAborted
  /\ UNCHANGED <<objectVars, jobs, renewed, jobFailed, abandoned>>

Start(s) ==
  \/ ReconcileAbsent(s) \/ ReconcileDeviation(s) \/ ReconcileVerifies(s)
  \/ ReconcileTriggers(s) \/ ReconcileValid(s)

Continue == JobsTriggered \/ Stamp \/ Requeue \/ \E p \in Pair : TriggerJob(p)

User(s) ==
  \/ CreateSliceConfig(s) \/ DeleteSliceConfig(s)
  \/ validateRenewNow(s) \/ validateRotationInterval(s)
  \/ \E p \in Pair : ReconcileClusters(s, p)

Job(s, p) == JobStarts(s, p) \/ JobFinishes(s, p)

Next ==
  \/ \E s \in Slice : \/ User(s) \/ CreateMinimalVpnKeyRotationConfig(s) \/ Expire(s)
                      \/ Start(s) \/ TimerFires(s) \/ Resync(s)
                      \/ \E p \in Pair : Job(s, p) \/ JobFails(s, p) \/ JobExpires(s, p)
  \/ Continue \/ ReconcileFails \/ Crash

Spec == Init /\ [][Next]_vars

(* The queue hands out its keys in turn, jobs run, time passes.            *)
FairSpec ==
  /\ Spec
  /\ WF_vars(Continue)
  /\ \A s \in Slice :
       /\ SF_vars(Start(s)) /\ WF_vars(TimerFires(s) \/ Resync(s))
       /\ \A p \in Pair : WF_vars(Job(s, p))
-----------------------------------------------------------------------------
(* Every variable has its type; a started reconcile is about a slice, and  *)
(* an object that has been reconciled has an owner.                        *)
TypeOK ==
  /\ live \subseteq Slice /\ synced \subseteq owned /\ owned \subseteq Slice
  /\ stamped \subseteq owned
  /\ rotation \in [Slice -> {"absent", "new", "valid", "expired"}]
  /\ jobs \in [Slice -> [Pair -> [JobState -> Nat]]]
  /\ renewed \in [Slice -> SUBSET Pair] /\ triggered \subseteq Slice
  /\ {jobFailed, abandoned} \subseteq BOOLEAN
  /\ jobCreationInProgress \in BOOLEAN
  /\ queue \subseteq Slice /\ timers \subseteq Slice
  /\ pc \in {"idle", "trigger", "stamp", "requeue"}
  /\ cur \in Slice \cup {NoSlice} /\ (pc # "idle" => cur \in Slice)
  /\ todo \subseteq Pair /\ fresh \in BOOLEAN
  /\ events \in Nat

(* Every gateway pair has a new certificate when the jobs of an expired    *)
(* rotation are found complete and it is going to be stamped, provided     *)
(* that the slice has started its own jobs since the expiry, that          *)
(* Kubernetes has taken them up by the time verifyAllJobsAreCompleted      *)
(* looks at them, and that none has failed: whatever other slices,         *)
(* restarts, failing calls and users have done to the flag in between.     *)
VerdictSound ==
  [][\A s \in Slice :
       /\ pc = "idle" /\ pc' = "stamp" /\ cur' = s /\ rotation[s] = "expired"
       /\ s \in triggered /\ ~jobFailed /\ \A p \in Pair : jobs[s][p]["waiting"] = 0
       => renewed[s] = Pair]_vars

(* An expired rotation is rotated, although all slices share one flag,     *)
(* unless a job has failed or a slice that had started its jobs was        *)
(* deleted or given more time before it was stamped: the flag then stays   *)
(* set and stops every slice until a restart.                              *)
Rotated(s) ==
  rotation[s] = "expired" ~>
    rotation[s] # "expired" \/ s \notin live \/ jobFailed \/ abandoned
=============================================================================
