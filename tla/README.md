# The KubeSlice controller in TLA+

The KubeSlice controller runs on a hub cluster. Users register worker clusters
and declare slices (`SliceConfig`: a list of clusters, an overlay mode, a
subnet). The controller derives the objects the worker operators act on
(`WorkerSliceConfig`, `WorkerSliceGateway`, secrets, ...) and keeps them in line
with the slices. All of its state is Kubernetes objects; all of its logic is
reconcilers: functions called with a key from a work queue, one at a time per
controller, but the controllers run side by side and write each other's objects.

Paths below are relative to `src/`.

## Inventory

| Component | State it keeps | Operations | Talks to |
|---|---|---|---|
| SliceConfig reconciler (`service/slice_config_service.go`) | the slice and its finalizer | add finalizer, clean up clusters that left, create or update worker slice configs, gateways, key rotation, service imports; on deletion remove them all, then its finalizer | every reconciler below; woken by them through a timestamp annotation on the slice |
| Worker slice configs (`service/worker_slice_config_service.go`) | one object per cluster: octet, copy of the slice's spec, finalizers | `CreateMinimalWorkerSliceConfig`, `cleanUpSlices`, `DeleteWorkerSliceConfigByLabel` (called by the slice reconciler); own reconciler: copy spec, let go on deletion, ask for re-creation | slice reconciler, worker operators (finalizer) |
| Address arithmetic (same file, `util/common.go`, `service/worker_slice_gateway_service.go`) | none | `ComputeClusterMap`, `FindCIDRByMaxClusters`, `GetClusterPrefixPool`, `BuildNetworkAddresses`, `calculateGatewayNumber` | used by both |
| Gateways (`service/worker_slice_gateway_service.go`) | two objects per pair of clusters: role, number, subnets | pair creation, `cleanupObsoleteGateways`, own reconciler: deletion together with the peer and the secrets | slice reconciler, certificate jobs |
| Certificate jobs, secrets (`service/job_service.go`, `service/secret_service.go`) | jobs, secrets | create job, delete secret | gateways, key rotation |
| VPN key rotation (`service/vpn_key_rotation_service.go`) | expiry and rotation count per slice; one process-wide flag | reconcile on expiry, start a job per gateway pair, stamp, requeue | slices, jobs, gateways |
| Service exports and imports (`service/service_export_config_service.go`, `service/worker_service_import_service.go`) | exports of each cluster, one import per service and cluster | aggregate, re-create, delete | slice reconciler |
| QoS profiles (`service/slice_qos_config_service.go`) | profile | propagate to worker slice configs | worker slice configs |
| Cluster registration, default slice (`service/cluster_service.go`, `service/default_slice_service.go`) | registration status, service account, default slice's list | register, deregister with a time-out, edit the default slice | slices |
| Projects, namespaces, access control (`service/project_service.go`, `service/namespace_service.go`, `service/access_control_service.go`) | namespace, roles, bindings, accounts | create, re-create, delete | clusters |
| Admission webhooks (`service/*_webhook_validation.go`) | none | accept or refuse a write | guard all of the above |
| Events, metrics, wiring, clean-up job | none that decides anything | | |

What is hard here:

- *interleavings*: the octets of a slice are computed from one listing and
  written object by object while the other reconciler, the worker operators
  and the user delete and write the same objects;
- *stale reads*: an object is read, other objects are read and written, and
  the first one is written back;
- *errors half way*: any call may fail; the key is queued again and the
  reconcile starts over from whatever was already done. Some errors are only
  logged, and then nothing starts over;
- *deletion in two steps*: an object with finalizers lingers, is still listed
  and still owns its octet, while its replacement is being created;
- *restarts*: queues and delayed requeues are lost, and every object is
  queued once;
- *waiting for others*: a cluster's deletion waits ten minutes for its worker, a
  namespace goes when the last object in it has gone;
- *boundaries*: octets from 0, powers of two in the division of the subnet,
  the largest number of clusters.

`PROJECT.json` lists these as hazards, each at its line.

For each component, what makes it correct: no two clusters of a slice share an
octet or a subnet, an octet never changes under a running cluster, subnets lie
in the slice's; a deleted slice leaves nothing behind; a deletion never hangs;
what was deleted by hand comes back; gateways come in matching pairs that follow
the slice; each rotation renews every certificate once; an import lists exactly
the exports of its service; a worker or user has the access the specs give, and
a cluster or project that is gone leaves none behind; and everything settles when the users stop.

## Modules

| Module | Models | Composes |
|---|---|---|
| `SliceIpam` | address arithmetic, as constant operators | |
| `OctetAllocator` | abstract: clusters hold octets, acquire free ones, release them | |
| `WorkerSliceConfigs` | one slice, its worker slice configs, the two reconcilers, the user behind the webhooks, worker operators, faults | `SliceIpam`; implements `OctetAllocator` |
| `SliceGateways` | the same with gateways, secrets, certificate jobs and the gateway reconciler | extends `WorkerSliceConfigs` |
| `VpnKeyRotations` | several slices with their key rotations, the certificate jobs and the reconciler with its process-wide flag | |
| `ServiceExports` | one service of one slice: exports, imports, the reconcilers of both and the slice reconcile's step 8 | |
| `Projects` | one project: namespace, roles, accounts, bindings, deletion of everything in it | |
| `ClusterRegistration` | the clusters of a project: accounts, deregistration, the default slice, another slice that takes namespaces from it | |
| `SliceIpamProofs`, `MCSliceIpamProofs`, `WorkerSliceConfigsProofs`, `SliceGatewaysProofs`, `VpnKeyRotationsProofs`, `ServiceExportsProofs`, `ProjectsProofs`, `ClusterRegistrationProofs` | theorems | each extends what it is about; `SliceGatewaysProofs` also `WorkerSliceConfigsProofs` |
| `MCSliceIpam`, `MCWorkerSliceConfigs`, `MCSliceGateways`, `MCVpnKeyRotations`, `MCServiceExports`, `MCProjects`, `MCClusterRegistration` | instances for TLC | |

### State and actions

`WorkerSliceConfigs`. The `SliceConfig` object is `slice` (phase, clusters,
mode, finalizer). A `WorkerSliceConfig` is spread over functions from clusters
(`state`, `octet`, `finalizers`, `expired`, `copied`), since a slice has at most
one per cluster. `copied[c]` stands for all the fields the reconciler copies from
the slice: TRUE when they are what the slice says now. `sliceQueue`, `wscQueue`
and `timers` are the work queues and delayed requeues; a watch event is the
addition of a key by the action that writes the object. Each reconciler has a
program counter and the local variables of its function (`pc`, `spec`, `todo`,
`clusterMap`, `index`, `lastCreated`; `wpc`, `cur`, `read`, `fresh`, `got`).

One step is one API call that matters and the computation up to the next one.
`Get` directly followed by `Update` is one step: the update carries the
resourceVersion, so one that meets a changed object is refused and the key tried
again, which is the step not taken. Where something happens between the two the
steps are separate and the conflict is explicit (`fresh` in `CopySpec`, `stale`
in `TouchSlice`). The Get of the slice in a WorkerSliceConfig's reconcile comes some
time between the read of the object and its Update, and nothing ties it to
either: `got` collects what it may have found meanwhile (`Overtaken`), so that
`CopySpec` may write a spec the slice no longer has.

| Action | Code |
|---|---|
| `CreateSliceConfig`, `UpdateSliceConfig`, `DeleteSliceConfig` | the user, guarded by `slice_config_webhook_validation.go` |
| `ReconcileLive`, `CleanUpSlices`, `PlanOctets`, `ApplyCluster`, `WscsApplied`, `ReconcileDone` | `ReconcileSliceConfig` of a live slice, `cleanUpSlices`, `CreateMinimalWorkerSliceConfig` and its no-network twin |
| `ReconcileDeleting`, `ListForDeletion`, `DeleteWorkerSliceConfig`, `RemoveSliceFinalizer` | `cleanUpSliceConfigResources` and `RemoveFinalizer` |
| `ReconcileWscLive`, `CopySpec` | `ReconcileWorkerSliceConfig` of a live object |
| `ReconcileWscWaits`, `RemoveWorkerFinalizers`, `RemoveWorkerFinalizersFails`, `RecreateForced` | the same of one being deleted, with `service_helper.go` |
| `ForceDelete`, `WorkerAdopts`, `WorkerReleases` | a user with kubectl; the worker operator |
| `ReconcileFails`, `ReconcileWscFails`, `Crash` | an API call fails; the process restarts |

A Go panic in `ComputeClusterMap` (the list of unused indexes is too short while
replaced objects linger) is recovered by controller-runtime and is an error like
any other: the first disjunct of `PlanOctets`.

`SliceGateways` adds `gw`, `secret`, `gwQueue` and the state of the gateway part
of the slice reconcile (`gwpc`, `gtodo`, `at`) and of the gateway reconciler
(`gpc`, `gcur`, `stale`). `ListObsoleteGateways` keeps a detail that matters:
`CreateMinimalWorkerSliceConfig` writes the label of the object it creates into
the map its caller passes on to `cleanupObsoleteGateways`, whose listing is then
narrowed (`MatchesLabels`).

`VpnKeyRotations` has several slices, because they share `jobCreationInProgress`.
The object of a slice is its `rotation` (absent, new, valid, expired; dates are
left out), whether it is in line with the slice (`synced`), owned by it and ever
stamped; the jobs of a pair are counted by state. `renewed`, `triggered`,
`jobFailed` and `abandoned` record history for the properties and guide nothing.

| Action | Code |
|---|---|
| `CreateMinimalVpnKeyRotationConfig`, `ReconcileClusters` | steps 6 and 7 of `ReconcileSliceConfig` |
| `validateRenewNow`, `validateRotationInterval` | the SliceConfig webhook, which writes the expiry time itself |
| `ReconcileAbsent`, `ReconcileDeviation` | `ReconcileVpnKeyRotation` up to its first update |
| `ReconcileTriggers`, `TriggerJob`, `JobsTriggered` | an expired rotation, flag not set: `triggerJobsForCertCreation` |
| `ReconcileVerifies`, `Stamp` | `verifyAllJobsAreCompleted` and the update with new times |
| `ReconcileValid`, `Requeue` | the delayed requeue until the expiry |
| `JobStarts`, `JobFinishes`, `JobFails`, `JobExpires`, `TimerFires`, `Resync`, `Expire`, `Crash` | Kubernetes, controller-runtime, the clock |

`ServiceExports`. Objects are `exp[e]` and `imp[c]`; an endpoint list is a set of
pairs of an export and the version of its spec, so that a missing, additional or
outdated endpoint shows. `run` holds the slice's and the exports' reconcile, which
share `CreateMinimalWorkerServiceImport` (`ListRemoved`, `DeleteListed`,
`StartApply`, `ApplyCluster`); `im` is the imports' reconcile. `fresh`, `dirty`
and `im.fresh` say whether an object was written since it was read, which makes
the write after it a conflict. `Admitted` is the webhook, which judges the
controller's own updates like those of the workers. `lapses` names what goes wrong
without anybody being told: an error of `ForceReconciliation` (`force`), a failing
Update in `RemoveWorkerFinalizers` (`finalizers`), and an import written on
grounds that were outdated by then (`late`).

| Action | Code |
|---|---|
| `ReconcileExportAbsent`, `ReconcileExportLive`, `LabelExport`, `SliceMissing`, `ExportApplied` | `ReconcileServiceExportConfig` of a live export |
| `ReconcileExportDeleting`, `ListForDeletion`, `DeleteListed`, `TouchListed`, `RemoveExportFinalizer` | the same of one being deleted: all imports go, or all are touched |
| `ReconcileSlice`, `ListExports`, `NextExport` | step 8 of `ReconcileSliceConfig` |
| `ReconcileImportLive`, `WriteSpec` | `ReconcileWorkerServiceImport` of a live import |
| `ReconcileImportDeleting`, `RemoveWorkerFinalizersFails`, `LookupForRecreation`, `TouchExport` | the same of one that was deleted, with `service_helper.go` |
| `CreateExport`, `UpdateExport`, `DeleteExport`, `ForceDelete`, `UpdateSlice`, `DeleteSlice`, `CreateSlice`, `Fail`, `Crash`, `Resync` | workers and users behind the webhooks; faults |

`Projects`. An account is a pair of access type and user, as its name is in the
code; `sa`, `secret` and `rb` are the accounts that have each object. `content`
abstracts what is in the namespace to whether there is an export, slice, cluster
or profile, live or being deleted. The steps of `ReconcileProject` are the
values of `pc`; steps 5 and 6 are the loops `ListObsolete`, `DeleteObsolete`,
`CreateServiceAccount`, `CreateSecret`, `CreateOrUpdateRoleBinding`, for one
access type (`access`) after the other. `DeleteServiceExportConfigs` to
`DeleteNamespace` and `RemoveProjectFinalizer` are `CleanUpProjectResources` and
what follows. `TerminateContent`, `TerminateAccess` and `NamespaceGone` are the
namespace controller of Kubernetes. `foreign` are accounts made by hand
(`EditAccount`), `onboarded` says that the slice has namespaces of the workers
(`OnboardNamespaces`). `ReconcileLive`, `ReplaceLabels` and
`RemoveProjectFinalizer` go through `validateServiceAccount`: the webhook refuses
the controller's updates, too, while the spec clashes with a foreign account.

`ClusterRegistration`. `cluster[c]` has the two finalizers apart (`fin` of the
controller, `dereg` of the worker), the registration status and whether the
secret is named there; `reported` is what the worker says of its namespaces. The
reconcile goes from `ReconcileLive` over `CreateAccount`, `CreateSecret`,
`CreateBinding`, `SetSecretName` to `DefaultSliceOperations`, or from
`ReconcileDeleting` over `WaitForWorker` or `RemoveBinding`, `RemoveAccount`,
`RemoveClusterFinalizer`. `ReadSlice` and `HandleDefaultSliceConfigAppns` are the
part of another slice's reconcile that takes namespaces out of the default slice;
`CreateMinimalWorkerSliceConfig` comes after it and makes the worker objects
(`placed`) for which `ValidateClusterDelete` looks.
`TenMinutes` and `Timer` are the clock, the actions named `Worker...` the worker
operator, `TokenController` the Kubernetes one.

Names ending in `Blindly`, `Early`, `Stuck`, `Forgets`, ... under a comment
"Faulty variant" are not part of the model: each is the definition after it with
a plausible mistake, used to see that a property notices it.

## Runs

| Run | Checks | Instance | States, time |
|---|---|---|---|
| `ipam` | `SubnetsDisjoint`, `VpnNetworkMeets`, `AgreesWithLoop`, `MapInjective` | MaxClusters 2..32 (all the CRD admits), every octet; every list over 3 clusters, every set of objects with octets 0..3 | 3 k, 3 s |
| `wsc_safety` | `TypeOK`, `OctetsUnique`, `MapAgrees`, `OctetsBelowMax`, `NoOrphans`, `QuietIsSettled`, `OctetStable`, refinement `OctetAllocation` | 3 clusters, lists that grow, shrink, replace and reorder, both modes, 2 edits, 1 forced deletion, 1 error | 1.6 M, 100 s |
| `wsc_converges` | `DeletionScheduled`, `Converges`, `Recreated` | two lists that swap a cluster, a worker finalizer; 3 edits, 1 forced deletion, 1 restart, three of these together | 107 k, 50 s |
| `wsc_unscheduled` | `DeletionScheduled` (violated) | the same, with 1 error in place of the restart | 2 k, 1 s |
| `gw_safety` | `GTypeOK`, `QuietIsConnected`, `QuietIsClean` | 2 clusters, one joins and leaves, 3 edits | 2.0 M, 2 min |
| `gw_faults` | `NoGatewayOrphans`, `PairsAgree` | 2 clusters, 2 edits, one fault of any kind | 1.6 M, 2 min |
| `gw_converges` | `GatewaysConverge` | 2 clusters, 2 edits | 112 k, 95 s |
| `vpn_rotation` | `TypeOK`, `VerdictSound`, `SliceRotated` | 2 slices, 1 pair each, 2 events (edits, expiries, faults), 2 unfinished jobs a pair | 334 k, 2 min |
| `exports_safety` | `QuietIsExact`, `NoOrphanImports` | 2 clusters, a slice that shrinks and grows, 2 exports of different clusters, one there at the start, 2 events (new, changed or deleted export, edited slice, forced deletion, error), symmetric | 1.9 M, 90 s |
| `exports_settle` | `TypeOK`, `Settles` | 2 clusters, 1 export, whose cluster leaves the slice and returns, 2 events of any kind, deletion of the slice, restart and resync included | 466 k, 90 s |
| `projects` | `TypeOK`, `NamespaceFollows`, `QuietIsGranted`, `Deleted`, `Provisioned` | 2 users, 2 specs, 1 name that may be a foreign account's, onboarded namespaces, 6 events | 221 k, 45 s |
| `clusters` | `TypeOK`, `NoCredentialsLeft`, `QuietIsRegistered`, `Deregistered`, `Registered`, `NamespacesSettle` | 2 clusters, 1 namespace, 3 events | 150 k, 2 min |

Every run is expected to pass but `wsc_unscheduled`, whose counterexample shows the
first of the places where the code does not do what its comments or messages say.
The properties are stated, and the instances of the other runs chosen, around
these places; with them left in, the named property fails:

- `DeletionScheduled`: `RemoveWorkerFinalizers` logs a failing update and
  returns an empty result, although its comment (`service/service_helper.go:36`)
  promises a delayed requeue for an object that still has finalizers. The object keeps
  them and nothing will look at it again before something else writes it, or the informer
  resynchronises. `wsc_unscheduled` has such a failure, `wsc_converges` has no
  failing calls (`MaxErrors = 0`).
- `OctetsBelowMax`: the webhook does not count the clusters of a no-network
  slice, nor in the update that gives it a network
  (`service/slice_config_webhook_validation.go:114`). The octets then reach
  `MaxClusters`, and the subnets leave the slice's. `wsc_safety` has no list
  longer than `MaxClusters`; the theorem assumes it.
- `QuietIsClean`: when one edit replaces a cluster by another, the narrowed label
  map (`service/worker_slice_gateway_service.go:383`) hides the gateways of the
  cluster that left; they stay. In `gw_safety` a cluster joins or leaves.
- if creating the client gateway fails, each retry finds one gateway of two and
  tries to create the server first, which already exists
  (`service/worker_slice_gateway_service.go:516`): the pair is never completed.
  `gw_converges` has no failing calls.
- `PairsAgree`: if the process restarts between the creation of the server and of
  the client, and an edit then names the two clusters the other way round, the
  missing gateway is made as a server as well, and two servers count as a complete
  pair (same line). `gw_faults` has one list.
- `QuietIsSettled` and `QuietIsConnected` speak of systems without failed calls and
  without objects deleted by hand, `Converges` of systems without the latter: an object deleted before its controller has put
  its finalizer on it is gone at once, and nobody asks for another.

Met on the way, without a run of their own: the comment of `ComputeClusterMap`
says values "from 1 to n" where the code gives 0 to n-1, and the formula of
`calculateGatewayNumber`, which numbers pairs of values from 1 on, gives the
pairs (0,1) and (0,2) the same number. `VpnNetworkMeets` shows that the VPN
network lies inside the subnet of the last cluster when `MaxClusters` is a power
of two (the default is 16) and all octets are in use. If a slice is deleted and
created again while its gateways are going away, deleting an old secret can hit
the new one, and nothing orders it again: that is why `gw_converges` stops at
two edits. If `GenerateCerts` fails or the process restarts just before it, the
pair already exists and its certificates are never ordered. A worker that sets
its finalizer before the controller does can leave a cluster that is dropped and
added again without an object (`Converges` fails with `EagerWorkers` and three
edits).

About exports, three lapses are exceptions of `QuietIsExact` and `NoOrphanImports`,
each only for the imports it hit:

- the failing Update in `RemoveWorkerFinalizers`, as above. The import reconcile
  goes on as if the import were gone (`service/worker_service_import_service.go:88`)
  and ends without an error; the import stays, being deleted, even after the
  last export (`lapses.finalizers`);
- `ForceReconciliation` fails and the error is only logged: imports keep the endpoints
  of an export that is gone (`lapses.force`);
- a reconcile that has listed the exports, or read the slice's clusters, creates an
  import after that export or cluster has gone (`lapses.late`).

An import whose cluster belongs to the slice may be missing until
the next resynchronisation. This happens when the export that was to be written
for its re-creation is written or deleted at the same time, or when the import is
deleted before it got its finalizer; that is why `QuietIsExact` speaks of the
imports there are, and `Settles` assumes resyncs.

The webhook wants the source cluster of an export to be in its slice, and it is asked
about the controller's own updates, too. So an export whose cluster has left the slice
gets neither its labels (the exception in `Settles`) nor rid of its finalizer, and since
it is still found, the slice cannot be deleted either, until the cluster is back in
the slice.

About projects: an account whose secret could not be created has none for ever,
because it is skipped from then on (`service/access_control_service.go:439`), so
no property says that users have tokens. If the ConfigMap
`namespace-labels-config` has labels, step 1 adds them to the project and step 7
takes them away (`service/project_service.go:171`), and since both are writes
every reconcile puts the project into the queue again: it never rests. `Deleted`
and `Provisioned` hold in that case, too. The project webhook judges the controller's own
updates: a project whose names clash with an account that is not its own never gets its
finalizer or labels, and one that is being deleted keeps its finalizer until the other
account is gone; `Provisioned` excepts clashing specs. A slice with onboarded namespaces
refuses its deletion (`service/slice_config_webhook_validation.go:143`), and the project
waits with it: `Deleted` says that the project goes or the namespaces stay onboarded for
ever, and `Provisioned` excepts what they hold up (`HeldUp`). An account made by hand
counts as the user's while the reconcile passes over it; if it is then removed, the user
has none until the next reconcile, which `QuietIsGranted` allows for.

About clusters: three predicates name states the code does not get out of by
itself, and the liveness properties carry them as exceptions. `Keyless`: the account was
created and its secret was not, or the secret of a former account was still
there; every reconcile then ends with "could not find secret". `Poisoned`: a
cluster without namespaces in the default slice is not taken off its list when
it is deleted (`service/default_slice_service.go:275`), and the webhook refuses
every update of a slice that lists a cluster that is gone. `Wedged`: a slice that takes
a namespace in all clusters of an entry leaves the entry empty, which the webhook
refuses (`service/slice_config_service.go:365`). After a restart in the middle
of a deregistration nobody comes back but the resynchronisation, because the
status says that the delayed requeue is on its way.

About key rotation, `VerdictSound` and `SliceRotated` carry the exceptions the
code needs. A job that Kubernetes has not taken up yet looks complete, and a slice
that finds the flag set by another is judged by its older jobs, so a rotation can
be stamped without new certificates. A failed job, or a slice deleted or given a
longer interval between its jobs and its stamp, leaves the flag set, and slices
whose old jobs are gone then wait until the process restarts.

### Why the bounds are enough

Three clusters let one be added, dropped, replaced and moved while two others
stay; octets collide, if they do, among two. A slice needs a creation and one
change to show a mode transition, a replacement or a deletion; a third edit adds
a cluster back that is still leaving, or re-creates the slice. The safety
invariants of `wsc_safety` are also proved without any bound. The gateway runs
have two clusters (one pair, all roles) because every further pair multiplies the
states of three reconcilers. `MaxErrors`,
`MaxCrashes`, `MaxForced` and `MaxForcedGw` bound faults; one of each kind can
fall between any two steps. `gw_faults` uses the constraint `OneFault`: one
fault of any of the three kinds. It only checks invariants, so cutting
behaviours there is sound for what it explores.

`MaxEvents` bounds their sum; only `wsc_converges` needs it: three edits, or two with a forced
deletion or a restart, or one with both.

In `vpn_rotation` one bound counts all disturbances: two of them give two slices
that expire together, one that expires twice, or an expiry with an edit or a
fault at every place. `MaxJobs` lets a new job overlap an unfinished one.

`ServiceExports`, `Projects` and `ClusterRegistration` count all disturbances with
one bound, too (`MaxEvents`). In `exports_safety` one of the two exports exists and is
queued at the start, so two events there are a second export and its deletion, an edit of
the slice and a failure, and so on, while everything is being created; the failing
Update needs a deletion and an error. A project needs events to come into being: six are
creation, an edit, content, deletion and two faults, or creation, content,
deletion and a second life. Three events of clusters are a registration, its
deletion and a fault, or two clusters and a slice; workers that register,
report and let go, timers and the token controller are not counted. Clusters are at
most two by assumption: the code that takes namespaces out of the default slice ranges over
a list it shortens, which skips elements of longer ones.

Deadlock is not checked: when the edits are used up and all queues are empty the
system has nothing to do.

### Fairness

`Fairness` and `GFairSpec` say that a controller whose queue is not empty takes a
step (its worker goroutine runs), that grace periods end and delayed requeues
fire. Nothing is assumed of users, worker operators (a worker may hold its
finalizer for ever) or of the order in which a queue hands out its keys.
Certificate jobs are not assumed to run either: an ordered secret counts as
credentials on their way. `Converges` and `GatewaysConverge` are
"eventually always": edits are bounded, so that says "once the users stop".

For key rotation, `FairSpec` assumes in addition that jobs run (they may fail),
that the informer resynchronises, and strong fairness for each key of the work
queue: the queue is first in, first out, so a key that is in it is reached
although the one worker keeps being busy with others.

`ServiceExports` and `Projects` assume that each reconciler with work takes a
step, the namespace controller and the other reconcilers finish deletions, and
the ten-hour resynchronisation comes when nothing else is left to do.
`ClusterRegistration` assumes strong fairness for each cluster in the queue, for
the same reason as above: some clusters fail over and over and the others have to be
reached; and for the resynchronisation, which does not wait for those. A worker
reports while it is registered; that it ever registers or uninstalls is not
assumed.

## Proofs

Every theorem is about all values of the constants that satisfy the named
assumptions of the modules; the bounds of the runs do not appear. Each invariant
used in a proof was first checked by TLC on an instance of the runs.

`SliceIpamProofs` proves about `ComputeClusterMap`, for every list without
duplicates and every set of existing octets, that it covers the list, keeps
existing octets and gives new ones below the length of the list
(`ComputeClusterMapType`) and that, when it returns, it gives no two clusters the
same octet (`ComputeClusterMapInjective`). Both rest on `CurrentIndexDistinct`
(two clusters that need an octet are reached with different counters) and
`NewIndex`. If the existing octets are the positions of their clusters in the list,
it does not panic and gives every cluster its position (`ComputeClusterMapInPlace`).

About subnets it proves `SubnetsApart`, for every slice subnet and up to 256
clusters, where the CRD stops at 32: aligned, inside the /16, no common address.
`PrefixFits` finds the prefix, `Sizes` the eight sizes there are, and for each of
them the rest is linear. About gateway numbers, `GatewayNumbersDistinct`: pairs of positive
integers have different numbers; and `GatewayNumbersCollide`: octets start at
zero, and every pair (0, b) with b > 1 has the number of (b - 2, b - 1).
`MCSliceIpamProofs` concludes the invariants `SubnetsDisjoint`, `VpnNetworkMeets`
and `MapInjective` of the run `ipam`, for any finite set of clusters and any
octets of existing objects.

`WorkerSliceConfigsProofs` proves, for all values of the constants that satisfy
`ListsAssumption` and `BoundsAssumption` (any clusters, any number of edits,
errors, restarts, forced deletions):

| Theorem | Statement |
|---|---|
| `TypeCorrect` | `Spec => []TypeOK` |
| `OctetsUniqueCorrect` | `Spec => []OctetsUnique` |
| `MapAgreesCorrect` | `Spec => []MapAgrees` |
| `OctetStableCorrect` | `Spec => OctetStable` |
| `OctetAllocationCorrect` | `Spec => OctetAllocation`: the abstract allocator is implemented |
| `OctetsBelowMaxCorrect` | `Spec => []OctetsBelowMax`, if no cluster list is longer than `MaxClusters` (what the webhook fails to ensure, see above) |
| `NoOrphansCorrect` | `Spec => []NoOrphans` |
| `DeletionScheduledCorrect` | `Spec => [](errors = 0 => DeletionScheduled)` |
| `QuietIsSettledCorrect` | `Spec => []QuietIsSettled`, unless `EagerWorkers` |
| `OctetsInPlace` | every octet is the position of its cluster and `ComputeClusterMap` never panics, if the lists are `Ordered` |

None of these is inductive as it stands. The type invariant needs `Planned`: in
the apply phase the computed map covers the clusters of the slice that was read.
Uniqueness needs to know why the write of one more octet is safe, several steps
after the listing it was computed from:

- `AbsentHasNone`: an absent object has no octet;
- `ReadIsCurrent`: what the other reconciler read is still the octet, as long as
  nobody wrote the object since. Without it `CopySpec` could undo an assignment;
- `MapAgrees`: the computed map agrees with every octet in the API server;
- `MapSeparates`: the computed map is injective (this is where
  `ComputeClusterMapInjective` comes in).

An action then either assigns the map's octet to a cluster that had none
(`Assigns`) or takes octets back (`TakesBack`), and two lemmas (`OctetStep`,
`OctetsChange`) show that both keep the invariant; each of the actions is shown
to be one of the two or to leave octets alone. `MapAgrees` survives deletions
because it only speaks of octets that exist, and survives the user because only
the slice reconciler creates octets, and it is at most at one place.

`NoOrphans` needs `FinalizerGuards` (objects live only under a slice with its
finalizer on, or while none has been created yet) and `DeletionCovers` (during
deletion, every live object is on the list still to be deleted).
`OctetsBelowMax` needs the same of the computed map (`MapBelowMax`): an octet is
written several steps after it was chosen. `DeletionScheduled` is proved as `Spec
=> [](errors = 0 => DeletionScheduled)`: it is the failing update named above that breaks
it, nothing else. `Scheduled` is what holds at each step: without errors the key is
queued or has a delayed requeue even while the object is being worked on.

`QuietIsSettled` compares the state at rest with the slice, so the proof has to say
of every moment before who is still going to see to a cluster (`Settling`): the slice
is queued, the running reconcile has not come to the cluster yet (`Ahead`), its
object is on its way out and will be reported to the slice (`Leaves`), or it is as
it should be, up to the copy of the spec (`Made`): the object
is queued, or has the present spec and no copy of an older one is about to be written, or the
reconcile under way can only have got the present spec (`got`). That needs `SpecCurrent` (a
reconcile whose slice is not queued again works on what the slice says now) and
`WorkersWait` (the worker's finalizer is never the only one). The latter is where
`EagerWorkers` breaks the property: the last worker to let go makes the object
vanish, and nobody is told.

`Ordered` says that a cluster has the same position in every list a user writes,
and a position the same cluster: lists that grow and shrink at their end. The code
does not ask for it, and nothing above assumes it. It is what makes octets, which
`ComputeClusterMap` takes from whatever the listing left free, a function of the
cluster (`InPlace`, `MapInPlace`); the panic of `ComputeClusterMap` needs a
cluster that is replaced or moved while an older object lingers.

`SliceGatewaysProofs`:

| Theorem | Statement |
|---|---|
| `GatewaysKeepOctets` | `GSpec => [](OctetsUnique /\ MapAgrees /\ NoOrphans)` |
| `GTypeCorrect` | `GSpec => []GTypeOK` |
| `NoGatewayOrphansCorrect` | `GSpec => []NoGatewayOrphans` |
| `GatewaysKeepOctetStable`, `GatewaysKeepAllocation`, `GatewaysKeepOctetsBelowMax` | `GSpec => OctetStable`, `GSpec => OctetAllocation`, and `GSpec => []OctetsBelowMax` under the hypothesis above |
| `GatewaysKeepSettled` | `GSpec => []((errors = 0 => DeletionScheduled) /\ QuietIsSettled)`, unless `EagerWorkers` |
| `PairsAgreeCorrect` | `GSpec => []PairsAgree`, if the lists are `Ordered` |
| `QuietHasGateways` | `GSpec => [](errors = 0 /\ forcedGw = 0 /\ Quiet => \A p \in WantedPairs : gw[p].state = "live")` |
| `QuietIsConnectedCorrect` | `GSpec => [](errors = 0 /\ forced = 0 /\ forcedGw = 0 => QuietIsConnected)`, if the lists are `Ordered` and not `EagerWorkers` |

The first carries the invariants of the smaller module over (`BaseStep`): a step
with gateways is one of `WorkerSliceConfigs`, or one that only queues the slice or
counts an error (`Aside`), or a reconcile that gives up (`GivesUp`). Types need to
know where the gateway part runs (`GwPartPlaced`) and that its two positions stay
inside the list (`PairsPlaced`); the two clusters differ because webhooks refuse
duplicates, and both have octets because of `Planned`. `NoGatewayOrphans` needs
that gateways are only live under the finalizer of the slice
(`GwFinalizerGuards`) and that a deletion has every live gateway on its list until
it goes on to the worker slice configs (`GwDeletionCovers`). The theorems named
`GatewaysKeep...` follow in the same way from the step lemmas of the smaller module.

`PairsAgree` relates two objects written at different times, one of them perhaps
by a reconcile long gone. The proof relates each to its clusters instead:
`GwInPlace` says that a gateway carries the positions of its two clusters, the
number of the two and the role of the smaller or larger one, and positions do not
change under `Ordered`. Faults, forced deletions and the clean-up of the peer then
only drop gateways (`KeepsOrDrops`), and the two creations write what the computed
map has (`CreationInPlace`). Without `Ordered` the theorem is false (two servers,
see above).

`QuietIsConnected` says of the same gateways that they are there. `ConnectInv`
says of every wanted gateway that it exists or who is going to make it
(`Attended`): the queued slice; the running reconcile, unless it is past the
positions of the two clusters (`Coming`); the gateway's own reconcile, until it
has deleted the peer; or that reconcile until it has written the slice, for both
gateways. The last one is the delicate case: its write is a conflict if
the slice was written since it was read (`stale`), but then that other write has
queued the slice, so one of the first two took over. A gateway being deleted is queued
(`DeletingQueued`). None of this needs a hypothesis on the lists or the workers, so
`QuietHasGateways` has none. What the gateways carry at rest follows from
`GwInPlace` and `QuietIsSettled`, and takes their hypotheses.

`VpnKeyRotationsProofs` proves `Spec => []TypeOK` and the action property `Spec =>
VerdictSound`, from `RenewInv`: each pair of a slice that has started its jobs is
renewed, has a job that waits or runs, or is on the list of jobs still to be
started (`Covered`). A job that fails is the only way out, and `VerdictSound`
excepts it.

`ServiceExportsProofs` proves, for any events and bounds:

| Theorem | Condition | Statement |
|---|---|---|
| `TypeCorrect` | | `Spec => []TypeOK` |
| `QuietIsExactCorrect` | `SliceStays`: nobody deletes the slice | `Spec => []QuietIsExact` |
| `NoOrphanImportsCorrect` | | `Spec => []NoOrphanImports` |

Edits of the slice, failing calls, the two logged errors, restarts, resyncs and forced
deletions are all in. A slice that is deleted and made again may leave exports that
nobody has labelled yet, with nothing to queue them; hence `SliceStays`. "At rest"
properties are proved by saying of every moment what is still under way.

`ExportInv`: an export with labels, a deleted one and the one being reconciled carry the
finalizer (`Pinned`), a reconcile starts from what is current (`Current`), and an import
being deleted is queued unless its finalizer Update has failed (`DeletionQueued`).

`SettledInv`: an import of a cluster outside the slice was written too late, or the
slice's reconcile, or that of every labelled export, is going to remove it (`Leave`,
`SliceRemoves`, `ExportRemoves`); a live export without labels is queued or about to
get them (`LabelsComing`); and each import lists what it should, is about to be written,
or some reconcile that will see to it is queued or running (`Followed`, `Coming`). Only
labelled exports count there, since one that has no labels yet may vanish without
touching an import; the first attempt counted all of them and was not inductive.

`Kept`: while there is a live import that was asked for when it was last written
(`AskedFor`), some export with a finalizer answers for it, or the last one's reconcile
still has it on the list to be deleted.

`ClusterRegistrationProofs` proves `Spec => []TypeOK`, `Spec => []NoCredentialsLeft`
and `Spec => []QuietIsRegistered`. The type invariant needs `AtOne` in place of a cardinality.
`NoCredentialsLeft` holds because credentials exist only under the controller's finalizer
(`Guarded`), which has to be known at each step between: the cluster being
registered keeps its finalizer while its account is made (`Creating`), the
copy written back at the end still has it if there are credentials (`Leaving`), and it is
removed when they are gone (`Cleaned`). `OthersKeep` says once for all what
users and workers may write meanwhile.

`QuietIsRegistered` holds because a live cluster is queued, being reconciled or
registered (`LiveCovered`), a running reconcile has made what lies behind its
place (`OnTheWay`), and a cluster registered anew while its predecessor is still being
deregistered is queued (`Reborn`). Its proof
showed that two guards of the `CASE` in `ReconcileLive` overlapped, so that the
definition did not say which came first; they are disjoint now.

`ProjectsProofs` proves `Spec => []TypeOK`, `Spec => []NamespaceFollows` and `Spec
=> []QuietIsGranted`, for any users, specs, accounts made and removed by hand and number of
events. Such an account may take the place of one the reconcile would have made, so all
that is said of accounts is said up to the members of `Foreign`. `GrantInv` says how far each loop has got (`Current`), what is done with
(`RolesDone`, `Earlier`), and that the reconcile works for the present spec or
the project is in the queue (`Linked`); all but the last only for an active
namespace, because one that is being deleted loses objects at any time and does
not become active again before the next reconcile makes it anew.

Only model-checked:

- liveness (`Converges`, `Recreated`, `GatewaysConverge`, `SliceRotated`, `Settles`,
  `Deleted`, `Provisioned`, `Deregistered`, `Registered`, `NamespacesSettle`), which
  needs fairness and ENABLED;
- `AgreesWithLoop`, which compares with a fold over the list and would need
  induction;
- `QuietIsClean`, which is not true of every instance: it fails when a cluster is
  replaced (see above), and with three clusters also when the list shrinks, the
  clean-up of the gateways is cut short by a restart, and the list grows again
  before the next one: the narrowed listing misses the gateways of the third cluster.

`SliceGateways` is not a refinement of
`WorkerSliceConfigs`: its reconciler writes the slice (`TouchSlice`) and may
fail with an error where the smaller model only ends.

## What the models leave out

- Reads see the present state of the API server; the informer cache may lag.
- The ten-hour resynchronisation of the informers, in `WorkerSliceConfigs` and
  `SliceGateways`: states called stuck above last until it or some other write.
- One slice (several in `VpnKeyRotations`, the default one and another in
  `ClusterRegistration`), one project, one service. Except in `Projects` and
  `ClusterRegistration`, clusters stay registered and the project namespace and the
  QoS profile exist; `Projects` has no default slice.
- QoS profiles beyond their creation and deletion with the project: their
  propagation to worker slice configs.
- Node addresses of clusters and the clean-up job of a cluster that did not
  uninstall itself. Users' edits of the default slice.
- In `ReconcileSliceConfig`: labels. In live gateways: node addresses, connectivity type
  and protocol. Worker finalizers on gateways. Failing certificate jobs in
  `SliceGateways`.
- In `VpnKeyRotations`: dates, the rotation count, the state of each gateway that
  workers report (a renewal asked for too early may be refused), suspended jobs,
  pairs that come and go.
- The ten minutes for which a worker's finalizer on an import keeps it in its queue: any
  order in which requests are taken allows for that. Endpoints, ports and aliases of
  an export are one version.
- Rules inside the roles, labels and annotations of a project; the check of role
  bindings in the project webhook is taken together with that of accounts.
- Parsing and printing of CIDR strings; events, metrics and logs.

## Plan

1. Done: `SliceIpam`, `OctetAllocator`, `WorkerSliceConfigs`, `SliceGateways`,
   `VpnKeyRotations`, `ServiceExports`, `Projects`, `ClusterRegistration`, their
   runs, and the theorems above.
2. An abstract specification of a rotation (renew every pair, then stamp) and of
   an import (what its cluster should see), with the detailed modules shown to
   implement them.
3. Propagation of QoS profiles.
4. `WorkerSliceConfigs` with a lagging cache: which invariants survive.
