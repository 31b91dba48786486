---------------------------- MODULE SliceGateways ----------------------------
(***************************************************************************)
(* WorkerSliceConfigs together with the gateways of the slice: two         *)
(* WorkerSliceGateway objects for every two clusters, one per direction,   *)
(* created by the gateway part of the SliceConfig reconcile                *)
(* (CreateMinimumWorkerSliceGateways) and looked after by the              *)
(* WorkerSliceGateway reconciler, a third controller                       *)
(* (service/worker_slice_gateway_service.go).                              *)
(*                                                                         *)
(* The gateway part runs while pc is "gateways" (or "deleteGateways" for a *)
(* slice that goes away); gwpc says where.  The worker operators put no    *)
(* finalizer on gateways here: RemoveWorkerFinalizers is the helper        *)
(* WorkerSliceConfigs models.                                              *)
(***************************************************************************)
EXTENDS WorkerSliceConfigs

CONSTANT MaxForcedGw   \* bound: gateways deleted by hand

ASSUME ForcedGwAssumption == MaxForcedGw \in Nat

(* The gateway <<a, b>> runs in cluster a and connects it to cluster b.    *)
Pairs == {p \in Cluster \X Cluster : p[1] # p[2]}
Peer(p) == <<p[2], p[1]>>

VARIABLES
  gw,         \* gw[p]: the WorkerSliceGateway object of p
  secret,     \* secret[p]: its credentials are absent, ordered or made
  gwQueue,    \* the gateway keys in the work queue
  gwpc,       \* where the gateway part of the slice reconcile is
  gtodo,      \* the listed gateways it has still to delete
  at,         \* the pair of list positions it is at
  gpc,        \* where the WorkerSliceGateway reconciler is
  gcur,       \* the gateway it is at
  stale,      \* the slice has been written since that reconcile has read it
  forcedGw

gwVars == <<gw, secret, gwQueue, gwpc, gtodo, at, gpc, gcur, forcedGw>>
gvars  == <<vars, gwVars, stale>>

NoGateway == [state |-> "absent", host |-> "", number |-> 0,
              net |-> <<NoOctet, NoOctet>>, finalizer |-> FALSE]

GwExists(p) == gw[p].state # "absent"
GwListed == {p \in Pairs : GwExists(p)}

NoPair == <<NoCluster, NoCluster>>

GInit ==
  /\ Init
  /\ gw = [p \in Pairs |-> NoGateway]
  /\ secret = [p \in Pairs |-> "none"] /\ gwQueue = {}
  /\ gwpc = "none" /\ gtodo = {} /\ at = <<1, 2>>
  /\ gpc = "idle" /\ gcur = NoPair /\ stale = FALSE /\ forcedGw = 0
-----------------------------------------------------------------------------
(* A Delete call on the gateway of p: what becomes of it and of the queue. *)
DeleteGateway(p) ==
  /\ gw' = [gw EXCEPT ![p] = IF gw[p].finalizer THEN [@ EXCEPT !.state = "deleting"]
                                                 ELSE NoGateway]
  /\ gwQueue' = IF gw[p].state = "live" THEN gwQueue \cup {p} ELSE gwQueue

CreateGateway(p, host, number) ==
  /\ gw' = [gw EXCEPT ![p] = [state |-> "live", host |-> host, number |-> number,
                              net |-> <<clusterMap[p[1]], clusterMap[p[2]]>>,
                              finalizer |-> FALSE]]
  /\ gwQueue' = gwQueue \cup {p}

GwPartDone == gwpc' = "none" /\ gtodo' = {} /\ at' = <<1, 2>>

(* The gateway part returns an error and with it the whole reconcile.      *)
GwAbort == AbortReconcile /\ GwPartDone

baseRest == <<slice, wscVars, wscQueue, timers, workerVars, boundVars>>
-----------------------------------------------------------------------------
(* cleanupObsoleteGateways.  It lists with the label map that              *)
(* CreateMinimalWorkerSliceConfig was given, and that one has written the  *)
(* worker-cluster of the last object it created into the map: only the     *)
(* gateways of that cluster are then listed.                               *)
MatchesLabels(p) == lastCreated \in {NoCluster, p[1]}

(* A cluster the map does not know counts as 0, Go's zero value.           *)
octetOf(c) == IF c \in DOMAIN clusterMap THEN clusterMap[c] ELSE 0

(* Faulty variant: only the number is compared.                            *)
ObsoleteByNumber(p) ==
  calculateGatewayNumber(octetOf(p[1]), octetOf(p[2])) # gw[p].number

Obsolete(p) ==
  \/ p[1] \notin Range(spec.clusters) \/ p[2] \notin Range(spec.clusters)
  \/ calculateGatewayNumber(octetOf(p[1]), octetOf(p[2])) # gw[p].number

ListObsoleteGateways ==
  /\ pc = "gateways" /\ gwpc = "none"
  /\ gtodo' = {p \in GwListed : MatchesLabels(p) /\ Obsolete(p)}
  /\ gwpc' = "cleanup"
  /\ UNCHANGED <<vars, gw, secret, gwQueue, at, gpc, gcur, forcedGw>>

(* One Delete of cleanupObsoleteGateways, or of                            *)
(* DeleteWorkerSliceGatewaysByLabel; NotFound ends the reconcile.          *)
DeleteListedGateway(p) ==
  /\ gwpc \in {"cleanup", "delete"} /\ p \in gtodo
  /\ IF GwExists(p)
     THEN /\ DeleteGateway(p) /\ gtodo' = gtodo \ {p}
          /\ UNCHANGED <<vars, gwpc, at>>
     ELSE GwAbort /\ UNCHANGED <<gw, gwQueue, baseRest>>
  /\ UNCHANGED <<secret, gpc, gcur, forcedGw>>

(* createMinimumGatewaysIfNotExists, when the clean-up is over, takes the  *)
(* pairs of list positions in order; the first cluster of a pair is the    *)
(* server.                                                                 *)
CreatesPairs == gwpc = "pairs" \/ (gwpc = "cleanup" /\ gtodo = {})

PairsLeft == at[1] < Len(spec.clusters)
NextPair == IF at[2] < Len(spec.clusters) THEN <<at[1], at[2] + 1>>
                                          ELSE <<at[1] + 1, at[1] + 2>>
ServerPair == <<spec.clusters[at[1]], spec.clusters[at[2]]>>
gatewayNumber == calculateGatewayNumber(clusterMap[ServerPair[1]], clusterMap[ServerPair[2]])

(* Both gateways are there, in whatever state: nothing to do.              *)
PairExists ==
  /\ CreatesPairs /\ PairsLeft
  /\ GwExists(ServerPair) /\ GwExists(Peer(ServerPair))
  /\ at' = NextPair /\ gwpc' = "pairs"
  /\ UNCHANGED <<vars, gw, secret, gwQueue, gtodo, gpc, gcur, forcedGw>>

(* Faulty variant: if the first gateway is there, the missing one is       *)
(* created in its place, as a server too.                                  *)
CreateMissing ==
  /\ CreatesPairs /\ PairsLeft
  /\ ~(GwExists(ServerPair) /\ GwExists(Peer(ServerPair)))
  /\ CreateGateway(IF GwExists(ServerPair) THEN Peer(ServerPair) ELSE ServerPair,
                   "Server", gatewayNumber)
  /\ gwpc' = "client"
  /\ UNCHANGED <<vars, gtodo, at, secret, gpc, gcur, forcedGw>>

(* Otherwise both are created, the server first.  The one that exists      *)
(* makes Create fail with AlreadyExists, which is returned.                *)
CreateServer ==
  /\ CreatesPairs /\ PairsLeft
  /\ ~(GwExists(ServerPair) /\ GwExists(Peer(ServerPair)))
  /\ IF GwExists(ServerPair)
     THEN GwAbort /\ UNCHANGED <<gw, gwQueue, baseRest>>
     ELSE /\ CreateGateway(ServerPair, "Server", gatewayNumber)
          /\ gwpc' = "client"
          /\ UNCHANGED <<vars, gtodo, at>>
  /\ UNCHANGED <<secret, gpc, gcur, forcedGw>>

CreateClient ==
  /\ gwpc = "client"
  /\ IF GwExists(Peer(ServerPair))
     THEN GwAbort /\ UNCHANGED <<gw, gwQueue, baseRest>>
     ELSE /\ CreateGateway(Peer(ServerPair), "Client", gatewayNumber)
          /\ gwpc' = "certs"
          /\ UNCHANGED <<vars, gtodo, at>>
  /\ UNCHANGED <<secret, gpc, gcur, forcedGw>>

(* Faulty variant: the client is forgotten.                                *)
GenerateServerCerts ==
  /\ gwpc = "certs"
  /\ secret' = [secret EXCEPT ![ServerPair] = "ordered"]
  /\ at' = NextPair
  /\ gwpc' = "pairs"
  /\ UNCHANGED <<vars, gw, gwQueue, gtodo, gpc, gcur, forcedGw>>

(* GenerateCerts orders the job that makes the secrets of both gateways;   *)
(* it first looks the slice up and gives up if it is gone, which it cannot *)
(* be while its only finalizer is removed by this reconciler.              *)
GenerateCerts ==
  /\ gwpc = "certs"
  /\ secret' = [secret EXCEPT ![ServerPair] = "ordered", ![Peer(ServerPair)] = "ordered"]
  /\ at' = NextPair
  /\ gwpc' = "pairs"
  /\ UNCHANGED <<vars, gw, gwQueue, gtodo, gpc, gcur, forcedGw>>

GatewaysDone ==
  /\ CreatesPairs /\ ~PairsLeft
  /\ ReconcileDone /\ GwPartDone
  /\ UNCHANGED <<gw, secret, gwQueue, gpc, gcur, forcedGw>>

(* cleanUpSliceConfigResources: DeleteWorkerSliceGatewaysByLabel first.    *)
ListAllGateways ==
  /\ pc = "deleteGateways" /\ gwpc = "none"
  /\ gtodo' = GwListed
  /\ gwpc' = "delete"
  /\ UNCHANGED <<vars, gw, secret, gwQueue, at, gpc, gcur, forcedGw>>

(* Faulty variant: it does not wait for the deletions.                     *)
GatewaysLeft ==
  /\ gwpc = "delete"
  /\ ListForDeletion /\ GwPartDone
  /\ UNCHANGED <<gw, secret, gwQueue, gpc, gcur, forcedGw>>

GatewaysDeleted ==
  /\ gwpc = "delete" /\ gtodo = {}
  /\ ListForDeletion /\ GwPartDone
  /\ UNCHANGED <<gw, secret, gwQueue, gpc, gcur, forcedGw>>
-----------------------------------------------------------------------------
(* The WorkerSliceGateway reconciler: ReconcileWorkerSliceGateways.        *)

GwIdle == gpc' = "idle" /\ gcur' = NoPair

ReconcileGwAbsent(p) ==
  /\ gpc = "idle" /\ p \in gwQueue /\ ~GwExists(p)
  /\ gwQueue' = gwQueue \ {p}
  /\ UNCHANGED <<vars, gw, secret, gwpc, gtodo, at, gpc, gcur, forcedGw>>

(* AddFinalizer; what else is written into a live gateway (connectivity    *)
(* type, protocol, node addresses) is not modelled.                        *)
ReconcileGwLive(p) ==
  /\ gpc = "idle" /\ p \in gwQueue /\ gw[p].state = "live"
  /\ gw' = [gw EXCEPT ![p].finalizer = TRUE]
  /\ gwQueue' = IF gw[p].finalizer THEN gwQueue \ {p} ELSE gwQueue
  /\ UNCHANGED <<vars, secret, gwpc, gtodo, at, gpc, gcur, forcedGw>>

(* A gateway being deleted: RemoveWorkerFinalizers lets it go ...          *)
RemoveGwFinalizers(p) ==
  /\ gpc = "idle" /\ p \in gwQueue /\ gw[p].state = "deleting"
  /\ gw' = [gw EXCEPT ![p] = NoGateway]
  /\ gwQueue' = gwQueue \ {p}
  /\ gpc' = "secret" /\ gcur' = p
  /\ UNCHANGED <<vars, secret, gwpc, gtodo, at, forcedGw>>

(* ... or fails to, which is only logged ...                               *)
RemoveGwFinalizersFails(p) ==
  /\ gpc = "idle" /\ p \in gwQueue /\ gw[p].state = "deleting"
  /\ errors < MaxErrors /\ Event
  /\ errors' = errors + 1
  /\ gwQueue' = gwQueue \ {p}
  /\ gpc' = "secret" /\ gcur' = p
  /\ UNCHANGED <<slice, wscVars, queueVars, pc, localVars, workerVars, edits, forced, crashes>>
  /\ UNCHANGED <<gw, secret, gwpc, gtodo, at, forcedGw>>

(* A secret that is only ordered is not there to be deleted.               *)
DeleteSecret(p) == [secret EXCEPT ![p] = IF @ = "made" THEN "none" ELSE @]

(* ... its secret is deleted ...                                           *)
DeleteGwSecret ==
  /\ gpc = "secret"
  /\ secret' = DeleteSecret(gcur)
  /\ gpc' = "pair"
  /\ UNCHANGED <<vars, gw, gwQueue, gwpc, gtodo, at, gcur, forcedGw>>

(* ... and if the live slice still has its cluster, its peer and then the  *)
(* peer's secret go too ...                                                *)
DeletedForcefully == slice.phase = "live" /\ gcur[1] \in Range(slice.clusters)

DeletePeer ==
  /\ gpc = "pair"
  /\ IF DeletedForcefully
     THEN /\ IF GwExists(Peer(gcur))
             THEN DeleteGateway(Peer(gcur)) /\ gpc' = "peerSecret"
             ELSE gpc' = "touch" /\ UNCHANGED <<gw, gwQueue>>
          /\ UNCHANGED gcur
     ELSE GwIdle /\ UNCHANGED <<gw, gwQueue>>
  /\ UNCHANGED <<vars, secret, gwpc, gtodo, at, forcedGw>>

DeletePeerSecret ==
  /\ gpc = "peerSecret"
  /\ secret' = DeleteSecret(Peer(gcur))
  /\ gpc' = "touch"
  /\ UNCHANGED <<vars, gw, gwQueue, gwpc, gtodo, at, gcur, forcedGw>>

(* Faulty variant: the slice is not told.                                  *)
LeaveSlice ==
  /\ gpc = "touch"
  /\ GwIdle
  /\ UNCHANGED <<vars, gw, secret, gwQueue, gwpc, gtodo, at, forcedGw>>

(* ... and the slice's timestamp annotation is renewed, which queues it.   *)
(* The Update of a slice written since it was read is a conflict: the key  *)
(* of the gateway, which is gone, is tried again.                          *)
TouchSlice ==
  /\ gpc = "touch"
  /\ sliceQueue' = (sliceQueue \/ ~stale)
  /\ gwQueue' = IF stale THEN gwQueue \cup {gcur} ELSE gwQueue
  /\ GwIdle
  /\ UNCHANGED <<slice, wscVars, wscQueue, timers, pc, localVars, workerVars, boundVars>>
  /\ UNCHANGED <<gw, secret, gwpc, gtodo, at, forcedGw>>

(* The certificate job, a program of its own, makes both secrets.          *)
CertJobRuns(p) ==
  /\ secret[p] = "ordered"
  /\ secret' = [secret EXCEPT ![p] = "made", ![Peer(p)] = "made"]
  /\ UNCHANGED <<vars, gw, gwQueue, gwpc, gtodo, at, gpc, gcur, forcedGw>>

(* Somebody deletes a gateway by hand.                                     *)
ForceDeleteGateway(p) ==
  /\ gw[p].state = "live" /\ forcedGw < MaxForcedGw
  /\ DeleteGateway(p)
  /\ forcedGw' = forcedGw + 1
  /\ UNCHANGED <<vars, secret, gwpc, gtodo, at, gpc, gcur>>
-----------------------------------------------------------------------------
(* A failing call of the gateway reconciler puts its key back.             *)
GwReconcileFails ==
  /\ gpc # "idle" /\ errors < MaxErrors /\ Event
  /\ errors' = errors + 1
  /\ gwQueue' = gwQueue \cup {gcur}
  /\ GwIdle
  /\ UNCHANGED <<slice, wscVars, queueVars, pc, localVars, workerVars, edits, forced, crashes>>
  /\ UNCHANGED <<gw, secret, gwpc, gtodo, at, forcedGw>>

GFault ==
  \/ ReconcileFails /\ GwPartDone /\ UNCHANGED <<gw, secret, gwQueue, gpc, gcur, forcedGw>>
  \/ ReconcileWscFails /\ UNCHANGED gwVars
  \/ (\E c \in Cluster : RemoveWorkerFinalizersFails(c)) /\ UNCHANGED gwVars
  \/ Crash /\ GwPartDone /\ GwIdle /\ gwQueue' = GwListed /\ UNCHANGED <<gw, secret, forcedGw>>
  \/ GwReconcileFails
  \/ \E p \in Pairs : RemoveGwFinalizersFails(p)

GwPart ==
  \/ ListObsoleteGateways \/ PairExists \/ CreateServer \/ CreateClient
  \/ GenerateCerts \/ GatewaysDone \/ ListAllGateways \/ GatewaysDeleted
  \/ \E p \in Pairs : DeleteListedGateway(p)

(* What the slice reconcile does between its gateway parts.                *)
WscPart ==
  /\ \/ ReconcileAbsent \/ ReconcileLive \/ PlanOctets \/ ApplyCluster \/ WscsApplied
     \/ ReconcileDeleting \/ RemoveSliceFinalizer
     \/ \E c \in Cluster : CleanUpSlices(c) \/ DeleteWorkerSliceConfig(c)
  /\ UNCHANGED gwVars

GwReconciler ==
  \/ DeleteGwSecret \/ DeletePeer \/ DeletePeerSecret \/ TouchSlice
  \/ \E p \in Pairs : ReconcileGwAbsent(p) \/ ReconcileGwLive(p) \/ RemoveGwFinalizers(p)

WscReconciler == (WscFinish \/ \E c \in Cluster : WscStart(c)) /\ UNCHANGED gwVars

(* The slice is written by the user, by its own reconciler (finalizer) and *)
(* by the reconcilers that renew its timestamp; all but the last kind of   *)
(* write are visible in the slice or in the number of edits.               *)
SliceWritten ==
  \/ edits' # edits \/ slice' # slice
  \/ wpc = "forced" /\ wpc' = "idle" /\ errors' = errors /\ crashes' = crashes
     /\ slice.phase = "live" /\ cur \in Range(slice.clusters)

(* The gateway reconcile has read the slice and has not written it yet.    *)
HoldsSlice == gpc \in {"peerSecret", "touch"}

GNext ==
  /\ \/ (User \/ Worker \/ Time) /\ UNCHANGED gwVars
     \/ \E p \in Pairs : ForceDeleteGateway(p) \/ CertJobRuns(p)
     \/ GFault
     \/ WscPart \/ GwPart
     \/ WscReconciler \/ GwReconciler
  /\ stale' = (HoldsSlice' /\ (stale \/ (HoldsSlice /\ SliceWritten)))

GSpec == GInit /\ [][GNext]_gvars

(* Every controller goes on while its queue is not empty, as in Fairness.  *)
GFairSpec ==
  /\ GSpec
  /\ WF_gvars((WscPart \/ GwPart) /\ GNext)
  /\ WF_gvars(WscReconciler /\ GNext)
  /\ WF_gvars(GwReconciler /\ GNext)
  /\ \A c \in Cluster : WF_gvars(GraceExpires(c) /\ GNext) /\ WF_gvars(TimerFires(c) /\ GNext)
-----------------------------------------------------------------------------
(* No reconciler has anything left to do.                                  *)
Quiet == AtRest /\ gwQueue = {} /\ gpc = "idle"

WantedPairs ==
  IF slice.phase = "live" /\ slice.mode = Net
  THEN {p \in Pairs : p[1] \in Range(slice.clusters) /\ p[2] \in Range(slice.clusters)}
  ELSE {}

NoObsolete == \A p \in Pairs : p \notin WantedPairs => ~GwExists(p)

(* Every two clusters have a server and a client, and both carry the       *)
(* subnets of the octets the clusters have now.                            *)
Connected ==
  \A p \in WantedPairs :
    /\ gw[p].state = "live"
    /\ gw[p].net = <<octet[p[1]], octet[p[2]]>>
    /\ (gw[p].host = "Server") = (gw[Peer(p)].host = "Client")

Credentialed == \A p \in WantedPairs : secret[p] # "none"

(* Every variable has its type, and no gateway has a negative number,      *)
(* although calculateGatewayNumber is fed octets from 0 on.                *)
GTypeOK ==
  /\ TypeOK
  /\ gw \in [Pairs -> [state : {"absent", "live", "deleting"}, host : {"", "Server", "Client"},
                       number : Nat, net : (Nat \cup {NoOctet}) \X (Nat \cup {NoOctet}),
                       finalizer : BOOLEAN]]
  /\ secret \in [Pairs -> {"none", "ordered", "made"}] /\ gwQueue \subseteq Pairs
  /\ gwpc \in {"none", "cleanup", "pairs", "client", "certs", "delete"}
  /\ gtodo \subseteq Pairs /\ at \in Nat \X Nat
  /\ gpc \in {"idle", "secret", "pair", "peerSecret", "touch"} /\ gcur \in Pairs \cup {NoPair}
  /\ stale \in BOOLEAN /\ forcedGw \in Nat

(* A slice that is gone has left no gateway behind that nobody is going to *)
(* delete: DeleteWorkerSliceGatewaysByLabel comes before the finalizer of  *)
(* the slice is removed, whatever fails in between.                        *)
NoGatewayOrphans == slice.phase = "absent" => \A p \in Pairs : gw[p].state # "live"

(* Whatever ReconcileWorkerSliceGateways and the slice reconcile delete    *)
(* and create at the same time, the two live gateways of two clusters fit  *)
(* together: a server and a client with the same number and each other's   *)
(* subnets.                                                                *)
PairsAgree ==
  \A p \in Pairs : gw[p].state = "live" /\ gw[Peer(p)].state = "live" =>
    /\ {gw[p].host, gw[Peer(p)].host} = {"Server", "Client"}
    /\ gw[p].number = gw[Peer(p)].number
    /\ gw[p].net = <<gw[Peer(p)].net[2], gw[Peer(p)].net[1]>>

(* When the reconcilers come to rest after clusters have joined and left,  *)
(* or the slice was deleted and created again while gateways were still    *)
(* going away, the clusters of the slice are connected.                    *)
QuietIsConnected == Quiet => Connected

(* When they come to rest, cleanupObsoleteGateways ("delete outdated       *)
(* gateways") has left no gateway of a cluster the slice no longer has.    *)
QuietIsClean == Quiet => NoObsolete

(* Once the user stops, worker slice configs, gateways and credentials are *)
(* brought in line with the slice by the three reconcilers and stay there. *)
GatewaysConverge == <>[](Settled /\ NoObsolete /\ Connected /\ Credentialed)
=============================================================================
