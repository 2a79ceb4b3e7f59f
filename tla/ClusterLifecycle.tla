-------------------------- MODULE ClusterLifecycle --------------------------
(***************************************************************************)
(* A Cluster, its Placement and its NodePools, from creation to the last   *)
(* trace of them.                                                          *)
(*                                                                         *)
(* Three controllers work on them without a lock.  The Placement           *)
(* controller chooses a management cluster, in a Placement that is found   *)
(* by its name, and copies the choice to Cluster.status.placementRef.  The *)
(* Cluster controller puts resources where the Placement says, the         *)
(* NodePool controller where placementRef says.  A deletion takes them off *)
(* again, and then the NodePools, the Placement and the finalizer.         *)
(* Customers create and delete Clusters and NodePools all the while; a     *)
(* Cluster may come back under its name with another UID.                  *)
(*                                                                         *)
(* Every controller handles one object at a time, so there is one          *)
(* reconcile per controller and object.  How a desire is carried out and   *)
(* confirmed is DesireSync's subject, how claims are released is Claims'.  *)
(***************************************************************************)
EXTENDS Naturals, FiniteSets

CONSTANTS
    MaxUID,    \* bound: Clusters created under the name, with UIDs 1 .. MaxUID
    MCs,       \* management clusters
    NoMC,      \* none
    Pools,     \* names of NodePools of the Cluster
    MaxPools,  \* bound: requests for a NodePool
    MaxFaults  \* bound: calls that fail and restarts

ASSUME UIDsNat == MaxUID \in Nat \ {0} /\ MaxPools \in Nat /\ MaxFaults \in Nat
ASSUME NoMCIsNone == NoMC \notin MCs

VARIABLES
    cluster,    \* the Cluster: its UID, or 0, and status.placementRef
    lastUID,    \* UIDs handed out
    placement,  \* the Placement: the UID in its label, or 0
    pool,       \* the NodePools: the UID of the owner, or 0
    made,       \* requests for a NodePool so far
    faults,     \* faults so far
    onMC,       \* resources on management clusters, and whether they are to go
    api,        \* the request that creates a NodePool, and the UID it read
    pr,         \* the Placement controller's reconcile, and what it read
    cr,         \* the Cluster controller's
    nr,         \* the NodePool controller's, for each NodePool
    late,       \* history: what was under way for a Cluster at its clean-up's last look
    misled      \* history: Clusters with another's placementRef, or whose deletion
                \* took an error for no Placement

history == <<late, misled>>
vars == <<cluster, lastUID, placement, pool, made, faults, onMC, api, pr, cr, nr, history>>

UIDs == 0 .. MaxUID
Places == MCs \cup {NoMC}

\* What a Cluster has on a management cluster: its own resources and one for
\* each NodePool.
Parts == Pools \cup {"cluster"}
Resource == [uid : UIDs, mc : MCs, part : Parts, going : BOOLEAN]
At(u, mc, part) == {x \in onMC : x.uid = u /\ x.mc = mc /\ x.part = part}

TypeOK == /\ cluster \in [uid : UIDs, state : {"none", "live", "deleting"}, ref : Places]
          /\ lastUID \in UIDs
          /\ placement \in [uid : UIDs, mc : Places, bound : BOOLEAN]
          /\ pool \in [Pools -> [uid : UIDs, state : {"none", "live", "deleting"}, fin : BOOLEAN]]
          /\ made \in 0 .. MaxPools /\ faults \in 0 .. MaxFaults
          /\ onMC \subseteq Resource
          /\ api \in [Pools -> [pc : {"idle", "check", "create"}, uid : UIDs]]
          /\ pr \in [pc : {"idle", "get", "create", "bind", "ref"}, uid : UIDs, ref : Places, mc : Places]
          /\ cr \in [pc : {"idle", "place", "apply", "resolve", "pools", "delete", "cleanup",
                           "placements", "finalize"},
                     uid : UIDs, mc : Places, pending : BOOLEAN]
          /\ nr \in [Pools -> [pc : {"idle", "parent", "apply", "resolve", "delete", "finalize"}, mc : Places]]
          /\ late \subseteq UIDs \X (Pools \cup {"placement"})
          /\ misled \subseteq UIDs

NoCluster == [uid |-> 0, state |-> "none", ref |-> NoMC]
NoPlacement == [uid |-> 0, mc |-> NoMC, bound |-> FALSE]
NoPool == [uid |-> 0, state |-> "none", fin |-> FALSE]
IdleAPI == [pc |-> "idle", uid |-> 0]
IdleP == [pc |-> "idle", uid |-> 0, ref |-> NoMC, mc |-> NoMC]
IdleC == [pc |-> "idle", uid |-> 0, mc |-> NoMC, pending |-> FALSE]
IdleN == [pc |-> "idle", mc |-> NoMC]

Init == /\ cluster = NoCluster /\ lastUID = 0
        /\ placement = NoPlacement
        /\ pool = [p \in Pools |-> NoPool] /\ made = 0 /\ faults = 0
        /\ onMC = {}
        /\ api = [p \in Pools |-> IdleAPI]
        /\ pr = IdleP /\ cr = IdleC /\ nr = [p \in Pools |-> IdleN]
        /\ late = {} /\ misled = {}

-----------------------------------------------------------------------------
(* The API. *)

CreateCluster == /\ cluster.uid = 0 /\ lastUID < MaxUID
                 /\ lastUID' = lastUID + 1
                 /\ cluster' = [uid |-> lastUID + 1, state |-> "live", ref |-> NoMC]
                 /\ UNCHANGED <<placement, pool, made, faults, onMC, api, pr, cr, nr, history>>

\* A request, or deleteIfExpired.  The Cluster has had its finalizer from the start.
DeleteCluster == /\ cluster.state = "live"
                 /\ cluster' = [cluster EXCEPT !.state = "deleting"]
                 /\ UNCHANGED <<lastUID, placement, pool, made, faults, onMC, api, pr, cr, nr, history>>

\* NodePoolHandler.Create reads the Cluster, which must not be deleting; ...
PoolRead(p) == /\ api[p].pc = "idle" /\ made < MaxPools
               /\ cluster.state = "live"
               /\ api' = [api EXCEPT ![p] = [pc |-> "check", uid |-> cluster.uid]]
               /\ made' = made + 1
               /\ UNCHANGED <<cluster, lastUID, placement, pool, faults, onMC, pr, cr, nr, history>>

\* ... CreateNodePool reads it again, for its UID only; ...
PoolCheck(p) == /\ api[p].pc = "check"
                /\ api' = [api EXCEPT ![p] = IF cluster.uid = api[p].uid
                                               THEN [@ EXCEPT !.pc = "create"] ELSE IdleAPI]
                /\ UNCHANGED <<cluster, lastUID, placement, pool, made, faults, onMC, pr, cr, nr, history>>

\* ... and the NodePool is inserted, unless its name is taken.
PoolCreate(p) == /\ api[p].pc = "create"
                 /\ api' = [api EXCEPT ![p] = IdleAPI]
                 /\ IF pool[p].uid = 0
                      THEN pool' = [pool EXCEPT ![p] = [uid |-> api[p].uid, state |-> "live", fin |-> FALSE]]
                      ELSE UNCHANGED pool
                 /\ UNCHANGED <<cluster, lastUID, placement, made, faults, onMC, pr, cr, nr, history>>

\* The row goes at once when nothing has put a finalizer on it.
Deleted(np) == IF np.state = "live" /\ np.fin THEN [np EXCEPT !.state = "deleting"]
               ELSE IF np.state = "live" THEN NoPool ELSE np

DeletePool(p) == /\ pool[p].state = "live"
                 /\ pool' = [pool EXCEPT ![p] = Deleted(@)]
                 /\ UNCHANGED <<cluster, lastUID, placement, made, faults, onMC, api, pr, cr, nr, history>>

-----------------------------------------------------------------------------
(* PlacementReconciler.Reconcile. *)

PRead == /\ pr.pc = "idle" /\ cluster.state = "live"
         /\ pr' = [pc |-> "get", uid |-> cluster.uid, ref |-> cluster.ref, mc |-> NoMC]
         /\ UNCHANGED <<cluster, lastUID, placement, pool, made, faults, onMC, api, cr, nr, history>>

\* The Placement is found by its name, or a management cluster is selected.
PGet == /\ pr.pc = "get"
        /\ \/ /\ placement.uid # 0
              /\ pr' = [pr EXCEPT !.pc = IF placement.bound THEN "ref" ELSE "bind", !.mc = placement.mc]
           \/ /\ placement.uid = 0
              /\ \E mc \in MCs : pr' = [pr EXCEPT !.pc = "create", !.mc = mc]
        /\ UNCHANGED <<cluster, lastUID, placement, pool, made, faults, onMC, api, cr, nr, history>>

PCreate == /\ pr.pc = "create"
           /\ IF placement.uid = 0
                THEN /\ placement' = [uid |-> pr.uid, mc |-> pr.mc, bound |-> FALSE]
                     /\ pr' = [pr EXCEPT !.pc = "bind"]
                ELSE pr' = IdleP /\ UNCHANGED placement
           /\ UNCHANGED <<cluster, lastUID, pool, made, faults, onMC, api, cr, nr, history>>


PBind == /\ pr.pc = "bind"
         /\ placement' = [placement EXCEPT !.bound = @ \/ placement.uid # 0]
         /\ pr' = [pr EXCEPT !.pc = "ref"]
         /\ UNCHANGED <<cluster, lastUID, pool, made, faults, onMC, api, cr, nr, history>>

\* The Cluster is read again, by its name, and its status is written.
PRef == /\ pr.pc = "ref"
        /\ cluster' = IF pr.ref # pr.mc /\ cluster.uid # 0
                        THEN [cluster EXCEPT !.ref = pr.mc] ELSE cluster
        /\ misled' = misled \cup (IF cluster'.ref # cluster.ref /\ pr.uid # cluster.uid THEN {cluster.uid} ELSE {})
        /\ pr' = IdleP
        /\ UNCHANGED <<lastUID, placement, pool, made, faults, onMC, api, cr, nr, late>>

Fault == faults < MaxFaults /\ faults' = faults + 1

\* A call fails, or the operator restarts: the object is reconciled again.
PFails == /\ pr.pc # "idle" /\ pr' = IdleP /\ Fault
          /\ UNCHANGED <<cluster, lastUID, placement, pool, made, onMC, api, cr, nr, history>>

-----------------------------------------------------------------------------
(* ClusterReconciler.Reconcile. *)

CGoto(l) == cr' = [cr EXCEPT !.pc = l]

CRead == /\ cr.pc = "idle" /\ cluster.uid # 0
         /\ cr' = [pc |-> IF cluster.state = "live" THEN "place" ELSE "resolve",
                   uid |-> cluster.uid, mc |-> cluster.ref, pending |-> FALSE]
         /\ UNCHANGED <<cluster, lastUID, placement, pool, made, faults, onMC, api, pr, nr, history>>

\* Mutant: the Cluster controller chooses for itself.
CPlace_Chooses == /\ cr.pc = "place"
                  /\ IF placement.bound THEN \E mc \in MCs : cr' = [cr EXCEPT !.pc = "apply", !.mc = mc]
                                        ELSE cr' = IdleC
                  /\ UNCHANGED <<cluster, lastUID, placement, pool, made, faults, onMC, api, pr, nr, history>>

CPlace == /\ cr.pc = "place"
          /\ cr' = IF placement.bound THEN [cr EXCEPT !.pc = "apply", !.mc = placement.mc] ELSE IdleC
          /\ UNCHANGED <<cluster, lastUID, placement, pool, made, faults, onMC, api, pr, nr, history>>

Apply(u, mc, part) ==
    onMC' = (onMC \ At(u, mc, part)) \cup {[uid |-> u, mc |-> mc, part |-> part, going |-> FALSE]}

\* reconcilePlacedCluster.
CApply == /\ cr.pc = "apply"
          /\ Apply(cr.uid, cr.mc, "cluster")
          /\ cr' = IdleC
          /\ UNCHANGED <<cluster, lastUID, placement, pool, made, faults, api, pr, nr, history>>

\* reconcileDelete: placementRef, as read, or else the Placement.
CResolve == /\ cr.pc = "resolve"
            /\ LET mc == IF cr.mc # NoMC THEN cr.mc ELSE placement.mc
               IN  cr' = [cr EXCEPT !.pc = IF mc = NoMC THEN "cleanup" ELSE "pools", !.mc = mc]
            /\ UNCHANGED <<cluster, lastUID, placement, pool, made, faults, onMC, api, pr, nr, history>>

\* An error of the Get of the Placement is taken for its absence.
CResolveFails == /\ cr.pc = "resolve" /\ cr.mc = NoMC /\ placement.uid # 0
                 /\ Fault
                 /\ CGoto("cleanup")
                 /\ misled' = misled \cup {cr.uid}
                 /\ UNCHANGED <<cluster, lastUID, placement, pool, made, onMC, api, pr, nr, late>>

Owned(u) == {p \in Pools : pool[p].uid = u}
DeleteOwned(u) == pool' = [p \in Pools |-> IF p \in Owned(u) THEN Deleted(pool[p]) ELSE pool[p]]

\* Mutant: NodePools are waited for and not deleted.
CPools_CountOnly == /\ cr.pc = "pools"
                    /\ cr' = [cr EXCEPT !.pc = "delete", !.pending = Owned(cr.uid) # {}]
                    /\ UNCHANGED <<cluster, lastUID, placement, pool, made, faults, onMC, api, pr, nr, history>>

CPools == /\ cr.pc = "pools"
          /\ DeleteOwned(cr.uid)
          /\ cr' = [cr EXCEPT !.pc = "delete", !.pending = Owned(cr.uid) # {}]
          /\ UNCHANGED <<cluster, lastUID, placement, made, faults, onMC, api, pr, nr, history>>

\* Desires of type Delete, written and confirmed.
TakeOff(u, mc, part) ==
    onMC' = (onMC \ At(u, mc, part)) \cup {[x EXCEPT !.going = TRUE] : x \in At(u, mc, part)}
Off(u, mc, part) == At(u, mc, part) = {}

\* Mutant: the confirmation is not waited for.
CDelete_NoWait == /\ cr.pc = "delete"
                  /\ TakeOff(cr.uid, cr.mc, "cluster")
                  /\ IF cr.pending THEN cr' = IdleC ELSE CGoto("cleanup")
                  /\ UNCHANGED <<cluster, lastUID, placement, pool, made, faults, api, pr, nr, history>>

CDelete == /\ cr.pc = "delete"
           /\ TakeOff(cr.uid, cr.mc, "cluster")
           /\ IF Off(cr.uid, cr.mc, "cluster") /\ ~cr.pending THEN CGoto("cleanup") ELSE cr' = IdleC
           /\ UNCHANGED <<cluster, lastUID, placement, pool, made, faults, api, pr, nr, history>>

\* History: of the things in S, those in T were being created at the last look.
Look(S, T) == /\ late' = (late \ ({cr.uid} \X S)) \cup ({cr.uid} \X T)
              /\ UNCHANGED misled

\* Mutant: NodePools are not looked for again.
CCleanup_NoPools == /\ cr.pc = "cleanup"
                    /\ CGoto("placements")
                    /\ UNCHANGED <<cluster, lastUID, placement, pool, made, faults, onMC, api, pr, nr, history>>

\* cleanupAndRemoveFinalizer: while there are NodePools, delete them and wait; ...
CCleanup == /\ cr.pc = "cleanup"
            /\ DeleteOwned(cr.uid)
            /\ IF Owned(cr.uid) = {} THEN CGoto("placements") ELSE cr' = IdleC
            /\ Look(Pools, {p \in Pools : api[p].pc # "idle" /\ api[p].uid = cr.uid})
            /\ UNCHANGED <<cluster, lastUID, placement, made, faults, onMC, api, pr, nr>>

\* ... while there is a Placement with the Cluster's UID, delete it and wait; ...
CPlacements == /\ cr.pc = "placements"
               /\ IF placement.uid = cr.uid
                    THEN placement' = NoPlacement /\ cr' = IdleC
                    ELSE CGoto("finalize") /\ UNCHANGED placement
               /\ Look({"placement"}, IF pr.pc \in {"get", "create"} /\ pr.uid = cr.uid THEN {"placement"} ELSE {})
               /\ UNCHANGED <<cluster, lastUID, pool, made, faults, onMC, api, pr, nr>>

\* ... then the finalizer, the last one, is removed.
CFinalize == /\ cr.pc = "finalize"
             /\ cluster' = NoCluster /\ cr' = IdleC
             /\ UNCHANGED <<lastUID, placement, pool, made, faults, onMC, api, pr, nr, history>>

CFails == /\ cr.pc # "idle" /\ cr' = IdleC /\ Fault
          /\ UNCHANGED <<cluster, lastUID, placement, pool, made, onMC, api, pr, nr, history>>

-----------------------------------------------------------------------------
(* NodePoolReconciler.Reconcile. *)

NGoto(p, l) == nr' = [nr EXCEPT ![p].pc = l]
NDone(p) == nr' = [nr EXCEPT ![p] = IdleN]

\* Mutant: no finalizer.
NRead_NoFinalizer(p) == /\ nr[p].pc = "idle" /\ pool[p].uid # 0
                        /\ NGoto(p, IF pool[p].state = "live" THEN "parent" ELSE "resolve")
                        /\ UNCHANGED <<cluster, lastUID, placement, pool, made, faults, onMC, api, pr, cr, history>>

\* A NodePool gets its finalizer before anything is done for it.
NRead(p) == /\ nr[p].pc = "idle" /\ pool[p].uid # 0
            /\ IF ~pool[p].fin
                 THEN pool' = [pool EXCEPT ![p].fin = TRUE] /\ UNCHANGED nr
                 ELSE NGoto(p, IF pool[p].state = "live" THEN "parent" ELSE "resolve") /\ UNCHANGED pool
            /\ UNCHANGED <<cluster, lastUID, placement, made, faults, onMC, api, pr, cr, history>>

\* The owner by name, which must have the owner's UID.
Parent(p) == cluster.uid = pool[p].uid

NParent(p) ==
    /\ nr[p].pc = "parent"
    /\ nr' = [nr EXCEPT ![p] = IF Parent(p) /\ cluster.state = "live" /\ cluster.ref # NoMC
                                 THEN [pc |-> "apply", mc |-> cluster.ref] ELSE IdleN]
    /\ UNCHANGED <<cluster, lastUID, placement, pool, made, faults, onMC, api, pr, cr, history>>

NApply(p) == /\ nr[p].pc = "apply"
             /\ Apply(pool[p].uid, nr[p].mc, p)
             /\ NDone(p)
             /\ UNCHANGED <<cluster, lastUID, placement, pool, made, faults, api, pr, cr, history>>

\* reconcileDelete: without a parent or a placementRef there is nothing to take off.
NResolve(p) == /\ nr[p].pc = "resolve"
               /\ nr' = [nr EXCEPT ![p] = IF Parent(p) /\ cluster.ref # NoMC
                                            THEN [pc |-> "delete", mc |-> cluster.ref]
                                            ELSE [IdleN EXCEPT !.pc = "finalize"]]
               /\ UNCHANGED <<cluster, lastUID, placement, pool, made, faults, onMC, api, pr, cr, history>>

NDelete(p) == /\ nr[p].pc = "delete"
              /\ TakeOff(pool[p].uid, nr[p].mc, p)
              /\ IF Off(pool[p].uid, nr[p].mc, p) THEN NGoto(p, "finalize") ELSE NDone(p)
              /\ UNCHANGED <<cluster, lastUID, placement, pool, made, faults, api, pr, cr, history>>

NFinalize(p) == /\ nr[p].pc = "finalize"
                /\ pool' = [pool EXCEPT ![p] = NoPool]
                /\ NDone(p)
                /\ UNCHANGED <<cluster, lastUID, placement, made, faults, onMC, api, pr, cr, history>>

NFails(p) == /\ nr[p].pc # "idle" /\ NDone(p) /\ Fault
             /\ UNCHANGED <<cluster, lastUID, placement, pool, made, onMC, api, pr, cr, history>>

-----------------------------------------------------------------------------
\* kube-applier carries out a desire of type Delete.
Carry == \E x \in onMC : /\ x.going
                         /\ onMC' = onMC \ {x}
                         /\ UNCHANGED <<cluster, lastUID, placement, pool, made, faults, api, pr, cr, nr, history>>

PlacementStep == PRead \/ PGet \/ PCreate \/ PBind \/ PRef
ClusterStep == CRead \/ CPlace \/ CApply \/ CResolve \/ CPools \/ CDelete \/ CCleanup
                 \/ CPlacements \/ CFinalize
PoolStep(p) == NRead(p) \/ NParent(p) \/ NApply(p) \/ NResolve(p) \/ NDelete(p) \/ NFinalize(p)
Request(p) == PoolCheck(p) \/ PoolCreate(p)

Next == \/ CreateCluster \/ DeleteCluster \/ Carry
        \/ PlacementStep \/ PFails \/ ClusterStep \/ CResolveFails \/ CFails
        \/ \E p \in Pools : PoolRead(p) \/ Request(p) \/ DeletePool(p) \/ PoolStep(p) \/ NFails(p)

Spec == Init /\ [][Next]_vars

\* Work queues deliver an object again until it is done with, requests run to
\* their end, and kube-applier works.
FairSpec == /\ Spec
            /\ WF_vars(PlacementStep) /\ WF_vars(ClusterStep) /\ WF_vars(Carry)
            /\ \A p \in Pools : WF_vars(PoolStep(p)) /\ WF_vars(Request(p))

-----------------------------------------------------------------------------
\* When a Cluster is gone, none of its resources is left on any management
\* cluster: not its own, not those of its NodePools, wherever the Placement or
\* placementRef pointed when they were put there (reconcileDelete, both).  The
\* exceptions: a Cluster that was given the placementRef of the Cluster that had
\* its name before (placement_controller.go:139), and one whose Placement could
\* not be read (cluster_controller.go:603).
NoStray == TypeOK /\ \A x \in onMC : x.uid = cluster.uid \/ x.uid \in misled

\* A Cluster and its NodePools are on one management cluster, although one
\* follows the Placement and the others follow placementRef, if that is its own.
OnePlace == \A x, y \in onMC : x.uid = y.uid => x.mc = y.mc \/ x.uid \in misled

\* Placement and NodePools go with their Cluster (placement-controller.md:36:
\* "Owner references ensure Placements are garbage-collected when the Cluster CR
\* is deleted"; seaplane-db collects nothing, cleanupAndRemoveFinalizer does;
\* errorcodes.go:226: "Cannot create a NodePool for a Cluster that is deleting").
\* The exceptions: a Placement that its controller was about to create at the last
\* look, and a NodePool whose request had passed that check.
NoOrphan ==
    /\ placement.uid \in {0, cluster.uid} \/ <<placement.uid, "placement">> \in late
    /\ \A p \in Pools : pool[p].uid \in {0, cluster.uid} \/ <<pool[p].uid, p>> \in late

\* The Placement is removed after everything on the management cluster
\* (cluster-controller.md:119: "Deletion follows a strict ordering"), if it and
\* placementRef could be read.
PlacementLast ==
    [][placement.uid \notin {0} \cup misled /\ placement'.uid # placement.uid
          => \A x \in onMC : x.uid # placement.uid]_vars

\* No deletion is under way, and a Cluster that stays has its resources.
Settled == /\ cluster.state # "deleting"
           /\ cluster.state = "live" => \E x \in onMC : x.uid = cluster.uid /\ x.part = "cluster"

\* What exists belongs to the Cluster there is: its resources, in one place, its
\* Placement and its NodePools (with the exceptions above).
NothingAstray == NoStray /\ OnePlace /\ NoOrphan
=============================================================================
