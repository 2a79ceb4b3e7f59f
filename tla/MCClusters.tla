----------------------------- MODULE MCClusters -----------------------------
(* Clusters on small instances, in two parts that are checked side by side:  *)
(* the life of a Cluster with its Placement and NodePools (ClusterLifecycle) *)
(* and how the desires of one object are carried out (DesireSync).  The      *)
(* variable part says which one a behaviour is about; the other keeps its    *)
(* initial state.                                                            *)
EXTENDS ClusterLifecycle, TLC

CONSTANTS
    Docs, Contents, NoContent, MaxEdits, Quiet  \* of DesireSync

VARIABLES
    part,
    object, edits, table, old, clock, cache, pc, goal, todo, seen, synced, work, target, status

lifeVars == <<cluster, lastUID, placement, pool, made, onMC, api, pr, cr, nr, history>>
syncVars == <<object, edits, table, old, clock, cache, pc, goal, todo, seen, synced, work, target, status>>
allVars == <<part, faults, lifeVars, syncVars>>

Sync == INSTANCE DesireSync

ClustersInit == /\ part \in {"life", "sync"} /\ Init /\ Sync!Init
                /\ part = "life" => object.content = CHOOSE c \in Contents : TRUE

ClustersNext == \/ part = "life" /\ Next /\ UNCHANGED <<part, syncVars>>
                \/ part = "sync" /\ Sync!Next /\ UNCHANGED <<part, lifeVars>>

\* The fairness of each part.
ClustersSpec ==
    /\ ClustersInit /\ [][ClustersNext]_allVars
    /\ WF_vars(part = "life" /\ PlacementStep) /\ WF_vars(part = "life" /\ ClusterStep)
    /\ WF_vars(part = "life" /\ Carry)
    /\ \A p \in Pools : WF_vars(part = "life" /\ PoolStep(p)) /\ WF_vars(part = "life" /\ Request(p))
    /\ WF_syncVars(part = "sync" /\ Sync!Controller)
    /\ \A d \in Docs : /\ WF_syncVars(part = "sync" /\ Sync!Settle(d))
                       /\ WF_syncVars(part = "sync" /\ Sync!Goroutine(d))
                       /\ WF_syncVars(part = "sync" /\ Sync!KubeApplier(d))

\* DesireSync: no resource and no desire is left when the finalizer has gone.
NothingLeftBehind == Sync!NothingLeftBehind


=============================================================================
