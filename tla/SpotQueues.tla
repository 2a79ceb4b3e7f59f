----------------------------- MODULE SpotQueues -----------------------------
(***************************************************************************)
(* A Spot termination queue is used by one Cluster of an account.          *)
(*                                                                         *)
(* A request that gives a Cluster the queue checks the other Clusters,     *)
(* then claims an Index named after the queue and labelled with the name   *)
(* of the Cluster, then writes the Cluster.  A claim whose Cluster does    *)
(* not use the queue may be taken over once it is ten minutes old; a       *)
(* failed creation gives back the claim it made.  Nothing else removes     *)
(* one: not an update to another queue, not the end of the Cluster.        *)
(*                                                                         *)
(* Queues do not interact, so there is one.  The compare-and-swap of       *)
(* seaplane-db is modelled without counting versions: what a request has   *)
(* read stays `fresh' until somebody writes the object.                    *)
(***************************************************************************)
EXTENDS Naturals

CONSTANTS
    Clusters,   \* names of Clusters
    NoOwner,    \* no owner
    Callers,    \* requests at a time
    Attempts    \* attempts of ClaimSpotTerminationQueue

ASSUME NoOwnerIsNone == NoOwner \notin Clusters
ASSUME AttemptsPositive == Attempts \in Nat \ {0}

VARIABLES
    cl,     \* the Clusters: "none", or whether their spec has the queue
    idx,    \* the Index of the queue: its owner, and whether the claim has expired
    rq,     \* the requests
    robbed  \* history: Clusters whose claim one request gave back during another

spotVars == <<cl, idx, rq, robbed>>

Index == [owner : Clusters \cup {NoOwner}, old : BOOLEAN]
NoIndex == [owner |-> NoOwner, old |-> FALSE]
Idle == [pc |-> "idle", kind |-> "create", c |-> NoOwner, want |-> "plain", left |-> 0,
         made |-> FALSE, fresh |-> FALSE, clFresh |-> FALSE, seen |-> NoIndex, alone |-> TRUE]

\* A request: the step it is at, and what it has read and done.
Call ==
    [pc : {"idle", "get", "list", "claim", "look", "refresh", "owner", "reclaim", "save",
           "release", "check", "free"},
     kind : {"create", "update"}, c : Clusters \cup {NoOwner}, want : {"plain", "queue"},
     left : 0 .. Attempts, made : BOOLEAN, fresh : BOOLEAN, clFresh : BOOLEAN, seen : Index,
     alone : BOOLEAN]

SpotTypeOK == /\ robbed \subseteq Clusters
              /\ cl \in [Clusters -> {"none", "plain", "queue"}]
              /\ idx \in Index
              /\ rq \in [Callers -> Call]

SpotInit == /\ cl = [c \in Clusters |-> "none"] /\ idx = NoIndex
            /\ rq = [r \in Callers |-> Idle] /\ robbed = {}

-----------------------------------------------------------------------------
\* The requests after r's has become rec and something was written: what the
\* others have read of the Index, or of Cluster c, is stale.
Move(r, rec) == rq' = [rq EXCEPT ![r] = rec]
WroteIndex(r, rec) == rq' = [q \in Callers |-> IF q = r THEN rec ELSE [rq[q] EXCEPT !.fresh = FALSE]]
WroteCluster(r, c, rec) ==
    rq' = [q \in Callers |-> IF q = r THEN rec
                             ELSE [rq[q] EXCEPT !.clFresh = @ /\ rq[q].c # c]]

At(r, l) == [rq[r] EXCEPT !.pc = l]

\* A request arrives.  alone is history: no other for the Cluster overlaps it.
Start(r) == /\ rq[r].pc = "idle"
            /\ \E c \in Clusters, k \in {"create", "update"}, w \in {"plain", "queue"} :
                  rq' = [q \in Callers |->
                           IF q = r THEN [Idle EXCEPT !.pc = IF k = "update" THEN "get"
                                                             ELSE IF w = "queue" THEN "list" ELSE "save",
                                                      !.kind = k, !.c = c, !.want = w,
                                                      !.alone = \A x \in Callers : rq[x].c # c]
                           ELSE [rq[q] EXCEPT !.alone = @ /\ rq[q].c # c]]
            /\ UNCHANGED <<cl, idx, robbed>>

\* updateOnce reads the Cluster; the queue is only looked at when it is new to it.
Get(r) == /\ rq[r].pc = "get"
          /\ Move(r, IF cl[rq[r].c] = "none" THEN Idle
                     ELSE [rq[r] EXCEPT !.pc = IF rq[r].want = "queue" /\ cl[rq[r].c] = "plain"
                                                 THEN "list" ELSE "save",
                                        !.clFresh = TRUE])
          /\ UNCHANGED <<cl, idx, robbed>>

\* ValidateSpotTerminationHandlerQueueURL against the other Clusters; on a
\* creation there is no other to exclude.
Uses(r) == {c \in Clusters : cl[c] = "queue" /\ (rq[r].kind = "create" \/ c # rq[r].c)}

List(r) == /\ rq[r].pc = "list"
           /\ Move(r, IF Uses(r) # {} THEN Idle ELSE [At(r, "claim") EXCEPT !.left = Attempts])
           /\ UNCHANGED <<cl, idx, robbed>>

-----------------------------------------------------------------------------
(* ClaimSpotTerminationQueue. *)

\* The next attempt, or none: the queue counts as claimed by another.
Again(r) == IF rq[r].left = 1 THEN Idle ELSE [At(r, "claim") EXCEPT !.left = @ - 1, !.fresh = FALSE]

\* It has the claim, and made it or found it.
Claimed(r, made) == [At(r, "save") EXCEPT !.made = made, !.left = 0, !.fresh = FALSE]

Claim(r) == /\ rq[r].pc = "claim"
            /\ IF idx.owner = NoOwner
                 THEN /\ idx' = [owner |-> rq[r].c, old |-> FALSE]
                      /\ WroteIndex(r, Claimed(r, TRUE))
                 ELSE Move(r, At(r, "look")) /\ UNCHANGED idx
            /\ UNCHANGED <<cl, robbed>>

\* The Index that was in the way: its own, one whose owner is to be looked up,
\* or gone.
Look(r) == /\ rq[r].pc = "look"
           /\ Move(r, IF idx.owner = NoOwner THEN Again(r)
                      ELSE IF idx.owner = rq[r].c THEN [At(r, "refresh") EXCEPT !.fresh = TRUE]
                      ELSE [At(r, "owner") EXCEPT !.fresh = TRUE, !.seen = idx])
           /\ UNCHANGED <<cl, idx, robbed>>

\* Its own claim is dated anew.  An Index that is gone is an error.
Refresh(r) == /\ rq[r].pc = "refresh"
              /\ IF rq[r].fresh
                   THEN /\ idx' = [idx EXCEPT !.old = FALSE]
                        /\ WroteIndex(r, Claimed(r, FALSE))
                   ELSE /\ Move(r, IF idx.owner = NoOwner THEN Idle ELSE Again(r))
                        /\ UNCHANGED idx
              /\ UNCHANGED <<cl, robbed>>

\* Another's claim stands while its Cluster uses the queue, and until it is old.
Owner(r) == /\ rq[r].pc = "owner"
            /\ LET seen == rq[r].seen
               IN  Move(r, IF cl[seen.owner] # "queue" /\ seen.old
                             THEN [At(r, "reclaim") EXCEPT !.seen = NoIndex] ELSE Idle)
            /\ UNCHANGED <<cl, idx, robbed>>

\* Mutant: the deletion is unconditional.
Reclaim_Blind(r) == /\ rq[r].pc = "reclaim"
                    /\ idx' = NoIndex /\ WroteIndex(r, Again(r))
                    /\ UNCHANGED <<cl, robbed>>

\* The deletion names the version that was read.
Reclaim(r) == /\ rq[r].pc = "reclaim"
              /\ IF rq[r].fresh THEN idx' = NoIndex /\ WroteIndex(r, Again(r))
                                ELSE Move(r, Again(r)) /\ UNCHANGED idx
              /\ UNCHANGED <<cl, robbed>>

-----------------------------------------------------------------------------
(* The write of the Cluster, and ReleaseSpotTerminationQueue. *)

\* A creation that failed gives back the claim it made.
Failed(r) == IF rq[r].kind = "create" /\ rq[r].made THEN At(r, "release") ELSE Idle

SaveCluster(r) == /\ rq[r].pc = "save"
                  /\ LET c == rq[r].c
                     IN  \/ /\ IF rq[r].kind = "create" THEN cl[c] = "none" ELSE rq[r].clFresh
                            /\ cl' = [cl EXCEPT ![c] = rq[r].want]
                            /\ \/ WroteCluster(r, c, Idle)
                               \/ WroteCluster(r, c, Failed(r))  \* completeClusterCreate, or a lost reply
                         \/ /\ rq[r].kind = "create" /\ cl[c] # "none"
                            /\ Move(r, Failed(r)) /\ UNCHANGED cl
                         \/ /\ rq[r].kind = "update" /\ ~rq[r].clFresh
                            /\ \/ Move(r, Idle)             \* gone, or no attempt left
                               \/ Move(r, [At(r, "get") EXCEPT !.made = FALSE])
                            /\ UNCHANGED cl
                         \/ Move(r, Failed(r)) /\ UNCHANGED cl             \* an error
                  /\ UNCHANGED <<idx, robbed>>

ReadClaim(r) == /\ rq[r].pc = "release"
                /\ Move(r, IF idx.owner = rq[r].c THEN [At(r, "check") EXCEPT !.fresh = TRUE] ELSE Idle)
                /\ UNCHANGED <<cl, idx, robbed>>

\* Mutant: the Cluster is not looked at.
Check_Skip(r) == rq[r].pc = "check" /\ Move(r, At(r, "free")) /\ UNCHANGED <<cl, idx, robbed>>

Check(r) == /\ rq[r].pc = "check"
            /\ Move(r, IF cl[rq[r].c] = "queue" THEN Idle ELSE At(r, "free"))
            /\ UNCHANGED <<cl, idx, robbed>>

FreeClaim(r) == /\ rq[r].pc = "free"
                /\ IF rq[r].fresh
                     THEN /\ idx' = NoIndex /\ WroteIndex(r, Idle)
                          /\ robbed' = robbed \cup (IF rq[r].alone THEN {} ELSE {rq[r].c})
                     ELSE Move(r, Idle) /\ UNCHANGED <<idx, robbed>>
                /\ UNCHANGED cl

-----------------------------------------------------------------------------
\* The process or the connection ends, and the request with it.
Dies(r) == rq[r].pc # "idle" /\ Move(r, Idle) /\ UNCHANGED <<cl, idx, robbed>>

\* A Cluster is deleted and its last finalizer removed.
Remove(c) == /\ cl[c] # "none"
             /\ cl' = [cl EXCEPT ![c] = "none"]
             /\ rq' = [q \in Callers |-> [rq[q] EXCEPT !.clFresh = @ /\ rq[q].c # c]]
             /\ UNCHANGED <<idx, robbed>>

\* Ten minutes pass, which is longer than a request takes.
ClaimAges == /\ idx.owner # NoOwner /\ ~idx.old
             /\ \A q \in Callers : rq[q].c = idx.owner => rq[q].pc \notin {"save", "release", "check", "free"}
             /\ idx' = [idx EXCEPT !.old = TRUE]
             /\ UNCHANGED <<cl, rq, robbed>>

Work(r) == \/ Get(r) \/ List(r) \/ Claim(r) \/ Look(r) \/ Refresh(r) \/ Owner(r) \/ Reclaim(r)
           \/ SaveCluster(r) \/ ReadClaim(r) \/ Check(r) \/ FreeClaim(r)

SpotNext == \/ \E r \in Callers : Start(r) \/ Work(r) \/ Dies(r)
            \/ \E c \in Clusters : Remove(c)
            \/ ClaimAges

SpotSpec == SpotInit /\ [][SpotNext]_spotVars

-----------------------------------------------------------------------------
\* A Cluster that uses the queue holds its claim, whatever expired, was taken
\* over or given back meanwhile (client.go:130: "atomically reserves a customer
\* SQS queue URL for a Cluster").  The exception: a claim names a Cluster and not
\* a request, so of two requests for one Cluster the first that fails gives back
\* the claim on which the other relies.
ClaimBacked == SpotTypeOK /\ \A c \in Clusters \ robbed : cl[c] = "queue" => idx.owner = c

\* A claim stays with its request until the Cluster is written, although it may
\* be taken over by who finds the Cluster without the queue (with the same
\* exception).
HeldWhileSaving ==
    \A r \in Callers : /\ rq[r].pc = "save" /\ rq[r].want = "queue"
                       /\ rq[r].kind = "create" \/ rq[r].clFresh
                       /\ rq[r].c \notin robbed
                       => idx.owner = rq[r].c

\* The queue is held by the Cluster that uses it and by the request that is about
\* to give it to one.
SpotClaimHeld == ClaimBacked /\ HeldWhileSaving

-----------------------------------------------------------------------------
(* The inductive invariant. *)

\* What request x may rely on: at "save" its claim is younger than what may be
\* taken over, or its Cluster shows that it is in use; what it has read of the
\* Index still holds while it is fresh; who takes a claim over takes one that
\* is old and not in use; and who gives one back without a rival gives back
\* one that its Cluster does not use.
Sound(x) ==
    /\ x.pc = "idle" <=> x.c = NoOwner
    /\ x.pc = "get" => x.kind = "update"
    /\ x.pc \in {"claim", "look", "refresh", "owner", "reclaim"} => x.left > 0
    /\ x.pc = "save" /\ x.want = "queue" /\ x.c \notin robbed =>
         /\ x.kind = "create" => idx.owner = x.c /\ ~idx.old
         /\ x.kind = "update" /\ x.clFresh => idx.owner = x.c /\ (idx.old => cl[x.c] = "queue")
    /\ x.fresh /\ x.pc \in {"refresh", "check", "free"} => idx.owner = x.c
    /\ x.fresh /\ x.pc = "owner" => x.seen.owner = idx.owner /\ (x.seen.old => idx.old)
    /\ x.fresh /\ x.pc = "reclaim" /\ idx.owner \notin robbed => idx.old /\ cl[idx.owner] # "queue"
    /\ x.pc = "free" /\ x.alone => cl[x.c] # "queue"

\* The other requests are for other Clusters.
NoRival(r) == \A q \in Callers : q # r => rq[q].c # rq[r].c

\* Claims are backed, and every request relies on what is so.
SpotInv == /\ ClaimBacked
           /\ \A r \in Callers : Sound(rq[r]) /\ (rq[r].pc # "idle" /\ rq[r].alone => NoRival(r))
=============================================================================
