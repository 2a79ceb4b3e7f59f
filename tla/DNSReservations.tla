-------------------------- MODULE DNSReservations --------------------------
(***************************************************************************)
(* How a DNSReservation gets a base domain nobody else has.                *)
(*                                                                         *)
(* A domain is taken by creating an Index named after its prefix: the      *)
(* primary key of the table lets one creation succeed.  The Index carries  *)
(* the UID of its reservation, so that a reconcile that finds the status   *)
(* empty can recover what an earlier one took.  Operator pods own          *)
(* namespaces by their hash; while a new number of replicas is rolled out  *)
(* two pods may own one.                                                   *)
(*                                                                         *)
(* A pod handles a reservation once at a time.  Every read and write is a  *)
(* step of its own; RetryOnConflict makes a re-read and its write one.  An *)
(* Index is deleted by the UID that was read, which is modelled without    *)
(* counting UIDs: what a reconcile has listed is forgotten to be the same  *)
(* when the prefix is taken again.                                         *)
(***************************************************************************)
EXTENDS Naturals, FiniteSets, FiniteSetsExt

CONSTANTS
    Names,     \* names of DNSReservations
    Prefixes,  \* prefixes, as numbers in their order as strings
    Pods,      \* operator pods, as numbers
    Owners,    \* those that own the namespace of each reservation
    MaxUID,    \* bound: reservations created
    Attempts,  \* dnsReservationAllocationAttempts
    MaxFaults  \* bound: calls that fail, restarts, and reconciles during another pod's

ASSUME PodsNat == Pods \subseteq Nat /\ Owners \in [Names -> SUBSET Pods]
ASSUME PrefixesNat == Prefixes \subseteq Nat \ {0} /\ IsFiniteSet(Prefixes)
ASSUME BoundsNat == MaxUID \in Nat /\ Attempts \in Nat \ {0} /\ MaxFaults \in Nat

NoPrefix == 0

VARIABLES
    rsv,     \* DNSReservations, by name
    lastUID, \* UIDs handed out to reservations
    index,   \* Index objects, by prefix: the UID of their owner, or 0
    rc,      \* the reconcile of each pod for each reservation
    faults,  \* faults so far
    shared   \* history: reservations that two pods reconciled at the same time

vars == <<rsv, lastUID, index, rc, faults, shared>>

NoRsv == [uid |-> 0, state |-> "none", fin |-> FALSE, ready |-> FALSE, domain |-> NoPrefix]
NoIndex == 0
Idle == [pc |-> "idle", uid |-> 0, left |-> 0, idx |-> NoPrefix, todo |-> {}, stale |-> {}]

UIDs == 0 .. MaxUID

Reservations == [uid : UIDs, state : {"none", "live", "deleting"}, fin : BOOLEAN,
                 ready : BOOLEAN, domain : Prefixes \cup {NoPrefix}]
Reconciles == [pc : {"idle", "recover", "create", "collide", "verify", "list", "prune", "status",
                     "pending", "own", "drop", "confirm", "finalize"},
               uid : UIDs, left : 0 .. Attempts, idx : Prefixes \cup {NoPrefix},
               todo : SUBSET Prefixes, stale : SUBSET Prefixes]

TypeOK ==
    /\ rsv \in [Names -> Reservations]
    /\ lastUID \in UIDs /\ shared \subseteq UIDs /\ faults \in 0 .. MaxFaults
    /\ index \in [Prefixes -> UIDs]
    /\ rc \in [Pods -> [Names -> Reconciles]]

Init == /\ rsv = [n \in Names |-> NoRsv] /\ lastUID = 0
        /\ index = [p \in Prefixes |-> NoIndex] /\ shared = {}
        /\ rc = [w \in Pods |-> [n \in Names |-> Idle]] /\ faults = 0

-----------------------------------------------------------------------------
(* The API. *)

Create(n) == /\ rsv[n].uid = 0 /\ lastUID < MaxUID
             /\ lastUID' = lastUID + 1
             /\ rsv' = [rsv EXCEPT ![n] = [NoRsv EXCEPT !.uid = lastUID + 1, !.state = "live"]]
             /\ UNCHANGED <<index, rc, faults, shared>>

\* Of a reservation no Cluster has claimed.  Without a finalizer the row goes at once.
Delete(n) == /\ rsv[n].state = "live"
             /\ rsv' = [rsv EXCEPT ![n] = IF @.fin THEN [@ EXCEPT !.state = "deleting"] ELSE NoRsv]
             /\ UNCHANGED <<lastUID, index, rc, faults, shared>>

-----------------------------------------------------------------------------
(* DNSReservationReconciler. *)

Step(w, n, rec) == rc' = [rc EXCEPT ![w][n] = rec]
Goto(w, n, l) == Step(w, n, [rc[w][n] EXCEPT !.pc = l])
Done(w, n) == Step(w, n, Idle)

\* Pods are alike: a reconcile is given to the first that has none of n.
Free(w, n) == rc[w][n].pc = "idle" /\ \A v \in Pods : v < w => rc[v][n].pc # "idle"

\* History: another pod has a reconcile of n under way, one of the faults allowed.
Shared(w, n) ==
    IF \A v \in Pods \ {w} : rc[v][n].pc = "idle" THEN UNCHANGED <<faults, shared>>
    ELSE faults < MaxFaults /\ faults' = faults + 1 /\ shared' = shared \cup {rsv[n].uid}

\* Mutant: no finalizer is added.
Read_NoFinalizer(w, n) ==
    /\ Free(w, n) /\ rsv[n].uid # 0
    /\ Step(w, n, [Idle EXCEPT !.pc = IF rsv[n].state = "live" THEN "recover" ELSE "own", !.uid = rsv[n].uid])
    /\ Shared(w, n)
    /\ UNCHANGED <<rsv, lastUID, index>>

\* Mutant: a reconcile starts with the status Pending.
Read_Pending(w, n) ==
    /\ Free(w, n) /\ rsv[n].uid # 0
    /\ IF rsv[n].state = "live" /\ ~rsv[n].fin
         THEN rsv' = [rsv EXCEPT ![n].fin = TRUE] /\ UNCHANGED rc
         ELSE /\ Step(w, n, [Idle EXCEPT !.pc = IF rsv[n].state = "live" THEN "recover" ELSE "own",
                                         !.uid = rsv[n].uid])
              /\ rsv' = [rsv EXCEPT ![n].ready = FALSE, ![n].domain = NoPrefix]
    /\ Shared(w, n)
    /\ UNCHANGED <<lastUID, index>>

Read(w, n) ==
    /\ Free(w, n) /\ rsv[n].uid # 0
    /\ IF rsv[n].state = "live" /\ ~rsv[n].fin
         THEN rsv' = [rsv EXCEPT ![n].fin = TRUE] /\ UNCHANGED rc
         ELSE /\ Step(w, n, [Idle EXCEPT !.pc = IF rsv[n].state = "live" THEN "recover" ELSE "own",
                                         !.uid = rsv[n].uid])
              /\ UNCHANGED rsv
    /\ Shared(w, n)
    /\ UNCHANGED <<lastUID, index>>

\* listOwnedIndexes.
Owned(u) == {p \in Prefixes : index[p] = u}

\* recoverOwnedIndex: the first one by name.
Recover(w, n) ==
    /\ rc[w][n].pc = "recover"
    /\ LET own == Owned(rc[w][n].uid)
       IN  Step(w, n, IF own = {} THEN [rc[w][n] EXCEPT !.pc = "create", !.left = Attempts]
                                  ELSE [rc[w][n] EXCEPT !.pc = "list", !.idx = Min(own)])
    /\ UNCHANGED <<rsv, lastUID, index, faults, shared>>

\* The Index of p is created; who wants to delete the one it had finds another.
Take(p, u, w, n, rec) ==
    /\ index' = [index EXCEPT ![p] = u]
    /\ rc' = [v \in Pods |-> [m \in Names |->
                IF <<v, m>> = <<w, n>> THEN rec
                ELSE [rc[v][m] EXCEPT !.stale = @ \cup (rc[v][m].todo \cap {p})]]]

\* Mutant: the same prefix is drawn every time.
CreateIndex_SamePrefix(w, n) ==
    /\ rc[w][n].pc = "create"
    /\ LET p == Min(Prefixes)
       IN  IF index[p] = NoIndex
             THEN Take(p, rc[w][n].uid, w, n, [rc[w][n] EXCEPT !.pc = "verify"])
             ELSE Step(w, n, [rc[w][n] EXCEPT !.pc = "collide", !.idx = p]) /\ UNCHANGED index
    /\ UNCHANGED <<rsv, lastUID, faults, shared>>

\* allocateIndex: create the Index of a random prefix.  The reply may be lost.
CreateIndex(w, n) ==
    /\ rc[w][n].pc = "create"
    /\ \E p \in Prefixes :
          \/ /\ index[p] = NoIndex
             /\ \/ Take(p, rc[w][n].uid, w, n, [rc[w][n] EXCEPT !.pc = "verify"]) /\ UNCHANGED faults
                \/ Take(p, rc[w][n].uid, w, n, Idle) /\ faults < MaxFaults /\ faults' = faults + 1
          \/ /\ index[p] # NoIndex
             /\ Step(w, n, [rc[w][n] EXCEPT !.pc = "collide", !.idx = p])
             /\ UNCHANGED <<index, faults>>
    /\ UNCHANGED <<rsv, lastUID, shared>>

\* Mutant: whose the prefix is does not matter.
Collide_Adopt(w, n) ==
    /\ rc[w][n].pc = "collide" /\ Goto(w, n, "list")
    /\ UNCHANGED <<rsv, lastUID, index, faults, shared>>

\* The prefix was taken: by this reservation, or by another, or it is free again.
Collide(w, n) ==
    /\ rc[w][n].pc = "collide"
    /\ LET i == index[rc[w][n].idx]
       IN  \/ i = rc[w][n].uid /\ Goto(w, n, "verify")
           \/ i = NoIndex /\ Done(w, n)
           \/ /\ i \notin {NoIndex, rc[w][n].uid}
              /\ Step(w, n, [rc[w][n] EXCEPT !.pc = IF rc[w][n].left = 1 THEN "pending" ELSE "create",
                                             !.left = @ - 1])
    /\ UNCHANGED <<rsv, lastUID, index, faults, shared>>

\* recoverOwnedIndex after the creation.
Verify(w, n) ==
    /\ rc[w][n].pc = "verify"
    /\ LET own == Owned(rc[w][n].uid)
       IN  IF own = {} THEN Done(w, n)
                       ELSE Step(w, n, [rc[w][n] EXCEPT !.pc = "list", !.idx = Min(own)])
    /\ UNCHANGED <<rsv, lastUID, index, faults, shared>>

\* deleteDuplicateOwnedIndexes: all but the chosen one.
ListDuplicates(w, n) ==
    /\ rc[w][n].pc = "list"
    /\ LET dup == Owned(rc[w][n].uid) \ {rc[w][n].idx}
       IN  Step(w, n, [rc[w][n] EXCEPT !.pc = "prune", !.todo = dup])
    /\ UNCHANGED <<rsv, lastUID, index, faults, shared>>

\* A deletion names the UID it has read: gone is fine, another Index is an error.
DeleteIndex(w, n, next) ==
    /\ \/ rc[w][n].todo = {} /\ Goto(w, n, next) /\ UNCHANGED index
       \/ \E p \in rc[w][n].todo :
             \/ /\ index[p] = NoIndex \/ p \notin rc[w][n].stale
                /\ index' = [index EXCEPT ![p] = NoIndex]
                /\ Step(w, n, [rc[w][n] EXCEPT !.todo = @ \ {p}, !.stale = @ \ {p}])
             \/ index[p] # NoIndex /\ p \in rc[w][n].stale /\ Done(w, n) /\ UNCHANGED index
    /\ UNCHANGED <<rsv, lastUID, faults, shared>>

Prune(w, n) == rc[w][n].pc = "prune" /\ DeleteIndex(w, n, "status")

\* updateReservationStatus, of the reservation as it is now.
SetStatus(n, u, ready, domain) ==
    rsv' = IF rsv[n].uid = u /\ rsv[n].state = "live"
             THEN [rsv EXCEPT ![n].ready = ready, ![n].domain = domain] ELSE rsv

MarkReady(w, n) == /\ rc[w][n].pc = "status"
                   /\ SetStatus(n, rc[w][n].uid, TRUE, rc[w][n].idx)
                   /\ Done(w, n)
                   /\ UNCHANGED <<lastUID, index, faults, shared>>

MarkPending(w, n) == /\ rc[w][n].pc = "pending"
                     /\ SetStatus(n, rc[w][n].uid, FALSE, NoPrefix)
                     /\ Done(w, n)
                     /\ UNCHANGED <<lastUID, index, faults, shared>>

\* reconcileDelete: list, delete, list again, and remove the finalizer.
ListOwned(w, n) ==
    /\ rc[w][n].pc = "own"
    /\ Step(w, n, [rc[w][n] EXCEPT !.pc = "drop",
                                   !.todo = Owned(rc[w][n].uid)])
    /\ UNCHANGED <<rsv, lastUID, index, faults, shared>>

Drop(w, n) == rc[w][n].pc = "drop" /\ DeleteIndex(w, n, "confirm")

Confirm(w, n) ==
    /\ rc[w][n].pc = "confirm"
    /\ IF Owned(rc[w][n].uid) = {} THEN Goto(w, n, "finalize") ELSE Done(w, n)
    /\ UNCHANGED <<rsv, lastUID, index, faults, shared>>

Finalize(w, n) ==
    /\ rc[w][n].pc = "finalize"
    /\ rsv' = IF rsv[n].uid = rc[w][n].uid THEN [rsv EXCEPT ![n] = NoRsv] ELSE rsv
    /\ Done(w, n)
    /\ UNCHANGED <<lastUID, index, faults, shared>>

\* A call fails or the pod restarts: the reservation is reconciled again.
Fails(w, n) == /\ rc[w][n].pc # "idle" /\ Done(w, n)
               /\ faults < MaxFaults /\ faults' = faults + 1
               /\ UNCHANGED <<rsv, lastUID, index, shared>>

Reconcile(w, n) == \/ Read(w, n) \/ Recover(w, n) \/ CreateIndex(w, n) \/ Collide(w, n)
                   \/ Verify(w, n) \/ ListDuplicates(w, n) \/ Prune(w, n)
                   \/ MarkReady(w, n) \/ MarkPending(w, n)
                   \/ ListOwned(w, n) \/ Drop(w, n) \/ Confirm(w, n) \/ Finalize(w, n)

Next == \E n \in Names : \/ Create(n) \/ Delete(n)
                         \/ \E w \in Owners[n] : Reconcile(w, n) \/ Fails(w, n)

Spec == Init /\ [][Next]_vars

\* Work queues and the periodic requeue reconcile every reservation again, and
\* a free prefix is drawn some time.
FairSpec == /\ Spec
            /\ \A n \in Names : \A w \in Owners[n] :
                  /\ WF_vars(Reconcile(w, n))
                  /\ SF_vars(CreateIndex(w, n) /\ index' # index)

-----------------------------------------------------------------------------
\* The domain in the status of a live reservation is an Index it owns, so that no
\* two are Ready with one (the controller's comment: "assigns a shard-unique base
\* domain to a customer reservation").  Two pods that reconcile a reservation at
\* the same time may delete each other's Index; others are not affected.
ReadyIsOwned ==
    /\ TypeOK
    /\ \A n \in Names : rsv[n].ready /\ rsv[n].state = "live" /\ rsv[n].uid \notin shared
                         => index[rsv[n].domain] = rsv[n].uid

\* No Index outlives its reservation, whatever failed between its creation and
\* the finalizer, unless a second pod was still creating it.
NoLeak == \A p \in Prefixes : index[p] \in {NoIndex} \cup shared \cup {rsv[n].uid : n \in Names}

\* A reservation that is Ready keeps its domain, which Clusters copy to their
\* status, unless two pods choose it.
DomainStable == [][\A n \in Names : rsv[n].ready /\ rsv'[n].uid = rsv[n].uid /\ rsv[n].uid \notin shared
                                      => rsv'[n].domain = rsv[n].domain]_vars

\* Neither the allocation nor the deletion of a reservation goes on for ever: it
\* becomes Ready while there are prefixes, and goes once it is deleted.
Settles ==
    \A n \in Names :
        LET busy == \/ rsv[n].state = "deleting"
                    \/ rsv[n].state = "live" /\ ~rsv[n].ready
        IN  busy ~> ~busy

\* Ready reservations and Indexes agree: a Ready one owns its Index, and an Index
\* has its reservation (allocateIndex, reconcileDelete).
DomainsConsistent == ReadyIsOwned /\ NoLeak

-----------------------------------------------------------------------------
(* What DomainsConsistent and DomainStable rest on: the inductive invariant. *)

Working(w, n) == rc[w][n].pc # "idle"

\* A live reservation that one pod at a time has reconciled.
Alone(n) == rsv[n].state = "live" /\ rsv[n].uid \notin shared

\* UIDs are handed out once, and never to two names.
UIDsApart ==
    /\ shared \subseteq 1 .. lastUID
    /\ \A p \in Prefixes : index[p] <= lastUID
    /\ \A n \in Names : /\ rsv[n].uid <= lastUID /\ (rsv[n].uid = 0 <=> rsv[n].state = "none")
                        /\ \A w \in Pods : rc[w][n].uid <= lastUID
    /\ \A n, m \in Names : n # m =>
          /\ rsv[n].uid = rsv[m].uid => rsv[n].uid = 0
          /\ \A w \in Pods : Working(w, n) => rc[w][n].uid # rsv[m].uid
          /\ \A w, v \in Pods : Working(w, n) /\ Working(v, m) => rc[w][n].uid # rc[v][m].uid

\* A reservation that has an Index has the finalizer, and one that is Ready has
\* the Index of its domain and no other.
ReservationSound(n) ==
    /\ rsv[n].state = "deleting" \/ Owned(rsv[n].uid) # {} => rsv[n].fin \/ rsv[n].uid = 0
    /\ rsv[n].ready /\ Alone(n) => Owned(rsv[n].uid) = {rsv[n].domain}

\* A reconcile is of the reservation that exists, which it keeps from going, or
\* of one that another pod has reconciled too.  What it is about to delete, and
\* nobody has taken since, is its own.
ReconcileSound(w, n) ==
    LET r == rc[w][n]  IN
    Working(w, n) =>
        /\ r.uid # 0 /\ (r.uid = rsv[n].uid \/ r.uid \in shared)
        /\ \A v \in Pods \ {w} : Working(v, n) /\ rc[v][n].uid = r.uid => r.uid \in shared
        /\ r.uid = rsv[n].uid =>
              rsv[n].fin /\ (r.pc \in {"own", "drop", "confirm", "finalize"} => rsv[n].state = "deleting")
        /\ r.pc \in {"create", "collide"} => r.left > 0
        /\ r.pc \notin {"prune", "drop"} => r.todo = {}
        /\ \A p \in r.todo \ r.stale : index[p] \in {NoIndex, r.uid}
        /\ r.pc = "finalize" /\ r.uid \notin shared => Owned(r.uid) = {}

\* A reconcile that allocates has found no Index, or has chosen one, and keeps
\* that one when it deletes the others.
AllocationSound(w, n) ==
    LET r == rc[w][n]  IN
    Alone(n) /\ Working(w, n) /\ r.uid = rsv[n].uid =>
        /\ r.pc \in {"create", "collide", "verify", "pending"} => ~rsv[n].ready
        /\ r.pc \in {"list", "prune", "status"} => /\ r.idx \in Owned(r.uid)
                                                   /\ rsv[n].ready => r.idx = rsv[n].domain
        /\ r.pc = "prune" => r.todo = Owned(r.uid) \ {r.idx}
        /\ r.pc = "status" => Owned(r.uid) = {r.idx}

DomainsInv == /\ TypeOK /\ UIDsApart /\ NoLeak
              /\ \A n \in Names : /\ ReservationSound(n)
                                  /\ \A w \in Pods : ReconcileSound(w, n) /\ AllocationSound(w, n)
=============================================================================
