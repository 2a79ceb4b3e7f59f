----------------------- MODULE DNSReservationsProofs -----------------------
(***************************************************************************)
(* Proof, for any number of reservations, prefixes, pods and faults, that  *)
(* reservations and their Indexes agree and that a Ready reservation keeps *)
(* its domain.                                                             *)
(***************************************************************************)
EXTENDS DNSReservations, WellFoundedInduction, TLAPS

\* The first of some prefixes is one of them (recoverOwnedIndex).
LEMMA FirstIsOne ==
    ASSUME NEW S \in SUBSET Prefixes, S # {}
    PROVE  Min(S) \in S
  <1>1. S \subseteq Nat
    BY PrefixesNat
  <1>2. PICK x \in S : \A y \in S : ~(<<y, x>> \in OpToRel(<, Nat))
    BY <1>1, NatLessThanWellFounded, WFMin, Zenon
  <1>3. ASSUME NEW y \in S PROVE x <= y
    <2>1. y \in Nat /\ x \in Nat
      BY <1>1
    <2>2. y < x => <<y, x>> \in OpToRel(<, Nat)
      BY <2>1, Zenon DEF OpToRel
    <2>3. ~(y < x)
      BY <1>2, <2>2, Zenon
    <2>. QED
      BY <2>1, <2>3
  <1>. QED
    BY <1>3 DEF Min

\* A reconcile that does nothing.
LEMMA IdleTyped ==
    Idle \in Reconciles /\ Idle.pc = "idle" /\ Idle.uid = 0
    /\ Attempts \in 0 .. Attempts /\ Attempts > 0
  BY BoundsNat DEF Idle, Reconciles, UIDs, NoPrefix

\* A step of a reconcile changes no other.
LEMMA StepEffect ==
    ASSUME TypeOK, NEW w \in Pods, NEW n \in Names, NEW rec \in Reconciles, Step(w, n, rec)
    PROVE  /\ rc' \in [Pods -> [Names -> Reconciles]] /\ rc'[w][n] = rec
           /\ \A v \in Pods, m \in Names : v # w \/ m # n => rc'[v][m] = rc[v][m]
  <1>1. rc \in [Pods -> [Names -> Reconciles]]
    BY DEF TypeOK
  <1>. QED
    BY <1>1 DEF Step

-----------------------------------------------------------------------------
(* What a step leaves alone stays sound. *)

\* A reservation goes or keeps its UID, and a reconcile ends, keeps its UID or
\* has that of its reservation.
LEMMA ApartStays ==
    ASSUME DomainsInv, lastUID' = lastUID, shared' \subseteq 1 .. lastUID,
           \A p \in Prefixes : index'[p] <= lastUID,
           \A m \in Names : \/ rsv'[m].uid = rsv[m].uid /\ (rsv'[m].state = "none" <=> rsv[m].state = "none")
                            \/ rsv'[m].uid = 0 /\ rsv'[m].state = "none",
           \A v \in Pods, m \in Names :
              \/ rc'[v][m].uid = rc[v][m].uid /\ (Working(v, m)' => Working(v, m))
              \/ rc'[v][m].uid = 0 /\ ~Working(v, m)'
              \/ rc'[v][m].uid = rsv[m].uid /\ rsv[m].uid # 0
    PROVE  UIDsApart'
  <1>1. UIDsApart /\ lastUID \in UIDs
    BY DEF DomainsInv, TypeOK
  <1>2. 0 <= lastUID
    BY <1>1, BoundsNat DEF UIDs
  <1>3. \A m \in Names : /\ rsv'[m].uid <= lastUID /\ (rsv'[m].uid = 0 <=> rsv'[m].state = "none")
                         /\ \A v \in Pods : rc'[v][m].uid <= lastUID
    BY <1>1, <1>2, Zenon DEF UIDsApart
  <1>4. ASSUME NEW v \in Pods, NEW m \in Names, Working(v, m)'
        PROVE  /\ rc'[v][m].uid # 0
               /\ (Working(v, m) /\ rc'[v][m].uid = rc[v][m].uid) \/ rc'[v][m].uid = rsv[m].uid
    <2>1. Working(v, m) => rc[v][m].uid # 0
      BY Zenon DEF DomainsInv, ReconcileSound
    <2>2. \/ rc'[v][m].uid = rc[v][m].uid /\ Working(v, m)
          \/ rc'[v][m].uid = rsv[m].uid /\ rsv[m].uid # 0
      BY <1>4, Zenon
    <2>. QED
      BY <2>1, <2>2, Zenon
  <1>5. ASSUME NEW n \in Names, NEW m \in Names, n # m
        PROVE  /\ rsv'[n].uid = rsv'[m].uid => rsv'[n].uid = 0
               /\ \A w \in Pods : Working(w, n)' => rc'[w][n].uid # rsv'[m].uid
               /\ \A w, v \in Pods : Working(w, n)' /\ Working(v, m)' => rc'[w][n].uid # rc'[v][m].uid
    <2>1. /\ rsv[n].uid = rsv[m].uid => rsv[n].uid = 0
          /\ \A w \in Pods : Working(w, n) => rc[w][n].uid # rsv[m].uid
          /\ \A v \in Pods : Working(v, m) => rc[v][m].uid # rsv[n].uid
          /\ \A w, v \in Pods : Working(w, n) /\ Working(v, m) => rc[w][n].uid # rc[v][m].uid
      BY <1>1, <1>5 DEF UIDsApart
    <2>2. rsv'[n].uid \in {0, rsv[n].uid} /\ rsv'[m].uid \in {0, rsv[m].uid}
      BY Zenon
    <2>3. ASSUME NEW w \in Pods, Working(w, n)' PROVE rc'[w][n].uid # rsv'[m].uid
      BY <1>4, <2>1, <2>2, <2>3
    <2>4. ASSUME NEW w \in Pods, NEW v \in Pods, Working(w, n)', Working(v, m)'
          PROVE  rc'[w][n].uid # rc'[v][m].uid
      BY <1>4, <2>1, <2>4
    <2>. QED
      BY <2>1, <2>2, <2>3, <2>4, Zenon
  <1>. QED
    BY <1>3, <1>5, Zenon DEF UIDsApart

\* Nothing happens to the reservation but that it gets the finalizer or is deleted.
LEMMA ReservationKept ==
    ASSUME NEW m \in Names, ReservationSound(m), rsv'[m].uid = rsv[m].uid, rsv[m].fin => rsv'[m].fin,
           rsv'[m].state = "deleting" => rsv[m].state = "deleting" \/ rsv'[m].fin,
           Alone(m)' => Alone(m) /\ rsv'[m].ready = rsv[m].ready /\ rsv'[m].domain = rsv[m].domain,
           rsv[m].uid = 0 \/ (\A q \in Prefixes : index'[q] = rsv[m].uid <=> index[q] = rsv[m].uid),
           rsv[m].uid = 0 => rsv[m].state = "none" /\ rsv'[m].state = "none"
    PROVE  ReservationSound(m)'
  <1>1. CASE rsv[m].uid = 0
    BY <1>1, Zenon DEF ReservationSound, Alone
  <1>2. CASE rsv[m].uid # 0
    <2>1. {q \in Prefixes : index'[q] = rsv[m].uid} = Owned(rsv[m].uid)
      BY <1>2, Zenon DEF Owned
    <2>2. Owned(rsv[m].uid)' = Owned(rsv[m].uid)
      BY <2>1, Zenon DEF Owned
    <2>3. rsv'[m].state = "deleting" \/ Owned(rsv[m].uid) # {} => rsv'[m].fin \/ rsv[m].uid = 0
      BY Zenon DEF ReservationSound
    <2>4. rsv'[m].ready /\ Alone(m)' => Owned(rsv[m].uid) = {rsv'[m].domain}
      BY Zenon DEF ReservationSound
    <2>. QED
      BY <2>2, <2>3, <2>4, Zenon DEF ReservationSound
  <1>. QED
    BY <1>1, <1>2

\* A reconcile goes on with what it has listed, and its reservation is there, or
\* another pod has reconciled it too.
LEMMA ReconcileKept ==
    ASSUME NEW v \in Pods, NEW m \in Names, ReconcileSound(v, m), Working(v, m)' => Working(v, m),
           Working(v, m)' =>
              /\ rc'[v][m].pc = rc[v][m].pc /\ rc'[v][m].uid = rc[v][m].uid
              /\ rc'[v][m].left = rc[v][m].left /\ rc'[v][m].todo = rc[v][m].todo,
           shared \subseteq shared',
           \/ /\ rsv'[m].uid = rsv[m].uid /\ (rsv[m].fin => rsv'[m].fin)
              /\ rsv[m].state = "deleting" => rsv'[m].state = "deleting"
           \/ rsv'[m].uid # rc[v][m].uid /\ (rsv[m].uid = rc[v][m].uid => rc[v][m].uid \in shared),
           Working(v, m)' =>
              /\ \A z \in Pods \ {v} : Working(z, m)' /\ rc'[z][m].uid = rc[v][m].uid => rc[v][m].uid \in shared'
              /\ \A q \in rc[v][m].todo \ rc'[v][m].stale : index'[q] \in {NoIndex, rc[v][m].uid}
              /\ rc[v][m].uid \in shared' \/ (\A q \in Prefixes : index'[q] = rc[v][m].uid => index[q] = rc[v][m].uid)
    PROVE  ReconcileSound(v, m)'
  <1>. DEFINE u == rc[v][m].uid
  <1>1. SUFFICES ASSUME Working(v, m)' PROVE ReconcileSound(v, m)'
    BY Zenon DEF ReconcileSound
  <1>2. Working(v, m)
    BY <1>1
  <1>3. u # 0 /\ (u = rsv'[m].uid \/ u \in shared')
    BY <1>2, Zenon DEF ReconcileSound
  <1>4. u = rsv'[m].uid => u = rsv[m].uid /\ (rsv[m].fin => rsv'[m].fin)
                           /\ (rsv[m].state = "deleting" => rsv'[m].state = "deleting")
    BY Zenon
  <1>5. u = rsv'[m].uid =>
           rsv'[m].fin /\ (rc[v][m].pc \in {"own", "drop", "confirm", "finalize"} => rsv'[m].state = "deleting")
    BY <1>2, <1>4, Zenon DEF ReconcileSound
  <1>6. /\ rc[v][m].pc \in {"create", "collide"} => rc[v][m].left > 0
        /\ rc[v][m].pc \notin {"prune", "drop"} => rc[v][m].todo = {}
    BY <1>2, Zenon DEF ReconcileSound
  <1>7. rc[v][m].pc = "finalize" /\ u \notin shared' => {q \in Prefixes : index'[q] = u} = {}
    <2>1. SUFFICES ASSUME rc[v][m].pc = "finalize", u \notin shared', NEW q \in Prefixes PROVE index'[q] # u
      BY Zenon
    <2>2. u \notin shared
      BY <2>1, Zenon
    <2>3. Owned(u) = {}
      BY <1>2, <2>1, <2>2, Zenon DEF ReconcileSound
    <2>. QED
      BY <1>1, <2>1, <2>3, Zenon DEF Owned
  <1>. QED
    BY <1>1, <1>3, <1>5, <1>6, <1>7, Zenon DEF ReconcileSound, Owned

\* An allocation goes on if the reservation is still that of one pod, with the same
\* status and Indexes.
LEMMA AllocationKept ==
    ASSUME NEW v \in Pods, NEW m \in Names, AllocationSound(v, m), Working(v, m)' => Working(v, m),
           Alone(m)' /\ Working(v, m)' /\ rsv'[m].uid = rc[v][m].uid =>
              /\ Alone(m) /\ rsv[m].uid = rc[v][m].uid
              /\ rsv'[m].ready = rsv[m].ready /\ rsv'[m].domain = rsv[m].domain
              /\ \A q \in Prefixes : index'[q] = rc[v][m].uid <=> index[q] = rc[v][m].uid,
           Working(v, m)' =>
              /\ rc'[v][m].pc = rc[v][m].pc /\ rc'[v][m].uid = rc[v][m].uid
              /\ rc'[v][m].idx = rc[v][m].idx /\ rc'[v][m].todo = rc[v][m].todo
    PROVE  AllocationSound(v, m)'
  <1>. DEFINE u == rc[v][m].uid
  <1>1. SUFFICES ASSUME Alone(m)', Working(v, m)', rsv'[m].uid = u PROVE AllocationSound(v, m)'
    BY Zenon DEF AllocationSound
  <1>2. {q \in Prefixes : index'[q] = u} = Owned(u)
    BY <1>1, Zenon DEF Owned
  <1>3. /\ rc[v][m].pc \in {"create", "collide", "verify", "pending"} => ~rsv[m].ready
        /\ rc[v][m].pc \in {"list", "prune", "status"} => /\ rc[v][m].idx \in Owned(u)
                                                          /\ rsv[m].ready => rc[v][m].idx = rsv[m].domain
        /\ rc[v][m].pc = "prune" => rc[v][m].todo = Owned(u) \ {rc[v][m].idx}
        /\ rc[v][m].pc = "status" => Owned(u) = {rc[v][m].idx}
    BY <1>1, Zenon DEF AllocationSound
  <1>4. rc'[v][m].uid = u /\ Owned(u)' = Owned(u)
    BY <1>1, <1>2, Zenon DEF Owned
  <1>. QED
    BY <1>1, <1>3, <1>4, Zenon DEF AllocationSound

\* A step of a reconcile that writes nothing, or ends it.
LEMMA Moves ==
    ASSUME DomainsInv, NEW w \in Pods, NEW n \in Names, NEW rec \in Reconciles,
           Working(w, n), Step(w, n, rec), rec.uid = rc[w][n].uid \/ rec = Idle,
           UNCHANGED <<rsv, lastUID, index, shared>>, faults' \in 0 .. MaxFaults,
           rec.pc # "idle" => ReconcileSound(w, n)' /\ AllocationSound(w, n)'
    PROVE  DomainsInv'
  <1>1. /\ rc' \in [Pods -> [Names -> Reconciles]] /\ rc'[w][n] = rec
        /\ \A v \in Pods, m \in Names : v # w \/ m # n => rc'[v][m] = rc[v][m]
    BY StepEffect DEF DomainsInv
  <1>2. TypeOK'
    BY <1>1 DEF DomainsInv, TypeOK
  <1>3. UIDsApart'
    <2>1. rec.uid = rc[w][n].uid \/ (rec.uid = 0 /\ rec.pc = "idle")
      BY IdleTyped
    <2>2. shared' \subseteq 1 .. lastUID /\ \A p \in Prefixes : index'[p] <= lastUID
      BY DEF DomainsInv, UIDsApart
    <2>3. \A v \in Pods, m \in Names :
             \/ rc'[v][m].uid = rc[v][m].uid /\ (Working(v, m)' => Working(v, m))
             \/ rc'[v][m].uid = 0 /\ ~Working(v, m)'
      BY <1>1, <2>1 DEF Working
    <2>. QED
      BY <2>2, <2>3, ApartStays, Zenon
  <1>4. NoLeak' /\ \A m \in Names : ReservationSound(m)'
    BY DEF DomainsInv, NoLeak, ReservationSound, Alone, Owned
  <1>5. ASSUME NEW v \in Pods, NEW m \in Names, v # w \/ m # n
        PROVE  ReconcileSound(v, m)' /\ AllocationSound(v, m)'
    <2>1. rc'[v][m] = rc[v][m] /\ ReconcileSound(v, m) /\ AllocationSound(v, m)
      BY <1>1, <1>5 DEF DomainsInv
    <2>2. ReconcileSound(v, m)'
      BY <1>1, <2>1 DEF ReconcileSound, Working, Owned
    <2>3. AllocationSound(v, m)'
      BY <2>1 DEF AllocationSound, Working, Alone, Owned
    <2>. QED
      BY <2>2, <2>3
  <1>6. rec.pc = "idle" => ReconcileSound(w, n)' /\ AllocationSound(w, n)'
    BY <1>1 DEF ReconcileSound, AllocationSound, Working
  <1>. QED
    BY <1>2, <1>3, <1>4, <1>5, <1>6 DEF DomainsInv

-----------------------------------------------------------------------------
(* Steps of a reconcile that write nothing. *)

\* The reservation has no Index, or one of those it has is chosen.
LEMMA RecoverInductive ==
    ASSUME DomainsInv, NEW w \in Pods, NEW n \in Names, Recover(w, n)
    PROVE  DomainsInv'
  <1>1. PICK x \in Reconciles : x = rc[w][n] /\ x.pc = "recover" /\ Working(w, n)
    BY DEF DomainsInv, TypeOK, Recover, Working
  <1>2. /\ UNCHANGED <<rsv, lastUID, index, shared>> /\ faults' \in 0 .. MaxFaults
        /\ ReconcileSound(w, n) /\ ReservationSound(n)
    BY DEF DomainsInv, TypeOK, Recover
  <1>3. PICK own \in SUBSET Prefixes : own = Owned(x.uid)
    BY Zenon DEF Owned
  <1>4. CASE own = {}
    <2>a. PICK y : y = [x EXCEPT !.pc = "create", !.left = Attempts]
      OBVIOUS
    <2>b. Step(w, n, y)
      BY <1>1, <1>3, <1>4, <2>a DEF Recover
    <2>1. /\ y \in Reconciles /\ Step(w, n, y) /\ y.pc = "create" /\ y.uid = x.uid
          /\ y.left = Attempts /\ Attempts > 0 /\ y.todo = x.todo /\ y.stale = x.stale
      BY <2>a, <2>b, IdleTyped, Zenon DEF Reconciles
    <2>2. rc'[w][n] = y /\ \A v \in Pods : v # w => rc'[v][n] = rc[v][n]
      BY <2>1, StepEffect DEF DomainsInv
    <2>3. ReconcileSound(w, n)' /\ AllocationSound(w, n)'
      BY <1>1, <1>2, <1>3, <1>4, <2>1, <2>2 DEF ReconcileSound, AllocationSound, ReservationSound, Working,
         Alone, Owned
    <2>. QED
      BY <1>1, <1>2, <2>1, <2>3, Moves
  <1>5. CASE own # {}
    <2>1. Min(own) \in own
      BY <1>3, <1>5, FirstIsOne
    <2>a. PICK y : y = [x EXCEPT !.pc = "list", !.idx = Min(own)]
      OBVIOUS
    <2>b. Step(w, n, y)
      BY <1>1, <1>3, <1>5, <2>a DEF Recover
    <2>2. /\ y \in Reconciles /\ Step(w, n, y) /\ y.pc = "list" /\ y.uid = x.uid /\ y.idx \in own
          /\ y.todo = x.todo /\ y.stale = x.stale
      BY <2>1, <2>a, <2>b, Zenon DEF Reconciles
    <2>3. rc'[w][n] = y /\ \A v \in Pods : v # w => rc'[v][n] = rc[v][n]
      BY <2>2, StepEffect DEF DomainsInv
    <2>4. ReconcileSound(w, n)' /\ AllocationSound(w, n)'
      BY <1>1, <1>2, <1>3, <1>5, <2>2, <2>3 DEF ReconcileSound, AllocationSound, ReservationSound, Working,
         Alone, Owned
    <2>. QED
      BY <1>1, <1>2, <2>2, <2>4, Moves
  <1>. QED
    BY <1>4, <1>5

\* A reconcile ends.
LEMMA EndInductive ==
    ASSUME DomainsInv, NEW w \in Pods, NEW n \in Names, Working(w, n), Done(w, n),
           UNCHANGED <<rsv, lastUID, index, shared>>, faults' \in 0 .. MaxFaults
    PROVE  DomainsInv'
  BY IdleTyped, Moves DEF Done

\* A reconcile goes on, at l, with another number of attempts left or prefix tried.
LEMMA GoesOn ==
    ASSUME DomainsInv, NEW w \in Pods, NEW n \in Names, NEW y \in Reconciles, Working(w, n), Step(w, n, y),
           UNCHANGED <<rsv, lastUID, index, shared>>, faults' \in 0 .. MaxFaults,
           rc[w][n].pc \in {"create", "collide"}, y.pc \in {"create", "collide", "verify", "pending"},
           y.uid = rc[w][n].uid, y.todo = rc[w][n].todo, y.stale = rc[w][n].stale,
           y.pc \in {"create", "collide"} => y.left > 0
    PROVE  DomainsInv'
  <1>1. ReconcileSound(w, n) /\ AllocationSound(w, n)
    BY DEF DomainsInv
  <1>2. rc'[w][n] = y /\ \A v \in Pods : v # w => rc'[v][n] = rc[v][n]
    BY StepEffect DEF DomainsInv
  <1>3. ReconcileSound(w, n)' /\ AllocationSound(w, n)'
    BY <1>1, <1>2 DEF ReconcileSound, AllocationSound, Working, Alone, Owned
  <1>. QED
    BY <1>3, Moves

\* The prefix drawn is taken: its Index is its own, another's, or gone.
LEMMA CollideInductive ==
    ASSUME DomainsInv, NEW w \in Pods, NEW n \in Names, Collide(w, n)
    PROVE  DomainsInv'
  <1>1. PICK x \in Reconciles : x = rc[w][n] /\ x.pc = "collide" /\ Working(w, n)
    BY DEF DomainsInv, TypeOK, Collide, Working
  <1>2. UNCHANGED <<rsv, lastUID, index, shared>> /\ faults' \in 0 .. MaxFaults
    BY DEF DomainsInv, TypeOK, Collide
  <1>3. CASE Goto(w, n, "verify")
    <2>1. PICK y : y = [x EXCEPT !.pc = "verify"]
      BY Zenon
    <2>2. Step(w, n, y)
      BY <1>1, <1>3, <2>1 DEF Goto
    <2>3. y \in Reconciles /\ y.pc = "verify" /\ y.uid = x.uid /\ y.todo = x.todo /\ y.stale = x.stale
      BY <2>1 DEF Reconciles
    <2>. QED
      BY <1>1, <1>2, <2>2, <2>3, GoesOn
  <1>4. CASE Done(w, n)
    BY <1>1, <1>2, <1>4, EndInductive
  <1>5. CASE /\ index[x.idx] \notin {NoIndex, x.uid}
             /\ Step(w, n, [x EXCEPT !.pc = IF x.left = 1 THEN "pending" ELSE "create", !.left = @ - 1])
    <2>1. PICK l \in {"pending", "create"} : l = IF x.left = 1 THEN "pending" ELSE "create"
      OBVIOUS
    <2>2. PICK k : k = x.left - 1
      OBVIOUS
    <2>3. PICK y : y = [x EXCEPT !.pc = l, !.left = k]
      OBVIOUS
    <2>4. Step(w, n, y)
      BY <1>5, <2>1, <2>2, <2>3
    <2>5. x.left \in 0 .. Attempts /\ x.left > 0 /\ Attempts \in Nat
      BY <1>1, BoundsNat DEF DomainsInv, ReconcileSound, Reconciles
    <2>6. k \in 0 .. Attempts /\ (l = "create" => k > 0)
      BY <2>1, <2>2, <2>5
    <2>7. /\ y \in Reconciles /\ y.pc = l /\ y.left = k /\ y.uid = x.uid /\ y.todo = x.todo
          /\ y.stale = x.stale
      BY <2>3, <2>6, Zenon DEF Reconciles
    <2>. QED
      BY <1>1, <1>2, <2>4, <2>6, <2>7, GoesOn
  <1>. QED
    BY <1>1, <1>3, <1>4, <1>5 DEF Collide

\* A reconcile chooses one of the Indexes that its reservation owns.
LEMMA VerifyInductive ==
    ASSUME DomainsInv, NEW w \in Pods, NEW n \in Names, Verify(w, n)
    PROVE  DomainsInv'
  <1>1. PICK x \in Reconciles : x = rc[w][n] /\ x.pc = "verify" /\ Working(w, n)
    BY DEF DomainsInv, TypeOK, Verify, Working
  <1>2. /\ UNCHANGED <<rsv, lastUID, index, shared>> /\ faults' \in 0 .. MaxFaults
        /\ ReconcileSound(w, n) /\ AllocationSound(w, n)
    BY DEF DomainsInv, TypeOK, Verify
  <1>3. PICK own \in SUBSET Prefixes : own = Owned(x.uid)
    BY Zenon DEF Owned
  <1>4. CASE own = {}
    BY <1>1, <1>2, <1>3, <1>4, EndInductive DEF Verify
  <1>5. CASE own # {}
    <2>1. Min(own) \in own
      BY <1>3, <1>5, FirstIsOne
    <2>2. PICK y : y = [x EXCEPT !.pc = "list", !.idx = Min(own)]
      OBVIOUS
    <2>3. Step(w, n, y)
      BY <1>1, <1>3, <1>5, <2>2 DEF Verify
    <2>4. /\ y \in Reconciles /\ y.pc = "list" /\ y.uid = x.uid /\ y.idx \in own
          /\ y.todo = x.todo /\ y.stale = x.stale
      BY <2>1, <2>2, Zenon DEF Reconciles
    <2>5. rc'[w][n] = y /\ \A v \in Pods : v # w => rc'[v][n] = rc[v][n]
      BY <2>3, <2>4, StepEffect DEF DomainsInv
    <2>6. ReconcileSound(w, n)' /\ AllocationSound(w, n)'
      BY <1>1, <1>2, <1>3, <2>4, <2>5 DEF ReconcileSound, AllocationSound, Working, Alone, Owned
    <2>. QED
      BY <1>1, <1>2, <2>3, <2>4, <2>6, Moves
  <1>. QED
    BY <1>4, <1>5

\* It lists the others, all of them its own.
LEMMA ListDuplicatesInductive ==
    ASSUME DomainsInv, NEW w \in Pods, NEW n \in Names, ListDuplicates(w, n)
    PROVE  DomainsInv'
  <1>1. PICK x \in Reconciles : x = rc[w][n] /\ x.pc = "list" /\ Working(w, n)
    BY DEF DomainsInv, TypeOK, ListDuplicates, Working
  <1>2. /\ UNCHANGED <<rsv, lastUID, index, shared>> /\ faults' \in 0 .. MaxFaults
        /\ ReconcileSound(w, n) /\ AllocationSound(w, n)
    BY DEF DomainsInv, TypeOK, ListDuplicates
  <1>3. PICK dup \in SUBSET Prefixes : dup = Owned(x.uid) \ {x.idx}
    BY Zenon DEF Owned
  <1>4. PICK y : y = [x EXCEPT !.pc = "prune", !.todo = dup]
    OBVIOUS
  <1>5. Step(w, n, y)
    BY <1>1, <1>3, <1>4 DEF ListDuplicates
  <1>6. y \in Reconciles /\ y.pc = "prune" /\ y.uid = x.uid /\ y.idx = x.idx /\ y.todo = dup
    BY <1>4, Zenon DEF Reconciles
  <1>7. rc'[w][n] = y /\ \A v \in Pods : v # w => rc'[v][n] = rc[v][n]
    BY <1>5, <1>6, StepEffect DEF DomainsInv
  <1>8. ReconcileSound(w, n)' /\ AllocationSound(w, n)'
    BY <1>1, <1>2, <1>3, <1>6, <1>7 DEF ReconcileSound, AllocationSound, Working, Alone, Owned
  <1>. QED
    BY <1>1, <1>2, <1>5, <1>6, <1>8, Moves

\* So does a reconcile that deletes.
LEMMA ListOwnedInductive ==
    ASSUME DomainsInv, NEW w \in Pods, NEW n \in Names, ListOwned(w, n)
    PROVE  DomainsInv'
  <1>1. PICK x \in Reconciles : x = rc[w][n] /\ x.pc = "own" /\ Working(w, n)
    BY DEF DomainsInv, TypeOK, ListOwned, Working
  <1>2. /\ UNCHANGED <<rsv, lastUID, index, shared>> /\ faults' \in 0 .. MaxFaults
        /\ ReconcileSound(w, n)
    BY DEF DomainsInv, TypeOK, ListOwned
  <1>3. PICK own \in SUBSET Prefixes : own = Owned(x.uid)
    BY Zenon DEF Owned
  <1>4. PICK y : y = [x EXCEPT !.pc = "drop", !.todo = own]
    OBVIOUS
  <1>5. Step(w, n, y)
    BY <1>1, <1>3, <1>4 DEF ListOwned
  <1>6. y \in Reconciles /\ y.pc = "drop" /\ y.uid = x.uid /\ y.todo = own
    BY <1>4, Zenon DEF Reconciles
  <1>7. rc'[w][n] = y /\ \A v \in Pods : v # w => rc'[v][n] = rc[v][n]
    BY <1>5, <1>6, StepEffect DEF DomainsInv
  <1>8. ReconcileSound(w, n)' /\ AllocationSound(w, n)'
    BY <1>1, <1>2, <1>3, <1>6, <1>7 DEF ReconcileSound, AllocationSound, Working, Alone, Owned
  <1>. QED
    BY <1>1, <1>2, <1>5, <1>6, <1>8, Moves

\* The finalizer is about to go: no Index is left.
LEMMA ConfirmInductive ==
    ASSUME DomainsInv, NEW w \in Pods, NEW n \in Names, Confirm(w, n)
    PROVE  DomainsInv'
  <1>1. PICK x \in Reconciles : x = rc[w][n] /\ x.pc = "confirm" /\ Working(w, n)
    BY DEF DomainsInv, TypeOK, Confirm, Working
  <1>2. /\ UNCHANGED <<rsv, lastUID, index, shared>> /\ faults' \in 0 .. MaxFaults
        /\ ReconcileSound(w, n)
    BY DEF DomainsInv, TypeOK, Confirm
  <1>3. CASE Owned(x.uid) = {}
    <2>1. PICK y : y = [x EXCEPT !.pc = "finalize"]
      BY Zenon
    <2>2. Step(w, n, y)
      BY <1>1, <1>3, <2>1 DEF Confirm, Goto
    <2>3. y \in Reconciles /\ y.pc = "finalize" /\ y.uid = x.uid /\ y.todo = x.todo /\ y.stale = x.stale
      BY <2>1 DEF Reconciles
    <2>4. rc'[w][n] = y /\ \A v \in Pods : v # w => rc'[v][n] = rc[v][n]
      BY <2>2, <2>3, StepEffect DEF DomainsInv
    <2>5. ReconcileSound(w, n)' /\ AllocationSound(w, n)'
      BY <1>1, <1>2, <1>3, <2>3, <2>4 DEF ReconcileSound, AllocationSound, Working, Alone, Owned
    <2>. QED
      BY <1>1, <1>2, <2>2, <2>3, <2>5, Moves
  <1>4. CASE Owned(x.uid) # {}
    BY <1>1, <1>2, <1>4, EndInductive DEF Confirm
  <1>. QED
    BY <1>3, <1>4

\* A call fails, or the pod restarts.
LEMMA FailsInductive ==
    ASSUME DomainsInv, NEW w \in Pods, NEW n \in Names, Fails(w, n)
    PROVE  DomainsInv'
  <1>1. faults' \in 0 .. MaxFaults
    BY BoundsNat DEF DomainsInv, TypeOK, Fails
  <1>. QED
    BY <1>1, EndInductive DEF Fails, Working

-----------------------------------------------------------------------------
(* Creation and deletion of an Index. *)

\* Two reconciles of one reservation: they are of the same name, and it is shared.
LEMMA SameUID ==
    ASSUME DomainsInv, NEW w \in Pods, NEW n \in Names, Working(w, n),
           NEW v \in Pods, NEW m \in Names, Working(v, m), v # w \/ m # n,
           rc[v][m].uid = rc[w][n].uid
    PROVE  m = n /\ rc[w][n].uid \in shared
  BY DEF DomainsInv, UIDsApart, ReconcileSound

\* Only n has the UID of its reconciles.
LEMMA UIDIsOf ==
    ASSUME DomainsInv, NEW w \in Pods, NEW n \in Names, Working(w, n),
           NEW m \in Names, rsv[m].uid = rc[w][n].uid
    PROVE  m = n
  BY DEF DomainsInv, UIDsApart

\* What the creation of an Index changes in the reconciles.
LEMMA TakeEffect ==
    ASSUME TypeOK, NEW w \in Pods, NEW n \in Names, NEW p \in Prefixes, NEW u \in UIDs,
           NEW y \in Reconciles, Take(p, u, w, n, y)
    PROVE  /\ rc' \in [Pods -> [Names -> Reconciles]] /\ rc'[w][n] = y
           /\ index' \in [Prefixes -> UIDs] /\ index'[p] = u
           /\ \A q \in Prefixes : q # p => index'[q] = index[q]
           /\ \A v \in Pods, m \in Names : v # w \/ m # n =>
                 /\ rc'[v][m].pc = rc[v][m].pc /\ rc'[v][m].uid = rc[v][m].uid
                 /\ rc'[v][m].left = rc[v][m].left /\ rc'[v][m].idx = rc[v][m].idx
                 /\ rc'[v][m].todo = rc[v][m].todo
                 /\ rc'[v][m].stale = rc[v][m].stale \cup (rc[v][m].todo \cap {p})
  <1>1. ASSUME NEW v \in Pods, NEW m \in Names, v # w \/ m # n
        PROVE  /\ rc'[v][m] \in Reconciles
               /\ rc'[v][m].pc = rc[v][m].pc /\ rc'[v][m].uid = rc[v][m].uid
               /\ rc'[v][m].left = rc[v][m].left /\ rc'[v][m].idx = rc[v][m].idx
               /\ rc'[v][m].todo = rc[v][m].todo
               /\ rc'[v][m].stale = rc[v][m].stale \cup (rc[v][m].todo \cap {p})
    <2>1. PICK x \in Reconciles : x = rc[v][m]
      BY DEF TypeOK
    <2>2. PICK s : s = x.stale \cup (x.todo \cap {p})
      BY Zenon
    <2>3. PICK z : z = [x EXCEPT !.stale = s]
      BY Zenon
    <2>4. rc'[v][m] = z
      BY <1>1, <2>1, <2>2, <2>3, Zenon DEF Take
    <2>5. s \in SUBSET Prefixes
      BY <2>2 DEF Reconciles
    <2>6. /\ z \in Reconciles /\ z.pc = x.pc /\ z.uid = x.uid /\ z.left = x.left /\ z.idx = x.idx
          /\ z.todo = x.todo /\ z.stale = s
      BY <2>3, <2>5 DEF Reconciles
    <2>. QED
      BY <2>1, <2>2, <2>4, <2>6
  <1>2. rc'[w][n] = y
    BY Zenon DEF Take
  <1>3. rc' \in [Pods -> [Names -> Reconciles]]
    <2>1. \A v \in Pods, m \in Names : rc'[v][m] \in Reconciles
      BY <1>1, <1>2
    <2>2. PICK f : rc' = [v \in Pods |-> [m \in Names |-> f[v][m]]]
      <3>1. rc' = [v \in Pods |-> [m \in Names |-> rc'[v][m]]]
        BY Zenon DEF Take
      <3>. QED
        BY <3>1, Zenon
    <2>. QED
      BY <2>1, <2>2
  <1>4. /\ index' \in [Prefixes -> UIDs] /\ index'[p] = u
        /\ \A q \in Prefixes : q # p => index'[q] = index[q]
    BY DEF Take, TypeOK
  <1>. QED
    BY <1>1, <1>2, <1>3, <1>4

\* The Index of p is created for the reservation, the reply lost or not.
LEMMA Takes ==
    ASSUME DomainsInv, NEW w \in Pods, NEW n \in Names, NEW p \in Prefixes, NEW y \in Reconciles,
           rc[w][n].pc = "create", index[p] = NoIndex, Take(p, rc[w][n].uid, w, n, y),
           UNCHANGED <<rsv, lastUID, shared>>, faults' \in 0 .. MaxFaults,
           \/ y = Idle
           \/ y.pc = "verify" /\ y.uid = rc[w][n].uid /\ y.todo = rc[w][n].todo
    PROVE  DomainsInv'
  <1>. DEFINE u == rc[w][n].uid
  <1>1. /\ Working(w, n) /\ u \in UIDs /\ u # 0 /\ ReconcileSound(w, n) /\ AllocationSound(w, n)
    BY DEF DomainsInv, TypeOK, Reconciles, ReconcileSound, Working
  <1>2. /\ rc' \in [Pods -> [Names -> Reconciles]] /\ rc'[w][n] = y
        /\ index' \in [Prefixes -> UIDs] /\ index'[p] = u
        /\ \A q \in Prefixes : q # p => index'[q] = index[q]
        /\ \A v \in Pods, m \in Names : v # w \/ m # n =>
              /\ rc'[v][m].pc = rc[v][m].pc /\ rc'[v][m].uid = rc[v][m].uid
              /\ rc'[v][m].left = rc[v][m].left /\ rc'[v][m].idx = rc[v][m].idx
              /\ rc'[v][m].todo = rc[v][m].todo
              /\ rc'[v][m].stale = rc[v][m].stale \cup (rc[v][m].todo \cap {p})
    <2>1. TypeOK
      BY DEF DomainsInv
    <2>2. PICK t \in UIDs : t = u
      BY <1>1, Zenon
    <2>3. Take(p, t, w, n, y)
      BY <2>2, Zenon
    <2>4. /\ rc' \in [Pods -> [Names -> Reconciles]] /\ rc'[w][n] = y
          /\ index' \in [Prefixes -> UIDs] /\ index'[p] = t
          /\ \A q \in Prefixes : q # p => index'[q] = index[q]
          /\ \A v \in Pods, m \in Names : v # w \/ m # n =>
                /\ rc'[v][m].pc = rc[v][m].pc /\ rc'[v][m].uid = rc[v][m].uid
                /\ rc'[v][m].left = rc[v][m].left /\ rc'[v][m].idx = rc[v][m].idx
                /\ rc'[v][m].todo = rc[v][m].todo
                /\ rc'[v][m].stale = rc[v][m].stale \cup (rc[v][m].todo \cap {p})
      BY <2>1, <2>3, TakeEffect
    <2>. QED
      BY <2>2, <2>4, Zenon
  <1>3. \/ y.pc = "idle" /\ y.uid = 0
        \/ y.pc = "verify" /\ y.uid = u /\ y.todo = rc[w][n].todo
    BY IdleTyped
  <1>4. \A t : t # 0 /\ t # u => Owned(t)' = Owned(t)
    BY <1>2 DEF Owned, NoIndex
  <1>5. TypeOK'
    BY <1>2 DEF DomainsInv, TypeOK
  <1>6. UIDsApart'
    <2>1. UIDsApart /\ u <= lastUID
      BY DEF DomainsInv, UIDsApart
    <2>2. shared' \subseteq 1 .. lastUID /\ \A q \in Prefixes : index'[q] <= lastUID
      BY <1>2, <2>1 DEF UIDsApart
    <2>3. \A v \in Pods, m \in Names :
             \/ rc'[v][m].uid = rc[v][m].uid /\ (Working(v, m)' => Working(v, m))
             \/ rc'[v][m].uid = 0 /\ ~Working(v, m)'
      BY <1>1, <1>2, <1>3 DEF Working
    <2>. QED
      BY <2>2, <2>3, ApartStays, Zenon
  <1>7. NoLeak'
    <2>1. u \in shared \cup {rsv[m].uid : m \in Names}
      BY <1>1 DEF ReconcileSound
    <2>. QED
      BY <1>2, <2>1 DEF DomainsInv, NoLeak
  <1>8. ASSUME NEW m \in Names PROVE ReservationSound(m)'
    <2>1. ReservationSound(m) /\ UIDsApart
      BY DEF DomainsInv
    <2>2. CASE rsv[m].uid = 0
      BY <2>1, <2>2 DEF ReservationSound, Alone, UIDsApart
    <2>3. CASE rsv[m].uid = u
      <3>1. m = n
        BY <1>1, <2>3, UIDIsOf
      <3>2. rsv[n].fin /\ (Alone(n) => ~rsv[n].ready)
        BY <1>1, <2>3, <3>1 DEF ReconcileSound, AllocationSound
      <3>. QED
        BY <3>1, <3>2 DEF ReservationSound, Alone
    <2>4. CASE rsv[m].uid # 0 /\ rsv[m].uid # u
      <3>1. Owned(rsv[m].uid)' = Owned(rsv[m].uid)
        BY <1>4, <2>4 DEF Owned
      <3>. QED
        BY <2>1, <3>1 DEF ReservationSound, Alone
    <2>. QED
      BY <2>2, <2>3, <2>4
  <1>9. ASSUME NEW v \in Pods, NEW m \in Names, v # w \/ m # n
        PROVE  ReconcileSound(v, m)' /\ AllocationSound(v, m)'
    <2>1. ReconcileSound(v, m) /\ AllocationSound(v, m) /\ rc[v][m].todo \in SUBSET Prefixes
      BY DEF DomainsInv, TypeOK, Reconciles
    <2>2. \A z \in Pods : Working(z, m)' => Working(z, m) /\ rc'[z][m].uid = rc[z][m].uid
      BY <1>1, <1>2, <1>3 DEF Working
    <2>3. /\ rc'[v][m].pc = rc[v][m].pc /\ rc'[v][m].uid = rc[v][m].uid
          /\ rc'[v][m].left = rc[v][m].left /\ rc'[v][m].idx = rc[v][m].idx
          /\ rc'[v][m].todo = rc[v][m].todo
          /\ rc'[v][m].stale = rc[v][m].stale \cup (rc[v][m].todo \cap {p})
      BY <1>2, <1>9
    <2>4. Working(v, m) => \/ rc[v][m].uid \in shared
                           \/ \A q \in Prefixes : index'[q] = rc[v][m].uid <=> index[q] = rc[v][m].uid
      <3>1. SUFFICES ASSUME Working(v, m), rc[v][m].uid \notin shared, NEW q \in Prefixes
                     PROVE  index'[q] = rc[v][m].uid <=> index[q] = rc[v][m].uid
        OBVIOUS
      <3>2. rc[v][m].uid # u
        BY <1>1, <1>9, <3>1, SameUID
      <3>3. rc[v][m].uid # NoIndex
        BY <2>1, <3>1 DEF ReconcileSound, NoIndex
      <3>. QED
        BY <1>2, <3>2, <3>3
    <2>5. Working(v, m) => \A q \in rc[v][m].todo \ rc'[v][m].stale : index'[q] \in {NoIndex, rc[v][m].uid}
      <3>1. SUFFICES ASSUME Working(v, m), NEW q \in rc[v][m].todo, q \notin rc'[v][m].stale
                     PROVE  index'[q] \in {NoIndex, rc[v][m].uid}
        OBVIOUS
      <3>2. q # p /\ q \notin rc[v][m].stale /\ q \in Prefixes
        BY <2>1, <2>3, <3>1
      <3>. QED
        BY <1>2, <2>1, <3>1, <3>2, Zenon DEF ReconcileSound
    <2>6. Working(v, m) => \A z \in Pods \ {v} :
             Working(z, m)' /\ rc'[z][m].uid = rc[v][m].uid => rc[v][m].uid \in shared
      BY <2>1, <2>2, Zenon DEF ReconcileSound
    <2>7. ReconcileSound(v, m)'
      BY <2>1, <2>2, <2>3, <2>4, <2>5, <2>6, ReconcileKept, Zenon
    <2>8. AllocationSound(v, m)'
      <3>1. Alone(m)' => Alone(m) /\ rsv[m].uid \notin shared
        BY Zenon DEF Alone
      <3>. QED
        BY <2>1, <2>2, <2>3, <2>4, <3>1, AllocationKept, Zenon
    <2>. QED
      BY <2>7, <2>8
  <1>10. ReconcileSound(w, n)' /\ AllocationSound(w, n)'
    <2>1. \A z \in Pods : Working(z, n)' => Working(z, n) /\ rc'[z][n].uid = rc[z][n].uid
      BY <1>1, <1>2, <1>3 DEF Working
    <2>. QED
      BY <1>1, <1>2, <1>3, <2>1, Zenon DEF ReconcileSound, AllocationSound, Working, Alone
  <1>. QED
    BY <1>5, <1>6, <1>7, <1>8, <1>9, <1>10 DEF DomainsInv

\* The Index of a random prefix is created, or one exists.
LEMMA CreateIndexInductive ==
    ASSUME DomainsInv, NEW w \in Pods, NEW n \in Names, CreateIndex(w, n)
    PROVE  DomainsInv'
  <1>1. PICK x \in Reconciles : x = rc[w][n] /\ x.pc = "create" /\ Working(w, n)
    BY DEF DomainsInv, TypeOK, CreateIndex, Working
  <1>2. UNCHANGED <<rsv, lastUID, shared>> /\ faults \in 0 .. MaxFaults /\ x.left > 0
    BY <1>1 DEF DomainsInv, TypeOK, CreateIndex, ReconcileSound
  <1>3. PICK p \in Prefixes :
          \/ /\ index[p] = NoIndex
             /\ \/ Take(p, x.uid, w, n, [x EXCEPT !.pc = "verify"]) /\ UNCHANGED faults
                \/ Take(p, x.uid, w, n, Idle) /\ faults < MaxFaults /\ faults' = faults + 1
          \/ /\ index[p] # NoIndex
             /\ Step(w, n, [x EXCEPT !.pc = "collide", !.idx = p])
             /\ UNCHANGED <<index, faults>>
    BY <1>1, Zenon DEF CreateIndex
  <1>4. CASE index[p] = NoIndex /\ Take(p, x.uid, w, n, [x EXCEPT !.pc = "verify"]) /\ UNCHANGED faults
    <2>1. PICK y : y = [x EXCEPT !.pc = "verify"]
      BY Zenon
    <2>2. y \in Reconciles /\ y.pc = "verify" /\ y.uid = x.uid /\ y.todo = x.todo
      BY <2>1 DEF Reconciles
    <2>3. Take(p, x.uid, w, n, y)
      BY <1>4, <2>1, Zenon
    <2>4. faults' \in 0 .. MaxFaults
      BY <1>2, <1>4
    <2>. QED
      BY <1>1, <1>2, <1>4, <2>2, <2>3, <2>4, Takes
  <1>5. CASE index[p] = NoIndex /\ Take(p, x.uid, w, n, Idle) /\ faults < MaxFaults /\ faults' = faults + 1
    <2>1. faults' \in 0 .. MaxFaults
      BY <1>2, <1>5, BoundsNat
    <2>. QED
      BY <1>1, <1>2, <1>5, <2>1, IdleTyped, Takes
  <1>6. CASE /\ index[p] # NoIndex /\ Step(w, n, [x EXCEPT !.pc = "collide", !.idx = p])
             /\ UNCHANGED <<index, faults>>
    <2>1. PICK y : y = [x EXCEPT !.pc = "collide", !.idx = p]
      OBVIOUS
    <2>2. /\ y \in Reconciles /\ y.pc = "collide" /\ y.uid = x.uid /\ y.todo = x.todo
          /\ y.stale = x.stale /\ y.left = x.left
      BY <2>1, Zenon DEF Reconciles
    <2>3. Step(w, n, y)
      BY <1>6, <2>1, Zenon
    <2>. QED
      BY <1>1, <1>2, <1>6, <2>2, <2>3, GoesOn
  <1>. QED
    BY <1>3, <1>4, <1>5, <1>6, Zenon

\* An Index that a reconcile has listed and that is its own still, or gone.
LEMMA Frees ==
    ASSUME DomainsInv, NEW w \in Pods, NEW n \in Names, NEW y \in Reconciles,
           rc[w][n].pc \in {"prune", "drop"}, NEW p \in rc[w][n].todo,
           index[p] = NoIndex \/ p \notin rc[w][n].stale,
           index' = [index EXCEPT ![p] = NoIndex], Step(w, n, y),
           y.pc = rc[w][n].pc, y.uid = rc[w][n].uid, y.idx = rc[w][n].idx,
           y.todo = rc[w][n].todo \ {p}, y.stale = rc[w][n].stale \ {p},
           UNCHANGED <<rsv, lastUID, faults, shared>>
    PROVE  DomainsInv'
  <1>. DEFINE u == rc[w][n].uid
  <1>1. /\ Working(w, n) /\ u # 0 /\ ReconcileSound(w, n) /\ AllocationSound(w, n)
        /\ p \in Prefixes /\ rc[w][n].todo \in SUBSET Prefixes
    BY DEF DomainsInv, TypeOK, Reconciles, ReconcileSound, Working
  <1>2. /\ rc' \in [Pods -> [Names -> Reconciles]] /\ rc'[w][n] = y
        /\ \A v \in Pods, m \in Names : v # w \/ m # n => rc'[v][m] = rc[v][m]
    BY StepEffect DEF DomainsInv
  <1>3. /\ index' \in [Prefixes -> UIDs] /\ index'[p] = NoIndex /\ index[p] \in {NoIndex, u}
        /\ \A q \in Prefixes : q # p => index'[q] = index[q]
    <2>1. NoIndex \in UIDs
      BY BoundsNat DEF NoIndex, UIDs
    <2>. QED
      BY <1>1, <2>1, Zenon DEF DomainsInv, TypeOK, ReconcileSound
  <1>4. \A v \in Pods, m \in Names : /\ Working(v, m)' <=> Working(v, m)
                                     /\ rc'[v][m].uid = rc[v][m].uid
    BY <1>2 DEF Working
  <1>5. TypeOK'
    BY <1>2, <1>3 DEF DomainsInv, TypeOK
  <1>6. UIDsApart'
    <2>1. UIDsApart /\ lastUID \in UIDs
      BY DEF DomainsInv, TypeOK
    <2>2. NoIndex <= lastUID
      BY <2>1, BoundsNat DEF UIDs, NoIndex
    <2>3. shared' \subseteq 1 .. lastUID /\ \A q \in Prefixes : index'[q] <= lastUID
      BY <1>3, <2>1, <2>2 DEF UIDsApart
    <2>. QED
      BY <1>4, <2>3, ApartStays, Zenon
  <1>7. NoLeak'
    BY <1>3 DEF DomainsInv, NoLeak
  <1>8. ASSUME NEW m \in Names PROVE ReservationSound(m)'
    <2>1. ReservationSound(m) /\ UIDsApart
      BY DEF DomainsInv
    <2>2. CASE rsv[m].uid = 0
      BY <2>1, <2>2 DEF ReservationSound, Alone, UIDsApart
    <2>3. CASE rsv[m].uid = u
      <3>1. m = n
        BY <1>1, <2>3, UIDIsOf
      <3>2. rsv[n].fin
        BY <1>1, <2>3, <3>1 DEF ReconcileSound
      <3>3. ~(rsv[n].ready /\ Alone(n))
        <4>1. SUFFICES ASSUME rsv[n].ready, Alone(n) PROVE FALSE
          OBVIOUS
        <4>2. rc[w][n].pc = "prune"
          BY <1>1, <2>3, <3>1, <4>1 DEF ReconcileSound, Alone
        <4>3. /\ rc[w][n].todo = Owned(u) \ {rc[w][n].idx} /\ rc[w][n].idx = rsv[n].domain
          BY <1>1, <2>3, <3>1, <4>1, <4>2 DEF AllocationSound
        <4>4. Owned(u) = {rsv[n].domain}
          BY <2>1, <2>3, <3>1, <4>1 DEF ReservationSound
        <4>. QED
          BY <4>3, <4>4
      <3>. QED
        BY <3>1, <3>2, <3>3 DEF ReservationSound, Alone
    <2>4. CASE rsv[m].uid # 0 /\ rsv[m].uid # u
      <3>1. {q \in Prefixes : index'[q] = rsv[m].uid} = Owned(rsv[m].uid)
        BY <1>1, <1>3, <2>4 DEF Owned, NoIndex
      <3>. QED
        BY <2>1, <3>1 DEF ReservationSound, Alone, Owned
    <2>. QED
      BY <2>2, <2>3, <2>4
  <1>9. ASSUME NEW v \in Pods, NEW m \in Names, v # w \/ m # n
        PROVE  ReconcileSound(v, m)' /\ AllocationSound(v, m)'
    <2>1. /\ ReconcileSound(v, m) /\ AllocationSound(v, m) /\ rc[v][m].todo \in SUBSET Prefixes
          /\ rc'[v][m] = rc[v][m]
      BY <1>2, <1>9 DEF DomainsInv, TypeOK, Reconciles
    <2>2. Working(v, m) => rc[v][m].uid # NoIndex
      BY <2>1 DEF ReconcileSound, NoIndex
    <2>3. Working(v, m) => \A q \in Prefixes : index'[q] = rc[v][m].uid => index[q] = rc[v][m].uid
      BY <1>3, <2>2
    <2>4. Working(v, m) => \A q \in rc[v][m].todo \ rc[v][m].stale : index'[q] \in {NoIndex, rc[v][m].uid}
      BY <1>3, <2>1 DEF ReconcileSound
    <2>5. Working(v, m) => \A z \in Pods \ {v} :
             Working(z, m)' /\ rc'[z][m].uid = rc[v][m].uid => rc[v][m].uid \in shared
      BY <1>4, <2>1, Zenon DEF ReconcileSound
    <2>6. ReconcileSound(v, m)'
      BY <1>4, <2>1, <2>3, <2>4, <2>5, ReconcileKept, Zenon
    <2>7. Working(v, m) /\ rc[v][m].uid \notin shared =>
             \A q \in Prefixes : index'[q] = rc[v][m].uid <=> index[q] = rc[v][m].uid
      <3>1. SUFFICES ASSUME Working(v, m), rc[v][m].uid \notin shared
                     PROVE  \A q \in Prefixes : index'[q] = rc[v][m].uid <=> index[q] = rc[v][m].uid
        OBVIOUS
      <3>2. rc[v][m].uid # u
        BY <1>1, <1>9, <3>1, SameUID
      <3>. QED
        BY <1>3, <2>2, <3>1, <3>2
    <2>8. AllocationSound(v, m)'
      <3>1. Alone(m)' => Alone(m) /\ rsv[m].uid \notin shared
        BY Zenon DEF Alone
      <3>. QED
        BY <1>4, <2>1, <2>7, <3>1, AllocationKept, Zenon
    <2>. QED
      BY <2>6, <2>8
  <1>10. ReconcileSound(w, n)'
    <2>1. \A q \in y.todo \ y.stale : index'[q] \in {NoIndex, u}
      BY <1>1, <1>3 DEF ReconcileSound
    <2>2. \A z \in Pods \ {w} : Working(z, n)' /\ rc'[z][n].uid = u => u \in shared
      BY <1>1, <1>4, Zenon DEF ReconcileSound
    <2>. QED
      BY <1>1, <1>2, <2>1, <2>2, Zenon DEF ReconcileSound, NoIndex
  <1>11. AllocationSound(w, n)'
    <2>1. CASE Alone(n) /\ u = rsv[n].uid /\ rc[w][n].pc = "prune"
      <3>1. /\ rc[w][n].todo = Owned(u) \ {rc[w][n].idx} /\ rc[w][n].idx \in Owned(u)
            /\ rsv[n].ready => rc[w][n].idx = rsv[n].domain
        BY <1>1, <2>1, Zenon DEF AllocationSound
      <3>2. {q \in Prefixes : index'[q] = u} = Owned(u) \ {p}
        BY <1>1, <1>3 DEF Owned, NoIndex
      <3>3. y.idx \in Owned(u) \ {p} /\ y.todo = (Owned(u) \ {p}) \ {y.idx}
        BY <3>1
      <3>. QED
        <4>1. y.pc = "prune" /\ y.uid = u
          BY <2>1
        <4>2. Owned(rc[w][n].uid)' = Owned(u) \ {p}
          BY <1>2, <3>2, <4>1 DEF Owned
        <4>. QED
          BY <1>2, <2>1, <3>1, <3>3, <4>1, <4>2, Zenon DEF AllocationSound
    <2>2. CASE ~(Alone(n) /\ u = rsv[n].uid /\ rc[w][n].pc = "prune")
      BY <1>2, <2>2 DEF AllocationSound, Alone
    <2>. QED
      BY <2>1, <2>2
  <1>. QED
    BY <1>5, <1>6, <1>7, <1>8, <1>9, <1>10, <1>11 DEF DomainsInv

\* The steps of deleteDuplicateOwnedIndexes and reconcileDelete.
LEMMA DeleteIndexInductive ==
    ASSUME DomainsInv, NEW w \in Pods, NEW n \in Names, NEW next,
           \/ rc[w][n].pc = "prune" /\ next = "status"
           \/ rc[w][n].pc = "drop" /\ next = "confirm",
           DeleteIndex(w, n, next)
    PROVE  DomainsInv'
  <1>1. PICK x \in Reconciles : x = rc[w][n] /\ x.pc \in {"prune", "drop"} /\ Working(w, n)
    BY DEF DomainsInv, TypeOK, Working
  <1>2. /\ UNCHANGED <<rsv, lastUID, faults, shared>> /\ faults' \in 0 .. MaxFaults
        /\ ReconcileSound(w, n) /\ AllocationSound(w, n)
    BY Zenon DEF DomainsInv, TypeOK, DeleteIndex
  <1>3. CASE x.todo = {} /\ Goto(w, n, next) /\ UNCHANGED index
    <2>1. PICK y : y = [x EXCEPT !.pc = next]
      BY Zenon
    <2>2. Step(w, n, y)
      BY <1>1, <1>3, <2>1 DEF Goto
    <2>3. /\ y \in Reconciles /\ y.pc = next /\ y.uid = x.uid /\ y.todo = x.todo /\ y.stale = x.stale
          /\ y.idx = x.idx
      BY <2>1 DEF Reconciles
    <2>4. rc'[w][n] = y /\ \A v \in Pods : v # w => rc'[v][n] = rc[v][n]
      BY <2>2, <2>3, StepEffect DEF DomainsInv
    <2>5. ReconcileSound(w, n)'
      BY <1>1, <1>2, <1>3, <2>3, <2>4, Zenon DEF ReconcileSound, Working, Owned
    <2>6. AllocationSound(w, n)'
      <3>1. SUFFICES ASSUME Alone(n), y.uid = rsv[n].uid, y.pc = "status"
                     PROVE  /\ y.idx \in Owned(y.uid) /\ (rsv[n].ready => y.idx = rsv[n].domain)
                            /\ Owned(y.uid) = {y.idx}
        BY <1>1, <1>2, <1>3, <2>3, <2>4, Zenon DEF AllocationSound, Alone, Owned
      <3>2. /\ x.idx \in Owned(x.uid) /\ (rsv[n].ready => x.idx = rsv[n].domain)
            /\ x.todo = Owned(x.uid) \ {x.idx}
        BY <1>1, <1>2, <2>3, <3>1 DEF AllocationSound
      <3>. QED
        BY <1>3, <2>3, <3>2
    <2>. QED
      BY <1>1, <1>2, <1>3, <2>2, <2>3, <2>5, <2>6, Moves
  <1>4. ASSUME NEW p \in x.todo, index[p] = NoIndex \/ p \notin x.stale,
               index' = [index EXCEPT ![p] = NoIndex],
               Step(w, n, [x EXCEPT !.todo = x.todo \ {p}, !.stale = x.stale \ {p}])
        PROVE  DomainsInv'
    <2>1. PICK t \in SUBSET Prefixes : t = x.todo \ {p}
      BY Zenon DEF Reconciles
    <2>2. PICK s \in SUBSET Prefixes : s = x.stale \ {p}
      BY Zenon DEF Reconciles
    <2>3. PICK y : y = [x EXCEPT !.todo = t, !.stale = s]
      OBVIOUS
    <2>4. Step(w, n, y)
      BY <1>4, <2>1, <2>2, <2>3, Zenon
    <2>5. /\ y \in Reconciles /\ y.pc = x.pc /\ y.uid = x.uid /\ y.idx = x.idx /\ y.todo = t
          /\ y.stale = s
      BY <2>3, Zenon DEF Reconciles
    <2>. QED
      BY <1>1, <1>2, <1>4, <2>1, <2>2, <2>4, <2>5, Frees, Zenon
  <1>5. CASE Done(w, n) /\ UNCHANGED index
    BY <1>1, <1>2, <1>5, EndInductive
  <1>. QED
    BY <1>1, <1>3, <1>4, <1>5, Zenon DEF DeleteIndex

-----------------------------------------------------------------------------
(* Writes of a reservation. *)

\* The status of a live reservation is written, and the reconcile ends.
LEMMA StatusSet ==
    ASSUME DomainsInv, NEW w \in Pods, NEW n \in Names, Working(w, n), Done(w, n),
           rsv[n].uid = rc[w][n].uid, rsv[n].state = "live",
           NEW ready \in BOOLEAN, NEW domain \in Prefixes \cup {NoPrefix},
           rsv' = [rsv EXCEPT ![n].ready = ready, ![n].domain = domain],
           ready /\ Alone(n) => Owned(rsv[n].uid) = {domain},
           UNCHANGED <<lastUID, index, faults, shared>>
    PROVE  DomainsInv'
  <1>1. /\ rc' \in [Pods -> [Names -> Reconciles]] /\ rc'[w][n] = Idle
        /\ \A v \in Pods, m \in Names : v # w \/ m # n => rc'[v][m] = rc[v][m]
    BY IdleTyped, StepEffect DEF DomainsInv, Done
  <1>2. /\ rsv' \in [Names -> Reservations] /\ rsv'[n].uid = rsv[n].uid
        /\ rsv'[n].state = rsv[n].state /\ rsv'[n].fin = rsv[n].fin
        /\ rsv'[n].ready = ready /\ rsv'[n].domain = domain
        /\ \A m \in Names : m # n => rsv'[m] = rsv[m]
    <2>1. PICK x \in Reservations : x = rsv[n]
      BY DEF DomainsInv, TypeOK
    <2>2. PICK z : z = [x EXCEPT !.ready = ready, !.domain = domain]
      OBVIOUS
    <2>3. /\ z \in Reservations /\ z.uid = x.uid /\ z.state = x.state /\ z.fin = x.fin
          /\ z.ready = ready /\ z.domain = domain
      BY <2>2, Zenon DEF Reservations
    <2>4. rsv \in [Names -> Reservations]
      BY DEF DomainsInv, TypeOK
    <2>5. rsv' = [rsv EXCEPT ![n] = z]
      BY <2>1, <2>2, <2>4, Zenon
    <2>. QED
      BY <2>1, <2>3, <2>4, <2>5, Zenon
  <1>3. \A v \in Pods, m \in Names :
           /\ Working(v, m)' => Working(v, m) /\ rc'[v][m] = rc[v][m] /\ (v # w \/ m # n)
           /\ \/ rc'[v][m].uid = rc[v][m].uid
              \/ rc'[v][m].uid = 0 /\ ~Working(v, m)'
    BY <1>1, IdleTyped DEF Working
  <1>4. TypeOK'
    BY <1>1, <1>2 DEF DomainsInv, TypeOK
  <1>5. \A m \in Names : rsv'[m].uid = rsv[m].uid /\ rsv'[m].state = rsv[m].state /\ rsv'[m].fin = rsv[m].fin
    BY <1>2
  <1>6. UIDsApart'
    <2>1. shared' \subseteq 1 .. lastUID /\ \A p \in Prefixes : index'[p] <= lastUID
      BY DEF DomainsInv, UIDsApart
    <2>. QED
      BY <1>3, <1>5, <2>1, ApartStays, Zenon
  <1>7. NoLeak'
    <2>1. {rsv'[m].uid : m \in Names} = {rsv[m].uid : m \in Names}
      BY <1>5, Zenon
    <2>. QED
      BY <2>1, Zenon DEF DomainsInv, NoLeak
  <1>8. ASSUME NEW m \in Names PROVE ReservationSound(m)'
    <2>1. ReservationSound(m)
      BY DEF DomainsInv
    <2>2. CASE m = n
      BY <1>2, <2>1, <2>2 DEF ReservationSound, Alone, Owned
    <2>3. CASE m # n
      <3>1. rsv'[m] = rsv[m] /\ (rsv[m].uid = 0 => rsv[m].state = "none")
        BY <1>2, <2>3, Zenon DEF DomainsInv, UIDsApart
      <3>2. Alone(m)' => Alone(m)
        BY <3>1 DEF Alone
      <3>. QED
        BY <2>1, <3>1, <3>2, ReservationKept, Zenon
    <2>. QED
      BY <2>2, <2>3
  <1>9. ASSUME NEW v \in Pods, NEW m \in Names
        PROVE  ReconcileSound(v, m)' /\ AllocationSound(v, m)'
    <2>1. ReconcileSound(v, m) /\ AllocationSound(v, m)
      BY DEF DomainsInv
    <2>2. Working(v, m)' => Working(v, m) /\ rc'[v][m] = rc[v][m] /\ (v # w \/ m # n)
      BY <1>3, Zenon
    <2>3. Working(v, m) => \A z \in Pods \ {v} :
             Working(z, m)' /\ rc'[z][m].uid = rc[v][m].uid => rc[v][m].uid \in shared
      BY <1>3, <2>1, Zenon DEF ReconcileSound
    <2>4. Working(v, m) => \A q \in rc[v][m].todo \ rc[v][m].stale : index[q] \in {NoIndex, rc[v][m].uid}
      BY <2>1, Zenon DEF ReconcileSound
    <2>5. ReconcileSound(v, m)'
      BY <1>5, <2>1, <2>2, <2>3, <2>4, ReconcileKept, Zenon
    <2>6. Alone(m)' /\ Working(v, m)' /\ rsv'[m].uid = rc[v][m].uid =>
             /\ Alone(m) /\ rsv[m].uid = rc[v][m].uid
             /\ rsv'[m].ready = rsv[m].ready /\ rsv'[m].domain = rsv[m].domain
      <3>1. SUFFICES ASSUME Alone(m)', Working(v, m)', rsv'[m].uid = rc[v][m].uid
                     PROVE  m # n /\ Alone(m) /\ rsv[m].uid = rc[v][m].uid
        BY <1>2, Zenon
      <3>2. Alone(m) /\ rsv[m].uid = rc[v][m].uid /\ rsv[m].uid \notin shared
        BY <1>5, <3>1 DEF Alone
      <3>3. m # n
        BY <2>2, <3>1, <3>2, SameUID, Zenon
      <3>. QED
        BY <3>2, <3>3, Zenon
    <2>7. AllocationSound(v, m)'
      BY <2>1, <2>2, <2>6, AllocationKept, Zenon
    <2>. QED
      BY <2>5, <2>7, Zenon
  <1>. QED
    BY <1>4, <1>6, <1>7, <1>8, <1>9 DEF DomainsInv

\* The status says Ready, with the domain that the reconcile has chosen.
LEMMA MarkReadyInductive ==
    ASSUME DomainsInv, NEW w \in Pods, NEW n \in Names, MarkReady(w, n)
    PROVE  DomainsInv'
  <1>1. /\ Working(w, n) /\ rc[w][n].pc = "status" /\ AllocationSound(w, n) /\ Done(w, n)
        /\ UNCHANGED <<lastUID, index, faults, shared>> /\ faults' \in 0 .. MaxFaults
        /\ rc[w][n].idx \in Prefixes \cup {NoPrefix}
    BY DEF DomainsInv, TypeOK, Reconciles, MarkReady, Working
  <1>2. CASE rsv[n].uid = rc[w][n].uid /\ rsv[n].state = "live"
    <2>1. Alone(n) => Owned(rsv[n].uid) = {rc[w][n].idx}
      BY <1>1, <1>2 DEF AllocationSound
    <2>2. rsv' = [rsv EXCEPT ![n].ready = TRUE, ![n].domain = rc[w][n].idx]
      BY <1>2 DEF MarkReady, SetStatus
    <2>. QED
      BY <1>1, <1>2, <2>1, <2>2, StatusSet, Zenon
  <1>3. CASE ~(rsv[n].uid = rc[w][n].uid /\ rsv[n].state = "live")
    <2>1. rsv' = rsv
      BY <1>3 DEF MarkReady, SetStatus
    <2>. QED
      BY <1>1, <2>1, EndInductive
  <1>. QED
    BY <1>2, <1>3

\* All attempts have failed: the status says Pending.
LEMMA MarkPendingInductive ==
    ASSUME DomainsInv, NEW w \in Pods, NEW n \in Names, MarkPending(w, n)
    PROVE  DomainsInv'
  <1>1. /\ Working(w, n) /\ rc[w][n].pc = "pending" /\ Done(w, n)
        /\ UNCHANGED <<lastUID, index, faults, shared>> /\ faults' \in 0 .. MaxFaults
    BY DEF DomainsInv, TypeOK, MarkPending, Working
  <1>2. CASE rsv[n].uid = rc[w][n].uid /\ rsv[n].state = "live"
    <2>1. rsv' = [rsv EXCEPT ![n].ready = FALSE, ![n].domain = NoPrefix]
      BY <1>2 DEF MarkPending, SetStatus
    <2>. QED
      BY <1>1, <1>2, <2>1, StatusSet, Zenon
  <1>3. CASE ~(rsv[n].uid = rc[w][n].uid /\ rsv[n].state = "live")
    <2>1. rsv' = rsv
      BY <1>3 DEF MarkPending, SetStatus
    <2>. QED
      BY <1>1, <2>1, EndInductive
  <1>. QED
    BY <1>2, <1>3

\* A reservation goes, with its last Index gone, unless two pods reconciled it.
LEMMA Goes ==
    ASSUME DomainsInv, NEW n \in Names, rsv' = [rsv EXCEPT ![n] = NoRsv],
           UNCHANGED <<lastUID, index, faults, shared>>,
           rc' \in [Pods -> [Names -> Reconciles]],
           \A v \in Pods, m \in Names :
              rc'[v][m] = rc[v][m] \/ (rc'[v][m].uid = 0 /\ rc'[v][m].pc = "idle"),
           rsv[n].uid \notin shared => Owned(rsv[n].uid) = {},
           \A v \in Pods : Working(v, n)' => rc[v][n].uid # rsv[n].uid \/ rsv[n].uid \in shared
    PROVE  DomainsInv'
  <1>1. /\ rsv' \in [Names -> Reservations] /\ rsv'[n] = NoRsv
        /\ \A m \in Names : m # n => rsv'[m] = rsv[m]
    <2>1. NoRsv \in Reservations
      BY BoundsNat DEF NoRsv, Reservations, UIDs, NoPrefix
    <2>. QED
      BY <2>1 DEF DomainsInv, TypeOK
  <1>2. NoRsv.uid = 0 /\ NoRsv.state = "none"
    BY DEF NoRsv
  <1>3. \A v \in Pods, m \in Names : Working(v, m)' => Working(v, m) /\ rc'[v][m] = rc[v][m]
    BY DEF Working
  <1>4. TypeOK'
    BY <1>1 DEF DomainsInv, TypeOK
  <1>5. UIDsApart'
    <2>1. \A m \in Names : \/ rsv'[m].uid = rsv[m].uid /\ (rsv'[m].state = "none" <=> rsv[m].state = "none")
                           \/ rsv'[m].uid = 0 /\ rsv'[m].state = "none"
      BY <1>1, <1>2
    <2>2. \A v \in Pods, m \in Names : /\ Working(v, m)' => Working(v, m)
                                       /\ \/ rc'[v][m].uid = rc[v][m].uid
                                          \/ rc'[v][m].uid = 0 /\ ~Working(v, m)'
      BY DEF Working
    <2>3. shared' \subseteq 1 .. lastUID /\ \A p \in Prefixes : index'[p] <= lastUID
      BY DEF DomainsInv, UIDsApart
    <2>. QED
      BY <2>1, <2>2, <2>3, ApartStays, Zenon
  <1>6. NoLeak'
    <2>1. ASSUME NEW p \in Prefixes
          PROVE  index[p] \in {NoIndex} \cup shared \cup {rsv'[m].uid : m \in Names}
      <3>1. CASE index[p] \in {NoIndex} \cup shared
        BY <3>1
      <3>2. CASE index[p] \notin {NoIndex} \cup shared
        <4>1. PICK m \in Names : index[p] = rsv[m].uid
          BY <3>2 DEF DomainsInv, NoLeak
        <4>2. m # n
          BY <3>2, <4>1 DEF Owned
        <4>. QED
          BY <1>1, <4>1, <4>2
      <3>. QED
        BY <3>1, <3>2
    <2>. QED
      BY <2>1 DEF NoLeak
  <1>7. ASSUME NEW m \in Names PROVE ReservationSound(m)'
    <2>1. ReservationSound(m)
      BY DEF DomainsInv
    <2>2. CASE m = n
      BY <1>1, <1>2, <2>2 DEF ReservationSound, Alone
    <2>3. CASE m # n
      BY <1>1, <2>1, <2>3 DEF ReservationSound, Alone, Owned
    <2>. QED
      BY <2>2, <2>3
  <1>8. ASSUME NEW v \in Pods, NEW m \in Names
        PROVE  ReconcileSound(v, m)' /\ AllocationSound(v, m)'
    <2>1. ReconcileSound(v, m) /\ AllocationSound(v, m)
      BY DEF DomainsInv
    <2>2. Working(v, m)' => Working(v, m) /\ rc'[v][m] = rc[v][m]
      BY <1>3, Zenon
    <2>3. Working(v, m) => rc[v][m].uid # 0
      BY <2>1, Zenon DEF ReconcileSound
    <2>4. Working(v, m) => \A z \in Pods \ {v} :
             Working(z, m)' /\ rc'[z][m].uid = rc[v][m].uid => rc[v][m].uid \in shared
      BY <1>3, <2>1, Zenon DEF ReconcileSound
    <2>5. Working(v, m) => \A q \in rc[v][m].todo \ rc[v][m].stale : index[q] \in {NoIndex, rc[v][m].uid}
      BY <2>1, Zenon DEF ReconcileSound
    <2>6. CASE m = n
      <3>1. /\ rsv'[m].uid = 0 /\ rsv'[m].state = "none"
            /\ Working(v, m)' => (rsv[m].uid = rc[v][m].uid => rc[v][m].uid \in shared)
        BY <1>1, <1>2, <2>6, Zenon
      <3>2. ReconcileSound(v, m)'
        <4>1. CASE Working(v, m)'
          BY <2>1, <2>2, <2>3, <2>4, <2>5, <3>1, <4>1, ReconcileKept, Zenon
        <4>2. CASE ~Working(v, m)'
          BY <4>2, Zenon DEF ReconcileSound
        <4>. QED
          BY <4>1, <4>2
      <3>. QED
        BY <3>1, <3>2, Zenon DEF AllocationSound, Alone
    <2>7. CASE m # n
      <3>1. rsv'[m] = rsv[m]
        BY <1>1, <2>7
      <3>2. ReconcileSound(v, m)'
        BY <2>1, <2>2, <2>4, <2>5, <3>1, ReconcileKept, Zenon
      <3>3. Alone(m)' => Alone(m)
        BY <3>1 DEF Alone
      <3>4. AllocationSound(v, m)'
        BY <2>1, <2>2, <3>1, <3>3, AllocationKept, Zenon
      <3>. QED
        BY <3>2, <3>4
    <2>. QED
      BY <2>6, <2>7
  <1>. QED
    BY <1>4, <1>5, <1>6, <1>7, <1>8 DEF DomainsInv

\* The finalizer is removed from a reservation without an Index.
LEMMA FinalizeInductive ==
    ASSUME DomainsInv, NEW w \in Pods, NEW n \in Names, Finalize(w, n)
    PROVE  DomainsInv'
  <1>1. /\ Working(w, n) /\ rc[w][n].pc = "finalize" /\ ReconcileSound(w, n) /\ Done(w, n)
        /\ UNCHANGED <<lastUID, index, faults, shared>> /\ faults' \in 0 .. MaxFaults
    BY DEF DomainsInv, TypeOK, Finalize, Working
  <1>2. /\ rc' \in [Pods -> [Names -> Reconciles]] /\ rc'[w][n] = Idle
        /\ \A v \in Pods, m \in Names : v # w \/ m # n => rc'[v][m] = rc[v][m]
    BY <1>1, IdleTyped, StepEffect DEF DomainsInv, Done
  <1>3. CASE rsv[n].uid = rc[w][n].uid
    <2>1. rsv' = [rsv EXCEPT ![n] = NoRsv]
      BY <1>3 DEF Finalize
    <2>2. rsv[n].uid \notin shared => Owned(rsv[n].uid) = {}
      BY <1>1, <1>3, Zenon DEF ReconcileSound
    <2>3. \A v \in Pods : Working(v, n)' => rc[v][n].uid # rsv[n].uid \/ rsv[n].uid \in shared
      <3>1. SUFFICES ASSUME NEW v \in Pods, Working(v, n)', rc[v][n].uid = rsv[n].uid
                     PROVE  rsv[n].uid \in shared
        BY Zenon
      <3>2. v # w
        BY <1>2, <3>1, IdleTyped DEF Working
      <3>3. Working(v, n)
        BY <1>2, <3>1, <3>2, Zenon DEF Working
      <3>. QED
        BY <1>1, <1>3, <3>1, <3>2, <3>3, SameUID, Zenon
    <2>4. \A v \in Pods, m \in Names :
             rc'[v][m] = rc[v][m] \/ (rc'[v][m].uid = 0 /\ rc'[v][m].pc = "idle")
      BY <1>2, IdleTyped
    <2>. QED
      BY <1>1, <1>2, <2>1, <2>2, <2>3, <2>4, Goes, Zenon
  <1>4. CASE rsv[n].uid # rc[w][n].uid
    <2>1. rsv' = rsv
      BY <1>4 DEF Finalize
    <2>. QED
      BY <1>1, <2>1, EndInductive
  <1>. QED
    BY <1>3, <1>4

\* The UIDs of reservations that two pods reconcile were handed out.
LEMMA SharedGrows ==
    ASSUME DomainsInv, NEW n \in Names, rsv[n].uid # 0,
           shared' \in {shared, shared \cup {rsv[n].uid}}
    PROVE  /\ rsv[n].uid \in 1 .. lastUID /\ shared \subseteq shared' /\ shared' \subseteq 1 .. lastUID
           /\ shared' \subseteq UIDs
  <1>1. /\ rsv[n].uid \in UIDs /\ rsv[n].uid <= lastUID /\ lastUID \in UIDs
        /\ shared \subseteq 1 .. lastUID
    BY DEF DomainsInv, TypeOK, UIDsApart, Reservations
  <1>2. rsv[n].uid \in 1 .. lastUID /\ 1 .. lastUID \subseteq UIDs
    BY <1>1, BoundsNat DEF UIDs
  <1>. QED
    BY <1>1, <1>2, Zenon

\* A change of one reservation that keeps its UID and status, and takes no
\* finalizer away.
LEMMA Rewritten ==
    ASSUME DomainsInv, NEW n \in Names, NEW z \in Reservations, rsv' = [rsv EXCEPT ![n] = z],
           rsv[n].uid # 0, z.uid = rsv[n].uid, z.fin, z.ready = rsv[n].ready, z.domain = rsv[n].domain,
           \/ z.state = rsv[n].state
           \/ z.state = "deleting",
           UNCHANGED <<lastUID, index, rc>>, faults' \in 0 .. MaxFaults,
           shared' \in {shared, shared \cup {rsv[n].uid}}
    PROVE  DomainsInv'
  <1>1. /\ rsv' \in [Names -> Reservations] /\ rsv'[n] = z
        /\ \A m \in Names : m # n => rsv'[m] = rsv[m]
    BY DEF DomainsInv, TypeOK
  <1>2. \A m \in Names : /\ rsv'[m].uid = rsv[m].uid /\ (rsv'[m].state = "none" <=> rsv[m].state = "none")
                         /\ rsv'[m].ready = rsv[m].ready /\ rsv'[m].domain = rsv[m].domain
                         /\ rsv'[m].state = "live" => rsv[m].state = "live"
                         /\ rsv[m].state = "deleting" => rsv'[m].state = "deleting"
                         /\ rsv[m].fin => rsv'[m].fin
                         /\ rsv'[m].state = "deleting" => rsv'[m].fin \/ rsv[m].state = "deleting"
    BY <1>1 DEF DomainsInv, UIDsApart
  <1>3. /\ rsv[n].uid \in 1 .. lastUID /\ shared \subseteq shared' /\ shared' \subseteq 1 .. lastUID
        /\ shared' \subseteq UIDs
    BY SharedGrows
  <1>4. TypeOK'
    BY <1>1, <1>3 DEF DomainsInv, TypeOK
  <1>5. UIDsApart'
    <2>1. \A p \in Prefixes : index'[p] <= lastUID
      BY DEF DomainsInv, UIDsApart
    <2>2. \A v \in Pods, m \in Names : rc'[v][m].uid = rc[v][m].uid /\ (Working(v, m)' => Working(v, m))
      BY Zenon DEF Working
    <2>. QED
      BY <1>2, <1>3, <2>1, <2>2, ApartStays, Zenon
  <1>6. NoLeak'
    <2>1. {rsv'[m].uid : m \in Names} = {rsv[m].uid : m \in Names}
      BY <1>2
    <2>. QED
      BY <1>3, <2>1 DEF DomainsInv, NoLeak
  <1>7. ASSUME NEW m \in Names PROVE ReservationSound(m)'
    <2>1. ReservationSound(m) /\ (rsv[m].uid = 0 => rsv[m].state = "none")
      BY Zenon DEF DomainsInv, UIDsApart
    <2>2. Alone(m)' => Alone(m)
      BY <1>2, <1>3, Zenon DEF Alone
    <2>3. rsv[m].uid = 0 => rsv'[m].state = "none"
      BY <1>2, <2>1, Zenon
    <2>4. rsv'[m].state = "deleting" => rsv[m].state = "deleting" \/ rsv'[m].fin
      BY <1>2, Zenon
    <2>. QED
      BY <1>2, <2>1, <2>2, <2>3, <2>4, ReservationKept, Zenon
  <1>8. ASSUME NEW v \in Pods, NEW m \in Names
        PROVE  ReconcileSound(v, m)' /\ AllocationSound(v, m)'
    <2>1. ReconcileSound(v, m) /\ AllocationSound(v, m) /\ (Alone(m)' => Alone(m))
      BY <1>2, <1>3 DEF DomainsInv, Alone
    <2>2. ReconcileSound(v, m)'
      BY <1>2, <1>3, <2>1, Zenon DEF ReconcileSound, Working, Owned
    <2>3. AllocationSound(v, m)'
      BY <1>2, <2>1, Zenon DEF AllocationSound, Working, Owned
    <2>. QED
      BY <2>2, <2>3
  <1>. QED
    BY <1>4, <1>5, <1>6, <1>7, <1>8 DEF DomainsInv

\* A reservation is deleted: without a finalizer it has neither an Index nor a
\* reconcile.
LEMMA DeleteInductive ==
    ASSUME DomainsInv, NEW n \in Names, Delete(n)
    PROVE  DomainsInv'
  <1>1. PICK x \in Reservations : x = rsv[n] /\ x.state = "live" /\ x.uid # 0
    BY DEF DomainsInv, TypeOK, UIDsApart, Delete
  <1>2. UNCHANGED <<lastUID, index, rc, faults, shared>> /\ faults' \in 0 .. MaxFaults
    BY DEF DomainsInv, TypeOK, Delete
  <1>3. CASE x.fin
    <2>1. PICK z : z = [x EXCEPT !.state = "deleting"]
      BY Zenon
    <2>2. /\ z \in Reservations /\ z.uid = x.uid /\ z.state = "deleting" /\ z.fin
          /\ z.ready = x.ready /\ z.domain = x.domain
      BY <1>3, <2>1 DEF Reservations
    <2>3. rsv' = [rsv EXCEPT ![n] = z]
      BY <1>1, <1>3, <2>1 DEF Delete
    <2>. QED
      BY <1>1, <1>2, <2>2, <2>3, Rewritten, Zenon
  <1>4. CASE ~x.fin
    <2>1. rsv' = [rsv EXCEPT ![n] = NoRsv]
      BY <1>1, <1>4 DEF Delete
    <2>2. Owned(rsv[n].uid) = {}
      BY <1>1, <1>4 DEF DomainsInv, ReservationSound
    <2>3. \A v \in Pods : Working(v, n) => rc[v][n].uid # rsv[n].uid
      BY <1>1, <1>4 DEF DomainsInv, ReconcileSound
    <2>4. rc' \in [Pods -> [Names -> Reconciles]] /\ rc' = rc
      BY <1>2 DEF DomainsInv, TypeOK
    <2>5. \A v \in Pods : Working(v, n)' => Working(v, n)
      BY <2>4 DEF Working
    <2>. QED
      BY <1>2, <2>1, <2>2, <2>3, <2>4, <2>5, Goes, Zenon
  <1>. QED
    BY <1>3, <1>4

\* A reservation is created, with a UID nothing has.
LEMMA CreateInductive ==
    ASSUME DomainsInv, NEW n \in Names, Create(n)
    PROVE  DomainsInv'
  <1>1. PICK u : u = lastUID + 1
    OBVIOUS
  <1>2. PICK z : z = [NoRsv EXCEPT !.uid = u, !.state = "live"]
    OBVIOUS
  <1>3. /\ rsv' = [rsv EXCEPT ![n] = z] /\ lastUID' = u /\ UNCHANGED <<index, rc, faults, shared>>
        /\ rsv[n].uid = 0
    BY <1>1, <1>2 DEF Create
  <1>4. lastUID \in Nat /\ lastUID \in UIDs /\ u \in UIDs /\ u \in Nat /\ u > lastUID
    BY <1>1, BoundsNat DEF Create, DomainsInv, TypeOK, UIDs
  <1>5. z \in Reservations /\ z.uid = u /\ z.state = "live" /\ ~z.ready
    BY <1>2, <1>4, Zenon DEF NoRsv, Reservations, NoPrefix
  <1>6. /\ rsv' \in [Names -> Reservations] /\ rsv'[n] = z
        /\ \A m \in Names : m # n => rsv'[m] = rsv[m]
    BY <1>3, <1>5 DEF DomainsInv, TypeOK
  <1>7. /\ \A p \in Prefixes : index[p] <= u /\ index[p] # u
        /\ \A m \in Names : /\ rsv[m].uid <= u /\ rsv[m].uid # u
                            /\ \A v \in Pods : rc[v][m].uid <= u /\ rc[v][m].uid # u
    BY <1>4, BoundsNat DEF DomainsInv, TypeOK, UIDsApart, UIDs, Reservations, Reconciles
  <1>8. TypeOK'
    BY <1>3, <1>4, <1>6 DEF DomainsInv, TypeOK
  <1>9. UIDsApart'
    <2>1. UIDsApart
      BY DEF DomainsInv
    <2>2. shared' \subseteq 1 .. lastUID'
      <3>1. 1 .. lastUID \subseteq 1 .. u
        BY <1>4
      <3>. QED
        BY <1>3, <2>1, <3>1, Zenon DEF UIDsApart
    <2>3. \A p \in Prefixes : index'[p] <= lastUID'
      BY <1>3, <1>7, Zenon
    <2>4. ASSUME NEW m \in Names
          PROVE  /\ rsv'[m].uid <= lastUID' /\ (rsv'[m].uid = 0 <=> rsv'[m].state = "none")
                 /\ \A v \in Pods : rc'[v][m].uid <= lastUID'
      <3>1. \A v \in Pods : rc'[v][m].uid <= lastUID'
        BY <1>3, <1>7, Zenon
      <3>2. CASE m = n
        <4>1. u <= u /\ u # 0
          BY <1>4
        <4>2. rsv'[m].uid = u /\ rsv'[m].state # "none"
          BY <1>5, <1>6, <3>2
        <4>. QED
          BY <1>3, <3>1, <4>1, <4>2, Zenon
      <3>3. CASE m # n
        <4>1. rsv[m].uid <= lastUID' /\ (rsv[m].uid = 0 <=> rsv[m].state = "none")
          BY <1>3, <1>7, <2>1, Zenon DEF UIDsApart
        <4>. QED
          BY <1>6, <3>1, <3>3, <4>1
      <3>. QED
        BY <3>2, <3>3
    <2>5. ASSUME NEW k \in Names, NEW m \in Names, k # m
          PROVE  /\ rsv'[k].uid = rsv'[m].uid => rsv'[k].uid = 0
                 /\ \A w \in Pods : Working(w, k)' => rc'[w][k].uid # rsv'[m].uid
                 /\ \A w, v \in Pods : Working(w, k)' /\ Working(v, m)' => rc'[w][k].uid # rc'[v][m].uid
      <3>1. /\ rsv[k].uid = rsv[m].uid => rsv[k].uid = 0
            /\ \A w \in Pods : Working(w, k) => rc[w][k].uid # rsv[m].uid
            /\ \A w, v \in Pods : Working(w, k) /\ Working(v, m) => rc[w][k].uid # rc[v][m].uid
        BY <2>1, <2>5, Zenon DEF UIDsApart
      <3>2. /\ rsv'[k].uid = IF k = n THEN u ELSE rsv[k].uid
            /\ rsv'[m].uid = IF m = n THEN u ELSE rsv[m].uid
        BY <1>5, <1>6
      <3>3. rsv'[k].uid = rsv'[m].uid => rsv'[k].uid = 0
        BY <1>7, <2>5, <3>1, <3>2, Zenon
      <3>4. \A w \in Pods : (Working(w, k)' <=> Working(w, k)) /\ (Working(w, m)' <=> Working(w, m))
        BY <1>3 DEF Working
      <3>5. \A w \in Pods : Working(w, k)' => rc'[w][k].uid # rsv'[m].uid
        BY <1>3, <1>7, <3>1, <3>2, <3>4
      <3>. QED
        BY <1>3, <3>1, <3>3, <3>4, <3>5, Zenon
    <2>. QED
      BY <2>2, <2>3, <2>4, <2>5, Zenon DEF UIDsApart
  <1>10. NoLeak'
    <2>1. ASSUME NEW p \in Prefixes
          PROVE  index[p] \in {NoIndex} \cup shared \cup {rsv'[m].uid : m \in Names}
      <3>1. CASE index[p] \in {NoIndex} \cup shared
        BY <3>1
      <3>2. CASE index[p] \notin {NoIndex} \cup shared
        <4>1. PICK m \in Names : index[p] = rsv[m].uid
          BY <3>2 DEF DomainsInv, NoLeak
        <4>2. m # n
          BY <1>3, <3>2, <4>1 DEF NoIndex
        <4>. QED
          BY <1>6, <4>1, <4>2
      <3>. QED
        BY <3>1, <3>2
    <2>. QED
      BY <1>3, <2>1 DEF NoLeak
  <1>11. ASSUME NEW m \in Names PROVE ReservationSound(m)'
    <2>1. ReservationSound(m)
      BY DEF DomainsInv
    <2>2. CASE m = n
      BY <1>3, <1>5, <1>6, <1>7, <2>2 DEF ReservationSound, Owned
    <2>3. CASE m # n
      <3>1. rsv'[m] = rsv[m] /\ (rsv[m].uid = 0 => rsv[m].state = "none")
        BY <1>6, <2>3, Zenon DEF DomainsInv, UIDsApart
      <3>2. Alone(m)' => Alone(m)
        BY <1>3, <3>1 DEF Alone
      <3>. QED
        BY <1>3, <2>1, <3>1, <3>2, ReservationKept, Zenon
    <2>. QED
      BY <2>2, <2>3
  <1>12. ASSUME NEW v \in Pods, NEW m \in Names
         PROVE  ReconcileSound(v, m)' /\ AllocationSound(v, m)'
    <2>1. ReconcileSound(v, m) /\ AllocationSound(v, m)
      BY DEF DomainsInv
    <2>2. rsv'[m] = rsv[m] \/ (m = n /\ rsv'[m].uid # rc[v][m].uid)
      BY <1>5, <1>6, <1>7
    <2>3. /\ Working(v, m)' => Working(v, m)
          /\ Alone(m)' /\ rsv'[m].uid = rc[v][m].uid => Alone(m)
      BY <1>3, <2>2 DEF Working, Alone
    <2>4. Working(v, m) =>
             /\ \A y \in Pods \ {v} : Working(y, m)' /\ rc[y][m].uid = rc[v][m].uid => rc[v][m].uid \in shared
             /\ \A q \in rc[v][m].todo \ rc[v][m].stale : index[q] \in {NoIndex, rc[v][m].uid}
      BY <1>3, <2>1, Zenon DEF ReconcileSound, Working
    <2>5. Working(v, m) /\ m = n => rsv[m].uid # rc[v][m].uid
      BY <1>3, <2>1, Zenon DEF ReconcileSound
    <2>6. ReconcileSound(v, m)'
      <3>1. CASE Working(v, m)
        BY <1>3, <2>1, <2>2, <2>3, <2>4, <2>5, <3>1, ReconcileKept, Zenon
      <3>2. CASE ~Working(v, m)
        BY <2>3, <3>2, Zenon DEF ReconcileSound
      <3>. QED
        BY <3>1, <3>2
    <2>7. AllocationSound(v, m)'
      BY <1>3, <2>1, <2>2, <2>3, AllocationKept, Zenon
    <2>. QED
      BY <2>6, <2>7
  <1>. QED
    BY <1>8, <1>9, <1>10, <1>11, <1>12 DEF DomainsInv

\* A pod starts a reconcile, of a reservation with the finalizer.
LEMMA Starts ==
    ASSUME DomainsInv, NEW w \in Pods, NEW n \in Names, NEW y \in Reconciles, ~Working(w, n), Step(w, n, y),
           rsv[n].uid # 0, y.uid = rsv[n].uid, y.todo = {}, rsv[n].fin,
           y.pc = "recover" \/ (y.pc = "own" /\ rsv[n].state = "deleting"),
           UNCHANGED <<rsv, lastUID, index>>, faults' \in 0 .. MaxFaults,
           shared' \in {shared, shared \cup {rsv[n].uid}},
           (\E v \in Pods \ {w} : Working(v, n)) => rsv[n].uid \in shared'
    PROVE  DomainsInv'
  <1>1. /\ rc' \in [Pods -> [Names -> Reconciles]] /\ rc'[w][n] = y
        /\ \A v \in Pods, m \in Names : v # w \/ m # n => rc'[v][m] = rc[v][m]
    BY StepEffect, Zenon DEF DomainsInv
  <1>2. /\ rsv[n].uid \in 1 .. lastUID /\ shared \subseteq shared' /\ shared' \subseteq 1 .. lastUID
        /\ shared' \subseteq UIDs
    BY SharedGrows
  <1>3. \A v \in Pods, m \in Names :
           \/ rc'[v][m] = rc[v][m]
           \/ v = w /\ m = n /\ rc'[v][m].uid = rsv[n].uid
    BY <1>1
  <1>4. TypeOK'
    BY <1>1, <1>2, Zenon DEF DomainsInv, TypeOK
  <1>5. UIDsApart'
    <2>1. \A p \in Prefixes : index'[p] <= lastUID
      BY Zenon DEF DomainsInv, UIDsApart
    <2>2. \A v \in Pods, m \in Names :
             \/ rc'[v][m].uid = rc[v][m].uid /\ (Working(v, m)' => Working(v, m))
             \/ rc'[v][m].uid = rsv[m].uid /\ rsv[m].uid # 0
      BY <1>3, Zenon DEF Working
    <2>. QED
      BY <1>2, <2>1, <2>2, ApartStays, Zenon
  <1>6. NoLeak' /\ \A m \in Names : ReservationSound(m)'
    <2>1. NoLeak'
      BY <1>2 DEF DomainsInv, NoLeak
    <2>2. ASSUME NEW m \in Names PROVE ReservationSound(m)'
      <3>1. ReservationSound(m) /\ (rsv[m].uid = 0 => rsv[m].state = "none")
        BY Zenon DEF DomainsInv, UIDsApart
      <3>2. Alone(m)' => Alone(m)
        BY <1>2, Zenon DEF Alone
      <3>. QED
        BY <3>1, <3>2, ReservationKept, Zenon
    <2>. QED
      BY <2>1, <2>2
  <1>7. ASSUME NEW v \in Pods, NEW m \in Names, v # w \/ m # n
        PROVE  ReconcileSound(v, m)' /\ AllocationSound(v, m)'
    <2>1. rc'[v][m] = rc[v][m] /\ ReconcileSound(v, m) /\ AllocationSound(v, m) /\ (Alone(m)' => Alone(m))
      BY <1>1, <1>2, <1>7 DEF DomainsInv, Alone
    <2>2. Working(v, m) => \A z \in Pods \ {v} :
             Working(z, m)' /\ rc'[z][m].uid = rc[v][m].uid => rc[v][m].uid \in shared'
      <3>1. SUFFICES ASSUME Working(v, m), NEW z \in Pods \ {v}, Working(z, m)', rc'[z][m].uid = rc[v][m].uid
                     PROVE  rc[v][m].uid \in shared'
        BY Zenon
      <3>2. CASE z = w /\ m = n
        BY <1>1, <3>1, <3>2, Zenon
      <3>3. CASE z # w \/ m # n
        BY <1>1, <1>2, <2>1, <3>1, <3>3, Zenon DEF ReconcileSound, Working
      <3>. QED
        BY <3>2, <3>3, Zenon
    <2>3. Working(v, m)' <=> Working(v, m)
      BY <2>1, Zenon DEF Working
    <2>4. Working(v, m) => \A q \in rc[v][m].todo \ rc[v][m].stale : index[q] \in {NoIndex, rc[v][m].uid}
      BY <2>1, Zenon DEF ReconcileSound
    <2>5. ReconcileSound(v, m)'
      BY <1>2, <2>1, <2>2, <2>3, <2>4, ReconcileKept, Zenon
    <2>6. AllocationSound(v, m)'
      BY <2>1, <2>3, AllocationKept, Zenon
    <2>. QED
      BY <2>5, <2>6
  <1>8. ReconcileSound(w, n)' /\ AllocationSound(w, n)'
    <2>1. \A z \in Pods \ {w} : Working(z, n)' => rsv[n].uid \in shared'
      BY <1>1 DEF Working
    <2>. QED
      BY <1>1, <2>1, Zenon DEF ReconcileSound, AllocationSound
  <1>. QED
    BY <1>4, <1>5, <1>6, <1>7, <1>8, Zenon DEF DomainsInv

\* A reservation is read: the finalizer is added first.
LEMMA ReadInductive ==
    ASSUME DomainsInv, NEW w \in Pods, NEW n \in Names, Read(w, n)
    PROVE  DomainsInv'
  <1>1. PICK x \in Reservations : x = rsv[n] /\ x.uid # 0 /\ x.state \in {"live", "deleting"}
    BY DEF DomainsInv, TypeOK, UIDsApart, Read, Reservations
  <1>2. /\ ~Working(w, n) /\ UNCHANGED <<lastUID, index>> /\ faults' \in 0 .. MaxFaults
        /\ shared' \in {shared, shared \cup {rsv[n].uid}}
        /\ (\E v \in Pods \ {w} : Working(v, n)) => rsv[n].uid \in shared'
    <2>1. /\ faults \in 0 .. MaxFaults /\ ~Working(w, n) /\ UNCHANGED <<lastUID, index>> /\ Shared(w, n)
      BY DEF DomainsInv, TypeOK, Read, Free, Working
    <2>2. CASE \A v \in Pods \ {w} : rc[v][n].pc = "idle"
      BY <2>1, <2>2 DEF Shared, Working
    <2>3. CASE ~(\A v \in Pods \ {w} : rc[v][n].pc = "idle")
      <3>1. faults < MaxFaults /\ faults' = faults + 1 /\ shared' = shared \cup {rsv[n].uid}
        BY <2>1, <2>3 DEF Shared
      <3>. QED
        BY <2>1, <3>1, BoundsNat
    <2>. QED
      BY <2>2, <2>3
  <1>3. CASE x.state = "live" /\ ~x.fin
    <2>1. PICK z : z = [x EXCEPT !.fin = TRUE]
      BY Zenon
    <2>2. /\ z \in Reservations /\ z.uid = x.uid /\ z.state = x.state /\ z.fin
          /\ z.ready = x.ready /\ z.domain = x.domain
      BY <2>1, Zenon DEF Reservations
    <2>3. rsv' = [rsv EXCEPT ![n] = z] /\ UNCHANGED rc
      BY <1>1, <1>3, <2>1 DEF Read
    <2>. QED
      BY <1>1, <1>2, <2>2, <2>3, Rewritten, Zenon
  <1>4. CASE ~(x.state = "live" /\ ~x.fin)
    <2>1. PICK l \in {"recover", "own"} : l = IF x.state = "live" THEN "recover" ELSE "own"
      OBVIOUS
    <2>a. PICK i \in Reconciles : i = Idle /\ i.todo = {}
      BY IdleTyped DEF Idle
    <2>2. PICK y : y = [i EXCEPT !.pc = l, !.uid = x.uid]
      OBVIOUS
    <2>3. Step(w, n, y) /\ UNCHANGED rsv
      BY <1>1, <1>4, <2>1, <2>a, <2>2 DEF Read
    <2>4. y \in Reconciles /\ y.pc = l /\ y.uid = x.uid /\ y.todo = {}
      BY <2>a, <2>2, Zenon DEF Reconciles, Reservations
    <2>5. x.fin
      BY <1>1, <1>4 DEF DomainsInv, ReservationSound
    <2>. QED
      BY <1>1, <1>2, <2>1, <2>3, <2>4, <2>5, Starts
  <1>. QED
    BY <1>3, <1>4

-----------------------------------------------------------------------------
(* The invariant, and what follows. *)

\* Before the first reservation.
LEMMA InitInductive == Init => DomainsInv
  <1>. SUFFICES ASSUME Init PROVE DomainsInv
    OBVIOUS
  <1>1. NoRsv \in Reservations /\ NoRsv.uid = 0 /\ NoRsv.state = "none" /\ ~NoRsv.ready
    BY BoundsNat DEF NoRsv, Reservations, UIDs, NoPrefix
  <1>2. 0 \in UIDs /\ 0 \in 0 .. MaxFaults
    BY BoundsNat DEF UIDs
  <1>3. /\ \A n \in Names : rsv[n] = NoRsv /\ \A w \in Pods : rc[w][n] = Idle
        /\ \A p \in Prefixes : index[p] = 0
    BY DEF Init, NoIndex
  <1>4. TypeOK
    BY <1>1, <1>2, IdleTyped DEF Init, TypeOK, NoIndex
  <1>5. UIDsApart
    BY <1>1, <1>3, IdleTyped DEF Init, UIDsApart, Working
  <1>6. NoLeak
    BY <1>3 DEF NoLeak, NoIndex
  <1>7. \A n \in Names : ReservationSound(n)
    BY <1>1, <1>3 DEF ReservationSound, Alone
  <1>8. \A n \in Names : \A w \in Pods : ReconcileSound(w, n) /\ AllocationSound(w, n)
    <2>1. \A n \in Names : \A w \in Pods : ~Working(w, n)
      BY <1>3, IdleTyped DEF Working
    <2>. QED
      BY <2>1, Zenon DEF ReconcileSound, AllocationSound
  <1>. QED
    BY <1>4, <1>5, <1>6, <1>7, <1>8, Zenon DEF DomainsInv

\* Every step preserves the invariant.
LEMMA NextInductive == DomainsInv /\ [Next]_vars => DomainsInv'
  <1>. SUFFICES ASSUME DomainsInv, [Next]_vars PROVE DomainsInv'
    OBVIOUS
  <1>1. CASE UNCHANGED vars
    <2>1. UNCHANGED <<rsv, lastUID, index, rc, faults, shared>>
      BY <1>1 DEF vars
    <2>2. TypeOK' /\ NoLeak'
      BY <2>1, Zenon DEF DomainsInv, TypeOK, NoLeak
    <2>3. UIDsApart'
      <3>1. shared' \subseteq 1 .. lastUID /\ \A p \in Prefixes : index'[p] <= lastUID
        BY <2>1, Zenon DEF DomainsInv, UIDsApart
      <3>2. \A v \in Pods, m \in Names : rc'[v][m].uid = rc[v][m].uid /\ (Working(v, m)' => Working(v, m))
        BY <2>1, Zenon DEF Working
      <3>. QED
        BY <2>1, <3>1, <3>2, ApartStays, Zenon
    <2>4. ASSUME NEW n \in Names PROVE ReservationSound(n)'
      BY <2>1, Zenon DEF DomainsInv, ReservationSound, Alone, Owned
    <2>5. ASSUME NEW n \in Names, NEW w \in Pods PROVE ReconcileSound(w, n)' /\ AllocationSound(w, n)'
      <3>1. ReconcileSound(w, n) /\ AllocationSound(w, n)
        BY Zenon DEF DomainsInv
      <3>2. ReconcileSound(w, n)'
        BY <2>1, <3>1, Zenon DEF ReconcileSound, Working, Owned
      <3>3. AllocationSound(w, n)'
        BY <2>1, <3>1, Zenon DEF AllocationSound, Working, Alone, Owned
      <3>. QED
        BY <3>2, <3>3
    <2>. QED
      BY <2>2, <2>3, <2>4, <2>5, Zenon DEF DomainsInv
  <1>2. ASSUME NEW n \in Names, Create(n) \/ Delete(n) PROVE DomainsInv'
    BY <1>2, CreateInductive, DeleteInductive
  <1>3. ASSUME NEW n \in Names, NEW w \in Owners[n], Reconcile(w, n) \/ Fails(w, n) PROVE DomainsInv'
    <2>1. w \in Pods
      BY PodsNat
    <2>2. ASSUME Prune(w, n) \/ Drop(w, n) PROVE DomainsInv'
      BY <2>1, <2>2, DeleteIndexInductive DEF Prune, Drop
    <2>. QED
      BY <1>3, <2>1, <2>2, ReadInductive, RecoverInductive, CreateIndexInductive, CollideInductive, VerifyInductive,
         ListDuplicatesInductive, MarkReadyInductive, MarkPendingInductive, ListOwnedInductive,
         ConfirmInductive, FinalizeInductive, FailsInductive, Zenon, Zenon DEF Reconcile
  <1>. QED
    BY <1>1, <1>2, <1>3 DEF Next

\* The invariant holds.
LEMMA DomainsHold == Spec => []DomainsInv
  BY InitInductive, NextInductive, PTL DEF Spec

\* Whatever fails and whoever else reconciles, the domain in the status of a live
\* reservation is an Index that it owns, and no Index outlives its reservation,
\* unless two pods reconciled that one at the same time (allocateIndex,
\* deleteDuplicateOwnedIndexes, reconcileDelete).
THEOREM DomainsAgree == Spec => []DomainsConsistent
  <1>1. DomainsInv => DomainsConsistent
    <2>. SUFFICES ASSUME DomainsInv PROVE DomainsConsistent
      OBVIOUS
    <2>1. ASSUME NEW n \in Names, rsv[n].ready, rsv[n].state = "live", rsv[n].uid \notin shared
          PROVE  index[rsv[n].domain] = rsv[n].uid
      <3>1. Owned(rsv[n].uid) = {rsv[n].domain}
        BY <2>1 DEF DomainsInv, ReservationSound, Alone
      <3>. QED
        BY <3>1 DEF Owned
    <2>. QED
      BY <2>1, Zenon DEF DomainsInv, DomainsConsistent, ReadyIsOwned
  <1>. QED
    BY <1>1, DomainsHold, PTL

\* What a Ready reservation keeps over a step.
LEMMA KeepsDomain ==
    ASSUME DomainsInv, Next, NEW n \in Names, rsv[n].ready, rsv'[n].uid = rsv[n].uid, rsv[n].uid \notin shared
    PROVE  rsv'[n].domain = rsv[n].domain
  <1>1. rsv \in [Names -> Reservations] /\ UIDsApart
    BY DEF DomainsInv, TypeOK
  <1>2. NoRsv.uid = 0
    BY DEF NoRsv
  <1>3. ASSUME NEW m \in Names, Create(m) PROVE rsv'[n].domain = rsv[n].domain
    <2>1. lastUID + 1 # 0 /\ [NoRsv EXCEPT !.uid = lastUID + 1, !.state = "live"].uid = lastUID + 1
      BY BoundsNat DEF DomainsInv, TypeOK, UIDs, NoRsv
    <2>2. m # n
      BY <1>1, <1>3, <2>1 DEF Create
    <2>. QED
      BY <1>1, <1>3, <2>2 DEF Create
  <1>4. ASSUME NEW m \in Names, Delete(m) PROVE rsv'[n].domain = rsv[n].domain
    <2>1. CASE m = n
      <3>1. rsv[n].uid # 0 /\ rsv[n].state = "live"
        BY <1>1, <1>4, <2>1 DEF Delete, UIDsApart
      <3>2. rsv[n].fin
        BY <1>1, <1>2, <1>4, <2>1, <3>1 DEF Delete
      <3>3. PICK x \in Reservations : x = rsv[n]
        BY <1>1
      <3>4. rsv'[n] = [x EXCEPT !.state = "deleting"]
        BY <1>1, <1>4, <2>1, <3>2, <3>3 DEF Delete
      <3>. QED
        BY <3>3, <3>4 DEF Reservations
    <2>2. CASE m # n
      BY <1>1, <1>4, <2>2 DEF Delete
    <2>. QED
      BY <2>1, <2>2
  <1>5. ASSUME NEW m \in Names, NEW w \in Owners[m], Reconcile(w, m) \/ Fails(w, m)
        PROVE  rsv'[n].domain = rsv[n].domain
    <2>1. w \in Pods
      BY PodsNat
    <2>2. CASE rsv' = rsv
      BY <2>2
    <2>3. CASE Read(w, m)
      <3>1. PICK x \in Reservations : x = rsv[m]
        BY <1>1
      <3>2. PICK z : z = [x EXCEPT !.fin = TRUE]
        BY Zenon
      <3>3. z.domain = x.domain
        BY <3>2 DEF Reservations
      <3>4. rsv' = rsv \/ rsv' = [rsv EXCEPT ![m] = z]
        BY <1>1, <2>3, <3>1, <3>2 DEF Read
      <3>. QED
        BY <1>1, <3>1, <3>3, <3>4
    <2>4. ASSUME rc[w][m].pc \in {"status", "pending"}, NEW ready, NEW domain, SetStatus(m, rc[w][m].uid, ready, domain),
                 rc[w][m].pc = "status" => domain = rc[w][m].idx
          PROVE  rsv'[n].domain = rsv[n].domain
      <3>1. CASE m = n /\ rsv[n].uid = rc[w][m].uid /\ rsv[n].state = "live"
        <4>1. rc[w][m].pc = "status" /\ rc[w][m].idx = rsv[n].domain
          BY <2>1, <2>4, <3>1, Zenon DEF DomainsInv, AllocationSound, Alone, Working
        <4>. QED
          BY <1>1, <2>4, <3>1, <4>1 DEF SetStatus
      <3>2. CASE m # n
        BY <1>1, <2>4, <3>2 DEF SetStatus
      <3>3. CASE m = n /\ ~(rsv[n].uid = rc[w][m].uid /\ rsv[n].state = "live")
        BY <2>4, <3>3 DEF SetStatus
      <3>. QED
        BY <3>1, <3>2, <3>3
    <2>5. CASE MarkReady(w, m) \/ MarkPending(w, m)
      BY <2>4, <2>5, Zenon DEF MarkReady, MarkPending
    <2>6. CASE Finalize(w, m)
      <3>1. m = n => rsv[n].uid # rc[w][m].uid \/ rsv[n].uid # 0
        BY <2>1, <2>6, Zenon DEF Finalize, DomainsInv, ReconcileSound, Working
      <3>. QED
        BY <1>1, <1>2, <2>6, <3>1 DEF Finalize
    <2>. QED
      BY <1>5, <2>2, <2>3, <2>5, <2>6, Zenon DEF Reconcile, Recover, CreateIndex, Collide, Verify, ListDuplicates,
         Prune, Drop, DeleteIndex, ListOwned, Confirm, Fails
  <1>. QED
    BY <1>3, <1>4, <1>5 DEF Next

\* The domain of a Ready reservation, which Clusters copy to their status, does
\* not change while the reservation exists, unless two pods choose it
\* (recoverOwnedIndex, updateReservationStatus).
THEOREM DomainIsKept == Spec => DomainStable
  <1>1. DomainsInv /\ [Next]_vars
          => [\A n \in Names : rsv[n].ready /\ rsv'[n].uid = rsv[n].uid /\ rsv[n].uid \notin shared
                                 => rsv'[n].domain = rsv[n].domain]_vars
    BY KeepsDomain
  <1>. QED
    BY <1>1, DomainsHold, PTL DEF Spec, DomainStable
=============================================================================
