--------------------------- MODULE WriteProcProofs ----------------------------
(***************************************************************************)
(* Proofs, for every set of keys, clients and contents and every bound,    *)
(* that pgctl_write and pgClient lose no update, that a version names one  *)
(* state, and that they implement the stamped table InformerWatch reads.   *)
(***************************************************************************)
EXTENDS WriteProc, FiniteSetTheorems, TLAPS

\* Rows, arguments and objects are records of the expected types.
LEMMA Typed ==
    ASSUME TypeOK, NEW c \in Clients
    PROVE  /\ pc[c] # "idle" /\ req[c] # NoReq =>
                /\ req[c].op \in Ops /\ req[c].key \in Keys /\ req[c].key # NoKey
                /\ req[c].new \in Resource /\ req[c].from \in Resource
           /\ obj[c].res \in Resource
           /\ obj[c].key # NoKey => obj[c].key \in Keys
           /\ xid[c] \in Nat
  BY KeysFinite DEF TypeOK, Req, NoReq

\* So are the counters.
LEMMA CountersTyped ==
    ASSUME TypeOK
    PROVE  /\ nextXid \in Nat /\ nextUid \in Nat
           /\ \A k \in Keys : stamp[k] \in Nat /\ lock[k] \in Clients \cup {NoClient}
  BY DEF TypeOK

\* What is below a counter is below its successor.
LEMMA NextAbove == \A a, b \in Nat : a < b => a < b + 1
  OBVIOUS

\* No resource is a resource that is not there.
LEMMA NoResTyped == NoRes \in Resource /\ ~Present(NoRes)
  BY DEF NoRes, Resource, Present

\* A resource with new fields is a resource.
LEMMA CreatedTyped ==
    ASSUME NEW r \in Resource, NEW u \in Nat
    PROVE  [r EXCEPT !.uid = u, !.version = 1, !.del = 0] \in Resource
  BY DEF Resource

\* So is the next version of one, with another's status.
LEMMA UpdatedTyped ==
    ASSUME NEW r \in Resource, NEW q \in Resource
    PROVE  /\ [r EXCEPT !.version = @ + 1, !.status = q.status] \in Resource
           /\ [q EXCEPT !.version = r.version + 1, !.status = r.status] \in Resource
  <1>1. \A v \in Nat, t \in Statuses \cup {NoContent} :
           [r EXCEPT !.version = v, !.status = t] \in Resource
    BY DEF Resource
  <1>2. \A v \in Nat, t \in Statuses \cup {NoContent} :
           [q EXCEPT !.version = v, !.status = t] \in Resource
    BY DEF Resource
  <1>3. /\ r.version + 1 \in Nat
        /\ r.status \in Statuses \cup {NoContent} /\ q.status \in Statuses \cup {NoContent}
    BY DEF Resource
  <1>. QED
    BY <1>1, <1>2, <1>3

\* A state a client holds stays one if the row does not change.
LEMMA HeldStays ==
    ASSUME NEW k, NEW o, Held(k, o), row'[k] = row[k],
           o.uid \in Nat, nextUid \in Nat, nextUid' \in Nat, nextUid <= nextUid'
    PROVE  Held(k, o)'
  BY DEF Held, Present

\* What a call was computed from does not change while the table does not.
LEMMA DerivedStays ==
    ASSUME NEW d \in Clients, req'[d] = req[d], UNCHANGED <<nextUid, row>>
    PROVE  /\ \A k, o : Held(k, o)' <=> Held(k, o)
           /\ Current(d)' <=> Current(d)
           /\ Derived(d)' <=> Derived(d)
  <1>1. ASSUME NEW k, NEW o PROVE Held(k, o)' <=> Held(k, o)
    BY DEF Held
  <1>2. Current(d)' <=> Current(d)
    BY DEF Current
  <1>3. Derived(d)' <=> Derived(d)
    BY <1>1, <1>2 DEF Derived
  <1>. QED
    BY <1>1, <1>2, <1>3

\* The call of a client that takes no step stays sound while the table does not
\* change and nobody takes its lock.
LEMMA OthersSound ==
    ASSUME TypeOK, NEW d \in Clients, CallSound(d),
           obj'[d] = obj[d], pc'[d] = pc[d], req'[d] = req[d], xid'[d] = xid[d],
           UNCHANGED <<nextUid, row, stamp>>,
           nextXid' \in Nat, nextXid <= nextXid',
           pc[d] = "commit" => lock'[req[d].key] = lock[req[d].key]
    PROVE  CallSound(d)'
  <1>1. nextXid \in Nat /\ xid[d] \in Nat
    BY DEF TypeOK
  <1>2. /\ \A k, o : Held(k, o)' <=> Held(k, o)
        /\ Current(d)' <=> Current(d)
        /\ Derived(d)' <=> Derived(d)
    BY DerivedStays
  <1>3. Running(d)' <=> Running(d)
    BY DEF Running
  <1>. QED
    BY <1>1, <1>2, <1>3 DEF CallSound

\* Calls are finitely many.
LEMMA CallsFinite == IsFiniteSet(Calls) /\ Cardinality(Calls) \in Nat
  <1>1. Calls \subseteq Clients
    BY DEF Calls
  <1>. QED
    BY <1>1, ClientsFinite, FS_Subset, FS_CardinalityType

\* A call that ends or takes its xid is one call less.
LEMMA CallsShrink ==
    ASSUME TypeOK, NEW c \in Clients, NEW l, pc' = [pc EXCEPT ![c] = l], l # "call"
    PROVE  /\ Calls' = Calls \ {c}
           /\ Cardinality(Calls') \in Nat
           /\ Cardinality(Calls') = IF pc[c] = "call" THEN Cardinality(Calls) - 1
                                    ELSE Cardinality(Calls)
  <1>1. Calls' = Calls \ {c} /\ (c \in Calls <=> pc[c] = "call")
    BY DEF Calls, TypeOK
  <1>. QED
    BY <1>1, CallsFinite, FS_RemoveElement, FS_CardinalityType

\* An empty table and idle clients.
LEMMA InitInductive == Init => IInv
  <1>. SUFFICES ASSUME Init PROVE IInv
    OBVIOUS
  <1>. USE DEF Init
  <1>1. TypeOK
    BY NoResTyped DEF TypeOK, Req
  <1>2. Fresh
    <2>1. Calls = {}
      BY DEF Calls
    <2>. QED
      BY <2>1, FS_EmptySet, MaxXidNat DEF Fresh, Running, NoRes
  <1>3. WaitsEnd
    BY DEF WaitsEnd
  <1>4. \A c \in Clients : CallSound(c)
    BY DEF CallSound, Running
  <1>. QED
    BY <1>1, <1>2, <1>3, <1>4 DEF IInv

\* A read: only the object of one client changes.
LEMMA ReadInductive ==
    ASSUME IInv, NEW c \in Clients, UNCHANGED <<svars, pc, req, xid>>,
           obj' = obj \/ \E k \in Keys : /\ Present(row[k])
                                         /\ obj' = [obj EXCEPT ![c] = [key |-> k, res |-> row[k]]],
           result' \in {"none", "ok", "notfound", "conflict", "exists", "error"}
    PROVE  IInv'
  <1>. USE DEF svars
  <1>0. TypeOK /\ Fresh /\ WaitsEnd /\ \A d \in Clients : CallSound(d)
    BY DEF IInv
  <1>1. TypeOK'
    <2>1. /\ row \in [Keys -> Resource]
          /\ obj \in [Clients -> [key : Keys \cup {NoKey}, res : Resource]]
      BY <1>0 DEF TypeOK
    <2>2. obj' \in [Clients -> [key : Keys \cup {NoKey}, res : Resource]]
      BY <2>1
    <2>. QED
      BY <1>0, <2>2, SMTT(20) DEF TypeOK
  <1>2. Fresh' /\ WaitsEnd'
    <2>1. Calls' = Calls /\ \A d \in Clients : Running(d)' <=> Running(d)
      BY DEF Calls, Running
    <2>. QED
      BY <1>0, <2>1 DEF Fresh, WaitsEnd
  <1>3. ASSUME NEW d \in Clients, obj'[d] = obj[d] PROVE CallSound(d)'
    <2>1. nextXid \in Nat /\ CallSound(d)
      BY <1>0 DEF TypeOK
    <2>. QED
      BY <1>0, <1>3, <2>1, OthersSound
  <1>4. ASSUME NEW k \in Keys, Present(row[k]), obj' = [obj EXCEPT ![c] = [key |-> k, res |-> row[k]]]
        PROVE  CallSound(c)'
    <2>1. row[k] \in Resource /\ row[k].uid \in Nat /\ row[k].version \in Nat
      BY <1>0 DEF TypeOK, Resource
    <2>2. obj'[c] = [key |-> k, res |-> row[k]]
      BY <1>0, <1>4 DEF TypeOK
    <2>3. Held(k, row[k])'
      BY <1>0, <1>4, <2>1 DEF Held, Fresh, TypeOK
    <2>4. /\ Running(c)' <=> Running(c)
          /\ Current(c)' <=> Current(c)
          /\ \A j, o : Held(j, o)' <=> Held(j, o)
      BY DEF Running, Current, Held
    <2>5. Derived(c)' <=> Derived(c)
      BY <2>4 DEF Derived
    <2>. QED
      BY <1>0, <2>2, <2>3, <2>4, <2>5 DEF CallSound
  <1>5. ASSUME NEW d \in Clients PROVE CallSound(d)'
    <2>1. CASE obj' = obj
      BY <1>3, <2>1
    <2>2. CASE obj' # obj
      <3>1. PICK k \in Keys : /\ Present(row[k])
                              /\ obj' = [obj EXCEPT ![c] = [key |-> k, res |-> row[k]]]
        BY <2>2
      <3>2. d # c => obj'[d] = obj[d]
        BY <1>0, <3>1 DEF TypeOK
      <3>. QED
        BY <1>3, <1>4, <3>1, <3>2
    <2>. QED
      BY <2>1, <2>2
  <1>. QED
    BY <1>1, <1>2, <1>5 DEF IInv

\* A call starts with arguments that are tied to the row.
LEMMA CallInductive ==
    ASSUME IInv, NEW c \in Clients, NEW r \in Req, r # NoReq, CanStart(c), Call(c, r), Derived(c)'
    PROVE  IInv'
  <1>. USE DEF Call, svars
  <1>0. TypeOK /\ Fresh /\ WaitsEnd /\ \A d \in Clients : CallSound(d)
    BY DEF IInv
  <1>1. TypeOK'
    BY <1>0 DEF TypeOK
  <1>2. Fresh'
    <2>1. Calls' = Calls \cup {c} /\ c \notin Calls
      BY <1>0 DEF Calls, TypeOK, CanStart
    <2>2. Cardinality(Calls') = Cardinality(Calls) + 1
      BY <2>1, CallsFinite, FS_AddElement
    <2>3. nextXid + Cardinality(Calls) <= MaxXid
      BY DEF CanStart, Calls
    <2>4. \A d \in Clients : Running(d)' <=> Running(d)
      BY <1>0 DEF Running, TypeOK, CanStart
    <2>5. nextXid + Cardinality(Calls') <= MaxXid + 1
      BY <1>0, <2>2, <2>3, CallsFinite, MaxXidNat DEF TypeOK
    <2>. QED
      BY <1>0, <2>4, <2>5 DEF Fresh
  <1>3. WaitsEnd'
    BY <1>0 DEF WaitsEnd, TypeOK, CanStart
  <1>4. ASSUME NEW d \in Clients PROVE CallSound(d)'
    <2>1. CASE d = c
      <3>1. pc'[c] = "call" /\ req'[c] = r
        BY <1>0 DEF TypeOK
      <3>2. obj[c].key # NoKey => Held(obj[c].key, obj[c].res)'
        BY <1>0 DEF CallSound, Held
      <3>. QED
        BY <2>1, <3>1, <3>2 DEF CallSound, Running
    <2>2. CASE d # c
      <3>1. nextXid \in Nat /\ CallSound(d) /\ pc'[d] = pc[d] /\ req'[d] = req[d]
        BY <1>0, <2>2 DEF TypeOK
      <3>. QED
        BY <1>0, <3>1, OthersSound
    <2>. QED
      BY <2>1, <2>2
  <1>. QED
    BY <1>1, <1>2, <1>3, <1>4 DEF IInv

\* A call ends, whatever it did before, and with it the lock it may hold.
LEMMA EndInductive ==
    ASSUME IInv, NEW c \in Clients,
           UNCHANGED <<nextXid, nextUid, horizon, row, stamp>>,
           lock' = [k \in Keys |-> IF lock[k] = c THEN NoClient ELSE lock[k]],
           pc' = [pc EXCEPT ![c] = "idle"],
           xid' = [xid EXCEPT ![c] = 0],
           req' = [req EXCEPT ![c] = NoReq],
           obj' = obj \/ /\ pc[c] = "reply"
                         /\ obj' = [obj EXCEPT ![c] = [key |-> req[c].key, res |-> req[c].new]],
           result' \in {"none", "ok", "notfound", "conflict", "exists", "error"}
    PROVE  IInv'
  <1>0. TypeOK /\ Fresh /\ WaitsEnd /\ \A d \in Clients : CallSound(d)
    BY DEF IInv
  <1>1. TypeOK'
    <2>1. obj' \in [Clients -> [key : Keys \cup {NoKey}, res : Resource]]
      <3>1. CASE obj' = obj
        BY <1>0, <3>1 DEF TypeOK
      <3>2. CASE obj' # obj
        <4>1. pc[c] = "reply" /\ req[c] # NoReq
          BY <1>0, <3>2 DEF CallSound
        <4>2. req[c].key \in Keys /\ req[c].new \in Resource
          BY <1>0, <4>1, Typed
        <4>. QED
          BY <1>0, <3>2, <4>2 DEF TypeOK
      <3>. QED
        BY <3>1, <3>2
    <2>. QED
      BY <1>0, <2>1 DEF TypeOK, Req
  <1>2. Fresh'
    <2>a. Cardinality(Calls') \in Nat /\ Cardinality(Calls') =
            IF pc[c] = "call" THEN Cardinality(Calls) - 1 ELSE Cardinality(Calls)
      BY <1>0, CallsShrink
    <2>1. Cardinality(Calls') \in Nat /\ Cardinality(Calls') <= Cardinality(Calls)
      BY <2>a, CallsFinite
    <2>2. \A d \in Clients : Running(d)' => d # c /\ Running(d) /\ xid'[d] = xid[d]
      <3>1. /\ pc'[c] = "idle"
            /\ \A d \in Clients : d # c => pc'[d] = pc[d] /\ xid'[d] = xid[d]
        BY <1>0 DEF TypeOK
      <3>. QED
        BY <3>1 DEF Running
    <2>3. nextXid + Cardinality(Calls') <= MaxXid + 1
      <3>1. /\ nextXid \in Nat /\ Cardinality(Calls) \in Nat
            /\ nextXid + Cardinality(Calls) <= MaxXid + 1
        BY <1>0, CallsFinite DEF Fresh, TypeOK
      <3>. QED
        BY <2>1, <3>1, MaxXidNat
    <2>. QED
      BY <1>0, <2>2, <2>3 DEF Fresh
  <1>3. WaitsEnd'
    BY <1>0, ClientsFinite DEF WaitsEnd, TypeOK
  <1>4. ASSUME NEW d \in Clients PROVE CallSound(d)'
    <2>1. CASE d = c
      <3>1. pc'[c] = "idle"
        BY <1>0 DEF TypeOK
      <3>2. \A k, o : Held(k, o)' <=> Held(k, o)
        BY DEF Held
      <3>3. obj'[c].key # NoKey => Held(obj'[c].key, obj'[c].res)
        <4>1. CASE obj' = obj
          BY <1>0, <4>1 DEF CallSound
        <4>2. CASE obj' # obj
          BY <1>0, <4>2, SMTT(20) DEF CallSound, TypeOK
        <4>. QED
          BY <4>1, <4>2
      <3>4. (obj[c].key # NoKey => Held(obj[c].key, obj[c].res))'
        BY <3>2, <3>3
      <3>. QED
        BY <2>1, <3>1, <3>4 DEF CallSound, Running
    <2>2. CASE d # c
      <3>1. nextXid \in Nat /\ CallSound(d) /\ pc'[d] = pc[d] /\ req'[d] = req[d]
            /\ xid'[d] = xid[d] /\ obj'[d] = obj[d]
        BY <1>0, <2>2 DEF TypeOK
      <3>2. pc[d] = "commit" => lock'[req[d].key] = lock[req[d].key]
        <4>. SUFFICES ASSUME pc[d] = "commit" PROVE lock'[req[d].key] = lock[req[d].key]
          OBVIOUS
        <4>1. lock[req[d].key] = d /\ req[d] # NoReq
          BY <3>1 DEF CallSound
        <4>2. req[d].key \in Keys
          BY <1>0, <4>1, Typed
        <4>. QED
          BY <2>2, <4>1, <4>2
      <3>. QED
        BY <1>0, <3>1, <3>2, OthersSound, SMTT(20)
    <2>. QED
      BY <2>1, <2>2
  <1>. QED
    BY <1>1, <1>2, <1>3, <1>4 DEF IInv

\* Without a lock, a call that fails leaves the locks as they are.
LEMMA FailInductive ==
    ASSUME IInv, NEW c \in Clients, NEW how \in {"ok", "conflict", "exists", "error"},
           pc[c] # "commit", Fail(c, how)
    PROVE  IInv'
  <1>1. lock' = [k \in Keys |-> IF lock[k] = c THEN NoClient ELSE lock[k]]
    BY ClientsFinite DEF IInv, TypeOK, WaitsEnd, Fail, svars
  <1>. QED
    BY <1>1, EndInductive DEF Fail, svars

\* The procedure goes on to its next statement without touching the table.
LEMMA GotoInductive ==
    ASSUME IInv, NEW c \in Clients, NEW l \in {"write", "revive"}, Goto(c, l),
           UNCHANGED <<svars, obj, req, xid>>, result' = "none",
           Running(c), pc[c] # "commit", l = "revive" => req[c].op = "create"
    PROVE  IInv'
  <1>. USE DEF Goto, svars
  <1>0. TypeOK /\ Fresh /\ WaitsEnd /\ \A d \in Clients : CallSound(d)
    BY DEF IInv
  <1>1. TypeOK'
    BY <1>0 DEF TypeOK
  <1>2. Fresh'
    <2>1. Cardinality(Calls') = Cardinality(Calls)
      BY <1>0, CallsShrink DEF Running
    <2>2. \A d \in Clients : Running(d)' <=> Running(d)
      BY <1>0 DEF Running, TypeOK
    <2>. QED
      BY <1>0, <2>1, <2>2 DEF Fresh
  <1>3. WaitsEnd'
    BY <1>0 DEF WaitsEnd, TypeOK
  <1>4. ASSUME NEW d \in Clients PROVE CallSound(d)'
    <2>1. CASE d = c
      <3>1. pc'[c] = l
        BY <1>0 DEF TypeOK
      <3>2. /\ \A k, o : Held(k, o)' <=> Held(k, o)
            /\ Current(c)' <=> Current(c)
        BY DEF Held, Current
      <3>3. Derived(c)'
        BY <1>0, <3>2 DEF CallSound, Derived, Running
      <3>. QED
        BY <1>0, <2>1, <3>1, <3>2, <3>3 DEF CallSound, Running
    <2>2. CASE d # c
      <3>1. nextXid \in Nat /\ CallSound(d) /\ pc'[d] = pc[d]
        BY <1>0, <2>2 DEF TypeOK
      <3>. QED
        BY <1>0, <3>1, OthersSound
    <2>. QED
      BY <2>1, <2>2
  <1>. QED
    BY <1>1, <1>2, <1>3, <1>4 DEF IInv

\* A statement finds the row it looks for and locks it.
LEMMA LockInductive ==
    ASSUME IInv, NEW c \in Clients, TakeLock(c), pc[c] \in {"write", "revive"}, Unlocked(req[c].key),
           IF req[c].op = "create" THEN Present(row[req[c].key]) => Tombstone(row[req[c].key])
                                   ELSE Current(c)
    PROVE  IInv'
  <1>. USE DEF TakeLock, Goto
  <1>0. TypeOK /\ Fresh /\ WaitsEnd /\ \A d \in Clients : CallSound(d)
    BY DEF IInv
  <1>a. req[c] # NoReq /\ req[c].key \in Keys
    BY <1>0, Typed DEF CallSound
  <1>1. TypeOK'
    BY <1>0 DEF TypeOK
  <1>2. Fresh'
    <2>1. Cardinality(Calls') = Cardinality(Calls)
      BY <1>0, CallsShrink
    <2>2. \A d \in Clients : Running(d)' <=> Running(d)
      BY <1>0 DEF Running, TypeOK
    <2>. QED
      BY <1>0, <2>1, <2>2 DEF Fresh
  <1>3. WaitsEnd'
    BY <1>0, <1>a, SMTT(20) DEF WaitsEnd, TypeOK
  <1>4. ASSUME NEW d \in Clients PROVE CallSound(d)'
    <2>1. CASE d = c
      <3>1. pc'[c] = "commit" /\ lock'[req[c].key] = c
        BY <1>0, <1>a DEF TypeOK
      <3>2. /\ \A k, o : Held(k, o)' <=> Held(k, o)
            /\ Current(c)' <=> Current(c)
            /\ Derived(c)' <=> Derived(c)
        BY DerivedStays
      <3>3. Derived(c)
        BY <1>0 DEF CallSound
      <3>. QED
        BY <1>0, <2>1, <3>1, <3>2, <3>3 DEF CallSound, Running
    <2>2. CASE d # c
      <3>1. /\ nextXid' \in Nat /\ nextXid <= nextXid' /\ CallSound(d) /\ UNCHANGED <<nextUid, row, stamp>>
            /\ obj'[d] = obj[d] /\ pc'[d] = pc[d] /\ req'[d] = req[d] /\ xid'[d] = xid[d]
        BY <1>0, <2>2, SMTT(20) DEF TypeOK
      <3>2. pc[d] = "commit" => lock'[req[d].key] = lock[req[d].key]
        <4>1. pc[d] = "commit" => lock[req[d].key] = d
          BY <3>1 DEF CallSound
        <4>2. \A k \in Keys : k # req[c].key => lock'[k] = lock[k]
          BY <1>0 DEF TypeOK
        <4>3. pc[d] = "commit" => req[d].key \in Keys
          BY <1>0, <3>1, Typed DEF CallSound
        <4>. QED
          BY <4>1, <4>2, <4>3, ClientsFinite DEF Unlocked
      <3>. HIDE DEF TakeLock, Goto
      <3>. QED
        BY <1>0, <3>1, <3>2, OthersSound
    <2>. QED
      BY <2>1, <2>2
  <1>. QED
    BY <1>1, <1>2, <1>3, <1>4 DEF IInv

\* The xid that a call takes is larger than every stamp in the table.
LEMMA AssignInductive ==
    ASSUME IInv, NEW c \in Clients, AssignXid(c)
    PROVE  IInv'
  <1>. USE DEF AssignXid, Goto
  <1>0. TypeOK /\ Fresh /\ WaitsEnd /\ \A d \in Clients : CallSound(d)
    BY DEF IInv
  <1>a. req[c] # NoReq /\ req[c].key \in Keys
    BY <1>0, Typed DEF CallSound
  <1>1. TypeOK'
    <2>1. nextXid' \in Nat /\ xid' \in [Clients -> Nat]
      BY <1>0 DEF TypeOK
    <2>2. (IF req[c].op = "create" THEN "write" ELSE "check") \in {"check", "write"}
      OBVIOUS
    <2>. QED
      BY <1>0, <2>1, <2>2 DEF TypeOK
  <1>2. Fresh'
    <2>0. (IF req[c].op = "create" THEN "write" ELSE "check") # "call"
      OBVIOUS
    <2>1. Cardinality(Calls') \in Nat /\ Cardinality(Calls') = Cardinality(Calls) - 1
      BY <1>0, <2>0, CallsShrink
    <2>2. \A d \in Clients : Running(d)' => d = c \/ Running(d)
      BY <1>0 DEF Running, TypeOK
    <2>3. \A d \in Clients : xid'[d] = IF d = c THEN nextXid ELSE xid[d]
      BY <1>0 DEF TypeOK
    <2>4. \A d \in Clients : Running(d) => xid[d] < nextXid /\ xid[d] \in Nat
      BY <1>0 DEF CallSound, TypeOK
    <2>5. nextXid' + Cardinality(Calls') <= MaxXid + 1
      <3>1. nextXid + Cardinality(Calls) <= MaxXid + 1 /\ nextXid' = nextXid + 1
        BY <1>0 DEF Fresh
      <3>. QED
        BY <1>0, <2>1, <3>1, CallsFinite, MaxXidNat, CountersTyped
    <2>6. \A k \in Keys : stamp[k] < nextXid'
      <3>1. nextXid' = nextXid + 1 /\ \A k \in Keys : stamp[k] < nextXid
        BY <1>0 DEF Fresh
      <3>2. nextXid \in Nat /\ \A k \in Keys : stamp[k] \in Nat
        BY <1>0, CountersTyped
      <3>. QED
        BY <3>1, <3>2, NextAbove
    <2>7. ASSUME NEW d \in Clients, NEW e \in Clients, Running(d)', Running(e)', xid'[d] = xid'[e]
          PROVE  d = e
      <3>1. nextXid \in Nat
        BY <1>0 DEF TypeOK
      <3>2. Running(d) /\ Running(e) /\ xid[d] = xid[e] => d = e
        BY <1>0 DEF Fresh
      <3>3. (d = c \/ Running(d)) /\ (e = c \/ Running(e))
        BY <2>2, <2>7
      <3>4. /\ d # c => xid'[d] = xid[d] /\ xid[d] # nextXid
            /\ e # c => xid'[e] = xid[e] /\ xid[e] # nextXid
            /\ xid'[c] = nextXid
        BY <2>3, <2>4, <3>1, <3>3
      <3>. QED
        BY <2>7, <3>2, <3>3, <3>4
    <2>8. nextXid' > 0 /\ nextUid' > 0 /\ \A k \in Keys : row'[k].uid < nextUid'
      BY <1>0 DEF Fresh, TypeOK
    <2>. QED
      BY <2>5, <2>6, <2>7, <2>8 DEF Fresh
  <1>3. WaitsEnd'
    BY <1>0 DEF WaitsEnd, TypeOK
  <1>4. ASSUME NEW d \in Clients PROVE CallSound(d)'
    <2>1. CASE d = c
      <3>1. pc'[c] = (IF req[c].op = "create" THEN "write" ELSE "check") /\ xid'[c] = nextXid
        BY <1>0 DEF TypeOK
      <3>2. /\ \A k, o : Held(k, o)' <=> Held(k, o)
            /\ Current(c)' <=> Current(c)
            /\ Derived(c)' <=> Derived(c)
        BY DerivedStays
      <3>3. Derived(c)
        BY <1>0 DEF CallSound
      <3>4. stamp[req[c].key] < nextXid /\ 0 < nextXid /\ nextXid < nextXid'
        <4>1. stamp[req[c].key] < nextXid /\ 0 < nextXid /\ nextXid' = nextXid + 1
          BY <1>0, <1>a DEF Fresh
        <4>. QED
          BY <1>0, <4>1, CountersTyped
      <3>5. (obj[c].key # NoKey => Held(obj[c].key, obj[c].res)) /\ UNCHANGED <<obj, req, stamp>>
        BY <1>0 DEF CallSound
      <3>. HIDE DEF AssignXid, Goto
      <3>. QED
        BY <1>a, <2>1, <3>1, <3>2, <3>3, <3>4, <3>5 DEF CallSound
    <2>2. CASE d # c
      <3>1. nextXid' \in Nat /\ nextXid <= nextXid' /\ CallSound(d) /\ pc'[d] = pc[d] /\ xid'[d] = xid[d]
        BY <1>0, <2>2 DEF TypeOK
      <3>. QED
        BY <1>0, <3>1, OthersSound
    <2>. QED
      BY <2>1, <2>2
  <1>. QED
    BY <1>1, <1>2, <1>3, <1>4 DEF IInv

\* What a commit leaves: a later version of the row it found, or the first one of
\* a new uid.
LEMMA WrittenSound ==
    ASSUME IInv, NEW c \in Clients, pc[c] = "commit"
    PROVE  /\ req[c].key \in Keys /\ req[c].op \in Ops
           /\ Written(c) \in Resource
           /\ Written(c).spec # NoContent /\ Written(c).status # NoContent
           /\ Present(Written(c))
           /\ IF req[c].op = "create"
                THEN Written(c).uid = nextUid /\ Written(c).del = 0
                ELSE /\ Present(row[req[c].key])
                     /\ Written(c).uid = row[req[c].key].uid
                     /\ Written(c).version = row[req[c].key].version + 1
  <1>0. TypeOK /\ CallSound(c)
    BY DEF IInv
  <1>1. /\ req[c].op \in Ops /\ req[c].key \in Keys
        /\ req[c].new \in Resource /\ row[req[c].key] \in Resource /\ nextUid \in Nat
    BY <1>0, Typed DEF CallSound, TypeOK
  <1>2. Derived(c) /\ (req[c].op # "create" => Current(c))
    BY <1>0 DEF CallSound
  <1>3. Present(row[req[c].key]) => row[req[c].key].spec # NoContent /\ row[req[c].key].status # NoContent
    BY <1>0, <1>1 DEF TypeOK
  <1>4. req[c].new.spec # NoContent /\ req[c].new.status # NoContent
    BY <1>2 DEF Derived
  <1>5. CASE req[c].op = "create"
    <2>1. Written(c) = [req[c].new EXCEPT !.uid = nextUid, !.version = 1, !.del = 0]
      BY <1>5 DEF Written
    <2>2. Written(c) \in Resource
      BY <1>1, <2>1, CreatedTyped
    <2>3. /\ Written(c).spec = req[c].new.spec /\ Written(c).status = req[c].new.status
          /\ Written(c).uid = nextUid /\ Written(c).version = 1 /\ Written(c).del = 0
      BY <1>1, <2>1 DEF Resource
    <2>. QED
      BY <1>1, <1>4, <1>5, <2>2, <2>3 DEF Present
  <1>6. CASE req[c].op = "status"
    <2>1. Written(c) = [row[req[c].key] EXCEPT !.version = @ + 1, !.status = req[c].new.status]
      BY <1>6 DEF Written
    <2>2. Written(c) \in Resource
      BY <1>1, <2>1, UpdatedTyped
    <2>3. /\ Written(c).spec = row[req[c].key].spec /\ Written(c).status = req[c].new.status
          /\ Written(c).uid = row[req[c].key].uid
          /\ Written(c).version = row[req[c].key].version + 1
          /\ row[req[c].key].version \in Nat
      BY <1>1, <2>1 DEF Resource
    <2>4. Present(row[req[c].key])
      BY <1>2, <1>6 DEF Current
    <2>5. Present(Written(c))
      BY <2>3 DEF Present
    <2>. QED
      BY <1>1, <1>3, <1>4, <1>6, <2>2, <2>3, <2>4, <2>5
  <1>7. CASE req[c].op = "object"
    <2>1. Written(c) = [req[c].new EXCEPT !.version = row[req[c].key].version + 1,
                                          !.status = row[req[c].key].status]
      BY <1>7 DEF Written
    <2>2. Written(c) \in Resource
      BY <1>1, <2>1, UpdatedTyped
    <2>3. /\ Written(c).spec = req[c].new.spec /\ Written(c).status = row[req[c].key].status
          /\ Written(c).uid = req[c].new.uid
          /\ Written(c).version = row[req[c].key].version + 1
          /\ row[req[c].key].version \in Nat
      BY <1>1, <2>1 DEF Resource
    <2>4. Present(row[req[c].key]) /\ row[req[c].key].uid = req[c].new.uid
      BY <1>2, <1>7 DEF Current, Matches
    <2>5. Present(Written(c))
      BY <2>3 DEF Present
    <2>. QED
      BY <1>1, <1>3, <1>4, <1>7, <2>2, <2>3, <2>4, <2>5
  <1>8. CASE req[c].op = "write"
    <2>1. Written(c) = [req[c].new EXCEPT !.version = row[req[c].key].version + 1]
      BY <1>8 DEF Written
    <2>. QED
      BY <1>1, <1>2, <1>4, <1>8, <2>1 DEF Resource, Present, Current, Matches
  <1>. QED
    BY <1>1, <1>5, <1>6, <1>7, <1>8 DEF Ops

\* A commit moves the row past every state that anyone holds of it: the calls
\* computed from those no longer match.
LEMMA CommitInductive ==
    ASSUME IInv, NEW c \in Clients, Commit(c)
    PROVE  IInv'
  <1>0. TypeOK /\ Fresh /\ WaitsEnd /\ \A d \in Clients : CallSound(d)
    BY DEF IInv
  <1>g. pc[c] = "commit"
    BY DEF Commit
  <1>h. PICK k \in Keys, w \in Resource : k = req[c].key /\ w = Written(c)
    BY <1>g, WrittenSound
  <1>a. /\ pc[c] = "commit"
        /\ row' = [row EXCEPT ![k] = w]
        /\ stamp' = [stamp EXCEPT ![k] = xid[c]]
        /\ nextUid' = IF req[c].op = "create" THEN nextUid + 1 ELSE nextUid
        /\ lock' = [lock EXCEPT ![k] = NoClient]
        /\ pc' = [pc EXCEPT ![c] = "reply"]
        /\ req' = [req EXCEPT ![c].new = w]
        /\ UNCHANGED <<nextXid, horizon, obj, xid>> /\ result' = "none"
    BY <1>h DEF Commit, Goto
  <1>b. /\ k \in Keys /\ req[c].op \in Ops
        /\ w \in Resource /\ w.spec # NoContent /\ w.status # NoContent /\ Present(w)
        /\ IF req[c].op = "create"
             THEN w.uid = nextUid
             ELSE Present(row[k]) /\ w.uid = row[k].uid /\ w.version = row[k].version + 1
    BY <1>g, <1>h, WrittenSound
  <1>c. req[c] # NoReq /\ req[c] \in [op : Ops, key : Keys, new : Resource, from : Resource]
    BY <1>0, <1>a DEF CallSound, TypeOK, Req
  <1>d. /\ row[k] \in Resource /\ w.uid \in Nat /\ w.version \in Nat
        /\ row[k].uid \in Nat /\ row[k].version \in Nat /\ row[k].uid < nextUid
        /\ nextUid \in Nat /\ nextUid' \in Nat /\ nextUid <= nextUid' /\ w.uid < nextUid'
    BY <1>0, <1>a, <1>b DEF TypeOK, Fresh, Resource
  <1>e. row'[k] = w /\ \A j \in Keys : j # k => row'[j] = row[j] /\ stamp'[j] = stamp[j]
    BY <1>0, <1>a, <1>b DEF TypeOK
  <1>f. req'[c] = [req[c] EXCEPT !.new = w] /\ pc'[c] = "reply"
    BY <1>0, <1>a, <1>c DEF TypeOK
  <1>1. TypeOK'
    <2>1. req' \in [Clients -> Req]
      BY <1>0, <1>a, <1>b, <1>c DEF TypeOK, Req
    <2>2. row' \in [Keys -> Resource] /\ stamp' \in [Keys -> Nat] /\ nextUid' \in Nat
      BY <1>0, <1>a, <1>b, <1>d DEF TypeOK
    <2>3. \A j \in Keys : Present(row'[j]) => row'[j].spec # NoContent /\ row'[j].status # NoContent
      BY <1>0, <1>b, <1>e DEF TypeOK
    <2>. QED
      BY <1>0, <1>a, <2>1, <2>2, <2>3 DEF TypeOK
  <1>2. Fresh'
    <2>1. Cardinality(Calls') = Cardinality(Calls)
      BY <1>0, <1>a, CallsShrink
    <2>2. \A d \in Clients : Running(d)' => Running(d)
      BY <1>0, <1>a DEF Running, TypeOK
    <2>3. xid[c] < nextXid
      BY <1>0, <1>a DEF CallSound, Running
    <2>4. ASSUME NEW j \in Keys PROVE stamp'[j] < nextXid /\ row'[j].uid < nextUid'
      <3>1. CASE j = k
        BY <1>0, <1>a, <1>b, <1>d, <1>e, <2>3, <3>1 DEF TypeOK
      <3>2. CASE j # k
        <4>1. row[j].uid \in Nat /\ row[j].uid < nextUid /\ stamp[j] < nextXid
          BY <1>0 DEF TypeOK, Fresh, Resource
        <4>. QED
          BY <1>d, <1>e, <3>2, <4>1
      <3>. QED
        BY <3>1, <3>2
    <2>5. nextXid' = nextXid /\ xid' = xid /\ nextUid' > 0
      BY <1>0, <1>a, <1>d DEF Fresh
    <2>. QED
      BY <1>0, <2>1, <2>2, <2>4, <2>5 DEF Fresh
  <1>3. WaitsEnd'
    <2>1. lock[k] = c
      BY <1>0, <1>g, <1>h DEF CallSound
    <2>2. \A d \in Clients : d # c => pc'[d] = pc[d] /\ req'[d] = req[d]
      BY <1>0, <1>a DEF TypeOK
    <2>3. \A j \in Keys : lock'[j] = IF j = k THEN NoClient ELSE lock[j]
      BY <1>0, <1>a DEF TypeOK
    <2>4. \A j \in Keys : lock[j] = c => j = k
      BY <1>0, <1>g, <1>h, ClientsFinite DEF WaitsEnd
    <2>5. \A j \in Keys : lock[j] \in Clients \cup {NoClient}
      BY <1>0 DEF TypeOK
    <2>. QED
      BY <1>0, <2>2, <2>3, <2>4, <2>5 DEF WaitsEnd
  <1>4. ASSUME NEW j \in Keys, NEW o \in Resource, Held(j, o)
        PROVE  /\ Held(j, o)'
               /\ j = k => ~Matches(w, o)
    <2>1. o.uid \in Nat /\ o.version \in Nat
      BY DEF Resource
    <2>2. CASE j # k
      BY <1>d, <1>e, <1>4, <2>1, <2>2, HeldStays
    <2>3. CASE j = k
      <3>1. w.uid = o.uid => o.version < w.version
        BY <1>b, <1>d, <1>4, <2>1, <2>3 DEF Held
      <3>. QED
        BY <1>d, <1>e, <1>4, <2>1, <2>3, <3>1 DEF Held, Matches
    <2>. QED
      BY <2>2, <2>3
  <1>5. CallSound(c)'
    <2>1. Held(k, w)'
      <3>1. w.version <= w.version /\ w.uid < nextUid'
        BY <1>d
      <3>. QED
        BY <1>b, <1>e, <3>1 DEF Held
    <2>2. obj[c].key # NoKey => Held(obj[c].key, obj[c].res)'
      BY <1>0, <1>4, <1>a, Typed DEF CallSound
    <2>3. req'[c].key = k /\ req'[c].new = w /\ req'[c] # NoReq
      BY <1>b, <1>c, <1>f, <1>h, KeysFinite DEF NoReq
    <2>. QED
      BY <1>a, <1>f, <2>1, <2>2, <2>3 DEF CallSound, Running
  <1>6. ASSUME NEW d \in Clients, d # c PROVE CallSound(d)'
    <2>1. CallSound(d) /\ pc'[d] = pc[d] /\ req'[d] = req[d] /\ obj' = obj /\ xid' = xid
          /\ nextXid' = nextXid
      BY <1>0, <1>6, <1>a DEF TypeOK
    <2>2. obj[d].key # NoKey => Held(obj[d].key, obj[d].res)'
      BY <1>0, <1>4, <2>1, Typed DEF CallSound
    <2>3. pc[d] = "reply" => Held(req[d].key, req[d].new)'
      BY <1>0, <1>4, <2>1, Typed DEF CallSound
    <2>4. ASSUME pc[d] \in {"call", "check", "write", "revive", "commit"}
          PROVE  /\ Derived(d)'
                 /\ req[d].op # "create" /\ Current(d)' => Current(d) /\ req[d].key # k
      <3>1. /\ Derived(d) /\ req[d].key \in Keys
            /\ req[d].new \in Resource /\ req[d].from \in Resource
        BY <1>0, <2>1, <2>4, Typed DEF CallSound
      <3>2. req[d].op # "create" => Held(req[d].key, req[d].from)'
        BY <1>4, <2>1, <3>1 DEF Derived
      <3>3. req[d].op # "create" /\ Current(d)' => Current(d) /\ req[d].key # k
        <4>. SUFFICES ASSUME req[d].op # "create", Current(d)' PROVE Current(d) /\ req[d].key # k
          OBVIOUS
        <4>1. Matches(row'[req[d].key], req[d].new) /\ Present(row'[req[d].key])
          BY <2>1 DEF Current
        <4>2. req[d].key = k => ~Matches(w, req[d].from)
          BY <1>4, <3>1 DEF Derived
        <4>3. req[d].key # k
          BY <1>e, <3>1, <4>1, <4>2 DEF Derived, Matches
        <4>. QED
          BY <1>e, <3>1, <4>1, <4>3 DEF Current
      <3>4. Derived(d)'
        <4>1. req[d].op = "object" /\ Current(d)' => row'[req[d].key] = row[req[d].key] /\ Current(d)
          BY <1>e, <3>1, <3>3
        <4>. QED
          BY <2>1, <3>1, <3>2, <4>1 DEF Derived
      <3>. QED
        BY <3>3, <3>4
    <2>5. ASSUME pc[d] = "commit"
          PROVE  /\ lock'[req[d].key] = d
                 /\ IF req[d].op = "create"
                      THEN Present(row'[req[d].key]) => Tombstone(row'[req[d].key])
                      ELSE Current(d)'
      <3>1. req[d].key \in Keys /\ lock[req[d].key] = d
        BY <1>0, <2>1, <2>5, Typed DEF CallSound
      <3>2. lock[k] = c
        BY <1>0, <1>g, <1>h DEF CallSound
      <3>3. req[d].key # k
        BY <1>6, <3>1, <3>2
      <3>4. lock'[req[d].key] = d /\ row'[req[d].key] = row[req[d].key]
        BY <1>0, <1>a, <1>e, <3>1, <3>3 DEF TypeOK
      <3>5. Current(d)' <=> Current(d)
        BY <2>1, <3>4 DEF Current
      <3>. QED
        BY <2>1, <2>5, <3>4, <3>5 DEF CallSound
    <2>6. Running(d)' => /\ 0 < xid'[d] /\ xid'[d] < nextXid'
                         /\ req'[d].op # "create" /\ Current(d)' => stamp'[req'[d].key] < xid'[d]
      <3>. SUFFICES ASSUME Running(d)'
                    PROVE  /\ 0 < xid'[d] /\ xid'[d] < nextXid'
                           /\ req'[d].op # "create" /\ Current(d)' => stamp'[req'[d].key] < xid'[d]
        OBVIOUS
      <3>1. Running(d) /\ pc[d] \in {"call", "check", "write", "revive", "commit"}
        BY <2>1 DEF Running
      <3>2. req[d].key \in Keys
        BY <1>0, <2>1, <3>1, Typed DEF CallSound
      <3>. QED
        BY <1>e, <2>1, <2>4, <3>1, <3>2 DEF CallSound
    <2>. QED
      BY <2>1, <2>2, <2>3, <2>4, <2>5, <2>6 DEF CallSound
  <1>. QED
    BY <1>1, <1>2, <1>3, <1>5, <1>6 DEF IInv

\* Compaction deletes rows that nobody has locked; what others hold of them is of
\* a uid that is never used again.
LEMMA CompactInductive ==
    ASSUME IInv, NEW S \in SUBSET Keys, Compact(S)
    PROVE  IInv'
  <1>0. TypeOK /\ Fresh /\ WaitsEnd /\ \A d \in Clients : CallSound(d)
    BY DEF IInv
  <1>a. /\ \A k \in Keys : row'[k] = IF k \in S THEN NoRes ELSE row[k]
        /\ \A k \in Keys : stamp'[k] = IF k \in S THEN 0 ELSE stamp[k]
        /\ UNCHANGED <<nextXid, nextUid, lock, obj, pc, req, xid>>
        /\ \A k \in S : Unlocked(k)
    BY DEF Compact
  <1>1. TypeOK'
    <2>1. horizon' \in Nat
      <3>1. PICK h \in {horizon} \cup {stamp[k] : k \in S} : horizon' = h
        BY DEF Compact
      <3>2. horizon \in Nat /\ \A k \in S : stamp[k] \in Nat
        BY <1>0 DEF TypeOK
      <3>. QED
        BY <3>1, <3>2
    <2>2. row' \in [Keys -> Resource] /\ stamp' \in [Keys -> Nat] /\ result' = "none"
      BY <1>0, NoResTyped DEF Compact, TypeOK
    <2>3. \A k \in Keys : Present(row'[k]) => row'[k].spec # NoContent /\ row'[k].status # NoContent
      BY <1>0, <1>a, NoResTyped DEF TypeOK
    <2>. QED
      BY <1>0, <1>a, <2>1, <2>2, <2>3 DEF TypeOK
  <1>2. Fresh' /\ WaitsEnd'
    <2>1. Calls' = Calls /\ \A d \in Clients : Running(d)' <=> Running(d)
      BY <1>a DEF Calls, Running
    <2>2. \A k \in Keys : stamp'[k] < nextXid /\ row'[k].uid < nextUid
      BY <1>0, <1>a DEF Fresh, NoRes
    <2>. QED
      BY <1>0, <1>a, <2>1, <2>2 DEF Fresh, WaitsEnd
  <1>3. ASSUME NEW k \in Keys, NEW o, Held(k, o) PROVE Held(k, o)'
    <2>1. CASE k \in S
      BY <1>a, <1>3, <2>1, NoResTyped DEF Held
    <2>2. CASE k \notin S
      BY <1>a, <1>3, <2>2 DEF Held
    <2>. QED
      BY <2>1, <2>2
  <1>4. ASSUME NEW d \in Clients PROVE CallSound(d)'
    <2>1. CallSound(d)
      BY <1>0
    <2>2. obj[d].key # NoKey => Held(obj[d].key, obj[d].res)'
      BY <1>0, <1>3, <1>a, <2>1, Typed DEF CallSound
    <2>3. pc[d] = "reply" => Held(req[d].key, req[d].new)'
      BY <1>0, <1>3, <1>a, <2>1, Typed DEF CallSound
    <2>4. ASSUME pc[d] \in {"call", "check", "write", "revive", "commit"}
          PROVE  /\ Derived(d)' /\ req[d].key \in Keys
                 /\ Current(d)' => Current(d) /\ req[d].key \notin S
      <3>1. Derived(d) /\ req[d].key \in Keys
        BY <1>0, <2>1, <2>4, Typed DEF CallSound
      <3>2. req[d].op # "create" => Held(req[d].key, req[d].from)'
        BY <1>3, <1>a, <3>1 DEF Derived
      <3>3. Current(d)' => Current(d) /\ req[d].key \notin S
        BY <1>a, <3>1, NoResTyped DEF Current
      <3>4. Derived(d)'
        BY <1>a, <3>1, <3>2, <3>3 DEF Derived
      <3>. QED
        BY <3>1, <3>3, <3>4
    <2>5. ASSUME pc[d] = "commit"
          PROVE  row'[req[d].key] = row[req[d].key]
      <3>1. req[d].key \in Keys /\ lock[req[d].key] = d
        BY <2>1, <2>4, <2>5 DEF CallSound
      <3>. QED
        BY <1>a, <3>1, ClientsFinite DEF Unlocked
    <2>6. pc[d] = "commit" => (Current(d)' <=> Current(d))
      BY <1>a, <2>5 DEF Current
    <2>7. Running(d) /\ Current(d)' => stamp'[req[d].key] = stamp[req[d].key]
      BY <1>a, <2>4 DEF Running
    <2>8. Running(d)' <=> Running(d)
      BY <1>a DEF Running
    <2>9. Running(d) => pc[d] \in {"call", "check", "write", "revive", "commit"}
      BY DEF Running
    <2>. QED
      BY <1>a, <2>1, <2>2, <2>3, <2>4, <2>5, <2>6, <2>7, <2>8, <2>9 DEF CallSound
  <1>. QED
    BY <1>1, <1>2, <1>4 DEF IInv

\* A create names no state of the row.
LEMMA CreateInductive ==
    ASSUME IInv, NEW c \in Clients, NEW k \in Keys, NEW s \in Specs, NEW t \in Statuses,
           NEW f \in BOOLEAN, Create(c, k, s, t, f)
    PROVE  IInv'
  <1>. DEFINE new == [NoRes EXCEPT !.spec = s, !.status = t, !.fin = f, !.gen = 1]
              r == [op |-> "create", key |-> k, from |-> NoRes, new |-> new]
  <1>1. CanStart(c) /\ Call(c, r)
    BY DEF Create
  <1>2. new \in Resource /\ new.spec = s /\ new.status = t
    BY DEF NoRes, Resource
  <1>3. r \in Req /\ r # NoReq
    BY <1>2, NoResTyped DEF Req, Ops, NoReq
  <1>. HIDE DEF new
  <1>a. r.op = "create" /\ r.new = new
    OBVIOUS
  <1>. HIDE DEF r
  <1>4. req'[c] = r
    BY <1>1 DEF Call, IInv, TypeOK
  <1>5. Derived(c)'
    BY <1>a, <1>2, <1>4, NoContentIsNone DEF Derived
  <1>. QED
    BY <1>1, <1>3, <1>5, CallInductive

\* An update computes its arguments from a state the caller holds and from a later
\* read of the same uid; only if both are one state may it match.
LEMMA UpdateInductive ==
    ASSUME IInv, NEW c \in Clients, NEW s \in Specs, NEW f \in BOOLEAN, Update(c, s, f)
    PROVE  IInv'
  <1>0. TypeOK /\ CallSound(c) /\ CanStart(c) /\ obj[c].key # NoKey
    BY DEF IInv, Update
  <1>1. PICK k \in Keys, o \in Resource, cur \in Resource :
           k = obj[c].key /\ o = obj[c].res /\ cur = row[k]
    BY <1>0, Typed DEF TypeOK
  <1>2. Held(k, o)
    BY <1>0, <1>1 DEF CallSound
  <1>3. CASE \E how \in {"notfound", "conflict"} : Return(c, how)
    BY <1>3, ReadInductive DEF Return
  <1>4. CASE ~\E how \in {"notfound", "conflict"} : Return(c, how)
    <2>. DEFINE gen == IF cur.spec # s THEN cur.gen + 1 ELSE o.gen
                new == [o EXCEPT !.spec = s, !.fin = f, !.gen = gen, !.del = cur.del]
                r == [op |-> "object", key |-> k, from |-> o, new |-> new]
    <2>1. Call(c, r) /\ cur.uid = o.uid
      BY <1>1, <1>4 DEF Update
    <2>2. gen \in Nat /\ cur.del \in Nat
      BY DEF Resource
    <2>. HIDE DEF gen
    <2>3. /\ new \in Resource
          /\ new.spec = s /\ new.gen = gen /\ new.del = cur.del /\ new.status = o.status
          /\ new.uid = o.uid /\ new.version = o.version
      BY <2>2 DEF Resource
    <2>. HIDE DEF new
    <2>4. r \in Req /\ r # NoReq
      BY <2>3 DEF Req, Ops, NoReq
    <2>a. r.op = "object" /\ r.key = k /\ r.from = o /\ r.new = new
      OBVIOUS
    <2>. HIDE DEF r
    <2>5. req'[c] = r /\ UNCHANGED <<row, nextUid>>
      BY <1>0, <2>1 DEF Call, TypeOK, svars
    <2>6. Held(k, o)'
      BY <1>2, <2>5 DEF Held
    <2>7. Present(cur) /\ Matches(cur, new) => o = cur
      BY <1>1, <1>2, <2>3 DEF Held, Matches
    <2>8. s # NoContent /\ o.status # NoContent
      BY <1>2, NoContentIsNone DEF Held
    <2>9. Derived(c)'
      <3>1. (Held(req[c].key, req[c].from))'
        BY <2>a, <2>5, <2>6
      <3>2. Current(c)' => o = cur
        BY <1>1, <2>a, <2>5, <2>7 DEF Current
      <3>. QED
        BY <1>1, <2>a, <2>3, <2>5, <2>8, <3>1, <3>2 DEF Derived, gen
    <2>. QED
      BY <1>0, <2>1, <2>4, <2>9, CallInductive
  <1>. QED
    BY <1>3, <1>4

\* A status update sends what the caller holds, with another status.
LEMMA StatusInductive ==
    ASSUME IInv, NEW c \in Clients, NEW t \in Statuses, StatusUpdate(c, t)
    PROVE  IInv'
  <1>0. TypeOK /\ CallSound(c) /\ CanStart(c) /\ obj[c].key # NoKey
    BY DEF IInv, StatusUpdate
  <1>1. PICK k \in Keys, o \in Resource : k = obj[c].key /\ o = obj[c].res
    BY <1>0, Typed
  <1>. DEFINE new == [o EXCEPT !.status = t]
              r == [op |-> "status", key |-> k, from |-> o, new |-> new]
  <1>2. Held(k, o) /\ Call(c, r)
    BY <1>0, <1>1 DEF CallSound, StatusUpdate
  <1>3. /\ new \in Resource /\ new.spec = o.spec /\ new.status = t
        /\ new.uid = o.uid /\ new.version = o.version
    BY DEF Resource
  <1>. HIDE DEF new
  <1>4. r \in Req /\ r # NoReq
    BY <1>3 DEF Req, Ops, NoReq
  <1>a. r.op = "status" /\ r.key = k /\ r.from = o /\ r.new = new
    OBVIOUS
  <1>. HIDE DEF r
  <1>5. req'[c] = r /\ UNCHANGED <<row, nextUid>>
    BY <1>0, <1>2 DEF Call, TypeOK, svars
  <1>6. Derived(c)'
    <2>1. Held(k, o)' /\ o.spec # NoContent
      BY <1>2, <1>5 DEF Held
    <2>2. Held(req[c].key, req[c].from)'
      BY <1>a, <1>5, <2>1
    <2>. QED
      BY <1>a, <1>3, <1>5, <2>1, <2>2, NoContentIsNone DEF Derived
  <1>. QED
    BY <1>0, <1>2, <1>4, <1>6, CallInductive

\* A deletion always carries a deletion timestamp.
LEMMA DeleteInductive ==
    ASSUME IInv, NEW c \in Clients,
           (\E k \in Keys : DeleteCurrent(c, k)) \/ (\E f \in BOOLEAN : DeleteVersion(c, f))
    PROVE  IInv'
  <1>0. TypeOK /\ Fresh /\ CallSound(c) /\ CanStart(c)
    BY DEF IInv, DeleteCurrent, DeleteVersion
  <1>1. ASSUME NEW k \in Keys, NEW o \in Resource, NEW new \in Resource, Held(k, o),
               new.spec = o.spec, new.status = o.status, new.uid = o.uid, new.version = o.version,
               new.del # 0, Call(c, [op |-> "write", key |-> k, from |-> o, new |-> new])
        PROVE  IInv'
    <2>. DEFINE r == [op |-> "write", key |-> k, from |-> o, new |-> new]
    <2>1. r \in Req /\ r # NoReq
      BY DEF Req, Ops, NoReq
    <2>a. r.op = "write" /\ r.key = k /\ r.from = o /\ r.new = new /\ Call(c, r)
      BY <1>1
    <2>. HIDE DEF r
    <2>2. req'[c] = r /\ UNCHANGED <<row, nextUid>>
      BY <1>0, <2>a DEF Call, TypeOK, svars
    <2>3. Derived(c)'
      <3>1. Held(k, o)' /\ o.spec # NoContent /\ o.status # NoContent
        BY <1>1, <2>2 DEF Held
      <3>2. Held(req[c].key, req[c].from)'
        BY <2>a, <2>2, <3>1
      <3>. QED
        BY <1>1, <2>a, <2>2, <3>1, <3>2 DEF Derived
    <2>. QED
      BY <1>0, <2>a, <2>1, <2>3, CallInductive
  <1>2. ASSUME NEW k \in Keys, DeleteCurrent(c, k) PROVE IInv'
    <2>1. CASE ~ReadsCurrent(k)
      BY <1>2, <2>1, ReadInductive DEF DeleteCurrent, Return
    <2>2. CASE ReadsCurrent(k)
      <3>1. PICK o \in Resource : o = row[k]
        BY <1>0 DEF TypeOK
      <3>. DEFINE new == [o EXCEPT !.del = IF @ = 0 THEN Now ELSE @]
      <3>2. Call(c, [op |-> "write", key |-> k, from |-> o, new |-> new])
        BY <1>2, <2>2, <3>1 DEF DeleteCurrent
      <3>3. nextXid \in Nat /\ nextXid # 0 /\ o.del \in Nat
        BY <1>0 DEF TypeOK, Fresh, Resource
      <3>4. /\ new \in Resource /\ new.spec = o.spec /\ new.status = o.status /\ new.uid = o.uid
            /\ new.version = o.version /\ new.del = IF o.del = 0 THEN nextXid ELSE o.del
        BY <3>3 DEF Resource, Now
      <3>5. Held(k, o)
        BY <1>0, <2>2, <3>1 DEF ReadsCurrent, Held, TypeOK, Fresh, Resource
      <3>. HIDE DEF new
      <3>. QED
        BY <1>1, <3>2, <3>3, <3>4, <3>5
    <2>. QED
      BY <2>1, <2>2
  <1>3. ASSUME NEW f \in BOOLEAN, DeleteVersion(c, f) PROVE IInv'
    <2>1. PICK k \in Keys, o \in Resource : k = obj[c].key /\ o = obj[c].res
      BY <1>0, <1>3, Typed DEF DeleteVersion
    <2>. DEFINE new == [o EXCEPT !.fin = f, !.del = Now]
    <2>2. Held(k, o) /\ Call(c, [op |-> "write", key |-> k, from |-> o, new |-> new])
      <3>1. obj[c].key # NoKey /\ Held(obj[c].key, obj[c].res)
        BY <1>0, <1>3 DEF CallSound, DeleteVersion
      <3>2. Call(c, [op |-> "write", key |-> k, from |-> o, new |-> new])
        BY <1>3, <2>1 DEF DeleteVersion
      <3>. QED
        BY <2>1, <3>1, <3>2
    <2>3. nextXid \in Nat /\ nextXid # 0
      BY <1>0, CountersTyped DEF Fresh
    <2>4. /\ new \in Resource /\ new.spec = o.spec /\ new.status = o.status /\ new.uid = o.uid
          /\ new.version = o.version /\ new.del = nextXid
      BY <2>3 DEF Resource, Now
    <2>. HIDE DEF new
    <2>. QED
      BY <1>1, <2>2, <2>3, <2>4
  <1>. QED
    BY <1>2, <1>3

\* Every statement of every client keeps the invariant.
LEMMA NextInductive == IInv /\ [Next]_vars => IInv'
  <1>. SUFFICES ASSUME IInv, [Next]_vars PROVE IInv'
    OBVIOUS
  <1>1. ASSUME NEW c \in Clients, ClientStep(c) PROVE IInv'
    <2>1. ASSUME NEW k \in Keys, Get(c, k) PROVE IInv'
      BY <2>1, ReadInductive DEF Get
    <2>. QED
      BY <1>1, <2>1, CreateInductive, UpdateInductive, StatusInductive, DeleteInductive DEF ClientStep
  <1>2. ASSUME NEW c \in Clients, Suppress(c) PROVE IInv'
    <2>1. CASE \E how \in {"ok", "conflict"} : Fail(c, how)
      BY <1>2, <2>1, FailInductive DEF Suppress
    <2>2. CASE ~\E how \in {"ok", "conflict"} : Fail(c, how)
      BY <1>2, <2>2, GotoInductive DEF Suppress, Running
    <2>. QED
      BY <2>1, <2>2
  <1>3. ASSUME NEW c \in Clients, UpdateRow(c) PROVE IInv'
    BY <1>3, LockInductive, FailInductive DEF UpdateRow, Current
  <1>4. ASSUME NEW c \in Clients, InsertRow(c) PROVE IInv'
    BY <1>4, LockInductive, GotoInductive DEF InsertRow, Running
  <1>5. ASSUME NEW c \in Clients, ReviveRow(c) PROVE IInv'
    <2>1. req[c].op = "create" /\ pc[c] = "revive"
      BY <1>5 DEF ReviveRow, IInv, CallSound
    <2>. QED
      BY <1>5, <2>1, LockInductive, FailInductive DEF ReviveRow
  <1>6. ASSUME NEW c \in Clients, Reply(c) \/ LoseReply(c) PROVE IInv'
    <2>1. pc[c] = "reply" /\ \A k \in Keys : lock[k] # c
      <3>1. pc[c] = "reply" /\ pc[c] # "commit"
        BY <1>6 DEF Reply, LoseReply
      <3>. QED
        BY <3>1, ClientsFinite DEF IInv, WaitsEnd
    <2>2. lock' = [k \in Keys |-> IF lock[k] = c THEN NoClient ELSE lock[k]]
      BY <1>6, <2>1 DEF Reply, LoseReply, svars, IInv, TypeOK
    <2>. QED
      BY <1>6, <2>1, <2>2, EndInductive DEF Reply, LoseReply, svars
  <1>7. ASSUME NEW c \in Clients, AbortCall(c) PROVE IInv'
    BY <1>7, EndInductive DEF AbortCall
  <1>8. CASE UNCHANGED vars
    <2>1. nextXid \in Nat /\ \A c \in Clients : CallSound(c)
      BY DEF IInv, TypeOK
    <2>2. ASSUME NEW c \in Clients PROVE CallSound(c)'
      BY <1>8, <2>1, OthersSound DEF vars, svars, IInv
    <2>3. TypeOK'
      BY <1>8 DEF vars, svars, IInv, TypeOK
    <2>4. Fresh'
      BY <1>8 DEF vars, svars, IInv, Fresh, Calls, Running
    <2>5. WaitsEnd'
      BY <1>8 DEF vars, svars, IInv, WaitsEnd
    <2>. QED
      BY <2>2, <2>3, <2>4, <2>5 DEF IInv
  <1>. QED
    BY <1>1, <1>2, <1>3, <1>4, <1>5, <1>6, <1>7, <1>8, AssignInductive, CommitInductive,
       CompactInductive DEF Next, ProcStep

\* The arguments of every call under way are tied to the row they name, whatever
\* the other callers, a compaction or a broken connection do.
THEOREM CallsAreTied == Spec => []IInv
  BY InitInductive, NextInductive, PTL DEF Spec

\* A version names one state of its row, and no call waits for a call that waits
\* or that is gone (pgctl_write's row locks, object_version).
THEOREM WriteIsSafe == Spec => []WriteSafe
  <1>1. IInv => WriteSafe
    BY KeysFinite DEF IInv, WriteSafe, VersionIdentifiesState, CallSound, Held
  <1>. QED
    BY <1>1, CallsAreTied, PTL

\* A compare-and-swap write replaces exactly the state its caller saw.
THEOREM NoUpdateIsLost == Spec => NoLostUpdate
  <1>1. ASSUME IInv, NEW c \in Clients, pc[c] = "commit", req[c].op # "create"
        PROVE  /\ row[req[c].key] = req[c].from
               /\ req[c].op = "object" =>
                    /\ req[c].new.del = row[req[c].key].del
                    /\ req[c].new.gen = IF req[c].new.spec = row[req[c].key].spec
                                          THEN row[req[c].key].gen ELSE row[req[c].key].gen + 1
    <2>1. Derived(c) /\ Current(c)
      BY <1>1 DEF IInv, CallSound
    <2>. QED
      BY <1>1, <2>1 DEF Derived, Current, Held, Matches
  <1>2. IInv /\ [Next]_vars =>
          [\A c \in Clients :
             LET r == row[req[c].key]
                 e == req[c].new
             IN  pc[c] = "commit" /\ pc'[c] = "reply" /\ req[c].op # "create" =>
                   /\ r = req[c].from
                   /\ req[c].op = "object" =>
                        /\ e.del = r.del
                        /\ e.gen = IF e.spec = r.spec THEN r.gen ELSE r.gen + 1]_vars
    BY <1>1
  <1>. QED
    BY <1>2, CallsAreTied, PTL DEF Spec, NoLostUpdate

-------------------------------------------------------------------------------
(* The refinement.  Readers see a row by stamp, uid and state, and running     *)
(* transactions by their xids.                                                 *)

\* A step that begins and ends no transaction and leaves the table is a stutter.
LEMMA Stutters ==
    ASSUME UNCHANGED <<nextXid, nextUid, horizon, row, stamp>>,
           \A d \in Clients : /\ Running(d)' <=> Running(d)
                              /\ Running(d) => xid'[d] = xid[d]
    PROVE  UNCHANGED Table!tvars
  <1>1. Active' = Active
    BY DEF Active
  <1>2. AbsTable' = AbsTable
    BY DEF AbsTable
  <1>. QED
    BY <1>1, <1>2 DEF Table!tvars

\* The end of a transaction: its xid is nobody else's.
LEMMA ActiveEnds ==
    ASSUME IInv, NEW c \in Clients, Running(c), ~Running(c)',
           \A d \in Clients : d # c => /\ Running(d)' <=> Running(d)
                                       /\ xid'[d] = xid[d]
    PROVE  xid[c] \in Active /\ Active' = Active \ {xid[c]}
  <1>1. \A d \in Clients : Running(d) /\ xid[d] = xid[c] => d = c
    BY DEF IInv, Fresh
  <1>. QED
    BY <1>1 DEF Active

\* A transaction that writes nothing is an abort.
LEMMA EndAborts ==
    ASSUME IInv, NEW c \in Clients, Running(c),
           UNCHANGED <<nextXid, nextUid, horizon, row, stamp>>,
           pc' = [pc EXCEPT ![c] = "idle"], xid' = [xid EXCEPT ![c] = 0]
    PROVE  Table!TableNext
  <1>1. xid[c] \in Active /\ Active' = Active \ {xid[c]}
    <2>1. ~Running(c)' /\ \A d \in Clients : d # c => /\ Running(d)' <=> Running(d)
                                                      /\ xid'[d] = xid[d]
      BY DEF Running, IInv, TypeOK
    <2>. QED
      BY <2>1, ActiveEnds
  <1>2. AbsTable' = AbsTable
    BY DEF AbsTable
  <1>3. Table!Abort(xid[c])
    BY <1>1, <1>2 DEF Table!Abort
  <1>. QED
    BY <1>1, <1>3 DEF Table!TableNext

\* A commit makes a row live only if it creates it, and otherwise has a larger xid
\* than the row it replaces.
LEMMA CommitRefines ==
    ASSUME IInv, NEW c \in Clients, Commit(c)
    PROVE  Table!TableNext
  <1>0. TypeOK /\ CallSound(c) /\ pc[c] = "commit"
    BY DEF IInv, Commit
  <1>1. PICK k \in Keys, w \in Resource, r \in Resource, x \in Nat :
           k = req[c].key /\ w = Written(c) /\ r = row[k] /\ x = xid[c]
    BY <1>0, WrittenSound DEF TypeOK
  <1>2. /\ row' = [row EXCEPT ![k] = w] /\ stamp' = [stamp EXCEPT ![k] = x]
        /\ nextUid' = IF req[c].op = "create" THEN nextUid + 1 ELSE nextUid
        /\ nextXid' = nextXid /\ horizon' = horizon
    BY <1>1 DEF Commit
  <1>3. x \in Active /\ Active' = Active \ {x}
    <2>1. Running(c) /\ ~Running(c)'
          /\ \A d \in Clients : d # c => (Running(d)' <=> Running(d)) /\ xid'[d] = xid[d]
      BY <1>0 DEF Commit, Goto, Running, TypeOK
    <2>. QED
      BY <1>1, <2>1, ActiveEnds
  <1>4. /\ AbsTable[k] = [stamp |-> stamp[k], uid |-> r.uid, state |-> StateOf(r)]
        /\ AbsTable' = [AbsTable EXCEPT ![k] = [stamp |-> x, uid |-> w.uid, state |-> StateOf(w)]]
    <2>1. \A j \in Keys : /\ row'[j] = IF j = k THEN w ELSE row[j]
                          /\ stamp'[j] = IF j = k THEN x ELSE stamp[j]
      BY <1>0, <1>2 DEF TypeOK
    <2>. QED
      BY <1>1, <2>1 DEF AbsTable
  <1>5. w.del \in Nat /\ r.del \in Nat /\ r.version \in Nat /\ w.version \in Nat
    BY DEF Resource
  <1>6. CASE req[c].op = "create"
    <2>1. w.uid = nextUid /\ w.del = 0 /\ Present(w)
      BY <1>0, <1>1, <1>6, WrittenSound
    <2>2. StateOf(w) = "live"
      BY <2>1 DEF StateOf, Tombstone
    <2>3. StateOf(r) \in {"none", "tombstone"}
      <3>1. Present(r) => Tombstone(r)
        BY <1>0, <1>1, <1>6 DEF CallSound
      <3>. QED
        BY <3>1 DEF StateOf, Tombstone
    <2>4. Table!CommitCreate(x, k)
      <3>1. AbsTable[k].state \in {"none", "tombstone"}
        BY <1>4, <2>3
      <3>2. AbsTable' = [AbsTable EXCEPT ![k] = [stamp |-> x, uid |-> nextUid, state |-> "live"]]
        BY <1>4, <2>1, <2>2
      <3>3. nextUid' = nextUid + 1 /\ UNCHANGED <<nextXid, horizon>>
        BY <1>2, <1>6
      <3>. QED
        BY <1>3, <3>1, <3>2, <3>3 DEF Table!CommitCreate
    <2>. QED
      BY <1>3, <2>4 DEF Table!TableNext
  <1>7. CASE req[c].op # "create"
    <2>1. w.uid = r.uid /\ Present(r) /\ Present(w)
      BY <1>0, <1>1, <1>7, WrittenSound
    <2>2. Derived(c) /\ Current(c) /\ req[c].op \in Ops /\ req[c].new \in Resource
      BY <1>0, <1>7, Typed DEF CallSound
    <2>3. stamp[k] < x /\ stamp[k] \in Nat
      BY <1>0, <1>1, <1>7, <2>2 DEF CallSound, Running, TypeOK
    <2>4. w.del = r.del \/ w.del # 0
      <3>1. CASE req[c].op = "status"
        <4>1. w = [r EXCEPT !.version = @ + 1, !.status = req[c].new.status]
          BY <1>1, <3>1 DEF Written
        <4>. QED
          BY <4>1 DEF Resource
      <3>2. CASE req[c].op = "object"
        <4>1. w = [req[c].new EXCEPT !.version = r.version + 1, !.status = r.status]
          BY <1>1, <3>2 DEF Written
        <4>2. w.del = req[c].new.del
          BY <2>2, <4>1 DEF Resource
        <4>. QED
          BY <1>1, <2>2, <3>2, <4>2 DEF Derived
      <3>3. CASE req[c].op = "write"
        <4>1. w = [req[c].new EXCEPT !.version = r.version + 1]
          BY <1>1, <3>3 DEF Written
        <4>2. w.del = req[c].new.del
          BY <2>2, <4>1 DEF Resource
        <4>. QED
          BY <2>2, <3>3, <4>2 DEF Derived
      <3>. QED
        BY <1>7, <2>2, <3>1, <3>2, <3>3 DEF Ops
    <2>5. StateOf(w) \in Table!Successors(StateOf(r)) /\ StateOf(w) \in Table!States
      BY <2>1, <2>4 DEF StateOf, Tombstone, Table!Successors, Table!States
    <2>6. Table!CommitUpdate(x, k, StateOf(w))
      BY <1>2, <1>3, <1>4, <1>7, <2>1, <2>3, <2>5, SMTT(20) DEF Table!CommitUpdate
    <2>. QED
      BY <1>3, <2>5, <2>6 DEF Table!TableNext
  <1>. QED
    BY <1>6, <1>7

\* Every step of pgClient and pgctl_write is one of the stamped table, or none.
LEMMA NextRefines == IInv /\ [Next]_vars => [Table!TableNext]_(Table!tvars)
  <1>. SUFFICES ASSUME IInv, [Next]_vars PROVE Table!TableNext \/ UNCHANGED Table!tvars
    OBVIOUS
  <1>0. TypeOK /\ Fresh /\ \A d \in Clients : CallSound(d)
    BY DEF IInv
  <1>1. ASSUME NEW c \in Clients, ClientStep(c) PROVE UNCHANGED Table!tvars
    <2>1. /\ UNCHANGED <<svars, xid>>
          /\ pc' = pc \/ (pc[c] = "idle" /\ pc' = [pc EXCEPT ![c] = "call"])
      BY <1>1 DEF ClientStep, Get, Create, Update, StatusUpdate, DeleteCurrent, DeleteVersion,
                  CanStart, Call, Return
    <2>2. \A d \in Clients : Running(d)' <=> Running(d)
      BY <1>0, <2>1 DEF Running, TypeOK
    <2>. QED
      BY <2>1, <2>2, Stutters DEF svars
  <1>2. ASSUME NEW c \in Clients, AssignXid(c) PROVE Table!TableNext
    <2>1. nextXid <= MaxXid
      <3>1. c \in Calls
        BY <1>2 DEF AssignXid, Calls
      <3>2. Cardinality(Calls) # 0
        BY <3>1, CallsFinite, FS_EmptySet
      <3>3. nextXid \in Nat /\ nextXid + Cardinality(Calls) <= MaxXid + 1
        BY <1>0 DEF Fresh, TypeOK
      <3>. QED
        BY <3>2, <3>3, CallsFinite, MaxXidNat
    <2>2. Active' = Active \cup {nextXid}
      <3>1. \A d \in Clients : xid'[d] = IF d = c THEN nextXid ELSE xid[d]
        BY <1>0, <1>2 DEF AssignXid, TypeOK
      <3>2. \A d \in Clients : Running(d)' <=> (d = c \/ Running(d))
        BY <1>0, <1>2 DEF AssignXid, Goto, Running, TypeOK
      <3>3. ~Running(c)
        BY <1>2 DEF AssignXid, Running
      <3>. QED
        BY <3>1, <3>2, <3>3 DEF Active
    <2>3. AbsTable' = AbsTable
      BY <1>2 DEF AbsTable, AssignXid
    <2>4. Table!Begin
      BY <1>2, <2>1, <2>2, <2>3 DEF Table!Begin, AssignXid
    <2>. QED
      BY <2>4 DEF Table!TableNext
  <1>3. ASSUME NEW c \in Clients, Running(c), \E how \in {"ok", "conflict", "exists"} : Fail(c, how)
        PROVE  Table!TableNext
    BY <1>3, EndAborts DEF Fail, svars
  <1>4. ASSUME NEW c \in Clients, NEW l \in {"write", "revive", "commit"}, Running(c), Goto(c, l),
               UNCHANGED <<nextXid, nextUid, horizon, row, stamp, xid>>
        PROVE  UNCHANGED Table!tvars
    <2>1. \A d \in Clients : Running(d)' <=> Running(d)
      BY <1>0, <1>4 DEF Goto, Running, TypeOK
    <2>. QED
      BY <1>4, <2>1, Stutters
  <1>5. ASSUME NEW c \in Clients, Suppress(c) \/ UpdateRow(c) \/ InsertRow(c) \/ ReviveRow(c)
        PROVE  Table!TableNext \/ UNCHANGED Table!tvars
    <2>1. Running(c)
      BY <1>5 DEF Suppress, UpdateRow, InsertRow, ReviveRow, Running
    <2>2. \/ \E how \in {"ok", "conflict", "exists"} : Fail(c, how)
          \/ \E l \in {"write", "revive", "commit"} :
                Goto(c, l) /\ UNCHANGED <<nextXid, nextUid, horizon, row, stamp, xid>>
      BY <1>5 DEF Suppress, UpdateRow, InsertRow, ReviveRow, TakeLock, svars
    <2>. QED
      BY <1>3, <1>4, <2>1, <2>2
  <1>6. ASSUME NEW c \in Clients, Reply(c) \/ LoseReply(c) PROVE UNCHANGED Table!tvars
    <2>1. /\ UNCHANGED svars /\ pc[c] = "reply"
          /\ pc' = [pc EXCEPT ![c] = "idle"] /\ xid' = [xid EXCEPT ![c] = 0]
      BY <1>6 DEF Reply, LoseReply
    <2>2. \A d \in Clients : /\ Running(d)' <=> Running(d)
                             /\ Running(d) => xid'[d] = xid[d]
      BY <1>0, <2>1 DEF Running, TypeOK
    <2>. QED
      BY <2>1, <2>2, Stutters DEF svars
  <1>7. ASSUME NEW c \in Clients, AbortCall(c) PROVE Table!TableNext \/ UNCHANGED Table!tvars
    <2>1. CASE Running(c)
      BY <1>7, <2>1, EndAborts DEF AbortCall
    <2>2. CASE ~Running(c)
      <3>1. \A d \in Clients : /\ Running(d)' <=> Running(d)
                               /\ Running(d) => xid'[d] = xid[d]
        BY <1>0, <1>7, <2>2 DEF AbortCall, Running, TypeOK
      <3>. QED
        BY <1>7, <3>1, Stutters DEF AbortCall
    <2>. QED
      BY <2>1, <2>2
  <1>8. ASSUME NEW S \in SUBSET Keys, Compact(S) PROVE Table!TableNext
    <2>1. \A k \in Keys : AbsTable[k] = [stamp |-> stamp[k], uid |-> row[k].uid,
                                         state |-> StateOf(row[k])]
      BY DEF AbsTable
    <2>2. ASSUME NEW k \in S PROVE AbsTable[k].state = "tombstone" /\ AbsTable[k].stamp = stamp[k]
      <3>1. Tombstone(row[k]) /\ k \in Keys
        BY <1>8 DEF Compact
      <3>2. StateOf(row[k]) = "tombstone"
        BY <3>1 DEF StateOf, Tombstone
      <3>3. AbsTable[k] = [stamp |-> stamp[k], uid |-> row[k].uid, state |-> StateOf(row[k])]
        BY <2>1, <3>1
      <3>. QED
        BY <3>2, <3>3
    <2>3. AbsTable' = [k \in Keys |-> IF k \in S THEN Table!NoRow ELSE AbsTable[k]]
      <3>1. \A k \in Keys : /\ row'[k] = IF k \in S THEN NoRes ELSE row[k]
                            /\ stamp'[k] = IF k \in S THEN 0 ELSE stamp[k]
        BY <1>8 DEF Compact
      <3>2. StateOf(NoRes) = "none" /\ NoRes.uid = 0
        BY NoResTyped DEF StateOf, Tombstone, NoRes
      <3>. QED
        BY <3>1, <3>2 DEF AbsTable, Table!NoRow
    <2>4. Active' = Active
      BY <1>8 DEF Compact, Active, Running
    <2>5. \E h \in {horizon} \cup {AbsTable[k].stamp : k \in S} :
             /\ \A k \in S : AbsTable[k].stamp <= h
             /\ horizon <= h
             /\ horizon' = h
      BY <1>8, <2>2 DEF Compact
    <2>6. Table!Compact(S)
      BY <1>8, <2>2, <2>3, <2>4, <2>5 DEF Table!Compact, Compact
    <2>. QED
      BY <2>6 DEF Table!TableNext
  <1>9. CASE UNCHANGED vars
    BY <1>9, Stutters DEF vars, svars, Running
  <1>. QED
    BY <1>1, <1>2, <1>5, <1>6, <1>7, <1>8, <1>9, CommitRefines DEF Next, ProcStep

\* pgctl_write and pgClient implement the table whose promises the proofs about
\* the informer rest on.
THEOREM WriteSideImplementsTable == Spec => ImplementsStampedTable
  <1>1. Init => Table!TableInit
    <2>. SUFFICES ASSUME Init PROVE Table!TableInit
      OBVIOUS
    <2>1. Active = {}
      BY DEF Init, Active, Running
    <2>2. AbsTable = [k \in Keys |-> Table!NoRow]
      <3>1. StateOf(NoRes) = "none" /\ NoRes.uid = 0
        BY NoResTyped DEF StateOf, Tombstone, NoRes
      <3>. QED
        BY <3>1 DEF Init, AbsTable, Table!NoRow
    <2>. QED
      BY <2>1, <2>2 DEF Init, Table!TableInit
  <1>. QED
    BY <1>1, NextRefines, CallsAreTied, PTL DEF Spec, ImplementsStampedTable, Table!TableSpec
===============================================================================
