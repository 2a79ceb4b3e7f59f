------------------------------ MODULE WriteProc ------------------------------
(***************************************************************************)
(* The write side of seaplane-db for one GVK, step by step: the operations *)
(* of pgClient (Get, Create, Update, Delete with and without a             *)
(* resourceVersion, Status().Update) and the stored procedure pgctl_write  *)
(* that each of them calls, run by concurrent clients.                     *)
(*                                                                         *)
(* A call is: the client's own reads, then one autocommitted statement.    *)
(* PostgreSQL runs it at READ COMMITTED: it assigns the xid, each SELECT,  *)
(* INSERT or UPDATE inside sees what is committed when it starts, a row    *)
(* that another transaction has written is waited for, and an UPDATE       *)
(* re-evaluates its WHERE clause on the row it then finds.                 *)
(*                                                                         *)
(* The connection may break, or statement_timeout may fire, at any step,   *)
(* and the reply of a committed statement may be lost.                     *)
(***************************************************************************)
EXTENDS Integers, FiniteSets

CONSTANTS
    Keys,      \* (namespace, name) pairs
    Clients,   \* callers, each with one request at a time
    Specs,     \* contents of spec (and of the metadata callers own)
    Statuses,  \* contents of status
    MaxXid,    \* bound: xids handed out in one behaviour
    NoKey,     \* no key
    NoClient,  \* no client
    NoContent  \* the content of no row

ASSUME KeysFinite == IsFiniteSet(Keys) /\ NoKey \notin Keys
ASSUME ClientsFinite == IsFiniteSet(Clients) /\ NoClient \notin Clients
ASSUME NoContentIsNone == NoContent \notin Specs \cup Statuses
ASSUME MaxXidNat == MaxXid \in Nat

VARIABLES
    nextXid, nextUid, horizon,   \* as in StampedTable
    row,      \* the committed row of every key, its stamp apart
    stamp,    \* its txid_stamp
    lock,     \* the client whose uncommitted write a row belongs to
    obj,      \* the object each client holds: [key, res], as it last read it
    pc,       \* where each client's call is
    req,      \* the arguments of its call of pgctl_write
    xid,      \* the xid of its transaction, 0 before it has one
    result    \* the result this step returned to a client

svars == <<nextXid, nextUid, horizon, row, stamp, lock>>
vars == <<svars, obj, pc, req, xid, result>>

\* A resource.  fin: metadata has finalizers.  del: deletion_timestamp, a point
\* in time, 0 for NULL.  No row is the resource of version 0.
Resource == [uid : Nat, version : Nat, spec : Specs \cup {NoContent},
             status : Statuses \cup {NoContent}, fin : BOOLEAN, gen : Nat, del : Nat]

NoRes == [uid |-> 0, version |-> 0, spec |-> NoContent, status |-> NoContent,
          fin |-> FALSE, gen |-> 0, del |-> 0]

Present(r) == r.version > 0
Tombstone(r) == Present(r) /\ r.del # 0 /\ ~r.fin

\* The arguments of pgctl_write.  from is history, not an argument: the resource
\* the caller's content was computed from.
NoReq == [op |-> "none", key |-> NoKey, new |-> NoRes, from |-> NoRes]

Ops == {"create", "object", "status", "write"}
Req == [op : Ops, key : Keys, new : Resource, from : Resource] \cup {NoReq}

Running(c) == pc[c] \in {"check", "write", "revive", "commit"}
Active == {xid[c] : c \in {d \in Clients : Running(d)}}

\* The columns of a row that is present are not null.
TypeOK == /\ nextXid \in Nat /\ nextUid \in Nat /\ horizon \in Nat
          /\ row \in [Keys -> Resource]
          /\ \A k \in Keys : Present(row[k]) => row[k].spec # NoContent /\ row[k].status # NoContent
          /\ stamp \in [Keys -> Nat]
          /\ lock \in [Keys -> Clients \cup {NoClient}]
          /\ obj \in [Clients -> [key : Keys \cup {NoKey}, res : Resource]]
          /\ pc \in [Clients -> {"idle", "call", "check", "write", "revive", "commit", "reply"}]
          /\ req \in [Clients -> Req]
          /\ xid \in [Clients -> Nat]
          /\ result \in {"none", "ok", "notfound", "conflict", "exists", "error"}

Init == /\ nextXid = 1 /\ nextUid = 1 /\ horizon = 0
        /\ row = [k \in Keys |-> NoRes]
        /\ stamp = [k \in Keys |-> 0]
        /\ lock = [k \in Keys |-> NoClient]
        /\ obj = [c \in Clients |-> [key |-> NoKey, res |-> NoRes]]
        /\ pc = [c \in Clients |-> "idle"]
        /\ req = [c \in Clients |-> NoReq]
        /\ xid = [c \in Clients |-> 0]
        /\ result = "none"

-----------------------------------------------------------------------------
(* The operations of pgClient, up to the call of pgctl_write. *)

\* A call starts only while the bound leaves it an xid.
CanStart(c) == /\ pc[c] = "idle"
               /\ nextXid + Cardinality({d \in Clients : pc[d] = "call"}) <= MaxXid

\* The operation ends without calling pgctl_write.
Return(c, how) == /\ result' = how
                  /\ UNCHANGED <<svars, obj, pc, req, xid>>

Call(c, r) == /\ req' = [req EXCEPT ![c] = r]
              /\ pc' = [pc EXCEPT ![c] = "call"]
              /\ UNCHANGED <<svars, obj, xid>>
              /\ result' = "none"

\* Get: what is fully deleted is not found.
Get(c, k) == /\ pc[c] = "idle"
             /\ IF Present(row[k]) /\ ~Tombstone(row[k])
                  THEN /\ obj' = [obj EXCEPT ![c] = [key |-> k, res |-> row[k]]]
                       /\ result' = "ok"
                  ELSE /\ UNCHANGED obj
                       /\ result' = "notfound"
             /\ UNCHANGED <<svars, pc, req, xid>>

Create(c, k, s, t, f) ==
    /\ CanStart(c)
    /\ Call(c, [op |-> "create", key |-> k, from |-> NoRes,
                new |-> [NoRes EXCEPT !.spec = s, !.status = t, !.fin = f, !.gen = 1]])

\* readCurrentResource skips tombstones.
ReadsCurrent(k) == Present(row[k]) /\ ~Tombstone(row[k])

\* Update sends the caller's spec and metadata with the version and uid of the
\* object it holds, and the generation and deletion timestamp of a row it reads
\* just before the call.
Update(c, s, f) ==
    LET o == obj[c].res
        k == obj[c].key
        cur == row[k]
        gen == IF cur.spec # s THEN cur.gen + 1 ELSE o.gen
    IN  /\ CanStart(c)
        /\ k # NoKey
        /\ IF ~ReadsCurrent(k) THEN Return(c, "notfound")
           ELSE IF cur.uid # o.uid THEN Return(c, "conflict")
           ELSE Call(c, [op |-> "object", key |-> k, from |-> o,
                         new |-> [o EXCEPT !.spec = s, !.fin = f, !.gen = gen,
                                           !.del = cur.del]])

StatusUpdate(c, t) ==
    /\ CanStart(c)
    /\ obj[c].key # NoKey
    /\ Call(c, [op |-> "status", key |-> obj[c].key, from |-> obj[c].res,
                new |-> [obj[c].res EXCEPT !.status = t]])

\* time.Now() when the request is made.
Now == nextXid

\* Delete without a resourceVersion writes back the row it reads.
DeleteCurrent(c, k) ==
    LET cur == row[k]
    IN  /\ CanStart(c)
        /\ IF ~ReadsCurrent(k) THEN Return(c, "notfound")
           ELSE Call(c, [op |-> "write", key |-> k, from |-> cur,
                         new |-> [cur EXCEPT !.del = IF @ = 0 THEN Now ELSE @]])

\* Delete with a resourceVersion writes the object the caller holds, with
\* whatever finalizers the caller left on it, and a new deletion timestamp.
DeleteVersion(c, f) ==
    /\ CanStart(c)
    /\ obj[c].key # NoKey
    /\ Call(c, [op |-> "write", key |-> obj[c].key, from |-> obj[c].res,
                new |-> [obj[c].res EXCEPT !.fin = f, !.del = Now]])

-----------------------------------------------------------------------------
(* pgctl_write.  new.version and new.uid are the expected version and uid. *)

Goto(c, l) == pc' = [pc EXCEPT ![c] = l]

\* The transaction ends without a write and the call returns.
Fail(c, how) == /\ pc' = [pc EXCEPT ![c] = "idle"]
                /\ xid' = [xid EXCEPT ![c] = 0]
                /\ req' = [req EXCEPT ![c] = NoReq]
                /\ result' = how
                /\ UNCHANGED <<svars, obj>>

\* v_txid := pg_current_xact_id()
AssignXid(c) == /\ pc[c] = "call"
                /\ nextXid' = nextXid + 1
                /\ xid' = [xid EXCEPT ![c] = nextXid]
                /\ Goto(c, IF req[c].op = "create" THEN "write" ELSE "check")
                /\ UNCHANGED <<nextUid, horizon, row, stamp, lock, obj, req>>
                /\ result' = "none"

\* Mutant: the uid is not compared.
Matches_VersionOnly(r, e) == r.version = e.version

Matches(r, e) == r.version = e.version /\ r.uid = e.uid

\* The write would change nothing.
SameContent(op, r, e) ==
    IF op = "status" THEN r.status = e.status
    ELSE /\ r.spec = e.spec /\ r.fin = e.fin /\ r.gen = e.gen /\ r.del = e.del
         /\ op = "write" => r.status = e.status

\* No-op suppression.
Suppress(c) ==
    LET r == row[req[c].key]
        e == req[c].new
    IN  /\ pc[c] = "check"
        /\ \/ /\ Present(r) /\ ~Matches(r, e)
              /\ Fail(c, "conflict")
           \/ /\ Present(r) /\ Matches(r, e) /\ SameContent(req[c].op, r, e)
              /\ Fail(c, "ok")
           \/ /\ ~Present(r) \/ (Matches(r, e) /\ ~SameContent(req[c].op, r, e))
              /\ Goto(c, "write")
              /\ UNCHANGED <<svars, obj, req, xid>>
              /\ result' = "none"

\* A row another transaction has written is waited for.
Unlocked(k) == lock[k] = NoClient

TakeLock(c) == /\ lock' = [lock EXCEPT ![req[c].key] = c]
               /\ Goto(c, "commit")
               /\ UNCHANGED <<nextXid, nextUid, horizon, row, stamp, obj, req, xid>>
               /\ result' = "none"

\* Branches A and C: UPDATE ... WHERE object_version AND uid are the expected.
UpdateRow(c) ==
    /\ pc[c] = "write" /\ req[c].op # "create"
    /\ Unlocked(req[c].key)
    /\ IF Present(row[req[c].key]) /\ Matches(row[req[c].key], req[c].new)
         THEN TakeLock(c)
         ELSE Fail(c, "conflict")

\* Branch B: INSERT, and its unique_violation handler next.
InsertRow(c) ==
    /\ pc[c] = "write" /\ req[c].op = "create"
    /\ Unlocked(req[c].key)
    /\ IF Present(row[req[c].key])
         THEN /\ Goto(c, "revive")
              /\ UNCHANGED <<svars, obj, req, xid>>
              /\ result' = "none"
         ELSE TakeLock(c)

\* Mutant: an object that still has finalizers is revived too.
ReviveRow_Dying(c) ==
    /\ pc[c] = "revive"
    /\ Unlocked(req[c].key)
    /\ IF row[req[c].key].del # 0 THEN TakeLock(c) ELSE Fail(c, "exists")

\* The handler's UPDATE, a statement of its own, revives a tombstone.
ReviveRow(c) ==
    /\ pc[c] = "revive"
    /\ Unlocked(req[c].key)
    /\ IF Tombstone(row[req[c].key]) THEN TakeLock(c) ELSE Fail(c, "exists")

\* Mutant: a status write leaves object_version alone.
Written_StatusKeepsVersion(c) ==
    LET old == row[req[c].key]
        new == req[c].new
    IN  CASE req[c].op = "create" -> [new EXCEPT !.uid = nextUid, !.version = 1, !.del = 0]
          [] req[c].op = "status" -> [old EXCEPT !.status = new.status]
          [] req[c].op = "object" -> [new EXCEPT !.version = old.version + 1, !.status = old.status]
          [] req[c].op = "write"  -> [new EXCEPT !.version = old.version + 1]

\* The row the statement leaves.
Written(c) ==
    LET old == row[req[c].key]
        new == req[c].new
    IN  CASE req[c].op = "create" -> [new EXCEPT !.uid = nextUid, !.version = 1, !.del = 0]
          [] req[c].op = "status" -> [old EXCEPT !.version = @ + 1, !.status = new.status]
          [] req[c].op = "object" -> [new EXCEPT !.version = old.version + 1, !.status = old.status]
          [] req[c].op = "write"  -> [new EXCEPT !.version = old.version + 1]

Commit(c) ==
    LET k == req[c].key
    IN  /\ pc[c] = "commit"
        /\ row' = [row EXCEPT ![k] = Written(c)]
        /\ stamp' = [stamp EXCEPT ![k] = xid[c]]
        /\ nextUid' = IF req[c].op = "create" THEN nextUid + 1 ELSE nextUid
        /\ lock' = [lock EXCEPT ![k] = NoClient]
        /\ Goto(c, "reply")
        /\ req' = [req EXCEPT ![c].new = Written(c)]
        /\ UNCHANGED <<nextXid, horizon, obj, xid>>
        /\ result' = "none"

\* callStoredProc scans the reply.  Create, Update and Status().Update move the
\* version (and uid) of the caller's object along; Delete leaves it.
Reply(c) ==
    /\ pc[c] = "reply"
    /\ obj' = IF req[c].op = "write" THEN obj
              ELSE [obj EXCEPT ![c] = [key |-> req[c].key, res |-> req[c].new]]
    /\ result' = "ok"
    /\ pc' = [pc EXCEPT ![c] = "idle"]
    /\ xid' = [xid EXCEPT ![c] = 0]
    /\ req' = [req EXCEPT ![c] = NoReq]
    /\ UNCHANGED svars

\* The connection is lost after the commit.  callStoredProc reports an
\* ambiguous commit with txid 0, mapWriteError reads back the row with stamp 0:
\* it finds none (Conflict) or fails on the broken connection.
LoseReply(c) ==
    /\ pc[c] = "reply"
    /\ \E how \in {"conflict", "error"} : result' = how
    /\ pc' = [pc EXCEPT ![c] = "idle"]
    /\ xid' = [xid EXCEPT ![c] = 0]
    /\ req' = [req EXCEPT ![c] = NoReq]
    /\ UNCHANGED <<svars, obj>>

\* Mutant: the connection is abandoned inside its transaction.
AbortCall_KeepsLock(c) ==
    /\ pc[c] \in {"call", "check", "write", "revive", "commit"}
    /\ \E how \in {"conflict", "error"} : result' = how
    /\ pc' = [pc EXCEPT ![c] = "idle"]
    /\ xid' = [xid EXCEPT ![c] = 0]
    /\ req' = [req EXCEPT ![c] = NoReq]
    /\ UNCHANGED <<svars, obj>>

\* statement_timeout, a broken connection or a dead client before the commit.
AbortCall(c) ==
    /\ pc[c] \in {"call", "check", "write", "revive", "commit"}
    /\ \E how \in {"conflict", "error"} : result' = how
    /\ lock' = [k \in Keys |-> IF lock[k] = c THEN NoClient ELSE lock[k]]
    /\ pc' = [pc EXCEPT ![c] = "idle"]
    /\ xid' = [xid EXCEPT ![c] = 0]
    /\ req' = [req EXCEPT ![c] = NoReq]
    /\ UNCHANGED <<nextXid, nextUid, horizon, row, stamp, obj>>

\* compaction.Compact: see StampedTable.
Compact(S) ==
    /\ S # {}
    /\ \A k \in S : Tombstone(row[k]) /\ Unlocked(k)
    /\ row' = [k \in Keys |-> IF k \in S THEN NoRes ELSE row[k]]
    /\ stamp' = [k \in Keys |-> IF k \in S THEN 0 ELSE stamp[k]]
    /\ \E h \in {horizon} \cup {stamp[k] : k \in S} :
          /\ \A k \in S : stamp[k] <= h
          /\ horizon <= h
          /\ horizon' = h
    /\ UNCHANGED <<nextXid, nextUid, lock, obj, pc, req, xid>>
    /\ result' = "none"

ClientStep(c) ==
    \/ \E k \in Keys : Get(c, k)
    \/ \E k \in Keys, s \in Specs, t \in Statuses, f \in BOOLEAN : Create(c, k, s, t, f)
    \/ \E s \in Specs, f \in BOOLEAN : Update(c, s, f)
    \/ \E t \in Statuses : StatusUpdate(c, t)
    \/ \E k \in Keys : DeleteCurrent(c, k)
    \/ \E f \in BOOLEAN : DeleteVersion(c, f)

ProcStep(c) == \/ AssignXid(c) \/ Suppress(c) \/ UpdateRow(c) \/ InsertRow(c)
               \/ ReviveRow(c) \/ Commit(c) \/ Reply(c)

Next == \/ \E c \in Clients : ClientStep(c) \/ ProcStep(c) \/ LoseReply(c) \/ AbortCall(c)
        \/ \E S \in SUBSET Keys : Compact(S)

Spec == Init /\ [][Next]_vars

-----------------------------------------------------------------------------
(* The table as its readers see it. *)

StateOf(r) == CASE ~Present(r)  -> "none"
                [] Tombstone(r) -> "tombstone"
                [] Present(r) /\ r.del = 0 -> "live"
                [] OTHER -> "dying"

AbsTable == [k \in Keys |-> [stamp |-> stamp[k], uid |-> row[k].uid, state |-> StateOf(row[k])]]

Table == INSTANCE StampedTable WITH active <- Active, table <- AbsTable

\* pgctl_write and pgClient implement the stamped table that InformerWatch
\* relies on: in particular a compare-and-swap write always has a larger xid
\* than the row it replaces, and only a create makes a row live.
ImplementsStampedTable == Table!TableSpec

-----------------------------------------------------------------------------
\* A version names one state: an object that a client holds, however it got it,
\* is the committed row if uid and version agree, and an older state of it if
\* only the uid does (object_version is bumped by every write, status included;
\* a revived tombstone starts at version 1 again under a new uid).
VersionIdentifiesState ==
    /\ TypeOK
    /\ \A c \in Clients :
        LET o == obj[c].res
            r == row[obj[c].key]
        IN  obj[c].key # NoKey /\ Present(r) /\ r.uid = o.uid =>
                /\ o.version <= r.version
                /\ o.version = r.version => o = r

\* No lost update: a compare-and-swap write replaces exactly the state that the
\* caller computed it from, and the generation and deletion timestamp that
\* Update read separately are those of that same state.
NoLostUpdate ==
    [][\A c \in Clients :
          LET r == row[req[c].key]
              e == req[c].new
          IN  pc[c] = "commit" /\ pc'[c] = "reply" /\ req[c].op # "create" =>
                /\ r = req[c].from
                /\ req[c].op = "object" =>
                     /\ e.del = r.del
                     /\ e.gen = IF e.spec = r.spec THEN r.gen ELSE r.gen + 1]_vars

\* Nobody waits in vain: a row is locked only by a call that has nothing left to
\* do but commit, so that no call waits for one that waits, and none that was cut
\* off, at whatever step, leaves its lock behind (statement_timeout, writer.go:153).
WaitsEnd == \A k \in Keys : lock[k] # NoClient => /\ pc[lock[k]] = "commit"
                                                 /\ req[lock[k]].key = k

\* What pgClient's callers rely on: a version they hold names one state of the
\* row, and their calls do not wait in vain.
WriteSafe == VersionIdentifiesState /\ WaitsEnd


-----------------------------------------------------------------------------
(* The inductive invariant. *)

\* o is a state that the row of k had, or still has.
Held(k, o) ==
    /\ Present(o) /\ o.spec # NoContent /\ o.status # NoContent /\ o.uid < nextUid
    /\ Present(row[k]) /\ row[k].uid = o.uid =>
         /\ o.version <= row[k].version
         /\ o.version = row[k].version => o = row[k]

\* The row that c's call names is still the one its arguments were computed from.
Current(c) == Present(row[req[c].key]) /\ Matches(row[req[c].key], req[c].new)

\* What c's arguments say about the row they replace.
Derived(c) ==
    LET r == row[req[c].key]
        e == req[c].new
    IN  /\ e.spec # NoContent /\ e.status # NoContent
        /\ req[c].op # "create" => /\ Held(req[c].key, req[c].from)
                                   /\ e.version = req[c].from.version /\ e.uid = req[c].from.uid
        /\ req[c].op = "write" => e.del # 0
        /\ req[c].op = "object" /\ Current(c) =>
             /\ e.del = r.del
             /\ e.gen = IF e.spec = r.spec THEN r.gen ELSE r.gen + 1

\* The call of c, wherever it is.  The version of a compare-and-swap write was
\* read before its xid was assigned.
CallSound(c) ==
    /\ obj[c].key # NoKey => Held(obj[c].key, obj[c].res)
    /\ pc[c] # "idle" => req[c] # NoReq
    /\ pc[c] \in {"call", "check", "write", "revive", "commit"} => Derived(c)
    /\ pc[c] = "check" => req[c].op # "create"
    /\ pc[c] = "revive" => req[c].op = "create"
    /\ pc[c] = "commit" =>
         /\ lock[req[c].key] = c
         /\ IF req[c].op = "create" THEN Present(row[req[c].key]) => Tombstone(row[req[c].key])
                                    ELSE Current(c)
    /\ pc[c] = "reply" => Held(req[c].key, req[c].new)
    /\ Running(c) => /\ 0 < xid[c] /\ xid[c] < nextXid
                     /\ req[c].op # "create" /\ Current(c) => stamp[req[c].key] < xid[c]

Calls == {c \in Clients : pc[c] = "call"}

\* Xids and uids are handed out once, and the bound leaves every call its xid.
Fresh == /\ nextXid > 0 /\ nextUid > 0
         /\ nextXid + Cardinality(Calls) <= MaxXid + 1
         /\ \A k \in Keys : stamp[k] < nextXid /\ row[k].uid < nextUid
         /\ \A c, d \in Clients : Running(c) /\ Running(d) /\ xid[c] = xid[d] => c = d

\* What makes WriteSafe, NoLostUpdate and the refinement inductive: the
\* arguments of every call under way are tied to the row they name, and the row
\* of a call that holds its lock cannot move.
IInv == TypeOK /\ Fresh /\ WaitsEnd /\ \A c \in Clients : CallSound(c)
=============================================================================
