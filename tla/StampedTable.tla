---------------------------- MODULE StampedTable ----------------------------
(***************************************************************************)
(* What the kubernetes_resources table promises to its readers: the        *)
(* abstract specification of seaplane-db's write side, for one GVK.        *)
(*                                                                         *)
(* Every write is one PostgreSQL transaction.  It takes its xid first      *)
(* (pgctl_write, v_txid := pg_current_xact_id()), so xids are handed out   *)
(* in one order and commit in another.  The row it writes carries that xid *)
(* as its txid_stamp.  A reader's snapshot knows only which xids are still *)
(* running, and from them xmin.                                            *)
(*                                                                         *)
(* A row is what readers tell apart: which write produced it (its stamp),  *)
(* which incarnation of the object it belongs to (its uid) and its place   *)
(* in the lifecycle that 001_initial.sql documents.  The module WriteProc  *)
(* describes pgctl_write step by step and implements this specification.   *)
(***************************************************************************)
EXTENDS Integers, FiniteSets

CONSTANTS
    Keys,      \* the (namespace, name) pairs of the GVK
    MaxXid     \* bound: xids handed out in one behaviour

ASSUME KeysFinite == IsFiniteSet(Keys)
ASSUME MaxXidNat == MaxXid \in Nat

VARIABLES
    nextXid,   \* the next xid PostgreSQL assigns
    active,    \* xids assigned and neither committed nor aborted
    nextUid,   \* gen_random_uuid(): a uid never handed out before
    table,     \* the committed row of every key
    horizon    \* compaction_horizon.compacted_xid (0: no row for the GVK)

tvars == <<nextXid, active, nextUid, table, horizon>>

States == {"none", "live", "dying", "tombstone"}

Row == [stamp : Nat, uid : Nat, state : States]

\* No row in the table.
NoRow == [stamp |-> 0, uid |-> 0, state |-> "none"]

Exists(r) == r.state # "none"

\* pg_snapshot_xmin(pg_current_snapshot()): the oldest xid still running, or
\* the next one to be assigned.
IsXmin(x) == /\ x \in active \cup {nextXid}
             /\ \A y \in active \cup {nextXid} : x <= y

TableTypeOK == /\ nextXid \in Nat
               /\ active \in SUBSET Nat
               /\ nextUid \in Nat
               /\ table \in [Keys -> Row]
               /\ horizon \in Nat

TableInit == /\ nextXid = 1
             /\ active = {}
             /\ nextUid = 1
             /\ table = [k \in Keys |-> NoRow]
             /\ horizon = 0

\* A transaction of any session is assigned its xid.
Begin == /\ nextXid <= MaxXid
         /\ nextXid' = nextXid + 1
         /\ active' = active \cup {nextXid}
         /\ UNCHANGED <<nextUid, table, horizon>>

\* A transaction ends without a visible effect on the table: conflict, already
\* exists, a suppressed no-op, statement_timeout, a lost connection.
Abort(x) == /\ x \in active
            /\ active' = active \ {x}
            /\ UNCHANGED <<nextXid, nextUid, table, horizon>>

\* Mutant: a revived tombstone keeps its uid.
CommitCreate_KeepsUid(x, k) ==
    /\ x \in active
    /\ table[k].state \in {"none", "tombstone"}
    /\ table' = [table EXCEPT ![k] = [stamp |-> x, state |-> "live",
                                      uid |-> IF Exists(@) THEN @.uid ELSE nextUid]]
    /\ nextUid' = nextUid + 1
    /\ active' = active \ {x}
    /\ UNCHANGED <<nextXid, horizon>>

\* A create commits: a new row, or a tombstone revived as a new incarnation.
\* Nothing orders its xid against the stamp of the tombstone it overwrites.
CommitCreate(x, k) ==
    /\ x \in active
    /\ table[k].state \in {"none", "tombstone"}
    /\ table' = [table EXCEPT ![k] = [stamp |-> x, uid |-> nextUid, state |-> "live"]]
    /\ nextUid' = nextUid + 1
    /\ active' = active \ {x}
    /\ UNCHANGED <<nextXid, horizon>>

\* Where a compare-and-swap write may take the row.  Every write but a create
\* carries the deletion timestamp it found or sets one, so only a create makes a
\* row live again.  A Delete with a resourceVersion writes the caller's metadata:
\* a caller that holds a tombstone's version may put a finalizer back.
Successors(s) == CASE s = "live"      -> {"live", "dying", "tombstone"}
                    [] s = "dying"     -> {"dying", "tombstone"}
                    [] s = "tombstone" -> {"dying", "tombstone"}
                    [] OTHER           -> {}

\* A compare-and-swap write commits.  The version it names was read from the
\* row it replaces, hence after that row's xid was assigned: stamps increase.
CommitUpdate(x, k, s) ==
    /\ x \in active
    /\ s \in Successors(table[k].state)
    /\ x > table[k].stamp
    /\ table' = [table EXCEPT ![k] = [stamp |-> x, uid |-> @.uid, state |-> s]]
    /\ active' = active \ {x}
    /\ UNCHANGED <<nextXid, nextUid, horizon>>

\* compaction.Compact: one statement deletes the tombstones older than the
\* retention (any set of them: age is not modelled) and moves the horizon up to
\* the largest stamp deleted, never down.
Compact(S) ==
    /\ S # {}
    /\ \A k \in S : table[k].state = "tombstone"
    /\ table' = [k \in Keys |-> IF k \in S THEN NoRow ELSE table[k]]
    /\ \E h \in {horizon} \cup {table[k].stamp : k \in S} :
          /\ \A k \in S : table[k].stamp <= h
          /\ horizon <= h
          /\ horizon' = h
    /\ UNCHANGED <<nextXid, active, nextUid>>

TableNext == \/ Begin
             \/ \E x \in active : Abort(x)
             \/ \E x \in active, k \in Keys : CommitCreate(x, k)
             \/ \E x \in active, k \in Keys, s \in States : CommitUpdate(x, k, s)
             \/ \E S \in SUBSET Keys : Compact(S)

TableSpec == TableInit /\ [][TableNext]_tvars
=============================================================================
