---------------------------- MODULE InformerWatch ----------------------------
(***************************************************************************)
(* The read side of seaplane-db for one GVK: reader.List, the poll loop of *)
(* reader.Watcher, the relay of pgWatcher, and, as the code uses it, the   *)
(* client-go Reflector that lists, watches and relists, and the informer   *)
(* store that the Reflector's events end up in.                            *)
(*                                                                         *)
(* The watcher's events channel, the relay, the Reflector and its          *)
(* DeltaFIFO hand events on one by one and in order.  They are one queue,  *)
(* stream.  A poll hands over a whole batch (it blocks while the channel   *)
(* is full, and the next poll starts only when the batch is sent).         *)
(*                                                                         *)
(* Any terminal error of a watch, 410 Gone or other, makes the Reflector   *)
(* list again.  It sees the error after the events sent before it.         *)
(***************************************************************************)
EXTENDS StampedTable, Sequences

CONSTANTS
    Owned,       \* the keys whose namespace hashes to a residue of the shard
    MaxPending   \* bound: events still in the stream when a poll may start

ASSUME OwnedKeys == Owned \subseteq Keys
ASSUME MaxPendingNat == MaxPending \in Nat

VARIABLES
    phase,    \* what the Reflector does: "list", "watch", "failed" (about to relist)
    hwm,      \* Watcher.hwm
    stream,   \* events sent and not yet applied to the store
    view,     \* the informer store: the row of every cached key, NoRow if absent
    rv        \* pgWatcher.currentRV.Watermark, the Reflector's lastSyncResourceVersion

wvars == <<phase, hwm, stream, view, rv>>
vars == <<tvars, wvars>>

Event == [key : Owned, row : Row]

\* What a List returns and what an event leaves in the store: live and dying
\* objects.  For a tombstone relay sends Deleted, for a dying object Modified.
Visible(r) == IF r.state \in {"live", "dying"} THEN r ELSE NoRow

WatchTypeOK == /\ phase \in {"list", "watch", "failed"}
               /\ hwm \in Nat
               /\ stream \in Seq(Event)
               /\ view \in [Owned -> Row]
               /\ rv \in Nat

\* One type invariant for the table and its watcher.
TypeOK == TableTypeOK /\ WatchTypeOK

Init == /\ TableInit
        /\ phase = "list"
        /\ hwm = 0
        /\ stream = <<>>
        /\ view = [k \in Owned |-> NoRow]
        /\ rv = 0

\* reader.List in a REPEATABLE READ snapshot, then Reflector: Replace the store
\* and open a Watcher at the list's resourceVersion, xmin - 1.
List == /\ phase \in {"list", "failed"}
        /\ stream = <<>>
        /\ \E xmin \in active \cup {nextXid} :
              /\ IsXmin(xmin)
              /\ hwm' = xmin - 1
              /\ rv' = xmin - 1
        /\ view' = [k \in Owned |-> Visible(table[k])]
        /\ phase' = "watch"
        /\ UNCHANGED <<tvars, stream>>

\* The rows a poll selects: this shard's, tombstones included, above hwm.
Due == {k \in Owned : Exists(table[k]) /\ table[k].stamp > hwm}

\* ORDER BY txid_stamp ASC: Due as a sequence, one row per stamp.
IsStampOrder(f) == /\ \A k \in Due : \E i \in DOMAIN f : f[i] = k
                   /\ \A i, j \in DOMAIN f : i < j => table[f[i]].stamp < table[f[j]].stamp

\* The events of a poll's rows in the order f.
Batch(f) == [i \in 1 .. Cardinality(Due) |-> [key |-> f[i], row |-> table[f[i]]]]

\* Mutants of Poll.  The watermark moves to the largest stamp seen.
Poll_MaxSeen == /\ phase = "watch"
                /\ Len(stream) <= MaxPending
                /\ hwm >= horizon
                /\ \E f \in [1 .. Cardinality(Due) -> Due] :
                      /\ IsStampOrder(f)
                      /\ stream' = stream \o Batch(f)
                      /\ hwm' = IF Due = {} THEN hwm ELSE table[f[Cardinality(Due)]].stamp
                /\ UNCHANGED <<tvars, phase, view, rv>>

\* The horizon check is off by one.
Poll_HorizonOffByOne == /\ phase = "watch"
                        /\ Len(stream) <= MaxPending
                        /\ hwm + 1 >= horizon
                        /\ \E f \in [1 .. Cardinality(Due) -> Due] :
                              /\ IsStampOrder(f)
                              /\ stream' = stream \o Batch(f)
                        /\ \E xmin \in active \cup {nextXid} :
                              /\ IsXmin(xmin)
                              /\ hwm' = IF xmin - 1 > hwm THEN xmin - 1 ELSE hwm
                        /\ UNCHANGED <<tvars, phase, view, rv>>

\* pollAll, the commit of its snapshot, and the sends of poll.  The watermark
\* moves to xmin - 1 of the snapshot, never to the largest stamp seen.
Poll == /\ phase = "watch"
        /\ Len(stream) <= MaxPending
        /\ hwm >= horizon
        /\ \E f \in [1 .. Cardinality(Due) -> Due] :
              /\ IsStampOrder(f)
              /\ stream' = stream \o Batch(f)
        /\ \E xmin \in active \cup {nextXid} :
              /\ IsXmin(xmin)
              /\ hwm' = IF xmin - 1 > hwm THEN xmin - 1 ELSE hwm
        /\ phase' = phase
        /\ UNCHANGED <<tvars, view, rv>>

\* The watermark is below the compaction horizon: ErrGone ends the watch.
PollGone == /\ phase = "watch"
            /\ Len(stream) <= MaxPending
            /\ hwm < horizon
            /\ phase' = "failed"
            /\ UNCHANGED <<tvars, hwm, stream, view, rv>>

\* A poll fails for any other reason (connection, statement_timeout) before it
\* advances the watermark or sends anything.
PollError == /\ phase = "watch"
             /\ Len(stream) <= MaxPending
             /\ phase' = "failed"
             /\ UNCHANGED <<tvars, hwm, stream, view, rv>>

\* relay stamps the event with the largest txid it has seen and the store takes it.
Deliver == /\ stream # <<>>
           /\ view' = [view EXCEPT ![Head(stream).key] = Visible(Head(stream).row)]
           /\ rv' = IF Head(stream).row.stamp > rv THEN Head(stream).row.stamp ELSE rv
           /\ stream' = Tail(stream)
           /\ UNCHANGED <<tvars, phase, hwm>>

\* The process restarts: store, watermark and stream are gone.
Restart == /\ phase' = "list"
           /\ hwm' = 0
           /\ stream' = <<>>
           /\ view' = [k \in Owned |-> NoRow]
           /\ rv' = 0
           /\ UNCHANGED tvars

\* The database moves on without the watcher.
TableStep == TableNext /\ UNCHANGED wvars

Next == \/ TableStep
        \/ List \/ Poll \/ PollGone \/ PollError \/ Deliver \/ Restart

Spec == Init /\ [][Next]_vars

-----------------------------------------------------------------------------
\* The events of the stream that concern a key.
Pending(k) == {i \in DOMAIN stream : stream[i].key = k}

\* Once the stream drains the store shows the committed state of k.
UpToDate(k) ==
    /\ Pending(k) = {} => view[k] = Visible(table[k])
    /\ \A i \in Pending(k) : (\A j \in Pending(k) : j <= i)
                                => Visible(stream[i].row) = Visible(table[k])

\* The watermark stays below every transaction that may still commit: a poll
\* that reads rows above hwm cannot miss one (DESIGN I1; watcher.go:454-459,
\* list.go:41-51).
SafeWatermark == \A x \in active \cup {nextXid} : hwm < x

\* No committed change is lost to a watching cache: the store is, or will be
\* once the stream drains, equal to the table at every key, except where the
\* next poll reads the row again or where it answers 410 and forces a relist
\* (DESIGN I3, I5; pollAll, List, Compact together).
NoMissedChange ==
    phase # "list" =>
        \A k \in Owned :
            \/ UpToDate(k)
            \/ Exists(table[k]) /\ table[k].stamp > hwm
            \/ ~Exists(table[k]) /\ hwm < horizon

\* r is not newer than s: an earlier incarnation or an earlier write of it.
NotNewer(r, s) == r.uid < s.uid \/ (r.uid = s.uid /\ r.stamp <= s.stamp)

\* The store, the stream and the table hold ever newer versions of an object,
\* through re-deliveries, relists, deletion, compaction and revival.
StreamInOrder ==
    \A k \in Owned :
        /\ \A i, j \in Pending(k) : i < j => NotNewer(stream[i].row, stream[j].row)
        /\ \A i \in Pending(k) : NotNewer(view[k], stream[i].row)
        /\ Exists(table[k]) => /\ NotNewer(view[k], table[k])
                               /\ \A i \in Pending(k) : NotNewer(stream[i].row, table[k])

\* A controller never sees an object go back to an older version or to an
\* earlier incarnation, short of a restart (relay re-delivers rows between hwm
\* and xmin - 1; revival may carry a smaller xid than the tombstone it replaces).
CacheNeverRegresses ==
    [][\A k \in Owned : Exists(view'[k]) => NotNewer(view[k], view'[k])]_vars

\* What the three invariants rest on: xids are handed out in increasing order,
\* and a uid is new when it is handed out.
XidsOrdered == /\ nextXid >= 1
               /\ \A x \in active : 1 <= x /\ x < nextXid

UidsFresh == /\ nextUid >= 1
             /\ \A k \in Keys : table[k].uid < nextUid
             /\ \A k \in Owned : view[k].uid < nextUid
             /\ \A i \in DOMAIN stream : stream[i].row.uid < nextUid

\* The inductive invariant.
IInv == /\ TypeOK
        /\ XidsOrdered
        /\ UidsFresh
        /\ SafeWatermark
        /\ NoMissedChange
        /\ StreamInOrder

-----------------------------------------------------------------------------
\* Fairness.  The baseline timer polls again and again, relay and the Reflector
\* hand on what they receive and relist after an error, and every transaction
\* ends: createPool sets statement_timeout.
Ends(x) == TableStep /\ x \in active /\ x \notin active'

Fairness == /\ WF_vars(List) /\ WF_vars(Poll) /\ WF_vars(PollGone) /\ WF_vars(Deliver)
            /\ \A x \in 1 .. MaxXid : WF_vars(Ends(x))

FairSpec == Spec /\ Fairness

\* Once polls stop failing and the process stops restarting, the store becomes
\* and stays equal to the table, whatever order transactions committed in and
\* whatever was compacted while the watermark was held back.
Converges ==
    <>[][~PollError /\ ~Restart]_vars
        => <>[](\A k \in Owned : view[k] = Visible(table[k]))
=============================================================================
