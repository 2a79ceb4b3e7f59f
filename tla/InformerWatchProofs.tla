------------------------- MODULE InformerWatchProofs -------------------------
(***************************************************************************)
(* Proofs, for every set of keys, every shard and every bound, that the    *)
(* watermark is safe, that a watching cache misses no committed change and *)
(* that it never shows an older version of an object.                      *)
(***************************************************************************)
EXTENDS InformerWatch, FiniteSetTheorems, TLAPS

\* The absent row is a row, as is what the store keeps of any row.
LEMMA VisibleRow ==
    /\ NoRow \in Row
    /\ \A r \in Row : Visible(r) \in Row /\ Visible(r).uid <= r.uid
  BY DEF NoRow, Row, States, Visible

\* Everything is newer than an absent row, and the order is transitive.
LEMMA NotNewerOrder ==
    /\ \A r \in Row : NotNewer(r, r)
    /\ \A r \in Row, s \in Row : NotNewer(r, s) => NotNewer(Visible(r), s)
    /\ \A r \in Row, s \in Row, t \in Row :
          NotNewer(r, s) /\ NotNewer(s, t) => NotNewer(r, t)
  BY DEF NoRow, Row, Visible, NotNewer

\* The rows a poll selects are finitely many.
LEMMA DueFinite == IsFiniteSet(Due) /\ Cardinality(Due) \in Nat
  <1>1. Due \subseteq Keys
    BY OwnedKeys DEF Due
  <1>. QED
    BY <1>1, KeysFinite, FS_Subset, FS_CardinalityType

\* Events carry rows of this shard's keys.
LEMMA StreamTyped ==
    ASSUME TypeOK
    PROVE  /\ \A i \in DOMAIN stream : /\ stream[i].key \in Owned
                                       /\ stream[i].row \in Row
                                       /\ stream[i].row.uid \in Nat
           /\ \A k \in Owned : /\ view[k] \in Row /\ view[k].uid \in Nat
                               /\ table[k] \in Row /\ table[k].uid \in Nat
                               /\ table[k].stamp \in Nat
  <1>1. \A i \in DOMAIN stream : stream[i] \in Event
    BY DEF TypeOK, WatchTypeOK
  <1>2. \A e \in Event : e.key \in Owned /\ e.row \in Row /\ e.row.uid \in Nat
    BY DEF Event, Row
  <1>3. \A k \in Owned : view[k] \in Row /\ table[k] \in Row
    BY OwnedKeys DEF TypeOK, TableTypeOK, WatchTypeOK
  <1>. QED
    BY <1>1, <1>2, <1>3 DEF Row

\* The initial state satisfies the inductive invariant.
LEMMA InitInductive == Init => IInv
  <1>. SUFFICES ASSUME Init PROVE IInv
    OBVIOUS
  <1>. USE DEF Init, TableInit
  <1>1. TypeOK
    BY VisibleRow DEF TypeOK, TableTypeOK, WatchTypeOK
  <1>2. XidsOrdered /\ UidsFresh /\ SafeWatermark
    BY OwnedKeys DEF XidsOrdered, UidsFresh, SafeWatermark, NoRow
  <1>3. NoMissedChange
    BY DEF NoMissedChange
  <1>4. StreamInOrder
    BY OwnedKeys DEF StreamInOrder, Pending, Exists, NoRow
  <1>. QED
    BY <1>1, <1>2, <1>3, <1>4 DEF IInv

\* A transaction begins.
LEMMA BeginInductive ==
    ASSUME IInv, Begin, UNCHANGED wvars
    PROVE  IInv'
  <1>. USE DEF Begin, wvars
  <1>1. TypeOK'
    BY DEF IInv, TypeOK, TableTypeOK, WatchTypeOK
  <1>2. nextXid \in Nat /\ hwm \in Nat /\ active \in SUBSET Nat
    BY DEF IInv, TypeOK, TableTypeOK, WatchTypeOK
  <1>3. XidsOrdered' /\ SafeWatermark'
    BY <1>2 DEF IInv, XidsOrdered, SafeWatermark
  <1>4. UidsFresh'
    BY DEF IInv, UidsFresh
  <1>5. NoMissedChange'
    BY DEF IInv, NoMissedChange, UpToDate, Pending
  <1>6. StreamInOrder'
    BY DEF IInv, StreamInOrder, Pending
  <1>. QED
    BY <1>1, <1>3, <1>4, <1>5, <1>6 DEF IInv

\* A transaction ends without effect.
LEMMA AbortInductive ==
    ASSUME IInv, NEW x \in active, Abort(x), UNCHANGED wvars
    PROVE  IInv'
  <1>. USE DEF Abort, wvars
  <1>1. TypeOK'
    BY DEF IInv, TypeOK, TableTypeOK, WatchTypeOK
  <1>2. XidsOrdered' /\ UidsFresh' /\ SafeWatermark'
    BY DEF IInv, XidsOrdered, UidsFresh, SafeWatermark
  <1>3. NoMissedChange'
    BY DEF IInv, NoMissedChange, UpToDate, Pending
  <1>4. StreamInOrder'
    BY DEF IInv, StreamInOrder, Pending
  <1>. QED
    BY <1>1, <1>2, <1>3, <1>4 DEF IInv

\* A write commits: the row it leaves is above the watermark, because its xid
\* was running, and it is newer than every version handed out before.
LEMMA CommitInductive ==
    ASSUME IInv, NEW x \in active, NEW k \in Keys, NEW r \in Row,
           r.stamp = x, r.state # "none", r.uid < nextUid',
           \/ r.uid = nextUid
           \/ Exists(table[k]) /\ r.uid = table[k].uid /\ x > table[k].stamp,
           table' = [table EXCEPT ![k] = r],
           nextUid' \in Nat, nextUid' >= nextUid,
           active' = active \ {x},
           UNCHANGED <<nextXid, horizon>>, UNCHANGED wvars
    PROVE  IInv'
  <1>. USE DEF wvars
  <1>0. TypeOK /\ XidsOrdered /\ UidsFresh /\ SafeWatermark /\ NoMissedChange /\ StreamInOrder
    BY DEF IInv
  <1>1. TypeOK'
    BY <1>0 DEF TypeOK, TableTypeOK, WatchTypeOK
  <1>2. XidsOrdered' /\ SafeWatermark'
    BY <1>0 DEF XidsOrdered, SafeWatermark
  <1>3. UidsFresh'
    <2>1. /\ nextUid' >= 1
          /\ \A q \in Keys : table'[q].uid < nextUid'
      BY <1>0 DEF UidsFresh, TypeOK, TableTypeOK, Row
    <2>2. \A q \in Owned : view'[q].uid < nextUid'
      BY <1>0 DEF UidsFresh, TypeOK, TableTypeOK, WatchTypeOK, Row
    <2>3. \A i \in DOMAIN stream' : stream'[i].row.uid < nextUid'
      BY <1>0, StreamTyped DEF UidsFresh, TypeOK, TableTypeOK
    <2>. QED
      BY <2>1, <2>2, <2>3 DEF UidsFresh
  <1>4. NoMissedChange'
    <2>. SUFFICES ASSUME phase' # "list", NEW q \in Owned
                  PROVE  \/ UpToDate(q)'
                         \/ Exists(table'[q]) /\ table'[q].stamp > hwm'
                         \/ ~Exists(table'[q]) /\ hwm' < horizon'
      BY DEF NoMissedChange
    <2>1. CASE q = k
      BY <1>0, <2>1, OwnedKeys DEF SafeWatermark, Exists, TypeOK, TableTypeOK, WatchTypeOK
    <2>2. CASE q # k
      <3>1. table'[q] = table[q]
        BY <1>0, <2>2, OwnedKeys DEF TypeOK, TableTypeOK
      <3>. QED
        BY <1>0, <3>1 DEF NoMissedChange, UpToDate, Pending
    <2>. QED
      BY <2>1, <2>2
  <1>5. StreamInOrder'
    <2>. SUFFICES ASSUME NEW q \in Owned, Exists(table'[q])
                  PROVE  /\ NotNewer(view[q], table'[q])
                         /\ \A i \in Pending(q) : NotNewer(stream[i].row, table'[q])
      BY <1>0 DEF StreamInOrder, Pending
    <2>0. /\ view[q] \in Row /\ table[q] \in Row
          /\ \A i \in Pending(q) : stream[i].row \in Row
          /\ view[q].uid < nextUid
          /\ \A i \in Pending(q) : stream[i].row.uid < nextUid
      BY <1>0, StreamTyped DEF UidsFresh, Pending
    <2>1. CASE q = k /\ r.uid = nextUid
      BY <1>0, <2>0, <2>1, OwnedKeys DEF NotNewer, TypeOK, TableTypeOK
    <2>2. CASE q = k /\ Exists(table[k]) /\ r.uid = table[k].uid /\ x > table[k].stamp
      <3>1. table'[q] = r /\ NotNewer(table[q], r)
        BY <1>0, <2>2, OwnedKeys DEF NotNewer, TypeOK, TableTypeOK, Row
      <3>. QED
        BY <1>0, <2>0, <2>2, <3>1, NotNewerOrder DEF StreamInOrder
    <2>3. CASE q # k
      BY <1>0, <2>3, OwnedKeys DEF StreamInOrder, TypeOK, TableTypeOK
    <2>. QED
      BY <2>1, <2>2, <2>3
  <1>. QED
    BY <1>0, <1>1, <1>2, <1>3, <1>4, <1>5 DEF IInv

\* Tombstones are compacted.  The store either shows their absence already or
\* is below the new horizon.
LEMMA CompactInductive ==
    ASSUME IInv, NEW S \in SUBSET Keys, Compact(S), UNCHANGED wvars
    PROVE  IInv'
  <1>. USE DEF wvars
  <1>0. TypeOK /\ XidsOrdered /\ UidsFresh /\ SafeWatermark /\ NoMissedChange /\ StreamInOrder
    BY DEF IInv
  <1>1. PICK h \in {horizon} \cup {table[k].stamp : k \in S} :
           /\ \A k \in S : table[k].stamp <= h
           /\ horizon <= h
           /\ horizon' = h
    BY DEF Compact
  <1>2. /\ UNCHANGED <<nextXid, active, nextUid>>
        /\ table' = [k \in Keys |-> IF k \in S THEN NoRow ELSE table[k]]
        /\ \A k \in S : table[k].state = "tombstone"
    BY DEF Compact
  <1>3. TypeOK'
    <2>1. \A k \in Keys : table[k] \in Row /\ table[k].stamp \in Nat
      BY <1>0 DEF TypeOK, TableTypeOK, Row
    <2>2. h \in Nat
      BY <1>0, <2>1 DEF TypeOK, TableTypeOK
    <2>3. table' \in [Keys -> Row]
      BY <1>2, <2>1, VisibleRow
    <2>. QED
      BY <1>0, <1>1, <1>2, <2>2, <2>3 DEF TypeOK, TableTypeOK, WatchTypeOK
  <1>4. XidsOrdered' /\ SafeWatermark'
    BY <1>0, <1>2 DEF XidsOrdered, SafeWatermark
  <1>5. UidsFresh'
    <2>1. \A k \in Keys : table'[k].uid < nextUid
      BY <1>0, <1>2 DEF UidsFresh, TypeOK, TableTypeOK, NoRow
    <2>. QED
      BY <1>0, <1>2, <2>1 DEF UidsFresh
  <1>6. NoMissedChange'
    <2>. SUFFICES ASSUME phase' # "list", NEW q \in Owned
                  PROVE  \/ UpToDate(q)'
                         \/ Exists(table'[q]) /\ table'[q].stamp > hwm'
                         \/ ~Exists(table'[q]) /\ hwm' < horizon'
      BY DEF NoMissedChange
    <2>0. table[q].stamp \in Nat /\ hwm \in Nat /\ horizon \in Nat /\ h \in Nat
      BY <1>0, <1>1, <1>3, StreamTyped DEF TypeOK, TableTypeOK, WatchTypeOK
    <2>1. CASE q \in S
      <3>1. Visible(table'[q]) = Visible(table[q]) /\ ~Exists(table'[q])
        BY <1>2, <2>1, OwnedKeys DEF Visible, NoRow, Exists
      <3>2. CASE UpToDate(q)
        BY <3>1, <3>2 DEF UpToDate, Pending
      <3>3. CASE table[q].stamp > hwm
        BY <1>1, <2>0, <2>1, <3>1, <3>3
      <3>. QED
        BY <1>0, <1>2, <2>1, <3>2, <3>3 DEF NoMissedChange, Exists
    <2>2. CASE q \notin S
      <3>1. table'[q] = table[q]
        BY <1>2, <2>2, OwnedKeys
      <3>2. hwm < horizon => hwm' < horizon'
        BY <1>1, <2>0
      <3>. QED
        BY <1>0, <3>1, <3>2 DEF NoMissedChange, UpToDate, Pending
    <2>. QED
      BY <2>1, <2>2
  <1>7. StreamInOrder'
    <2>1. \A q \in Owned : Exists(table'[q]) => table'[q] = table[q]
      BY <1>2, OwnedKeys DEF Exists, NoRow
    <2>. QED
      BY <1>0, <2>1 DEF StreamInOrder, Pending
  <1>. QED
    BY <1>3, <1>4, <1>5, <1>6, <1>7 DEF IInv

\* Every step of the database.
LEMMA TableStepInductive ==
    ASSUME IInv, TableStep
    PROVE  IInv'
  <1>0. TypeOK /\ UNCHANGED wvars /\ UidsFresh
    BY DEF IInv, TableStep
  <1>1. CASE Begin
    BY <1>0, <1>1, BeginInductive
  <1>2. ASSUME NEW x \in active, Abort(x) PROVE IInv'
    BY <1>0, <1>2, AbortInductive
  <1>3. ASSUME NEW x \in active, NEW k \in Keys, CommitCreate(x, k) PROVE IInv'
    <2>. DEFINE r == [stamp |-> x, uid |-> nextUid, state |-> "live"]
    <2>1. r \in Row /\ r.stamp = x /\ r.state # "none" /\ r.uid = nextUid
      BY <1>0 DEF TypeOK, TableTypeOK, Row, States
    <2>2. /\ table' = [table EXCEPT ![k] = r]
          /\ nextUid' \in Nat /\ nextUid' >= nextUid /\ nextUid < nextUid'
          /\ active' = active \ {x}
          /\ UNCHANGED <<nextXid, horizon>>
      BY <1>0, <1>3 DEF CommitCreate, TypeOK, TableTypeOK
    <2>. HIDE DEF r
    <2>. QED
      BY <1>0, <2>1, <2>2, CommitInductive
  <1>4. ASSUME NEW x \in active, NEW k \in Keys, NEW s \in States, CommitUpdate(x, k, s)
        PROVE  IInv'
    <2>. DEFINE r == [stamp |-> x, uid |-> table[k].uid, state |-> s]
    <2>1. /\ r \in Row /\ r.stamp = x /\ r.uid = table[k].uid /\ r.uid < nextUid
          /\ r.state # "none" /\ Exists(table[k])
      BY <1>0, <1>4 DEF CommitUpdate, Successors, Exists, TypeOK, TableTypeOK, Row, States, UidsFresh
    <2>2. /\ table' = [table EXCEPT ![k] = r]
          /\ x > table[k].stamp
          /\ nextUid' = nextUid /\ nextUid' \in Nat /\ nextUid' >= nextUid
          /\ active' = active \ {x}
          /\ UNCHANGED <<nextXid, horizon>>
      BY <1>0, <1>4 DEF CommitUpdate, TypeOK, TableTypeOK
    <2>. HIDE DEF r
    <2>. QED
      BY <1>0, <2>1, <2>2, CommitInductive
  <1>5. ASSUME NEW S \in SUBSET Keys, Compact(S) PROVE IInv'
    BY <1>0, <1>5, CompactInductive
  <1>. QED
    BY <1>1, <1>2, <1>3, <1>4, <1>5 DEF TableStep, TableNext

\* A list takes the snapshot's rows and the snapshot's safe watermark.
LEMMA ListInductive ==
    ASSUME IInv, List
    PROVE  IInv'
  <1>0. TypeOK /\ XidsOrdered /\ UidsFresh /\ SafeWatermark /\ NoMissedChange /\ StreamInOrder
    BY DEF IInv
  <1>1. PICK xmin \in active \cup {nextXid} :
           IsXmin(xmin) /\ hwm' = xmin - 1 /\ rv' = xmin - 1
    BY DEF List
  <1>2. /\ stream = <<>> /\ stream' = <<>>
        /\ view' = [k \in Owned |-> Visible(table[k])]
        /\ phase' = "watch"
        /\ UNCHANGED <<nextXid, active, nextUid, table, horizon>>
    BY DEF List, tvars
  <1>3. xmin - 1 \in Nat
    BY <1>0, <1>1 DEF TypeOK, TableTypeOK, XidsOrdered
  <1>4. TypeOK'
    <2>1. view' \in [Owned -> Row]
      BY <1>0, <1>2, StreamTyped, VisibleRow
    <2>. QED
      BY <1>0, <1>1, <1>2, <1>3, <2>1 DEF TypeOK, TableTypeOK, WatchTypeOK
  <1>5. XidsOrdered'
    BY <1>0, <1>2 DEF XidsOrdered
  <1>6. UidsFresh'
    <2>1. \A k \in Owned : view'[k].uid < nextUid
      <3>. SUFFICES ASSUME NEW k \in Owned PROVE view'[k].uid < nextUid
        OBVIOUS
      <3>1. /\ table[k] \in Row /\ table[k].uid < nextUid /\ table[k].uid \in Nat
            /\ nextUid \in Nat /\ view'[k] = Visible(table[k])
        BY <1>0, <1>2, StreamTyped, OwnedKeys DEF UidsFresh, TypeOK, TableTypeOK
      <3>2. Visible(table[k]).uid <= table[k].uid /\ Visible(table[k]).uid \in Nat
        BY <3>1, VisibleRow DEF Row
      <3>. QED
        BY <3>1, <3>2
    <2>. QED
      BY <1>0, <1>2, <2>1 DEF UidsFresh
  <1>7. SafeWatermark'
    BY <1>0, <1>1, <1>2 DEF SafeWatermark, IsXmin, TypeOK, TableTypeOK
  <1>8. NoMissedChange'
    BY <1>2 DEF NoMissedChange, UpToDate, Pending
  <1>9. StreamInOrder'
    <2>1. \A k \in Owned : NotNewer(view'[k], table'[k])
      BY <1>0, <1>2, StreamTyped, NotNewerOrder
    <2>. QED
      BY <1>2, <2>1 DEF StreamInOrder, Pending
  <1>. QED
    BY <1>4, <1>5, <1>6, <1>7, <1>8, <1>9 DEF IInv

\* A poll sends every row above the watermark before it moves the watermark.
LEMMA PollInductive ==
    ASSUME IInv, Poll
    PROVE  IInv'
  <1>0. TypeOK /\ XidsOrdered /\ UidsFresh /\ SafeWatermark /\ NoMissedChange /\ StreamInOrder
    BY DEF IInv
  <1>. DEFINE n == Cardinality(Due)
              m == Len(stream)
              events(f) == [i \in 1 .. n |-> [key |-> f[i], row |-> table[f[i]]]]
  <1>1. PICK f \in [1 .. n -> Due] : IsStampOrder(f) /\ stream' = stream \o events(f)
    BY DEF Poll, Batch
  <1>2. PICK xmin \in active \cup {nextXid} :
           IsXmin(xmin) /\ hwm' = IF xmin - 1 > hwm THEN xmin - 1 ELSE hwm
    BY DEF Poll
  <1>3. /\ phase = "watch" /\ hwm >= horizon
        /\ UNCHANGED <<phase, view, rv, nextXid, active, nextUid, table, horizon>>
    BY DEF Poll, tvars
  <1>4. n \in Nat /\ m \in Nat /\ stream \in Seq(Event)
    BY <1>0, DueFinite DEF TypeOK, WatchTypeOK
  <1>5. \A i \in 1 .. n : f[i] \in Owned /\ table[f[i]] \in Row
    BY <1>0, <1>1, StreamTyped DEF Due
  <1>6. events(f) \in Seq(Event) /\ Len(events(f)) = n
    <2>1. \A i \in 1 .. n : [key |-> f[i], row |-> table[f[i]]] \in Event
      BY <1>5 DEF Event
    <2>. QED
      BY <1>4, <2>1
  <1>. HIDE DEF n, m
  <1>7. /\ stream' \in Seq(Event) /\ Len(stream') = m + n
        /\ DOMAIN stream = 1 .. m /\ DOMAIN stream' = 1 .. m + n
        /\ \A i \in 1 .. m : stream'[i] = stream[i]
        /\ \A i \in m + 1 .. m + n : /\ i - m \in 1 .. n
                                     /\ stream'[i].key = f[i - m]
                                     /\ stream'[i].row = table[f[i - m]]
    BY <1>1, <1>4, <1>6 DEF m
  <1>8. TypeOK'
    <2>1. hwm' \in Nat
      BY <1>0, <1>2 DEF TypeOK, TableTypeOK, WatchTypeOK, XidsOrdered
    <2>. QED
      BY <1>0, <1>3, <1>7, <2>1 DEF TypeOK, TableTypeOK, WatchTypeOK
  <1>9. XidsOrdered' /\ SafeWatermark'
    BY <1>0, <1>2, <1>3 DEF XidsOrdered, SafeWatermark, IsXmin, TypeOK, TableTypeOK, WatchTypeOK
  <1>10. UidsFresh'
    <2>1. \A i \in 1 .. m : stream'[i].row.uid < nextUid
      BY <1>0, <1>7 DEF UidsFresh
    <2>2. \A i \in m + 1 .. m + n : stream'[i].row.uid < nextUid
      BY <1>0, <1>5, <1>7, OwnedKeys DEF UidsFresh
    <2>3. \A i \in DOMAIN stream' : i \in 1 .. m \/ i \in m + 1 .. m + n
      BY <1>4, <1>7
    <2>. QED
      BY <1>0, <1>3, <2>1, <2>2, <2>3 DEF UidsFresh
  \* The new events of a key are one, at most, and it is the committed row.
  <1>11. \A k \in Owned :
            /\ Pending(k) \subseteq Pending(k)'
            /\ \A i \in Pending(k)' : \/ i \in Pending(k) /\ i \in 1 .. m
                                      \/ i \in m + 1 .. m + n /\ k \in Due
            /\ k \in Due => \E i \in Pending(k)' : i \in m + 1 .. m + n
            /\ \A i \in Pending(k)' : i \in m + 1 .. m + n => stream'[i].row = table[k]
    <2>. SUFFICES ASSUME NEW k \in Owned
                  PROVE  /\ Pending(k) \subseteq Pending(k)'
                         /\ \A i \in Pending(k)' : \/ i \in Pending(k) /\ i \in 1 .. m
                                                   \/ i \in m + 1 .. m + n /\ k \in Due
                         /\ k \in Due => \E i \in Pending(k)' : i \in m + 1 .. m + n
                         /\ \A i \in Pending(k)' : i \in m + 1 .. m + n => stream'[i].row = table[k]
      OBVIOUS
    <2>1. Pending(k) \subseteq Pending(k)'
      BY <1>4, <1>7 DEF Pending
    <2>2. \A i \in Pending(k)' : \/ i \in Pending(k) /\ i \in 1 .. m
                                 \/ i \in m + 1 .. m + n /\ k \in Due
      BY <1>1, <1>4, <1>7 DEF Pending
    <2>3. ASSUME k \in Due PROVE \E i \in Pending(k)' : i \in m + 1 .. m + n
      <3>1. PICK j \in 1 .. n : f[j] = k
        BY <1>1, <2>3 DEF IsStampOrder
      <3>2. /\ m + j \in m + 1 .. m + n /\ (m + j) - m = j /\ m + j \in 1 .. m + n
        BY <1>4, <3>1
      <3>3. m + j \in Pending(k)'
        BY <1>7, <3>1, <3>2 DEF Pending
      <3>. QED
        BY <3>2, <3>3
    <2>4. \A i \in Pending(k)' : i \in m + 1 .. m + n => stream'[i].row = table[k]
      BY <1>7 DEF Pending
    <2>. QED
      BY <2>1, <2>2, <2>3, <2>4
  <1>12. NoMissedChange'
    <2>. SUFFICES ASSUME NEW k \in Owned PROVE UpToDate(k)'
      BY DEF NoMissedChange
    <2>1. CASE k \in Due
      <3>1. PICK p \in Pending(k)' : p \in m + 1 .. m + n
        BY <1>11, <2>1
      <3>2. ASSUME NEW i \in Pending(k)', \A j \in Pending(k)' : j <= i
            PROVE  stream'[i].row = table[k]
        <4>1. p <= i /\ i \in 1 .. m + n
          BY <1>7, <3>1, <3>2 DEF Pending
        <4>2. i \in m + 1 .. m + n
          BY <1>4, <3>1, <4>1
        <4>. QED
          BY <1>11, <4>2
      <3>. QED
        BY <1>3, <3>1, <3>2 DEF UpToDate
    <2>2. CASE k \notin Due
      <3>1. UpToDate(k)
        <4>1. hwm \in Nat /\ horizon \in Nat /\ ~(hwm < horizon)
          BY <1>0, <1>3 DEF TypeOK, TableTypeOK, WatchTypeOK
        <4>. QED
          BY <1>0, <1>3, <2>2, <4>1 DEF NoMissedChange, Due
      <3>2. Pending(k)' = Pending(k) /\ \A i \in Pending(k) : stream'[i] = stream[i]
        BY <1>7, <1>11, <2>2 DEF Pending
      <3>. QED
        BY <1>3, <3>1, <3>2 DEF UpToDate
    <2>. QED
      BY <2>1, <2>2
  <1>13. StreamInOrder'
    <2>. SUFFICES ASSUME NEW k \in Owned
                  PROVE  /\ \A i, j \in Pending(k)' : i < j => NotNewer(stream'[i].row, stream'[j].row)
                         /\ \A i \in Pending(k)' : NotNewer(view[k], stream'[i].row)
                         /\ Exists(table[k]) =>
                              /\ NotNewer(view[k], table[k])
                              /\ \A i \in Pending(k)' : NotNewer(stream'[i].row, table[k])
      BY <1>3 DEF StreamInOrder
    <2>0. table[k] \in Row /\ NotNewer(table[k], table[k]) /\ (k \in Due => Exists(table[k]))
      BY <1>0, StreamTyped, NotNewerOrder DEF Due
    <2>1. \A i \in Pending(k)' : \/ i \in Pending(k) /\ stream'[i].row = stream[i].row /\ i <= m
                                 \/ k \in Due /\ stream'[i].row = table[k] /\ i > m
      BY <1>4, <1>7, <1>11
    <2>2. \A i, j \in Pending(k)' : i < j => NotNewer(stream'[i].row, stream'[j].row)
      <3>. SUFFICES ASSUME NEW i \in Pending(k)', NEW j \in Pending(k)', i < j
                    PROVE  NotNewer(stream'[i].row, stream'[j].row)
        OBVIOUS
      <3>0. i \in Nat /\ j \in Nat
        BY <1>4, <1>7 DEF Pending
      <3>1. CASE i \in Pending(k) /\ j \in Pending(k) /\ i <= m /\ j <= m
        BY <1>0, <1>7, <1>4, <2>1, <3>0, <3>1 DEF StreamInOrder
      <3>2. CASE k \in Due /\ stream'[j].row = table[k] /\ j > m
        BY <1>0, <2>0, <2>1, <3>2 DEF StreamInOrder
      <3>. QED
        BY <1>4, <2>1, <3>0, <3>1, <3>2
    <2>3. \A i \in Pending(k)' : NotNewer(view[k], stream'[i].row)
      BY <1>0, <2>0, <2>1 DEF StreamInOrder
    <2>4. Exists(table[k]) =>
            /\ NotNewer(view[k], table[k])
            /\ \A i \in Pending(k)' : NotNewer(stream'[i].row, table[k])
      BY <1>0, <2>0, <2>1 DEF StreamInOrder
    <2>. QED
      BY <2>2, <2>3, <2>4
  <1>. QED
    BY <1>8, <1>9, <1>10, <1>12, <1>13 DEF IInv

\* The store takes the first event: what the stream holds for other keys and
\* behind it is unchanged.
LEMMA DeliverInductive ==
    ASSUME IInv, Deliver
    PROVE  IInv'
  <1>0. TypeOK /\ XidsOrdered /\ UidsFresh /\ SafeWatermark /\ NoMissedChange /\ StreamInOrder
    BY DEF IInv
  <1>. DEFINE e == stream[1]
              m == Len(stream)
  <1>1. /\ stream \in Seq(Event) /\ stream # <<>> /\ m \in Nat /\ m >= 1
        /\ DOMAIN stream = 1 .. m /\ Head(stream) = e
        /\ stream' \in Seq(Event) /\ DOMAIN stream' = 1 .. m - 1
        /\ \A i \in 1 .. m - 1 : stream'[i] = stream[i + 1]
    BY <1>0 DEF Deliver, TypeOK, WatchTypeOK
  <1>2. e.key \in Owned /\ e.row \in Row /\ e.row.stamp \in Nat /\ e.row.uid < nextUid
    BY <1>0, <1>1, StreamTyped DEF UidsFresh, Row
  <1>3. /\ view' = [view EXCEPT ![e.key] = Visible(e.row)]
        /\ rv' = IF e.row.stamp > rv THEN e.row.stamp ELSE rv
        /\ UNCHANGED <<phase, hwm, nextXid, active, nextUid, table, horizon>>
    BY <1>1 DEF Deliver, tvars
  <1>. HIDE DEF e, m
  <1>4. TypeOK'
    <2>1. view' \in [Owned -> Row] /\ rv' \in Nat
      BY <1>0, <1>2, <1>3, VisibleRow DEF TypeOK, WatchTypeOK
    <2>. QED
      BY <1>0, <1>1, <1>3, <2>1 DEF TypeOK, TableTypeOK, WatchTypeOK
  <1>5. XidsOrdered' /\ SafeWatermark'
    BY <1>0, <1>3 DEF XidsOrdered, SafeWatermark
  <1>6. \A k \in Owned : view'[k] = IF k = e.key THEN Visible(e.row) ELSE view[k]
    BY <1>0, <1>2, <1>3 DEF TypeOK, WatchTypeOK
  <1>7. UidsFresh'
    <2>1. \A k \in Owned : view'[k].uid < nextUid
      <3>1. Visible(e.row).uid < nextUid
        <4>1. /\ Visible(e.row).uid \in Nat /\ e.row.uid \in Nat /\ nextUid \in Nat
              /\ Visible(e.row).uid <= e.row.uid
          BY <1>0, <1>2, VisibleRow DEF Row, TypeOK, TableTypeOK
        <4>. QED
          BY <1>2, <4>1
      <3>. QED
        BY <1>0, <1>6, <3>1 DEF UidsFresh
    <2>2. \A i \in DOMAIN stream' : stream'[i].row.uid < nextUid
      <3>1. \A i \in 1 .. m - 1 : i + 1 \in DOMAIN stream
        BY <1>1
      <3>. QED
        BY <1>0, <1>1, <3>1 DEF UidsFresh
    <2>. QED
      BY <1>0, <1>3, <2>1, <2>2 DEF UidsFresh
  \* Positions shift by one, and the first event was e.
  <1>8. \A k \in Owned :
           /\ \A i \in Pending(k)' : /\ i \in Nat /\ i >= 1
                                     /\ i + 1 \in Pending(k)
                                     /\ stream'[i] = stream[i + 1]
           /\ \A i \in Pending(k) : i # 1 => i \in Nat /\ i > 1 /\ i - 1 \in Pending(k)'
    BY <1>1 DEF Pending
  <1>9. \A k \in Owned : (1 \in Pending(k)) <=> (k = e.key)
    BY <1>1 DEF Pending, e
  <1>10. NoMissedChange'
    <2>. SUFFICES ASSUME NEW k \in Owned, UpToDate(k) PROVE UpToDate(k)'
      BY <1>0, <1>3 DEF NoMissedChange
    <2>1. ASSUME Pending(k)' = {} PROVE view'[k] = Visible(table[k])
      <3>1. \A i \in Pending(k) : i = 1
        BY <1>8, <2>1
      <3>2. CASE k = e.key
        <4>1. 1 \in Pending(k) /\ \A j \in Pending(k) : j <= 1
          BY <1>9, <3>1, <3>2
        <4>. QED
          BY <1>6, <3>2, <4>1 DEF UpToDate, e
      <3>3. CASE k # e.key
        BY <1>6, <1>9, <3>1, <3>3 DEF UpToDate
      <3>. QED
        BY <3>2, <3>3
    <2>2. ASSUME NEW i \in Pending(k)', \A j \in Pending(k)' : j <= i
          PROVE  Visible(stream'[i].row) = Visible(table[k])
      <3>1. /\ i \in Nat /\ i >= 1 /\ i + 1 \in Pending(k) /\ stream'[i] = stream[i + 1]
        BY <1>8
      <3>2. \A j \in Pending(k) : j <= i + 1
        <4>. SUFFICES ASSUME NEW j \in Pending(k), j # 1 PROVE j <= i + 1
          BY <3>1
        <4>1. j \in Nat /\ j - 1 \in Pending(k)'
          BY <1>8
        <4>2. j - 1 <= i
          BY <2>2, <4>1
        <4>. QED
          BY <3>1, <4>1, <4>2
      <3>. QED
        BY <3>1, <3>2 DEF UpToDate
    <2>. QED
      BY <1>3, <2>1, <2>2 DEF UpToDate
  <1>11. StreamInOrder'
    <2>. SUFFICES ASSUME NEW k \in Owned
                  PROVE  /\ \A i, j \in Pending(k)' : i < j => NotNewer(stream'[i].row, stream'[j].row)
                         /\ \A i \in Pending(k)' : NotNewer(view'[k], stream'[i].row)
                         /\ Exists(table[k]) =>
                              /\ NotNewer(view'[k], table[k])
                              /\ \A i \in Pending(k)' : NotNewer(stream'[i].row, table[k])
      BY <1>3 DEF StreamInOrder
    <2>1. \A i, j \in Pending(k)' : i < j => NotNewer(stream'[i].row, stream'[j].row)
      <3>. SUFFICES ASSUME NEW i \in Pending(k)', NEW j \in Pending(k)', i < j
                    PROVE  NotNewer(stream'[i].row, stream'[j].row)
        OBVIOUS
      <3>1. /\ i + 1 \in Pending(k) /\ j + 1 \in Pending(k) /\ i + 1 < j + 1
            /\ stream'[i] = stream[i + 1] /\ stream'[j] = stream[j + 1]
        BY <1>8
      <3>. QED
        BY <1>0, <3>1 DEF StreamInOrder
    <2>2. \A i \in Pending(k)' : NotNewer(view'[k], stream'[i].row)
      <3>. SUFFICES ASSUME NEW i \in Pending(k)' PROVE NotNewer(view'[k], stream'[i].row)
        OBVIOUS
      <3>1. /\ i + 1 \in Pending(k) /\ stream'[i] = stream[i + 1] /\ 1 < i + 1
            /\ stream[i + 1].row \in Row
        BY <1>0, <1>8, StreamTyped DEF Pending
      <3>2. CASE k = e.key
        <4>1. NotNewer(e.row, stream[i + 1].row)
          BY <1>0, <1>9, <3>1, <3>2 DEF StreamInOrder, e
        <4>. QED
          BY <1>2, <1>6, <3>1, <3>2, <4>1, NotNewerOrder
      <3>3. CASE k # e.key
        BY <1>0, <1>6, <3>1, <3>3 DEF StreamInOrder
      <3>. QED
        BY <3>2, <3>3
    <2>3. ASSUME Exists(table[k])
          PROVE  /\ NotNewer(view'[k], table[k])
                 /\ \A i \in Pending(k)' : NotNewer(stream'[i].row, table[k])
      <3>1. \A i \in Pending(k)' : NotNewer(stream'[i].row, table[k])
        BY <1>0, <1>8, <2>3 DEF StreamInOrder
      <3>2. CASE k = e.key
        <4>1. NotNewer(e.row, table[k]) /\ table[k] \in Row
          BY <1>0, <1>9, <2>3, <3>2, StreamTyped DEF StreamInOrder, e
        <4>. QED
          BY <1>2, <1>6, <3>1, <3>2, <4>1, NotNewerOrder
      <3>3. CASE k # e.key
        BY <1>0, <1>6, <2>3, <3>1, <3>3 DEF StreamInOrder
      <3>. QED
        BY <3>2, <3>3
    <2>. QED
      BY <2>1, <2>2, <2>3
  <1>. QED
    BY <1>4, <1>5, <1>7, <1>10, <1>11 DEF IInv

\* A watch ends, by 410 Gone or any other error.
LEMMA FailInductive ==
    ASSUME IInv, PollGone \/ PollError
    PROVE  IInv'
  <1>0. /\ phase = "watch" /\ phase' = "failed"
        /\ UNCHANGED <<hwm, stream, view, rv, nextXid, active, nextUid, table, horizon>>
    BY DEF PollGone, PollError, tvars
  <1>1. TypeOK'
    BY <1>0 DEF IInv, TypeOK, TableTypeOK, WatchTypeOK
  <1>2. XidsOrdered' /\ UidsFresh' /\ SafeWatermark'
    BY <1>0 DEF IInv, XidsOrdered, UidsFresh, SafeWatermark
  <1>3. NoMissedChange'
    BY <1>0 DEF IInv, NoMissedChange, UpToDate, Pending
  <1>4. StreamInOrder'
    BY <1>0 DEF IInv, StreamInOrder, Pending
  <1>. QED
    BY <1>1, <1>2, <1>3, <1>4 DEF IInv

\* The process restarts with an empty store.
LEMMA RestartInductive ==
    ASSUME IInv, Restart
    PROVE  IInv'
  <1>0. /\ phase' = "list" /\ hwm' = 0 /\ stream' = <<>> /\ rv' = 0
        /\ view' = [k \in Owned |-> NoRow]
        /\ UNCHANGED <<nextXid, active, nextUid, table, horizon>>
    BY DEF Restart, tvars
  <1>1. TypeOK'
    BY <1>0, VisibleRow DEF IInv, TypeOK, TableTypeOK, WatchTypeOK
  <1>2. XidsOrdered' /\ SafeWatermark'
    BY <1>0 DEF IInv, XidsOrdered, SafeWatermark, TypeOK, TableTypeOK
  <1>3. UidsFresh'
    <2>1. \A k \in Owned : view'[k].uid < nextUid'
      BY <1>0 DEF IInv, UidsFresh, NoRow, TypeOK, TableTypeOK
    <2>. QED
      BY <1>0, <2>1 DEF IInv, UidsFresh
  <1>4. NoMissedChange'
    BY <1>0 DEF NoMissedChange
  <1>5. StreamInOrder'
    <2>1. \A k \in Owned : NotNewer(view'[k], table[k])
      BY <1>0, StreamTyped DEF IInv, NotNewer, NoRow
    <2>. QED
      BY <1>0, <2>1 DEF StreamInOrder, Pending
  <1>. QED
    BY <1>1, <1>2, <1>3, <1>4, <1>5 DEF IInv

\* Every step preserves the inductive invariant.
LEMMA NextInductive == IInv /\ [Next]_vars => IInv'
  <1>. SUFFICES ASSUME IInv, [Next]_vars PROVE IInv'
    OBVIOUS
  <1>1. CASE TableStep
    BY <1>1, TableStepInductive
  <1>2. CASE List
    BY <1>2, ListInductive
  <1>3. CASE Poll
    BY <1>3, PollInductive
  <1>4. CASE PollGone \/ PollError
    BY <1>4, FailInductive
  <1>5. CASE Deliver
    BY <1>5, DeliverInductive
  <1>6. CASE Restart
    BY <1>6, RestartInductive
  <1>7. CASE UNCHANGED vars
    BY <1>7 DEF vars, tvars, wvars, IInv, TypeOK, TableTypeOK, WatchTypeOK, XidsOrdered,
         UidsFresh, SafeWatermark, NoMissedChange, UpToDate, StreamInOrder, Pending
  <1>. QED
    BY <1>1, <1>2, <1>3, <1>4, <1>5, <1>6, <1>7 DEF Next

\* The inductive invariant holds in every reachable state.
THEOREM Invariance == Spec => []IInv
  BY InitInductive, NextInductive, PTL DEF Spec

\* The state of table, watcher and cache is always well typed.
THEOREM TypeCorrect == Spec => []TypeOK
  <1>1. IInv => TypeOK
    BY DEF IInv
  <1>. QED
    BY <1>1, Invariance, PTL

\* The watermark that List and pollAll take, xmin - 1, never reaches a
\* transaction that may still commit.
THEOREM WatermarkSafety == Spec => []SafeWatermark
  <1>1. IInv => SafeWatermark
    BY DEF IInv
  <1>. QED
    BY <1>1, Invariance, PTL

\* List, pollAll and Compact together lose no committed change, whatever the
\* order in which transactions commit and tombstones are compacted.
THEOREM NoChangeIsLost == Spec => []NoMissedChange
  <1>1. IInv => NoMissedChange
    BY DEF IInv
  <1>. QED
    BY <1>1, Invariance, PTL

\* Versions of an object reach the cache in the order they were committed.
THEOREM OrderedDelivery == Spec => []StreamInOrder
  <1>1. IInv => StreamInOrder
    BY DEF IInv
  <1>. QED
    BY <1>1, Invariance, PTL

\* Neither a re-delivery nor a relist shows a controller an older version.
THEOREM CacheMonotone == Spec => CacheNeverRegresses
  <1>. DEFINE Forward == \A k \in Owned : Exists(view'[k]) => NotNewer(view[k], view'[k])
  <1>1. IInv /\ [Next]_vars => [Forward]_vars
    <2>. SUFFICES ASSUME IInv, Next, NEW k \in Owned, Exists(view'[k])
                  PROVE  NotNewer(view[k], view'[k])
      BY DEF vars
    <2>0. TypeOK /\ StreamInOrder /\ view[k] \in Row /\ table[k] \in Row
      BY StreamTyped DEF IInv
    <2>1. CASE view'[k] = view[k]
      BY <2>0, <2>1, NotNewerOrder
    <2>2. CASE List
      BY <2>0, <2>2 DEF List, StreamInOrder, Visible, Exists, NoRow
    <2>3. CASE Deliver /\ Head(stream).key = k
      <3>1. 1 \in Pending(k) /\ Head(stream) = stream[1]
        BY <2>0, <2>3 DEF Deliver, Pending, TypeOK, WatchTypeOK
      <3>2. view'[k] = Visible(stream[1].row)
        BY <2>0, <2>3, <3>1 DEF Deliver, TypeOK, WatchTypeOK
      <3>3. view'[k] = stream[1].row
        BY <3>2 DEF Visible, Exists, NoRow
      <3>. QED
        BY <2>0, <3>1, <3>3 DEF StreamInOrder
    <2>4. CASE Deliver /\ Head(stream).key # k
      BY <2>0, <2>1, <2>4 DEF Deliver, TypeOK, WatchTypeOK
    <2>5. CASE Restart
      BY <2>5 DEF Restart, Exists, NoRow
    <2>6. CASE TableStep \/ Poll \/ PollGone \/ PollError
      BY <2>1, <2>6 DEF TableStep, wvars, Poll, PollGone, PollError
    <2>. QED
      BY <2>2, <2>3, <2>4, <2>5, <2>6 DEF Next
  <1>. QED
    BY <1>1, Invariance, PTL DEF Spec, CacheNeverRegresses
=============================================================================
