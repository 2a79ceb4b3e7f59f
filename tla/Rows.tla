-------------------------------- MODULE Rows --------------------------------
(***************************************************************************)
(* Objects and rows: what seaplane-db stores of an object, what it makes   *)
(* of a row again, resource versions, and the two implementations of a     *)
(* write, the stored procedure pgctl_write and the statements that the     *)
(* Writer sends itself when it has hooks.                                  *)
(*                                                                         *)
(* A write is one transaction here; WriteProc has its interleavings.  JSON *)
(* is compared as a value (a number beyond 2^53 compares differently in    *)
(* the two paths; the contents here have none).                            *)
(***************************************************************************)
EXTENDS Integers, FiniteSets

(***************************************************************************)
(* resourceversion/rv.go.  A text is [form, object, mark]: "empty",        *)
(* "plain" (digits), "composite" (o<n>;<m>) or "other"; object and mark    *)
(* are the sets of the numbers that parse.                                 *)
(***************************************************************************)
PlainText(n) == [form |-> "plain", object |-> {}, mark |-> {n}]

RVString(rv) == IF rv.object > 0 THEN [form |-> "composite", object |-> {rv.object}, mark |-> {rv.mark}]
                ELSE PlainText(rv.mark)

RVParse(text) ==
    CASE text.form = "empty"     -> {[object |-> 0, mark |-> 0]}
      [] text.form = "composite" -> {[object |-> o, mark |-> w] : o \in text.object, w \in text.mark}
      [] text.form = "plain"     -> {[object |-> 0, mark |-> w] : w \in text.mark}
      [] OTHER                   -> {}

(***************************************************************************)
(* convert.go.  An object is [name, ns, uid, rv, del, meta, spec, status]; *)
(* uid is "" before it has one, del the set of its deletion timestamp,     *)
(* meta, spec and status are functions on the fields that are not empty.   *)
(***************************************************************************)
StoredMetadata == {"labels", "annotations", "ownerReferences", "finalizers", "generation"}

Fields(f, S) == [x \in DOMAIN f \cap S |-> f[x]]

\* The fields of src that are there overwrite those of dst.
Merge(dst, src) ==
    [x \in DOMAIN dst \cup DOMAIN src |-> IF x \in DOMAIN src THEN src[x] ELSE dst[x]]

ExtractMetadata(obj) == Fields(obj.meta, StoredMetadata)
ExtractSpecStatus(obj) == <<obj.spec, obj.status>>
ExtractSpec(obj) == obj.spec
ExtractStatus(obj) == obj.status

\* The JSON of spec and status is decoded over what the object has.
InjectSpecStatus(obj, r) ==
    [obj EXCEPT !.spec = Merge(@, r.spec), !.status = Merge(@, r.status)]

\* The stored metadata replaces what the object has; a deletion timestamp is set,
\* never cleared.
PopulateObjectMeta(obj, r) ==
    [obj EXCEPT !.name = r.name, !.ns = r.ns, !.uid = r.uid, !.rv = PlainText(r.version),
                !.del = IF r.del = {} THEN @ ELSE r.del,
                !.meta = [x \in DOMAIN r.meta \cup (DOMAIN @ \ StoredMetadata) |->
                             IF x \in DOMAIN r.meta THEN r.meta[x] ELSE @[x]]]

PopulateObject(obj, r) == InjectSpecStatus(PopulateObjectMeta(obj, r), r)

NoFields == [x \in {} |-> ""]

NewObject == [name |-> "", ns |-> "", uid |-> "", rv |-> [form |-> "empty", object |-> {}, mark |-> {}],
              del |-> {}, meta |-> NoFields, spec |-> NoFields, status |-> NoFields]

ResourceToObject(r) == PopulateObject(NewObject, r)

\* The version a caller's object carries: 0 without one, read from either form.
ParseResourceVersion(obj) ==
    CASE obj.rv.form = "empty" -> {0}
      [] obj.rv.form = "plain" -> obj.rv.mark
      [] OTHER -> {rv.object : rv \in RVParse(obj.rv)} \ {0}

ValidateObjectResourceVersion(obj) == \E v \in ParseResourceVersion(obj) : v > 0

\* Mutant: the event carries the watermark alone.
WatchedObject_NoVersion(r, mark) ==
    [ResourceToObject(r) EXCEPT !.rv = PlainText(mark)]

\* pgWatcher.relay: an object of a watch event carries the watermark as well.
WatchedObject(r, mark) ==
    [ResourceToObject(r) EXCEPT !.rv = RVString([object |-> r.version, mark |-> mark])]

(***************************************************************************)
(* One write.  A request is [op, version, uid, force, spec, status, meta,  *)
(* del]: version is the expected one, 0 for a create; uid, status and del  *)
(* are sets, empty for NULL.  The table row is a set too: empty for none.  *)
(***************************************************************************)
Outcome(how, rows) == [how |-> how, rows |-> rows, changed |-> FALSE]
Wrote(r) == [how |-> "ok", rows |-> {r}, changed |-> TRUE]

Current(r, q) == r.version = q.version /\ (q.uid = {} \/ q.uid = {r.uid})

Revivable(r) == r.del # {} /\ "finalizers" \notin DOMAIN r.meta

\* UPDATE ... SET ... WHERE object_version and uid are the expected ones.
StatusStatement(r, q) == [r EXCEPT !.version = @ + 1, !.status = CHOOSE s \in q.status : TRUE]

ObjectStatement(r, q) == [r EXCEPT !.version = @ + 1, !.spec = q.spec, !.meta = q.meta, !.del = q.del]

WriteStatement(r, q) ==
    [ObjectStatement(r, q) EXCEPT !.status = IF q.status = {} THEN @ ELSE CHOOSE s \in q.status : TRUE]

\* INSERT
InsertStatement(q, uid) ==
    Wrote([uid |-> uid, version |-> 1, spec |-> q.spec, status |-> CHOOSE s \in q.status : TRUE,
           meta |-> q.meta, del |-> q.del])

\* The unique_violation handler.
ReviveStatement(r, q, uid) ==
    IF Revivable(r)
    THEN Wrote([uid |-> uid, version |-> 1, spec |-> q.spec,
                status |-> CHOOSE s \in q.status : TRUE,
                meta |-> q.meta, del |-> {}])
    ELSE Outcome("exists", {r})

\* status is NOT NULL.
CreateStatements(rows, q, uid) ==
    CASE q.status = {} -> Outcome("error", rows)
      [] q.status # {} /\ rows = {} -> InsertStatement(q, uid)
      [] OTHER -> ReviveStatement(CHOOSE r \in rows : TRUE, q, uid)

\* set: what the SET clause makes of each row.
UpdateStatements(rows, q, set) ==
    IF \E r \in rows : Current(r, q) THEN Wrote(set[CHOOSE r \in rows : TRUE])
    ELSE Outcome("conflict", rows)

\* pgctl_write: the content of a request equals that of the row, a NULL status
\* always does.
ProcSameContent(r, q) ==
    IF q.op = "status" THEN q.status = {r.status}
    ELSE r.spec = q.spec /\ q.status \in {{}, {r.status}} /\ r.meta = q.meta /\ r.del = q.del

\* Mutant: a WriteObject without a status clears it.
PgctlWrite_NoCoalesce(rows, q, uid) ==
    IF ~q.force /\ q.version > 0 /\ \E r \in rows : ~Current(r, q) THEN Outcome("conflict", rows)
    ELSE IF ~q.force /\ q.version > 0 /\ \E r \in rows : ProcSameContent(r, q) THEN Outcome("ok", rows)
    ELSE IF q.op = "status" THEN UpdateStatements(rows, q, [r \in rows |-> StatusStatement(r, q)])
    ELSE IF q.version = 0 THEN CreateStatements(rows, q, uid)
    ELSE LET status == IF q.status = {} THEN NoFields ELSE CHOOSE s \in q.status : TRUE
         IN  UpdateStatements(rows, q, [r \in rows |-> [ObjectStatement(r, q) EXCEPT !.status = status]])

PgctlWrite(rows, q, uid) ==
    IF ~q.force /\ q.version > 0 /\ \E r \in rows : ~Current(r, q) THEN Outcome("conflict", rows)
    ELSE IF ~q.force /\ q.version > 0 /\ \E r \in rows : ProcSameContent(r, q) THEN Outcome("ok", rows)
    ELSE IF q.op = "status" THEN UpdateStatements(rows, q, [r \in rows |-> StatusStatement(r, q)])
    ELSE IF q.version = 0 THEN CreateStatements(rows, q, uid)
    ELSE UpdateStatements(rows, q, [r \in rows |-> WriteStatement(r, q)])

\* JSONEqual: both empty, or both there and the same value; timeEqual alike.
JSONEqual(a, b) == a = b
TimeEqual(a, b) == a = b

\* The contentChecker of each operation.
HookSameContent(r, q) ==
    CASE q.op = "status" -> JSONEqual({r.status}, q.status)
      [] q.op = "object" -> JSONEqual(r.spec, q.spec) /\ JSONEqual(r.meta, q.meta) /\ TimeEqual(r.del, q.del)
      [] q.op = "write"  -> /\ JSONEqual(r.spec, q.spec) /\ JSONEqual({r.status}, q.status)
                            /\ JSONEqual(r.meta, q.meta) /\ TimeEqual(r.del, q.del)

\* The upsert functions of writeMultiStatement, writeStatusMultiStatement and
\* writeObjectMultiStatement.
HookWrite(rows, q, uid) ==
    IF q.version = 0 THEN CreateStatements(rows, q, uid) ELSE UpdateStatements(rows, q, [r \in rows |-> WriteStatement(r, q)])
HookStatus(rows, q) == UpdateStatements(rows, q, [r \in rows |-> StatusStatement(r, q)])
HookObject(rows, q) == UpdateStatements(rows, q, [r \in rows |-> ObjectStatement(r, q)])

\* execWriteInner: suppression reads the row, then the upsert.
ExecWrite(rows, q, uid) ==
    LET checked == ~q.force /\ q.version > 0 IN
    IF checked /\ \E r \in rows : ~Current(r, q) THEN Outcome("conflict", rows)
    ELSE IF checked /\ \E r \in rows : HookSameContent(r, q) THEN Outcome("ok", rows)
    ELSE CASE q.op = "write"  -> HookWrite(rows, q, uid)
           [] q.op = "status" -> HookStatus(rows, q)
           [] q.op = "object" -> HookObject(rows, q)

\* WriteStatus and WriteObject need an expected version.
VersionGiven(q) == q.op = "write" \/ q.version > 0

\* Writer.Write, WriteStatus and WriteObject with and without hooks.  WriteObject
\* passes no status to the procedure.
WriteStoredProc(rows, q, uid) == IF VersionGiven(q) THEN PgctlWrite(rows, q, uid) ELSE Outcome("error", rows)
WriteMultiStatement(rows, q, uid) == IF VersionGiven(q) THEN ExecWrite(rows, q, uid) ELSE Outcome("error", rows)

\* observeResult: the label under which a write is counted.
ResultLabel(o) == CASE o.how = "ok" /\ ~o.changed -> "noop"
                    [] o.how = "ok"               -> "success"
                    [] o.how = "conflict"         -> "conflict"
                    [] o.how = "exists"           -> "already_exists"
                    [] OTHER                      -> "error"

-----------------------------------------------------------------------------
\* The path that tests drive with hooks and the procedure of production leave the
\* same row, report the same and are counted alike, except that the procedure
\* takes a Write without a status as one that keeps it, and suppresses it.
PathsAgree(rows, q, uid) ==
    LET proc == WriteStoredProc(rows, q, uid)
        hook == WriteMultiStatement(rows, q, uid)
    IN  \/ proc = hook /\ ResultLabel(proc) = ResultLabel(hook)
        \/ /\ q.op = "write" /\ q.status = {} /\ q.version > 0
           /\ ResultLabel(proc) = "noop" /\ ResultLabel(hook) = "success"
           /\ \E r \in rows : hook.rows = {[r EXCEPT !.version = @ + 1]}

\* What an object is created with is what a Get into a new object returns, its
\* stored metadata included, and a caller that got it from a watch event can write
\* it like one that read it: both carry the version of the row.  Reading it into
\* an object that was used before brings back every field of the row.
ReadsBack(obj, used, mark) ==
    LET row  == [name |-> obj.name, ns |-> obj.ns, uid |-> "u", version |-> 1, del |-> obj.del,
                 meta |-> ExtractMetadata(obj), spec |-> ExtractSpec(obj), status |-> ExtractStatus(obj)]
        got  == ResourceToObject(row)
        over == PopulateObject(used, row)
    IN  /\ got.spec = obj.spec /\ got.status = obj.status /\ got.del = obj.del
        /\ Fields(got.meta, StoredMetadata) = Fields(obj.meta, StoredMetadata)
        /\ ValidateObjectResourceVersion(got)
        /\ ParseResourceVersion(WatchedObject(row, mark)) = ParseResourceVersion(got)
        /\ Fields(over.spec, DOMAIN row.spec) = row.spec
        /\ Fields(over.meta, StoredMetadata) = row.meta

\* A resource version that was written down reads as itself.
RVReadsBack(rv) == RVParse(RVString(rv)) = {rv}
=============================================================================
