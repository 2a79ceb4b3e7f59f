----------------------------- MODULE FieldRules -----------------------------
(***************************************************************************)
(* Which fields of a spec a customer may write: the field validator and    *)
(* its registry, the merge of an update into the stored spec, the          *)
(* preservation of what the platform sets, and the conversions between the *)
(* public and the stored type.                                             *)
(*                                                                         *)
(* A spec is in the form of flattenToFieldPaths: a function from paths     *)
(* (sequences of keys) to values, "obj" for an object, whose fields have   *)
(* paths of their own, "null", "zero" for "", false, 0 and [], and other   *)
(* strings for other values.  A stored spec is what encoding/json makes of *)
(* the Go value: only known keys, every struct, every pointer and map that *)
(* is not nil, every other field that is not its zero value (omitempty).   *)
(* The spec of a request has any keys, in any case.                        *)
(***************************************************************************)
EXTENDS Integers, Sequences, SequencesExt, FiniteSets, TLC

CONSTANTS
    Registry,   \* path -> [mode, hidden, gate, overrides]
    Kind,       \* path -> "struct", "pointer", "scalar", "list", "optional", "map", "entry"
    Canonical,  \* key as it may be spelled -> key
    GateStage,  \* feature gate -> stage: 0 GA, 1 TechPreview, 2 DevPreview
    ResetMaps,  \* the maps that resetSuppliedMaps knows
    Bundle      \* value of the trust bundle -> [empty, bytes, blocks]

Checks == INSTANCE RequestChecks

TrustBundle == <<"additionalTrustBundle">>

ProperPrefixes(p) == {SubSeq(p, 1, i) : i \in 1 .. (Len(p) - 1)}

\* fields[p] of flattenMap: the value with all that is below it, on relative paths.
\* A path that is not there reads as nil.
ValueAt(doc, p) ==
    IF p \in DOMAIN doc
    THEN [r \in {SubSeq(q, Len(p) + 1, Len(q)) : q \in {q \in DOMAIN doc : IsPrefix(p, q)}} |-> doc[p \o r]]
    ELSE <<>> :> "null"

IsZeroValue(v) == \A r \in DOMAIN v : v[r] \in {"null", "zero", "obj"}

IsEmptyObject(v) == v = (<<>> :> "obj")

(***************************************************************************)
(* Feature gates and the registry.                                         *)
(***************************************************************************)
MaxStage(fs) == CASE fs = "TechPreviewNoUpgrade" -> 1 [] fs = "DevPreviewNoUpgrade" -> 2 [] OTHER -> 0

IsGateEnabled(gate, fs) == gate \in DOMAIN GateStage /\ GateStage[gate] <= MaxStage(fs)

\* The first override whose gate is on, or else the first without a gate.
EffectiveWriteMode(meta, fs) ==
    LET o  == meta.overrides
        on == {i \in DOMAIN o : o[i].gate # "" /\ IsGateEnabled(o[i].gate, fs)}
        no == {i \in DOMAIN o : o[i].gate = ""}
        First(S) == o[CHOOSE i \in S : \A j \in S : i <= j].mode
    IN  IF on # {} THEN First(on) ELSE IF no # {} THEN First(no) ELSE meta.mode

\* Some customer field is below the path.
IsStructuralContainer(p) ==
    \E c \in DOMAIN Registry : IsStrictPrefix(p, c) /\ Registry[c].mode \in {"mutable", "immutable"}

Folded(p) == [i \in DOMAIN p |-> Canonical[p[i]]]

LookupFieldMeta(p) == {c \in DOMAIN Registry : c = p \/ (p \notin DOMAIN Registry /\ c = Folded(p))}

(***************************************************************************)
(* The validator.  existing is a set: empty for none, a singleton.  The    *)
(* result is the set of the fields in error.                               *)
(***************************************************************************)
ValidateWriteMode(p, op, value, existing, fs, pointers) ==
    LET mode == EffectiveWriteMode(Registry[p], fs)
        updates == op = "update" /\ existing # {}
        unset == IsZeroValue(value) /\ p \notin pointers
    IN  CASE mode = "service-set" ->
               IF updates
               THEN \A old \in existing : ValueAt(old, p) = value \/ (p \notin DOMAIN old /\ unset)
               ELSE unset
          [] mode = "immutable" -> updates => \A old \in existing : ValueAt(old, p) = value
          [] OTHER -> TRUE

FieldOK(fields, p, c, existing, op, fs, pointers) ==
    LET meta == Registry[c] IN
    \/ IsStructuralContainer(p)
    \/ meta.hidden /\ EffectiveWriteMode(meta, fs) # "service-set"
    \/ /\ \/ meta.gate = ""
          \/ IsEmptyObject(ValueAt(fields, p))
          \/ IsGateEnabled(meta.gate, fs)
       /\ ValidateWriteMode(c, op, ValueAt(fields, p), existing, fs, pointers)

\* validateAdditionalTrustBundle, on the flattened fields.
TrustBundleOK(fields) ==
    TrustBundle \in DOMAIN fields /\ fields[TrustBundle] # "null" =>
        Checks!ValidateAdditionalTrustBundle(Bundle[fields[TrustBundle]])

Validate(fields, existing, op, fs, pointers) ==
    {c \in DOMAIN Registry : \E p \in DOMAIN fields :
        c \in LookupFieldMeta(p) /\ ~FieldOK(fields, p, c, existing, op, fs, pointers)}
    \cup (IF TrustBundleOK(fields) THEN {} ELSE {TrustBundle})

\* The pointers of a Go value that are not nil; a decoded map has none.
CollectPointerSet(doc) == {p \in DOMAIN doc : Kind[p] \in {"pointer", "optional"}}

ValidateCreate(spec, fs) == Validate(spec, {}, "create", fs, CollectPointerSet(spec))

HasNullAncestor(p, fields) == \E a \in ProperPrefixes(p) : a \in DOMAIN fields /\ fields[a] = "null"

\* Mutant: a parent that is set to null is not looked for.
ValidateRawImmutableChanges_LeafOnly(raw, old, fs) ==
    {p \in DOMAIN Registry :
        /\ ~Registry[p].hidden /\ ~IsStructuralContainer(p)
        /\ EffectiveWriteMode(Registry[p], fs) = "immutable"
        /\ p \in DOMAIN raw /\ ValueAt(old, p) # ValueAt(raw, p)}

ValidateRawImmutableChanges(raw, old, fs) ==
    {p \in DOMAIN Registry :
        /\ ~Registry[p].hidden /\ ~IsStructuralContainer(p)
        /\ EffectiveWriteMode(Registry[p], fs) = "immutable"
        /\ \/ p \in DOMAIN raw /\ ValueAt(old, p) # ValueAt(raw, p)
           \/ p \in DOMAIN old /\ ~IsZeroValue(ValueAt(old, p)) /\ HasNullAncestor(p, raw)}

\* ValidateUpdate with the decoded map of the request.
ValidateUpdate(raw, old, fs) ==
    Validate(raw, {old}, "update", fs, {}) \cup ValidateRawImmutableChanges(raw, old, fs)

(***************************************************************************)
(* MergeSpecJSON: json.Unmarshal of the request's spec into the stored     *)
(* one, after resetSuppliedMaps.                                           *)
(***************************************************************************)
\* A key of another case writes the same field.
Supplied(raw, p) == {q \in DOMAIN raw : Folded(q) = p}
SuppliedValue(raw, p) == raw[CHOOSE q \in Supplied(raw, p) : TRUE]
Gives(raw, p, v) == Supplied(raw, p) # {} /\ SuppliedValue(raw, p) = v

\* null leaves a struct or a scalar as it is, and makes the others nil.
Clears(raw, p) == Gives(raw, p, "null") /\ Kind[p] \notin {"struct", "scalar", "entry"}

\* Mutant: the keys of a map that is given are added to the stored ones.
ResetSuppliedMaps_Not(raw, p) == FALSE

ResetSuppliedMaps(raw, p) == Len(p) > 1 /\ Front(p) \in ResetMaps /\ Supplied(raw, Front(p)) # {}

\* An object for a scalar, or a scalar for an object, is an error of the decoder.
DecodeOK(raw) ==
    \A q \in DOMAIN raw : Folded(q) \in DOMAIN Kind /\ raw[q] # "null" =>
        (raw[q] = "obj" <=> Kind[Folded(q)] \in {"struct", "pointer", "map"})

\* What the field is afterwards, on its own: a set, empty for what is not written.
MergedField(old, raw, p) ==
    LET kept == IF p \in DOMAIN old /\ ~ResetSuppliedMaps(raw, p) THEN {old[p]} ELSE {} IN
    IF Kind[p] = "struct" THEN {"obj"}
    ELSE IF Kind[p] = "entry" /\ Gives(raw, p, "null") THEN {"zero"}
    ELSE IF Clears(raw, p) THEN {}
    ELSE IF Supplied(raw, p) = {} \/ Gives(raw, p, "null") THEN kept
    ELSE IF SuppliedValue(raw, p) = "zero" /\ Kind[p] \in {"scalar", "list"} THEN {}
    ELSE {SuppliedValue(raw, p)}

MergeSpecJSON(old, raw) ==
    IF ~DecodeOK(raw) THEN {}
    ELSE LET there == {p \in DOMAIN Kind : \A a \in ProperPrefixes(p) \cup {p} : MergedField(old, raw, a) # {}}
             empty == {p \in there : Kind[p] = "map" /\ \A e \in there : ~IsStrictPrefix(p, e)}
         IN  {[p \in there \ empty |-> CHOOSE v \in MergedField(old, raw, p) : TRUE]}

(***************************************************************************)
(* PreserveServiceSet, with lookupPath and setPath.                        *)
(***************************************************************************)
PlatformFields(fs) == {p \in DOMAIN Registry : /\ EffectiveWriteMode(Registry[p], fs) = "service-set"
                                               /\ ~IsStructuralContainer(p)}

\* Mutant: what is merged is stored as it is.
PreserveServiceSet_Not(candidate, stored, fs) == candidate

PreserveServiceSet(candidate, stored, fs) ==
    LET Platform(q) == \E p \in PlatformFields(fs) : IsPrefix(p, q)
        back  == {q \in DOMAIN stored : Platform(q)}
        mine  == {q \in DOMAIN candidate : ~Platform(q)}
        above == UNION {ProperPrefixes(q) : q \in back} \ mine
    IN  [q \in back \cup mine \cup above |->
            IF q \in back THEN stored[q] ELSE IF q \in mine THEN candidate[q] ELSE "obj"]

\* updateOnce of the handlers, without its database calls.
UpdateSpec(stored, raw, fs) ==
    IF ValidateUpdate(raw, stored, fs) # {} THEN {}
    ELSE {PreserveServiceSet(c, stored, fs) : c \in MergeSpecJSON(stored, raw)}

(***************************************************************************)
(* json_fields.go                                                          *)
(***************************************************************************)
HasJSONField(doc, p) == p # <<>> /\ \E q \in DOMAIN doc : Folded(q) = p

(***************************************************************************)
(* The conversions.  The public type has no hidden fields.  enrichment is  *)
(* a spec of fields that the platform sets.                                *)
(***************************************************************************)
Hidden(p) == \E a \in ProperPrefixes(p) \cup {p} : a \in DOMAIN Registry /\ Registry[a].hidden

ProjectSpec(spec) == [p \in {p \in DOMAIN spec : ~Hidden(p)} |-> spec[p]]

UnprojectSpec(spec, enrichment) == enrichment @@ spec

\* ProjectCluster shows that there is a trust bundle, not which.
ProjectCluster(spec) ==
    LET out == ProjectSpec(spec) IN
    IF TrustBundle \in DOMAIN out /\ ~Bundle[out[TrustBundle]].empty
    THEN [out EXCEPT ![TrustBundle] = "REDACTED"] ELSE out

ProjectNodePool(spec) == ProjectSpec(spec)
ProjectOidcConfig(spec) == ProjectSpec(spec)
ProjectDNSReservation(spec) == ProjectSpec(spec)

\* The customer's annotations (tags) stay, but for those of the platform; labels, the
\* namespace and what the server owns do not.  meta is [name, namespace, labels,
\* annotations, uid, rv, del, fin]; an annotation is <<"seaplane.io/", key>> or <<"", key>>.
CustomerObjectMeta(meta, accountID) ==
    [name |-> meta.name, namespace |-> <<"account", accountID>>,
     labels |-> {<<"account-id", accountID>>},
     annotations |-> {a \in meta.annotations : a[1] # "seaplane.io/"},
     uid |-> "", rv |-> "", del |-> {}, fin |-> {}]

Account(accountID) == <<"accountId">> :> accountID

PublicToInternal(pub, enrichment, accountID) ==
    [meta |-> CustomerObjectMeta(pub.meta, accountID), spec |-> UnprojectSpec(pub.spec, enrichment)]

PublicToInternalCluster(pub, accountID) == PublicToInternal(pub, Account(accountID), accountID)

\* syncNodePoolPassthrough: autoRepair, true unless it is given, and the labels.
NodeLabels == <<"nodePool", "nodeLabels">>
AutoRepair == <<"nodePool", "management", "autoRepair">>

SyncNodePoolPassthrough(spec) ==
    LET rest   == {p \in DOMAIN spec : ~IsPrefix(NodeLabels, p)}
        labels == {r \in {SubSeq(p, 2, Len(p)) : p \in DOMAIN spec} : <<"labels">> \o r \in DOMAIN spec}
    IN  [p \in {NodeLabels \o r : r \in labels} |-> spec[<<"labels">> \o SubSeq(p, 3, Len(p))]]
        @@ (AutoRepair :> IF <<"autoRepair">> \in DOMAIN spec THEN spec[<<"autoRepair">>] ELSE "true")
        @@ [p \in rest |-> spec[p]]

PublicToInternalNodePool(pub, accountID, internalPoolID) ==
    LET new == PublicToInternal(pub, Account(accountID) @@ (<<"internalPoolId">> :> internalPoolID), accountID)
    IN  [new EXCEPT !.spec = SyncNodePoolPassthrough(@)]

PublicToInternalOidcConfig(pub, accountID) == PublicToInternal(pub, Account(accountID), accountID)
PublicToInternalDNSReservation(pub, accountID) == PublicToInternal(pub, Account(accountID), accountID)

InternalToPublicCluster(cr) == [meta |-> cr.meta, spec |-> ProjectCluster(cr.spec)]
InternalToPublicNodePool(cr) == [meta |-> cr.meta, spec |-> ProjectNodePool(cr.spec)]
InternalToPublicOidcConfig(cr) == [meta |-> cr.meta, spec |-> ProjectOidcConfig(cr.spec)]
InternalToPublicDNSReservation(cr) == [meta |-> cr.meta, spec |-> ProjectDNSReservation(cr.spec)]

-----------------------------------------------------------------------------
(* Properties, for one input. *)

\* Unset and zero are not told apart.
Same(v, w) == v = w \/ (IsZeroValue(v) /\ IsZeroValue(w))

\* What an accepted update leaves: every immutable field and every field of the
\* platform as stored, whichever parents the request nulls, empties or spells in its
\* own way; no field whose gate is off changes; a field that the request does not
\* concern is as it was, one that it gives a value has that value, and a map that it
\* gives replaces the stored one.  This relates ValidateUpdate to MergeSpecJSON and
\* PreserveServiceSet, that run after it on their own reading of the request.
UpdateKeeps(stored, raw, fs) ==
    \A new \in UpdateSpec(stored, raw, fs) :
        /\ \A p \in DOMAIN Registry \ {p \in DOMAIN Registry : IsStructuralContainer(p)} :
             LET mode == EffectiveWriteMode(Registry[p], fs)
                 gate == Registry[p].gate
             IN  /\ mode = "service-set" => ValueAt(new, p) = ValueAt(stored, p)
                 /\ mode = "immutable" \/ (gate # "" /\ ~IsGateEnabled(gate, fs)) =>
                        Same(ValueAt(new, p), ValueAt(stored, p))
        /\ \A p \in DOMAIN Kind : Kind[p] \in {"scalar", "list", "optional", "entry"} =>
             LET touched == {q \in DOMAIN raw : IsPrefix(Folded(q), p) /\ raw[q] = "null"} \cup Supplied(raw, p)
                 replaced == Kind[p] = "entry" /\ Supplied(raw, Front(p)) # {}
             IN  /\ touched = {} /\ ~replaced => Same(ValueAt(new, p), ValueAt(stored, p))
                 /\ replaced /\ Supplied(raw, p) = {} => p \notin DOMAIN new
                 /\ \A q \in Supplied(raw, p) :
                      raw[q] # "null" => Same(ValueAt(new, p), <<>> :> raw[q])

\* A client may send back what it has read: the stored spec does not change.  Only a
\* trust bundle cannot be echoed, since ProjectCluster shows a placeholder: that is
\* refused, and the placeholder never takes the place of the bundle.
EchoChangesNothing(stored, fs) ==
    LET echo == ProjectCluster(stored) IN
    IF TrustBundle \in DOMAIN echo /\ echo[TrustBundle] = "REDACTED"
    THEN UpdateSpec(stored, echo, fs) = {}
    ELSE UpdateSpec(stored, echo, fs) = {stored}

\* What an accepted create stores: of the fields of the platform only those of the
\* enrichment; all that the customer gave, readable again; and none of the identity,
\* labels or finalizers of the request's metadata.
CreateKeeps(pub, fs) ==
    ValidateCreate(pub.spec, fs) = {} =>
        LET cr  == PublicToInternalCluster(pub, "a1")
            out == InternalToPublicCluster(cr)
        IN  /\ \A p \in PlatformFields(fs) :
                 IF p = <<"accountId">> THEN cr.spec[p] = "a1" ELSE IsZeroValue(ValueAt(cr.spec, p))
            /\ \A p \in DOMAIN pub.spec \ {TrustBundle} : p \in DOMAIN out.spec /\ out.spec[p] = pub.spec[p]
            /\ DOMAIN out.spec = DOMAIN pub.spec
            /\ out.meta.namespace = <<"account", "a1">> /\ out.meta.labels = {<<"account-id", "a1">>}
            /\ out.meta.uid = "" /\ out.meta.fin = {} /\ out.meta.del = {}
            /\ out.meta.annotations \subseteq pub.meta.annotations
=============================================================================
