------------------------------- MODULE Reads --------------------------------
(***************************************************************************)
(* What a read returns: the selectors that seaplane-db translates to SQL,  *)
(* List and Get of pgClient and pgCache, the account-scoped reads of the   *)
(* API's database client, and the list and get handlers on top of them.    *)
(*                                                                         *)
(* The table is the sequence of its rows in the order of their txid_stamp, *)
(* so a write moves its row to the end.  A row is [gvk, ns, name, uid,     *)
(* del, fin, labels, json, owner]: del says that deletion_timestamp is     *)
(* set, fin that metadata->'finalizers' is "absent", "empty" or "some",    *)
(* labels and json are functions on the label keys and the JSON paths that *)
(* are there (no labels: metadata->'labels' is NULL).  A value is [text,   *)
(* int64, n]: whether the text parses as an int64, and which.              *)
(*                                                                         *)
(* An operator that may return an error returns a set: empty for the       *)
(* error, a singleton for the result.                                      *)
(***************************************************************************)
EXTENDS Integers, Sequences, FiniteSets, SequencesExt

(***************************************************************************)
(* SQL's three truth values.  WHERE keeps a row when its clause is "t".    *)
(***************************************************************************)
Sql(b) == IF b THEN "t" ELSE "f"
SqlOr(S) == IF "t" \in S THEN "t" ELSE IF "null" \in S THEN "null" ELSE "f"
NotCoalesce(x) == Sql(x # "t")

(***************************************************************************)
(* labelselector.go.  A requirement is [key, op, values].                  *)
(***************************************************************************)
\* metadata->'labels' @> '{key: value}'
LabelValueMatch(r, key, value) ==
    IF DOMAIN r.labels = {} THEN "null"
    ELSE Sql(key \in DOMAIN r.labels /\ r.labels[key] = value)

AnyValueMatches(r, q) == SqlOr({LabelValueMatch(r, q.key, v) : v \in q.values})

\* Mutant: a row without labels is lost to a negative selector.
NegativeClause_Null(r, q) ==
    IF AnyValueMatches(r, q) = "null" THEN "null" ELSE NotCoalesce(AnyValueMatches(r, q))

NegativeClause(r, q) == NotCoalesce(AnyValueMatches(r, q))

\* CASE WHEN the label is a bigint THEN compare ELSE FALSE END
LabelNumericMatch(r, q) ==
    LET bound == (CHOOSE v \in q.values : TRUE).n IN
    Sql(/\ q.key \in DOMAIN r.labels
        /\ r.labels[q.key].int64
        /\ IF q.op = "gt" THEN r.labels[q.key].n > bound ELSE r.labels[q.key].n < bound)

\* metadata->'labels' ? key
HasKey(r, key) == IF DOMAIN r.labels = {} THEN "null" ELSE Sql(key \in DOMAIN r.labels)

LabelClause(r, q) ==
    CASE q.op = "in"     -> AnyValueMatches(r, q)
      [] q.op = "notin"  -> NegativeClause(r, q)
      [] q.op \in {"gt", "lt"} -> LabelNumericMatch(r, q)
      [] q.op = "exists" -> HasKey(r, q.key)
      [] q.op = "absent" -> NotCoalesce(HasKey(r, q.key))

\* The requirements buildLabelSelectorFilter refuses.
LabelRequirementOK(q) ==
    /\ q.op = "in" => q.values # {}
    /\ q.op \in {"gt", "lt"} => Cardinality(q.values) = 1 /\ \A v \in q.values : v.int64

(***************************************************************************)
(* fieldselector.go.  A requirement is [path, op, value]; the empty        *)
(* segment stands for one that validPathSegment refuses.                   *)
(***************************************************************************)
\* The path that jsonbPathToSQL selects, NULL when it is not there.
JsonbPath(r, path) == IF path \in DOMAIN r.json THEN {r.json[path]} ELSE {}

MetadataField(r, path) ==
    CASE path = <<"metadata", "name">>      -> {r.name}
      [] path = <<"metadata", "namespace">> -> {r.ns}
      [] path = <<"metadata", "uid">>       -> {r.uid}
      [] OTHER                              -> JsonbPath(r, path)

FieldPathOK(path) == /\ Len(path) >= 2
                     /\ path[1] \in {"metadata", "spec", "status"}
                     /\ \A i \in 2 .. Len(path) : path[i] # ""

SelectionOpOK(op) == op \in {"=", "!="}

FieldRequirementOK(q) == SelectionOpOK(q.op) /\ FieldPathOK(q.path)

FieldClause(r, q) ==
    LET column == IF q.path[1] = "metadata" THEN MetadataField(r, q.path) ELSE JsonbPath(r, q.path) IN
    IF column = {} THEN "null"
    ELSE Sql(IF q.op = "=" THEN column = {q.value} ELSE column # {q.value})

(***************************************************************************)
(* List.  opts is [ns, fields, labels, nothing, limit, continue]: ns is    *)
(* <<>> for all namespaces, nothing says that the label selector is        *)
(* labels.Nothing(), continue is the set of the token, whose content is    *)
(* the offset.                                                             *)
(***************************************************************************)
DecodeContinue(token) == IF token = {} THEN 0 ELSE CHOOSE o \in token : TRUE
EncodeContinue(offset) == {offset}

ListFilterOK(opts) == /\ \A q \in opts.fields : FieldRequirementOK(q)
                      /\ \A q \in opts.labels : LabelRequirementOK(q)

Where(r, opts) == /\ opts.ns # <<>> => r.ns = opts.ns
                  /\ \A q \in opts.fields : FieldClause(r, q) = "t"
                  /\ ~opts.nothing
                  /\ \A q \in opts.labels : LabelClause(r, q) = "t"

\* deletion_timestamp IS NULL OR metadata->'finalizers' != '[]'
NotTombstone(r) == ~r.del \/ r.fin = "some"

\* reader.List, with LIMIT and OFFSET.
ReaderList(t, gvk, opts) ==
    LET Keep(r) == r.gvk = gvk /\ NotTombstone(r) /\ Where(r, opts)
        all     == SelectSeq(t, Keep)
        offset  == IF opts.limit > 0 THEN DecodeContinue(opts.continue) ELSE 0
        end     == offset + opts.limit
    IN  IF opts.limit = 0 THEN all
        ELSE SubSeq(all, offset + 1, IF end < Len(all) THEN end ELSE Len(all))

\* Mutant: the next page starts after the item that follows this one.
NextToken_SkipsOne(opts, rows) ==
    IF opts.limit > 0 /\ Len(rows) = opts.limit
    THEN EncodeContinue(DecodeContinue(opts.continue) + opts.limit + 1)
    ELSE {}

\* A page that is full has a continue token.
NextToken(opts, rows) ==
    IF opts.limit > 0 /\ Len(rows) = opts.limit
    THEN EncodeContinue(DecodeContinue(opts.continue) + opts.limit)
    ELSE {}

\* pgClient.List; pgCache.List reads the table in the same way.
ClientList(t, gvk, opts) ==
    IF ListFilterOK(opts)
    THEN {[items |-> ReaderList(t, gvk, opts), next |-> NextToken(opts, ReaderList(t, gvk, opts))]}
    ELSE {}

CacheList(t, gvk, opts) == ClientList(t, gvk, opts)

\* hasFinalizers and isFullyDeleted, on the decoded metadata.
IsFullyDeleted(r) == r.del /\ r.fin # "some"

\* pgClient.Get; pgCache.Get reads the table in the same way.
ClientGet(t, gvk, ns, name) ==
    {r \in ToSet(t) : r.gvk = gvk /\ r.ns = ns /\ r.name = name /\ ~IsFullyDeleted(r)}

CacheGet(t, gvk, ns, name) == ClientGet(t, gvk, ns, name)

(***************************************************************************)
(* clients/seaplanedb: an account sees the namespace account-<id>.         *)
(***************************************************************************)
Everything == [ns |-> <<>>, fields |-> {}, labels |-> {}, nothing |-> FALSE,
               limit |-> 0, continue |-> {}]

AccountNamespace(account) == <<"account", account>>

InAccount(account) == [Everything EXCEPT !.ns = AccountNamespace(account)]

ListItems(t, gvk, opts) == UNION {ToSet(l.items) : l \in ClientList(t, gvk, opts)}

ListOf(t, gvk, opts) == (CHOOSE l \in ClientList(t, gvk, opts) : TRUE).items

ListClusters(t, account) == ListOf(t, "Cluster", InAccount(account))
ListOidcConfigs(t, account) == ListOf(t, "OidcConfig", InAccount(account))
ListDNSReservations(t, account) == ListOf(t, "DNSReservation", InAccount(account))

\* Mutant: the filter replaces the namespace.
ListNodePools_UIDOnly(t, account, clusterUID) ==
    ListOf(t, "NodePool",
           IF clusterUID = "" THEN InAccount(account)
           ELSE [Everything EXCEPT !.labels = {[key |-> "cluster-uid", op |-> "in",
                                               values |-> {[text |-> clusterUID, int64 |-> FALSE, n |-> 0]}]}])

ListNodePools(t, account, clusterUID) ==
    ListOf(t, "NodePool",
           IF clusterUID = "" THEN InAccount(account)
           ELSE [InAccount(account) EXCEPT
                   !.labels = {[key |-> "cluster-uid", op |-> "in",
                                values |-> {[text |-> clusterUID, int64 |-> FALSE, n |-> 0]}]}])

GetCluster(t, account, name) == ClientGet(t, "Cluster", AccountNamespace(account), name)
GetNodePool(t, account, name) == ClientGet(t, "NodePool", AccountNamespace(account), name)
GetOidcConfig(t, account, name) == ClientGet(t, "OidcConfig", AccountNamespace(account), name)
GetDNSReservation(t, account, name) == ClientGet(t, "DNSReservation", AccountNamespace(account), name)

\* The first of the rows with this UID.
ByUID(t, gvk, account, uid) ==
    LET found == ListOf(t, gvk, [InAccount(account) EXCEPT
                    !.fields = {[path |-> <<"metadata", "uid">>, op |-> "=", value |-> uid]}])
    IN  IF found = <<>> THEN {} ELSE {found[1]}

GetOidcConfigByUID(t, account, uid) == ByUID(t, "OidcConfig", account, uid)
GetDNSReservationByUID(t, account, uid) == ByUID(t, "DNSReservation", account, uid)

(***************************************************************************)
(* The handlers.  A query parameter is the set of its number: empty when   *)
(* it is missing or no number.                                             *)
(***************************************************************************)
DefaultLimit == 50
MaxLimit == 100

ParsePositiveInt(p) == IF \E n \in p : 0 < n /\ n <= MaxLimit THEN CHOOSE n \in p : TRUE ELSE DefaultLimit
ParseNonNegativeInt(p) == IF \E n \in p : n >= 0 THEN CHOOSE n \in p : TRUE ELSE 0

\* What the four list handlers return of the items they have read.
Page(items, limit, offset) ==
    [items |-> IF offset >= Len(items) THEN <<>>
               ELSE SubSeq(items, offset + 1,
                           IF offset + limit < Len(items) THEN offset + limit ELSE Len(items)),
     total |-> Len(items)]

ClusterList(t, account, q) ==
    Page(ListClusters(t, account), ParsePositiveInt(q.limit), ParseNonNegativeInt(q.offset))
OidcConfigList(t, account, q) ==
    Page(ListOidcConfigs(t, account), ParsePositiveInt(q.limit), ParseNonNegativeInt(q.offset))
DNSReservationList(t, account, q) ==
    Page(ListDNSReservations(t, account), ParsePositiveInt(q.limit), ParseNonNegativeInt(q.offset))

\* The parent Cluster that a list of NodePools names: clusterUID, clusterId or a
\* selector (the set of its requirements; {} for none), which must agree.  "bad"
\* is a text that is no UID.
ListClusterUID(q) ==
    LET named == {q.clusterUID, q.clusterId} \ {""}
        selected == {v.text : v \in UNION {x.values : x \in q.selector}}
    IN  IF \/ Cardinality(named) > 1
           \/ q.selector # {} /\ ~(/\ Cardinality(q.selector) = 1
                                   /\ \A x \in q.selector : /\ x.key = "cluster-uid" /\ x.op = "in"
                                                            /\ Cardinality(x.values) = 1)
           \/ Cardinality(named \cup selected) > 1
           \/ "bad" \in named \cup selected
        THEN {}
        ELSE IF named \cup selected = {} THEN {""} ELSE named \cup selected

NodePoolList(t, account, q) ==
    {Page(ListNodePools(t, account, uid), ParsePositiveInt(q.limit), ParseNonNegativeInt(q.offset)) :
        uid \in ListClusterUID(q)}

\* nodePoolResource: a pool whose owner is not the current Cluster of that name
\* reads as not found.  owner is the set of the controller reference.
CurrentParent(t, account, np) ==
    {c \in UNION {GetCluster(t, account, o.name) : o \in np.owner} :
        \E o \in np.owner : /\ o.uid = c.uid
                            /\ "cluster-uid" \in DOMAIN np.labels
                            /\ np.labels["cluster-uid"].text = o.uid}

\* The objects the get handlers answer with once the caller is authorized.
ClusterGet(t, account, name) == GetCluster(t, account, name)
OidcConfigGet(t, account, name) == GetOidcConfig(t, account, name)
DNSReservationGet(t, account, name) == GetDNSReservation(t, account, name)

NodePoolGet(t, account, name) ==
    {np \in GetNodePool(t, account, name) : CurrentParent(t, account, np) # {}}

-----------------------------------------------------------------------------
(* Kubernetes' own meaning of a label requirement: labels.Requirement.Matches. *)
K8sMatches(r, q) ==
    LET has == q.key \in DOMAIN r.labels IN
    CASE q.op = "in"     -> has /\ r.labels[q.key] \in q.values
      [] q.op = "notin"  -> ~has \/ r.labels[q.key] \notin q.values
      [] q.op = "exists" -> has
      [] q.op = "absent" -> ~has
      [] q.op = "gt"     -> has /\ r.labels[q.key].int64 /\ \E v \in q.values : r.labels[q.key].n > v.n
      [] q.op = "lt"     -> has /\ r.labels[q.key].int64 /\ \E v \in q.values : r.labels[q.key].n < v.n

\* A label selector selects in SQL the rows it selects in Kubernetes
\* (RESOURCE_IDENTITY_IMPLEMENTATION_PLAN.md:172).
SelectsAsKubernetes(r, q) ==
    LabelRequirementOK(q) => (LabelClause(r, q) = "t" <=> K8sMatches(r, q))

\* All pages of a list, one token after the other.
Pages(t, gvk, opts) ==
    LET from[offset \in Nat] ==
            LET page == CHOOSE l \in ClientList(t, gvk, [opts EXCEPT !.continue = EncodeContinue(offset)]) : TRUE
            IN  IF page.next = {} THEN page.items
                ELSE page.items \o from[DecodeContinue(page.next)]
    IN  from[0]

\* Reading a table page by page, whatever the page size, is reading it whole; and
\* when a row is written between two pages (moves to the end, or is no longer
\* listed), only a row of the first page makes the second one skip a row.
PagesCover(t, gvk, limit) ==
    LET opts   == [Everything EXCEPT !.limit = limit]
        first  == ListItems(t, gvk, opts)
        second(u) == ListItems(u, gvk, [opts EXCEPT !.continue = EncodeContinue(limit)])
    IN  /\ Pages(t, gvk, opts) = ListOf(t, gvk, Everything)
        /\ limit >= Len(t) - limit =>
             \A i \in DOMAIN t :
                LET moved == Append(RemoveAt(t, i), t[i])
                    gone  == RemoveAt(t, i)
                IN  t[i] \notin first =>
                      /\ ListItems(moved, gvk, Everything) \subseteq first \cup second(moved)
                      /\ ListItems(gone, gvk, Everything) \subseteq first \cup second(gone)

\* The list and the get handler of a kind that has no parent.
ListHandler(t, gvk, account, q) ==
    CASE gvk = "Cluster"        -> ClusterList(t, account, q)
      [] gvk = "OidcConfig"     -> OidcConfigList(t, account, q)
      [] gvk = "DNSReservation" -> DNSReservationList(t, account, q)

GetHandler(t, gvk, account, name) ==
    CASE gvk = "Cluster"        -> ClusterGet(t, account, name)
      [] gvk = "OidcConfig"     -> OidcConfigGet(t, account, name)
      [] gvk = "DNSReservation" -> DNSReservationGet(t, account, name)

\* An account is shown what is its own: every list and get handler answers with
\* rows of the caller's namespace that are not fully deleted, with all of them
\* across the pages, and a lookup by UID finds the one incarnation that has it.
\* A NodePool is served only under the Cluster incarnation it was created for.
OwnAndOnlyOwn(t, account, q) ==
    LET mine(gvk) == {r \in ToSet(t) : r.gvk = gvk /\ r.ns = AccountNamespace(account)
                                       /\ ~(r.del /\ r.fin = "absent")}
        names == {r.name : r \in ToSet(t)}
        one(o) == [q EXCEPT !.limit = {1}, !.offset = {o}]
    IN  /\ \A gvk \in {"Cluster", "OidcConfig", "DNSReservation"} :
              /\ ToSet(ListHandler(t, gvk, account, q).items) \subseteq mine(gvk)
              /\ ListHandler(t, gvk, account, q).total = Cardinality(mine(gvk))
              /\ UNION {ToSet(ListHandler(t, gvk, account, one(o)).items) : o \in 0 .. Len(t)} = mine(gvk)
              /\ UNION {GetHandler(t, gvk, account, n) : n \in names} = mine(gvk)
        /\ \A l \in NodePoolList(t, account, q) :
              /\ ToSet(l.items) \subseteq mine("NodePool")
              /\ \A np \in mine("NodePool") :
                    (q.clusterUID = "" /\ q.clusterId = "" /\ q.selector = {}) =>
                        np \in ToSet(l.items) \/ l.total > Len(l.items)
        /\ \A n \in names : \A np \in NodePoolGet(t, account, n) :
              /\ np \in mine("NodePool")
              /\ \E c \in mine("Cluster") : \E o \in np.owner : c.uid = o.uid
        /\ \A r \in ToSet(t) :
              /\ GetOidcConfigByUID(t, account, r.uid) = mine("OidcConfig") \cap {r}
              /\ GetDNSReservationByUID(t, account, r.uid) = mine("DNSReservation") \cap {r}
=============================================================================
