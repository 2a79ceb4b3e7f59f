----------------------------- MODULE MCRequests -----------------------------
(* What one request of the API goes through, and what the operator makes of    *)
(* it, on small instances.  A behaviour is about one part: the claims of a     *)
(* create request (Claims, with fairness), the desires of a Cluster that       *)
(* changes (RenderedSet), or a single evaluation of one of the pure parts for  *)
(* any of its inputs: the authorization decision (Authorizer), a read (Reads)  *)
(* or a write (Rows), the checks of a request (FieldRules, RequestChecks), or  *)
(* a render (Rendering).                                                       *)
EXTENDS Claims, MCInputs

VARIABLES part, input, obj, external, rec, desires, target, dropped

Auth == INSTANCE Authorizer
R == INSTANCE Reads
W == INSTANCE Rows
F == INSTANCE FieldRules WITH Registry <- MCRegistry, Kind <- MCKind, Canonical <- MCCanonical,
                              GateStage <- MCGateStage, ResetMaps <- {<<"tags">>}, Bundle <- MCBundle
G == INSTANCE RenderedSet WITH Followed <- {"hostedclusters", "additional-trust-bundle", "oidc-signing-key"},
                               Patches <- {{}, {""}, {"pem"}}

\* A request refers to either resource, both or none.
AnyDemands == [Requests -> SUBSET Kinds]

-----------------------------------------------------------------------------
(* Authorization: two policies, each attached to one principal.  A session of  *)
(* role dev, a user, and roles that differ in their path.                      *)

Arn(service, kind, account, path) ==
    [partition |-> "aws", service |-> service, region |-> "", account |-> account,
     kind |-> kind, path |-> path]

User == Arn("iam", "user", "a1", <<"ann">>)
Role == Arn("iam", "role", "a1", <<"dev">>)
RoleUnder == Arn("iam", "role", "a1", <<"team", "dev">>)
Session == Arn("sts", "assumed-role", "a1", <<"dev", "s1">>)

Policy(id, effect, slot, cond) ==
    [id |-> id, owner |-> "a1",
     content |-> [effect |-> effect, actions |-> {"DescribeCluster"}, slot |-> slot, cond |-> cond, valid |-> TRUE]]

Attachment(id, policy, arn, where) ==
    [id |-> id, policy |-> policy, arn |-> arn,
     scope |-> IF where = "" THEN "global" ELSE "regional", region |-> where]

Targets == {<<arn, where>> : arn \in {User, Role, RoleUnder}, where \in {"", "r1", "r2"}}

Bundles ==
    {[accounts    |-> <<"a1">>,
      policies    |-> <<Policy("p1", "permit", s, c), Policy("p2", e, "in", d)>>,
      attachments |-> <<Attachment("t1", "p1", x[1], x[2]), Attachment("t2", "p2", y[1], y[2])>>] :
        s \in {"none", "in", "=="}, c \in {"true", "hasTag"},
        e \in {"permit", "forbid"}, d \in {"true", "hasTag", "getTag"}, x \in Targets, y \in Targets}

TheCluster(account, tags) ==
    [kind |-> "Cluster", collection |-> "", id |-> "c1", account |-> account, label |-> account,
     tags |-> tags, parent |-> {}]

Decisions ==
    {[kind |-> "authz", bundle |-> b, res |-> r,
      id |-> [account |-> "a1", arn |-> w, allowlisted |-> FALSE]] :
        b \in Bundles, w \in {User, Session},
        r \in {TheCluster("a1", {"Team"}), TheCluster("a1", {}), TheCluster("a2", {"Team"})}}

-----------------------------------------------------------------------------
(* Reads. *)

Text(t) == [text |-> t, int64 |-> FALSE, n |-> 0]
Int64(t, n) == [text |-> t, int64 |-> TRUE, n |-> n]

\* "huge" is all digits and beyond int64.
LabelValues == {Text("a"), Text("huge"), Int64("5", 5), Int64("7", 7)}

LabelSets == {[k \in {} |-> Text("a")]}
             \cup {("k" :> v) : v \in LabelValues}
             \cup {("other" :> v) : v \in LabelValues}
             \cup {("k" :> v @@ "other" :> Text("a")) : v \in LabelValues}

Requirements == {[key |-> "k", op |-> o, values |-> vs] :
                    o \in {"in", "notin", "exists", "absent", "gt", "lt"}, vs \in SUBSET LabelValues}

Selections == {[kind |-> "select", labels |-> l, req |-> q] : l \in LabelSets, q \in Requirements}

Row(gvk, account, name, uid, state, owner) ==
    [gvk |-> gvk, ns |-> <<"account", account>>, name |-> name, uid |-> uid,
     del |-> state # "live", fin |-> IF state = "tombstone" THEN "absent" ELSE "some",
     labels |-> IF owner = {} THEN [k \in {} |-> Text("a")]
                ELSE "cluster-uid" :> Text((CHOOSE o \in owner : TRUE).uid),
     json |-> [p \in {} |-> ""], owner |-> owner]

States == {"live", "dying", "tombstone"}

\* One row for each name: a Cluster of each account and a second one of a1, and a
\* NodePool whose Cluster may have been deleted and created again.
Tables == {<<Row("Cluster", "a1", "c", "u1", s[1], {}), Row("Cluster", x, "d", "u2", s[2], {}),
             Row("NodePool", y, "c.np", "u3", s[3], {[name |-> "c", uid |-> o]}),
             Row(g, x, "e", "u4", s[2], {})>> :
             s \in States \X States \X States, x \in {"a1", "a2"}, y \in {"a1", "a2"},
             o \in {"u0", "u1"}, g \in {"Cluster", "OidcConfig", "DNSReservation"}}

Queries == {[limit |-> l, offset |-> o, clusterUID |-> u, clusterId |-> "", selector |-> s] :
              l \in {{}, {0}, {1}, {101}}, o \in {{}, {1}}, u \in {"", "u1"},
              s \in {{}, {[key |-> "cluster-uid", op |-> "in", values |-> {Text("u0")}]}}}

Lists == {[kind |-> "list", table |-> t, query |-> q] : t \in Tables, q \in Queries}

Pagings == {[kind |-> "pages", table |-> t, limit |-> n] : t \in Tables, n \in 1 .. 3}

-----------------------------------------------------------------------------
(* Writes. *)

Spec1(v) == "f" :> v
Metas == {"generation" :> "1", "finalizers" :> "x" @@ "generation" :> "1"}

StoredRow(v, m, d) == [uid |-> "u1", version |-> v, spec |-> Spec1("a"), status |-> Spec1("a"),
                       meta |-> m, del |-> d]

Rowss == {{}} \cup {{StoredRow(v, m, d)} : v \in 1 .. 2, m \in Metas, d \in {{}, {1}}}

WriteRequests ==
    {[op |-> o, version |-> v, uid |-> u, force |-> f, spec |-> Spec1(s), meta |-> m, del |-> d,
      status |-> t] :
        o \in {"write"}, v \in 0 .. 2, u \in {{}, {"u1"}, {"u2"}}, f \in BOOLEAN, s \in {"a", "b"},
        m \in Metas, d \in {{}, {1}}, t \in {{}, {Spec1("a")}, {Spec1("b")}}}

\* WriteObject has no status, WriteStatus nothing else.
AsObject(q) == [q EXCEPT !.op = "object", !.status = {}]
AsStatus(q, t) == [q EXCEPT !.op = "status", !.status = {Spec1(t)}]

Writes == {[kind |-> "write", rows |-> r, req |-> q] :
             r \in Rowss, q \in WriteRequests \cup {AsObject(q) : q \in WriteRequests}
                                \cup {AsStatus(q, t) : q \in WriteRequests, t \in {"a", "b"}}}

Optional(keys, v) == {[x \in S |-> v] : S \in SUBSET keys}

Objects == {[name |-> "n", ns |-> "s", uid |-> "", rv |-> [form |-> "empty", object |-> {}, mark |-> {}],
             del |-> d, meta |-> m, spec |-> s, status |-> t] :
              d \in {{}, {1}}, m \in Optional({"labels", "finalizers", "generation", "managedFields"}, "m"),
              s \in Optional({"f", "g"}, "s"), t \in Optional({"f"}, "t")}

Conversions == {[kind |-> "convert", obj |-> o, used |-> u, mark |-> w] :
                  o \in Objects, u \in {x \in Objects : x.del = {} /\ DOMAIN x.status = {}}, w \in {0, 9}}

Versions == {[kind |-> "version", rv |-> [object |-> o, mark |-> w]] : o \in 0 .. 3, w \in 0 .. 3}

-----------------------------------------------------------------------------
(* Renders. *)

IssuerOf(oidc) == IF oidc = "" THEN G!ManagedIssuerURL(<<"https:", "", "issuer", "">>, "u1")
                ELSE <<"https:", "", "issuer", "i1">>

Renders ==
    {[kind |-> "render", external |-> x,
      cluster |-> ACluster(u, hc, b, oidc, Tagged(1, 2, "c", {}), Hosted(<<>>, <<>>, <<>>, IssuerOf(oidc)))] :
        x \in BOOLEAN, u \in {"", "u1"}, hc \in {"", G!Pending, "hc-x"}, b \in {{}, {""}, {"pem"}}, oidc \in {"", "o1"}}

PoolRenders ==
    {[kind |-> "pool", pool |-> np,
      cluster |-> ACluster("u1", "hc-x", {}, "", Tagged(1, n, "c", s), Hosted(<<>>, <<>>, <<>>, <<>>))] :
        np \in NodePools, n \in {0, 22, 23, 24}, s \in SystemKeys}

-----------------------------------------------------------------------------
NoInput == [kind |-> "none"]

RequestsInit == /\ part \in {"claims", "desires", "pure"}
                /\ Init
                /\ part # "claims" => wants = [q \in Requests |-> {}]
                /\ G!RInit
                /\ part # "desires" => obj.bundle = {} /\ obj.hcName = G!Pending /\ external
                /\ input = NoInput

DesireVars == <<obj, external, rec, desires, target, dropped>>
OtherVars == <<part, input, DesireVars>>

ClaimsPart == part = "claims" /\ Next /\ UNCHANGED OtherVars

DesiresPart == part = "desires" /\ G!RNext /\ UNCHANGED <<part, input, vars>>

\* One evaluation.
Evaluate(Inputs) == /\ part = "pure" /\ input = NoInput
                    /\ input' \in Inputs
                    /\ UNCHANGED <<part, vars, DesireVars>>

Decide == Evaluate(Decisions)
Read == Evaluate(Selections \cup Lists \cup Pagings)
Write == Evaluate(Writes \cup Conversions \cup Versions)
Validate == Evaluate(Updates \cup Echoes \cup Creates \cup Networks \cup Issuers \cup Names)
Generate == Evaluate(Renders \cup PoolRenders)

RequestsNext == ClaimsPart \/ DesiresPart \/ Decide \/ Read \/ Write \/ Validate \/ Generate

\* The fairness of Claims!FairSpec.
RequestsSpec ==
    /\ RequestsInit /\ [][RequestsNext]_<<OtherVars, vars>>
    /\ \A q \in Requests : /\ WF_vars(part = "claims" /\ Request(q) /\ UNCHANGED OtherVars)
                           /\ WF_vars(part = "claims" /\ Controller(q) /\ UNCHANGED OtherVars)
                           /\ WF_vars(part = "claims" /\ Elsewhere(q) /\ UNCHANGED OtherVars)
                           /\ SF_vars(part = "claims" /\ Age(q) /\ UNCHANGED OtherVars)

-----------------------------------------------------------------------------
\* Authorizer: an allow is backed by the bundle, for every caller and resource.
DecisionsSound ==
    input.kind = "authz" => Auth!DecisionSound(input.bundle, input.id, "r1", "DescribeCluster", input.res)

\* Reads and Rows: selectors mean what Kubernetes says, pages cover the table, an
\* account is shown its own objects and no others, objects and versions survive
\* storage, and the two implementations of a write agree.
StoreSound ==
    CASE input.kind = "select"  -> R!SelectsAsKubernetes([labels |-> input.labels], input.req)
      [] input.kind = "list"    -> R!OwnAndOnlyOwn(input.table, "a1", input.query)
      [] input.kind = "pages"   -> R!PagesCover(input.table, "Cluster", input.limit)
      [] input.kind = "write"   -> W!PathsAgree(input.rows, input.req, "u9")
      [] input.kind = "convert" -> W!ReadsBack(input.obj, input.used, input.mark)
      [] input.kind = "version" -> W!RVReadsBack(input.rv)
      [] OTHER -> TRUE


=============================================================================
