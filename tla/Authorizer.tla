------------------------------ MODULE Authorizer ------------------------------
(***************************************************************************)
(* The pure half of seaplane-api/pkg/authz: principals, the startup        *)
(* bundle, the policies selected for one request, and one decision.        *)
(*                                                                         *)
(* An operator that may return an error in the code returns here a set:    *)
(* empty for the error, a singleton for the result.  A policy text is      *)
(* abstracted to what a decision can tell apart: its effect, the actions   *)
(* of its scope ({} for all), its principal slot, its condition on the     *)
(* resource's labels, and whether it passes the schema.                    *)
(***************************************************************************)
EXTENDS Naturals, Sequences, FiniteSets, SequencesExt

\* accountPattern, regionPattern, idPattern, namePattern: the empty string
\* stands for every text that the pattern refuses.
Matches(text) == text # ""

(***************************************************************************)
(* arn.go.  An ARN is the record of its parts; path is what follows the    *)
(* kind in the resource part.                                              *)
(***************************************************************************)
PathOK(a) ==
    \/ /\ a.service = "iam"
       /\ a.kind \in {"user", "role"}
       /\ \A i \in DOMAIN a.path : Matches(a.path[i]) /\ a.path[i] \notin {".", ".."}
    \/ /\ a.service = "sts"
       /\ a.kind = "assumed-role"
       /\ Len(a.path) = 2
       /\ \A i \in DOMAIN a.path : Matches(a.path[i])

RoleName(a) ==
    CASE a.kind = "role"         -> Last(a.path)
      [] a.kind = "assumed-role" -> a.path[1]
      [] OTHER                   -> ""

ParsePrincipal(a) ==
    IF /\ a.partition = "aws"
       /\ a.region = ""
       /\ Matches(a.account)
       /\ a.path # <<>>
       /\ PathOK(a)
    THEN {[account |-> a.account, kind |-> a.kind, roleName |-> RoleName(a), arn |-> a]}
    ELSE {}

CheckedIdentity(id) ==
    {p \in ParsePrincipal(id.arn) : p.account = id.account /\ p.kind # "role"}

\* The partition is always "aws" once parsed; the path of the role is left out.
RoleAlias(p) == <<p.account, p.roleName>>

\* addRoleAlias over all the role principals of a list never meets a conflict.
AliasesUnambiguous(principals) ==
    \A p, q \in {r \in principals : r.kind = "role"} :
        RoleAlias(p) = RoleAlias(q) => p.arn = q.arn

MatchesPrincipal(target, caller) ==
    \/ target.arn = caller.arn
    \/ target.kind = "role" /\ caller.kind = "assumed-role" /\ RoleAlias(target) = RoleAlias(caller)

CheckedScope(scope, region) ==
    (scope = "global" /\ region = "") \/ (scope = "regional" /\ Matches(region))

AppliesInRegion(scope, attachmentRegion, requestRegion) ==
    scope = "global" \/ (scope = "regional" /\ attachmentRegion = requestRegion)

(***************************************************************************)
(* actions.go: the kind of resource an action is about, and the actions    *)
(* that are about a collection.                                            *)
(***************************************************************************)
KindActions ==
    [Policy             |-> {"CreatePolicy", "ListPolicies", "DescribePolicy", "UpdatePolicy", "DeletePolicy"},
     Attachment         |-> {"CreateAttachment", "ListAttachments", "DeleteAttachment"},
     RegionalAttachment |-> {"CreateAttachmentRegional", "ListAttachmentsRegional", "DeleteAttachmentRegional"},
     Cluster            |-> {"ListClusters", "DescribeCluster", "CreateCluster", "UpdateCluster",
                             "UpdateClusterConfig", "UpdateClusterVersion", "DeleteCluster"},
     NodePool           |-> {"ListNodePools", "DescribeNodePool", "CreateNodePool", "UpdateNodePool",
                             "ScaleNodePool", "UpdateNodePoolVersion", "DeleteNodePool"},
     OIDCConfig         |-> {"ListOIDCConfigs", "DescribeOIDCConfig", "CreateOIDCConfig", "DeleteOIDCConfig"},
     DNSReservation     |-> {"ListDNSReservations", "DescribeDNSReservation", "CreateDNSReservation",
                             "DeleteDNSReservation"}]

LabelActions == {"ListLabelsForResource", "LabelResource", "UnlabelResource"}

Labelled == {"Cluster", "NodePool", "OIDCConfig", "DNSReservation"}

ActionResourceKind(action, res) ==
    IF action \in LabelActions
    THEN {res.kind} \cap Labelled
    ELSE {k \in DOMAIN KindActions : action \in KindActions[k]}

ListAction(action) ==
    action \in {"ListClusters", "ListNodePools", "ListOIDCConfigs", "ListDNSReservations",
                "CreatePolicy", "ListPolicies", "CreateAttachment", "ListAttachments",
                "CreateAttachmentRegional", "ListAttachmentsRegional"}

(***************************************************************************)
(* config.go: the startup bundle is refused whole when any record of it,   *)
(* off-region and unattached ones included, is wrong.                      *)
(***************************************************************************)
Distinct(s) == \A i, j \in DOMAIN s : s[i].id = s[j].id => i = j

BundleOK(b) ==
    /\ \A i, j \in DOMAIN b.accounts : b.accounts[i] = b.accounts[j] => i = j
    /\ \A i \in DOMAIN b.accounts : Matches(b.accounts[i])
    /\ Distinct(b.policies)
    /\ \A i \in DOMAIN b.policies :
           Matches(b.policies[i].id) /\ Matches(b.policies[i].owner) /\ b.policies[i].content.valid
    /\ Distinct(b.attachments)
    /\ \A i \in DOMAIN b.attachments :
           LET at == b.attachments[i] IN
           /\ Matches(at.id)
           /\ \E j \in DOMAIN b.policies :
                  /\ b.policies[j].id = at.policy
                  /\ \E p \in ParsePrincipal(at.arn) : p.account = b.policies[j].owner
           /\ CheckedScope(at.scope, at.region)
    /\ AliasesUnambiguous(UNION {ParsePrincipal(b.attachments[i].arn) : i \in DOMAIN b.attachments})

\* The Authorizer of a bundle: its attachments, each with its compiled policy.
LoadConfig(b) ==
    IF BundleOK(b)
    THEN {{[id |-> at.id, scope |-> at.scope, region |-> at.region,
            content |-> (CHOOSE p \in ToSet(b.policies) : p.id = at.policy).content,
            principal |-> CHOOSE p \in ParsePrincipal(at.arn) : TRUE] : at \in ToSet(b.attachments)}}
    ELSE {}

\* management_config.go: the administrators of an account's configuration.
ManagementConfigOK(cfg) ==
    /\ Cardinality(ToSet(cfg.tables)) = Len(cfg.tables)
    /\ \A i \in DOMAIN cfg.tables : Matches(cfg.tables[i])
    /\ Matches(cfg.account) /\ Matches(cfg.writer)
    /\ \A i, j \in DOMAIN cfg.administrators : cfg.administrators[i] = cfg.administrators[j] => i = j
    /\ \A i \in DOMAIN cfg.administrators :
           \E p \in ParsePrincipal(cfg.administrators[i]) : p.account = cfg.account
    /\ AliasesUnambiguous(UNION {ParsePrincipal(a) : a \in ToSet(cfg.administrators)})

(***************************************************************************)
(* authorizer.go.  Prepare freezes the attachments that apply to a caller  *)
(* in this region; the roles among them become the caller's parents.       *)
(***************************************************************************)
AllowAll == [effect |-> "permit", actions |-> {}, slot |-> "none", cond |-> "true", valid |-> TRUE]

Prepare(bindings, id, region) ==
    {[account  |-> id.account,
      arn      |-> id.arn,
      region   |-> region,
      roles    |-> {b.principal.arn : b \in
                       {x \in bindings : /\ MatchesPrincipal(x.principal, caller)
                                         /\ AppliesInRegion(x.scope, x.region, region)
                                         /\ x.principal.kind = "role"}},
      policies |-> {[id |-> b.id, content |-> b.content, target |-> b.principal] : b \in
                       {x \in bindings : /\ MatchesPrincipal(x.principal, caller)
                                         /\ AppliesInRegion(x.scope, x.region, region)}}
                   \cup (IF id.allowlisted
                         THEN {[id |-> "allowlist", content |-> AllowAll, target |-> caller]}
                         ELSE {})] : caller \in CheckedIdentity(id)}

\* A resource as the handlers describe it: label is its account label ("" when
\* it has none), tags its other labels, parent the set of its parent cluster.
OwnedParent(r, res) ==
    /\ Matches(r.id)
    /\ r.account = res.account
    /\ r.label \in {"", r.account}

ResourceOK(prep, action, res) ==
    \E kind \in ActionResourceKind(action, res) :
        /\ res.account = prep.account
        /\ res.label \in {"", res.account}
        /\ res.kind # "NodePool" => res.parent = {}
        /\ IF ListAction(action)
           THEN /\ res.kind = "Collection" /\ res.collection = kind
                /\ res.id = "" /\ res.label = "" /\ res.tags = {} /\ res.parent = {}
           ELSE /\ res.kind = kind /\ res.collection = ""
                /\ Matches(res.id)
                /\ kind = "NodePool" => \E r \in res.parent : OwnedParent(r, res)

(***************************************************************************)
(* External: Cedar.  The scope of a policy covers the request, and its     *)
(* condition then holds, fails, or is an error (getTag of a missing tag).  *)
(* A slot is bound to the principal of the attachment: "==" with a role    *)
(* names the Role entity, which is never the caller itself.                *)
(***************************************************************************)
InScope(p, prep, action) ==
    /\ p.content.actions = {} \/ action \in p.content.actions
    /\ CASE p.content.slot = "none" -> TRUE
         [] p.content.slot = "in"   -> p.target.arn = prep.arn \/ p.target.arn \in prep.roles
         [] p.content.slot = "=="   -> p.target.arn = prep.arn

Condition(p, res) ==
    CASE p.content.cond = "true"   -> "holds"
      [] p.content.cond = "hasTag" -> IF "Team" \in res.tags THEN "holds" ELSE "fails"
      [] p.content.cond = "getTag" -> IF "Team" \in res.tags THEN "holds" ELSE "error"

Applying(prep, action, res, outcome) ==
    {p \in prep.policies : InScope(p, prep, action) /\ Condition(p, res) = outcome}

\* Mutant: a policy that cannot be evaluated is skipped, as Cedar does.
Check_Skips(prep, action, res) ==
    IF ~ResourceOK(prep, action, res)
    THEN "error"
    ELSE LET satisfied == Applying(prep, action, res, "holds") IN
         IF /\ \E p \in satisfied : p.content.effect = "permit"
            /\ \A p \in satisfied : p.content.effect # "forbid"
         THEN "allow"
         ELSE "deny"

\* Check: an evaluation error is never an allow, whatever Cedar decided.
Check(prep, action, res) ==
    IF ~ResourceOK(prep, action, res) \/ Applying(prep, action, res, "error") # {}
    THEN "error"
    ELSE LET satisfied == Applying(prep, action, res, "holds") IN
         IF /\ \E p \in satisfied : p.content.effect = "permit"
            /\ \A p \in satisfied : p.content.effect # "forbid"
         THEN "allow"
         ELSE "deny"

-----------------------------------------------------------------------------
\* The bundle's attachments that speak about a caller, read off the bundle itself:
\* the caller's own ARN or, for a session, the role it was assumed from.
Concerns(at, id, region) ==
    /\ at.scope = "global" \/ at.region = region
    /\ \/ at.arn = id.arn
       \/ /\ at.arn.kind = "role" /\ id.arn.kind = "assumed-role"
          /\ at.arn.account = id.account /\ Last(at.arn.path) = id.arn.path[1]

\* A decision is an allow only when the caller's account owns the resource, some
\* attachment of the bundle that concerns the caller in this region (or the
\* allowlist) permits the action, none forbids it, and every one of them could be
\* evaluated.  A session matches one role of the bundle at most, although its ARN
\* says nothing of the role's path (arn.go).
DecisionSound(b, id, region, action, res) ==
    \A bindings \in LoadConfig(b) : \A prep \in Prepare(bindings, id, region) :
        LET mine == {at \in ToSet(b.attachments) : Concerns(at, id, region)}
            Content(at) == (CHOOSE p \in ToSet(b.policies) : p.id = at.policy).content
            Covers(at) == /\ Content(at).actions = {} \/ action \in Content(at).actions
                          /\ Content(at).slot = "==" => at.arn = id.arn
            Outcome(at) == Condition([content |-> Content(at)], res)
        IN  /\ Cardinality(prep.roles) <= 1
            /\ Check(prep, action, res) = "allow" =>
                 /\ res.account = id.account
                 /\ id.allowlisted \/ \E at \in mine : /\ Covers(at) /\ Outcome(at) = "holds"
                                                       /\ Content(at).effect = "permit"
                 /\ \A at \in mine : Covers(at) =>
                      /\ Outcome(at) # "error"
                      /\ Content(at).effect = "forbid" => Outcome(at) = "fails"
=============================================================================
