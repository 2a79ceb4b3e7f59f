---------------------------- MODULE AuthzManagement ---------------------------
(***************************************************************************)
(* The management API of authz: pkg/handlers/authz_management.go over      *)
(* pkg/authz/management.go over the DynamoDB store (store*.go), for one    *)
(* customer account in several regions.                                    *)
(*                                                                         *)
(* Every region has a copy of the policy table and of the attachment       *)
(* tables.  An attachment is two items, one under the account's key and    *)
(* one under its principal's key.  Global items are written in the         *)
(* account's writer region and reach the others one item at a time.        *)
(* A request that is not from a bootstrap administrator first reads the    *)
(* caller's attachments, one (scope, key) query after another, then the    *)
(* policies they name, decides, and only then runs its operation.          *)
(***************************************************************************)
EXTENDS Authorizer, FiniteSetsExt

CONSTANTS
    Account,          \* the customer account
    Regions, Writer,  \* the regions with a store, and the account's writer region
    Callers,          \* the callers, with Arn[c] the ARN of each
    Arn, Administrators,
    Offered(_, _, _), \* Offered(c, g, r): caller c may send request r in region g
    CustomIds, ManagedIds,    \* policy IDs, by the kind of the reference
    Slots,            \* the attachment IDs that may be minted
    Targets,          \* the ARNs that requests attach policies to
    Contents,         \* policy texts (the records of Authorizer)
    BatchAttempts,    \* loadPolicies: batchAttempts
    OldPolicies,      \* [Refs -> item]: the policy tables that a behaviour may start from
    MaxRevision       \* bound: revisions minted in a behaviour

VARIABLES
    policy,     \* [Regions -> [refs -> item]]: the policy table's copies
    byAccount,  \* [Regions -> [Slots -> item]]: attachments under ACCOUNT#id
    byPrincipal,\* [Regions -> [Slots -> item]]: attachments under the principal's key
    revisions,  \* number of revisions minted (uuid.NewString)
    minted,     \* attachment IDs minted
    req,        \* [Callers -> request in progress]
    window      \* history: what each caller's resolution could have read

vars == <<policy, byAccount, byPrincipal, revisions, minted, req, window>>

Refs == CustomIds \cup ManagedIds
NoItem == [rev |-> 0]
StoreItem(rev, record) == [rev |-> rev] @@ record
Idle == [pc |-> "idle"]
Scopes == {"global", "regional"}

\* The identity of a management request never carries the allowlist bypass.
Identity(c) == [account |-> Account, arn |-> Arn[c], allowlisted |-> FALSE]

IsGlobalMutation(action) ==
    action \in {"CreatePolicy", "UpdatePolicy", "DeletePolicy", "CreateAttachment", "DeleteAttachment"}

IsRegionalAction(action) ==
    action \in {"CreateAttachmentRegional", "ListAttachmentsRegional", "DeleteAttachmentRegional"}

AttachmentAction(scope, global, regional) == IF scope = "global" THEN global ELSE regional

(***************************************************************************)
(* Requests.  A request names its operation and what the client sent; a    *)
(* mutation of a managed policy, a malformed body, type, scope or If-Match *)
(* ends the request before it reads anything, so none is listed here; nor  *)
(* is a revision that is already stale when the request arrives, which     *)
(* can only end in a conflict.                                             *)
(***************************************************************************)
Existing(table, keys) == {k \in keys : table[k] # NoItem}

Requests(g) ==
    [op : {"CreatePolicy"}, ref : CustomIds, content : Contents]
    \cup {[op |-> "UpdatePolicy", ref |-> ref, content |-> x, expected |-> policy[g][ref].rev] :
              ref \in Existing(policy[g], CustomIds), x \in Contents}
    \cup {[op |-> "DeletePolicy", ref |-> ref, expected |-> policy[g][ref].rev] :
              ref \in Existing(policy[g], CustomIds)}
    \cup [op : {"GetPolicy"}, ref : Refs]
    \cup [op : {"ListPolicies"}]
    \cup [op : {"CreateAttachment"}, ref : Refs, arn : Targets, scope : Scopes]
    \cup {[op |-> "DeleteAttachment", slot |-> s, scope |-> byAccount[g][s].scope, expected |-> byAccount[g][s].rev] :
              s \in Existing(byAccount[g], Slots)}
    \cup [op : {"ListAttachments"}, scopes : {{"global"}, {"regional"}, Scopes}]

\* The permissions an operation asks for, one authorization each.
Actions(r) ==
    CASE r.op = "GetPolicy" -> {"DescribePolicy"}
      [] r.op = "CreateAttachment" -> {AttachmentAction(r.scope, "CreateAttachment", "CreateAttachmentRegional")}
      [] r.op = "DeleteAttachment" -> {AttachmentAction(r.scope, "DeleteAttachment", "DeleteAttachmentRegional")}
      [] r.op = "ListAttachments" -> {AttachmentAction(s, "ListAttachments", "ListAttachmentsRegional") : s \in r.scopes}
      [] OTHER -> {r.op}

TargetId(r) == CASE r.op = "DeleteAttachment" -> "attachment"
                 [] r.op \in {"GetPolicy", "UpdatePolicy", "DeletePolicy"} -> "policy"
                 [] OTHER -> ""

\* authorize: the resource that the decision is about.
ManagedResource(action, r) ==
    LET kind == CHOOSE k \in DOMAIN KindActions : action \in KindActions[k] IN
    [kind       |-> IF ListAction(action) THEN "Collection" ELSE kind,
     collection |-> IF ListAction(action) THEN kind ELSE "",
     id         |-> IF ListAction(action) THEN "" ELSE TargetId(r),
     account |-> Account, label |-> "", tags |-> {}, parent |-> {}]

IsAdministrator(c) ==
    \E a \in Administrators : \E p \in ParsePrincipal(a), me \in CheckedIdentity(Identity(c)) :
        MatchesPrincipal(p, me)

(***************************************************************************)
(* store_attachments.go, store_lookup.go.                                  *)
(***************************************************************************)
PrincipalKey(p) ==
    IF p.kind = "role" THEN <<"ROLE", RoleAlias(p)>> ELSE <<"EXACT", p.arn>>

CheckAttachment(b, g) ==
    /\ \E p \in ParsePrincipal(b.arn) : p.account = Account
    /\ CheckedScope(b.scope, b.region)
    /\ b.scope = "regional" => b.region = g

\* The attachments that a query of one scope and key returns in region g.
ReadBindings(g, scope, key) ==
    {s \in Slots : /\ byPrincipal[g][s] # NoItem
                   /\ byPrincipal[g][s].scope = scope
                   /\ \E p \in ParsePrincipal(byPrincipal[g][s].arn) : PrincipalKey(p) = key}

(***************************************************************************)
(* authorize.  queries lists what is still to read, found the attachments  *)
(* read, loaded the policies read (NoItem for one that is missing).        *)
(***************************************************************************)
ResolvedScopes(action) == <<"global">> \o (IF IsRegionalAction(action) THEN <<"regional">> ELSE <<>>)

\* Mutant of Queries: a session is looked up under its own ARN only.
Queries_ExactOnly(c, action) ==
    LET me == CHOOSE p \in ParsePrincipal(Arn[c]) : TRUE
    IN [i \in DOMAIN ResolvedScopes(action) |-> <<ResolvedScopes(action)[i], PrincipalKey(me)>>]

\* resolveScopes: for each scope, the exact key and then the role's.
Queries(c, action) ==
    LET me   == CHOOSE p \in ParsePrincipal(Arn[c]) : TRUE
        keys == <<PrincipalKey(me)>> \o
                (IF me.kind = "assumed-role" THEN <<<<"ROLE", RoleAlias(me)>>>> ELSE <<>>)
        on(scope) == [i \in DOMAIN keys |-> <<scope, keys[i]>>]
    IN FlattenSeq([i \in DOMAIN ResolvedScopes(action) |-> on(ResolvedScopes(action)[i])])

\* The request after the permissions in todo are left to authorize.
Authorizing(c, g, r, todo) ==
    IF todo = {} \/ IsAdministrator(c)
    THEN [pc |-> "act", g |-> g, r |-> r]
    ELSE LET action == CHOOSE a \in todo : IsRegionalAction(a) => \A b \in todo : IsRegionalAction(b)
         IN [pc |-> "resolve", g |-> g, r |-> r, todo |-> todo, action |-> action,
             queries |-> Queries(c, action), found |-> {}, loaded |-> <<>>, attempts |-> 0]

Begin(c) ==
    /\ req[c] = Idle
    /\ CheckedIdentity(Identity(c)) # {}
    /\ \E g \in Regions : \E r \in Requests(g) :
          /\ Offered(c, g, r)
          /\ (\E a \in Actions(r) : IsGlobalMutation(a)) => g = Writer
          /\ req' = [req EXCEPT ![c] = Authorizing(c, g, r, Actions(r))]
    /\ UNCHANGED <<policy, byAccount, byPrincipal, revisions, minted>>

End(c) == req' = [req EXCEPT ![c] = Idle]

Principal(arn) == CHOOSE p \in ParsePrincipal(arn) : TRUE

\* One query, all its pages; a second role with the caller's alias is an error.
Query(c) ==
    /\ req[c].pc = "resolve"
    /\ req[c].queries # <<>>
    /\ LET q     == Head(req[c].queries)
           g     == req[c].g
           part  == {[slot |-> s, item |-> byPrincipal[g][s]] : s \in ReadBindings(g, q[1], q[2])}
           found == req[c].found \cup part
       IN IF /\ \A b \in part : CheckAttachment(b.item, g)
             /\ AliasesUnambiguous({Principal(b.item.arn) : b \in found})
          THEN req' = [req EXCEPT ![c].queries = Tail(@), ![c].found = found]
          ELSE End(c)
    /\ UNCHANGED <<policy, byAccount, byPrincipal, revisions, minted>>

\* bindPolicy: the policy as it applies to the attachment's principal, unless it
\* is missing or the schema no longer accepts it.
BindPolicy(b, p) ==
    IF p = NoItem THEN {} ELSE IF ~p.content.valid THEN {}
    ELSE {[id |-> b.slot, content |-> p.content, principal |-> Principal(b.item.arn),
           scope |-> b.item.scope, region |-> b.item.region]}

\* prepareScopes and Check, over the attachments and policies read.
Decision(c) ==
    LET bound(b) == BindPolicy(b, req[c].loaded[b.item.ref])
    IN IF \E b \in req[c].found : bound(b) = {}
       THEN "error"
       ELSE CHOOSE d \in {Check(prep, req[c].action, ManagedResource(req[c].action, req[c].r)) :
                             prep \in Prepare(UNION {bound(b) : b \in req[c].found}, Identity(c), req[c].g)} : TRUE

Pending(c) == {b.item.ref : b \in req[c].found} \ DOMAIN req[c].loaded

\* BatchGetItem: any part of the pending keys may come back unprocessed.
LoadPolicies(c) ==
    /\ req[c].pc = "resolve"
    /\ req[c].queries = <<>>
    /\ Pending(c) # {}
    /\ \E got \in SUBSET Pending(c) :
          IF got # Pending(c) /\ req[c].attempts + 1 = BatchAttempts
          THEN End(c)
          ELSE req' = [req EXCEPT ![c].attempts = @ + 1,
                                  ![c].loaded = @ @@ [ref \in got |-> policy[req[c].g][ref]]]
    /\ UNCHANGED <<policy, byAccount, byPrincipal, revisions, minted>>

Decide(c) ==
    /\ req[c].pc = "resolve"
    /\ req[c].queries = <<>>
    /\ Pending(c) = {}
    /\ IF Decision(c) = "allow"
       THEN req' = [req EXCEPT ![c] = Authorizing(c, req[c].g, req[c].r, req[c].todo \ {req[c].action})]
       ELSE End(c)
    /\ UNCHANGED <<policy, byAccount, byPrincipal, revisions, minted>>

(***************************************************************************)
(* The operations, once authorized.  A condition that fails is a conflict  *)
(* and ends the request.                                                   *)
(***************************************************************************)
Fresh == revisions + 1

\* CreatePolicy, UpdatePolicy: one conditional put in the writer region.
WritePolicy(c) ==
    /\ req[c].pc = "act" /\ req[c].r.op \in {"CreatePolicy", "UpdatePolicy"}
    /\ revisions < MaxRevision
    /\ LET r == req[c].r
           g == req[c].g
           expected == IF r.op = "CreatePolicy" THEN 0 ELSE r.expected
       IN IF r.content.valid /\ policy[g][r.ref].rev = expected
          THEN /\ policy' = [policy EXCEPT ![g][r.ref] = StoreItem(Fresh, [content |-> r.content])]
               /\ revisions' = Fresh
          ELSE UNCHANGED <<policy, revisions>>
    /\ End(c)
    /\ UNCHANGED <<byAccount, byPrincipal, minted>>

\* DeletePolicy leaves the attachments that name the policy.
DeletePolicy(c) ==
    /\ req[c].pc = "act" /\ req[c].r.op = "DeletePolicy"
    /\ LET r == req[c].r
           g == req[c].g
       IN policy' = IF policy[g][r.ref].rev = r.expected
                    THEN [policy EXCEPT ![g][r.ref] = NoItem] ELSE policy
    /\ End(c)
    /\ UNCHANGED <<byAccount, byPrincipal, revisions, minted>>

\* writeAttachment up to GetPolicy and checkContent.
ReadPolicy(c) ==
    /\ req[c].pc = "act" /\ req[c].r.op = "CreateAttachment"
    /\ LET r   == req[c].r
           g   == req[c].g
           pol == policy[g][r.ref]
           b   == [arn |-> r.arn, scope |-> r.scope, region |-> IF r.scope = "regional" THEN g ELSE ""]
       IN IF CheckAttachment(b, g) /\ pol # NoItem /\ (pol # NoItem => pol.content.valid)
          THEN req' = [req EXCEPT ![c] = [pc |-> "attach", g |-> g, r |-> r, b |-> b, rev |-> pol.rev]]
          ELSE End(c)
    /\ UNCHANGED <<policy, byAccount, byPrincipal, revisions, minted>>

\* Mutant of PolicyUnchanged: the transaction has no ConditionCheck.
PolicyUnchanged_Unchecked(c) == TRUE

PolicyUnchanged(c) == policy[req[c].g][req[c].r.ref].rev = req[c].rev

\* The transaction: both items, on the revision of the policy that was read.
WriteAttachment(c) ==
    /\ req[c].pc = "attach"
    /\ revisions < MaxRevision
    /\ LET g == req[c].g
           ref == req[c].r.ref
           item == StoreItem(Fresh, [ref |-> ref] @@ req[c].b)
       IN IF PolicyUnchanged(c)
          THEN \E s \in Slots \ minted :
                  /\ minted' = minted \cup {s}
                  /\ byAccount' = [byAccount EXCEPT ![g][s] = item]
                  /\ byPrincipal' = [byPrincipal EXCEPT ![g][s] = item]
                  /\ revisions' = Fresh
          ELSE UNCHANGED <<minted, byAccount, byPrincipal, revisions>>
    /\ End(c)
    /\ UNCHANGED policy

\* DeleteAttachment up to GetAttachment and the comparison of revisions.
ReadAttachment(c) ==
    /\ req[c].pc = "act" /\ req[c].r.op = "DeleteAttachment"
    /\ LET r == req[c].r
           b == byAccount[req[c].g][r.slot]
       IN IF b.rev = r.expected /\ (b # NoItem => b.scope = r.scope)
          THEN req' = [req EXCEPT ![c].pc = "detach"]
          ELSE End(c)
    /\ UNCHANGED <<policy, byAccount, byPrincipal, revisions, minted>>

\* The transaction: both items, each on the expected revision.
DeleteAttachment(c) ==
    /\ req[c].pc = "detach"
    /\ LET r == req[c].r
           g == req[c].g
       IN IF byAccount[g][r.slot].rev = r.expected /\ byPrincipal[g][r.slot].rev = r.expected
          THEN /\ byAccount' = [byAccount EXCEPT ![g][r.slot] = NoItem]
               /\ byPrincipal' = [byPrincipal EXCEPT ![g][r.slot] = NoItem]
          ELSE UNCHANGED <<byAccount, byPrincipal>>
    /\ End(c)
    /\ UNCHANGED <<policy, revisions, minted>>

\* GetPolicy, ListPolicies, ListAttachments read and answer.
Answer(c) ==
    /\ req[c].pc = "act" /\ req[c].r.op \in {"GetPolicy", "ListPolicies", "ListAttachments"}
    /\ End(c)
    /\ UNCHANGED <<policy, byAccount, byPrincipal, revisions, minted>>

\* A backend failure or a cancelled context ends a request anywhere.
Unavailable(c) ==
    /\ req[c] # Idle
    /\ End(c)
    /\ UNCHANGED <<policy, byAccount, byPrincipal, revisions, minted>>

\* PublishManagedPolicy, by the platform's own tool: never replaces an entry.
PublishManagedPolicy ==
    /\ revisions < MaxRevision
    /\ \E ref \in ManagedIds, content \in Contents :
          /\ content.valid
          /\ policy[Writer][ref] = NoItem
          /\ policy' = [policy EXCEPT ![Writer][ref] = StoreItem(Fresh, [content |-> content])]
    /\ revisions' = Fresh
    /\ UNCHANGED <<byAccount, byPrincipal, minted, req>>

\* External: global tables copy one item at a time, in any order.  The copies
\* of byAccount are left out: only ListAttachments reads them, to answer.
IsGlobal(item) == item # NoItem /\ item.scope = "global"

Replicable(g, table, s) ==
    /\ table[g][s] # table[Writer][s]
    /\ IsGlobal(table[g][s]) \/ IsGlobal(table[Writer][s])

Replicate(g) ==
    /\ g # Writer
    /\ \/ \E ref \in Refs :
             /\ policy[g][ref] # policy[Writer][ref]
             /\ policy' = [policy EXCEPT ![g][ref] = policy[Writer][ref]]
             /\ UNCHANGED byPrincipal
       \/ \E s \in Slots :
             /\ Replicable(g, byPrincipal, s)
             /\ byPrincipal' = [byPrincipal EXCEPT ![g][s] = byPrincipal[Writer][s]]
             /\ UNCHANGED policy
    /\ UNCHANGED <<byAccount, revisions, minted, req>>

(***************************************************************************)
(* History: the forbids that stood, in the request's region and scopes,    *)
(* from the start of a resolution until now.                               *)
(***************************************************************************)
Covers(content, arn, c, action) ==
    /\ content.actions = {} \/ action \in content.actions
    /\ content.slot = "==" => arn = Arn[c]

Forbidding(c) ==
    {s \in Slots :
        LET b == byPrincipal[req[c].g][s] IN
        /\ b # NoItem
        /\ b.scope \in ToSet(ResolvedScopes(req[c].action))
        /\ MatchesPrincipal(Principal(b.arn), Principal(Arn[c]))
        /\ LET p == policy[req[c].g][b.ref] IN
           p # NoItem /\ p.content.effect = "forbid" /\ Covers(p.content, b.arn, c, req[c].action)}

Resolving(c) == req[c].pc = "resolve"

Watch ==
    window' = [c \in Callers |->
        IF ~Resolving(c)' THEN {}
        ELSE IF Resolving(c) /\ req[c].action = req'[c].action THEN window[c] \cap Forbidding(c)'
        ELSE Forbidding(c)']

\* Some policies exist, some of them written under an earlier schema; nothing
\* is attached yet.
Init ==
    /\ \E old \in OldPolicies : policy = [g \in Regions |-> old]
    /\ revisions = 1
    /\ byAccount = [g \in Regions |-> [s \in Slots |-> NoItem]]
    /\ byPrincipal = byAccount
    /\ minted = {}
    /\ req = [c \in Callers |-> Idle]
    /\ window = [c \in Callers |-> {}]

Step ==
    \/ \E c \in Callers :
          \/ Begin(c) \/ Query(c) \/ LoadPolicies(c) \/ Decide(c)
          \/ WritePolicy(c) \/ DeletePolicy(c) \/ ReadPolicy(c) \/ WriteAttachment(c)
          \/ ReadAttachment(c) \/ DeleteAttachment(c) \/ Answer(c) \/ Unavailable(c)
    \/ PublishManagedPolicy
    \/ \E g \in Regions : Replicate(g)

Next == Step /\ Watch

Spec == Init /\ [][Next]_vars

(***************************************************************************)
(* Properties.                                                             *)
(***************************************************************************)
\* A forbid that stood in the caller's region during the whole of a resolution
\* is never missed: although queries and batches are not one snapshot, no
\* request is authorized past it (Store.Resolve, Prepared.Check).
ForbidRespected ==
    [][\A c \in Callers :
          Resolving(c) /\ req'[c].pc # "idle" /\ (Resolving(c)' => req'[c].action # req[c].action)
              => window[c] = {}]_vars

\* An attachment is never created for a policy that is gone or no longer
\* accepted at that moment, whatever happens between GetPolicy and the
\* transaction (writeAttachment's ConditionCheck).
NoDanglingCreated ==
    [][\A g \in Regions, s \in minted' \ minted :
          LET b == byPrincipal'[g][s] IN
          b # NoItem => policy[g][b.ref] # NoItem /\ policy[g][b.ref].content.valid]_vars
===============================================================================
