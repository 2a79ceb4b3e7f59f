-------------------------------- MODULE MCApi ---------------------------------
(* Two parts of seaplane-api that share no state, each on a small instance    *)
(* and checked side by side: the management of authorization records          *)
(* (AuthzManagement) and the handlers that change Clusters and NodePools      *)
(* (ResourceUpdates).  The variable part says which one a behaviour is about; *)
(* the other keeps its initial state.                                         *)
EXTENDS Naturals, TLC

CONSTANT Slots  \* attachment IDs

VARIABLES
    part,
    policy, byAccount, byPrincipal, revisions, minted, req, window,
    obj, call, calls, uids, clock, span

authzVars == <<policy, byAccount, byPrincipal, revisions, minted, req, window>>
updateVars == <<obj, call, calls, uids, clock, span>>

(***************************************************************************)
(* AuthzManagement: a bootstrap administrator changes records while a role *)
(* session asks for the list that takes the most reads.                    *)
(***************************************************************************)
IAM(kind, path) ==
    [partition |-> "aws", service |-> "iam", region |-> "", account |-> "A", kind |-> kind, path |-> path]
Root == IAM("user", <<"root">>)
Role == IAM("role", <<"one", "dev">>)
Session == [IAM("assumed-role", <<"dev", "s">>) EXCEPT !.service = "sts"]

\* The session reads in region l; regional attachments are changed there, and
\* everything global in the writer region w.
Offered(c, g, r) ==
    IF c = "dev"
    THEN g = "l" /\ r.op = "ListAttachments" /\ r.scopes = {"global", "regional"}
    ELSE /\ r.op \in {"CreatePolicy", "UpdatePolicy", "DeletePolicy", "CreateAttachment", "DeleteAttachment"}
         /\ r.op \in {"CreateAttachment", "DeleteAttachment"} => (r.scope = "regional" <=> g = "l")

Content(effect, valid) ==
    [effect |-> effect, actions |-> {}, slot |-> "none", cond |-> "true", valid |-> valid]
Item(content) == [rev |-> 1, content |-> content]

\* Custom policy p forbids, or was written under an earlier schema.
OldPolicies ==
    {[p |-> Item(Content("forbid", TRUE)), m |-> Item(Content("permit", TRUE))],
     [p |-> Item(Content("permit", FALSE)), m |-> [rev |-> 0]]}

Authz == INSTANCE AuthzManagement WITH
    Account <- "A", Regions <- {"w", "l"}, Writer <- "w", Callers <- {"dev", "root"},
    Arn <- [dev |-> Session, root |-> Root], Administrators <- {Root},
    CustomIds <- {"p"}, ManagedIds <- {"m"}, Targets <- {Role, Session},
    Contents <- {Content("permit", TRUE), Content("forbid", TRUE)},
    BatchAttempts <- 2, MaxRevision <- 3

(***************************************************************************)
(* ResourceUpdates: three requests; w2 may not change the release.  Either *)
(* tag change fits the budget with the tags the other object started with. *)
(***************************************************************************)
Request(op, kind) ==
    [op |-> op, kind |-> kind, tags |-> {}, rel |-> {}, clears |-> FALSE, set |-> {}, unset |-> {}]

UpdateRequests ==
    UNION {{[Request("update", k) EXCEPT !.tags = {IF k = "cluster" THEN {"a", "c"} ELSE {"b", "d"}}],
            [Request("update", k) EXCEPT !.rel = {1}, !.clears = TRUE],
            [Request("labels", k) EXCEPT !.set = {"lock"}],
            [Request("labels", k) EXCEPT !.set = {"x"}, !.unset = {"lock"}],
            Request("delete", k)} : k \in {"cluster", "pool"}}
    \cup {[Request("create", "pool") EXCEPT !.tags = {{"b"}}]}

AllActions == {"Create", "Update", "Delete", "LabelResource", "UnlabelResource", "UpdateVersion"}

Updates == INSTANCE ResourceUpdates WITH
    Workers <- {"w1", "w2"}, Requests <- UpdateRequests, ClusterTags <- {{"c"}},
    Granted <- [w1 |-> AllActions, w2 |-> AllActions \ {"UpdateVersion"}],
    SystemTag <- "red-hat-managed", OwnerTag <- "owned", Lock <- "lock",
    MaxTags <- 4, MaxLabels <- 2, MaxAttempts <- 2, MaxCalls <- 3, MaxUids <- 3, MaxService <- 2

ApiInit ==
    /\ part \in {"authz", "updates"}
    /\ Updates!Init
    /\ Authz!Init
    /\ part # "authz" => policy.w.m.rev = 1   \* one initial state is enough

ApiNext ==
    /\ UNCHANGED part
    /\ \/ part = "authz" /\ Authz!Next /\ UNCHANGED updateVars
       \/ part = "updates" /\ Updates!Next /\ UNCHANGED authzVars

ApiSpec == ApiInit /\ [][ApiNext]_<<part, authzVars, updateVars>>

Symmetric == Permutations(Slots)

\* AuthzManagement: no request is authorized past a forbid that stood during
\* the whole of its resolution.
ForbidRespected == Authz!ForbidRespected

\* AuthzManagement: an attachment is created only for a policy that is there
\* and valid at that moment.
NoDanglingCreated == Authz!NoDanglingCreated

\* ResourceUpdates: every write is one its caller may make on the object as it
\* stood, and undoes no other request's change.
WriteChecked == Updates!WriteChecked

===============================================================================
