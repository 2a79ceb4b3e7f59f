---------------------------- MODULE ResourceUpdates ---------------------------
(***************************************************************************)
(* The handlers of seaplane-api that change an existing Cluster or         *)
(* NodePool: Update and Delete (handlers/cluster.go, nodepool.go), Labels  *)
(* (resource_labels.go), and NodePool Create, which is admitted against    *)
(* its parent.  One cluster name and one pool under it; several requests   *)
(* run at once, and every read and write of seaplane-db is a step.         *)
(*                                                                         *)
(* An object is [uid, ver, owner, tags, rel, svc, labels, deleting]: its   *)
(* identity, its AWS tags, one field with an action of its own (release,   *)
(* replicas), one service-set field, and its customer labels.              *)
(* The bundle's policies are abstracted to the actions each caller holds   *)
(* and one label, Lock, that forbids everything but removing labels.       *)
(***************************************************************************)
EXTENDS Naturals, FiniteSets

CONSTANTS
    Workers,      \* concurrent requests
    Granted,      \* [Workers -> SUBSET Actions]
    Requests,     \* the requests that are sent
    ClusterTags,  \* the tag sets that a cluster may be created with
    SystemTag, OwnerTag,   \* red-hat-managed and the cluster's ownership tag
    Lock,         \* the label the policies look at
    MaxTags,      \* maxAWSResourceTags
    MaxLabels,    \* maxCustomerLabels
    MaxAttempts,  \* retry.DefaultRetry.Steps
    MaxCalls,     \* bound: requests in a behaviour
    MaxUids,      \* bound: objects created
    MaxService    \* bound: controller writes

VARIABLES
    obj,     \* [{"cluster", "pool"} -> object or None]
    call,    \* [Workers -> request in progress or Idle]
    calls,   \* requests started
    uids,    \* UIDs given out
    clock,   \* history: number of writes so far
    span     \* history: when the attempt that last wrote an object's tags read and wrote

vars == <<obj, call, calls, uids, clock, span>>

Kinds == {"cluster", "pool"}
None == [uid |-> 0]
Idle == [pc |-> "idle"]

(***************************************************************************)
(* validation/aws_tags.go.                                                 *)
(***************************************************************************)
ClusterBudgetOK(tags) == Cardinality({SystemTag, OwnerTag} \cup tags) <= MaxTags

PoolBudgetOK(clusterTags, poolTags) == Cardinality({SystemTag} \cup clusterTags \cup poolTags) <= MaxTags

(***************************************************************************)
(* A request is [op, kind, tags, rel, clears, set, unset].  tags and rel   *)
(* are empty when the field is absent from the body, a singleton when it   *)
(* is there; clears is a null on a parent of a service-set field; set and  *)
(* unset are the keys of a label patch.                                    *)
(***************************************************************************)
\* MergeSpecJSON: supplied fields replace, a supplied map replaces whole.
MergeSpec(o, r) ==
    [o EXCEPT !.tags = IF r.tags = {} THEN @ ELSE CHOOSE t \in r.tags : TRUE,
              !.rel  = IF r.rel = {} THEN @ ELSE CHOOSE x \in r.rel : TRUE,
              !.svc  = IF r.clears THEN 0 ELSE @]

PreserveServiceSet(candidate, stored) == [candidate EXCEPT !.svc = stored.svc]

ApplyLabelPatch(labels, r) == (labels \cup r.set) \ r.unset

\* clusterUpdateActions, nodePoolUpdateActions.
ChangedActions(old, new) == IF old.rel # new.rel THEN {"UpdateVersion"} ELSE {}

\* The action of a request before its changed fields are known.
Operation(r) ==
    CASE r.op = "update" -> {"Update"}
      [] r.op = "delete" -> {"Delete"}
      [] r.op = "create" -> {"Create"}
      [] r.op = "labels" -> (IF r.set # {} THEN {"LabelResource"} ELSE {})
                            \cup (IF r.unset # {} THEN {"UnlabelResource"} ELSE {})

\* authorizeResource: every action, on the labels of the snapshot.
Authorized(w, actions, labels) ==
    /\ actions \subseteq Granted[w]
    /\ Lock \in labels => actions \subseteq {"UnlabelResource"}

Reads == UNCHANGED <<obj, calls, uids, clock, span>>

Start(w) ==
    /\ call[w] = Idle
    /\ calls < MaxCalls
    /\ \E r \in Requests :
          call' = [call EXCEPT ![w] = [pc |-> IF r.op = "create" THEN "admit" ELSE "load", r |-> r,
                                       attempts |-> 0, snap |-> None, cand |-> None, from |-> 0]]
    /\ calls' = calls + 1
    /\ UNCHANGED <<obj, uids, clock, span>>

(***************************************************************************)
(* updateOnce, resourceLabels, Delete.                                     *)
(***************************************************************************)
Candidate(o, r) ==
    CASE r.op = "update" -> PreserveServiceSet(MergeSpec(o, r), o)
      [] r.op = "labels" -> [o EXCEPT !.labels = ApplyLabelPatch(@, r)]
      [] r.op = "delete" -> [o EXCEPT !.deleting = TRUE]

RequiredActions(c) ==
    Operation(c.r) \cup (IF c.r.op = "update" THEN ChangedActions(c.snap, c.cand) ELSE {})

\* A label patch that changes nothing succeeds unwritten; one past the limit fails.
NothingToWrite(c) ==
    c.r.op = "labels" /\ (c.cand.labels = c.snap.labels \/ Cardinality(c.cand.labels) > MaxLabels)

\* The request once its snapshot is loaded and its actions are decided.
Checked(w, c, actions, pc) ==
    IF Authorized(w, actions, c.snap.labels) /\ ~NothingToWrite(c)
    THEN [c EXCEPT !.pc = pc]
    ELSE Idle


\* clusterTagsSupplied, nodePoolTagsSupplied.
WritePc(c) == IF c.r.op = "update" /\ c.r.tags # {} THEN "budget" ELSE "write"

\* A label patch stays with the incarnation that its first attempt loaded.
Load(w) ==
    /\ call[w].pc = "load"
    /\ LET r == call[w].r
           o == obj[r.kind]
           c == [call[w] EXCEPT !.snap = o, !.cand = Candidate(o, r), !.from = clock]
       IN call' = [call EXCEPT ![w] =
              IF o = None \/ (r.op = "labels" /\ call[w].snap # None /\ call[w].snap.uid # o.uid) THEN Idle
              ELSE IF r.kind = "pool" THEN [c EXCEPT !.pc = "parent"]
              ELSE Checked(w, c, RequiredActions(c), WritePc(c))]
    /\ Reads

\* nodePoolResource: a pool whose owner is not the stored cluster is not found.
HasParent(owner) == obj["cluster"] # None /\ obj["cluster"].uid = owner

\* NodePool Update authorizes before it validates and again with the changed
\* fields, and reads the parent each time.
ReadParent(w) ==
    /\ call[w].pc = "parent"
    /\ LET c == call[w] IN
       call' = [call EXCEPT ![w] =
           IF ~HasParent(c.snap.owner) THEN Idle
           ELSE IF c.r.op = "update" THEN Checked(w, c, Operation(c.r), "parentAgain")
           ELSE Checked(w, c, RequiredActions(c), WritePc(c))]
    /\ Reads

ReadParentAgain(w) ==
    /\ call[w].pc = "parentAgain"
    /\ LET c == call[w] IN
       call' = [call EXCEPT ![w] =
           IF HasParent(c.snap.owner) THEN Checked(w, c, RequiredActions(c), WritePc(c)) ELSE Idle]
    /\ Reads

\* validateUpdatedClusterTags lists the pools of the cluster's UID;
\* validateUpdatedNodePoolTags reads the cluster of the pool's name.
CheckBudget(w) ==
    /\ call[w].pc = "budget"
    /\ LET c == call[w]
           fits == IF c.r.kind = "cluster"
                   THEN /\ ClusterBudgetOK(c.cand.tags)
                        /\ obj["pool"] # None /\ obj["pool"].owner = c.snap.uid
                              => PoolBudgetOK(c.cand.tags, obj["pool"].tags)
                   ELSE obj["cluster"] # None /\ PoolBudgetOK(obj["cluster"].tags, c.cand.tags)
       IN call' = [call EXCEPT ![w] = IF fits THEN [c EXCEPT !.pc = "write"] ELSE Idle]
    /\ Reads

Put(k, o) == obj' = [obj EXCEPT ![k] = o] /\ clock' = clock + 1

\* History: the attempt that last wrote the tags read them from, and wrote at, these times.
Spanned(k, from) == span' = [span EXCEPT ![k] = [from |-> from, to |-> clock + 1]]

\* Mutant of SnapshotIsCurrent: the write is compared on the UID alone.
SnapshotIsCurrent_UIDOnly(c) == obj[c.r.kind] # None /\ obj[c.r.kind].uid = c.snap.uid

\* pgclient Update and Delete with a resource version.
SnapshotIsCurrent(c) ==
    LET o == obj[c.r.kind] IN o # None /\ o.uid = c.snap.uid /\ o.ver = c.snap.ver

\* UpdateCluster, UpdateNodePool, Delete...Object: compare and set on version and
\* UID.  RetryOnConflict starts over; Delete does not retry.
Write(w) ==
    /\ call[w].pc = "write"
    /\ LET c == call[w]
           k == c.r.kind
           o == obj[k]
           retries == c.r.op # "delete" /\ c.attempts + 1 < MaxAttempts
       IN IF SnapshotIsCurrent(c)
          THEN /\ Put(k, [c.cand EXCEPT !.ver = @ + 1])
               /\ IF c.cand.tags = o.tags THEN UNCHANGED span ELSE Spanned(k, c.from)
               /\ call' = [call EXCEPT ![w] = Idle]
          ELSE /\ call' = [call EXCEPT ![w] =
                      IF o # None /\ retries THEN [c EXCEPT !.pc = "load", !.attempts = @ + 1] ELSE Idle]
               /\ UNCHANGED <<obj, clock, span>>
    /\ UNCHANGED <<calls, uids>>

(***************************************************************************)
(* NodePool Create: three reads of the parent, then the insert.            *)
(***************************************************************************)
Admit(w) ==
    /\ call[w].pc = "admit"
    /\ LET c == call[w]
           o == obj["cluster"]
           tags == UNION c.r.tags
           pool == [uid |-> 0, ver |-> 1, owner |-> o.uid, tags |-> tags, rel |-> 0, svc |-> 1,
                    labels |-> c.r.set, deleting |-> FALSE]
       IN call' = [call EXCEPT ![w] =
              IF o = None THEN Idle
              ELSE IF o.deleting \/ ~PoolBudgetOK(o.tags, tags) \/ Cardinality(c.r.set) > MaxLabels THEN Idle
              ELSE [c EXCEPT !.pc = "parentOfNew", !.cand = pool, !.from = clock]]
    /\ Reads

AuthorizeNew(w) ==
    /\ call[w].pc = "parentOfNew"
    /\ LET c == call[w] IN
       call' = [call EXCEPT ![w] =
           IF HasParent(c.cand.owner) /\ Authorized(w, Operation(c.r), c.cand.labels)
           THEN [c EXCEPT !.pc = "requireOwned"] ELSE Idle]
    /\ Reads

RequireOwnedCluster(w) ==
    /\ call[w].pc = "requireOwned"
    /\ call' = [call EXCEPT ![w] = IF HasParent(call[w].cand.owner) THEN [call[w] EXCEPT !.pc = "create"] ELSE Idle]
    /\ Reads

Create(w) ==
    /\ call[w].pc = "create"
    /\ IF obj["pool"] = None
       THEN /\ Put("pool", [call[w].cand EXCEPT !.uid = uids + 1])
            /\ Spanned("pool", call[w].from)
            /\ uids' = uids + 1
       ELSE UNCHANGED <<obj, clock, span, uids>>
    /\ call' = [call EXCEPT ![w] = Idle]
    /\ UNCHANGED calls

(***************************************************************************)
(* The rest of the system.                                                 *)
(***************************************************************************)
\* A cluster of the name is created, within its own budget.
NewCluster ==
    /\ obj["cluster"] = None
    /\ uids < MaxUids
    /\ \E t \in ClusterTags :
          /\ ClusterBudgetOK(t)
          /\ Put("cluster", [uid |-> uids + 1, ver |-> 1, owner |-> 0, tags |-> t, rel |-> 0, svc |-> 1,
                             labels |-> {}, deleting |-> FALSE])
    /\ Spanned("cluster", clock)
    /\ uids' = uids + 1
    /\ UNCHANGED <<call, calls>>

\* The last finalizer of a deleted object goes.
Finalize(k) ==
    /\ obj[k] # None
    /\ obj[k].deleting
    /\ Put(k, None)
    /\ UNCHANGED <<call, calls, uids, span>>

\* A controller writes what the service owns.
ServiceWrite(k) ==
    /\ obj[k] # None
    /\ obj[k].svc < MaxService
    /\ Put(k, [obj[k] EXCEPT !.svc = @ + 1, !.ver = @ + 1])
    /\ UNCHANGED <<call, calls, uids, span>>

Init ==
    /\ obj = [k \in Kinds |-> None]
    /\ call = [w \in Workers |-> Idle]
    /\ calls = 0 /\ uids = 0 /\ clock = 0
    /\ span = [k \in Kinds |-> [from |-> 0, to |-> 0]]

Next ==
    \/ \E w \in Workers :
          \/ Start(w) \/ Load(w) \/ ReadParent(w) \/ ReadParentAgain(w) \/ CheckBudget(w) \/ Write(w)
          \/ Admit(w) \/ AuthorizeNew(w) \/ RequireOwnedCluster(w) \/ Create(w)
    \/ NewCluster
    \/ \E k \in Kinds : Finalize(k) \/ ServiceWrite(k)

Spec == Init /\ [][Next]_vars

-------------------------------------------------------------------------------
\* A worker's request wrote object k in this step.
Wrote(w, k) == obj'[k] # obj[k] /\ call[w] # Idle /\ call[w].r.kind = k /\ call'[w] = Idle

\* Every write that changes a stored object is one its caller may make on the
\* object as it stood: each action that the real difference calls for is held,
\* under the labels that are stored at that moment, and no other request's
\* change is undone (handlers/cluster.go, nodepool.go: re-read, re-authorize,
\* compare and set, retry).
WriteChecked ==
    [][\A w \in Workers, k \in Kinds :
          Wrote(w, k) /\ obj[k] # None =>
             LET old == obj[k]
                 new == obj'[k]
                 r == call[w].r
             IN /\ new.uid = old.uid /\ new.svc = old.svc
                /\ Authorized(w, Operation(r) \cup ChangedActions(old, new), old.labels)
                /\ new.rel # old.rel => r.rel = {new.rel}
                /\ new.tags # old.tags => r.tags = {new.tags}
                /\ new.labels = IF r.op = "labels" THEN ApplyLabelPatch(old.labels, r) ELSE old.labels
                /\ Cardinality(new.labels) <= MaxLabels]_vars

===============================================================================
