----------------------------- MODULE DesireSync -----------------------------
(***************************************************************************)
(* How the operator gets the resources of one object (a Cluster, a         *)
(* NodePool, a Manifest) onto a management cluster and off it again.       *)
(*                                                                         *)
(* A reconcile writes one ApplyDesire per resource to the specs table, in  *)
(* parallel, through dynamo.Client with its write cache.  kube-applier,    *)
(* outside this repository, carries desires out and writes a status that   *)
(* repeats the updateTime of the desire it is about.  To delete, the same  *)
(* items are turned into Type=Delete; once every status confirms, the      *)
(* items and then the finalizer are removed.                               *)
(*                                                                         *)
(* GetItem on the specs table is eventually consistent: for a while it may *)
(* return the item before the last write.  updateTime is cut to seconds.   *)
(***************************************************************************)
EXTENDS Integers, FiniteSets

CONSTANTS
    Docs,       \* document IDs of the object's resources
    Contents,   \* contents the object's spec can render to
    NoContent,  \* no content
    MaxEdits,   \* bound: edits of the object
    MaxFaults,  \* bound: calls that fail and restarts
    Quiet       \* at least a second passes between two reconciles of the object

VARIABLES
    object,   \* the object: [state, content]; it has its finalizer and its placement
    edits,    \* edits so far
    faults,   \* failed calls and restarts so far
    table,    \* the specs table
    old,      \* what an eventually consistent read may still return
    clock,    \* the second of the last write of each item
    cache,    \* Client.cache
    pc,       \* the reconcile: "idle", "upsert", "clean"
    goal,     \* what it writes: type and content
    todo,     \* its goroutine, then its clean-up, per document
    seen,     \* DesireStatusEntry.DesireUpdateTime
    synced,   \* the content the Synced condition was last True for
    work,     \* kube-applier: the desire in hand per document, and how it went
    target,   \* the resource on the management cluster
    status    \* the status table

ovars == <<object, edits>>
rvars == <<cache, pc, goal, todo, seen, synced>>
avars == <<work, target, status>>
vars == <<ovars, faults, table, old, clock, rvars, avars>>

Types == {"none", "apply", "delete"}
Item == [type : Types, content : Contents \cup {NoContent}, time : Nat]
NoItem == [type |-> "none", content |-> NoContent, time |-> 0]

\* specHash: the desire without its updateTime.
SameHash(i, j) == i.type = j.type /\ i.content = j.content

\* about is history: the desire the status reports on.
Status == [about : Item, ok : BOOLEAN]
NoStatus == [about |-> NoItem, ok |-> FALSE]

TypeOK == /\ object \in [state : {"live", "deleting", "gone"}, content : Contents]
          /\ edits \in 0 .. MaxEdits /\ faults \in 0 .. MaxFaults
          /\ table \in [Docs -> Item] /\ old \in [Docs -> Item]
          /\ clock \in [Docs -> Nat]
          /\ cache \in [Docs -> Item]
          /\ pc \in {"idle", "upsert", "clean"}
          /\ goal \in Item
          /\ todo \in [Docs -> {"none", "start", "done", "failed", "removed", "kept"}]
          /\ seen \in [Docs -> Nat]
          /\ synced \in Contents \cup {NoContent}
          /\ work \in [Docs -> [item : Item, stage : {"none", "picked", "ok", "failed"}]]
          /\ target \in [Docs -> Contents \cup {NoContent}]
          /\ status \in [Docs -> Status]

NoWork == [item |-> NoItem, stage |-> "none"]
Everywhere(v) == [d \in Docs |-> v]

Init == /\ object \in [state : {"live"}, content : Contents]
        /\ edits = 0 /\ faults = 0
        /\ table = Everywhere(NoItem) /\ old = Everywhere(NoItem)
        /\ clock = Everywhere(0)
        /\ cache = Everywhere(NoItem)
        /\ pc = "idle" /\ goal = NoItem
        /\ todo = Everywhere("none") /\ seen = Everywhere(0)
        /\ synced = NoContent
        /\ work = Everywhere(NoWork)
        /\ target = Everywhere(NoContent)
        /\ status = Everywhere(NoStatus)

-----------------------------------------------------------------------------
(* The API, and DynamoDB's replication. *)

Edit(c) == /\ object.state = "live" /\ c # object.content
           /\ edits < MaxEdits
           /\ object' = [object EXCEPT !.content = c]
           /\ edits' = edits + 1
           /\ UNCHANGED <<faults, table, old, clock, rvars, avars>>

Delete == /\ object.state = "live"
          /\ object' = [object EXCEPT !.state = "deleting"]
          /\ UNCHANGED <<edits, faults, table, old, clock, rvars, avars>>

Settle(d) == /\ old[d] # table[d]
             /\ old' = [old EXCEPT ![d] = table[d]]
             /\ UNCHANGED <<ovars, faults, table, clock, rvars, avars>>

-----------------------------------------------------------------------------
(* The reconcile. *)

\* The object is read once; reconcileDelete and reconcilePlacedCluster differ
\* in the desires they write.
Reconcile ==
    /\ pc = "idle" /\ object.state # "gone"
    /\ Quiet => old = table
    /\ pc' = "upsert"
    /\ goal' = IF object.state = "deleting"
                 THEN [NoItem EXCEPT !.type = "delete"]
                 ELSE [NoItem EXCEPT !.type = "apply", !.content = object.content]
    /\ todo' = Everywhere("start")
    /\ seen' = Everywhere(0)
    /\ UNCHANGED <<ovars, faults, table, old, clock, cache, synced, avars>>

Finish(d, t) == /\ todo' = [todo EXCEPT ![d] = "done"]
                /\ seen' = [seen EXCEPT ![d] = t]

\* upsertDesire: the cache has this very desire.
CacheHit(d) == /\ pc = "upsert" /\ todo[d] = "start"
               /\ SameHash(cache[d], goal)
               /\ Finish(d, cache[d].time)
               /\ UNCHANGED <<ovars, faults, table, old, clock, cache, pc, goal, synced, avars>>

\* upsertDesire: the table has it, as far as GetItem can tell.
ReadHit(d) == /\ pc = "upsert" /\ todo[d] = "start"
              /\ ~SameHash(cache[d], goal)
              /\ \E item \in {table[d], old[d]} :
                    /\ SameHash(item, goal)
                    /\ cache' = [cache EXCEPT ![d] = item]
                    /\ Finish(d, item.time)
              /\ UNCHANGED <<ovars, faults, table, old, clock, pc, goal, synced, avars>>

\* time.Now().Truncate(time.Second) at a write of d.
Second(d) == IF Quiet THEN {clock[d] + 1} ELSE {clock[d], clock[d] + 1}

\* putDesireWithHash.
PutItem(d, t) == /\ table' = [table EXCEPT ![d] = [goal EXCEPT !.time = t]]
                 /\ old' = [old EXCEPT ![d] = table[d]]
                 /\ clock' = [clock EXCEPT ![d] = t]

\* Mutant: the time that is returned and cached keeps its nanoseconds.
Put_NotTruncated(d) ==
    /\ pc = "upsert" /\ todo[d] = "start"
    /\ ~SameHash(cache[d], goal)
    /\ ~SameHash(table[d], goal) \/ ~SameHash(old[d], goal)
    /\ \E t \in Second(d) :
          /\ PutItem(d, t)
          /\ cache' = [cache EXCEPT ![d] = [goal EXCEPT !.time = t + 1]]
          /\ Finish(d, t + 1)
    /\ UNCHANGED <<ovars, faults, pc, goal, synced, avars>>

\* upsertDesire: GetItem returned something else and the item is written.
Put(d) == /\ pc = "upsert" /\ todo[d] = "start"
          /\ ~SameHash(cache[d], goal)
          /\ ~SameHash(table[d], goal) \/ ~SameHash(old[d], goal)
          /\ \E t \in Second(d) :
                /\ PutItem(d, t)
                /\ cache' = [cache EXCEPT ![d] = [goal EXCEPT !.time = t]]
                /\ Finish(d, t)
          /\ UNCHANGED <<ovars, faults, pc, goal, synced, avars>>

\* One of the faults the bound allows.
Fault == faults < MaxFaults /\ faults' = faults + 1

\* GetItem or PutItem fails.  A PutItem that fails may have been carried out.
UpsertFails(d) ==
    /\ pc = "upsert" /\ todo[d] = "start"
    /\ ~SameHash(cache[d], goal)
    /\ todo' = [todo EXCEPT ![d] = "failed"]
    /\ \/ UNCHANGED <<table, old, clock>>
       \/ /\ ~SameHash(table[d], goal)
          /\ \E t \in Second(d) : PutItem(d, t)
    /\ Fault
    /\ UNCHANGED <<ovars, cache, pc, goal, seen, synced, avars>>


\* CheckApplyDesireStatuses counts a document.
Confirmed(d) == /\ status[d] # NoStatus
                /\ status[d].about.time >= seen[d]
                /\ status[d].ok

\* Mutant: a deletion goes on when the first of its resources is confirmed gone.
Check_SomeGone ==
    /\ pc = "upsert" /\ \A d \in Docs : todo[d] \in {"done", "failed"}
    /\ pc' = IF goal.type = "delete" /\ (\A d \in Docs : todo[d] = "done") /\ (\E d \in Docs : Confirmed(d))
               THEN "clean" ELSE "idle"
    /\ synced' = IF \E d \in Docs : todo[d] = "failed" THEN synced
                 ELSE IF goal.type = "apply" /\ \A d \in Docs : Confirmed(d) THEN goal.content
                 ELSE NoContent
    /\ UNCHANGED <<ovars, faults, table, old, clock, cache, goal, todo, seen, avars>>

\* All goroutines are back.  One error ends the reconcile with it; otherwise the
\* Synced condition is set, and a deletion that is confirmed goes on.
Check ==
    /\ pc = "upsert" /\ \A d \in Docs : todo[d] \in {"done", "failed"}
    /\ pc' = IF goal.type = "delete" /\ \A d \in Docs : todo[d] = "done" /\ Confirmed(d)
               THEN "clean" ELSE "idle"
    /\ synced' = IF \E d \in Docs : todo[d] = "failed" THEN synced
                 ELSE IF goal.type = "apply" /\ \A d \in Docs : Confirmed(d) THEN goal.content
                 ELSE NoContent
    /\ UNCHANGED <<ovars, faults, table, old, clock, cache, goal, todo, seen, avars>>

\* DeleteDesireSpec removes the item, then the cache entry.
Remove(d) == /\ pc = "clean" /\ todo[d] = "done"
             /\ table' = [table EXCEPT ![d] = NoItem]
             /\ old' = [old EXCEPT ![d] = table[d]]
             /\ cache' = [cache EXCEPT ![d] = NoItem]
             /\ todo' = [todo EXCEPT ![d] = "removed"]
             /\ UNCHANGED <<ovars, faults, clock, pc, goal, seen, synced, avars>>

\* It fails, before or after the item is gone, and the cache entry stays.
RemoveFails(d) == /\ pc = "clean" /\ todo[d] = "done"
                  /\ \/ UNCHANGED <<table, old>>
                     \/ /\ table' = [table EXCEPT ![d] = NoItem]
                        /\ old' = [old EXCEPT ![d] = table[d]]
                  /\ todo' = [todo EXCEPT ![d] = "kept"]
                  /\ Fault
                  /\ UNCHANGED <<ovars, clock, cache, pc, goal, seen, synced, avars>>

\* With every item removed the finalizer goes, and with it the object.
RemoveFinalizer ==
    /\ pc = "clean" /\ \A d \in Docs : todo[d] \in {"removed", "kept"}
    /\ pc' = "idle"
    /\ object' = IF \A d \in Docs : todo[d] = "removed"
                   THEN [object EXCEPT !.state = "gone"] ELSE object
    /\ UNCHANGED <<edits, faults, table, old, clock, cache, goal, todo, seen, synced, avars>>

\* The operator restarts: the reconcile and the write cache are gone.
Crash == /\ pc # "idle"
         /\ pc' = "idle"
         /\ cache' = Everywhere(NoItem)
         /\ Fault
         /\ UNCHANGED <<ovars, table, old, clock, goal, todo, seen, synced, avars>>

-----------------------------------------------------------------------------
(* kube-applier: one desire of a document at a time. *)

Pick(d) == /\ work[d].stage = "none" /\ table[d].type # "none"
           /\ status[d].about # table[d] \/ ~status[d].ok
           /\ work' = [work EXCEPT ![d] = [item |-> table[d], stage |-> "picked"]]
           /\ UNCHANGED <<ovars, faults, table, old, clock, rvars, target, status>>

Act(d) == /\ work[d].stage = "picked"
          /\ target' = [target EXCEPT ![d] = work[d].item.content]
          /\ work' = [work EXCEPT ![d].stage = "ok"]
          /\ UNCHANGED <<ovars, faults, table, old, clock, rvars, status>>

ActFails(d) == /\ work[d].stage = "picked"
               /\ work' = [work EXCEPT ![d].stage = "failed"]
               /\ Fault
               /\ UNCHANGED <<ovars, table, old, clock, rvars, target, status>>

Report(d) == /\ work[d].stage \in {"ok", "failed"}
             /\ status' = [status EXCEPT ![d] = [about |-> work[d].item, ok |-> work[d].stage = "ok"]]
             /\ work' = [work EXCEPT ![d] = NoWork]
             /\ UNCHANGED <<ovars, faults, table, old, clock, rvars, target>>

-----------------------------------------------------------------------------
Upsert(d) == CacheHit(d) \/ ReadHit(d) \/ Put(d)
Controller == Reconcile \/ Check \/ RemoveFinalizer
Goroutine(d) == Upsert(d) \/ Remove(d)
KubeApplier(d) == Pick(d) \/ Act(d) \/ Report(d)
Fails(d) == UpsertFails(d) \/ RemoveFails(d) \/ ActFails(d)

Next == \/ \E c \in Contents : Edit(c)
        \/ Delete
        \/ Controller \/ Crash
        \/ \E d \in Docs : Settle(d) \/ Goroutine(d) \/ KubeApplier(d) \/ Fails(d)

Spec == Init /\ [][Next]_vars

\* The work queue delivers the object again (RequeueAfter, or back-off after an
\* error), goroutines run, DynamoDB replicates and kube-applier works.
FairSpec == /\ Spec
            /\ WF_vars(Controller)
            /\ \A d \in Docs : WF_vars(Settle(d)) /\ WF_vars(Goroutine(d)) /\ WF_vars(KubeApplier(d))

-----------------------------------------------------------------------------
\* When the finalizer is gone, so is every resource on the management cluster
\* and every desire that could bring one back (cluster_controller.go:705, 719;
\* dynamodb-strategy.md:83: statuses of earlier desires are ignored).
NothingLeftBehind ==
    /\ TypeOK
    /\ object.state = "gone" =>
        \A d \in Docs : /\ target[d] = NoContent
                        /\ table[d] = NoItem
                        /\ work[d].item.type # "apply"


\* No deletion is under way, and the resources of an object that stays have its
\* content.
Settled == /\ object.state # "deleting"
           /\ object.state = "live" => \A d \in Docs : target[d] = object.content
=============================================================================
