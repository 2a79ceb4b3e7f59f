------------------------------ MODULE Manifests ------------------------------
(***************************************************************************)
(* One Manifest and the resources it puts on a management cluster.         *)
(*                                                                         *)
(* The spec names resources, some of them watched.  A reconcile writes an  *)
(* ApplyDesire for each and a ReadDesire for each watched one, removes the *)
(* desires of resources that status.resourceStatuses still lists and the   *)
(* spec no longer names, and records what it found in the status.  A       *)
(* deletion turns the ApplyDesires into deletions, waits for every         *)
(* confirmation, drops the desires and the finalizer.                      *)
(*                                                                         *)
(* Document IDs come from the Manifest's name, so a Manifest created again *)
(* finds the desires of the one before.  What a desire contains and how    *)
(* its updateTime dates a status is in DesireSync; here a status counts    *)
(* when it is about the desire last written.  The compare-and-swap of      *)
(* seaplane-db is a flag: what the reconcile has read is `fresh' until     *)
(* somebody writes the Manifest.                                           *)
(***************************************************************************)
EXTENDS Naturals

CONSTANTS
    Resources,   \* resources a spec can name
    Inputs,      \* specs a Manifest is given
    MaxCreates,  \* bound: creations of the Manifest
    MaxEvents    \* bound: edits of its spec, failing calls and restarts

\* What a spec says of each resource.
Specs == [Resources -> {"no", "plain", "watch"}]

ASSUME InputsName == Inputs \subseteq {s \in Specs : \E r \in Resources : s[r] # "no"}
ASSUME BoundsNat == MaxCreates \in Nat /\ MaxEvents \in Nat

VARIABLES
    man,    \* the Manifest
    rec,    \* its reconcile
    specs,  \* the specs tables, by document
    cache,  \* dynamo.Client's write cache, by document
    target, \* resources on the management cluster
    status, \* resources whose last written ApplyDesire is confirmed
    mirror, \* resources whose state a ReadDesire has mirrored
    work,   \* kube-applier's desire in hand
    used,   \* creations, edits and faults so far
    unsure  \* history: resources with a call to DynamoDB that failed and was carried out

dvars == <<specs, cache>>
avars == <<target, status, mirror, work>>
vars == <<man, rec, dvars, avars, used, unsure>>

Docs == {"apply", "read"} \X Resources
Types == {"none", "set", "delete"}
Named(s) == {r \in Resources : s[r] # "no"}
Watched(s) == {r \in Resources : s[r] = "watch"}
NoSpec == [r \in Resources |-> "no"]

NoManifest == [state |-> "none", finalizer |-> FALSE, spec |-> NoSpec, phase |-> "Syncing",
               statuses |-> {}, observed |-> FALSE]
NoReconcile == [pc |-> "idle", spec |-> NoSpec, statuses |-> {}, observed |-> FALSE,
                fresh |-> FALSE, todo |-> {}, failed |-> FALSE]
NoWork == [type |-> "none", current |-> FALSE]

TypeOK ==
    /\ man \in [state : {"none", "live", "deleting"}, finalizer : BOOLEAN, spec : Specs,
                phase : {"Syncing", "Applied", "Deleting"}, statuses : SUBSET Resources,
                observed : BOOLEAN]
    /\ rec \in [pc : {"idle", "finalizer", "apply", "orphan", "read", "status",
                      "phase", "remove", "clean"},
                spec : Specs, statuses : SUBSET Resources, observed : BOOLEAN,
                fresh : BOOLEAN, todo : SUBSET Docs, failed : BOOLEAN]
    /\ specs \in [Docs -> Types] /\ cache \in [Docs -> Types]
    /\ target \subseteq Resources /\ status \subseteq Resources /\ mirror \subseteq Resources
    /\ work \in [Resources -> [type : Types, current : BOOLEAN]]
    /\ unsure \subseteq Resources
    /\ used \in [creates : 0 .. MaxCreates, edits : 0 .. MaxEvents, faults : 0 .. MaxEvents]

Init == /\ man = NoManifest /\ rec = NoReconcile
        /\ specs = [d \in Docs |-> "none"] /\ cache = [d \in Docs |-> "none"]
        /\ target = {} /\ status = {} /\ mirror = {}
        /\ work = [r \in Resources |-> NoWork]
        /\ used = [creates |-> 0, edits |-> 0, faults |-> 0] /\ unsure = {}

\* One of the events the bound allows.
Event(kind) == /\ used.edits + used.faults < MaxEvents
               /\ used' = [used EXCEPT ![kind] = @ + 1]
Fault == Event("faults")

-----------------------------------------------------------------------------
(* Whoever owns the Manifest. *)

\* Somebody else has written the Manifest.
Overtaken == rec' = [rec EXCEPT !.fresh = FALSE]

Create(s) == /\ man.state = "none" /\ used.creates < MaxCreates
             /\ man' = [NoManifest EXCEPT !.state = "live", !.spec = s]
             /\ used' = [used EXCEPT !.creates = @ + 1]
             /\ UNCHANGED <<rec, dvars, avars, unsure>>

\* A change of the spec is a new generation.
Edit(s) == /\ man.state # "none" /\ s # man.spec
           /\ man' = [man EXCEPT !.spec = s, !.observed = FALSE]
           /\ Event("edits")
           /\ Overtaken
           /\ UNCHANGED <<dvars, avars, unsure>>

Delete == /\ man.state = "live"
          /\ man' = IF man.finalizer THEN [man EXCEPT !.state = "deleting"] ELSE NoManifest
          /\ Overtaken
          /\ UNCHANGED <<dvars, avars, used, unsure>>

-----------------------------------------------------------------------------
(* The reconcile. *)

Go(l, todo) == [rec EXCEPT !.pc = l, !.todo = todo]
All(table, rs) == {table} \X rs

\* Reconcile reads the Manifest.
Reconcile ==
    /\ rec.pc = "idle" /\ man.state # "none"
    /\ rec' = [pc |-> IF man.state = "deleting" THEN "phase"
                      ELSE IF man.finalizer THEN "apply" ELSE "finalizer",
               spec |-> man.spec, statuses |-> man.statuses, observed |-> man.observed,
               fresh |-> TRUE, failed |-> FALSE,
               todo |-> IF man.state = "live" /\ man.finalizer
                          THEN All("apply", Named(man.spec)) ELSE {}]
    /\ UNCHANGED <<man, dvars, avars, used, unsure>>

AddFinalizer == /\ rec.pc = "finalizer"
                /\ man' = IF rec.fresh THEN [man EXCEPT !.finalizer = TRUE] ELSE man
                /\ rec' = NoReconcile
                /\ UNCHANGED <<dvars, avars, used, unsure>>

\* What the reconcile writes: apply and read desires, or deletions.
Goal == IF rec.pc = "remove" THEN "delete" ELSE "set"

\* A desire is replaced: a status about the one before no longer counts.
Put(d) == /\ specs' = [specs EXCEPT ![d] = Goal]
          /\ IF d[1] = "apply"
               THEN /\ status' = status \ {d[2]}
                    /\ work' = [work EXCEPT ![d[2]].current = FALSE]
               ELSE UNCHANGED <<status, work>>
          /\ UNCHANGED <<target, mirror>>

\* Mutant: the desire is written every time.
Upsert_Always(d) == /\ rec.pc \in {"apply", "read", "remove"} /\ d \in rec.todo
                    /\ rec' = [rec EXCEPT !.todo = @ \ {d}]
                    /\ cache' = [cache EXCEPT ![d] = Goal]
                    /\ Put(d)
                    /\ UNCHANGED <<man, used, unsure>>

\* upsertDesire: nothing to do by the cache, nothing to do by the table, or a write.
Upsert(d) == /\ rec.pc \in {"apply", "read", "remove"} /\ d \in rec.todo
             /\ rec' = [rec EXCEPT !.todo = @ \ {d}]
             /\ cache' = [cache EXCEPT ![d] = Goal]
             /\ IF Goal \in {cache[d], specs[d]} THEN UNCHANGED <<specs, avars>> ELSE Put(d)
             /\ UNCHANGED <<man, used, unsure>>

\* A call of upsertDesire fails, which does not mean that nothing was written.
\* The goroutines of a creation all run to their end; the loop of a deletion stops.
UpsertFails(d) == /\ rec.pc \in {"apply", "read", "remove"} /\ d \in rec.todo
                  /\ cache[d] # Goal
                  /\ rec' = IF rec.pc = "remove" THEN NoReconcile
                            ELSE [rec EXCEPT !.todo = @ \ {d}, !.failed = TRUE]
                  /\ \/ UNCHANGED <<specs, avars, unsure>>
                     \/ /\ specs[d] # Goal /\ Put(d)
                        /\ unsure' = unsure \cup {d[2]}
                  /\ Fault
                  /\ UNCHANGED <<man, cache>>

\* DeleteDesireSpec: the item, then the cache entry.
Drop(d) == /\ rec.pc \in {"orphan", "clean"} /\ d \in rec.todo
           /\ specs' = [specs EXCEPT ![d] = "none"]
           /\ cache' = [cache EXCEPT ![d] = "none"]
           /\ rec' = [rec EXCEPT !.todo = @ \ {d}]
           /\ UNCHANGED <<man, avars, used, unsure>>

\* It fails, which is only logged.
DropFails(d) == /\ rec.pc \in {"orphan", "clean"} /\ d \in rec.todo
                /\ \/ UNCHANGED <<specs, unsure>>
                   \/ specs' = [specs EXCEPT ![d] = "none"] /\ unsure' = unsure \cup {d[2]}
                /\ rec' = [rec EXCEPT !.todo = @ \ {d}]
                /\ Fault
                /\ UNCHANGED <<man, cache, avars>>


\* cleanupOrphanedDesires: what the status lists and the spec does not name.
Orphans == IF rec.observed THEN {}
           ELSE {"apply", "read"} \X (rec.statuses \ Named(rec.spec))

\* The ApplyDesires are written, or one has failed.
Applied == /\ rec.pc = "apply" /\ rec.todo = {}
           /\ rec' = IF rec.failed THEN NoReconcile ELSE Go("orphan", Orphans)
           /\ UNCHANGED <<man, dvars, avars, used, unsure>>

Cleaned == /\ rec.pc = "orphan" /\ rec.todo = {}
           /\ rec' = Go("read", All("read", Watched(rec.spec)))
           /\ UNCHANGED <<man, dvars, avars, used, unsure>>

ReadsWritten == /\ rec.pc = "read" /\ rec.todo = {}
                /\ rec' = IF rec.failed THEN NoReconcile ELSE Go("status", {})
                /\ UNCHANGED <<man, dvars, avars, used, unsure>>

\* Mutant: one confirmed resource is enough.
Confirmed_Some == Named(rec.spec) \cap status # {}

\* CheckApplyDesireStatuses: Synced.
Confirmed == Named(rec.spec) \subseteq status

\* collectResourceStatuses, where a status that cannot be read is left out; then
\* phase, observedGeneration and, if there are any, resourceStatuses in one write.
WriteStatus ==
    /\ rec.pc = "status"
    /\ \E got \in SUBSET (Watched(rec.spec) \cap mirror) :
          /\ IF got = Watched(rec.spec) \cap mirror THEN UNCHANGED used ELSE Fault
          /\ man' = IF ~rec.fresh THEN man
                    ELSE [man EXCEPT !.phase = IF Confirmed THEN "Applied" ELSE "Syncing",
                                     !.observed = TRUE,
                                     !.statuses = IF got = {} THEN @ ELSE got]
    /\ rec' = NoReconcile
    /\ UNCHANGED <<dvars, avars, unsure>>

-----------------------------------------------------------------------------
(* reconcileDelete. *)

\* setPhase, whose failure is only logged.
SetPhase == /\ rec.pc = "phase"
            /\ man' = IF rec.fresh /\ man.phase # "Deleting"
                        THEN [man EXCEPT !.phase = "Deleting", !.observed = TRUE] ELSE man
            /\ rec' = Go("remove", All("apply", Named(rec.spec)))
            /\ UNCHANGED <<dvars, avars, used, unsure>>

\* Mutant: the deletion does not wait.
Removed_AtOnce == /\ rec.pc = "remove" /\ rec.todo = {}
                  /\ rec' = Go("clean", All("apply", Named(rec.spec)) \cup All("read", Watched(rec.spec)))
                  /\ UNCHANGED <<man, dvars, avars, used, unsure>>

\* Every deletion is confirmed, or the reconcile is to be repeated.
Removed == /\ rec.pc = "remove" /\ rec.todo = {}
           /\ rec' = IF Confirmed
                       THEN Go("clean", All("apply", Named(rec.spec)) \cup All("read", Watched(rec.spec)))
                       ELSE NoReconcile
           /\ UNCHANGED <<man, dvars, avars, used, unsure>>

RemoveFinalizer == /\ rec.pc = "clean" /\ rec.todo = {}
                   /\ man' = IF rec.fresh THEN NoManifest ELSE man
                   /\ rec' = NoReconcile
                   /\ UNCHANGED <<dvars, avars, used, unsure>>

\* A write of the Manifest fails, and with it the reconcile.
WriteFails == /\ rec.pc \in {"finalizer", "status"} \/ (rec.pc = "clean" /\ rec.todo = {})
              /\ rec' = NoReconcile
              /\ Fault
              /\ UNCHANGED <<man, dvars, avars, unsure>>

\* The operator restarts.
Crash == /\ rec.pc # "idle"
         /\ rec' = NoReconcile
         /\ cache' = [d \in Docs |-> "none"]
         /\ Fault
         /\ UNCHANGED <<man, specs, avars, unsure>>

-----------------------------------------------------------------------------
(* kube-applier, one desire of a resource at a time. *)

Pick(r) == /\ work[r].type = "none" /\ specs[<<"apply", r>>] # "none" /\ r \notin status
           /\ work' = [work EXCEPT ![r] = [type |-> specs[<<"apply", r>>], current |-> TRUE]]
           /\ UNCHANGED <<man, rec, dvars, target, status, mirror, used, unsure>>

CarryOut(r) == /\ work[r].type # "none"
               /\ target' = IF work[r].type = "set" THEN target \cup {r} ELSE target \ {r}
               /\ status' = IF work[r].current THEN status \cup {r} ELSE status
               /\ work' = [work EXCEPT ![r] = NoWork]
               /\ UNCHANGED <<man, rec, dvars, mirror, used, unsure>>

Mirror(r) == /\ specs[<<"read", r>>] = "set" /\ (r \in target) # (r \in mirror)
             /\ mirror' = IF r \in target THEN mirror \cup {r} ELSE mirror \ {r}
             /\ UNCHANGED <<man, rec, dvars, target, status, work, used, unsure>>

-----------------------------------------------------------------------------
Step == \/ AddFinalizer \/ Applied \/ Cleaned \/ ReadsWritten \/ WriteStatus
        \/ SetPhase \/ Removed \/ RemoveFinalizer
        \/ \E d \in Docs : Upsert(d) \/ Drop(d)

Next == \/ \E s \in Inputs : Create(s) \/ Edit(s)
        \/ Delete
        \/ Reconcile \/ Step \/ WriteFails \/ Crash
        \/ \E d \in Docs : UpsertFails(d) \/ DropFails(d)
        \/ \E r \in Resources : Pick(r) \/ CarryOut(r) \/ Mirror(r)

Spec == Init /\ [][Next]_vars

\* The work queue hands out the Manifest again and again, a reconcile goes on,
\* and kube-applier works.
FairSpec == /\ Spec
            /\ WF_vars(Reconcile) /\ WF_vars(Step)
            /\ \A r \in Resources : WF_vars(Pick(r)) /\ WF_vars(CarryOut(r)) /\ WF_vars(Mirror(r))

-----------------------------------------------------------------------------
Goes == man.state = "deleting" /\ man'.state = "none"

\* When the finalizer goes, none of the resources that the spec then names is on
\* the management cluster, and nothing is about to bring one back, although the
\* spec may have been edited while the deletion ran (manifest_controller.go:337).
\* Not so when a failed PutItem was carried out: the cache still has the desire
\* before it, and the deletion may find itself there and take the status of the
\* apply for its own.
GoneIsGone ==
    [][Goes =>
         \A r \in Named(man.spec) \ unsure : /\ r \notin target
                                             /\ specs[<<"apply", r>>] # "set"
                                             /\ work[r].type # "set"]_vars

\* A Manifest that reports Applied for the generation it has observed has all of
\* its resources on the management cluster, although resources come and go and a
\* Manifest of the same name may have been deleted before (status.phase,
\* manifest_controller.go:241); but for those whose desire a failed PutItem has
\* replaced behind the cache.
AppliedIsThere ==
    /\ TypeOK
    /\ man.state = "live" /\ man.phase = "Applied" /\ man.observed => Named(man.spec) \ unsure \subseteq target

\* As long as calls succeed, a watched resource that left the spec has lost both
\* its desires when the new generation counts as observed
\* (cleanupOrphanedDesires).
OrphansCleaned ==
    used.faults = 0 /\ man.state = "live" /\ man.observed =>
        \A r \in man.statuses \ Named(man.spec), t \in {"apply", "read"} : specs[<<t, r>>] = "none"

\* A deleted Manifest goes.  A Manifest that stays, its edits being over, gets all
\* its desires written, its resources applied and its status to say so; except that
\* the cache hides what a failed call has changed.
Settles ==
    /\ man.state = "deleting" ~> man.state # "deleting"
    /\ <>[](man.state = "live") =>
        <>[](/\ \A r \in Named(man.spec) \ unsure : specs[<<"apply", r>>] = "set" /\ r \in target
             /\ man.phase = "Applied" /\ man.observed)

=============================================================================
