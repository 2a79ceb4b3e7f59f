------------------------------- MODULE Silences -------------------------------
(***************************************************************************)
(* SilenceReconciler: the Alertmanager silences of one cluster, which      *)
(* follow its lifecycle phase.  Times are whole ticks; the run of a        *)
(* reconcile is short against a tick, so the clock stands still while one  *)
(* is pending.  A call of the Alertmanager API may fail before or after it *)
(* took effect.                                                            *)
(***************************************************************************)
EXTENDS Naturals, FiniteSets

CONSTANTS
    TTL, RenewBefore, RequeueInterval, RetryDelay,  \* in ticks
    Ids,        \* the silences Alertmanager can hold at a time (bound)
    MaxFaults   \* bound: failed calls and restarts

VARIABLES
    phase,     \* the Cluster object: its phase, "deleted" once it is gone
    silences,  \* [Ids -> [reason, left]]: the active ones of this operator
    dirty,     \* the cluster's key is in the work queue
    due,       \* ticks until the delayed requeue, Never when there is none
    pc,        \* the reconcile: idle, list, expire, create, renew
    intent,    \* the reason it works for, None when no silence is wanted
    todo,      \* the listed silences it has yet to expire
    faults,    \* failed calls and restarts so far
    failed,    \* history: those of this phase
    lost       \* history: ticks of this phase without the silence it wants

silenceVars == <<phase, silences, dirty, due, pc, intent, todo, faults, failed, lost>>

None == "none"
NoSilence == [reason |-> None, left |-> 0]
Never == TTL + 1

\* The lifecycle: WaitingForPlacement and Provisioning are one phase here, and a
\* cluster that is being deleted stays so.
After(p) == CASE p = "new" -> {"installing", "deleting"}
              [] p = "installing" -> {"ready", "deleting"}
              [] p = "ready" -> {"deleting"}
              [] p = "deleting" -> {"deleted"}
              [] p = "deleted" -> {}

\* Mutant of IntentForCluster: a ready cluster still counts as installing.
IntentForCluster_ReadyToo(p) ==
    IF p \in {"installing", "ready"} THEN "installing" ELSE IF p = "deleting" THEN p ELSE None

IntentForCluster(p) == IF p \in {"installing", "deleting"} THEN p ELSE None

Active == {i \in Ids : silences[i] # NoSilence}
MatchesReason(i, reason) == silences[i].reason = reason
NeedsRenewal(i) == silences[i].left < RenewBefore

BuildPostableSilence(reason) == [reason |-> reason, left |-> TTL]

Least(a, b) == IF a < b THEN a ELSE b

\* Return {RequeueAfter: d}: the queue keeps the earliest of its delays.
Requeue(d) ==
    /\ due' = Least(due, d)
    /\ pc' = "idle" /\ intent' = None /\ todo' = {}

Return == Requeue(Never)

-------------------------------------------------------------------------------
\* An event of the Cluster object puts its key in the queue.
PhaseChange ==
    /\ phase' \in After(phase)
    /\ dirty' = TRUE
    /\ failed' = 0 /\ lost' = 0
    /\ UNCHANGED <<silences, due, pc, intent, todo, faults>>

Get ==
    /\ pc = "idle" /\ dirty
    /\ dirty' = FALSE
    /\ IF phase = "deleted"   \* NotFound
       THEN UNCHANGED <<pc, intent>>
       ELSE pc' = "list" /\ intent' = IntentForCluster(phase)
    /\ UNCHANGED <<phase, silences, due, todo, faults, failed, lost>>

\* The one matching silence is kept, and renewed when it is about to end;
\* anything else is expired first.
List ==
    /\ pc = "list"
    /\ \/ /\ Cardinality(Active) = 1 /\ \A i \in Active : intent # None /\ MatchesReason(i, intent)
          /\ IF \A i \in Active : NeedsRenewal(i)
             THEN pc' = "renew" /\ todo' = Active /\ UNCHANGED <<due, intent>>
             ELSE Requeue(RequeueInterval)
       \/ /\ ~(Cardinality(Active) = 1 /\ \A i \in Active : intent # None /\ MatchesReason(i, intent))
          /\ pc' = "expire" /\ todo' = Active
          /\ UNCHANGED <<due, intent>>
    /\ UNCHANGED <<phase, silences, dirty, faults, failed, lost>>

Create(i) == silences' = [silences EXCEPT ![i] = BuildPostableSilence(intent)]
Expire(i) == silences' = [silences EXCEPT ![i] = NoSilence]
Free == Ids \ Active

\* Renewal: the replacement first, then the old one.
Renew ==
    /\ pc = "renew"
    /\ \E i \in Free : Create(i)
    /\ pc' = "expireOld"
    /\ UNCHANGED <<phase, dirty, due, intent, todo, faults, failed, lost>>

ExpireOld ==
    /\ pc = "expireOld"
    /\ \E i \in todo : Expire(i)
    /\ Requeue(RequeueInterval)
    /\ UNCHANGED <<phase, dirty, faults, failed, lost>>

ExpireAll ==
    /\ pc = "expire"
    /\ \/ \E i \in todo : /\ Expire(i)
                          /\ todo' = todo \ {i}
                          /\ UNCHANGED <<due, pc, intent>>
       \/ /\ todo = {} /\ intent = None
          /\ Return
          /\ UNCHANGED silences
       \/ /\ todo = {} /\ intent # None
          /\ \E i \in Free : Create(i)
          /\ Requeue(RequeueInterval)
    /\ UNCHANGED <<phase, dirty, faults, failed, lost>>

\* Mutant of RetryAfterError: the delay of a pass that went well.
RetryAfterError_Long == Requeue(RequeueInterval)

RetryAfterError == Requeue(RetryDelay)

\* The pending call fails, before or after Alertmanager did it.
Fail ==
    /\ pc # "idle" /\ faults < MaxFaults
    /\ faults' = faults + 1 /\ failed' = failed + 1
    /\ \/ UNCHANGED silences
       \/ pc = "renew" /\ \E i \in Free : Create(i)
       \/ pc = "expire" /\ todo = {} /\ intent # None /\ \E i \in Free : Create(i)
       \/ pc \in {"expire", "expireOld"} /\ \E i \in todo : Expire(i)
    /\ pc = "expire" => todo # {} \/ intent # None
    /\ RetryAfterError
    /\ UNCHANGED <<phase, dirty, lost>>

\* A restart loses the reconcile and the delays; the first list queues the key.
Restart ==
    /\ faults < MaxFaults
    /\ faults' = faults + 1 /\ failed' = failed + 1
    /\ dirty' = (phase # "deleted")
    /\ pc' = "idle" /\ intent' = None /\ todo' = {} /\ due' = Never
    /\ UNCHANGED <<phase, silences, lost>>

Wanted == IntentForCluster(phase)
Covered == \E i \in Active : MatchesReason(i, Wanted)

\* External: Alertmanager ends a silence at its endsAt, and time passes.
Tick ==
    /\ pc = "idle" /\ ~dirty
    /\ silences' = [i \in Ids |-> IF silences[i].left <= 1 THEN NoSilence
                                  ELSE [silences[i] EXCEPT !.left = @ - 1]]
    /\ due' = IF due \in {1, Never} THEN Never ELSE due - 1
    /\ dirty' = (due = 1)
    /\ lost' = IF Wanted # None /\ ~Covered THEN lost + 1 ELSE lost
    /\ UNCHANGED <<phase, pc, intent, todo, faults, failed>>

Init ==
    /\ phase = "new" /\ silences = [i \in Ids |-> NoSilence]
    /\ dirty = TRUE /\ due = Never
    /\ pc = "idle" /\ intent = None /\ todo = {}
    /\ faults = 0 /\ failed = 0 /\ lost = 0

Reconcile == Get \/ List \/ Renew \/ ExpireOld \/ ExpireAll

Next == PhaseChange \/ Reconcile \/ Fail \/ Restart \/ Tick

\* A queued reconcile runs, and time passes.
Fairness == WF_silenceVars(Reconcile) /\ WF_silenceVars(Tick)

Spec == Init /\ [][Next]_silenceVars /\ Fairness

-------------------------------------------------------------------------------
\* While a cluster installs or is deleted its alerts are silenced: each failed
\* call uncovers it for at most one retry delay, also when the pass had already
\* expired what was there.
CoverLost == lost <= RetryDelay * failed

\* The alerts of a cluster that became ready, or is gone, are not silenced for
\* ever: a reconcile expires what is left, or the silence ends by itself.
Quiet == phase \in {"ready", "deleted"} => Active = {}
SilencesEnd == []<>Quiet
===============================================================================
