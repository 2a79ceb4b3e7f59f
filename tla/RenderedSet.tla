----------------------------- MODULE RenderedSet ----------------------------
(***************************************************************************)
(* The ApplyDesires of one placed Cluster while its spec changes: each     *)
(* reconcile renders the resources of the spec it has read, and so does    *)
(* the deletion, which turns into Delete, waits for and cleans up the      *)
(* desires of the resources that it renders.                               *)
(*                                                                         *)
(* Only the desires in Followed are followed; the other resources are      *)
(* rendered whatever the spec says, like the HostedCluster.                *)
(***************************************************************************)
EXTENDS Rendering

CONSTANTS
    Followed,  \* resource kinds and names that are followed
    Patches    \* values of spec.additionalTrustBundle: {} is nil

VARIABLES
    obj,      \* the Cluster in the database, with state "live", "dying" or "gone"
    external, \* its OidcConfig is unmanaged
    rec,      \* the reconcile: [pc, docs], docs the documents it has rendered
    desires,  \* the ApplyDesires, document -> "apply" or "delete"
    target,   \* documents whose resource is on the management cluster
    dropped   \* history: a bundle that had been rendered was set to nil

rvars == <<obj, external, rec, desires, target, dropped>>

Idle == [pc |-> "idle", docs |-> {}]

InitialCluster(b, hc) ==
    [uid |-> "u1", ns |-> "account-a1", name |-> "c", hcName |-> hc, bundle |-> b, oidcConfigID |-> "o1",
     accountID |-> "a1", tags |-> <<>>, state |-> "live", finalizer |-> FALSE,
     hosted |-> [issuerURL |-> <<"i">>, etcd |-> {}, networkType |-> "", infraAvailability |-> "",
                 controllerAvailability |-> "", machine |-> <<>>, service |-> <<>>, pod |-> <<>>,
                 aws |-> {}, release |-> "r"]]

RInit == /\ \E b \in Patches, hc \in {Pending, "hc-x"} : obj = InitialCluster(b, hc)
         /\ external \in BOOLEAN
         /\ rec = Idle
         /\ desires = <<>>
         /\ target = {}
         /\ dropped = FALSE

IsFollowed(r) == r.resource # "namespaces" /\ {r.resource, r.name} \cap Followed # {}

Rendered == UNION {{DocumentID(rs[i]) : i \in {i \in DOMAIN rs : IsFollowed(rs[i])}} :
                     rs \in ClusterResources(obj, external, "base")}

BundleDoc == <<"", "configmaps", ManagementNamespace("u1"), AdditionalTrustBundleName>>

\* The customer gives spec.additionalTrustBundle another value; null is accepted, and
\* makes it nil.
Patch(b) ==
    /\ obj.state # "gone" /\ obj.bundle # b
    /\ obj' = [obj EXCEPT !.bundle = b]
    /\ dropped' = (dropped \/ (b = {} /\ \/ BundleDoc \in DOMAIN desires
                                         \/ BundleDoc \in rec.docs))
    /\ UNCHANGED <<external, rec, desires, target>>

\* The API's Delete, or deleteIfExpired.
Delete ==
    /\ obj.state = "live"
    /\ obj' = [obj EXCEPT !.state = IF obj.finalizer THEN "dying" ELSE "gone"]
    /\ UNCHANGED <<external, rec, desires, target, dropped>>

\* The finalizer, then the HostedCluster's name, each saved before anything is rendered.
Prepare ==
    /\ obj.state = "live" /\ rec.pc = "idle"
    /\ \/ ~obj.finalizer /\ obj' = [obj EXCEPT !.finalizer = TRUE]
       \/ obj.finalizer /\ obj.hcName = Pending /\ obj' = [obj EXCEPT !.hcName = "hc-x"]
    /\ UNCHANGED <<external, rec, desires, target, dropped>>

\* reconcilePlacedCluster renders what it has read.
Render ==
    /\ obj.state = "live" /\ rec.pc = "idle" /\ obj.finalizer /\ obj.hcName # Pending
    /\ rec' = [pc |-> "apply", docs |-> Rendered]
    /\ UNCHANGED <<obj, external, desires, target, dropped>>

\* The upserts run in parallel, and some may fail.
UpsertApply ==
    /\ rec.pc = "apply"
    /\ \E S \in SUBSET rec.docs : desires' = [d \in S |-> "apply"] @@ desires
    /\ rec' = Idle
    /\ UNCHANGED <<obj, external, target, dropped>>


\* reconcileDelete renders again, from the spec as it is now.
RenderDelete ==
    /\ obj.state = "dying" /\ rec.pc = "idle"
    /\ rec' = [pc |-> "delete", docs |-> Rendered]
    /\ UNCHANGED <<obj, external, desires, target, dropped>>

\* The desires become Delete; when all did and all are confirmed, they are cleaned up and
\* the finalizer goes.  Otherwise the reconcile is run again.
UpsertDelete ==
    /\ rec.pc = "delete"
    /\ \E S \in SUBSET rec.docs :
         /\ desires' = [d \in S |-> "delete"] @@ desires
         /\ rec' = IF S = rec.docs THEN [rec EXCEPT !.pc = "check"] ELSE Idle
    /\ UNCHANGED <<obj, external, target, dropped>>

Confirm ==
    /\ rec.pc = "check"
    /\ IF rec.docs \cap target # {} THEN UNCHANGED <<obj, desires>>
       ELSE \E S \in SUBSET rec.docs :
              /\ desires' = [d \in DOMAIN desires \ S |-> desires[d]]
              /\ obj' = IF S = rec.docs THEN [obj EXCEPT !.state = "gone"] ELSE obj
    /\ rec' = Idle
    /\ UNCHANGED <<external, target, dropped>>

\* External: kube-applier carries out a desire.
KubeApplier(d) ==
    /\ target' = IF desires[d] = "apply" THEN target \cup {d} ELSE target \ {d}
    /\ UNCHANGED <<obj, external, rec, desires, dropped>>

RNext == \/ \E b \in Patches : Patch(b)
         \/ Delete \/ Prepare \/ Render \/ UpsertApply \/ RenderDelete \/ UpsertDelete \/ Confirm
         \/ \E d \in DOMAIN desires : KubeApplier(d)

RSpec == RInit /\ [][RNext]_rvars

-----------------------------------------------------------------------------
\* What the comment in reconcileDelete asks for: when the Cluster is gone, none of its
\* ApplyDesires is left dangling.  A bundle that the customer sets to null after it was
\* rendered is no longer rendered by the deletion, and its desire stays.
NoDesireDangles == obj.state = "gone" => DOMAIN desires = {} /\ target = {}

\* The trust bundle that was set to nil is the only one: whatever the updates, failures
\* and repetitions in between, the set of resources that the deletion renders is the one
\* that was applied, the signing key of an unmanaged OidcConfig included.
OnlyDroppedBundleDangles ==
    obj.state = "gone" => DOMAIN desires \cup target \subseteq (IF dropped THEN {BundleDoc} ELSE {})
=============================================================================
