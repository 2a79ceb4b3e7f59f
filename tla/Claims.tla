------------------------------- MODULE Claims -------------------------------
(***************************************************************************)
(* Which Cluster holds a DNSReservation and an OidcConfig.                 *)
(*                                                                         *)
(* A create request (seaplane-api) creates the Cluster, then writes the    *)
(* claimed-by-cluster-uid label of every resource it refers to; when a     *)
(* claim fails it deletes the Cluster again.  The Cluster controller       *)
(* (seaplane-operator) goes on only when it sees the claims, deletes a     *)
(* Cluster that has none after ten minutes, and gives the claims back when *)
(* a Cluster is deleted.  The delete handlers of the two resources refuse  *)
(* a claimed one.  All of them read an object and write it under the       *)
(* version they read (see WriteProc), so each is a read and a write here;  *)
(* a version is modelled by whether the object has been written since.     *)
(*                                                                         *)
(* A Cluster is named by the request that creates it: its UID.             *)
(***************************************************************************)
EXTENDS Naturals, FiniteSets

CONSTANTS
    Requests,    \* create requests
    NoCluster,   \* no claim
    Demands,     \* what the requests may refer to
    MaxFaults    \* bound: failed calls, restarts, and refreshes of a status

Kinds == {"dns", "oidc"}

ASSUME NoClusterIsNone == NoCluster \notin Requests
ASSUME DemandsKinds == Demands \subseteq [Requests -> SUBSET Kinds]
ASSUME FaultsNat == MaxFaults \in Nat

VARIABLES
    wants,    \* the resources each request refers to
    cluster,  \* the Cluster of each request
    res,      \* the DNSReservation and the OidcConfig requests refer to
    auto,     \* the automatic DNSReservation of each Cluster
    pc,       \* the request
    todo,     \* the resources it has still to look up, or to claim
    del,      \* the delete handler of each resource
    opc,      \* the controller's reconcile of each Cluster
    fresh,    \* who has read an object that has not been written since
    early,    \* Clusters a customer deleted before their create had returned
    faults    \* faults so far

qvars == <<pc, todo>>
vars == <<wants, cluster, res, auto, qvars, del, opc, fresh, early, faults>>

Cluster == [state : {"none", "live", "deleting", "gone"},
            stage : {"new", "domain", "started", "deleting"},
            ref : BOOLEAN,      \* spec.dnsReservationId is set
            aged : BOOLEAN]     \* older than claimConfirmationTimeout
Resource == [state : {"live", "deleting", "gone"}, claim : Requests \cup {NoCluster},
             ready : BOOLEAN]

\* Those who read before they write.
Req(q) == <<"request", q>>
Rec(q) == <<"reconcile", q>>
Del(k) == <<"delete", k>>

Running == {"resolve", "issuer", "claim", "save", "cleanup"}

TypeOK == /\ wants \in [Requests -> SUBSET Kinds] /\ early \subseteq Requests
          /\ cluster \in [Requests -> Cluster]
          /\ res \in [Kinds -> Resource]
          /\ auto \in [Requests -> {"none", "live", "ready", "deleting", "gone"}]
          /\ pc \in [Requests -> Running \cup {"done", "failed"}]
          /\ todo \in [Requests -> SUBSET Kinds]
          /\ del \in [Kinds -> {"idle", "delete"}]
          /\ opc \in [Requests -> {"idle", "auto", "ref", "dns", "oidc", "wait", "drop",
                                   "confirmed", "release", "freeOidc", "list", "freeDns", "finalize"}]
          /\ fresh \subseteq {Req(q) : q \in Requests} \cup {Rec(q) : q \in Requests} \cup {Del(k) : k \in Kinds}
          /\ faults \in 0 .. MaxFaults

Init == /\ wants \in Demands /\ early = {} /\ fresh = {}
        /\ cluster = [q \in Requests |-> [state |-> "none", stage |-> "new", ref |-> "dns" \in wants[q],
                                          aged |-> FALSE]]
        /\ res = [k \in Kinds |-> [state |-> "live", claim |-> NoCluster, ready |-> FALSE]]
        /\ auto = [q \in Requests |-> "none"]
        /\ pc = [q \in Requests |-> "resolve"]
        /\ todo = wants
        /\ del = [k \in Kinds |-> "idle"]
        /\ opc = [q \in Requests |-> "idle"]
        /\ faults = 0

Present(o) == o.state \in {"live", "deleting"}
Fault == faults < MaxFaults /\ faults' = faults + 1

\* The DNSReservation is dealt with before the OidcConfig.
Current(q) == IF "dns" \in todo[q] THEN "dns" ELSE "oidc"

\* Who remembers a Cluster, or a resource: a write makes what they read stale.
ReadersOfCluster(q) == IF opc[q] \in {"auto", "ref", "drop"} THEN {Rec(q)} ELSE {}
ReadersOfRes(k) ==
    {Req(q) : q \in {r \in Requests : pc[r] = "save" /\ Current(r) = k}}
      \cup {Rec(q) : q \in {r \in Requests : opc[r] = IF k = "dns" THEN "freeDns" ELSE "freeOidc"}}
      \cup {Del(k)}

SetCluster(q, c) == /\ cluster' = [cluster EXCEPT ![q] = c]
                    /\ fresh' = fresh \ ReadersOfCluster(q)
SetRes(k, r) == /\ res' = [res EXCEPT ![k] = r]
                /\ fresh' = fresh \ ReadersOfRes(k)

Goto(q, l) == pc' = [pc EXCEPT ![q] = l]

-----------------------------------------------------------------------------
(* ClusterHandler.Create. *)

\* resolveDNSReservation and oidcConfigUsable: only the former looks at the
\* deletion timestamp.
Usable(k) == /\ Present(res[k]) /\ res[k].ready
             /\ k = "dns" => res[k].state = "live"

Resolve(q) == /\ pc[q] = "resolve" /\ todo[q] # {}
              /\ IF Usable(Current(q)) /\ res[Current(q)].claim = NoCluster
                   THEN todo' = [todo EXCEPT ![q] = @ \ {Current(q)}] /\ UNCHANGED pc
                   ELSE Goto(q, "failed") /\ UNCHANGED todo
              /\ UNCHANGED <<wants, early, cluster, res, auto, del, opc, fresh, faults>>

\* CreateCluster, with the operator's finalizer; it may fail on the name.
Create(q) == /\ pc[q] = "resolve" /\ todo[q] = {}
             /\ \/ /\ SetCluster(q, [cluster[q] EXCEPT !.state = "live"])
                   /\ Goto(q, IF "oidc" \in wants[q] THEN "claim" ELSE "issuer")
                   /\ todo' = [todo EXCEPT ![q] = wants[q]]
                \/ Goto(q, "failed") /\ UNCHANGED <<cluster, todo, fresh>>
             /\ UNCHANGED <<wants, early, res, auto, del, opc, faults>>

\* updateManagedIssuerURL, for a Cluster without an OidcConfig.
Issuer(q) == /\ pc[q] = "issuer"
             /\ IF Present(cluster[q])
                  THEN SetCluster(q, cluster[q]) /\ Goto(q, "claim")
                  ELSE Goto(q, "cleanup") /\ UNCHANGED <<cluster, fresh>>
             /\ UNCHANGED <<wants, early, res, auto, todo, del, opc, faults>>

\* claimResource: LoadByUID and the checks on what it returned.
Load(q) == LET k == Current(q) IN
    /\ pc[q] = "claim" /\ todo[q] # {}
    /\ \/ /\ Present(res[k]) /\ res[k].claim = q
          /\ todo' = [todo EXCEPT ![q] = @ \ {k}]
          /\ UNCHANGED <<pc, fresh>>
       \/ /\ Usable(k) /\ res[k].claim = NoCluster
          /\ fresh' = fresh \cup {Req(q)}
          /\ Goto(q, "save") /\ UNCHANGED todo
       \/ /\ res[k].claim # q \/ ~Present(res[k])
          /\ ~Usable(k) \/ res[k].claim # NoCluster
          /\ Goto(q, "cleanup") /\ UNCHANGED <<todo, fresh>>
    /\ UNCHANGED <<wants, early, cluster, res, auto, del, opc, faults>>

\* claimResource: Save.  A conflict is tried again, for a while.
Save(q) == LET k == Current(q) IN
    /\ pc[q] = "save"
    /\ \/ /\ Req(q) \in fresh
          /\ SetRes(k, [res[k] EXCEPT !.claim = q])
          /\ todo' = [todo EXCEPT ![q] = @ \ {k}]
          /\ Goto(q, "claim")
       \/ /\ Req(q) \notin fresh
          /\ pc' \in {[pc EXCEPT ![q] = l] : l \in {"claim", "cleanup"}}
          /\ UNCHANGED <<res, todo, fresh>>
    /\ UNCHANGED <<wants, early, cluster, auto, del, opc, faults>>

\* Every claim is in place: lastUsedTimestamp is written, or is not, and the
\* request returns 201.
Return(q) == /\ pc[q] = "claim" /\ todo[q] = {}
             /\ Goto(q, "done")
             /\ \/ "oidc" \in wants[q] /\ Present(res["oidc"]) /\ SetRes("oidc", res["oidc"])
                \/ UNCHANGED <<res, fresh>>
             /\ UNCHANGED <<wants, early, cluster, auto, todo, del, opc, faults>>

\* deleteClusterForCleanup, and the request returns an error.
Cleanup(q) == /\ pc[q] = "cleanup"
              /\ Goto(q, "failed")
              /\ IF Present(cluster[q])
                   THEN SetCluster(q, [cluster[q] EXCEPT !.state = "deleting"])
                   ELSE UNCHANGED <<cluster, fresh>>
              /\ UNCHANGED <<wants, early, res, auto, todo, del, opc, faults>>

\* A call fails, the write it asked for done or not.  After that the request
\* cleans up; when that fails too, or with the process, it just ends.
RequestFails(q) ==
    /\ pc[q] \in Running /\ Fault
    /\ \/ /\ pc[q] = "save" /\ Req(q) \in fresh
          /\ SetRes(Current(q), [res[Current(q)] EXCEPT !.claim = q])
          /\ UNCHANGED cluster
       \/ /\ pc[q] = "resolve" /\ todo[q] = {}
          /\ SetCluster(q, [cluster[q] EXCEPT !.state = "live"])
          /\ UNCHANGED res
       \/ fresh' = fresh \ {Req(q)} /\ UNCHANGED <<cluster, res>>
    /\ \/ pc[q] \in {"issuer", "claim", "save"} /\ Goto(q, "cleanup")
       \/ Goto(q, "failed")
    /\ UNCHANGED <<wants, early, auto, todo, del, opc>>

-----------------------------------------------------------------------------
(* Other requests, and the controllers of the two resources. *)

\* ClusterHandler.Delete.
DeleteCluster(q) == /\ cluster[q].state = "live"
                    /\ early' = IF pc[q] \in Running THEN early \cup {q} ELSE early
                    /\ SetCluster(q, [cluster[q] EXCEPT !.state = "deleting"])
                    /\ UNCHANGED <<wants, res, auto, qvars, del, opc, faults>>

\* The delete handlers: the resource is read and is not claimed ...
DeleteRead(k) == /\ del[k] = "idle"
                 /\ res[k].state = "live" /\ res[k].claim = NoCluster
                 /\ del' = [del EXCEPT ![k] = "delete"] /\ fresh' = fresh \cup {Del(k)}
                 /\ UNCHANGED <<wants, early, cluster, res, auto, qvars, opc, faults>>

\* Mutant: the delete does not compare versions.
DeleteSave_Blind(k) == /\ del[k] = "delete"
                       /\ del' = [del EXCEPT ![k] = "idle"]
                       /\ IF res[k].state = "live"
                            THEN SetRes(k, [res[k] EXCEPT !.state = "deleting"])
                            ELSE fresh' = fresh \ {Del(k)} /\ UNCHANGED res
                       /\ UNCHANGED <<wants, early, cluster, auto, qvars, opc, faults>>

\* ... and deleted, unless it has changed.
DeleteSave(k) == /\ del[k] = "delete"
                 /\ del' = [del EXCEPT ![k] = "idle"]
                 /\ IF Del(k) \in fresh
                      THEN SetRes(k, [res[k] EXCEPT !.state = "deleting"])
                      ELSE UNCHANGED <<res, fresh>>
                 /\ UNCHANGED <<wants, early, cluster, auto, qvars, opc, faults>>

\* Their reconcileDelete removes the finalizer, whoever holds the claim.
Finalize(k) == /\ res[k].state = "deleting"
               /\ SetRes(k, [res[k] EXCEPT !.state = "gone"])
               /\ UNCHANGED <<wants, early, cluster, auto, qvars, del, opc, faults>>

\* Their status: a reservation gets its domain, a config becomes reachable ...
BecomesReady(k) == /\ res[k].state = "live" /\ ~res[k].ready
                   /\ SetRes(k, [res[k] EXCEPT !.ready = TRUE])
                   /\ UNCHANGED <<wants, early, cluster, auto, qvars, del, opc, faults>>

\* ... and may be found unreachable later.
BecomesError == /\ res["oidc"].state = "live" /\ res["oidc"].ready /\ Fault
                /\ SetRes("oidc", [res["oidc"] EXCEPT !.ready = FALSE])
                /\ UNCHANGED <<wants, early, cluster, auto, qvars, del, opc>>

AutoReady(q) == /\ auto[q] = "live" /\ Present(cluster[q])
                /\ auto' = [auto EXCEPT ![q] = "ready"]
                /\ UNCHANGED <<wants, early, cluster, res, qvars, del, opc, fresh, faults>>

AutoGone(q) == /\ auto[q] = "deleting"
               /\ auto' = [auto EXCEPT ![q] = "gone"]
               /\ UNCHANGED <<wants, early, cluster, res, qvars, del, opc, fresh, faults>>

-----------------------------------------------------------------------------
(* ClusterReconciler.Reconcile, one at a time for each Cluster. *)

OGoto(q, l) == opc' = [opc EXCEPT ![q] = l]

\* The Cluster is read; a deletion is noted in its phase.
Reconcile(q) ==
    /\ opc[q] = "idle" /\ Present(cluster[q])
    /\ \/ /\ cluster[q].state = "deleting" /\ OGoto(q, "release")
          /\ SetCluster(q, [cluster[q] EXCEPT !.stage = "deleting"])
       \/ /\ cluster[q].state = "live" /\ cluster[q].ref /\ OGoto(q, "dns")
          /\ UNCHANGED <<cluster, fresh>>
       \/ /\ cluster[q].state = "live" /\ ~cluster[q].ref /\ OGoto(q, "auto")
          /\ fresh' = fresh \cup {Rec(q)} /\ UNCHANGED cluster
    /\ UNCHANGED <<wants, early, res, auto, qvars, del, faults>>

\* ensureAutomaticDNSReservation: found or created, then referred to.
EnsureAuto(q) == /\ opc[q] = "auto" /\ OGoto(q, "ref")
                 /\ auto' = [auto EXCEPT ![q] = IF @ = "none" THEN "live" ELSE @]
                 /\ UNCHANGED <<wants, early, cluster, res, qvars, del, fresh, faults>>

\* Mutant: the reference is set on the copy and not saved.
SetRef_NotSaved(q) == /\ opc[q] = "ref" /\ OGoto(q, "idle")
                      /\ fresh' = fresh \ {Rec(q)}
                      /\ UNCHANGED <<wants, early, cluster, res, auto, qvars, del, faults>>

SetRef(q) == /\ opc[q] = "ref" /\ OGoto(q, "idle")
             /\ IF Rec(q) \in fresh
                  THEN SetCluster(q, [cluster[q] EXCEPT !.ref = TRUE])
                  ELSE UNCHANGED <<cluster, fresh>>
             /\ UNCHANGED <<wants, early, res, auto, qvars, del, faults>>

\* confirmedDNSReservation: the reservation ...
DNSConfirmed(q) == IF "dns" \in wants[q]
                     THEN res["dns"].state = "live" /\ res["dns"].claim = q /\ res["dns"].ready
                     ELSE auto[q] = "ready"
CheckDNS(q) == /\ opc[q] = "dns"
               /\ OGoto(q, IF ~DNSConfirmed(q) THEN "wait"
                           ELSE IF "oidc" \in wants[q] THEN "oidc" ELSE "confirmed")
               /\ UNCHANGED <<wants, early, cluster, res, auto, qvars, del, fresh, faults>>

\* ... and the OidcConfig, of which only the claim counts.
CheckOIDC(q) == /\ opc[q] = "oidc"
                /\ OGoto(q, IF Present(res["oidc"]) /\ res["oidc"].claim = q
                              THEN "confirmed" ELSE "wait")
                /\ UNCHANGED <<wants, early, cluster, res, auto, qvars, del, fresh, faults>>

\* Mutant: a Cluster is given up at once.
Unconfirmed_AtOnce(q) ==
    /\ opc[q] = "wait"
    /\ IF cluster[q].stage \in {"new", "domain"} /\ cluster[q].state = "live"
         THEN OGoto(q, "drop") /\ fresh' = fresh \cup {Rec(q)}
         ELSE OGoto(q, "idle") /\ UNCHANGED fresh
    /\ UNCHANGED <<wants, early, cluster, res, auto, qvars, del, faults>>

\* Not confirmed: wait, or give the Cluster up.  Its status is written first.
Unconfirmed(q) ==
    /\ opc[q] = "wait"
    /\ IF cluster[q].stage \in {"new", "domain"} /\ cluster[q].aged /\ cluster[q].state = "live"
         THEN OGoto(q, "drop") /\ fresh' = fresh \cup {Rec(q)}
         ELSE OGoto(q, "idle") /\ UNCHANGED fresh
    /\ UNCHANGED <<wants, early, cluster, res, auto, qvars, del, faults>>

Drop(q) == /\ opc[q] = "drop" /\ OGoto(q, "idle")
           /\ IF Rec(q) \in fresh
                THEN SetCluster(q, [cluster[q] EXCEPT !.state = "deleting"])
                ELSE UNCHANGED <<cluster, fresh>>
           /\ UNCHANGED <<wants, early, res, auto, qvars, del, faults>>

\* Confirmed: persistBaseDomain, and with the domain in place setPhase.
Confirm(q) == /\ opc[q] = "confirmed" /\ OGoto(q, "idle")
              /\ IF Present(cluster[q]) /\ cluster[q].stage \in {"new", "domain"}
                   THEN SetCluster(q, [cluster[q] EXCEPT !.stage =
                                         IF @ = "new" THEN "domain" ELSE "started"])
                   ELSE UNCHANGED <<cluster, fresh>>
              /\ UNCHANGED <<wants, early, res, auto, qvars, del, faults>>

\* cleanupAndRemoveFinalizer: releaseOidcConfigClaim reads ...
Release(q) == /\ opc[q] = "release"
              /\ IF "oidc" \in wants[q] /\ Present(res["oidc"]) /\ res["oidc"].claim = q
                   THEN OGoto(q, "freeOidc") /\ fresh' = fresh \cup {Rec(q)}
                   ELSE OGoto(q, "list") /\ UNCHANGED fresh
              /\ UNCHANGED <<wants, early, cluster, res, auto, qvars, del, faults>>

\* Mutant: a conflict is taken for a release.
Free_NoRetry(q, k, this, again, next) ==
    /\ opc[q] = this /\ OGoto(q, next)
    /\ IF Rec(q) \in fresh
         THEN SetRes(k, [res[k] EXCEPT !.claim = NoCluster])
         ELSE UNCHANGED <<res, fresh>>
    /\ UNCHANGED <<wants, early, cluster, auto, qvars, del, faults>>

\* ... and writes; a conflict is tried again, for a while.
Free(q, k, this, again, next) ==
    /\ opc[q] = this
    /\ \/ /\ Rec(q) \in fresh
          /\ SetRes(k, [res[k] EXCEPT !.claim = NoCluster])
          /\ OGoto(q, next)
       \/ /\ Rec(q) \notin fresh
          /\ opc' \in {[opc EXCEPT ![q] = l] : l \in {again, "idle"}}
          /\ UNCHANGED <<res, fresh>>
    /\ UNCHANGED <<wants, early, cluster, auto, qvars, del, faults>>
FreeOIDC(q) == Free(q, "oidc", "freeOidc", "release", "list")
FreeDNS(q) == Free(q, "dns", "freeDns", "list", "finalize")

\* The reservations that carry the Cluster's UID: an automatic one is deleted
\* and waited for, a customer's is read to be released.
ListDNS(q) ==
    /\ opc[q] = "list"
    /\ \/ /\ auto[q] \in {"live", "ready", "deleting"}
          /\ auto' = [auto EXCEPT ![q] = "deleting"]
          /\ OGoto(q, "idle") /\ UNCHANGED fresh
       \/ /\ auto[q] \in {"none", "gone"}
          /\ IF Present(res["dns"]) /\ res["dns"].claim = q
               THEN IF res["dns"].state = "deleting" THEN OGoto(q, "idle") /\ UNCHANGED fresh
                    ELSE OGoto(q, "freeDns") /\ fresh' = fresh \cup {Rec(q)}
               ELSE OGoto(q, "finalize") /\ UNCHANGED fresh
          /\ UNCHANGED auto
    /\ UNCHANGED <<wants, early, cluster, res, qvars, del, faults>>

RemoveFinalizer(q) == /\ opc[q] = "finalize" /\ OGoto(q, "idle")
                      /\ SetCluster(q, [cluster[q] EXCEPT !.state = "gone"])
                      /\ UNCHANGED <<wants, early, res, auto, qvars, del, faults>>

\* A call of the reconcile fails, or the operator restarts.
ReconcileFails(q) == /\ opc[q] # "idle" /\ OGoto(q, "idle") /\ Fault
                     /\ fresh' = fresh \ {Rec(q)}
                     /\ UNCHANGED <<wants, early, cluster, res, auto, qvars, del>>

\* Ten minutes have passed since the Cluster was created: more than a request
\* or a reconcile takes.
Age(q) == /\ cluster[q].state = "live" /\ ~cluster[q].aged
          /\ pc[q] \in {"done", "failed"} /\ opc[q] = "idle"
          /\ cluster' = [cluster EXCEPT ![q].aged = TRUE]
          /\ UNCHANGED <<wants, early, res, auto, qvars, del, opc, fresh, faults>>

-----------------------------------------------------------------------------
Request(q) == Resolve(q) \/ Create(q) \/ Issuer(q) \/ Load(q) \/ Save(q)
                \/ Return(q) \/ Cleanup(q)
Controller(q) == Reconcile(q) \/ EnsureAuto(q) \/ SetRef(q) \/ CheckDNS(q) \/ CheckOIDC(q)
                   \/ Unconfirmed(q) \/ Drop(q) \/ Confirm(q) \/ Release(q) \/ FreeOIDC(q)
                   \/ ListDNS(q) \/ FreeDNS(q) \/ RemoveFinalizer(q)
Elsewhere(q) == AutoReady(q) \/ AutoGone(q)

Next == \/ \E q \in Requests : \/ Request(q) \/ RequestFails(q) \/ DeleteCluster(q)
                               \/ Controller(q) \/ ReconcileFails(q) \/ Elsewhere(q) \/ Age(q)
        \/ \E k \in Kinds : DeleteRead(k) \/ DeleteSave(k) \/ Finalize(k) \/ BecomesReady(k)
        \/ BecomesError

Spec == Init /\ [][Next]_vars

\* Requests run to their end, the work queue delivers every Cluster again
\* (RequeueAfter, or back-off after an error), and time passes.
FairSpec == /\ Spec
            /\ \A q \in Requests : /\ WF_vars(Request(q)) /\ WF_vars(Controller(q))
                                   /\ WF_vars(Elsewhere(q)) /\ SF_vars(Age(q))

-----------------------------------------------------------------------------
Holds(q, k) == Present(res[k]) /\ res[k].claim = q
DomainHeld(q) == IF "dns" \in wants[q] THEN res["dns"].state = "live" /\ res["dns"].claim = q
                 ELSE auto[q] = "ready"

\* A Cluster the operator provisions holds what it was created with: its
\* reservation exists and carries its UID, and so does its OidcConfig's claim
\* (RESOURCE_IDENTITY_IMPLEMENTATION_PLAN.md:157, 214; the delete handlers, the
\* claims of other requests and the releases of other Clusters all race).
HoldsIts(q) == cluster[q].state = "live" /\ cluster[q].stage \in {"domain", "started"} =>
                   DomainHeld(q) /\ ("oidc" \in wants[q] => res["oidc"].claim = q)
ClaimsHeld == TypeOK /\ \A q \in Requests : HoldsIts(q)

\* A Cluster that is gone holds nothing (cluster_controller.go:778: "a missed
\* release permanently orphans the config").  The exception: a customer deleted it
\* while its create was still running, which then claims for a Cluster that is
\* gone.
LeavesNothing(q) == cluster[q].state = "gone" => /\ \A k \in Kinds : ~Holds(q, k)
                                                 /\ auto[q] \in {"none", "gone"}
NoOrphanClaim == \A q \in Requests \ early : LeavesNothing(q)

\* The claim timeout deletes no Cluster with a reservation of the customer's whose
\* create returned 201, as long as its OidcConfig exists
\* (deleteClusterWithUnconfirmedClaims acts on an earlier look at the claims and
\* does not look again).  An automatic reservation may take longer than that.
AcceptedStays ==
    [][\A q \in Requests :
          /\ pc[q] = "done" /\ opc[q] = "drop" /\ opc'[q] = "idle"
          /\ "dns" \in wants[q]
          /\ "oidc" \in wants[q] => res["oidc"].state = "live"
          => cluster'[q] = cluster[q]]_vars

\* Every Cluster is provisioned or goes away, whatever happened to its request,
\* and one that is deleted goes away.
ClusterSettles ==
    \A q \in Requests :
        /\ cluster[q].state = "live" ~> cluster[q].stage = "started" \/ cluster[q].state = "gone"
        /\ cluster[q].state = "deleting" ~> cluster[q].state = "gone"

\* Claims and Clusters agree: a provisioned Cluster holds its claims, and one that
\* is gone holds none.
ClaimsConsistent == ClaimsHeld /\ NoOrphanClaim

-----------------------------------------------------------------------------
(* What ClaimsConsistent and AcceptedStays rest on: the inductive invariant. *)

\* What was read is still so as long as nobody has written the object: the
\* version a write is made under stands for all that its writer relies on.
RequestReads(q) == Req(q) \in fresh => /\ pc[q] = "save" /\ Usable(Current(q))
                                       /\ res[Current(q)].claim = NoCluster
ReconcileReads(q) ==
    Rec(q) \in fresh =>
        \/ opc[q] \in {"auto", "ref"} /\ cluster[q].state = "live"
        \/ opc[q] = "drop" /\ cluster[q].state = "live" /\ cluster[q].aged
        \/ opc[q] = "freeOidc" /\ Present(res["oidc"]) /\ res["oidc"].claim = q
        \/ opc[q] = "freeDns" /\ res["dns"].state = "live" /\ res["dns"].claim = q
DeleteReads(k) == Del(k) \in fresh => /\ del[k] = "delete"
                                      /\ res[k].state = "live" /\ res[k].claim = NoCluster

\* A request holds what it has claimed until its Cluster is deleted, and its
\* Cluster is given up, or deleted unnoticed, only after it.
Ended == {"done", "failed"}
RequestSound(q) ==
    /\ todo[q] \subseteq wants[q]
    /\ pc[q] = "resolve" => cluster[q].state = "none" /\ cluster[q].stage = "new"
    /\ pc[q] = "issuer" => todo[q] = wants[q]
    /\ pc[q] = "save" => todo[q] # {}
    /\ pc[q] = "done" => todo[q] = {}
    /\ cluster[q].state = "live" /\ pc[q] \in {"issuer", "claim", "save", "done"} =>
          \A k \in wants[q] \ todo[q] : res[k].claim = q
    /\ cluster[q].aged => pc[q] \in Ended
    /\ cluster[q].state \in {"deleting", "gone"} /\ q \notin early => pc[q] \in Ended

\* A reconcile: what it has confirmed stays, what it has given back is not
\* taken again, and it gives up no Cluster that has its claims.
ReconcileSound(q) ==
    /\ cluster[q].state \in {"none", "gone"} => opc[q] = "idle"
    /\ opc[q] \in {"release", "freeOidc", "list", "freeDns", "finalize"} =>
          cluster[q].state = "deleting"
    /\ opc[q] \in {"oidc", "confirmed"} => DomainHeld(q)
    /\ opc[q] = "oidc" => "oidc" \in wants[q]
    /\ opc[q] = "confirmed" /\ "oidc" \in wants[q] => res["oidc"].claim = q
    /\ opc[q] \in {"list", "freeDns", "finalize"} /\ q \notin early => ~Holds(q, "oidc")
    /\ opc[q] \in {"freeDns", "finalize"} => auto[q] \in {"none", "gone"}
    /\ opc[q] = "finalize" /\ q \notin early => ~Holds(q, "dns")
    /\ /\ opc[q] \in {"wait", "drop"} /\ cluster[q].aged /\ cluster[q].state = "live"
       /\ pc[q] = "done" /\ "dns" \in wants[q]
       => "oidc" \in wants[q] /\ res["oidc"].state # "live"

\* Claims are made for what was asked for; a claimed reservation stays Ready.
ResourcesSound ==
    /\ \A k \in Kinds : res[k].claim # NoCluster => k \in wants[res[k].claim]
    /\ res["dns"].claim # NoCluster => res["dns"].state = "live" /\ res["dns"].ready

ClusterSound(q) ==
    /\ RequestReads(q) /\ ReconcileReads(q) /\ RequestSound(q) /\ ReconcileSound(q)
    /\ HoldsIts(q) /\ (q \notin early => LeavesNothing(q))

ClaimsInv == /\ TypeOK /\ ResourcesSound
             /\ \A k \in Kinds : DeleteReads(k)
             /\ \A q \in Requests : ClusterSound(q)
=============================================================================
