---------------------------- MODULE ClaimsProofs ----------------------------
(***************************************************************************)
(* Proof, for any number of create requests, whatever they refer to, and   *)
(* of faults, that claims and Clusters agree and that the claim timeout    *)
(* deletes no Cluster that has its claims.                                 *)
(***************************************************************************)
EXTENDS Claims, TLAPS

-----------------------------------------------------------------------------
(* Operators of the model. *)

\* Those who read are told apart.
LEMMA Readers ==
    /\ \A q, p : Req(q) = Req(p) => q = p
    /\ \A q, p : Rec(q) = Rec(p) => q = p
    /\ \A k, j : Del(k) = Del(j) => k = j
    /\ \A q, p : Req(q) # Rec(p) /\ Req(q) # Del(p) /\ Rec(q) # Del(p)
  BY DEF Req, Rec, Del

\* A write of a resource makes stale what was read of it, and nothing else.
LEMMA ResReaders ==
    ASSUME NEW k \in Kinds
    PROVE  /\ \A q \in Requests : Req(q) \in ReadersOfRes(k) <=> pc[q] = "save" /\ Current(q) = k
           /\ \A q \in Requests : Rec(q) \in ReadersOfRes(k) <=>
                                     opc[q] = (IF k = "dns" THEN "freeDns" ELSE "freeOidc")
           /\ \A j \in Kinds : Del(j) \in ReadersOfRes(k) <=> j = k
  BY Readers DEF ReadersOfRes

\* So does a write of a Cluster.
LEMMA ClusterReaders ==
    ASSUME NEW q \in Requests
    PROVE  /\ \A p \in Requests : Req(p) \notin ReadersOfCluster(q)
           /\ \A p \in Requests : Rec(p) \in ReadersOfCluster(q) <=>
                                     p = q /\ opc[q] \in {"auto", "ref", "drop"}
           /\ \A j \in Kinds : Del(j) \notin ReadersOfCluster(q)
  BY Readers DEF ReadersOfCluster

-----------------------------------------------------------------------------
(* Two kinds of steps: of one Cluster, and of one resource. *)

\* Nothing about p changes but, perhaps, that something it read is stale.
Same(p) == /\ cluster'[p] = cluster[p] /\ auto'[p] = auto[p]
           /\ pc'[p] = pc[p] /\ todo'[p] = todo[p] /\ opc'[p] = opc[p]
           /\ p \in early <=> p \in early'
           /\ Req(p) \in fresh' => Req(p) \in fresh
           /\ Rec(p) \in fresh' => Rec(p) \in fresh

\* What was read for a delete request can only become stale.
SameDeletes == /\ del' = del
               /\ \A k \in Kinds : Del(k) \in fresh' => Del(k) \in fresh

\* A Cluster and a request that nothing happens to stay sound.
LEMMA SameIsSound ==
    ASSUME NEW p \in Requests, ClusterSound(p), Same(p), UNCHANGED <<wants, res>>
    PROVE  ClusterSound(p)'
  <1>1. (RequestReads(p) /\ ReconcileReads(p))'
    BY DEF ClusterSound, Same, RequestReads, ReconcileReads, Usable, Present, Current
  <1>2. RequestSound(p)'
    BY DEF ClusterSound, Same, RequestSound
  <1>3. ReconcileSound(p)'
    BY DEF ClusterSound, Same, ReconcileSound, DomainHeld, Holds, Present
  <1>4. HoldsIts(p)' /\ (p \notin early => LeavesNothing(p))'
    BY DEF ClusterSound, Same, HoldsIts, LeavesNothing, DomainHeld, Holds, Present
  <1>. QED
    BY <1>1, <1>2, <1>3, <1>4 DEF ClusterSound

\* A step of one Cluster and its request leaves the others sound.
LEMMA ClusterStep ==
    ASSUME ClaimsInv, TypeOK', NEW q \in Requests, UNCHANGED <<wants, res>>, SameDeletes,
           \A p \in Requests \ {q} : Same(p),
           ClusterSound(q)'
    PROVE  ClaimsInv'
  <1>1. ASSUME NEW p \in Requests, p # q PROVE ClusterSound(p)'
    BY <1>1, SameIsSound DEF ClaimsInv
  <1>2. ResourcesSound' /\ \A k \in Kinds : DeleteReads(k)'
    BY DEF ClaimsInv, ResourcesSound, DeleteReads, SameDeletes
  <1>. QED
    BY <1>1, <1>2 DEF ClaimsInv

\* A write of resource k, after which it is no more alive than before, no claim
\* of it is lost but by a release, and none is new but that of a request about
\* to claim it.
Written(k) ==
    /\ \A j \in Kinds : j # k => res'[j] = res[j]
    /\ res'[k].state = "live" => res[k].state = "live"
    /\ Present(res'[k]) => Present(res[k])
    /\ \A p \in Requests : res[k].claim = p /\ res'[k].claim # p => opc[p] \in {"freeDns", "freeOidc"}
    /\ \A p \in Requests : res'[k].claim = p /\ res[k].claim # p => pc[p] = "save" /\ k \in wants[p]
    /\ k = "dns" /\ res'[k].claim # NoCluster => res'[k].state = "live" /\ res'[k].ready

\* Such a step leaves those sound that do not move.
LEMMA ResourceStep ==
    ASSUME ClaimsInv, TypeOK', NEW k \in Kinds, UNCHANGED <<wants, early, cluster, auto>>,
           Written(k), fresh' = fresh \ ReadersOfRes(k),
           \A j \in Kinds : j # k => del'[j] = del[j],
           \A p \in Requests : \/ pc'[p] = pc[p] /\ todo'[p] = todo[p] /\ opc'[p] = opc[p]
                               \/ ClusterSound(p)'
    PROVE  ClaimsInv'
  <1>1. ASSUME NEW p \in Requests, pc'[p] = pc[p], todo'[p] = todo[p], opc'[p] = opc[p]
        PROVE  ClusterSound(p)'
    <2>1. ClusterSound(p) /\ ResourcesSound /\ p # NoCluster /\ wants[p] \subseteq Kinds
      BY NoClusterIsNone DEF ClaimsInv, TypeOK
    <2>2. Current(p)' = Current(p) /\ Current(p) \in Kinds
      BY <1>1 DEF Current, Kinds
    <2>3. RequestReads(p)'
      BY <2>1, <2>2, <1>1, ResReaders DEF ClusterSound, RequestReads, Usable, Present, Written
    <2>4. ReconcileReads(p)'
      BY <2>1, <1>1, ResReaders DEF ClusterSound, ReconcileReads, Present, Written, Kinds
    <2>5. RequestSound(p)'
      BY <2>1, <1>1 DEF ClusterSound, RequestSound, ReconcileSound, Written
    <2>6. ReconcileSound(p)'
      BY <2>1, <1>1 DEF ClusterSound, RequestSound, ReconcileSound, Written, DomainHeld, Holds, Present, Kinds, Ended
    <2>7. HoldsIts(p)'
      <3>1. SUFFICES ASSUME cluster[p].state = "live", cluster[p].stage \in {"domain", "started"}
                     PROVE  DomainHeld(p)' /\ ("oidc" \in wants[p] => res'["oidc"].claim = p)
        BY Zenon DEF HoldsIts
      <3>2. /\ DomainHeld(p) /\ ("oidc" \in wants[p] => res["oidc"].claim = p)
            /\ opc[p] \notin {"freeDns", "freeOidc"}
        BY <2>1, <3>1 DEF ClusterSound, ReconcileSound, HoldsIts
      <3>3. \A j \in Kinds : res[j].claim = p => res'[j].claim = p
        BY <3>2, Zenon DEF Written
      <3>4. "dns" \in wants[p] => res'["dns"].claim = p /\ res'["dns"].state = "live"
        BY <2>1, <3>2, <3>3 DEF DomainHeld, Written, Kinds
      <3>. QED
        BY <3>2, <3>3, <3>4 DEF DomainHeld, Kinds
    <2>8. (p \notin early => LeavesNothing(p))'
      BY <2>1, <1>1 DEF ClusterSound, RequestSound, LeavesNothing, Written, Holds, Present, Ended
    <2>. QED
      BY <2>3, <2>4, <2>5, <2>6, <2>7, <2>8 DEF ClusterSound
  <1>2. ResourcesSound'
    BY NoClusterIsNone DEF ClaimsInv, ResourcesSound, Written, TypeOK, Resource, Kinds
  <1>3. ASSUME NEW j \in Kinds PROVE DeleteReads(j)'
    BY ResReaders DEF ClaimsInv, DeleteReads, Written
  <1>. QED
    BY <1>1, <1>2, <1>3 DEF ClaimsInv

\* A write of Cluster q, and what it makes stale.
OnlyCluster(q) ==
    /\ cluster' \in [Requests -> Cluster]
    /\ \A p \in Requests : p # q => cluster'[p] = cluster[p]
    /\ fresh' \subseteq fresh
    /\ Rec(q) \in fresh' => opc[q] \notin {"auto", "ref", "drop"}

\* The writes of a Cluster set one field.
LEMMA StateWritten ==
    ASSUME TypeOK, NEW q \in Requests, NEW s \in {"live", "deleting", "gone"},
           SetCluster(q, [cluster[q] EXCEPT !.state = s])
    PROVE  /\ OnlyCluster(q)
           /\ cluster'[q].state = s /\ cluster'[q].stage = cluster[q].stage /\ cluster'[q].aged = cluster[q].aged
  <1>1. cluster \in [Requests -> Cluster] /\ cluster' = [cluster EXCEPT ![q] = [cluster[q] EXCEPT !.state = s]]
    BY DEF TypeOK, SetCluster
  <1>2. /\ cluster' \in [Requests -> Cluster] /\ \A p \in Requests : p # q => cluster'[p] = cluster[p]
        /\ cluster'[q].state = s /\ cluster'[q].stage = cluster[q].stage /\ cluster'[q].aged = cluster[q].aged
    BY <1>1 DEF Cluster
  <1>. QED
    BY <1>2, ClusterReaders DEF SetCluster, OnlyCluster

\* Its phase.
LEMMA StageWritten ==
    ASSUME TypeOK, NEW q \in Requests, NEW s \in {"domain", "started", "deleting"},
           SetCluster(q, [cluster[q] EXCEPT !.stage = s])
    PROVE  /\ OnlyCluster(q)
           /\ cluster'[q].stage = s /\ cluster'[q].state = cluster[q].state /\ cluster'[q].aged = cluster[q].aged
  <1>1. cluster \in [Requests -> Cluster] /\ cluster' = [cluster EXCEPT ![q] = [cluster[q] EXCEPT !.stage = s]]
    BY DEF TypeOK, SetCluster
  <1>2. /\ cluster' \in [Requests -> Cluster] /\ \A p \in Requests : p # q => cluster'[p] = cluster[p]
        /\ cluster'[q].stage = s /\ cluster'[q].state = cluster[q].state /\ cluster'[q].aged = cluster[q].aged
    BY <1>1 DEF Cluster
  <1>. QED
    BY <1>2, ClusterReaders DEF SetCluster, OnlyCluster

\* Its reference to a reservation.
LEMMA RefWritten ==
    ASSUME TypeOK, NEW q \in Requests,
           SetCluster(q, [cluster[q] EXCEPT !.ref = TRUE])
    PROVE  /\ OnlyCluster(q)
           /\ cluster'[q].state = cluster[q].state /\ cluster'[q].stage = cluster[q].stage /\ cluster'[q].aged = cluster[q].aged
  <1>1. cluster \in [Requests -> Cluster] /\ cluster' = [cluster EXCEPT ![q] = [cluster[q] EXCEPT !.ref = TRUE]]
    BY DEF TypeOK, SetCluster
  <1>2. /\ cluster' \in [Requests -> Cluster] /\ \A p \in Requests : p # q => cluster'[p] = cluster[p]
        /\ cluster'[q].state = cluster[q].state /\ cluster'[q].stage = cluster[q].stage /\ cluster'[q].aged = cluster[q].aged
    BY <1>1 DEF Cluster
  <1>. QED
    BY <1>2, ClusterReaders DEF SetCluster, OnlyCluster

\* A write of resource k, and what it makes stale.
OnlyResource(k) == /\ res' \in [Kinds -> Resource]
                   /\ \A j \in Kinds : j # k => res'[j] = res[j]
                   /\ fresh' = fresh \ ReadersOfRes(k)

\* The writes of a resource set one field.
LEMMA ResStateWritten ==
    ASSUME TypeOK, NEW k \in Kinds, NEW s \in {"deleting", "gone"},
           SetRes(k, [res[k] EXCEPT !.state = s])
    PROVE  /\ OnlyResource(k)
           /\ res'[k].state = s /\ res'[k].claim = res[k].claim /\ res'[k].ready = res[k].ready
  <1>1. res \in [Kinds -> Resource] /\ res' = [res EXCEPT ![k] = [res[k] EXCEPT !.state = s]]
    BY DEF TypeOK, SetRes
  <1>2. /\ res' \in [Kinds -> Resource] /\ \A j \in Kinds : j # k => res'[j] = res[j]
        /\ res'[k].state = s /\ res'[k].claim = res[k].claim /\ res'[k].ready = res[k].ready
    BY <1>1 DEF Resource
  <1>. QED
    BY <1>2 DEF SetRes, OnlyResource

\* Its claim.
LEMMA ResClaimWritten ==
    ASSUME TypeOK, NEW k \in Kinds, NEW q \in Requests \cup {NoCluster},
           SetRes(k, [res[k] EXCEPT !.claim = q])
    PROVE  /\ OnlyResource(k)
           /\ res'[k].claim = q /\ res'[k].state = res[k].state /\ res'[k].ready = res[k].ready
  <1>1. res \in [Kinds -> Resource] /\ res' = [res EXCEPT ![k] = [res[k] EXCEPT !.claim = q]]
    BY DEF TypeOK, SetRes
  <1>2. /\ res' \in [Kinds -> Resource] /\ \A j \in Kinds : j # k => res'[j] = res[j]
        /\ res'[k].claim = q /\ res'[k].state = res[k].state /\ res'[k].ready = res[k].ready
    BY <1>1 DEF Resource
  <1>. QED
    BY <1>2 DEF SetRes, OnlyResource

\* Its readiness.
LEMMA ResReadyWritten ==
    ASSUME TypeOK, NEW k \in Kinds, NEW b \in BOOLEAN,
           SetRes(k, [res[k] EXCEPT !.ready = b])
    PROVE  /\ OnlyResource(k)
           /\ res'[k].ready = b /\ res'[k].state = res[k].state /\ res'[k].claim = res[k].claim
  <1>1. res \in [Kinds -> Resource] /\ res' = [res EXCEPT ![k] = [res[k] EXCEPT !.ready = b]]
    BY DEF TypeOK, SetRes
  <1>2. /\ res' \in [Kinds -> Resource] /\ \A j \in Kinds : j # k => res'[j] = res[j]
        /\ res'[k].ready = b /\ res'[k].state = res[k].state /\ res'[k].claim = res[k].claim
    BY <1>1 DEF Resource
  <1>. QED
    BY <1>2 DEF SetRes, OnlyResource

\* A step of a request that writes nothing.
LEMMA RequestMoves ==
    ASSUME ClaimsInv, NEW q \in Requests, NEW l \in Running \cup Ended, NEW t \in SUBSET wants[q],
           pc[q] \notin Ended, pc' = [pc EXCEPT ![q] = l], todo' = [todo EXCEPT ![q] = t],
           fresh' \subseteq fresh \cup {Req(q)}, faults' \in 0 .. MaxFaults,
           UNCHANGED <<wants, early, cluster, res, auto, del, opc>>,
           RequestReads(q)', RequestSound(q)'
    PROVE  ClaimsInv'
  <1>1. TypeOK' /\ pc'[q] = l
    BY DEF ClaimsInv, TypeOK, Ended
  <1>2. SameDeletes /\ \A p \in Requests \ {q} : Same(p)
    BY Readers DEF ClaimsInv, TypeOK, Same, SameDeletes
  <1>3. ClusterSound(q)'
    <2>1. ClusterSound(q) /\ (Rec(q) \in fresh' => Rec(q) \in fresh)
      BY Readers DEF ClaimsInv
    <2>2. ReconcileReads(q)' /\ HoldsIts(q)' /\ (q \notin early => LeavesNothing(q))'
      BY <2>1 DEF ClusterSound, ReconcileReads, HoldsIts, LeavesNothing, DomainHeld, Holds, Present
    <2>3. ReconcileSound(q)'
      BY <2>1 DEF ClusterSound, RequestSound, ReconcileSound, DomainHeld, Holds, Present
    <2>. QED
      BY <2>2, <2>3 DEF ClusterSound
  <1>. QED
    BY <1>1, <1>2, <1>3, ClusterStep

\* A step of a reconcile that writes nothing.
LEMMA ReconcileMoves ==
    ASSUME ClaimsInv, NEW q \in Requests,
           NEW l \in {"idle", "auto", "ref", "dns", "oidc", "wait", "drop", "confirmed", "release",
                      "freeOidc", "list", "freeDns", "finalize"},
           opc' = [opc EXCEPT ![q] = l],
           fresh' \subseteq fresh \cup {Rec(q)}, faults' \in 0 .. MaxFaults,
           UNCHANGED <<wants, early, cluster, res, auto, qvars, del>>,
           ReconcileReads(q)', ReconcileSound(q)'
    PROVE  ClaimsInv'
  <1>1. TypeOK'
    BY DEF ClaimsInv, TypeOK, qvars
  <1>2. SameDeletes /\ \A p \in Requests \ {q} : Same(p)
    BY Readers DEF ClaimsInv, TypeOK, Same, SameDeletes, qvars
  <1>3. ClusterSound(q)'
    <2>1. ClusterSound(q) /\ (Req(q) \in fresh' => Req(q) \in fresh)
      BY Readers DEF ClaimsInv
    <2>2. HoldsIts(q)' /\ (q \notin early => LeavesNothing(q))'
      BY <2>1 DEF ClusterSound, HoldsIts, LeavesNothing, DomainHeld, Holds, Present
    <2>3. RequestReads(q)' /\ RequestSound(q)'
      BY <2>1 DEF ClusterSound, RequestReads, RequestSound, qvars, Usable, Present, Current
    <2>. QED
      BY <2>2, <2>3 DEF ClusterSound
  <1>. QED
    BY <1>1, <1>2, <1>3, ClusterStep DEF qvars

-----------------------------------------------------------------------------
(* ClusterHandler.Create. *)

\* A resource is looked up: the request has no Cluster yet.
LEMMA ResolveInductive ==
    ASSUME ClaimsInv, NEW q \in Requests, Resolve(q)
    PROVE  ClaimsInv'
  <1>1. ClusterSound(q) /\ TypeOK
    BY DEF ClaimsInv
  <1>2. PICK l \in {"resolve", "failed"}, t \in SUBSET wants[q] :
           pc' = [pc EXCEPT ![q] = l] /\ todo' = [todo EXCEPT ![q] = t]
    <2>1. todo[q] \subseteq wants[q] /\ pc[q] = "resolve"
      BY <1>1 DEF ClusterSound, RequestSound, Resolve
    <2>2. CASE Usable(Current(q)) /\ res[Current(q)].claim = NoCluster
      BY <1>1, <2>1, <2>2 DEF Resolve, TypeOK
    <2>3. CASE ~(Usable(Current(q)) /\ res[Current(q)].claim = NoCluster)
      BY <1>1, <2>1, <2>3 DEF Resolve, TypeOK, Goto
    <2>. QED
      BY <2>2, <2>3
  <1>3. (RequestReads(q) /\ RequestSound(q))'
    BY <1>1, <1>2 DEF ClusterSound, RequestReads, RequestSound, Resolve, TypeOK, Ended
  <1>. QED
    BY <1>1, <1>2, <1>3, RequestMoves DEF Resolve, Running, Ended, TypeOK

\* The Cluster of a request begins: it holds nothing, and has all to claim.
LEMMA ClusterBegins ==
    ASSUME ClaimsInv, NEW q \in Requests, pc[q] = "resolve",
           SetCluster(q, [cluster[q] EXCEPT !.state = "live"]),
           NEW l \in {"claim", "issuer", "failed"}, NEW t \in SUBSET wants[q],
           pc' = [pc EXCEPT ![q] = l], todo' = [todo EXCEPT ![q] = t],
           l = "failed" \/ t = wants[q], faults' \in 0 .. MaxFaults,
           UNCHANGED <<wants, early, res, auto, del, opc>>
    PROVE  ClaimsInv'
  <1>1. ClusterSound(q) /\ TypeOK /\ cluster[q] \in Cluster
    BY DEF ClaimsInv, TypeOK
  <1>2. OnlyCluster(q)
    BY <1>1, StateWritten
  <1>3. cluster'[q].state = "live" /\ cluster'[q].stage = cluster[q].stage /\ cluster'[q].aged = cluster[q].aged
    BY <1>1, StateWritten
  <1>4. /\ pc'[q] = l /\ todo'[q] = t
        /\ \A p \in Requests : p # q => pc'[p] = pc[p] /\ todo'[p] = todo[p]
    BY <1>1 DEF TypeOK
  <1>5. TypeOK'
    BY <1>1, <1>2 DEF TypeOK, Running, OnlyCluster
  <1>6. SameDeletes /\ \A p \in Requests \ {q} : Same(p)
    BY <1>2, <1>4 DEF Same, SameDeletes, OnlyCluster
  <1>7. ClusterSound(q)'
    <2>1. RequestReads(q)' /\ ReconcileReads(q)'
      BY <1>1, <1>2, <1>3 DEF ClusterSound, RequestReads, ReconcileReads, RequestSound, ReconcileSound, OnlyCluster
    <2>2. RequestSound(q)'
      BY <1>1, <1>2, <1>3, <1>4 DEF ClusterSound, RequestSound, Ended
    <2>3. ReconcileSound(q)' /\ HoldsIts(q)' /\ LeavesNothing(q)'
      BY <1>1, <1>2, <1>3, <1>4 DEF ClusterSound, RequestSound, ReconcileSound, HoldsIts, LeavesNothing
    <2>. QED
      BY <2>1, <2>2, <2>3 DEF ClusterSound
  <1>. QED
    BY <1>5, <1>6, <1>7, ClusterStep

\* The Cluster is created, with every resource it asked for still to be claimed.
LEMMA CreateInductive ==
    ASSUME ClaimsInv, NEW q \in Requests, Create(q)
    PROVE  ClaimsInv'
  <1>1. ClusterSound(q) /\ TypeOK /\ faults' \in 0 .. MaxFaults
    BY DEF ClaimsInv, TypeOK, Create
  <1>2. CASE SetCluster(q, [cluster[q] EXCEPT !.state = "live"])
             /\ Goto(q, IF "oidc" \in wants[q] THEN "claim" ELSE "issuer")
             /\ todo' = [todo EXCEPT ![q] = wants[q]]
    BY <1>1, <1>2, ClusterBegins DEF Create, Goto
  <1>3. CASE Goto(q, "failed") /\ UNCHANGED <<cluster, todo, fresh>>
    <2>1. todo' = [todo EXCEPT ![q] = {}] /\ pc'[q] = "failed" /\ todo'[q] = {}
      BY <1>1, <1>3 DEF Create, TypeOK, Goto
    <2>2. (RequestReads(q) /\ RequestSound(q))'
      BY <1>1, <1>3, <2>1 DEF ClusterSound, RequestReads, RequestSound, Create, Ended
    <2>. QED
      BY <1>1, <1>3, <2>1, <2>2, RequestMoves DEF Create, Goto, Ended
  <1>. QED
    BY <1>2, <1>3 DEF Create

\* A write of the Cluster that sets none of its fields that matter.
LEMMA IssuerInductive ==
    ASSUME ClaimsInv, NEW q \in Requests, Issuer(q)
    PROVE  ClaimsInv'
  <1>1. ClusterSound(q) /\ TypeOK /\ cluster[q] \in Cluster /\ faults' \in 0 .. MaxFaults
        /\ pc[q] = "issuer" /\ todo[q] \subseteq wants[q] /\ todo' = [todo EXCEPT ![q] = todo[q]]
    BY DEF ClaimsInv, TypeOK, Issuer, ClusterSound, RequestSound
  <1>2. CASE Present(cluster[q])
    <2>1. SetCluster(q, cluster[q]) /\ pc' = [pc EXCEPT ![q] = "claim"]
      BY <1>2 DEF Issuer, Goto
    <2>2. cluster' = cluster /\ fresh' \subseteq fresh
      BY <1>1, <2>1 DEF SetCluster, TypeOK
    <2>3. (RequestReads(q) /\ RequestSound(q))'
      BY <1>1, <2>1, <2>2 DEF ClusterSound, RequestReads, RequestSound, Issuer, TypeOK, Ended
    <2>. QED
      BY <1>1, <2>1, <2>2, <2>3, RequestMoves DEF Issuer, Running, Ended
  <1>3. CASE ~Present(cluster[q])
    <2>1. UNCHANGED <<cluster, fresh>> /\ pc' = [pc EXCEPT ![q] = "cleanup"]
      BY <1>3 DEF Issuer, Goto
    <2>2. (RequestReads(q) /\ RequestSound(q))'
      BY <1>1, <2>1 DEF ClusterSound, RequestReads, RequestSound, Issuer, TypeOK, Ended
    <2>. QED
      BY <1>1, <2>1, <2>2, RequestMoves DEF Issuer, Running, Ended
  <1>. QED
    BY <1>2, <1>3

\* The resource is read, and what the request relies on is so.
LEMMA LoadInductive ==
    ASSUME ClaimsInv, NEW q \in Requests, Load(q)
    PROVE  ClaimsInv'
  <1>. DEFINE k == Current(q)
  <1>1. /\ ClusterSound(q) /\ TypeOK /\ faults' \in 0 .. MaxFaults /\ pc[q] = "claim"
        /\ todo[q] \subseteq wants[q] /\ todo[q] # {} /\ k \in todo[q] /\ pc[q] \notin Ended
        /\ Req(q) \notin fresh
    BY DEF ClaimsInv, TypeOK, Load, ClusterSound, RequestSound, RequestReads, Current, Kinds, Ended
  <1>2. CASE /\ Present(res[k]) /\ res[k].claim = q
             /\ todo' = [todo EXCEPT ![q] = @ \ {k}] /\ UNCHANGED <<pc, fresh>>
    <2>1. pc' = [pc EXCEPT ![q] = "claim"] /\ todo'[q] = todo[q] \ {k}
      BY <1>1, <1>2 DEF TypeOK
    <2>2. (RequestReads(q) /\ RequestSound(q))'
      BY <1>1, <1>2, <2>1 DEF ClusterSound, RequestReads, RequestSound, Load, TypeOK, Ended
    <2>. QED
      BY <1>1, <1>2, <2>1, <2>2, RequestMoves DEF Load, Running, Ended
  <1>3. CASE /\ Usable(k) /\ res[k].claim = NoCluster /\ fresh' = fresh \cup {Req(q)}
             /\ Goto(q, "save") /\ UNCHANGED todo
    <2>1. pc' = [pc EXCEPT ![q] = "save"] /\ todo' = [todo EXCEPT ![q] = todo[q]] /\ pc'[q] = "save"
      BY <1>1, <1>3 DEF TypeOK, Goto
    <2>2. RequestReads(q)'
      BY <1>3, <2>1 DEF RequestReads, Load, Usable, Present, Current
    <2>3. RequestSound(q)'
      BY <1>1, <1>3, <2>1 DEF ClusterSound, RequestSound, Load
    <2>. QED
      BY <1>1, <1>3, <2>1, <2>2, <2>3, RequestMoves DEF Load, Running
  <1>4. CASE Goto(q, "cleanup") /\ UNCHANGED <<todo, fresh>>
    <2>1. /\ pc' = [pc EXCEPT ![q] = "cleanup"] /\ todo' = [todo EXCEPT ![q] = todo[q]]
          /\ pc'[q] = "cleanup"
      BY <1>1, <1>4 DEF TypeOK, Goto
    <2>2. (RequestReads(q) /\ RequestSound(q))'
      BY <1>1, <1>4, <2>1 DEF ClusterSound, RequestReads, RequestSound, Load, Ended
    <2>. QED
      BY <1>1, <1>4, <2>1, <2>2, RequestMoves DEF Load, Running
  <1>. QED
    BY <1>2, <1>3, <1>4 DEF Load

\* A claim is written: nobody else held the resource, and it is in use no less.
LEMMA ClaimMade ==
    ASSUME ClaimsInv, NEW q \in Requests, pc[q] = "save", Req(q) \in fresh,
           SetRes(Current(q), [res[Current(q)] EXCEPT !.claim = q]),
           NEW l \in {"claim", "cleanup", "failed"},
           NEW t \in {todo[q], todo[q] \ {Current(q)}},
           pc' = [pc EXCEPT ![q] = l], todo' = [todo EXCEPT ![q] = t],
           faults' \in 0 .. MaxFaults, UNCHANGED <<wants, early, cluster, auto, del, opc>>
    PROVE  ClaimsInv'
  <1>1. /\ ClusterSound(q) /\ TypeOK /\ todo[q] \subseteq wants[q] /\ todo[q] # {} /\ q # NoCluster
        /\ RequestSound(q) /\ ReconcileSound(q) /\ HoldsIts(q)
        /\ wants[q] \subseteq Kinds /\ (q \notin early => LeavesNothing(q))
    BY NoClusterIsNone DEF ClaimsInv, ClusterSound, RequestSound, TypeOK
  <1>2. PICK k \in Kinds : k = Current(q) /\ k \in todo[q]
    BY <1>1 DEF Current, Kinds
  <1>3. Usable(k) /\ res[k].claim = NoCluster
    BY <1>1, <1>2 DEF ClusterSound, RequestReads
  <1>4. /\ OnlyResource(k)
        /\ res'[k].claim = q /\ res'[k].state = res[k].state /\ res'[k].ready = res[k].ready
    BY <1>1, <1>2, ResClaimWritten
  <1>5. /\ pc'[q] = l /\ todo'[q] = t
        /\ \A p \in Requests : p # q => pc'[p] = pc[p] /\ todo'[p] = todo[p]
    BY <1>1 DEF TypeOK
  <1>6. TypeOK'
    BY <1>1, <1>4 DEF TypeOK, OnlyResource, Running
  <1>7. Written(k)
    BY <1>1, <1>2, <1>3, <1>4, NoClusterIsNone DEF Written, OnlyResource, Usable, Present
  <1>8. ClusterSound(q)'
    <2>1. RequestReads(q)' /\ ReconcileReads(q)'
      BY <1>1, <1>2, <1>3, <1>4, ResReaders DEF ClusterSound, RequestReads, ReconcileReads, OnlyResource,
         Present, Kinds
    <2>2. RequestSound(q)'
      BY <1>1, <1>2, <1>4, <1>5 DEF RequestSound, OnlyResource, Ended
    <2>3. ReconcileSound(q)'
      BY <1>1, <1>2, <1>3, <1>4, <1>5 DEF ReconcileSound, RequestSound, OnlyResource, DomainHeld, Holds,
         Present, Kinds, Ended
    <2>4. HoldsIts(q)' /\ (q \notin early => LeavesNothing(q))'
      BY <1>1, <1>3, <1>4 DEF HoldsIts, LeavesNothing, RequestSound, DomainHeld, OnlyResource, Kinds, Ended
    <2>. QED
      BY <2>1, <2>2, <2>3, <2>4 DEF ClusterSound
  <1>. QED
    BY <1>4, <1>5, <1>6, <1>7, <1>8, ResourceStep DEF OnlyResource

\* claimResource saves the claim, or meets a conflict.
LEMMA SaveInductive ==
    ASSUME ClaimsInv, NEW q \in Requests, Save(q)
    PROVE  ClaimsInv'
  <1>1. /\ ClusterSound(q) /\ TypeOK /\ faults' \in 0 .. MaxFaults /\ pc[q] = "save"
        /\ todo[q] \subseteq wants[q] /\ pc[q] \notin Ended
    BY DEF ClaimsInv, TypeOK, Save, ClusterSound, RequestSound, Ended
  <1>2. CASE Req(q) \in fresh
    <2>1. /\ SetRes(Current(q), [res[Current(q)] EXCEPT !.claim = q])
          /\ pc' = [pc EXCEPT ![q] = "claim"] /\ todo' = [todo EXCEPT ![q] = todo[q] \ {Current(q)}]
      BY <1>2 DEF Save, Goto
    <2>2. UNCHANGED <<wants, early, cluster, auto, del, opc>>
      BY DEF Save
    <2>. QED
      BY <1>1, <1>2, <2>1, <2>2, ClaimMade
  <1>3. CASE Req(q) \notin fresh
    <2>1. PICK l \in {"claim", "cleanup"} : pc' = [pc EXCEPT ![q] = l]
      BY <1>3 DEF Save
    <2>2. UNCHANGED <<wants, early, cluster, res, auto, del, opc, fresh>>
          /\ todo' = [todo EXCEPT ![q] = todo[q]]
      BY <1>1, <1>3 DEF Save, TypeOK
    <2>3. (RequestReads(q) /\ RequestSound(q))'
      BY <1>1, <1>3, <2>1, <2>2 DEF ClusterSound, RequestReads, RequestSound, TypeOK, Ended
    <2>. QED
      BY <1>1, <2>1, <2>2, <2>3, RequestMoves DEF Running
  <1>. QED
    BY <1>2, <1>3

\* A request that returns has claimed all it refers to.
LEMMA ReturnInductive ==
    ASSUME ClaimsInv, NEW q \in Requests, Return(q)
    PROVE  ClaimsInv'
  <1>1. /\ ClusterSound(q) /\ TypeOK /\ faults' \in 0 .. MaxFaults /\ pc[q] = "claim" /\ todo[q] = {}
        /\ pc[q] \notin Ended /\ pc' = [pc EXCEPT ![q] = "done"] /\ todo' = [todo EXCEPT ![q] = {}]
        /\ pc'[q] = "done" /\ todo'[q] = {} /\ UNCHANGED <<wants, early, cluster, auto, del, opc>>
    BY DEF ClaimsInv, TypeOK, Return, Ended, Goto
  <1>2. res' = res /\ fresh' \subseteq fresh
    <2>1. CASE SetRes("oidc", res["oidc"])
      BY <1>1, <2>1 DEF SetRes, TypeOK, Kinds
    <2>2. CASE UNCHANGED <<res, fresh>>
      BY <2>2
    <2>. QED
      BY <2>1, <2>2 DEF Return
  <1>3. (RequestReads(q) /\ RequestSound(q))'
    BY <1>1, <1>2 DEF ClusterSound, RequestReads, RequestSound, Ended
  <1>. QED
    BY <1>1, <1>2, <1>3, RequestMoves DEF Ended

\* A Cluster is deleted by its request, or with the request's end, or by a
\* customer, or given up: what it holds it keeps for now.
LEMMA ClusterDeleted ==
    ASSUME ClaimsInv, NEW q \in Requests, Present(cluster[q]),
           SetCluster(q, [cluster[q] EXCEPT !.state = "deleting"]),
           NEW l \in Running \cup Ended, pc' = [pc EXCEPT ![q] = l], l = pc[q] \/ (pc[q] = "cleanup" /\ l = "failed"),
           NEW m \in {opc[q], "idle"}, opc' = [opc EXCEPT ![q] = m],
           opc[q] \in {"release", "freeOidc", "list", "freeDns", "finalize"} => m = opc[q],
           early' = early \/ early' = early \cup {q}, pc'[q] \in Ended \/ q \in early',
           faults' \in 0 .. MaxFaults, UNCHANGED <<wants, res, auto, todo, del>>
    PROVE  ClaimsInv'
  <1>1. /\ ClusterSound(q) /\ TypeOK /\ pc'[q] = l /\ opc'[q] = m
        /\ \A p \in Requests : p # q => pc'[p] = pc[p] /\ opc'[p] = opc[p]
        /\ RequestSound(q) /\ ReconcileSound(q)
    BY DEF ClaimsInv, TypeOK, ClusterSound
  <1>2. /\ OnlyCluster(q) /\ cluster'[q].state = "deleting"
        /\ cluster'[q].stage = cluster[q].stage /\ cluster'[q].aged = cluster[q].aged
    BY <1>1, StateWritten
  <1>3. TypeOK'
    BY <1>1, <1>2 DEF TypeOK, OnlyCluster, Ended
  <1>4. SameDeletes /\ \A p \in Requests \ {q} : Same(p)
    BY <1>1, <1>2 DEF Same, SameDeletes, OnlyCluster
  <1>5. ClusterSound(q)'
    <2>1. RequestReads(q)'
      BY <1>1, <1>2 DEF ClusterSound, RequestReads, OnlyCluster, Usable, Present, Current
    <2>2. ReconcileReads(q)'
      BY <1>1, <1>2 DEF ClusterSound, ReconcileReads, OnlyCluster, Usable, Present, Current
    <2>3. RequestSound(q)'
      BY <1>1, <1>2 DEF RequestSound, Present, Ended
    <2>4. ReconcileSound(q)'
      BY <1>1, <1>2 DEF ReconcileSound, DomainHeld, Holds, Present
    <2>5. HoldsIts(q)' /\ LeavesNothing(q)'
      BY <1>2 DEF HoldsIts, LeavesNothing
    <2>. QED
      BY <2>1, <2>2, <2>3, <2>4, <2>5 DEF ClusterSound
  <1>. QED
    BY <1>3, <1>4, <1>5, ClusterStep

\* A request that fails deletes the Cluster it has created.
LEMMA CleanupInductive ==
    ASSUME ClaimsInv, NEW q \in Requests, Cleanup(q)
    PROVE  ClaimsInv'
  <1>1. /\ ClusterSound(q) /\ TypeOK /\ faults' \in 0 .. MaxFaults /\ pc[q] = "cleanup"
        /\ pc' = [pc EXCEPT ![q] = "failed"] /\ pc'[q] = "failed" /\ pc[q] \notin Ended
        /\ opc' = [opc EXCEPT ![q] = opc[q]] /\ todo' = [todo EXCEPT ![q] = todo[q]]
        /\ todo[q] \subseteq wants[q] /\ UNCHANGED <<wants, early, res, auto, todo, del, opc>>
    BY DEF ClaimsInv, TypeOK, Cleanup, ClusterSound, RequestSound, Ended, Goto
  <1>2. CASE Present(cluster[q])
    <2>1. SetCluster(q, [cluster[q] EXCEPT !.state = "deleting"])
      BY <1>2 DEF Cleanup
    <2>. QED
      BY <1>1, <1>2, <2>1, ClusterDeleted DEF Ended
  <1>3. CASE ~Present(cluster[q])
    <2>1. UNCHANGED <<cluster, fresh>>
      BY <1>3 DEF Cleanup
    <2>2. (RequestReads(q) /\ RequestSound(q))'
      BY <1>1, <2>1 DEF ClusterSound, RequestReads, RequestSound, Ended
    <2>. QED
      BY <1>1, <2>1, <2>2, RequestMoves DEF Ended
  <1>. QED
    BY <1>2, <1>3

\* A call of a request fails, its write done or not.
LEMMA RequestFailsInductive ==
    ASSUME ClaimsInv, NEW q \in Requests, RequestFails(q)
    PROVE  ClaimsInv'
  <1>1. /\ ClusterSound(q) /\ TypeOK /\ faults' \in 0 .. MaxFaults /\ pc[q] \in Running
        /\ todo' = [todo EXCEPT ![q] = todo[q]] /\ todo[q] \subseteq wants[q] /\ pc[q] \notin Ended
        /\ UNCHANGED <<wants, early, auto, todo, del, opc>>
    BY FaultsNat DEF ClaimsInv, TypeOK, RequestFails, ClusterSound, RequestSound, Ended, Running, Fault
  <1>2. PICK l \in {"cleanup", "failed"} : /\ pc' = [pc EXCEPT ![q] = l]
                                           /\ l = "cleanup" => pc[q] \in {"issuer", "claim", "save"}
    BY DEF RequestFails, Goto
  <1>3. CASE /\ pc[q] = "save" /\ Req(q) \in fresh
             /\ SetRes(Current(q), [res[Current(q)] EXCEPT !.claim = q]) /\ UNCHANGED cluster
    BY <1>1, <1>2, <1>3, ClaimMade
  <1>4. CASE /\ pc[q] = "resolve" /\ todo[q] = {}
             /\ SetCluster(q, [cluster[q] EXCEPT !.state = "live"]) /\ UNCHANGED res
    BY <1>1, <1>2, <1>4, ClusterBegins
  <1>5. CASE fresh' = fresh \ {Req(q)} /\ UNCHANGED <<cluster, res>>
    <2>1. (RequestReads(q) /\ RequestSound(q))'
      BY <1>1, <1>2, <1>5 DEF ClusterSound, RequestReads, RequestSound, TypeOK, Ended
    <2>. QED
      BY <1>1, <1>2, <1>5, <2>1, RequestMoves DEF Running, Ended
  <1>. QED
    BY <1>3, <1>4, <1>5 DEF RequestFails

-----------------------------------------------------------------------------
(* Other requests, and the controllers of the two resources. *)

\* A customer who deletes a Cluster while its create runs is remembered in early.
LEMMA DeleteClusterInductive ==
    ASSUME ClaimsInv, NEW q \in Requests, DeleteCluster(q)
    PROVE  ClaimsInv'
  <1>1. /\ TypeOK /\ faults' \in 0 .. MaxFaults /\ pc' = [pc EXCEPT ![q] = pc[q]] /\ pc'[q] = pc[q]
        /\ opc' = [opc EXCEPT ![q] = opc[q]] /\ pc[q] \in Running \cup Ended
        /\ UNCHANGED <<wants, res, auto, todo, del, opc>>
    BY DEF ClaimsInv, TypeOK, DeleteCluster, qvars, Ended
  <1>2. /\ Present(cluster[q]) /\ SetCluster(q, [cluster[q] EXCEPT !.state = "deleting"])
        /\ early' = early \/ early' = early \cup {q}
        /\ pc'[q] \in Ended \/ q \in early'
    BY <1>1 DEF DeleteCluster, Present
  <1>. QED
    BY <1>1, <1>2, ClusterDeleted

\* A delete handler has read a resource that nobody claims.
LEMMA DeleteReadInductive ==
    ASSUME ClaimsInv, NEW k \in Kinds, DeleteRead(k)
    PROVE  ClaimsInv'
  <1>1. TypeOK /\ ResourcesSound /\ UNCHANGED <<wants, early, cluster, res, auto, pc, todo, opc, faults>>
    BY DEF ClaimsInv, DeleteRead, qvars
  <1>2. TypeOK'
    BY <1>1 DEF TypeOK, DeleteRead
  <1>3. ASSUME NEW p \in Requests PROVE ClusterSound(p)'
    <2>1. ClusterSound(p) /\ (Req(p) \in fresh' => Req(p) \in fresh) /\ (Rec(p) \in fresh' => Rec(p) \in fresh)
      BY Readers DEF ClaimsInv, DeleteRead
    <2>2. Same(p)
      BY <1>1, <2>1 DEF Same
    <2>. QED
      BY <1>1, <2>1, <2>2, SameIsSound
  <1>4. ASSUME NEW j \in Kinds PROVE DeleteReads(j)'
    BY <1>1, Readers DEF ClaimsInv, TypeOK, DeleteRead, DeleteReads
  <1>5. ResourcesSound'
    BY <1>1 DEF ResourcesSound
  <1>. QED
    BY <1>2, <1>3, <1>4, <1>5 DEF ClaimsInv

\* It deletes the resource only when nobody has claimed it since.
LEMMA DeleteSaveInductive ==
    ASSUME ClaimsInv, NEW k \in Kinds, DeleteSave(k)
    PROVE  ClaimsInv'
  <1>1. /\ TypeOK /\ ResourcesSound /\ UNCHANGED <<wants, early, cluster, auto, pc, todo, opc, faults>>
        /\ del' \in [Kinds -> {"idle", "delete"}] /\ \A j \in Kinds : j # k => del'[j] = del[j]
    BY DEF ClaimsInv, TypeOK, DeleteSave, qvars
  <1>2. CASE Del(k) \in fresh
    <2>1. /\ OnlyResource(k) /\ res'[k].state = "deleting" /\ res'[k].claim = res[k].claim
      BY <1>1, <1>2, ResStateWritten DEF DeleteSave
    <2>2. res[k].state = "live" /\ res[k].claim = NoCluster
      BY <1>2 DEF ClaimsInv, DeleteReads
    <2>3. TypeOK'
      BY <1>1, <2>1 DEF TypeOK, OnlyResource
    <2>4. Written(k)
      BY <2>1, <2>2, NoClusterIsNone DEF Written, OnlyResource, Present
    <2>. QED
      BY <1>1, <2>1, <2>3, <2>4, ResourceStep DEF OnlyResource
  <1>3. CASE Del(k) \notin fresh
    <2>1. UNCHANGED <<res, fresh>>
      BY <1>3 DEF DeleteSave
    <2>2. TypeOK'
      BY <1>1, <2>1 DEF TypeOK
    <2>3. ASSUME NEW p \in Requests PROVE ClusterSound(p)'
      <3>1. ClusterSound(p)
        BY DEF ClaimsInv
      <3>2. Same(p)
        BY <1>1, <2>1 DEF Same
      <3>. QED
        BY <1>1, <2>1, <3>1, <3>2, SameIsSound
    <2>4. ASSUME NEW j \in Kinds PROVE DeleteReads(j)'
      BY <1>1, <1>3, <2>1 DEF ClaimsInv, DeleteReads
    <2>5. ResourcesSound'
      BY <1>1, <2>1 DEF ResourcesSound
    <2>. QED
      BY <2>2, <2>3, <2>4, <2>5 DEF ClaimsInv
  <1>. QED
    BY <1>2, <1>3

\* The finalizer of a deleted resource goes: a reservation's is not claimed.
LEMMA FinalizeInductive ==
    ASSUME ClaimsInv, NEW k \in Kinds, Finalize(k)
    PROVE  ClaimsInv'
  <1>1. TypeOK /\ ResourcesSound /\ UNCHANGED <<wants, early, cluster, auto, pc, todo, opc, del, faults>>
    BY DEF ClaimsInv, Finalize, qvars
  <1>2. /\ OnlyResource(k) /\ res'[k].state = "gone" /\ res'[k].claim = res[k].claim
    BY <1>1, ResStateWritten DEF Finalize
  <1>3. TypeOK'
    BY <1>1, <1>2 DEF TypeOK, OnlyResource
  <1>4. Written(k)
    BY <1>1, <1>2 DEF Written, OnlyResource, Present, Finalize, ResourcesSound
  <1>. QED
    BY <1>1, <1>2, <1>3, <1>4, ResourceStep DEF OnlyResource

\* A resource becomes ready ...
LEMMA BecomesReadyInductive ==
    ASSUME ClaimsInv, NEW k \in Kinds, BecomesReady(k)
    PROVE  ClaimsInv'
  <1>1. TypeOK /\ ResourcesSound /\ UNCHANGED <<wants, early, cluster, auto, pc, todo, opc, del, faults>>
    BY DEF ClaimsInv, BecomesReady, qvars
  <1>2. /\ OnlyResource(k) /\ res'[k].ready = TRUE /\ res'[k].state = res[k].state
        /\ res'[k].claim = res[k].claim
    BY <1>1, ResReadyWritten DEF BecomesReady
  <1>3. TypeOK'
    BY <1>1, <1>2 DEF TypeOK, OnlyResource
  <1>4. Written(k)
    BY <1>1, <1>2 DEF Written, OnlyResource, Present, ResourcesSound
  <1>. QED
    BY <1>1, <1>2, <1>3, <1>4, ResourceStep DEF OnlyResource

\* ... and an OidcConfig unready again.
LEMMA BecomesErrorInductive ==
    ASSUME ClaimsInv, BecomesError
    PROVE  ClaimsInv'
  <1>1. /\ TypeOK /\ faults' \in 0 .. MaxFaults /\ "oidc" \in Kinds
        /\ UNCHANGED <<wants, early, cluster, auto, pc, todo, opc, del>>
    BY FaultsNat DEF ClaimsInv, TypeOK, BecomesError, qvars, Fault, Kinds
  <1>2. /\ OnlyResource("oidc") /\ res'["oidc"].state = res["oidc"].state
        /\ res'["oidc"].claim = res["oidc"].claim
    BY <1>1, ResReadyWritten DEF BecomesError
  <1>3. TypeOK'
    BY <1>1, <1>2 DEF TypeOK, OnlyResource
  <1>4. Written("oidc")
    BY <1>2 DEF Written, OnlyResource, Present
  <1>. QED
    BY <1>1, <1>2, <1>3, <1>4, ResourceStep DEF OnlyResource

\* An automatic reservation changes, unless it is ready.
LEMMA AutoInductive ==
    ASSUME ClaimsInv, NEW q \in Requests, NEW a \in {"live", "ready", "deleting", "gone"},
           auto' = [auto EXCEPT ![q] = a],
           auto[q] = "ready" /\ a # "ready" => cluster[q].state = "deleting" /\ opc'[q] = "idle",
           auto[q] \in {"none", "gone"} => a = "gone" \/ opc[q] = "auto",
           NEW m \in {opc[q], "ref", "idle"}, opc' = [opc EXCEPT ![q] = m],
           m = "ref" => opc[q] \in {"auto", "ref"},
           m = "idle" => Rec(q) \notin fresh,
           UNCHANGED <<wants, early, cluster, res, qvars, del, fresh, faults>>
    PROVE  ClaimsInv'
  <1>1. /\ TypeOK /\ ClusterSound(q) /\ auto'[q] = a /\ opc'[q] = m
        /\ \A p \in Requests : p # q => auto'[p] = auto[p] /\ opc'[p] = opc[p]
    BY DEF ClaimsInv, TypeOK
  <1>2. TypeOK'
    BY <1>1 DEF TypeOK, qvars
  <1>3. SameDeletes /\ \A p \in Requests \ {q} : Same(p)
    BY <1>1 DEF Same, SameDeletes, qvars
  <1>4. ClusterSound(q)'
    <2>1. RequestReads(q)' /\ RequestSound(q)'
      BY <1>1 DEF ClusterSound, RequestReads, RequestSound, Usable, Present, Current, qvars
    <2>2. ReconcileReads(q)'
      BY <1>1 DEF ClusterSound, ReconcileReads, Present
    <2>3. ReconcileSound(q)'
      BY <1>1 DEF ClusterSound, ReconcileSound, DomainHeld, Holds, Present, qvars
    <2>4. HoldsIts(q)' /\ (q \notin early => LeavesNothing(q))'
      BY <1>1 DEF ClusterSound, ReconcileSound, HoldsIts, LeavesNothing, DomainHeld, Holds, Present
    <2>. QED
      BY <2>1, <2>2, <2>3, <2>4 DEF ClusterSound
  <1>. QED
    BY <1>2, <1>3, <1>4, ClusterStep

\* The automatic reservation gets its domain.
LEMMA AutoReadyInductive ==
    ASSUME ClaimsInv, NEW q \in Requests, AutoReady(q)
    PROVE  ClaimsInv'
  <1>1. /\ opc' = [opc EXCEPT ![q] = opc[q]] /\ opc'[q] = opc[q] /\ (opc[q] = "idle" => Rec(q) \notin fresh)
        /\ auto' = [auto EXCEPT ![q] = "ready"] /\ auto[q] = "live"
        /\ UNCHANGED <<wants, early, cluster, res, qvars, del, fresh, faults>>
    BY DEF ClaimsInv, TypeOK, AutoReady, ClusterSound, ReconcileReads
  <1>. QED
    BY <1>1, AutoInductive

\* The automatic reservation has been finalized.
LEMMA AutoGoneInductive ==
    ASSUME ClaimsInv, NEW q \in Requests, AutoGone(q)
    PROVE  ClaimsInv'
  <1>1. /\ opc' = [opc EXCEPT ![q] = opc[q]] /\ opc'[q] = opc[q] /\ (opc[q] = "idle" => Rec(q) \notin fresh)
        /\ auto' = [auto EXCEPT ![q] = "gone"] /\ auto[q] = "deleting"
        /\ UNCHANGED <<wants, early, cluster, res, qvars, del, fresh, faults>>
    BY DEF ClaimsInv, TypeOK, AutoGone, ClusterSound, ReconcileReads
  <1>. QED
    BY <1>1, AutoInductive

-----------------------------------------------------------------------------
(* ClusterReconciler.Reconcile. *)

\* A reconcile writes its Cluster, without deleting it, and ends or goes on to
\* release its claims.
LEMMA ReconcileWrites ==
    ASSUME ClaimsInv, NEW q \in Requests, OnlyCluster(q),
           cluster'[q].state = cluster[q].state, cluster'[q].aged = cluster[q].aged,
           cluster[q].state \in {"live", "deleting"},
           cluster'[q].state = "live" /\ cluster'[q].stage \in {"domain", "started"} =>
              DomainHeld(q) /\ ("oidc" \in wants[q] => res["oidc"].claim = q),
           NEW m \in {"idle", "release"}, opc' = [opc EXCEPT ![q] = m],
           m = "release" => cluster[q].state = "deleting",
           opc[q] \in {"idle", "ref", "confirmed"},
           UNCHANGED <<wants, early, res, auto, qvars, del, faults>>
    PROVE  ClaimsInv'
  <1>1. /\ TypeOK /\ ClusterSound(q) /\ opc'[q] = m /\ \A p \in Requests : p # q => opc'[p] = opc[p]
        /\ UNCHANGED <<pc, todo>>
    BY DEF ClaimsInv, TypeOK, qvars
  <1>2. TypeOK'
    BY <1>1 DEF TypeOK, OnlyCluster
  <1>3. SameDeletes /\ \A p \in Requests \ {q} : Same(p)
    BY <1>1 DEF Same, SameDeletes, OnlyCluster
  <1>4. ClusterSound(q)'
    <2>1. RequestReads(q)'
      BY <1>1 DEF ClusterSound, RequestReads, OnlyCluster, Usable, Present, Current
    <2>2. ReconcileReads(q)'
      BY <1>1 DEF ClusterSound, ReconcileReads, OnlyCluster
    <2>3. RequestSound(q)'
      BY <1>1 DEF ClusterSound, RequestSound
    <2>4. ReconcileSound(q)'
      BY <1>1 DEF ClusterSound, ReconcileSound, DomainHeld, Holds, Present
    <2>5. HoldsIts(q)' /\ LeavesNothing(q)'
      BY <1>1 DEF HoldsIts, LeavesNothing, DomainHeld
    <2>. QED
      BY <2>1, <2>2, <2>3, <2>4, <2>5 DEF ClusterSound
  <1>. QED
    BY <1>2, <1>3, <1>4, ClusterStep

\* The Cluster is read; a deletion is noted.
LEMMA ReconcileInductive ==
    ASSUME ClaimsInv, NEW q \in Requests, Reconcile(q)
    PROVE  ClaimsInv'
  <1>1. /\ TypeOK /\ ClusterSound(q) /\ faults' \in 0 .. MaxFaults /\ opc[q] = "idle" /\ Rec(q) \notin fresh
        /\ UNCHANGED <<wants, early, res, auto, qvars, del, faults>>
    BY DEF ClaimsInv, TypeOK, Reconcile, ClusterSound, ReconcileReads
  <1>2. CASE /\ cluster[q].state = "deleting" /\ OGoto(q, "release")
             /\ SetCluster(q, [cluster[q] EXCEPT !.stage = "deleting"])
    <2>1. /\ OnlyCluster(q) /\ cluster'[q].stage = "deleting" /\ cluster'[q].state = cluster[q].state
          /\ cluster'[q].aged = cluster[q].aged
      BY <1>1, <1>2, StageWritten
    <2>. QED
      BY <1>1, <1>2, <2>1, ReconcileWrites DEF OGoto
  <1>3. CASE cluster[q].state = "live" /\ OGoto(q, "dns") /\ UNCHANGED <<cluster, fresh>>
    <2>1. (ReconcileReads(q) /\ ReconcileSound(q))'
      BY <1>1, <1>3 DEF TypeOK, ReconcileReads, ReconcileSound, OGoto
    <2>. QED
      BY <1>1, <1>3, <2>1, ReconcileMoves DEF OGoto
  <1>4. CASE cluster[q].state = "live" /\ OGoto(q, "auto") /\ fresh' = fresh \cup {Rec(q)} /\ UNCHANGED cluster
    <2>1. (ReconcileReads(q) /\ ReconcileSound(q))'
      BY <1>1, <1>4 DEF TypeOK, ReconcileReads, ReconcileSound, OGoto
    <2>. QED
      BY <1>1, <1>4, <2>1, ReconcileMoves DEF OGoto
  <1>. QED
    BY <1>2, <1>3, <1>4 DEF Reconcile

\* The automatic reservation is found or created.
LEMMA EnsureAutoInductive ==
    ASSUME ClaimsInv, NEW q \in Requests, EnsureAuto(q)
    PROVE  ClaimsInv'
  <1>1. /\ auto[q] \in {"none", "live", "ready", "deleting", "gone"} /\ opc[q] = "auto"
        /\ opc' = [opc EXCEPT ![q] = "ref"]
        /\ auto' = [auto EXCEPT ![q] = IF auto[q] = "none" THEN "live" ELSE auto[q]]
        /\ UNCHANGED <<wants, early, cluster, res, qvars, del, fresh, faults>>
    BY DEF ClaimsInv, TypeOK, EnsureAuto, OGoto
  <1>. QED
    BY <1>1, AutoInductive

\* The reference to the automatic reservation is saved, or conflicts.
LEMMA SetRefInductive ==
    ASSUME ClaimsInv, NEW q \in Requests, SetRef(q)
    PROVE  ClaimsInv'
  <1>1. /\ TypeOK /\ ClusterSound(q) /\ faults' \in 0 .. MaxFaults /\ opc[q] = "ref"
        /\ opc' = [opc EXCEPT ![q] = "idle"] /\ opc'[q] = "idle"
        /\ UNCHANGED <<wants, early, res, auto, qvars, del, faults>>
    BY DEF ClaimsInv, TypeOK, SetRef, OGoto
  <1>2. CASE Rec(q) \in fresh
    <2>1. /\ OnlyCluster(q) /\ cluster'[q].state = cluster[q].state
          /\ cluster'[q].stage = cluster[q].stage /\ cluster'[q].aged = cluster[q].aged
      BY <1>1, <1>2, RefWritten DEF SetRef
    <2>2. cluster[q].state = "live" /\ HoldsIts(q)
      BY <1>1, <1>2 DEF ClusterSound, ReconcileReads
    <2>. QED
      BY <1>1, <2>1, <2>2, ReconcileWrites DEF HoldsIts
  <1>3. CASE Rec(q) \notin fresh
    <2>1. UNCHANGED <<cluster, fresh>>
      BY <1>3 DEF SetRef
    <2>2. (ReconcileReads(q) /\ ReconcileSound(q))'
      BY <1>1, <1>3, <2>1 DEF ReconcileReads, ReconcileSound
    <2>. QED
      BY <1>1, <2>1, <2>2, ReconcileMoves
  <1>. QED
    BY <1>2, <1>3

\* A Cluster whose request has returned, and that is not being deleted, holds its
\* reservation, which stays Ready: this check does not fail for it.
LEMMA CheckDNSInductive ==
    ASSUME ClaimsInv, NEW q \in Requests, CheckDNS(q)
    PROVE  ClaimsInv'
  <1>1. /\ TypeOK /\ ClusterSound(q) /\ ResourcesSound /\ faults' \in 0 .. MaxFaults /\ opc[q] = "dns"
        /\ Rec(q) \notin fresh /\ q # NoCluster
        /\ UNCHANGED <<wants, early, cluster, res, auto, qvars, del, fresh, faults>>
    BY NoClusterIsNone DEF ClaimsInv, TypeOK, CheckDNS, ClusterSound, ReconcileReads
  <1>2. PICK l \in {"wait", "oidc", "confirmed"} :
           /\ opc' = [opc EXCEPT ![q] = l] /\ opc'[q] = l
           /\ l = "wait" => ~DNSConfirmed(q)
           /\ l # "wait" => DNSConfirmed(q)
           /\ l = "confirmed" => "oidc" \notin wants[q]
           /\ l = "oidc" => "oidc" \in wants[q]
    BY <1>1 DEF CheckDNS, OGoto, TypeOK
  <1>3. ReconcileReads(q)'
    BY <1>1 DEF ReconcileReads
  <1>4. ReconcileSound(q)'
    BY <1>1, <1>2 DEF ClusterSound, ReconcileSound, RequestSound, ResourcesSound, DNSConfirmed, DomainHeld,
       Holds, Present, qvars
  <1>. QED
    BY <1>1, <1>2, <1>3, <1>4, ReconcileMoves

\* And it holds its OidcConfig, as long as that exists.
LEMMA CheckOIDCInductive ==
    ASSUME ClaimsInv, NEW q \in Requests, CheckOIDC(q)
    PROVE  ClaimsInv'
  <1>1. /\ TypeOK /\ ClusterSound(q) /\ faults' \in 0 .. MaxFaults /\ opc[q] = "oidc"
        /\ Rec(q) \notin fresh
        /\ UNCHANGED <<wants, early, cluster, res, auto, qvars, del, fresh, faults>>
    BY DEF ClaimsInv, TypeOK, CheckOIDC, ClusterSound, ReconcileReads
  <1>2. PICK l \in {"wait", "confirmed"} :
           /\ opc' = [opc EXCEPT ![q] = l] /\ opc'[q] = l
           /\ l = "wait" => ~Holds(q, "oidc")
           /\ l = "confirmed" => Holds(q, "oidc")
    BY <1>1 DEF CheckOIDC, OGoto, TypeOK, Holds
  <1>3. ReconcileReads(q)'
    BY <1>1 DEF ReconcileReads
  <1>4. ReconcileSound(q)'
    BY <1>1, <1>2 DEF ClusterSound, ReconcileSound, RequestSound, DomainHeld, Holds, Present, qvars
  <1>. QED
    BY <1>1, <1>2, <1>3, <1>4, ReconcileMoves

\* A Cluster is given up after its request: what the check found is still so.
LEMMA UnconfirmedInductive ==
    ASSUME ClaimsInv, NEW q \in Requests, Unconfirmed(q)
    PROVE  ClaimsInv'
  <1>1. /\ TypeOK /\ ClusterSound(q) /\ faults' \in 0 .. MaxFaults /\ opc[q] = "wait"
        /\ Rec(q) \notin fresh
        /\ UNCHANGED <<wants, early, cluster, res, auto, qvars, del, faults>>
    BY DEF ClaimsInv, TypeOK, Unconfirmed, ClusterSound, ReconcileReads
  <1>2. CASE cluster[q].stage \in {"new", "domain"} /\ cluster[q].aged /\ cluster[q].state = "live"
    <2>1. opc' = [opc EXCEPT ![q] = "drop"] /\ opc'[q] = "drop" /\ fresh' = fresh \cup {Rec(q)}
      BY <1>1, <1>2 DEF Unconfirmed, OGoto, TypeOK
    <2>2. (ReconcileReads(q) /\ ReconcileSound(q))'
      BY <1>1, <1>2, <2>1 DEF ClusterSound, ReconcileReads, ReconcileSound, qvars
    <2>. QED
      BY <1>1, <2>1, <2>2, ReconcileMoves
  <1>3. CASE ~(cluster[q].stage \in {"new", "domain"} /\ cluster[q].aged /\ cluster[q].state = "live")
    <2>1. opc' = [opc EXCEPT ![q] = "idle"] /\ opc'[q] = "idle" /\ fresh' = fresh
      BY <1>1, <1>3 DEF Unconfirmed, OGoto, TypeOK
    <2>2. (ReconcileReads(q) /\ ReconcileSound(q))'
      BY <1>1, <2>1 DEF ReconcileReads, ReconcileSound
    <2>. QED
      BY <1>1, <2>1, <2>2, ReconcileMoves
  <1>. QED
    BY <1>2, <1>3

\* A Cluster whose claims never came is deleted.
LEMMA DropInductive ==
    ASSUME ClaimsInv, NEW q \in Requests, Drop(q)
    PROVE  ClaimsInv'
  <1>1. /\ TypeOK /\ ClusterSound(q) /\ faults' \in 0 .. MaxFaults /\ opc[q] = "drop"
        /\ opc' = [opc EXCEPT ![q] = "idle"] /\ opc'[q] = "idle"
        /\ pc' = [pc EXCEPT ![q] = pc[q]] /\ pc'[q] = pc[q]
        /\ UNCHANGED <<wants, early, res, auto, qvars, todo, del, faults>>
    BY DEF ClaimsInv, TypeOK, Drop, OGoto, qvars
  <1>2. CASE Rec(q) \in fresh
    <2>1. SetCluster(q, [cluster[q] EXCEPT !.state = "deleting"])
      BY <1>2 DEF Drop
    <2>2. Present(cluster[q]) /\ pc[q] \in Ended
      BY <1>1, <1>2 DEF ClusterSound, ReconcileReads, RequestSound, Present
    <2>. QED
      BY <1>1, <2>1, <2>2, ClusterDeleted
  <1>3. CASE Rec(q) \notin fresh
    <2>1. UNCHANGED <<cluster, fresh>>
      BY <1>3 DEF Drop
    <2>2. (ReconcileReads(q) /\ ReconcileSound(q))'
      BY <1>1, <1>3, <2>1 DEF ReconcileReads, ReconcileSound
    <2>. QED
      BY <1>1, <2>1, <2>2, ReconcileMoves
  <1>. QED
    BY <1>2, <1>3

\* A confirmed Cluster holds what it was created with.
LEMMA ConfirmInductive ==
    ASSUME ClaimsInv, NEW q \in Requests, Confirm(q)
    PROVE  ClaimsInv'
  <1>1. /\ TypeOK /\ ClusterSound(q) /\ faults' \in 0 .. MaxFaults /\ opc[q] = "confirmed"
        /\ Rec(q) \notin fresh /\ opc' = [opc EXCEPT ![q] = "idle"] /\ opc'[q] = "idle"
        /\ UNCHANGED <<wants, early, res, auto, qvars, del, faults>>
    BY DEF ClaimsInv, TypeOK, Confirm, OGoto, ClusterSound, ReconcileReads
  <1>2. CASE Present(cluster[q]) /\ cluster[q].stage \in {"new", "domain"}
    <2>1. PICK s \in {"domain", "started"} : SetCluster(q, [cluster[q] EXCEPT !.stage = s])
      BY <1>2 DEF Confirm
    <2>2. /\ OnlyCluster(q) /\ cluster'[q].state = cluster[q].state /\ cluster'[q].aged = cluster[q].aged
      BY <1>1, <2>1, StageWritten
    <2>3. DomainHeld(q) /\ ("oidc" \in wants[q] => res["oidc"].claim = q)
      BY <1>1 DEF ClusterSound, ReconcileSound
    <2>. QED
      BY <1>1, <1>2, <2>2, <2>3, ReconcileWrites DEF Present
  <1>3. CASE ~(Present(cluster[q]) /\ cluster[q].stage \in {"new", "domain"})
    <2>1. UNCHANGED <<cluster, fresh>>
      BY <1>3 DEF Confirm
    <2>2. (ReconcileReads(q) /\ ReconcileSound(q))'
      BY <1>1, <2>1 DEF ReconcileReads, ReconcileSound
    <2>. QED
      BY <1>1, <2>1, <2>2, ReconcileMoves
  <1>. QED
    BY <1>2, <1>3

\* A Cluster that is deleted gives back its OidcConfig: it is read ...
LEMMA ReleaseInductive ==
    ASSUME ClaimsInv, NEW q \in Requests, Release(q)
    PROVE  ClaimsInv'
  <1>1. /\ TypeOK /\ ClusterSound(q) /\ ResourcesSound /\ faults' \in 0 .. MaxFaults /\ opc[q] = "release"
        /\ Rec(q) \notin fresh /\ q # NoCluster
        /\ UNCHANGED <<wants, early, cluster, res, auto, qvars, del, faults>>
    BY NoClusterIsNone DEF ClaimsInv, TypeOK, Release, ClusterSound, ReconcileReads
  <1>2. CASE "oidc" \in wants[q] /\ Present(res["oidc"]) /\ res["oidc"].claim = q
    <2>1. opc' = [opc EXCEPT ![q] = "freeOidc"] /\ opc'[q] = "freeOidc" /\ fresh' = fresh \cup {Rec(q)}
      BY <1>1, <1>2 DEF Release, OGoto, TypeOK
    <2>2. (ReconcileReads(q) /\ ReconcileSound(q))'
      BY <1>1, <1>2, <2>1 DEF ClusterSound, ReconcileReads, ReconcileSound, Present
    <2>. QED
      BY <1>1, <2>1, <2>2, ReconcileMoves
  <1>3. CASE ~("oidc" \in wants[q] /\ Present(res["oidc"]) /\ res["oidc"].claim = q)
    <2>1. opc' = [opc EXCEPT ![q] = "list"] /\ opc'[q] = "list" /\ fresh' = fresh
      BY <1>1, <1>3 DEF Release, OGoto, TypeOK
    <2>2. (ReconcileReads(q) /\ ReconcileSound(q))'
      BY <1>1, <1>3, <2>1 DEF ClusterSound, ReconcileReads, ReconcileSound, ResourcesSound, Holds, Present, Kinds
    <2>. QED
      BY <1>1, <2>1, <2>2, ReconcileMoves
  <1>. QED
    BY <1>2, <1>3

\* ... and written: the Cluster gives back a claim of its own.
LEMMA FreeInductive ==
    ASSUME ClaimsInv, NEW q \in Requests, NEW k \in Kinds, NEW this, NEW again, NEW next,
           \/ k = "oidc" /\ this = "freeOidc" /\ again = "release" /\ next = "list"
           \/ k = "dns" /\ this = "freeDns" /\ again = "list" /\ next = "finalize",
           Free(q, k, this, again, next)
    PROVE  ClaimsInv'
  <1>1. /\ TypeOK /\ ClusterSound(q) /\ ResourcesSound /\ opc[q] = this /\ q # NoCluster
        /\ faults' \in 0 .. MaxFaults /\ RequestSound(q) /\ ReconcileSound(q) /\ HoldsIts(q)
        /\ cluster[q].state = "deleting" /\ (Req(q) \in fresh => res[Current(q)].claim = NoCluster)
        /\ UNCHANGED <<wants, early, cluster, auto, pc, todo, qvars, del, faults>>
    BY NoClusterIsNone DEF ClaimsInv, TypeOK, Free, qvars, ClusterSound, ReconcileSound, RequestReads
  <1>2. CASE Rec(q) \in fresh
    <2>1. SetRes(k, [res[k] EXCEPT !.claim = NoCluster]) /\ opc' = [opc EXCEPT ![q] = next]
      BY <1>2 DEF Free, OGoto
    <2>2. /\ OnlyResource(k) /\ res'[k].claim = NoCluster /\ res'[k].state = res[k].state
          /\ res'[k].ready = res[k].ready
      BY <1>1, <2>1, ResClaimWritten
    <2>3. res[k].claim = q
      BY <1>1, <1>2 DEF ClusterSound, ReconcileReads
    <2>4. opc'[q] = next /\ \A p \in Requests : p # q => opc'[p] = opc[p]
      BY <1>1, <2>1 DEF TypeOK
    <2>5. TypeOK'
      BY <1>1, <2>1, <2>2 DEF TypeOK, OnlyResource
    <2>6. Written(k)
      BY <1>1, <2>2, <2>3, NoClusterIsNone DEF Written, OnlyResource, Present
    <2>7. ClusterSound(q)'
      <3>1. RequestReads(q)'
        <4>1. Req(q) \in fresh' => Req(q) \in fresh /\ Current(q) # k /\ Current(q) \in Kinds
          BY <1>1, <2>2, <2>3 DEF OnlyResource, Current, Kinds
        <4>. QED
          BY <1>1, <2>2, <4>1 DEF ClusterSound, RequestReads, OnlyResource, Usable, Present, Current
      <3>2. ReconcileReads(q)'
        BY <1>1, <2>2, ResReaders DEF ReconcileReads, OnlyResource
      <3>3. RequestSound(q)'
        BY <1>1 DEF RequestSound
      <3>4. ReconcileSound(q)'
        BY <1>1, <2>2, <2>4 DEF ReconcileSound, OnlyResource, Holds, Present, Kinds
      <3>5. HoldsIts(q)' /\ LeavesNothing(q)'
        BY <1>1 DEF HoldsIts, LeavesNothing
      <3>. QED
        BY <3>1, <3>2, <3>3, <3>4, <3>5 DEF ClusterSound
    <2>. QED
      BY <1>1, <2>2, <2>4, <2>5, <2>6, <2>7, ResourceStep DEF OnlyResource
  <1>3. CASE Rec(q) \notin fresh
    <2>1. PICK l \in {again, "idle"} : opc' = [opc EXCEPT ![q] = l]
      BY <1>3 DEF Free
    <2>2. UNCHANGED <<res, fresh>> /\ opc'[q] = l
      BY <1>1, <1>3, <2>1 DEF Free, TypeOK
    <2>3. (ReconcileReads(q) /\ ReconcileSound(q))'
      BY <1>1, <1>3, <2>2 DEF ReconcileReads, ReconcileSound, Holds, Present
    <2>. QED
      BY <1>1, <2>1, <2>2, <2>3, ReconcileMoves
  <1>. QED
    BY <1>2, <1>3

\* The reservations that carry the Cluster's UID.
LEMMA ListDNSInductive ==
    ASSUME ClaimsInv, NEW q \in Requests, ListDNS(q)
    PROVE  ClaimsInv'
  <1>1. /\ TypeOK /\ ClusterSound(q) /\ opc[q] = "list" /\ faults' \in 0 .. MaxFaults
        /\ ReconcileSound(q) /\ cluster[q].state = "deleting" /\ Rec(q) \notin fresh
        /\ UNCHANGED <<wants, early, cluster, res, qvars, del, faults>>
    BY DEF ClaimsInv, TypeOK, ListDNS, ClusterSound, ReconcileSound, ReconcileReads
  <1>2. CASE /\ auto[q] \in {"live", "ready", "deleting"} /\ auto' = [auto EXCEPT ![q] = "deleting"]
             /\ OGoto(q, "idle") /\ UNCHANGED fresh
    <2>1. opc' = [opc EXCEPT ![q] = "idle"] /\ opc'[q] = "idle"
      BY <1>1, <1>2 DEF OGoto, TypeOK
    <2>. QED
      BY <1>1, <1>2, <2>1, AutoInductive
  <1>3. CASE auto[q] \in {"none", "gone"} /\ UNCHANGED auto
    <2>1. CASE Holds(q, "dns") /\ res["dns"].state = "deleting"
      <3>1. opc' = [opc EXCEPT ![q] = "idle"] /\ opc'[q] = "idle" /\ fresh' = fresh
        BY <1>1, <1>3, <2>1 DEF ListDNS, OGoto, TypeOK, Holds
      <3>2. (ReconcileReads(q) /\ ReconcileSound(q))'
        BY <1>1, <3>1 DEF ReconcileReads, ReconcileSound
      <3>. QED
        BY <1>1, <1>3, <3>1, <3>2, ReconcileMoves
    <2>2. CASE Holds(q, "dns") /\ res["dns"].state # "deleting"
      <3>1. opc' = [opc EXCEPT ![q] = "freeDns"] /\ opc'[q] = "freeDns" /\ fresh' = fresh \cup {Rec(q)}
        BY <1>1, <1>3, <2>2 DEF ListDNS, OGoto, TypeOK, Holds
      <3>2. (ReconcileReads(q) /\ ReconcileSound(q))'
        BY <1>1, <1>3, <2>2, <3>1 DEF ReconcileReads, ReconcileSound, Holds, Present
      <3>. QED
        BY <1>1, <1>3, <3>1, <3>2, ReconcileMoves
    <2>3. CASE ~Holds(q, "dns")
      <3>1. opc' = [opc EXCEPT ![q] = "finalize"] /\ opc'[q] = "finalize" /\ fresh' = fresh
        BY <1>1, <1>3, <2>3 DEF ListDNS, OGoto, TypeOK, Holds
      <3>2. (ReconcileReads(q) /\ ReconcileSound(q))'
        BY <1>1, <1>3, <2>3, <3>1 DEF ReconcileReads, ReconcileSound, Holds, Present
      <3>. QED
        BY <1>1, <1>3, <3>1, <3>2, ReconcileMoves
    <2>. QED
      BY <2>1, <2>2, <2>3
  <1>. QED
    BY <1>2, <1>3 DEF ListDNS

\* The finalizer goes when nothing is held any more.
LEMMA RemoveFinalizerInductive ==
    ASSUME ClaimsInv, NEW q \in Requests, RemoveFinalizer(q)
    PROVE  ClaimsInv'
  <1>1. /\ TypeOK /\ ClusterSound(q) /\ opc[q] = "finalize" /\ faults' \in 0 .. MaxFaults
        /\ RequestSound(q) /\ ReconcileSound(q) /\ cluster[q].state = "deleting" /\ Rec(q) \notin fresh
        /\ opc' = [opc EXCEPT ![q] = "idle"] /\ opc'[q] = "idle"
        /\ \A p \in Requests : p # q => opc'[p] = opc[p]
        /\ UNCHANGED <<wants, early, res, auto, pc, todo, del, faults>>
    BY DEF ClaimsInv, TypeOK, RemoveFinalizer, ClusterSound, ReconcileSound, ReconcileReads, OGoto, qvars
  <1>2. /\ OnlyCluster(q) /\ cluster'[q].state = "gone" /\ cluster'[q].stage = cluster[q].stage
        /\ cluster'[q].aged = cluster[q].aged
    BY <1>1, StateWritten DEF RemoveFinalizer
  <1>3. TypeOK'
    BY <1>1, <1>2 DEF TypeOK, OnlyCluster
  <1>4. SameDeletes /\ \A p \in Requests \ {q} : Same(p)
    BY <1>1, <1>2 DEF Same, SameDeletes, OnlyCluster
  <1>5. ClusterSound(q)'
    <2>1. RequestReads(q)' /\ ReconcileReads(q)'
      BY <1>1, <1>2 DEF ClusterSound, RequestReads, ReconcileReads, OnlyCluster, Usable, Present, Current
    <2>2. RequestSound(q)'
      BY <1>1, <1>2 DEF RequestSound
    <2>3. ReconcileSound(q)'
      BY <1>1, <1>2 DEF ReconcileSound
    <2>4. HoldsIts(q)' /\ (q \notin early => LeavesNothing(q))'
      BY <1>1, <1>2 DEF ReconcileSound, HoldsIts, LeavesNothing, Holds, Present, Kinds
    <2>. QED
      BY <2>1, <2>2, <2>3, <2>4 DEF ClusterSound
  <1>. QED
    BY <1>1, <1>3, <1>4, <1>5, ClusterStep

\* A reconcile ends early.
LEMMA ReconcileFailsInductive ==
    ASSUME ClaimsInv, NEW q \in Requests, ReconcileFails(q)
    PROVE  ClaimsInv'
  <1>1. /\ TypeOK /\ faults' \in 0 .. MaxFaults /\ fresh' = fresh \ {Rec(q)}
        /\ opc' = [opc EXCEPT ![q] = "idle"] /\ opc'[q] = "idle"
        /\ UNCHANGED <<wants, early, cluster, res, auto, qvars, del>>
    BY FaultsNat DEF ClaimsInv, TypeOK, ReconcileFails, OGoto, Fault
  <1>2. (ReconcileReads(q) /\ ReconcileSound(q))'
    BY <1>1 DEF ReconcileReads, ReconcileSound
  <1>. QED
    BY <1>1, <1>2, ReconcileMoves

\* Time passes for a Cluster nobody is working on.
LEMMA AgeInductive ==
    ASSUME ClaimsInv, NEW q \in Requests, Age(q)
    PROVE  ClaimsInv'
  <1>1. /\ TypeOK /\ ClusterSound(q) /\ pc[q] \in Ended /\ opc[q] = "idle" /\ cluster[q].state = "live"
        /\ cluster' = [cluster EXCEPT ![q].aged = TRUE] /\ Rec(q) \notin fresh
        /\ UNCHANGED <<wants, early, res, auto, pc, todo, del, opc, fresh, faults>>
    BY DEF ClaimsInv, Age, Ended, qvars, ClusterSound, ReconcileReads
  <1>2. cluster \in [Requests -> Cluster]
    BY <1>1 DEF TypeOK
  <1>3. /\ cluster' \in [Requests -> Cluster] /\ \A p \in Requests : p # q => cluster'[p] = cluster[p]
        /\ cluster'[q].state = cluster[q].state /\ cluster'[q].stage = cluster[q].stage
    BY <1>1, <1>2 DEF Cluster
  <1>4. TypeOK'
    BY <1>1, <1>3 DEF TypeOK
  <1>5. SameDeletes /\ \A p \in Requests \ {q} : Same(p)
    BY <1>1, <1>3 DEF Same, SameDeletes
  <1>6. ClusterSound(q)'
    <2>1. RequestReads(q)' /\ ReconcileReads(q)'
      BY <1>1 DEF ClusterSound, RequestReads, ReconcileReads, Usable, Present, Current
    <2>2. RequestSound(q)'
      BY <1>1, <1>3 DEF ClusterSound, RequestSound
    <2>3. ReconcileSound(q)'
      BY <1>1, <1>3 DEF ReconcileSound
    <2>4. HoldsIts(q)' /\ LeavesNothing(q)'
      BY <1>1, <1>3 DEF ClusterSound, HoldsIts, LeavesNothing, DomainHeld
    <2>. QED
      BY <2>1, <2>2, <2>3, <2>4 DEF ClusterSound
  <1>. QED
    BY <1>1, <1>4, <1>5, <1>6, ClusterStep

-----------------------------------------------------------------------------
(* The theorems. *)

\* Nobody has claimed anything, and no Cluster exists.
LEMMA InitInductive ==
    ASSUME Init
    PROVE  ClaimsInv
  <1>1. wants \in [Requests -> SUBSET Kinds]
    BY DemandsKinds DEF Init
  <1>2. /\ cluster \in [Requests -> Cluster]
        /\ \A q \in Requests : cluster[q].state = "none" /\ cluster[q].stage = "new" /\ ~cluster[q].aged
    BY DEF Init, Cluster
  <1>3. /\ res \in [Kinds -> Resource]
        /\ \A k \in Kinds : res[k].claim = NoCluster /\ res[k].state = "live"
    BY DEF Init, Resource
  <1>a. /\ early = {} /\ fresh = {} /\ faults = 0 /\ todo = wants
        /\ auto = [q \in Requests |-> "none"] /\ pc = [q \in Requests |-> "resolve"]
        /\ opc = [q \in Requests |-> "idle"] /\ del = [k \in Kinds |-> "idle"]
    BY DEF Init
  <1>4. TypeOK
    BY <1>1, <1>2, <1>3, <1>a, FaultsNat DEF TypeOK, Running
  <1>5. ResourcesSound /\ \A k \in Kinds : DeleteReads(k)
    BY <1>3 DEF Init, ResourcesSound, DeleteReads, Kinds
  <1>6. ASSUME NEW q \in Requests PROVE ClusterSound(q)
    BY <1>2 DEF Init, ClusterSound, RequestReads, ReconcileReads, RequestSound, ReconcileSound, HoldsIts,
       LeavesNothing
  <1>. QED
    BY <1>4, <1>5, <1>6 DEF ClaimsInv

\* Every step keeps the invariant.
LEMMA NextInductive ==
    ASSUME ClaimsInv, [Next]_vars
    PROVE  ClaimsInv'
  <1>1. ASSUME NEW q \in Requests, Request(q) PROVE ClaimsInv'
    BY <1>1, ResolveInductive, CreateInductive, IssuerInductive, LoadInductive, SaveInductive,
       ReturnInductive, CleanupInductive DEF Request
  <1>2. ASSUME NEW q \in Requests, Controller(q) PROVE ClaimsInv'
    <2>1. ASSUME FreeOIDC(q) \/ FreeDNS(q) PROVE ClaimsInv'
      BY <2>1, FreeInductive DEF FreeOIDC, FreeDNS, Kinds
    <2>. QED
      BY <1>2, <2>1, ReconcileInductive, EnsureAutoInductive, SetRefInductive, CheckDNSInductive,
         CheckOIDCInductive, UnconfirmedInductive, DropInductive, ConfirmInductive, ReleaseInductive,
         ListDNSInductive, RemoveFinalizerInductive DEF Controller
  <1>3. ASSUME NEW q \in Requests,
               RequestFails(q) \/ DeleteCluster(q) \/ ReconcileFails(q) \/ Elsewhere(q) \/ Age(q)
        PROVE  ClaimsInv'
    BY <1>3, RequestFailsInductive, DeleteClusterInductive, ReconcileFailsInductive, AutoReadyInductive,
       AutoGoneInductive, AgeInductive DEF Elsewhere
  <1>4. ASSUME NEW k \in Kinds, DeleteRead(k) \/ DeleteSave(k) \/ Finalize(k) \/ BecomesReady(k)
        PROVE  ClaimsInv'
    BY <1>4, DeleteReadInductive, DeleteSaveInductive, FinalizeInductive, BecomesReadyInductive
  <1>5. CASE BecomesError
    BY <1>5, BecomesErrorInductive
  <1>6. CASE UNCHANGED vars
    <2>1. UNCHANGED <<wants, cluster, res, auto, pc, todo, del, opc, fresh, early, faults>>
      BY <1>6 DEF vars, qvars
    <2>2. TypeOK' /\ ResourcesSound' /\ \A k \in Kinds : DeleteReads(k)'
      BY <2>1 DEF ClaimsInv, TypeOK, ResourcesSound, DeleteReads
    <2>3. ASSUME NEW q \in Requests PROVE ClusterSound(q)'
      <3>1. ClusterSound(q) /\ Same(q)
        BY <2>1 DEF ClaimsInv, Same
      <3>. QED
        BY <2>1, <3>1, SameIsSound
    <2>. QED
      BY <2>2, <2>3 DEF ClaimsInv
  <1>. QED
    BY <1>1, <1>2, <1>3, <1>4, <1>5, <1>6 DEF Next

\* Claims and Clusters agree, whatever requests, customers and reconciles do at
\* the same time and wherever they fail (ClusterHandler.Create, claimResource,
\* confirmedDNSReservation, releaseOidcConfigClaim, releaseDNSReservations).
THEOREM ClaimsAgree == Spec => []ClaimsConsistent
  <1>1. Init => ClaimsInv
    BY InitInductive
  <1>2. ClaimsInv /\ [Next]_vars => ClaimsInv'
    BY NextInductive
  <1>3. ClaimsInv => ClaimsConsistent
    BY DEF ClaimsInv, ClaimsConsistent, ClaimsHeld, NoOrphanClaim, ClusterSound
  <1>. QED
    BY <1>1, <1>2, <1>3, PTL DEF Spec

\* A reconcile that is about to give its Cluster up ends by doing so, or fails.
LEMMA DropEnds ==
    ASSUME TypeOK, Next, NEW q \in Requests, opc[q] = "drop", opc'[q] = "idle"
    PROVE  Drop(q) \/ ReconcileFails(q)
  <1>1. opc \in [Requests -> {"idle", "auto", "ref", "dns", "oidc", "wait", "drop", "confirmed", "release",
                              "freeOidc", "list", "freeDns", "finalize"}]
    BY DEF TypeOK
  <1>2. ASSUME NEW p \in Requests, Request(p) \/ RequestFails(p) \/ DeleteCluster(p) \/ Elsewhere(p) \/ Age(p)
        PROVE  FALSE
    BY <1>2 DEF Request, Resolve, Create, Issuer, Load, Save, Return, Cleanup, RequestFails, DeleteCluster,
       Elsewhere, AutoReady, AutoGone, Age
  <1>3. ASSUME NEW k \in Kinds, DeleteRead(k) \/ DeleteSave(k) \/ Finalize(k) \/ BecomesReady(k)
        PROVE  FALSE
    BY <1>3 DEF DeleteRead, DeleteSave, Finalize, BecomesReady
  <1>4. CASE BecomesError
    BY <1>4 DEF BecomesError
  <1>5. ASSUME NEW p \in Requests, Controller(p) PROVE p = q /\ Drop(q)
    <2>1. PICK l : opc' = [opc EXCEPT ![p] = l]
      BY <1>5 DEF Controller, Reconcile, EnsureAuto, SetRef, CheckDNS, CheckOIDC, Unconfirmed, Drop, Confirm,
         Release, FreeOIDC, FreeDNS, Free, ListDNS, RemoveFinalizer, OGoto
    <2>2. p = q
      BY <1>1, <2>1
    <2>. QED
      BY <1>5, <2>2 DEF Controller, Reconcile, EnsureAuto, SetRef, CheckDNS, CheckOIDC, Unconfirmed, Confirm,
         Release, FreeOIDC, FreeDNS, Free, ListDNS, RemoveFinalizer
  <1>6. ASSUME NEW p \in Requests, ReconcileFails(p) PROVE p = q
    BY <1>1, <1>6 DEF ReconcileFails, OGoto
  <1>. QED
    BY <1>2, <1>3, <1>4, <1>5, <1>6 DEF Next

\* A Cluster whose create returned 201 is not deleted by the claim timeout
\* (deleteClusterWithUnconfirmedClaims): its claims are in place before the
\* timeout begins, and the version it is deleted under is of that time.
THEOREM AcceptedIsKept == Spec => AcceptedStays
  <1>1. Init => ClaimsInv
    BY InitInductive
  <1>2. ClaimsInv /\ [Next]_vars => ClaimsInv'
    BY NextInductive
  <1>3. ASSUME ClaimsInv, Next, NEW q \in Requests,
               pc[q] = "done", opc[q] = "drop", opc'[q] = "idle", "dns" \in wants[q],
               "oidc" \in wants[q] => res["oidc"].state = "live"
        PROVE  cluster'[q] = cluster[q]
    <2>1. ClusterSound(q) /\ TypeOK
      BY <1>3 DEF ClaimsInv
    <2>2. CASE Drop(q)
      <3>1. Rec(q) \notin fresh
        BY <1>3, <2>1 DEF ClusterSound, ReconcileReads, ReconcileSound
      <3>. QED
        BY <2>2, <3>1 DEF Drop
    <2>3. CASE ReconcileFails(q)
      BY <2>3 DEF ReconcileFails
    <2>. QED
      BY <1>3, <2>1, <2>2, <2>3, DropEnds
  <1>4. ClaimsInv /\ [Next]_vars =>
           [\A q \in Requests :
               /\ pc[q] = "done" /\ opc[q] = "drop" /\ opc'[q] = "idle"
               /\ "dns" \in wants[q]
               /\ "oidc" \in wants[q] => res["oidc"].state = "live"
               => cluster'[q] = cluster[q]]_vars
    BY <1>3
  <1>. QED
    BY <1>1, <1>2, <1>4, PTL DEF Spec, AcceptedStays
=============================================================================
