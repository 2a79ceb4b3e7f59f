----------------------------- MODULE OidcConfigs -----------------------------
(***************************************************************************)
(* How an OidcConfig becomes Ready, and how it goes.                       *)
(*                                                                         *)
(* An issuer URL belongs to the OidcConfig whose UID is on the Index named *)
(* after it.  An unmanaged config also needs the customer's signing key,   *)
(* which is copied to a secret named after the account and the name of the *)
(* config; a managed one gets an issuer URL of its own from the API and is *)
(* Ready once a Cluster that refers to it publishes the issuer.  Whether a *)
(* Cluster may still refer to a config that is deleted is in Claims.       *)
(*                                                                         *)
(* Every read and write is a step of its own; a re-read with its write     *)
(* under RetryOnConflict is one.                                           *)
(***************************************************************************)
EXTENDS Naturals

CONSTANTS
    Names,    \* names of OidcConfigs
    Urls,     \* issuer URLs of customers
    Pods,     \* operator pods, as numbers
    Owners,   \* those that own the namespace of each config
    MaxUID,   \* bound: configs created
    MaxFaults \* bound: calls that fail, restarts, and reconciles during another pod's

ASSUME PodsNat == Pods \subseteq Nat /\ Owners \in [Names -> SUBSET Pods]
ASSUME BoundsNat == MaxUID \in Nat /\ MaxFaults \in Nat
ASSUME UrlsAreNotUIDs == Urls \cap (0 .. MaxUID) = {}

VARIABLES
    cfg,     \* OidcConfigs, by name
    lastUID, \* UIDs handed out
    idx,     \* the owner of the Index of each issuer URL, or 0
    key,     \* the config whose key is in the secret of each name, or 0
    rc,      \* the reconcile of each pod for each name
    faults,  \* faults so far
    shared,  \* history: names whose config two pods reconciled at the same time
    parked   \* names whose config nothing brings back to a workqueue

vars == <<cfg, lastUID, idx, key, rc, faults, shared, parked>>

UIDs == 0 .. MaxUID

\* Issuer URLs: customers choose theirs, a managed config gets one for itself,
\* which stands as its UID.
Issuers == Urls \cup UIDs

NoConfig == [uid |-> 0, state |-> "none", fin |-> FALSE, url |-> 0, phase |-> ""]
Idle == [pc |-> "idle", uid |-> 0, url |-> 0]

Configs == [uid : UIDs, state : {"none", "live", "deleting"}, fin : BOOLEAN,
            url : Issuers, phase : {"", "Pending", "Ready", "Error"}]
Reconciles == [pc : {"idle", "reserve", "existing", "conflict", "key", "store", "probe", "ready",
                     "delkey", "delidx", "dropidx", "finalize"},
               uid : UIDs, url : Issuers]

TypeOK ==
    /\ cfg \in [Names -> Configs]
    /\ lastUID \in UIDs /\ faults \in 0 .. MaxFaults /\ shared \subseteq Names /\ parked \subseteq Names
    /\ idx \in [Issuers -> UIDs] /\ key \in [Names -> UIDs]
    /\ rc \in [Pods -> [Names -> Reconciles]]

Init == /\ cfg = [n \in Names |-> NoConfig] /\ lastUID = 0
        /\ idx = [u \in Issuers |-> 0] /\ key = [n \in Names |-> 0]
        /\ rc = [w \in Pods |-> [n \in Names |-> Idle]] /\ faults = 0 /\ shared = {} /\ parked = {}

Managed(rec) == rec.url = rec.uid

\* One of the faults the bound allows.
Fault == faults < MaxFaults /\ faults' = faults + 1

-----------------------------------------------------------------------------
(* The API. *)

\* The handler looks for the Index of the URL before it creates the config; it
\* may appear in between, and nothing depends on it.
Create(n, u) == /\ cfg[n].uid = 0 /\ lastUID < MaxUID
                /\ lastUID' = lastUID + 1
                /\ cfg' = [cfg EXCEPT ![n] = [NoConfig EXCEPT !.uid = lastUID + 1, !.state = "live",
                                                              !.url = u]]
                /\ UNCHANGED <<idx, key, rc, faults, shared, parked>>

\* Of a config no Cluster has claimed.  Without a finalizer the row goes at once.
Delete(n) == /\ cfg[n].state = "live"
             /\ cfg' = [cfg EXCEPT ![n] = IF @.fin THEN [@ EXCEPT !.state = "deleting"] ELSE NoConfig]
             /\ parked' = parked \ {n}
             /\ UNCHANGED <<lastUID, idx, key, rc, faults, shared>>

-----------------------------------------------------------------------------
(* OidcConfigReconciler. *)

Goto(w, n, l) == rc' = [rc EXCEPT ![w][n].pc = l]
Done(w, n) == rc' = [rc EXCEPT ![w][n] = Idle]

\* Pods are alike: a reconcile is given to the first that has none of n.
Free(w, n) == rc[w][n].pc = "idle" /\ \A v \in Pods : v < w => rc[v][n].pc # "idle"

\* History: another pod has a reconcile of n under way, one of the faults allowed.
Shared(w, n) ==
    IF \A v \in Pods \ {w} : rc[v][n].pc = "idle" THEN UNCHANGED <<faults, shared>>
    ELSE Fault /\ shared' = shared \cup {n}

\* The status helpers write to the config that has the name by then.
SetPhase(n, p) == cfg' = IF cfg[n].uid = 0 THEN cfg ELSE [cfg EXCEPT ![n].phase = p]

\* Mutant: a config in Error is left alone.
Read_NotInError(w, n) ==
    /\ Free(w, n) /\ cfg[n].uid # 0 /\ n \notin parked
    /\ cfg[n].state = "live" => cfg[n].phase # "Error"
    /\ IF cfg[n].state = "live" /\ ~cfg[n].fin
         THEN cfg' = [cfg EXCEPT ![n].fin = TRUE] /\ UNCHANGED rc
         ELSE /\ rc' = [rc EXCEPT ![w][n] = [pc |-> IF cfg[n].state = "live" THEN "reserve" ELSE "delkey",
                                             uid |-> cfg[n].uid, url |-> cfg[n].url]]
              /\ UNCHANGED cfg
    /\ Shared(w, n)
    /\ UNCHANGED <<lastUID, idx, key, parked>>

\* Reconcile: a finalizer first, then by state; an empty phase becomes Pending.
Read(w, n) ==
    /\ Free(w, n) /\ cfg[n].uid # 0 /\ n \notin parked
    /\ IF cfg[n].state = "live" /\ ~cfg[n].fin
         THEN cfg' = [cfg EXCEPT ![n].fin = TRUE] /\ UNCHANGED rc
         ELSE LET rec == [pc |-> IF cfg[n].state = "live" THEN "reserve" ELSE "delkey",
                          uid |-> cfg[n].uid, url |-> cfg[n].url]
              IN  /\ rc' = [rc EXCEPT ![w][n] = IF rec.pc = "delkey" /\ Managed(rec)
                                                  THEN [rec EXCEPT !.pc = "delidx"] ELSE rec]
                  /\ cfg' = IF rec.pc = "reserve" /\ cfg[n].phase = ""
                              THEN [cfg EXCEPT ![n].phase = "Pending"] ELSE cfg
    /\ Shared(w, n)
    /\ UNCHANGED <<lastUID, idx, key, parked>>

Reserved(w, n) == Goto(w, n, IF Managed(rc[w][n]) THEN "probe" ELSE "key")

\* reserveIssuerURLIndex: create the Index.  The reply may be lost.
Reserve(w, n) ==
    /\ rc[w][n].pc = "reserve"
    /\ IF idx[rc[w][n].url] = 0
         THEN /\ idx' = [idx EXCEPT ![rc[w][n].url] = rc[w][n].uid]
              /\ \/ Reserved(w, n) /\ UNCHANGED faults
                 \/ Done(w, n) /\ Fault
         ELSE Goto(w, n, "existing") /\ UNCHANGED <<idx, faults>>
    /\ UNCHANGED <<cfg, lastUID, key, shared, parked>>

\* Mutant: whose the Index is does not matter.
Existing_Adopt(w, n) ==
    /\ rc[w][n].pc = "existing"
    /\ Reserved(w, n)
    /\ UNCHANGED <<cfg, lastUID, idx, key, faults, shared, parked>>

\* The Index that was in the way is its own, another's, or gone, which is an error.
Existing(w, n) ==
    /\ rc[w][n].pc = "existing"
    /\ CASE idx[rc[w][n].url] = rc[w][n].uid -> Reserved(w, n)
         [] idx[rc[w][n].url] = 0 -> Done(w, n)
         [] OTHER -> Goto(w, n, "conflict")
    /\ UNCHANGED <<cfg, lastUID, idx, key, faults, shared, parked>>

\* IssuerURLConflict: looked at again after five minutes.
Conflict(w, n) == /\ rc[w][n].pc = "conflict"
                  /\ SetPhase(n, "Error") /\ Done(w, n)
                  /\ UNCHANGED <<lastUID, idx, key, faults, shared, parked>>

\* PrivateKeyExists.
LookForKey(w, n) == /\ rc[w][n].pc = "key"
                    /\ Goto(w, n, IF key[n] = 0 THEN "store" ELSE "probe")
                    /\ UNCHANGED <<cfg, lastUID, idx, key, faults, shared, parked>>

\* The customer's key is read, found valid and stored; or a call fails, and the
\* condition says which.
StoreKey(w, n) == /\ rc[w][n].pc = "store"
                  /\ \/ /\ key' = [key EXCEPT ![n] = rc[w][n].uid]
                        /\ Goto(w, n, "probe") /\ UNCHANGED <<cfg, faults>>
                     \/ Done(w, n) /\ Fault /\ UNCHANGED <<cfg, key>>
                  /\ UNCHANGED <<lastUID, idx, shared, parked>>

\* An invalid key is an Error that is not requeued: the config waits for its
\* deletion or for a restart, which lists it again.
InvalidKey(w, n) == /\ rc[w][n].pc = "store"
                    /\ SetPhase(n, "Error") /\ Done(w, n) /\ Fault
                    /\ parked' = IF cfg[n].uid = rc[w][n].uid /\ cfg[n].state = "live"
                                   THEN parked \cup {n} ELSE parked
                    /\ UNCHANGED <<lastUID, idx, key, shared>>

\* isReferencedByCluster and ComputeThumbprint: the issuer answers.
Answers(w, n) == /\ rc[w][n].pc = "probe" /\ Goto(w, n, "ready")
                 /\ UNCHANGED <<cfg, lastUID, idx, key, faults, shared, parked>>

\* No Cluster refers to it yet, or the issuer cannot be reached.
Silent(w, n) == /\ rc[w][n].pc = "probe"
                /\ SetPhase(n, IF Managed(rc[w][n]) THEN "Pending" ELSE "Error") /\ Done(w, n)
                /\ UNCHANGED <<lastUID, idx, key, faults, shared, parked>>

\* checkReadiness.
MarkReady(w, n) == /\ rc[w][n].pc = "ready"
                   /\ SetPhase(n, "Ready") /\ Done(w, n)
                   /\ UNCHANGED <<lastUID, idx, key, faults, shared, parked>>

-----------------------------------------------------------------------------
(* reconcileDelete. *)

\* Mutant: the key is left.
DeleteKey_Not(w, n) == /\ rc[w][n].pc = "delkey" /\ Goto(w, n, "delidx")
                       /\ UNCHANGED <<cfg, lastUID, idx, key, faults, shared, parked>>

DeleteKey(w, n) == /\ rc[w][n].pc = "delkey"
                   /\ key' = [key EXCEPT ![n] = 0]
                   /\ Goto(w, n, "delidx")
                   /\ UNCHANGED <<cfg, lastUID, idx, faults, shared, parked>>

\* deleteIssuerURLIndex, if the Index is its own.
FindIndex(w, n) == /\ rc[w][n].pc = "delidx"
                   /\ Goto(w, n, IF idx[rc[w][n].url] = rc[w][n].uid THEN "dropidx" ELSE "finalize")
                   /\ UNCHANGED <<cfg, lastUID, idx, key, faults, shared, parked>>

DropIndex(w, n) == /\ rc[w][n].pc = "dropidx"
                   /\ IF idx[rc[w][n].url] \in {0, rc[w][n].uid}
                        THEN idx' = [idx EXCEPT ![rc[w][n].url] = 0] /\ Goto(w, n, "finalize")
                        ELSE Done(w, n) /\ UNCHANGED idx
                   /\ UNCHANGED <<cfg, lastUID, key, faults, shared, parked>>

\* The finalizer of the config that has the name by then; a config that is not
\* deleting lives on without it.
RemoveFinalizer(w, n) ==
    /\ rc[w][n].pc = "finalize"
    /\ cfg' = [cfg EXCEPT ![n] = IF @.state = "deleting" THEN NoConfig ELSE [@ EXCEPT !.fin = FALSE]]
    /\ Done(w, n)
    /\ UNCHANGED <<lastUID, idx, key, faults, shared, parked>>

\* The operator restarts when the config waits.
Restart(n) == n \in parked /\ parked' = parked \ {n} /\ UNCHANGED <<cfg, lastUID, idx, key, rc, shared, faults>>

\* A call fails and ends the reconcile, or the operator restarts.
Fails(w, n) == rc[w][n].pc # "idle" /\ Done(w, n) /\ Fault /\ UNCHANGED <<cfg, lastUID, idx, key, shared, parked>>

-----------------------------------------------------------------------------
Work(w, n) == \/ Read(w, n) \/ Reserve(w, n) \/ Existing(w, n) \/ Conflict(w, n)
              \/ LookForKey(w, n) \/ StoreKey(w, n) \/ Answers(w, n) \/ Silent(w, n) \/ MarkReady(w, n)
              \/ DeleteKey(w, n) \/ FindIndex(w, n) \/ DropIndex(w, n) \/ RemoveFinalizer(w, n)

Next == \/ \E n \in Names : Delete(n) \/ Restart(n) \/ \E u \in Urls \cup {lastUID + 1} : Create(n, u)
        \/ \E n \in Names : \E w \in Owners[n] : Work(w, n) \/ InvalidKey(w, n) \/ Fails(w, n)

Spec == Init /\ [][Next]_vars

\* A config that is not parked is reconciled again and again (RequeueAfter, or
\* back-off after an error), and an issuer that is asked often enough answers.
FairSpec == /\ Spec
            /\ \A n \in Names : \A w \in Owners[n] : WF_vars(Work(w, n)) /\ SF_vars(Answers(w, n))

-----------------------------------------------------------------------------
\* A config that is Ready holds its issuer URL and, if it is unmanaged, its own
\* key: whoever had the URL or the name before (oidcconfig_controller.go:142,
\* 182, 208).  No two of them can therefore have one issuer.  The exception is a
\* name two pods worked on at the same time: the key and the finalizer go by name.
ReadyIsBacked ==
    /\ TypeOK
    /\ \A n \in Names \ shared : LET c == cfg[n] IN
        c.state = "live" /\ c.phase = "Ready" =>
            /\ idx[c.url] = c.uid
            /\ ~Managed(c) => key[n] = c.uid

\* An Index or a key has a config whose deletion will remove it (reconcileDelete,
\* 281), unless a second pod stored it while the first was cleaning up.
NoLeak ==
    shared = {} =>
        /\ \A u \in Issuers : idx[u] # 0 => \E n \in Names : cfg[n].uid = idx[u] /\ cfg[n].fin
        /\ \A n \in Names : key[n] # 0 => cfg[n].uid = key[n] /\ cfg[n].fin

\* A deleted config goes.  A config that stays becomes Ready once it is the only
\* one with its issuer URL, also when it has been refused on a conflict before; not
\* one whose key was found invalid.
Settles ==
    \A n \in Names :
        /\ cfg[n].state = "deleting" ~> cfg[n].state # "deleting"
        /\ <>[](/\ cfg[n].state = "live" /\ shared = {} /\ n \notin parked
                /\ \A m \in Names \ {n} : cfg[m].uid # 0 => cfg[m].url # cfg[n].url)
              => []<>(cfg[n].phase = "Ready")

\* Ready configs, issuer Indexes and keys agree: a Ready one has both, and both
\* have a config that will remove them.
ConfigsConsistent == ReadyIsBacked /\ NoLeak

-----------------------------------------------------------------------------
(* What ConfigsConsistent rests on: the inductive invariant. *)

Working(w, n) == rc[w][n].pc # "idle"

\* UIDs are handed out once, and a reconcile never has that of another name.
UIDsApart ==
    /\ \A u \in Issuers : idx[u] <= lastUID
    /\ \A n \in Names : /\ cfg[n].uid <= lastUID /\ (cfg[n].uid = 0 <=> cfg[n].state = "none")
                        /\ \A w \in Pods : Working(w, n) => rc[w][n].uid # 0 /\ rc[w][n].uid <= lastUID
    /\ \A n, m \in Names : n # m => /\ cfg[n].uid = cfg[m].uid => cfg[n].uid = 0
                                    /\ \A w \in Pods : Working(w, n) => rc[w][n].uid # cfg[m].uid

\* A config that has an Index, which is that of its URL, or a key has the finalizer.
\* One that is Ready has them.
ConfigSound(n) ==
    LET c == cfg[n]  IN
    /\ c.state = "deleting" => c.fin
    /\ \A u \in Issuers : c.uid # 0 /\ idx[u] = c.uid => u = c.url /\ c.fin
    /\ key[n] # 0 => key[n] = c.uid /\ c.fin /\ ~Managed(c)
    /\ c.state = "live" /\ c.phase = "Ready" => idx[c.url] = c.uid /\ (~Managed(c) => key[n] = c.uid)

\* The one reconcile of a config: the config cannot go before it ends, what it has
\* found or made is there until it deletes it, and what it has deleted does not
\* come back.
ReconcileSound(w, n) ==
    LET c == cfg[n]
        r == rc[w][n]
    IN  Working(w, n) =>
        /\ \A v \in Pods \ {w} : ~Working(v, n)
        /\ r.uid = c.uid /\ r.url = c.url /\ c.fin
        /\ r.pc \in {"delkey", "delidx", "dropidx", "finalize"} => c.state = "deleting"
        /\ r.pc \in {"key", "store", "delkey"} => ~Managed(r)
        /\ r.pc \in {"key", "store", "probe", "ready"} => idx[r.url] = r.uid
        /\ r.pc \in {"probe", "ready"} /\ ~Managed(r) => key[n] = r.uid
        /\ r.pc \in {"delidx", "dropidx", "finalize"} => key[n] = 0
        /\ r.pc = "finalize" => idx[r.url] # r.uid

ConfigsInv == /\ TypeOK /\ UIDsApart /\ NoLeak
              /\ \A n \in Names \ shared : ConfigSound(n) /\ \A w \in Pods : ReconcileSound(w, n)
=============================================================================
