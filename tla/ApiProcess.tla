------------------------------ MODULE ApiProcess ------------------------------
(***************************************************************************)
(* The replicas of seaplane-api: the start of runServe, the three servers  *)
(* of server.Run, one request at a time through the middleware of the      *)
(* resource routes, the account allowlist, and the shutdown.  The replicas *)
(* share the database.                                                     *)
(***************************************************************************)
EXTENDS Naturals, FiniteSets

CONSTANTS
    Replicas,
    ManagementClusters,  \* of MANAGEMENT_CLUSTERS
    Callers,      \* requests: [account, consistent, op, target]
    Bundle,       \* accounts of the authorization bundle
    Platform,     \* AWS_ACCOUNT_ID: the account that may change the allowlist
    MaxStarts,    \* bound: starts of a replica
    MaxFaults     \* bound: failed database calls and listeners

VARIABLES
    broken,      \* settings runServe refuses, the same for all the replicas
    registered,  \* database: the ManagementCluster objects
    enrolled,    \* database: the accounts of the allowlist
    proc,        \* [Replicas -> process state]
    routed,      \* the replicas the load balancer sends requests to
    faults

apiVars == <<broken, registered, enrolled, proc, routed, faults>>

\* The settings in the order they are checked; all but the last before the
\* connection pool is opened.
Settings == {"region", "bundle", "management", "accountID", "clusters", "dsn", "rateLimit"}
Servers == {"health", "metrics", "api"}

NoRequest == [step |-> "none"]
Down == [pc |-> "down", pool |-> "none", todo |-> {}, listening |-> {}, ready |-> FALSE,
         lapsed |-> FALSE, broke |-> FALSE, redis |-> FALSE, starts |-> 0, req |-> NoRequest]

Go(p, pc) == proc' = [proc EXCEPT ![p].pc = pc]
Same == UNCHANGED <<broken, registered, enrolled, routed, faults>>

\* A return of runServe: the deferred Close of the pool, and the process ends.
Exit(p) == proc' = [proc EXCEPT ![p] = [Down EXCEPT !.starts = proc[p].starts]]

Fault == faults < MaxFaults /\ faults' = faults + 1

-------------------------------------------------------------------------------
Launch(p) ==
    /\ proc[p].pc = "down" /\ proc[p].starts < MaxStarts
    /\ proc' = [proc EXCEPT ![p] = [Down EXCEPT !.pc = "config", !.starts = proc[p].starts + 1]]
    /\ Same

\* loadStartupConfig, loadManagement and the settings of the environment.
CheckSettings(p) ==
    /\ proc[p].pc = "config"
    /\ IF broken \cap (Settings \ {"rateLimit"}) # {} THEN Exit(p) ELSE Go(p, "connect")
    /\ Same

\* NewClient: the pool, a connection of it and the migration; whatever fails
\* closes the pool again.
Connect(p) ==
    /\ proc[p].pc = "connect"
    /\ \/ /\ proc' = [proc EXCEPT ![p].pc = "register", ![p].pool = "open",
                                  ![p].todo = ManagementClusters]
          /\ UNCHANGED faults
       \/ Fault /\ Exit(p)
    /\ UNCHANGED <<broken, registered, enrolled, routed>>

\* Mutant of RegisterManagementClusters: a failure is only logged.
RegisterManagementClusters_Logged(p) ==
    /\ proc[p].pc = "register"
    /\ \/ \E m \in proc[p].todo :
            /\ proc' = [proc EXCEPT ![p].todo = @ \ {m}]
            /\ \/ registered' = registered \cup {m} /\ UNCHANGED faults
               \/ UNCHANGED registered /\ Fault
       \/ proc[p].todo = {} /\ Go(p, "new") /\ UNCHANGED <<registered, faults>>
    /\ UNCHANGED <<broken, enrolled, routed>>

\* registerManagementClusters: one that another replica, or an earlier start,
\* registered already is kept.
RegisterManagementClusters(p) ==
    /\ proc[p].pc = "register"
    /\ \/ \E m \in proc[p].todo :
            /\ registered' = registered \cup {m}
            /\ proc' = [proc EXCEPT ![p].todo = @ \ {m}]
            /\ UNCHANGED faults
       \/ proc[p].todo = {} /\ Go(p, "new") /\ UNCHANGED <<registered, faults>>
       \/ proc[p].todo # {} /\ Fault /\ Exit(p) /\ UNCHANGED registered
    /\ UNCHANGED <<broken, enrolled, routed>>

\* server.New: it is ready from the start.
NewServer(p) ==
    /\ proc[p].pc = "new"
    /\ IF "rateLimit" \in broken THEN Exit(p)
       ELSE proc' = [proc EXCEPT ![p].pc = "serve", ![p].ready = TRUE, ![p].redis = TRUE]
    /\ Same

\* One goroutine per server; a listener that fails ends Run.
Listen(p, s) ==
    /\ proc[p].pc = "serve" /\ s \notin proc[p].listening
    /\ proc' = [proc EXCEPT ![p].listening = @ \cup {s}]
    /\ Same

ListenerFails(p, s) ==
    /\ proc[p].pc = "serve" /\ Fault
    /\ proc' = [proc EXCEPT ![p].listening = @ \ {s}, ![p].broke = TRUE, ![p].pc = "closePool"]
    /\ UNCHANGED <<broken, registered, enrolled, routed>>

\* Mutant of Signal: readiness is left alone.
Signal_StillReady(p) ==
    /\ proc[p].pc = "serve"
    /\ Go(p, "drain")
    /\ Same

\* SIGTERM: not ready any more, then a wait for the load balancer.
Signal(p) ==
    /\ proc[p].pc = "serve"
    /\ proc' = [proc EXCEPT ![p].pc = "drain", ![p].ready = FALSE]
    /\ Same

\* Assumed of the load balancer: it looks at readiness often enough to act
\* within the wait.
DrainOver(p) ==
    /\ proc[p].pc = "drain"
    /\ p \in routed => proc[p].ready
    /\ proc' = [proc EXCEPT ![p].pc = "closeApi", ![p].listening = @ \ {"api"}]
    /\ Same

\* Shutdown(shutdownCtx) of the API server: it waits for the request, or for
\* the timeout the three share.
ShutdownTimeout(p) ==
    /\ proc[p].pc \in {"closeApi", "closeMetrics", "closeHealth"} /\ ~proc[p].lapsed
    /\ proc[p].req # NoRequest
    /\ proc' = [proc EXCEPT ![p].lapsed = TRUE]
    /\ Same

\* Mutant of Drained: the servers do not wait for requests.
Drained_AtOnce(p) == TRUE

Drained(p) == proc[p].req = NoRequest \/ proc[p].lapsed

Shutdown(p) ==
    /\ \/ /\ proc[p].pc = "closeApi" /\ Drained(p)
          /\ proc' = [proc EXCEPT ![p].pc = "closeMetrics", ![p].listening = @ \ {"metrics"}]
       \/ /\ proc[p].pc = "closeMetrics"
          /\ proc' = [proc EXCEPT ![p].pc = "closeHealth", ![p].listening = @ \ {"health"}]
       \/ /\ proc[p].pc = "closeHealth"
          /\ proc' = [proc EXCEPT ![p].pc = "closePool", ![p].redis = FALSE]
    /\ Same

ClosePool(p) ==
    /\ proc[p].pc = "closePool"
    /\ Exit(p)
    /\ routed' = routed \ {p}
    /\ UNCHANGED <<broken, registered, enrolled, faults>>

\* External: the load balancer looks at /readyz of the health server.
Probe(p) ==
    /\ routed' = IF proc[p].ready /\ "health" \in proc[p].listening
                 THEN routed \cup {p} ELSE routed \ {p}
    /\ UNCHANGED <<broken, registered, enrolled, proc, faults>>

-------------------------------------------------------------------------------
\* A request: the identity middleware takes what the gateway sent.
Arrive(p, c) ==
    /\ p \in routed /\ "api" \in proc[p].listening /\ proc[p].req = NoRequest
    /\ proc' = [proc EXCEPT ![p].req = [step |-> "allowlist", caller |-> c, marked |-> FALSE,
                                        known |-> c.account \in enrolled]]
    /\ Same

Request(p, step) == proc[p].req # NoRequest /\ proc[p].req.step = step
Answer(p) == proc' = [proc EXCEPT ![p].req = NoRequest]

\* Mutant of MarkedOnError: a failed lookup admits the account.
MarkedOnError_Open == TRUE

\* A lookup error leaves the request unmarked.
MarkedOnError == FALSE

\* allowlistAccounts: accounts of the bundle are not looked up.
Allowlist(p) ==
    /\ Request(p, "allowlist")
    /\ \E marked \in BOOLEAN :
        /\ \/ proc[p].req.caller.account \in Bundle /\ ~marked /\ UNCHANGED faults
           \/ /\ proc[p].req.caller.account \notin Bundle
              /\ marked = (proc[p].req.caller.account \in enrolled) /\ UNCHANGED faults
           \/ proc[p].req.caller.account \notin Bundle /\ marked = MarkedOnError /\ Fault
        /\ proc' = [proc EXCEPT ![p].req.step = "identity", ![p].req.marked = marked]
    /\ UNCHANGED <<broken, registered, enrolled, routed>>

RequireIdentity(p) ==
    /\ Request(p, "identity")
    /\ IF /\ proc[p].req.caller.consistent
          /\ proc[p].req.caller.account \in Bundle \/ proc[p].req.marked
       THEN proc' = [proc EXCEPT ![p].req.step = "handle"]
       ELSE Answer(p)
    /\ Same

\* History: the requests that have seen their account on the allowlist.
Observe(ps, accounts) ==
    [q \in Replicas |->
        IF ps[q].req = NoRequest THEN ps[q]
        ELSE [ps[q] EXCEPT !.req.known = @ \/ ps[q].req.caller.account \in accounts]]

IsPlatformCaller(c) == c.account = Platform

\* Enroll, Unenroll (both succeed when there is nothing to do) and every other
\* resource handler.
Handle(p) ==
    /\ Request(p, "handle")
    /\ LET c == proc[p].req.caller IN
       \/ /\ c.op = "enroll" /\ IsPlatformCaller(c)
          /\ enrolled' = enrolled \cup {c.target}
          /\ UNCHANGED faults
       \/ /\ c.op = "unenroll" /\ IsPlatformCaller(c)
          /\ enrolled' = enrolled \ {c.target}
          /\ UNCHANGED faults
       \/ /\ c.op \in {"enroll", "unenroll"} /\ IsPlatformCaller(c) /\ Fault
          /\ UNCHANGED enrolled
       \/ /\ c.op \notin {"enroll", "unenroll"} \/ ~IsPlatformCaller(c)
          /\ UNCHANGED <<enrolled, faults>>
    /\ proc' = Observe([proc EXCEPT ![p].req = NoRequest], enrolled')
    /\ UNCHANGED <<broken, registered, routed>>

Init ==
    /\ broken \in {{}} \cup {{s} : s \in Settings}
    /\ registered = {} /\ enrolled = {} /\ routed = {} /\ faults = 0
    /\ proc = [p \in Replicas |-> Down]

Startup(p) == CheckSettings(p) \/ Connect(p) \/ RegisterManagementClusters(p) \/ NewServer(p)
Stop(p) == DrainOver(p) \/ ShutdownTimeout(p) \/ Shutdown(p) \/ ClosePool(p)
Serve(p) == Allowlist(p) \/ RequireIdentity(p) \/ Handle(p)

Next ==
    \E p \in Replicas :
        \/ Launch(p) \/ Startup(p) \/ Signal(p) \/ Stop(p) \/ Probe(p) \/ Serve(p)
        \/ \E s \in Servers : Listen(p, s) \/ ListenerFails(p, s)
        \/ \E c \in Callers : Arrive(p, c)

\* The process runs, and the load balancer looks; a handler need not end.
Fairness == \A p \in Replicas : WF_apiVars(Startup(p)) /\ WF_apiVars(Stop(p)) /\ WF_apiVars(Probe(p))

Spec == Init /\ [][Next]_apiVars /\ Fairness

-------------------------------------------------------------------------------
\* A handler runs only for a consistent identity of an account of the bundle,
\* or one that was on the allowlist at some moment since the request came in.
AdmittedIsKnown ==
    \A p \in Replicas : Request(p, "handle") =>
        /\ proc[p].req.caller.consistent
        /\ proc[p].req.caller.account \in Bundle \/ proc[p].req.known

\* What a replica that takes requests relies on is there: valid settings, its
\* pool, and every management cluster it was told of.
ServesComplete ==
    \A p \in Replicas : proc[p].listening # {} =>
        broken = {} /\ proc[p].pool = "open" /\ ManagementClusters \subseteq registered

\* A replica told to stop takes no request to its grave unless the timeout ran
\* out, and closes its listener only when no more requests are sent to it.
Graceful ==
    [][\A p \in Replicas :
        /\ proc[p].req # NoRequest /\ proc'[p].pc = "down" => proc[p].lapsed \/ proc[p].broke
        /\ proc[p].pc = "drain" /\ proc'[p].pc = "closeApi" => p \notin routed]_apiVars

\* A replica told to stop ends, also when a request never does.
NoneStopping ==
    \A p \in Replicas : proc[p].pc \in {"down", "config", "connect", "register", "new", "serve"}
Stops == []<>NoneStopping
===============================================================================
