------------------------------- MODULE MCLoops --------------------------------
(***************************************************************************)
(* Components that run side by side and share nothing, each on its own:    *)
(* the state of the others stays at its initial value.                     *)
(***************************************************************************)
EXTENDS RateLimit, FiniteSets, Sequences

CONSTANTS
    TTL, RenewBefore, RequeueInterval, RetryDelay, Ids, MaxCallFaults,
    MCs, TestMCs, Docs, Capacity, MaxRestarts,
    Replicas, ManagementClusters, Bundle, Platform, MaxStarts, MaxFaults,
    Runnables, EarlyKinds

VARIABLES
    part,
    phase, silences, dirty, due, silencePc, intent, todo, silenceFaults, failed, lost,
    listed, watching, status, reported, index, events, queue, timer, pc, seen, missed, restarts,
    broken, registered, enrolled, proc, routed, faults,
    main, pool, cancelled, starter, started, stopped, informers, waited, runs, live, synced,
    runner, probe

MCInterval == [list |-> 2, create |-> 3]
MCBurst == [list |-> 2, create |-> 1]
TableOf == [d1 |-> "mc1", d2 |-> "mc1"]
OwnerOf == [d1 |-> "a", d2 |-> "b"]
MaxVersion == [d1 |-> 2, d2 |-> 1]
InformersOf == [c1 |-> {"k1", "k2"}, c2 |-> {"k2"}]
Caller(account, consistent, op) ==
    [account |-> account, consistent |-> consistent, op |-> op, target |-> "x"]
Callers == {Caller("platform", TRUE, "enroll"), Caller("platform", TRUE, "unenroll"),
            Caller("x", TRUE, "list"), Caller("platform", FALSE, "list")}

Sil == INSTANCE Silences WITH pc <- silencePc, faults <- silenceFaults, MaxFaults <- MaxCallFaults
Str == INSTANCE StatusStream
Api == INSTANCE ApiProcess
Mgr == INSTANCE PgManager

LoopsInit ==
    /\ part \in {"limit", "silence", "stream", "api", "manager"}
    /\ Init /\ Sil!Init /\ Str!Init
    /\ Api!Init /\ (part # "api" => broken = {})
    /\ Mgr!Init /\ (part # "manager" => informers = {})

silenceVars == <<phase, silences, dirty, due, silencePc, intent, todo, silenceFaults, failed, lost>>
streamVars == <<listed, watching, status, reported, index, events, queue, timer, pc, seen, missed,
                restarts>>
apiVars == <<broken, registered, enrolled, proc, routed, faults>>
managerVars == <<main, pool, cancelled, starter, started, stopped, informers, waited, runs, live,
                 synced, runner, probe>>

LoopsNext ==
    /\ UNCHANGED part
    /\ \/ part = "limit" /\ Next /\ UNCHANGED <<silenceVars, streamVars, apiVars, managerVars>>
       \/ part = "silence" /\ Sil!Next /\ UNCHANGED <<vars, streamVars, apiVars, managerVars>>
       \/ part = "stream" /\ Str!Next /\ UNCHANGED <<vars, silenceVars, apiVars, managerVars>>
       \/ part = "api" /\ Api!Next /\ UNCHANGED <<vars, silenceVars, streamVars, managerVars>>
       \/ part = "manager" /\ Mgr!Next /\ UNCHANGED <<vars, silenceVars, streamVars, apiVars>>

loopsVars == <<part, vars, silenceVars, streamVars, apiVars, managerVars>>

\* The fairness each component states, of its steps here.
LoopsSpec ==
    /\ LoopsInit /\ [][LoopsNext]_loopsVars
    /\ WF_silenceVars(part = "silence" /\ Sil!Reconcile)
    /\ WF_silenceVars(part = "silence" /\ Sil!Tick)
    /\ \A o \in Str!Objects :
        /\ WF_streamVars(part = "stream" /\ Str!TimerFires(o))
        /\ WF_streamVars(part = "stream" /\ (Str!Register(o) \/ Str!ReadStatuses(o)))
    /\ \A p \in Replicas :
        /\ WF_apiVars(part = "api" /\ Api!Startup(p))
        /\ WF_apiVars(part = "api" /\ Api!Stop(p))
        /\ WF_apiVars(part = "api" /\ Api!Probe(p))
    /\ WF_managerVars(part = "manager" /\ Mgr!Main)
    /\ WF_managerVars(part = "manager" /\ Mgr!Cache)
    /\ \A k \in Mgr!Kinds : WF_managerVars(part = "manager" /\ Mgr!Informer(k))
    /\ \A r \in Runnables : WF_managerVars(part = "manager" /\ Mgr!Runner(r))


\* Silences: a cluster that installs or is deleted is without its silence for at
\* most one retry delay per failed call.
CoverLost == Sil!CoverLost


\* ApiProcess: handlers run for known accounts only, and a replica listens only
\* when its settings hold and its management clusters are registered.
ApiSafe == Api!AdmittedIsKnown /\ Api!ServesComplete

\* ApiProcess: no request is cut off by a shutdown that had time for it.
Graceful == Api!Graceful

\* PgManager: each informer runs once, and the pool outlives what uses it.
ManagerSafe == Mgr!ManagerSafe
===============================================================================
