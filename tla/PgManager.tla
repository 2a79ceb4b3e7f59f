------------------------------- MODULE PgManager ------------------------------
(***************************************************************************)
(* The life of a seaplane-db manager: NewManager, pgManager.Start, the     *)
(* cache's Start in a goroutine of its own, the runnables (controllers)    *)
(* that ask the cache for informers, and the shutdown.                     *)
(***************************************************************************)
EXTENDS Naturals, FiniteSets

CONSTANTS
    Runnables,   \* added before Start
    InformersOf, \* [Runnables -> SUBSET kinds]: the informers a runnable asks for
    EarlyKinds   \* kinds that may have an informer before Start

VARIABLES
    main,        \* NewManager and Start: the step it is at
    pool,        \* none, open, closed
    cancelled,   \* the context of Start is done
    starter,     \* pgCache.Start: waiting, running, stopping, done
    started,     \* pgCache.started (and stopCh made)
    stopped,     \* stopCh is closed
    informers,   \* pgCache.informers
    waited,      \* those of the list cache.Start made
    runs,        \* [kinds -> Nat]: times Run was called on the kind's informer
    live,        \* informers whose Run has not returned
    synced,      \* informers that have listed
    runner,      \* [Runnables -> idle, starting, running, stopped]
    probe        \* the health probe server: off, up, closed

managerVars == <<main, pool, cancelled, starter, started, stopped, informers, waited,
                 runs, live, synced, runner, probe>>

Kinds == EarlyKinds \cup UNION {InformersOf[r] : r \in Runnables}

cacheVars == <<starter, started, stopped, waited>>

\* NewManager: options and shards are checked before the pool is made; an error
\* of the connection or of the migration closes it.
NewManager ==
    /\ main = "new"
    /\ \/ main' = "failed" /\ pool' = "none"      \* options, shards, createPool
       \/ main' = "failed" /\ pool' = "closed"    \* Acquire, Migrate
       \/ main' = "start" /\ pool' = "open"
    /\ UNCHANGED <<cancelled, informers, runs, live, synced, runner, probe, cacheVars>>

\* Start: the probe server and the cache run from here on.
Start ==
    /\ main = "start"
    /\ main' = "sync" /\ starter' = "waiting" /\ probe' = "up"
    /\ UNCHANGED <<pool, cancelled, started, stopped, informers, waited, runs, live, synced, runner>>

Cancel ==
    /\ ~cancelled /\ main # "new"
    /\ cancelled' = TRUE
    /\ probe' = IF probe = "up" THEN "closed" ELSE probe
    /\ UNCHANGED <<main, pool, informers, runs, live, synced, runner, cacheVars>>

RunInformers(S) ==
    /\ runs' = [k \in Kinds |-> IF k \in S THEN runs[k] + 1 ELSE runs[k]]
    /\ live' = live \cup (IF stopped THEN {} ELSE S)

\* Mutant of Snapshot: the informers cache.Start found when it was called.
Snapshot_Early == EarlyKinds \cap informers

\* pgCache.Start, under the lock: mark it started and list the informers.
Snapshot == informers

CacheStart ==
    /\ starter = "waiting"
    /\ starter' = "running" /\ started' = TRUE
    /\ waited' = Snapshot
    /\ RunInformers(Snapshot)
    /\ UNCHANGED <<main, pool, cancelled, stopped, informers, synced, runner, probe>>

CacheStop ==
    /\ \/ /\ starter = "running" /\ cancelled
          /\ starter' = "stopping" /\ stopped' = TRUE
       \/ /\ starter = "stopping" /\ waited \cap live = {}
          /\ starter' = "done" /\ UNCHANGED stopped
    /\ UNCHANGED <<main, pool, cancelled, started, informers, waited, runs, live, synced, runner, probe>>

\* An informer lists, and returns from Run when stopCh is closed.
InformerSyncs(k) ==
    /\ k \in live \ synced /\ pool = "open"
    /\ synced' = synced \cup {k}
    /\ UNCHANGED <<main, pool, cancelled, informers, runs, live, runner, probe, cacheVars>>

InformerStops(k) ==
    /\ k \in live /\ stopped
    /\ live' = live \ {k}
    /\ UNCHANGED <<main, pool, cancelled, informers, runs, synced, runner, probe, cacheVars>>

\* WaitForCacheSync: the informers known by now, or the end of the context.
WaitForCacheSync ==
    /\ main = "sync"
    /\ \/ /\ informers \subseteq synced
          /\ main' = "run" /\ runner' = [r \in Runnables |-> "starting"]
       \/ /\ cancelled
          /\ main' = "failed" /\ UNCHANGED runner
    /\ UNCHANGED <<pool, cancelled, informers, runs, live, synced, probe, cacheVars>>

\* getOrCreateInformer, under the same lock: the cache runs what it lists, the
\* first caller what comes after.
GetInformer(r, k) ==
    /\ runner[r] = "starting" /\ k \in InformersOf[r] \ informers
    /\ informers' = informers \cup {k}
    /\ IF started THEN RunInformers({k}) ELSE UNCHANGED <<runs, live>>
    /\ UNCHANGED <<main, pool, cancelled, synced, runner, probe, cacheVars>>

\* A controller starts its workers when its informers have synced, and gives up
\* when the context ends first.
RunnerStarts(r) ==
    /\ runner[r] = "starting" /\ InformersOf[r] \subseteq informers \cap synced
    /\ runner' = [runner EXCEPT ![r] = "running"]
    /\ UNCHANGED <<main, pool, cancelled, informers, runs, live, synced, probe, cacheVars>>

RunnerStops(r) ==
    /\ runner[r] \in {"starting", "running"} /\ cancelled
    /\ runner' = [runner EXCEPT ![r] = "stopped"]
    /\ UNCHANGED <<main, pool, cancelled, informers, runs, live, synced, probe, cacheVars>>

\* Mutant of WaitGroupDone: the runnables are not in the wait group.
WaitGroupDone_CacheOnly == starter = "done"

WaitGroupDone == starter = "done" /\ \A r \in Runnables : runner[r] = "stopped"

Return ==
    /\ main = "run" /\ cancelled /\ WaitGroupDone
    /\ main' = "returned" /\ pool' = "closed"
    /\ UNCHANGED <<cancelled, informers, runs, live, synced, runner, probe, cacheVars>>

Init ==
    /\ main = "new" /\ pool = "none" /\ cancelled = FALSE
    /\ starter = "off" /\ started = FALSE /\ stopped = FALSE
    /\ informers \in SUBSET EarlyKinds /\ waited = {} /\ runs = [k \in Kinds |-> 0]
    /\ live = {} /\ synced = {} /\ probe = "off"
    /\ runner = [r \in Runnables |-> "idle"]

Runner(r) == RunnerStarts(r) \/ RunnerStops(r) \/ \E k \in InformersOf[r] : GetInformer(r, k)
Informer(k) == InformerSyncs(k) \/ InformerStops(k)
Main == NewManager \/ Start \/ WaitForCacheSync \/ Return
Cache == CacheStart \/ CacheStop

Next == Main \/ Cancel \/ Cache \/ (\E k \in Kinds : Informer(k)) \/ (\E r \in Runnables : Runner(r))

\* Goroutines that can run do; nobody need cancel.
Fairness ==
    /\ WF_managerVars(Main) /\ WF_managerVars(Cache)
    /\ \A k \in Kinds : WF_managerVars(Informer(k))
    /\ \A r \in Runnables : WF_managerVars(Runner(r))

Spec == Init /\ [][Next]_managerVars /\ Fairness

-------------------------------------------------------------------------------
\* Every informer is run, and once: by the cache when it was asked for before the
\* cache listed them, by whoever asked first otherwise.  The pool is closed only
\* when the runnables, and the informers the cache waits for, have stopped.
ManagerSafe ==
    /\ \A k \in Kinds : runs[k] = IF started /\ k \in informers THEN 1 ELSE 0
    /\ main = "returned" => /\ waited \cap live = {}
                            /\ \A r \in Runnables : runner[r] = "stopped"

\* Every controller gets to work unless the manager is stopped, and a manager
\* that is stopped returns.
AtRest ==
    IF cancelled THEN main \in {"returned", "failed"}
    ELSE main \in {"new", "failed"} \/ \A r \in Runnables : runner[r] = "running"
ManagerProgresses == []<>AtRest
===============================================================================
