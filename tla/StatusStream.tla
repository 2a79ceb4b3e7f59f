----------------------------- MODULE StatusStream -----------------------------
(***************************************************************************)
(* How the operator hears of what kube-applier reports: statusstream       *)
(* keeps one watcher per management cluster (MC) and status table, the     *)
(* EventRouter turns the document a watcher reports into an event of the   *)
(* object that registered it, and the object's reconcile reads the         *)
(* statuses again.  The channel of events is bounded and drops.            *)
(***************************************************************************)
EXTENDS Naturals, Sequences, SequencesExt

CONSTANTS
    MCs, TestMCs,   \* management clusters; those named test-mc-...
    Docs,           \* status documents
    TableOf,        \* [Docs -> MCs]: whose status tables hold the document
    OwnerOf,        \* [Docs -> objects]: the Cluster, NodePool or Manifest
    Capacity,       \* of the channel of status events
    MaxVersion,     \* [Docs -> Nat], bound: writes of a status document
    MaxRestarts     \* bound

VARIABLES
    listed,    \* the ManagementCluster objects
    watching,  \* the MCs whose status tables have a watcher
    status,    \* [Docs -> Nat]: version of the status document
    reported,  \* [Docs -> Nat]: version the watcher last called onChange with
    index,     \* the documents registered with the EventRouter
    events,    \* the channel
    queue,     \* objects in the work queue
    timer,     \* objects with a delayed requeue
    pc,        \* [Objects -> idle, register, read]
    seen,      \* [Docs -> Nat]: version the owner's last reconcile read
    missed,    \* history: objects one of whose events was dropped since
    restarts

streamVars == <<listed, watching, status, reported, index, events, queue, timer,
                pc, seen, missed, restarts>>

Objects == {OwnerOf[d] : d \in Docs}
DocsOf(o) == {d \in Docs : OwnerOf[d] = o}

-------------------------------------------------------------------------------
\* External: management clusters come and go.
ChangeMCs ==
    /\ \E m \in MCs : listed' = IF m \in listed THEN listed \ {m} ELSE listed \cup {m}
    /\ UNCHANGED <<watching, status, reported, index, events, queue, timer, pc, seen, missed, restarts>>

\* syncWatchers, on every tick.  A watcher that starts reads the table anew.
SyncWatchers ==
    /\ watching' = (watching \cap listed) \cup (listed \ TestMCs)
    /\ reported' = [d \in Docs |-> IF TableOf[d] \in watching' \ watching THEN 0 ELSE reported[d]]
    /\ UNCHANGED <<listed, status, index, events, queue, timer, pc, seen, missed, restarts>>

\* External: kube-applier writes a status.
WriteStatus(d) ==
    /\ status[d] < MaxVersion[d]
    /\ status' = [status EXCEPT ![d] = @ + 1]
    /\ UNCHANGED <<listed, watching, reported, index, events, queue, timer, pc, seen, missed, restarts>>

\* A send that does not block: the event is dropped when the channel is full.
Dispatch(d) ==
    \/ /\ d \notin index
       /\ UNCHANGED <<events, missed>>
    \/ /\ d \in index /\ Len(events) < Capacity
       /\ events' = Append(events, OwnerOf[d])
       /\ UNCHANGED missed
    \/ /\ d \in index /\ Len(events) >= Capacity
       /\ missed' = missed \cup {OwnerOf[d]}
       /\ UNCHANGED events

\* A watcher (external) calls onChange.
Report(d) ==
    /\ TableOf[d] \in watching /\ reported[d] # status[d]
    /\ reported' = [reported EXCEPT ![d] = status[d]]
    /\ Dispatch(d)
    /\ UNCHANGED <<listed, watching, status, index, queue, timer, pc, seen, restarts>>

\* The controller's channel source, and its delayed requeue.
Deliver ==
    /\ events # <<>>
    /\ queue' = queue \cup {Head(events)}
    /\ events' = Tail(events)
    /\ UNCHANGED <<listed, watching, status, reported, index, timer, pc, seen, missed, restarts>>

TimerFires(o) ==
    /\ o \in timer
    /\ timer' = timer \ {o}
    /\ queue' = queue \cup {o}
    /\ UNCHANGED <<listed, watching, status, reported, index, events, pc, seen, missed, restarts>>


Registered(o) == DocsOf(o)

\* A reconcile writes its desires and registers their documents,
Register(o) ==
    /\ pc[o] = "idle" /\ o \in queue
    /\ queue' = queue \ {o}
    /\ pc' = [pc EXCEPT ![o] = "read"]
    /\ index' = index \cup Registered(o)
    /\ UNCHANGED <<listed, watching, status, reported, events, timer, seen, missed, restarts>>


\* then reads their statuses and asks for a requeue after statusRefreshDelay.
ReadStatuses(o) ==
    /\ pc[o] = "read"
    /\ pc' = [pc EXCEPT ![o] = "idle"]
    /\ seen' = [d \in Docs |-> IF d \in DocsOf(o) THEN status[d] ELSE seen[d]]
    /\ missed' = missed \ {o}
    /\ timer' = timer \cup {o}
    /\ UNCHANGED <<listed, watching, status, reported, index, events, queue, restarts>>

\* The router, the channel and the queue are in memory; the first list queues
\* every object.
Restart ==
    /\ restarts < MaxRestarts
    /\ restarts' = restarts + 1
    /\ watching' = {} /\ index' = {} /\ events' = <<>> /\ timer' = {}
    /\ queue' = Objects /\ pc' = [o \in Objects |-> "idle"]
    /\ UNCHANGED <<listed, status, reported, seen, missed>>

Init ==
    /\ listed = {} /\ watching = {}
    /\ status = [d \in Docs |-> 0] /\ reported = status /\ seen = status
    /\ index = {} /\ events = <<>> /\ queue = Objects /\ timer = {} /\ missed = {}
    /\ pc = [o \in Objects |-> "idle"]
    /\ restarts = 0

Next ==
    \/ ChangeMCs \/ SyncWatchers \/ Deliver \/ Restart
    \/ \E d \in Docs : WriteStatus(d) \/ Report(d)
    \/ \E o \in Objects : TimerFires(o) \/ Register(o) \/ ReadStatuses(o)

\* Timers fire and workers run; a watcher need not report anything.
Fairness ==
    \A o \in Objects : WF_streamVars(TimerFires(o)) /\ WF_streamVars(Register(o) \/ ReadStatuses(o))

Spec == Init /\ [][Next]_streamVars /\ Fairness

-------------------------------------------------------------------------------

\* Every status is read in the end, whatever the channel dropped, whether or not
\* the table of its MC is watched, and across restarts.
AllSeen == seen = status
StatusNoticed == []<>AllSeen
===============================================================================
