--------------------------- MODULE MCInformerWatch ---------------------------
(* A watch, in two parts that are checked side by side: what its polls read   *)
(* and hand on (InformerWatch), and when it polls (WatchLoop).  The variable  *)
(* part says which one a behaviour is about; the other keeps its initial      *)
(* state.                                                                     *)
EXTENDS InformerWatch

VARIABLES
    part,
    factory, loop, polled, timer, since, bell, conn, backoff, rung, window, age, lost

loopVars == <<factory, loop, polled, timer, since, bell, conn, backoff, rung, window, age, lost>>

Loop == INSTANCE WatchLoop WITH Baseline <- 7, Floor <- 2, Window <- 1, Backoff <- 2, MaxPoll <- 1

WatchInit == /\ part \in {"informer", "loop"}
             /\ Init
             /\ Loop!Init /\ (part = "informer" => ~factory)

WatchNext == /\ UNCHANGED part
             /\ \/ part = "informer" /\ Next /\ UNCHANGED loopVars
                \/ part = "loop" /\ Loop!Next /\ UNCHANGED vars

\* The fairness each part states, of its steps here.
WatchSpec ==
    /\ WatchInit /\ [][WatchNext]_<<part, vars, loopVars>>
    /\ WF_vars(part = "informer" /\ List) /\ WF_vars(part = "informer" /\ Poll)
    /\ WF_vars(part = "informer" /\ PollGone) /\ WF_vars(part = "informer" /\ Deliver)
    /\ \A x \in 1 .. MaxXid : WF_vars(part = "informer" /\ Ends(x))
    /\ WF_loopVars(part = "loop" /\ Loop!FirstPoll)
    /\ WF_loopVars(part = "loop" /\ (Loop!Doorbell \/ Loop!TimerFires))
    /\ WF_loopVars(part = "loop" /\ Loop!PollEnds) /\ WF_loopVars(part = "loop" /\ Loop!RunReturns)
    /\ WF_loopVars(part = "loop" /\ Loop!ListenExits) /\ WF_loopVars(part = "loop" /\ Loop!Flush)
    /\ WF_loopVars(part = "loop" /\ Loop!Tick)

\* WatchLoop: a committed write is polled within the baseline interval, or
\* within window and debounce floor when its notification arrives.
DeliveryLatency == Loop!DeliveryLatency

\* InformerWatch and WatchLoop: the store becomes equal to the table, and Run
\* returns once it shuts down, whatever its listener is doing.
WatchSettles == Converges /\ Loop!ShutdownCompletes
==============================================================================
