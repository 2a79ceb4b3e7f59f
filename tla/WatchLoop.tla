------------------------------ MODULE WatchLoop ------------------------------
(***************************************************************************)
(* When the watcher polls: the scheduler of reader.Watcher.Run, its        *)
(* listenLoop, and the doorbell.Debouncer of a writer, for one GVK.        *)
(*                                                                         *)
(* Time is counted in ticks.  A goroutine that can run does so before time *)
(* passes; how long a poll takes and when connections break is up to the   *)
(* environment.  What a poll reads is the subject of InformerWatch: here a *)
(* poll covers the writes committed before it started.                     *)
(***************************************************************************)
EXTENDS Integers

CONSTANTS
    Baseline,    \* WatcherConfig.BaselineInterval (5 s)
    Floor,       \* WatcherConfig.DebounceFloor (100 ms)
    Window,      \* the Debouncer's window (50 ms)
    Backoff,     \* the least wait before listenLoop reconnects (100 ms)
    MaxPoll      \* bound: how long a poll takes

VARIABLES
    factory,   \* WatcherConfig.ListenConnFactory is set
    loop,      \* Run: "first" poll, "select", "poll", "shutdown", "stopped"
    polled,    \* how long the poll in progress has taken
    timer,     \* time left on the timer; 0: it has fired into its channel
    since,     \* time since lastPoll
    bell,      \* doorbellCh holds a token
    conn,      \* listenLoop: "off" not started, "down", "up", "exited"
    backoff,   \* time left until listenLoop tries to reconnect
    rung,      \* Debouncer.dirty holds the GVK
    window,    \* time to the Debouncer's next tick
    age,       \* age of the oldest committed write no poll covers; -1: none
    lost       \* its notification was sent, if at all, and did not arrive

vars == <<factory, loop, polled, timer, since, bell, conn, backoff, rung, window, age, lost>>

\* Bound: ages beyond every latency the properties speak of are not told apart.
MaxAge == Baseline + Window + Floor + MaxPoll + 1

TypeOK == /\ factory \in BOOLEAN
          /\ loop \in {"first", "select", "poll", "shutdown", "stopped"}
          /\ polled \in 0 .. MaxPoll
          /\ timer \in 0 .. Baseline
          /\ since \in 0 .. Baseline
          /\ bell \in BOOLEAN
          /\ conn \in {"off", "down", "up", "exited"}
          /\ backoff \in 0 .. Backoff
          /\ rung \in BOOLEAN
          /\ window \in 0 .. Window
          /\ age \in -1 .. MaxAge
          /\ lost \in BOOLEAN

Init == /\ factory \in BOOLEAN
        /\ loop = "first" /\ polled = 0
        /\ timer = Baseline /\ since = 0
        /\ bell = FALSE /\ conn = "off" /\ backoff = Backoff
        /\ rung = FALSE /\ window = Window
        /\ age = -1 /\ lost = FALSE

-----------------------------------------------------------------------------
(* Run. *)

\* A poll starts: its snapshot covers everything committed so far.
StartPoll == /\ loop' = "poll"
             /\ polled' = 0
             /\ age' = -1
             /\ lost' = FALSE

\* The poll before the loop ends: the timer and the listenLoop start.
FirstPoll == /\ loop = "first"
             /\ loop' = "select"
             /\ since' = 0 /\ timer' = Baseline
             /\ \E c \in {"up", "down"} : conn' = c
             /\ UNCHANGED <<factory, polled, bell, backoff, rung, window, age, lost>>

\* The poll before the loop fails: Run returns its error.
FirstPollFails == /\ loop = "first"
                  /\ loop' = "stopped"
                  /\ UNCHANGED <<factory, polled, timer, since, bell, conn, backoff, rung, window, age, lost>>

\* Mutants of Doorbell.  A ring inside the debounce window is swallowed.
Doorbell_Swallowed == /\ loop = "select" /\ bell
                      /\ bell' = FALSE
                      /\ \/ /\ since >= Floor
                            /\ StartPoll
                         \/ /\ since < Floor
                            /\ UNCHANGED <<loop, polled, age, lost>>
                      /\ UNCHANGED <<factory, timer, since, conn, backoff, rung, window>>

\* case <-doorbellCh: leading edge, poll now; trailing edge, set the timer to
\* the end of the debounce window that began with the last poll.
Doorbell == /\ loop = "select" /\ bell
            /\ bell' = FALSE
            /\ \/ /\ since >= Floor
                  /\ StartPoll
                  /\ UNCHANGED <<timer, since>>
               \/ /\ since < Floor
                  /\ timer' = Floor - since
                  /\ UNCHANGED <<loop, polled, since, age, lost>>
            /\ UNCHANGED <<factory, conn, backoff, rung, window>>

\* case <-timer.C, the baseline or the trailing edge.
TimerFires == /\ loop = "select" /\ timer = 0
              /\ StartPoll
              /\ UNCHANGED <<factory, timer, since, bell, conn, backoff, rung, window>>

\* The poll returns: the timer is stopped, drained and reset.
PollEnds == /\ loop = "poll"
            /\ loop' = "select"
            /\ since' = 0 /\ timer' = Baseline
            /\ UNCHANGED <<factory, polled, bell, conn, backoff, rung, window, age, lost>>

\* A poll fails, the context is cancelled or Stop is called.
Shutdown == /\ loop \in {"select", "poll"}
            /\ loop' = "shutdown"
            /\ UNCHANGED <<factory, polled, timer, since, bell, conn, backoff, rung, window, age, lost>>

\* listenWg.Wait() returns and Run with it.
RunReturns == /\ loop = "shutdown" /\ conn = "exited"
              /\ loop' = "stopped"
              /\ UNCHANGED <<factory, polled, timer, since, bell, conn, backoff, rung, window, age, lost>>

-----------------------------------------------------------------------------
(* listenLoop. *)

\* WaitForNotification fails.  Without a factory the goroutine ends.
ListenBreaks == /\ conn = "up" /\ loop \in {"select", "poll"}
                /\ conn' = "down"
                /\ backoff' = Backoff
                /\ UNCHANGED <<factory, loop, polled, timer, since, bell, rung, window, age, lost>>

\* A new connection LISTENs, and rings once for what may have been missed.
\* An attempt that fails waits again (the code waits longer each time).
Reconnect == /\ factory /\ conn = "down" /\ loop \in {"select", "poll"}
             /\ backoff = 0
             /\ \/ conn' = "up" /\ bell' = TRUE /\ UNCHANGED backoff
                \/ backoff' = Backoff /\ UNCHANGED <<conn, bell>>
             /\ UNCHANGED <<factory, loop, polled, timer, since, rung, window, age, lost>>

\* Mutant: a listener that waits for a notification does not see the shutdown.
ListenExits_OnlyDown == /\ conn = "down"
                        /\ ~factory \/ loop = "shutdown"
                        /\ conn' = "exited"
                        /\ UNCHANGED <<factory, loop, polled, timer, since, bell, backoff, rung, window, age, lost>>

\* Without a connection and a factory, or when Run has shut down.
ListenExits == /\ \/ conn = "down" /\ ~factory
                  \/ conn \in {"up", "down"} /\ loop = "shutdown"
               /\ conn' = "exited"
               /\ UNCHANGED <<factory, loop, polled, timer, since, bell, backoff, rung, window, age, lost>>

-----------------------------------------------------------------------------
(* A writer, its Debouncer, and time. *)

\* A write commits and callStoredProc rings the Debouncer.
Write == /\ loop \in {"first", "select", "poll"}
         /\ rung' = TRUE
         /\ age' = IF age = -1 THEN 0 ELSE age
         /\ UNCHANGED <<factory, loop, polled, timer, since, bell, conn, backoff, window, lost>>

\* flush, when the ticker fires: the set is cleared, then pg_notify is sent.
\* The listener gets it if it is connected and the send succeeds.
Flush == /\ window = 0
         /\ window' = Window
         /\ rung' = FALSE
         /\ \/ /\ rung /\ conn = "up"
               /\ bell' = TRUE
               /\ UNCHANGED lost
            \/ /\ rung
               /\ lost' = (age >= 0)
               /\ UNCHANGED bell
            \/ /\ ~rung
               /\ UNCHANGED <<bell, lost>>
         /\ UNCHANGED <<factory, loop, polled, timer, since, conn, backoff, age>>

\* Time passes when no goroutine has anything to do.
Idle == /\ window > 0
        /\ \/ loop = "select" /\ ~bell /\ timer > 0
           \/ loop \in {"first", "poll"} /\ polled < MaxPoll

Tick == /\ Idle
        /\ polled' = IF loop = "select" THEN polled ELSE polled + 1
        /\ timer' = IF loop # "first" /\ timer > 0 THEN timer - 1 ELSE timer
        /\ since' = IF loop = "select" THEN since + 1 ELSE since
        /\ window' = window - 1
        /\ backoff' = IF conn = "down" /\ backoff > 0 THEN backoff - 1 ELSE backoff
        /\ age' = IF age \in {-1, MaxAge} THEN age ELSE age + 1
        /\ UNCHANGED <<factory, loop, bell, conn, rung, lost>>

Next == \/ FirstPoll \/ FirstPollFails \/ Doorbell \/ TimerFires \/ PollEnds \/ Shutdown \/ RunReturns
        \/ ListenBreaks \/ Reconnect \/ ListenExits
        \/ Write \/ Flush \/ Tick

Spec == Init /\ [][Next]_vars

\* Timers fire, polls return (statement_timeout), goroutines run.
FairSpec == /\ Spec
            /\ WF_vars(FirstPoll) /\ WF_vars(Doorbell \/ TimerFires) /\ WF_vars(PollEnds)
            /\ WF_vars(RunReturns) /\ WF_vars(ListenExits) /\ WF_vars(Flush) /\ WF_vars(Tick)

-----------------------------------------------------------------------------
\* A committed write is read by a poll within the baseline interval even when
\* its notification is lost, and within window and debounce floor when it is
\* not; either way plus the poll in progress (DESIGN section 3.5, R2).
DeliveryLatency ==
    /\ TypeOK
    /\ loop \in {"first", "select", "poll"} =>
        age <= MaxPoll + (IF lost \/ conn # "up" THEN Baseline ELSE Window + Floor)

\* Bursts of doorbells, the trailing edge and the baseline timer together never
\* make polls start less than the debounce floor apart.
PollsSpaced == [][loop = "select" /\ loop' = "poll" => since >= Floor]_vars

\* A poll error, Stop or a cancelled context ends Run: the listener, whatever
\* state its connection is in, does not keep it waiting.
ShutdownCompletes == loop = "shutdown" ~> loop = "stopped"

=============================================================================
