--------------------------- MODULE ServerLifecycle ---------------------------
(***************************************************************************)
(* Server::run and tick_loop (server.rs): start-up, the accept loop, the   *)
(* tick loop beside it, and shutdown on an interrupt.                      *)
(*                                                                         *)
(* The accept loop is a select! inside a loop.  Each turn makes new        *)
(* futures, polls them in an order picked at random and drops those that   *)
(* did not win.  The future of ctrl_c() starts to listen when it is polled *)
(* for the first time and hears only interrupts that come while it lives.  *)
(* The tick loop's receiver outlives its turns, so what is sent to it      *)
(* stays.                                                                  *)
(***************************************************************************)
EXTENDS TickMetrics

CONSTANTS
    Arrivals,     \* connections clients will ever make
    Backlog,      \* the queue of the listening socket
    MaxPresses,   \* times the operator presses Ctrl-C
    Second,       \* nanoseconds to the second, the unit of a Duration
    TickRate,     \* config.tick_rate
    MaxBody,      \* the longest a tick takes
    Tolerance,    \* lateness the timer makes nothing of, 5 ms
    MaxLate       \* how far behind its deadline the timer is ever looked at

ASSUME ServerLifecycleAssumption ==
    /\ {Arrivals, Backlog, MaxPresses, MaxBody, Tolerance, MaxLate, Second} \subseteq Nat
    /\ TickRate \in Nat \ {0}   \* ServerConfig::validate refuses zero

\* config.tick_duration(): a second over the rate, rounded to whole nanoseconds.
Period == (2 * Second + TickRate) \div (2 * TickRate)

VARIABLES
    run,        \* where Server::run stands
    subscribed, \* the tick loop's receiver exists
    arrived,    \* connections made so far
    queued,     \* connections not accepted yet
    tasks,      \* connection tasks spawned and not over
    hooked,     \* the process handles SIGINT itself
    listening,  \* a ctrl_c() future is alive and has been polled
    heard,      \* that future has an interrupt to deliver
    presses,    \* interrupts so far
    told,       \* the shutdown message is in the tick loop's receiver
    ticker,     \* where tick_loop stands
    due,        \* time until the timer's deadline, negative once it is missed
    since,      \* time since the last tick started, up to Period
    body        \* time the current tick has taken

server == <<run, subscribed, arrived, queued, tasks, hooked, listening, heard, presses, told>>
clock == <<window, due, since, body>>
vars == <<server, ticker, clock>>

Ended == run \in {"stopped", "killed"}

-----------------------------------------------------------------------------
(* Server::run.                                                            *)

\* Mutated: the tick loop subscribes for itself once it runs.
StartTickerUnsubscribed ==
    /\ run = "bound"
    /\ run' = "select"
    /\ ticker' = "spawned"
    /\ UNCHANGED <<subscribed, arrived, queued, tasks, hooked, listening, heard, presses, told>>
    /\ UNCHANGED clock

\* The receiver is made before the task is spawned.
StartTicker ==
    /\ run = "bound"
    /\ run' = "select"
    /\ subscribed' = TRUE
    /\ ticker' = "spawned"
    /\ UNCHANGED <<arrived, queued, tasks, hooked, listening, heard, presses, told>>
    /\ UNCHANGED clock

\* Mutated: an accept error ends the loop.
AcceptWinsOrBreaks ==
    /\ run = "select"
    /\ queued > 0
    /\ queued' = queued - 1
    /\ \/ tasks' = tasks + 1 /\ UNCHANGED <<run, told>>
       \/ run' = "draining" /\ told' = subscribed /\ UNCHANGED tasks
    /\ hooked' \in {hooked, TRUE}
    /\ listening' = FALSE
    /\ heard' = FALSE
    /\ UNCHANGED <<subscribed, arrived, presses, ticker, clock>>

\* A turn of select! that accept() wins, as it may whether or not the interrupt
\* branch was polled before it, unless that branch was and had something.  An
\* accept error is logged and the loop goes on.
AcceptWins ==
    /\ run = "select"
    /\ queued > 0
    /\ queued' = queued - 1
    /\ tasks' \in {tasks, tasks + 1}
    /\ hooked' \in {hooked, TRUE}
    /\ listening' = FALSE
    /\ heard' = FALSE
    /\ UNCHANGED <<run, subscribed, arrived, presses, told, ticker, clock>>

\* Mutated: the shutdown is announced but the loop goes on.
InterruptWithoutBreak ==
    /\ run = "select"
    /\ listening
    /\ heard
    /\ told' = subscribed
    /\ listening' = FALSE
    /\ heard' = FALSE
    /\ UNCHANGED <<run, subscribed, arrived, queued, tasks, hooked, presses, ticker, clock>>

\* The turn goes to the interrupt: send reaches the receivers there are.
InterruptWins ==
    /\ run = "select"
    /\ listening
    /\ heard
    /\ run' = "draining"
    /\ told' = subscribed
    /\ listening' = FALSE
    /\ heard' = FALSE
    /\ UNCHANGED <<subscribed, arrived, queued, tasks, hooked, presses, ticker, clock>>

\* No branch is ready.  That includes a turn in which the runtime's budget for
\* this poll is spent and accept() has to wait although somebody is queued.
NobodyWins ==
    /\ run = "select"
    /\ ~listening
    /\ listening' = TRUE
    /\ hooked' = TRUE
    /\ UNCHANGED <<run, subscribed, arrived, queued, tasks, heard, presses, told, ticker, clock>>

\* ticker.await, which a panic of the tick loop ends as well; then run returns and
\* the runtime drops what is still running.
Stop ==
    /\ run = "draining"
    /\ ticker \in {"stopped", "panicked"}
    /\ run' = "stopped"
    /\ tasks' = 0
    /\ UNCHANGED <<subscribed, arrived, queued, hooked, listening, heard, presses, told>>
    /\ UNCHANGED <<ticker, clock>>

-----------------------------------------------------------------------------
(* tick_loop.                                                              *)

\* interval(period) is due at once.  It asserts that the period is not zero; a
\* panic takes the receiver with it, and nobody looks at the task before the end.
TickerBegins ==
    /\ ticker = "spawned"
    /\ ticker' = IF Period = 0 THEN "panicked" ELSE "select"
    /\ subscribed' = (Period # 0)
    /\ due' = 0
    /\ UNCHANGED <<run, arrived, queued, tasks, hooked, listening, heard, presses, told>>
    /\ UNCHANGED <<window, since, body>>

\* Mutated: the default behaviour of an interval, which makes up missed ticks.
TickBurst ==
    /\ ticker = "select"
    /\ due <= 0
    /\ ticker' = "tick"
    /\ due' = due + Period
    /\ since' = 0
    /\ body' = 0
    /\ UNCHANGED <<server, window>>

\* MissedTickBehavior::Delay: the next deadline is a period from now, or from the
\* last deadline when that was missed by no more than the tolerance.
Tick ==
    /\ ticker = "select"
    /\ due <= 0
    /\ ticker' = "tick"
    /\ due' = Period + (IF -due > Tolerance THEN 0 ELSE due)
    /\ since' = 0
    /\ body' = 0
    /\ UNCHANGED <<server, window>>

TickDone ==
    /\ ticker = "tick"
    /\ Record(body)
    /\ ticker' = "select"
    /\ UNCHANGED <<server, due, since, body>>

TickerStops ==
    /\ ticker = "select"
    /\ told
    /\ told' = FALSE
    /\ ticker' = "stopped"
    /\ UNCHANGED <<run, subscribed, arrived, queued, tasks, hooked, listening, heard, presses>>
    /\ UNCHANGED clock

-----------------------------------------------------------------------------
(* The surroundings.                                                       *)

\* Time passes; a tick in progress ends before its bound.
Elapse ==
    /\ ticker = "tick" => body < MaxBody
    /\ ticker \in {"select", "tick"}
    /\ due > -MaxLate
    /\ due' = due - 1
    /\ since' = IF since = Period THEN Period ELSE since + 1
    /\ body' = IF ticker = "tick" THEN body + 1 ELSE body
    /\ UNCHANGED <<server, ticker, window>>

Connect ==
    /\ arrived < Arrivals
    /\ queued < Backlog
    /\ arrived' = arrived + 1
    /\ queued' = queued + 1
    /\ UNCHANGED <<run, subscribed, tasks, hooked, listening, heard, presses, told, ticker, clock>>

TaskEnds ==
    /\ tasks > 0
    /\ tasks' = tasks - 1
    /\ UNCHANGED <<run, subscribed, arrived, queued, hooked, listening, heard, presses, told>>
    /\ UNCHANGED <<ticker, clock>>

\* Ctrl-C: before the first ctrl_c() was polled it kills the process, after
\* that only a future that is listening takes notice.
Press ==
    /\ ~Ended
    /\ presses < MaxPresses
    /\ presses' = presses + 1
    /\ IF hooked THEN heard' = listening /\ UNCHANGED run
                 ELSE run' = "killed" /\ UNCHANGED heard
    /\ UNCHANGED <<subscribed, arrived, queued, tasks, hooked, listening, told, ticker, clock>>

-----------------------------------------------------------------------------

Init ==
    /\ run = "bound"
    /\ subscribed = FALSE
    /\ arrived = 0
    /\ queued = 0
    /\ tasks = 0
    /\ hooked = FALSE
    /\ listening = FALSE
    /\ heard = FALSE
    /\ presses = 0
    /\ told = FALSE
    /\ ticker = "none"
    /\ window = <<>>
    /\ due = 0
    /\ since = Period
    /\ body = 0

Turn == AcceptWins \/ InterruptWins \/ NobodyWins

Process == StartTicker \/ Turn \/ Stop \/ TickerBegins \/ Tick \/ TickDone \/ TickerStops

Next ==
    \/ run # "killed" /\ (Process \/ Elapse \/ TaskEnds)
    \/ Connect
    \/ Press

Spec == Init /\ [][Next]_vars

\* Ready tasks are polled again, a tick ends, and the tick loop's select!, which
\* picks its order at random, does not put the shutdown branch last for ever.
Fairness ==
    /\ WF_vars(run # "killed" /\ (StartTicker \/ Turn \/ Stop))
    /\ WF_vars(run # "killed" /\ (TickerBegins \/ TickDone))
    /\ SF_vars(run # "killed" /\ TickerStops)

FairSpec == Spec /\ Fairness

-----------------------------------------------------------------------------
(* Properties.                                                             *)

TypeOK ==
    /\ run \in {"bound", "select", "draining", "stopped", "killed"}
    /\ ticker \in {"none", "spawned", "select", "tick", "stopped", "panicked"}
    /\ {subscribed, hooked, listening, heard, told} \subseteq BOOLEAN
    /\ arrived \in 0 .. Arrivals /\ queued \in 0 .. Backlog /\ tasks \in 0 .. Arrivals
    /\ presses \in 0 .. MaxPresses
    /\ due \in -MaxLate .. Period /\ since \in 0 .. Period /\ body \in 0 .. MaxBody
    /\ window \in Seq(0 .. MaxBody) /\ Len(window) <= Capacity

\* server.rs, tick_loop: "catch up by skipping rather than by running a burst of
\* back-to-back ticks": however long ticks take and however late the timer is
\* looked at, two ticks start at least a period less the tolerance apart.
NoBurst == [][ticker = "select" /\ ticker' = "tick" => since >= Period - Tolerance]_vars

\* Neither accept errors nor anything but an interrupt ends the server.
StopsOnlyWhenAsked == run # "bound" /\ presses = 0 => run = "select"

\* Once an interrupt has been taken the server comes down, whatever the tick
\* loop was doing at the time, not having started included.
ShutdownCompletes == run = "draining" ~> run = "stopped"

\* An interrupt that reaches the server while it waits and nobody connects any
\* more is not lost.
IdleInterruptStops ==
    run = "select" /\ heard /\ arrived = Arrivals /\ queued = 0 ~> Ended

\* server.rs:62, "Runs until interrupted": after an interrupt the server ends.
RunsUntilInterrupted == presses > 0 ~> Ended

\* config.rs:147, validate "rejects settings that would misbehave at runtime":
\* a tick rate it accepts gives a tick loop that ticks.
AcceptedRatesTick == ticker # "panicked"
=============================================================================
