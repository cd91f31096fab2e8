---------------------------- MODULE KnightRuntime ----------------------------
(***************************************************************************)
(* The life of a knight process, from the start of the signal listener to   *)
(* the end of main: main.cpp, runtime.cpp and signal_listener.cpp, with the *)
(* websocket source (WsSource) under them.                                  *)
(*                                                                          *)
(* Three threads, each at the granularity of its calls: main, the listener  *)
(* that waits for a signal, and the io thread that runs the handlers of the *)
(* source.  Runtime::stop is run by the listener or, from the destructor of *)
(* Runtime, by main.                                                        *)
(***************************************************************************)
EXTENDS Integers

CONSTANTS
    UseTls, MaxReconnectAttempts,
    Capacity,               \* of the queue
    SnapshotMaxAttempts,    \* kSnapshotMaxAttempts
    MaxSignals              \* bound: signals sent by users

ASSUME RuntimeAssumption ==
    /\ UseTls \in BOOLEAN /\ MaxReconnectAttempts \in Nat
    /\ Capacity \in Nat \ {0} /\ SnapshotMaxAttempts \in Nat \ {0}
    /\ MaxSignals \in Nat

VARIABLES
    ws, stopper, calls,     \* see WsSource
    main, listener,         \* where the threads are
    ioThread,
    attempt,                \* of request_snapshot
    running,                \* m_running
    by, at,                 \* the thread inside Runtime::stop, and where it is
    ioStopped,              \* m_io_ctx.stop() was called
    queued, queueClosed,    \* length of the pending queue, and whether it is closed
    pending,                \* blocked signals pending for the process
    wake,                   \* SIGTERM pending for the listener thread
    stopRequested,          \* m_stop_requested
    sent,                   \* history: signals sent by users
    asked                   \* history: when the listener called Runtime::stop

source  == <<ws, stopper, calls>>
tasks   == <<ioThread, attempt>>
threads == <<main, listener, tasks>>
stopping == <<running, by, at, ioStopped>>
queue   == <<queued, queueClosed>>
signals == <<pending, wake, stopRequested, sent>>
vars    == <<source, threads, stopping, queue, signals, asked>>

Source == INSTANCE WsSource WITH MaxStops <- 1, MaxRestarts <- 0

Signal == {"SIGINT", "SIGTERM"}
Over   == {"exited", "terminated", "killed"}

TypeOK ==
    /\ Source!TypeOK
    /\ main \in {"run", "spawn", "open", "waiting", "requesting", "backoff", "popping",
                 "returned", "joining", "destroying", "stopping"} \cup Over
    /\ attempt \in 0..SnapshotMaxAttempts
    /\ listener \in {"sigwait", "handler", "stopping", "gone"}
    /\ ioThread \in {"none", "running", "ended", "joined"}
    /\ running \in BOOLEAN /\ ioStopped \in BOOLEAN
    /\ by \in {"nobody", "main", "listener"} /\ at \in {"out", "feed", "queue", "io", "join"}
    /\ queued \in 0..Capacity /\ queueClosed \in BOOLEAN
    /\ pending \subseteq Signal /\ wake \in BOOLEAN /\ stopRequested \in BOOLEAN
    /\ sent \in 0..MaxSignals /\ asked \in {"no", "early", "window", "running"}

Init ==
    /\ Source!Init
    /\ main = "run" /\ listener = "sigwait" /\ ioThread = "none" /\ attempt = 0
    /\ running = FALSE /\ by = "nobody" /\ at = "out" /\ ioStopped = FALSE
    /\ queued = 0 /\ queueClosed = FALSE
    /\ pending = {} /\ wake = FALSE /\ stopRequested = FALSE /\ sent = 0 /\ asked = "no"
-----------------------------------------------------------------------------
(* main: Runtime::run *)

Main(from, to) ==
    main = from /\ main' = to /\ UNCHANGED <<listener, asked>>

Run ==
    /\ Main("run", "spawn")
    /\ running' = TRUE
    /\ UNCHANGED <<source, tasks, by, at, ioStopped, queue, signals>>

Spawn ==
    /\ Main("spawn", "open")
    /\ ioThread' = "running"
    /\ UNCHANGED <<attempt, source, stopping, queue, signals>>

OpenFeed ==
    /\ Main("open", "waiting")
    /\ Source!Open
    /\ UNCHANGED <<tasks, stopping, queue, signals>>

Elsewhere == UNCHANGED <<source, ioThread, stopping, queue, signals>>

Ready ==
    /\ Main("waiting", "requesting") /\ ws.feed = "OPEN"
    /\ attempt' = 1 /\ Elsewhere

\* wait_until_ready: a connection that failed, or ten seconds without an answer.
WaitFails ==
    /\ Main("waiting", "returned") /\ ws.feed # "OPEN"
    /\ UNCHANGED attempt /\ Elsewhere

\* request_snapshot.  The GET is synchronous, on a connection of its own and with
\* no timeout: it returns an answer, or an error from any of its steps, or never.
GetSucceeds == Main("requesting", "popping") /\ UNCHANGED attempt /\ Elsewhere

GetFails ==
    /\ Main("requesting", IF attempt = SnapshotMaxAttempts THEN "popping" ELSE "backoff")
    /\ UNCHANGED attempt /\ Elsewhere

Retry == Main("backoff", "requesting") /\ attempt' = attempt + 1 /\ Elsewhere

PopItem ==
    /\ Main("popping", "popping")
    /\ queued > 0
    /\ queued' = queued - 1
    /\ UNCHANGED <<source, tasks, stopping, queueClosed, signals>>

LoopEnds ==
    /\ Main("popping", "returned") /\ queued = 0 /\ queueClosed
    /\ UNCHANGED attempt /\ Elsewhere
-----------------------------------------------------------------------------
(* Runtime::stop, by the listener's handler or by the destructor *)

Exchange(thread) ==
    /\ running' = FALSE
    /\ IF running THEN by' = thread /\ at' = "feed" ELSE UNCHANGED <<by, at>>
    /\ UNCHANGED ioStopped

Stop(from, to) ==
    /\ at = from /\ stopper = "out" /\ at' = to
    /\ UNCHANGED <<main, listener, running, signals, asked>>

\* PendingFeed::close does nothing to a feed that is still closed.
CloseFeed ==
    /\ Stop("feed", "queue")
    /\ IF ws.feed = "CLOSED" THEN UNCHANGED source ELSE Source!StopBegins
    /\ UNCHANGED <<by, tasks, ioStopped, queue>>

CloseFeedGoesOn ==
    /\ Source!StopPublishes \/ Source!StopCloses
    /\ UNCHANGED <<threads, stopping, queue, signals, asked>>

CloseQueue ==
    /\ Stop("queue", "io")
    /\ queueClosed' = TRUE
    /\ UNCHANGED <<source, by, tasks, ioStopped, queued>>

\* Faulty variant: the io context is left running.
StopIoForgotten ==
    /\ Stop("io", "join")
    /\ UNCHANGED <<source, by, tasks, ioStopped, queue>>

StopIo ==
    /\ Stop("io", "join")
    /\ ioStopped' = TRUE
    /\ UNCHANGED <<source, by, tasks, queue>>

\* Faulty variant: the io thread is not joined.
JoinIoForgotten ==
    /\ Stop("join", "out")
    /\ by' = "nobody"
    /\ UNCHANGED <<source, tasks, ioStopped, queue>>

JoinIo ==
    /\ Stop("join", "out")
    /\ ioThread # "running"
    /\ ioThread' = IF ioThread = "ended" THEN "joined" ELSE ioThread
    /\ by' = "nobody"
    /\ UNCHANGED <<attempt, source, ioStopped, queue>>
-----------------------------------------------------------------------------
(* The signal listener *)

\* sigwait returns a signal of the thread or of the process.
SigWait ==
    /\ listener = "sigwait"
    /\ \/ wake /\ wake' = FALSE /\ UNCHANGED pending
       \/ \E s \in pending : pending' = pending \ {s} /\ UNCHANGED wake
    /\ listener' = IF stopRequested THEN "gone" ELSE "handler"
    /\ UNCHANGED <<source, main, tasks, stopping, queue, stopRequested, sent, asked>>

HandlerStops ==
    /\ listener = "handler"
    /\ Exchange("listener")
    /\ listener' = "stopping"
    /\ asked' = IF ~running THEN "early" ELSE IF main = "spawn" THEN "window" ELSE "running"
    /\ UNCHANGED <<source, main, tasks, queue, signals>>

HandlerReturns ==
    /\ listener = "stopping" /\ by # "listener"
    /\ listener' = "gone"
    /\ UNCHANGED <<source, main, tasks, stopping, queue, signals, asked>>
-----------------------------------------------------------------------------
(* main: the end *)

\* Faulty variant: the signal is sent to the process, not to the thread.
StopListenerByKill ==
    /\ Main("returned", "joining")
    /\ stopRequested' = TRUE
    /\ pending' = pending \cup {"SIGTERM"}
    /\ UNCHANGED <<source, tasks, stopping, queue, sent, wake>>

\* SignalListener::stop wakes the thread with a signal, unless it has ended, ...
StopListener ==
    /\ Main("returned", "joining")
    /\ stopRequested' = TRUE
    /\ wake' = (listener # "gone")
    /\ UNCHANGED <<source, tasks, stopping, queue, pending, sent>>

\* Faulty variant: the listener is not waited for.
UnmaskAtOnce ==
    /\ main = "joining"
    /\ main' = IF pending = {} THEN "destroying" ELSE "killed"
    /\ UNCHANGED <<source, listener, tasks, stopping, queue, signals, asked>>

\* ... waits for it, and unblocks the signals; one that is pending kills the process.
Unmask ==
    /\ main = "joining" /\ listener = "gone"
    /\ main' = IF pending = {} THEN "destroying" ELSE "killed"
    /\ UNCHANGED <<source, listener, tasks, stopping, queue, signals, asked>>

Destroy ==
    /\ Main("destroying", "stopping")
    /\ Exchange("main")
    /\ UNCHANGED <<source, tasks, queue, signals>>

\* The members of Runtime: a std::thread that was not joined calls std::terminate.
DestroyMembers ==
    /\ main = "stopping" /\ by # "main"
    /\ main' = IF ioThread \in {"none", "joined"} THEN "exited" ELSE "terminated"
    /\ UNCHANGED <<source, listener, tasks, stopping, queue, signals, asked>>
-----------------------------------------------------------------------------
(* The io thread, and the users *)

IoRuns == ioThread = "running" /\ ~ioStopped /\ main \notin Over

Handler(step) ==
    /\ IoRuns
    /\ step
    /\ UNCHANGED <<threads, stopping, queueClosed, signals, asked>>

\* Faulty variant: the capacity is not looked at.
ReadMessageUnbounded ==
    /\ Handler(Source!Read)
    /\ queued' = IF queueClosed THEN queued ELSE queued + 1

\* try_push drops the message when the queue is full or closed.
ReadMessage ==
    /\ Handler(Source!Read)
    /\ queued' = IF queueClosed \/ queued = Capacity THEN queued ELSE queued + 1

OtherHandler ==
    /\ \/ Handler(Source!TimerExpires)
       \/ Handler(Source!TimerFires)
       \/ \E k \in Source!Op, age \in Source!Age : Handler(Source!Complete(k, age))
    /\ UNCHANGED queued

IoEnds ==
    /\ ioThread = "running" /\ ioStopped
    /\ ioThread' = "ended"
    /\ UNCHANGED <<attempt, source, main, listener, stopping, queue, signals, asked>>

\* The signals are blocked until main unblocks them; then one kills the process.
UserSignals ==
    /\ main \notin Over /\ sent < MaxSignals
    /\ sent' = sent + 1
    /\ IF main \in {"destroying", "stopping"}
       THEN main' = "killed" /\ UNCHANGED pending
       ELSE \E s \in Signal : pending' = pending \cup {s} /\ UNCHANGED main
    /\ UNCHANGED <<source, listener, tasks, stopping, queue, wake, stopRequested, asked>>

MainStep ==
    \/ Run \/ Spawn \/ OpenFeed \/ Ready \/ WaitFails \/ Retry \/ PopItem \/ LoopEnds
    \/ StopListener \/ Unmask \/ Destroy \/ DestroyMembers
StopStep == CloseFeed \/ CloseFeedGoesOn \/ CloseQueue \/ StopIo \/ JoinIo
ListenerStep == SigWait \/ HandlerStops \/ HandlerReturns

Next ==
    \/ MainStep \/ GetSucceeds \/ GetFails
    \/ main \notin Over /\ (StopStep \/ ListenerStep)
    \/ ReadMessage \/ OtherHandler \/ IoEnds \/ UserSignals

Spec == Init /\ [][Next]_vars

(***************************************************************************)
(* Every thread that can run does, and wait_until_ready times out.  Nothing *)
(* is assumed of the peer, which may leave a GET unanswered, nor of users.  *)
(***************************************************************************)
FairSpec ==
    /\ Spec
    /\ WF_vars(MainStep) /\ WF_vars(IoEnds)
    /\ WF_vars(main \notin Over /\ StopStep) /\ WF_vars(main \notin Over /\ ListenerStep)
-----------------------------------------------------------------------------
(***************************************************************************)
(* The handler of the listener never works on a Runtime that main is        *)
(* already destroying.                                                      *)
(***************************************************************************)
HandlerOutlived ==
    listener \in {"handler", "stopping"} =>
        main \notin {"destroying", "stopping", "exited", "terminated"}

(***************************************************************************)
(* std::terminate is called only when the signal fell between the           *)
(* assignments of m_running and of m_io_thread in Runtime::run: whatever    *)
(* the source was doing, a later signal or a failed start joins the thread. *)
(***************************************************************************)
TerminatesOnlyInWindow == main = "terminated" => asked = "window"

(***************************************************************************)
(* A knight that is stopped by one signal comes to its end by itself: the   *)
(* signals that stop the listener and the process are not mixed up, so that *)
(* nothing is left to kill it when the signals are unblocked.               *)
(***************************************************************************)
OneSignalDoesNotKill == sent = 1 /\ asked # "no" => main # "killed"

(***************************************************************************)
(* A signal that reached Runtime::stop once it was running ends the         *)
(* process, wherever main, the io thread and the connection were, provided  *)
(* that main is not left waiting for one GET for ever: stop() does not      *)
(* interrupt the request, and its retries come to an end.                   *)
(***************************************************************************)
GetsReturn   == []<>(main # "requesting")
ShutdownEnds == GetsReturn => (asked \in {"window", "running"} ~> main \in Over)
=============================================================================
