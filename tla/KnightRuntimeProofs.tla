------------------------- MODULE KnightRuntimeProofs -------------------------
(***************************************************************************)
(* Proofs about the life of a knight process: how the three threads come to *)
(* their end, for any capacity, any number of attempts and of signals.      *)
(*                                                                          *)
(* The websocket source under the runtime behaves as WsSource says, with    *)
(* one call of stop and none of restart, so that what WsSourceProofs proves *)
(* of a source holds of this one; of its state the other invariants use     *)
(* nothing.                                                                 *)
(***************************************************************************)
EXTENDS KnightRuntime, TLAPS

SourceProofs == INSTANCE WsSourceProofs WITH MaxStops <- 1, MaxRestarts <- 0

\* Where main is past Unmask, and was not killed.
Ending == {"destroying", "stopping", "exited", "terminated"}

\* The listener is joined before the signals are unblocked.
ListenerJoined == main \in Ending => listener = "gone"

\* Who is inside Runtime::stop, and since when it can be.
StopHeld ==
    /\ by \in {"nobody", "main", "listener"} /\ at \in {"out", "feed", "queue", "io", "join"}
    /\ at = "out" <=> by = "nobody"
    /\ by = "listener" => listener = "stopping"
    /\ main = "run" => at = "out" /\ ~running
    /\ main \in {"stopping", "exited", "terminated"} => ~running

\* The io thread exists once run() has spawned it.
IoSpawned ==
    /\ ioThread \in {"none", "running", "ended", "joined"}
    /\ main \in {"run", "spawn"} <=> ioThread = "none"

\* When the listener asked, and what m_running is if it did not.
AskedWhen ==
    /\ running \in BOOLEAN /\ asked \in {"no", "early", "window", "running"}
    /\ asked = "running" => main \notin {"run", "spawn"}
    /\ asked # "no" => listener \in {"stopping", "gone"}
    /\ asked \in {"no", "early"} => \/ running /\ at = "out"
                                    \/ main \in {"run", "killed"} \cup (Ending \ {"destroying"})

\* A Runtime::stop that is over has joined the io thread, outside the window.
StopJoins ==
    ~running /\ main # "run" /\ at = "out" /\ asked # "window" => ioThread = "joined"

\* Of the first signal, nothing is pending once the handler has it.
FirstSignal ==
    /\ sent \in Nat
    /\ sent = 0 => pending = {}
    /\ sent = 1 => \A s, t \in pending : s = t
    /\ wake => stopRequested
    /\ listener = "handler" \/ asked # "no" => sent > 0 /\ (sent = 1 => pending = {})

RInv ==
    /\ ListenerJoined
    /\ StopHeld
    /\ IoSpawned
    /\ AskedWhen
    /\ StopJoins
    /\ FirstSignal
    /\ TerminatesOnlyInWindow
    /\ OneSignalDoesNotKill
-----------------------------------------------------------------------------
(***************************************************************************)
(* Every step of the process is a step of the source or leaves it alone.    *)
(***************************************************************************)
THEOREM SourceFollowsSpec == Spec => Source!Spec
<1>1. Init => Source!Init
  BY DEF Init
<1>2. [Next]_vars => [Source!Next]_(Source!vars)
  <2> SUFFICES ASSUME [Next]_vars PROVE [Source!Next]_(Source!vars)
    OBVIOUS
  <2> USE DEF Source!vars, source
  <2>1. CASE MainStep
    <3>1. CASE OpenFeed
      BY <3>1 DEF OpenFeed, Source!Next
    <3>2. CASE Run \/ Spawn \/ Ready \/ WaitFails \/ Retry \/ PopItem \/ LoopEnds
      BY <3>2 DEF Run, Spawn, Ready, WaitFails, Retry, PopItem, LoopEnds, Elsewhere
    <3>3. CASE StopListener \/ Unmask \/ Destroy \/ DestroyMembers
      BY <3>3 DEF StopListener, Unmask, Destroy, DestroyMembers
    <3> QED BY <2>1, <3>1, <3>2, <3>3 DEF MainStep
  <2>2. CASE GetSucceeds \/ GetFails \/ IoEnds \/ UserSignals \/ ListenerStep
    BY <2>2 DEF GetSucceeds, GetFails, Elsewhere, IoEnds, UserSignals, ListenerStep, SigWait,
                HandlerStops, HandlerReturns
  <2>3. CASE StopStep
    <3>1. CASE CloseFeed
      BY <3>1 DEF CloseFeed, Source!Next
    <3>2. CASE CloseFeedGoesOn
      BY <3>2 DEF CloseFeedGoesOn, Source!Next
    <3>3. CASE CloseQueue \/ StopIo \/ JoinIo
      BY <3>3 DEF CloseQueue, StopIo, JoinIo
    <3> QED BY <2>3, <3>1, <3>2, <3>3 DEF StopStep
  <2>4. CASE ReadMessage
    BY <2>4 DEF ReadMessage, Handler, Source!Next
  <2>5. CASE OtherHandler
    BY <2>5 DEF OtherHandler, Handler, Source!Next
  <2>6. CASE UNCHANGED vars
    BY <2>6 DEF vars
  <2> QED BY <2>1, <2>2, <2>3, <2>4, <2>5, <2>6 DEF Next
<1> QED BY <1>1, <1>2, PTL DEF Spec, Source!Spec
-----------------------------------------------------------------------------
(***************************************************************************)
(* The io thread's handlers and main between run() and its return touch     *)
(* nothing the invariant is about but main itself.                          *)
(***************************************************************************)
LEMMA QuietSteps ==
    ASSUME OpenFeed \/ Ready \/ WaitFails \/ Retry \/ PopItem \/ LoopEnds \/ GetSucceeds \/ GetFails
              \/ ReadMessage \/ OtherHandler \/ UNCHANGED vars
    PROVE  /\ UNCHANGED <<listener, asked, ioThread, running, by, at, pending, wake, stopRequested, sent>>
           /\ \/ main' = main
              \/ /\ main \notin {"run", "spawn", "joining", "killed"} \cup Ending
                 /\ main' \notin {"run", "spawn", "joining", "killed"} \cup Ending
<1> USE DEF Ending, tasks, stopping, signals, threads
<1>1. CASE OpenFeed \/ Ready \/ WaitFails \/ Retry \/ LoopEnds \/ GetSucceeds \/ GetFails
  BY <1>1 DEF OpenFeed, Ready, WaitFails, Retry, LoopEnds, GetSucceeds, GetFails, Main, Elsewhere
<1>2. CASE PopItem
  BY <1>2 DEF PopItem, Main
<1>3. CASE ReadMessage
  BY <1>3 DEF ReadMessage, Handler
<1>4. CASE OtherHandler
  BY <1>4 DEF OtherHandler, Handler
<1>5. CASE UNCHANGED vars
  BY <1>5 DEF vars
<1> QED BY <1>1, <1>2, <1>3, <1>4, <1>5

(***************************************************************************)
(* Every step keeps the invariant.                                          *)
(***************************************************************************)
LEMMA RuntimeStep == RInv /\ [Next]_vars => RInv'
<1> SUFFICES ASSUME RInv, [Next]_vars PROVE RInv'
  OBVIOUS
<1> USE DEF RInv, ListenerJoined, StopHeld, IoSpawned, AskedWhen, StopJoins, FirstSignal,
            TerminatesOnlyInWindow, OneSignalDoesNotKill, Ending
<1>1. CASE Run
  BY <1>1 DEF Run, Main, tasks, signals
<1>2. CASE Spawn
  BY <1>2 DEF Spawn, Main, stopping, signals
<1>3. CASE OpenFeed \/ Ready \/ WaitFails \/ Retry \/ PopItem \/ LoopEnds \/ GetSucceeds \/ GetFails
              \/ ReadMessage \/ OtherHandler \/ UNCHANGED vars
  BY <1>3, QuietSteps
<1>4. CASE StopListener
  BY <1>4 DEF StopListener, Main, tasks, stopping
<1>5. CASE Unmask
  BY <1>5 DEF Unmask, tasks, stopping, signals
<1>6. CASE Destroy
  BY <1>6 DEF Destroy, Main, Exchange, tasks, signals
<1>7. CASE DestroyMembers
  BY <1>7 DEF DestroyMembers, tasks, stopping, signals
<1>8. CASE main \notin Over /\ StopStep
  <2>1. CASE CloseFeed \/ CloseFeedGoesOn \/ CloseQueue \/ StopIo
    BY <1>8, <2>1 DEF CloseFeed, CloseFeedGoesOn, CloseQueue, StopIo, Stop, tasks, threads,
                      stopping, signals, Over
  <2>2. CASE JoinIo
    <3>1. /\ at = "join" /\ at' = "out" /\ by' = "nobody" /\ ioThread # "running"
          /\ ioThread' = IF ioThread = "ended" THEN "joined" ELSE ioThread
          /\ UNCHANGED <<main, listener, running, asked, pending, wake, stopRequested, sent>>
      BY <2>2 DEF JoinIo, Stop, signals
    <3>2. ListenerJoined' /\ StopHeld' /\ AskedWhen'
      BY <3>1
    <3>3. IoSpawned' /\ StopJoins'
      BY <3>1
    <3>4. FirstSignal' /\ TerminatesOnlyInWindow' /\ OneSignalDoesNotKill'
      BY <3>1
    <3> QED BY <3>2, <3>3, <3>4
  <2> QED BY <1>8, <2>1, <2>2 DEF StopStep
<1>9. CASE main \notin Over /\ ListenerStep
  <2>1. CASE SigWait
    BY <1>9, <2>1 DEF SigWait, tasks, stopping, Over
  <2>2. CASE HandlerStops
    BY <1>9, <2>2 DEF HandlerStops, Exchange, tasks, signals, Over
  <2>3. CASE HandlerReturns
    BY <1>9, <2>3 DEF HandlerReturns, tasks, stopping, signals, Over
  <2> QED BY <1>9, <2>1, <2>2, <2>3 DEF ListenerStep
<1>10. CASE IoEnds
  BY <1>10 DEF IoEnds, stopping, signals
<1>11. CASE UserSignals
  BY <1>11 DEF UserSignals, tasks, stopping, Over
<1> QED BY <1>1, <1>2, <1>3, <1>4, <1>5, <1>6, <1>7, <1>8, <1>9, <1>10, <1>11 DEF Next, MainStep

(***************************************************************************)
(* The invariant holds in every behaviour of the process.                   *)
(***************************************************************************)
THEOREM RuntimeInvariance == Spec => []RInv
<1>1. Init => RInv
  <2> SUFFICES ASSUME Init PROVE RInv
    OBVIOUS
  <2>1. /\ main = "run" /\ listener = "sigwait" /\ ioThread = "none" /\ running = FALSE
        /\ by = "nobody" /\ at = "out" /\ pending = {} /\ wake = FALSE /\ sent = 0 /\ asked = "no"
    BY DEF Init
  <2>2. ListenerJoined /\ StopHeld /\ IoSpawned /\ AskedWhen /\ StopJoins
    BY <2>1 DEF ListenerJoined, StopHeld, IoSpawned, AskedWhen, StopJoins, Ending
  <2>3. FirstSignal /\ TerminatesOnlyInWindow /\ OneSignalDoesNotKill
    BY <2>1 DEF FirstSignal, TerminatesOnlyInWindow, OneSignalDoesNotKill
  <2> QED BY <2>2, <2>3 DEF RInv
<1> QED BY <1>1, RuntimeStep, PTL DEF Spec

(***************************************************************************)
(* The listener's handler never works on a Runtime that is being destroyed. *)
(***************************************************************************)
THEOREM HandlerOutlivedByRuntime == Spec => []HandlerOutlived
<1>1. RInv => HandlerOutlived
  BY DEF RInv, ListenerJoined, HandlerOutlived, Ending
<1> QED BY <1>1, RuntimeInvariance, PTL

(***************************************************************************)
(* std::terminate needs a signal between the assignments of m_running and   *)
(* of m_io_thread: any other stop has joined the thread before the members  *)
(* of Runtime are destroyed.                                                *)
(***************************************************************************)
THEOREM TerminateNeedsWindow == Spec => []TerminatesOnlyInWindow
<1>1. RInv => TerminatesOnlyInWindow
  BY DEF RInv
<1> QED BY <1>1, RuntimeInvariance, PTL

(***************************************************************************)
(* One signal ends the process without killing it.                          *)
(***************************************************************************)
THEOREM NotKilledByOneSignal == Spec => []OneSignalDoesNotKill
<1>1. RInv => OneSignalDoesNotKill
  BY DEF RInv
<1> QED BY <1>1, RuntimeInvariance, PTL
-----------------------------------------------------------------------------
(***************************************************************************)
(* The source that the proofs are about is the one under the runtime.       *)
(***************************************************************************)
LEMMA SameSource == Source!Spec => SourceProofs!Spec
<1>1. Source!Init => SourceProofs!Init
  BY DEF Source!Init, SourceProofs!Init, Source!None, SourceProofs!None, Source!Op, SourceProofs!Op
<1>2. Source!Next <=> SourceProofs!Next
  <2>1. /\ \A w, k : Source!Issue(w, k) = SourceProofs!Issue(w, k)
        /\ \A w, to : Source!PublishState(w, to) = SourceProofs!PublishState(w, to)
    BY DEF Source!Issue, SourceProofs!Issue, Source!PublishState, SourceProofs!PublishState
  <2>2. \A w : /\ Source!ResetStream(w) = SourceProofs!ResetStream(w)
               /\ Source!ScheduleReconnect(w) = SourceProofs!ScheduleReconnect(w)
    BY DEF Source!ResetStream, SourceProofs!ResetStream, Source!None, SourceProofs!None,
           Source!Op, SourceProofs!Op, Source!ScheduleReconnect, SourceProofs!ScheduleReconnect
  <2>3. \A w : Source!Start(w) = SourceProofs!Start(w) /\ Source!Fail(w) = SourceProofs!Fail(w)
    BY <2>1, <2>2 DEF Source!Start, SourceProofs!Start, Source!Fail, SourceProofs!Fail
  <2>4. \A w, failed : Source!OnClose(w, failed) = SourceProofs!OnClose(w, failed)
    BY <2>1, <2>2, <2>3 DEF Source!OnClose, SourceProofs!OnClose
  <2>5. \A w : Source!DoClose(w) = SourceProofs!DoClose(w)
    BY <2>1, <2>4 DEF Source!DoClose, SourceProofs!DoClose
  <2>6. \A w : Source!DoRestart(w) = SourceProofs!DoRestart(w)
    BY <2>1, <2>2, <2>3, <2>5 DEF Source!DoRestart, SourceProofs!DoRestart
  <2>7. /\ Source!Open <=> SourceProofs!Open
        /\ Source!StopBegins <=> SourceProofs!StopBegins
        /\ Source!StopPublishes <=> SourceProofs!StopPublishes
        /\ Source!StopCloses <=> SourceProofs!StopCloses
        /\ Source!Restart <=> SourceProofs!Restart
    BY <2>1, <2>3, <2>5, <2>6
       DEF Source!Open, SourceProofs!Open, Source!StopBegins, SourceProofs!StopBegins,
           Source!StopPublishes, SourceProofs!StopPublishes, Source!StopCloses,
           SourceProofs!StopCloses, Source!Restart, SourceProofs!Restart, Source!Call, SourceProofs!Call
  <2>8. /\ Source!TimerExpires <=> SourceProofs!TimerExpires
        /\ Source!TimerFires <=> SourceProofs!TimerFires
    BY <2>3 DEF Source!TimerExpires, SourceProofs!TimerExpires, Source!TimerFires,
                SourceProofs!TimerFires, Source!Io, SourceProofs!Io
  <2> USE DEF Source!Io, SourceProofs!Io, Source!Outstanding, SourceProofs!Outstanding,
              Source!Taken, SourceProofs!Taken, Source!MaySucceed, SourceProofs!MaySucceed
  <2>9. Source!Read <=> SourceProofs!Read
    BY <2>1 DEF Source!Read, SourceProofs!Read
  <2>10. \A k, age : Source!OperationFails(k, age) <=> SourceProofs!OperationFails(k, age)
    BY <2>3, <2>4 DEF Source!OperationFails, SourceProofs!OperationFails
  <2>11. \A age : /\ Source!Resolved(age) <=> SourceProofs!Resolved(age)
                  /\ Source!Connected(age) <=> SourceProofs!Connected(age)
                  /\ Source!TlsHandshaken(age) <=> SourceProofs!TlsHandshaken(age)
    BY <2>1 DEF Source!Resolved, SourceProofs!Resolved, Source!Connected, SourceProofs!Connected,
                Source!TlsHandshaken, SourceProofs!TlsHandshaken
  <2>12. /\ Source!WsHandshaken <=> SourceProofs!WsHandshaken
         /\ Source!Closed <=> SourceProofs!Closed
    BY <2>1, <2>4 DEF Source!WsHandshaken, SourceProofs!WsHandshaken, Source!Closed, SourceProofs!Closed
  <2>13. \A k, age : Source!Complete(k, age) <=> SourceProofs!Complete(k, age)
    BY ONLY <2>10, <2>11, <2>12 DEF Source!Complete, SourceProofs!Complete
  <2> QED BY ONLY <2>7, <2>8, <2>9, <2>13
          DEF Source!Next, SourceProofs!Next, Source!Op, SourceProofs!Op, Source!Age, SourceProofs!Age
<1>3. [Source!Next]_(Source!vars) => [SourceProofs!Next]_(SourceProofs!vars)
  <2>1. CASE Source!Next
    BY <1>2, <2>1
  <2>2. CASE UNCHANGED Source!vars
    BY <2>2 DEF Source!vars, SourceProofs!vars
  <2> QED BY <2>1, <2>2
<1> QED BY <1>1, <1>3, PTL DEF Source!Spec, SourceProofs!Spec

(***************************************************************************)
(* The source keeps its promises under the runtime: it is never stuck, its  *)
(* retries are bounded, and until stop() it does one thing at a time.       *)
(***************************************************************************)
THEOREM SourceKeepsPromises ==
    Spec => [](Source!TypeOK /\ Source!NeverStuck /\ Source!RetriesBounded /\ Source!OneThingAtATime)
<1> USE RuntimeAssumption DEF SourceProofs!WsAssumption
<1>1. SourceProofs!Spec => []SourceProofs!TypeOK
  BY SourceProofs!TypeCorrect
<1>2. SourceProofs!Spec => []SourceProofs!NeverStuck
  BY SourceProofs!AlwaysSomethingPending
<1>3. SourceProofs!Spec => []SourceProofs!RetriesBounded
  BY SourceProofs!RetriesAreBounded
<1>4. SourceProofs!Spec => []SourceProofs!OneThingAtATime
  BY SourceProofs!OneDriver
<1>5. SourceProofs!TypeOK => Source!TypeOK
  BY DEF Source!TypeOK, SourceProofs!TypeOK, Source!WsType, SourceProofs!WsType,
         Source!State, SourceProofs!State, Source!FeedState, SourceProofs!FeedState,
         Source!Op, SourceProofs!Op
<1>6. SourceProofs!NeverStuck => Source!NeverStuck
  BY DEF Source!NeverStuck, SourceProofs!NeverStuck, Source!AnyOutstanding,
         SourceProofs!AnyOutstanding, Source!Connecting, SourceProofs!Connecting
<1>7. SourceProofs!RetriesBounded => Source!RetriesBounded
  BY DEF Source!RetriesBounded, SourceProofs!RetriesBounded
<1>8. SourceProofs!OneThingAtATime => Source!OneThingAtATime
  BY DEF Source!OneThingAtATime, SourceProofs!OneThingAtATime, Source!Driver, SourceProofs!Driver,
         Source!Load, SourceProofs!Load, Source!Op, SourceProofs!Op, Source!Age, SourceProofs!Age
<1> QED BY <1>1, <1>2, <1>3, <1>4, <1>5, <1>6, <1>7, <1>8, SourceFollowsSpec, SameSource, PTL
-----------------------------------------------------------------------------
(* The types of what RInv does not speak of.  A retry is left when main backs off. *)
Typed ==
    /\ main \in {"run", "spawn", "open", "waiting", "requesting", "backoff", "popping",
                 "returned", "joining", "destroying", "stopping"} \cup Over
    /\ attempt \in 0..SnapshotMaxAttempts
    /\ main = "backoff" => attempt < SnapshotMaxAttempts
    /\ listener \in {"sigwait", "handler", "stopping", "gone"}
    /\ ioStopped \in BOOLEAN
    /\ queued \in 0..Capacity /\ queueClosed \in BOOLEAN
    /\ pending \subseteq Signal /\ wake \in BOOLEAN /\ stopRequested \in BOOLEAN
    /\ sent \in 0..MaxSignals

(***************************************************************************)
(* Every step keeps the types: an attempt is counted only when one is left, *)
(* and a message is pushed only when there is room.                         *)
(***************************************************************************)
LEMMA TypedStep == Typed /\ [Next]_vars => Typed'
<1> SUFFICES ASSUME Typed, [Next]_vars PROVE Typed'
  OBVIOUS
<1> USE RuntimeAssumption DEF Typed, Over, Signal
<1>1. CASE Run \/ Spawn \/ OpenFeed
  BY <1>1 DEF Run, Spawn, OpenFeed, Main, tasks, stopping, queue, signals
<1>2. CASE Ready \/ WaitFails \/ Retry \/ LoopEnds \/ GetSucceeds \/ GetFails
  <2> USE DEF Elsewhere, Main, stopping, queue, signals
  <2>1. CASE Ready
    <3>1. main' = "requesting" /\ attempt' = 1
      BY <2>1 DEF Ready
    <3>2. UNCHANGED <<listener, ioStopped, queued, queueClosed, pending, wake, stopRequested, sent>>
      BY <2>1 DEF Ready
    <3> QED BY <3>1, <3>2
  <2>2. CASE WaitFails \/ LoopEnds \/ GetSucceeds
    BY <2>2 DEF WaitFails, LoopEnds, GetSucceeds
  <2>3. CASE Retry
    BY <2>3 DEF Retry
  <2>4. CASE GetFails
    BY <2>4 DEF GetFails
  <2> QED BY <1>2, <2>1, <2>2, <2>3, <2>4
<1>3. CASE PopItem
  BY <1>3 DEF PopItem, Main, tasks, stopping, signals
<1>4. CASE StopListener \/ Unmask
  BY <1>4 DEF StopListener, Unmask, Main, tasks, stopping, queue, signals
<1>5. CASE Destroy \/ DestroyMembers
  BY <1>5 DEF Destroy, DestroyMembers, Main, Exchange, tasks, stopping, queue, signals
<1>6. CASE StopStep
  <2> USE DEF Stop, tasks, threads, stopping, queue, signals
  <2>1. UNCHANGED <<main, attempt, listener, queued, sent>>
    BY <1>6 DEF StopStep, CloseFeed, CloseFeedGoesOn, CloseQueue, StopIo, JoinIo
  <2>2. UNCHANGED <<pending, wake, stopRequested>>
    BY <1>6 DEF StopStep, CloseFeed, CloseFeedGoesOn, CloseQueue, StopIo, JoinIo
  <2>3. ioStopped' \in {ioStopped, TRUE} /\ queueClosed' \in {queueClosed, TRUE}
    BY <1>6 DEF StopStep, CloseFeed, CloseFeedGoesOn, CloseQueue, StopIo, JoinIo
  <2>4. ioStopped' \in BOOLEAN /\ queueClosed' \in BOOLEAN
    BY <2>3
  <2> QED BY <2>1, <2>2, <2>4
<1>7. CASE ListenerStep
  BY <1>7 DEF ListenerStep, SigWait, HandlerStops, HandlerReturns, Exchange, tasks, stopping,
              queue, signals
<1>8. CASE ReadMessage
  BY <1>8 DEF ReadMessage, Handler, threads, tasks, stopping, signals
<1>9. CASE OtherHandler
  <2>1. UNCHANGED <<main, attempt, listener, ioStopped, queued, queueClosed>>
    BY <1>9 DEF OtherHandler, Handler, threads, tasks, stopping
  <2>2. UNCHANGED <<pending, wake, stopRequested, sent>>
    BY <1>9 DEF OtherHandler, Handler, signals
  <2> QED BY <2>1, <2>2
<1>10. CASE IoEnds \/ UNCHANGED vars
  <2>1. UNCHANGED <<main, attempt, listener, ioStopped, queued, queueClosed>>
    BY <1>10 DEF IoEnds, vars, threads, tasks, stopping, queue
  <2>2. UNCHANGED <<pending, wake, stopRequested, sent>>
    BY <1>10 DEF IoEnds, vars, signals
  <2> QED BY <2>1, <2>2
<1>11. CASE UserSignals
  <2> USE <1>11 DEF UserSignals, tasks, stopping, queue
  <2>1. sent' \in 0..MaxSignals
    OBVIOUS
  <2>2. pending' \subseteq Signal
    OBVIOUS
  <2> QED BY <2>1, <2>2
<1> QED BY <1>1, <1>2, <1>3, <1>4, <1>5, <1>6, <1>7, <1>8, <1>9, <1>10, <1>11 DEF Next, MainStep

(***************************************************************************)
(* Everything keeps its type: the attempts end at kSnapshotMaxAttempts, the *)
(* queue stays within its capacity, and the source is well formed.          *)
(***************************************************************************)
THEOREM TypeCorrect == Spec => []TypeOK
<1>1. Init => Typed
  <2> SUFFICES ASSUME Init PROVE Typed
    OBVIOUS
  <2>1. /\ main = "run" /\ listener = "sigwait" /\ attempt = 0 /\ ioStopped = FALSE /\ queued = 0
        /\ queueClosed = FALSE /\ pending = {} /\ wake = FALSE /\ stopRequested = FALSE /\ sent = 0
    BY DEF Init
  <2>2. attempt \in 0..SnapshotMaxAttempts /\ queued \in 0..Capacity /\ sent \in 0..MaxSignals
    BY <2>1, RuntimeAssumption
  <2> QED BY <2>1, <2>2 DEF Typed
<1>2. Typed /\ RInv /\ Source!TypeOK => TypeOK
  BY DEF Typed, RInv, StopHeld, IoSpawned, AskedWhen, TypeOK
<1> QED BY <1>1, <1>2, TypedStep, RuntimeInvariance, SourceKeepsPromises, PTL DEF Spec
=============================================================================
