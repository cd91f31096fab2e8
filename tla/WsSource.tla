------------------------------ MODULE WsSource ------------------------------
(***************************************************************************)
(* The websocket client of knight (network/ws_source.cpp) and what its      *)
(* callbacks tell the PendingFeed that owns it (builder/pending_feed.cpp).  *)
(*                                                                          *)
(* The methods of WsSource are operators from one state of the object to    *)
(* the next.  A completion handler runs on the io thread and is one step;   *)
(* stop() is called from another thread, so its statements interleave with  *)
(* the handlers.                                                            *)
(*                                                                          *)
(* Asynchronous operations are counted by kind.  The fresh ones work on the *)
(* current stream; reset_stream makes them stale, and they still complete.  *)
(* Handlers complete in any order.                                          *)
(***************************************************************************)
EXTENDS Integers

CONSTANTS
    UseTls,
    MaxReconnectAttempts,
    MaxStops,               \* bound: calls of stop; Runtime::stop makes one
    MaxRestarts             \* bound: calls of restart

ASSUME WsAssumption ==
    /\ UseTls \in BOOLEAN
    /\ MaxReconnectAttempts \in Nat
    /\ MaxStops \in Nat /\ MaxRestarts \in Nat

State     == {"STOPPED", "STARTING", "RUNNING", "STOPPING", "FAILED"}
FeedState == {"CLOSED", "OPEN", "FAILED"}
Op        == {"resolve", "connect", "tls_handshake", "ws_handshake", "read", "close"}
Connecting == {"resolve", "connect", "tls_handshake", "ws_handshake"}

VARIABLES
    ws,             \* the object, its timer and its operations: see WsType
    stopper,        \* where the thread that calls stop() is
    calls           \* history: number of calls of each method so far

vars == <<ws, stopper, calls>>

WsType ==
    [state    : State,              \* m_state
     restart  : BOOLEAN,            \* m_restart_requested
     attempts : 0..MaxReconnectAttempts,
     armed    : BOOLEAN,            \* m_reconnect_timer has a pending wait
     fired    : Nat,                \* its handlers queued without an error
     open     : BOOLEAN,            \* the lowest layer of the stream is open
     fresh    : [Op -> Nat],
     stale    : [Op -> Nat],
     feed     : FeedState,          \* m_state of the PendingFeed
     starts   : Nat]                \* history: connections begun since one succeeded

TypeOK ==
    /\ ws \in WsType
    /\ stopper \in {"out", "publish", "close"}
    /\ calls \in [open : 0..1, stop : 0..MaxStops, restart : 0..MaxRestarts]

None == [k \in Op |-> 0]

Init ==
    /\ ws = [state |-> "STOPPED", restart |-> FALSE, attempts |-> 0, armed |-> FALSE,
             fired |-> 0, open |-> FALSE, fresh |-> None, stale |-> None,
             feed |-> "CLOSED", starts |-> 0]
    /\ stopper = "out" /\ calls = [open |-> 0, stop |-> 0, restart |-> 0]
-----------------------------------------------------------------------------
(* The methods *)

Issue(w, k) == [w EXCEPT !.fresh[k] = @ + 1]

\* publish_state, and PendingFeed::on_ws_state which it calls.
PublishState(w, s) ==
    [w EXCEPT !.state = s,
              !.feed = CASE s = "STOPPED" -> "CLOSED"
                         [] s = "RUNNING" -> "OPEN"
                         [] s = "FAILED"  -> "FAILED"
                         [] OTHER         -> @]

\* The operations of the old stream, and the resolver's, are cancelled.
ResetStream(w) ==
    [w EXCEPT !.open = FALSE, !.fresh = None,
              !.stale = [k \in Op |-> w.stale[k] + w.fresh[k]]]

Start(w) ==
    LET cancelled == [w EXCEPT !.armed = FALSE]
    IN  IF w.state \in {"STARTING", "RUNNING"} THEN cancelled
        ELSE Issue(PublishState([ResetStream(cancelled) EXCEPT !.restart = FALSE,
                                                               !.starts = @ + 1],
                                "STARTING"), "resolve")

\* expires_after replaces a wait that is pending; a handler already queued stays.
ScheduleReconnect(w) ==
    IF w.state \in {"STOPPING", "STOPPED"} \/ w.attempts >= MaxReconnectAttempts THEN w
    ELSE [w EXCEPT !.attempts = @ + 1, !.armed = TRUE]

\* Faulty variant: the reconnection is scheduled before the state is published.
FailScheduleFirst(w) == PublishState(ResetStream(ScheduleReconnect(w)), "FAILED")

\* Faulty variant: no reconnection.
FailForGood(w) == ResetStream(PublishState(w, "FAILED"))

Fail(w) == ScheduleReconnect(ResetStream(PublishState(w, "FAILED")))

\* Faulty variant: a restart asked for is forgotten.
OnCloseStays(w, failed) ==
    ResetStream(IF failed THEN ScheduleReconnect(PublishState(w, "FAILED"))
                          ELSE PublishState(w, "STOPPED"))

OnClose(w, failed) ==
    LET closed == IF failed THEN ScheduleReconnect(PublishState(w, "FAILED"))
                            ELSE PublishState(w, "STOPPED")
        reset  == ResetStream(closed)
    IN  IF reset.restart THEN Start([reset EXCEPT !.restart = FALSE]) ELSE reset

\* Faulty variant: nothing is done when there is no connection.
DoCloseOpenOnly(w) == IF w.open THEN Issue(w, "close") ELSE w

DoClose(w) == IF w.open THEN Issue(w, "close") ELSE OnClose(w, FALSE)

DoRestart(w) ==
    LET asked == [w EXCEPT !.restart = TRUE]
    IN  CASE w.state \in {"STOPPED", "FAILED"} -> Start(ResetStream(asked))
          [] w.state = "STOPPING"              -> asked
          [] OTHER                             -> DoClose(PublishState(asked, "STOPPING"))
-----------------------------------------------------------------------------
(* The owner's calls *)

Call(method, bound) == calls[method] < bound /\ calls' = [calls EXCEPT ![method] = @ + 1]

\* PendingFeed::open, called once, when the io thread has nothing to run yet.
Open ==
    /\ Call("open", 1)
    /\ ws' = Start(ws)
    /\ UNCHANGED stopper

\* PendingFeed::close and stop: first the timer and the test of the state, ...
StopBegins ==
    /\ stopper = "out" /\ ws.feed # "CLOSED" /\ Call("stop", MaxStops)
    /\ ws' = [ws EXCEPT !.restart = FALSE, !.armed = FALSE]
    /\ stopper' = IF ws.state \in {"STOPPED", "STOPPING"} THEN "out" ELSE "publish"

\* ... then the new state, ...
StopPublishes ==
    /\ stopper = "publish"
    /\ ws' = PublishState(ws, "STOPPING")
    /\ stopper' = "close"
    /\ UNCHANGED calls

\* ... then the closing handshake, or on_close when there is no connection.
StopCloses ==
    /\ stopper = "close"
    /\ ws' = DoClose(ws)
    /\ stopper' = "out"
    /\ UNCHANGED calls

\* PendingFeed::reopen, which nothing in the program calls so far.
Restart ==
    /\ calls.open = 1 /\ Call("restart", MaxRestarts)
    /\ ws' = DoRestart(ws)
    /\ UNCHANGED stopper
-----------------------------------------------------------------------------
(* The io thread *)

Age == {"fresh", "stale"}
Outstanding(k, age) == IF age = "fresh" THEN ws.fresh[k] > 0 ELSE ws.stale[k] > 0
Taken(k, age) == IF age = "fresh" THEN [ws EXCEPT !.fresh[k] = @ - 1]
                                  ELSE [ws EXCEPT !.stale[k] = @ - 1]

(***************************************************************************)
(* An operation can succeed on a stream that is open.  A resolution, a      *)
(* connection or a TLS handshake may have completed before it was           *)
(* cancelled; the operations of a websocket stream find out that their      *)
(* stream is gone and complete with operation_aborted.                      *)
(***************************************************************************)
MaySucceed(k, age) ==
    /\ Outstanding(k, age)
    /\ IF age = "fresh" THEN k = "resolve" \/ ws.open
                        ELSE k \in {"resolve", "connect", "tls_handshake"}

Io(w) == ws' = w /\ UNCHANGED <<stopper, calls>>

Resolved(age) ==
    /\ MaySucceed("resolve", age)
    /\ Io(Issue([Taken("resolve", age) EXCEPT !.open = TRUE], "connect"))

\* Faulty variant: the attempts are forgiven by a connection, not by a handshake.
ConnectedForgives(age) ==
    /\ MaySucceed("connect", age)
    /\ Io(Issue([Taken("connect", age) EXCEPT !.attempts = 0],
                IF UseTls THEN "tls_handshake" ELSE "ws_handshake"))

Connected(age) ==
    /\ MaySucceed("connect", age)
    /\ Io(Issue(Taken("connect", age), IF UseTls THEN "tls_handshake" ELSE "ws_handshake"))

TlsHandshaken(age) ==
    /\ MaySucceed("tls_handshake", age)
    /\ Io(Issue(Taken("tls_handshake", age), "ws_handshake"))

WsHandshaken ==
    /\ MaySucceed("ws_handshake", "fresh")
    /\ Io(Issue([PublishState(Taken("ws_handshake", "fresh"), "RUNNING")
                    EXCEPT !.attempts = 0, !.starts = 0], "read"))

\* A message: it goes to the queue, and the next one is waited for.
Read ==
    /\ MaySucceed("read", "fresh")
    /\ Io(IF ws.state = "RUNNING" THEN Issue(Taken("read", "fresh"), "read")
                                  ELSE Taken("read", "fresh"))

\* Faulty variant: no return after the failure of the connection.
FailsAndGoesOn(k, age) ==
    /\ Outstanding(k, age)
    /\ Io(CASE k = "close"   -> OnClose(Taken(k, age), TRUE)
            [] k = "connect" -> Issue(Fail(Taken(k, age)), "ws_handshake")
            [] OTHER         -> Fail(Taken(k, age)))

OperationFails(k, age) ==
    /\ Outstanding(k, age)
    /\ Io(IF k = "close" THEN OnClose(Taken(k, age), TRUE) ELSE Fail(Taken(k, age)))

Closed ==
    /\ MaySucceed("close", "fresh")
    /\ Io(OnClose(Taken("close", "fresh"), FALSE))

TimerExpires ==
    /\ ws.armed
    /\ Io([ws EXCEPT !.armed = FALSE, !.fired = @ + 1])

TimerFires ==
    /\ ws.fired > 0
    /\ LET ran == [ws EXCEPT !.fired = @ - 1]
       IN  Io(IF ws.state \in {"STOPPING", "RUNNING"} THEN ran ELSE Start(ran))

Complete(k, age) ==
    \/ OperationFails(k, age)
    \/ k = "resolve" /\ Resolved(age)
    \/ k = "connect" /\ Connected(age)
    \/ k = "tls_handshake" /\ TlsHandshaken(age)
    \/ k = "ws_handshake" /\ age = "fresh" /\ WsHandshaken
    \/ k = "close" /\ age = "fresh" /\ Closed

Next ==
    \/ Open \/ StopBegins \/ StopPublishes \/ StopCloses \/ Restart
    \/ Read \/ TimerExpires \/ TimerFires
    \/ \E k \in Op, age \in Age : Complete(k, age)

Spec == Init /\ [][Next]_vars

(***************************************************************************)
(* The io thread runs what is ready, and a thread inside stop() goes on.    *)
(* The resolver, the connection, and beast's suggested timeouts end their   *)
(* operations; a message may never come, and ssl_stream has no timeout, so  *)
(* a read or a TLS handshake on an open stream may never end.               *)
(***************************************************************************)
Ends(k, age) ==
    /\ age = "stale" \/ ~ws.open \/ k \notin {"read", "tls_handshake"}
    /\ Complete(k, age)

Fairness ==
    /\ \A k \in Op, age \in Age : WF_vars(Ends(k, age))
    /\ WF_vars(TimerExpires) /\ WF_vars(TimerFires)
    /\ WF_vars(StopPublishes) /\ WF_vars(StopCloses)

FairSpec == Spec /\ Fairness
-----------------------------------------------------------------------------
AnyOutstanding(kinds) == \E k \in kinds : ws.fresh[k] > 0

(***************************************************************************)
(* The source never hangs for want of a pending operation: whatever order   *)
(* the handlers of an old and a new connection run in, and wherever stop()  *)
(* falls between them, every state but STOPPED has something under way that *)
(* leads out of it, and FAILED has a reconnection ahead, unless a stop() is  *)
(* about to publish its state or all the attempts are used up.              *)
(***************************************************************************)
NeverStuck ==
    /\ ws.state = "STARTING" => AnyOutstanding(Connecting)
    /\ ws.state = "RUNNING"  => AnyOutstanding({"read"})
    /\ ws.state = "STOPPING" => stopper = "close" \/ AnyOutstanding({"close"})
    /\ ws.state = "FAILED"   =>
           \/ ws.armed \/ ws.fired > 0 \/ ws.attempts = MaxReconnectAttempts
           \/ stopper = "publish"

(***************************************************************************)
(* Retries are bounded: between two successful handshakes the source begins *)
(* no more connections than the attempts it has counted, and one for each   *)
(* call of its owner, which may leave a second retry on its way.            *)
(***************************************************************************)
RetriesBounded ==
    ws.starts <= ws.attempts + calls.open + calls.stop + calls.restart

(***************************************************************************)
(* Reconnecting by itself the source does one thing at a time: an operation *)
(* of one connection, or the wait for the next.  So a stream has at most    *)
(* one reader, and no handler of an old connection meets a new one.         *)
(***************************************************************************)
Driver == (Op \X Age) \cup ({"timer"} \X {"armed", "fired"})
Load(d) ==
    CASE d = <<"timer", "armed">> -> IF ws.armed THEN 1 ELSE 0
      [] d = <<"timer", "fired">> -> ws.fired
      [] d[2] = "fresh"           -> ws.fresh[d[1]]
      [] OTHER                    -> ws.stale[d[1]]

OneThingAtATime ==
    calls.stop = 0 /\ calls.restart = 0 =>
        \A d, e \in Driver :
            Load(d) <= 1 /\ (Load(d) = 1 /\ Load(e) = 1 => d = e)

(***************************************************************************)
(* Connecting ends: the source runs, is stopped, or has used its attempts.  *)
(***************************************************************************)
GaveUp == ws.state = "FAILED" /\ ws.attempts = MaxReconnectAttempts
ConnectsOrGivesUp ==
    ws.state \in {"STARTING", "FAILED"} ~> ws.state \in {"RUNNING", "STOPPED"} \/ GaveUp

(***************************************************************************)
(* stop() comes to an end, whatever the connection was doing.               *)
(***************************************************************************)
StopSettles == ws.state = "STOPPING" ~> ws.state # "STOPPING"

(***************************************************************************)
(* A restart asked for while the connection is being closed is not lost:    *)
(* the source starts again, or a later stop() withdraws it.                 *)
(***************************************************************************)
RestartHonoured == ws.restart ~> ~ws.restart
=============================================================================
