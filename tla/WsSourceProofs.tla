--------------------------- MODULE WsSourceProofs ---------------------------
(***************************************************************************)
(* Theorems about the websocket client, with and without TLS, for any       *)
(* number of attempts and of calls of stop() and restart(): it never hangs  *)
(* for want of a pending operation, its retries are bounded, and by itself  *)
(* it does one thing at a time.                                             *)
(*                                                                          *)
(* Each method of WsSource gets a lemma about the state it returns; the     *)
(* steps follow from those, one for each handler and each call.             *)
(***************************************************************************)
EXTENDS WsSource, TLAPS

(* Some operation, or the timer, leads out of the state. *)
Alive(w) ==
    /\ w.state = "STARTING" => \E k \in Connecting : w.fresh[k] > 0
    /\ w.state = "RUNNING"  => w.fresh["read"] > 0
    /\ w.state = "STOPPING" => w.fresh["close"] > 0
    /\ w.state = "FAILED"   => w.armed \/ w.fired > 0 \/ w.attempts = MaxReconnectAttempts

(* Every method leaves a well-formed object. *)
LEMMA IssueFacts ==
  ASSUME NEW w \in WsType, NEW k \in Op
  PROVE  /\ Issue(w, k) \in WsType
         /\ Issue(w, k).state = w.state /\ Issue(w, k).attempts = w.attempts
         /\ Issue(w, k).armed = w.armed /\ Issue(w, k).fired = w.fired
         /\ Issue(w, k).fresh[k] > 0
         /\ \A j \in Op : Issue(w, k).fresh[j] >= w.fresh[j]
<1> DEFINE more == [w.fresh EXCEPT ![k] = @ + 1]
<1>1. w.fresh \in [Op -> Nat]
  BY DEF WsType
<1>2. more \in [Op -> Nat] /\ more[k] > 0 /\ \A j \in Op : more[j] >= w.fresh[j]
  BY <1>1
<1>3. Issue(w, k) = [w EXCEPT !.fresh = more]
  BY DEF Issue, WsType
<1> HIDE DEF more
<1>4. QED BY <1>2, <1>3 DEF WsType

(* publish_state() leaves a well-formed object, in the state it was given. *)
LEMMA PublishFacts ==
  ASSUME NEW w \in WsType, NEW s \in State
  PROVE  /\ PublishState(w, s) \in WsType
         /\ PublishState(w, s).state = s
         /\ PublishState(w, s).fresh = w.fresh /\ PublishState(w, s).restart = w.restart
         /\ PublishState(w, s).attempts = w.attempts /\ PublishState(w, s).open = w.open
         /\ PublishState(w, s).armed = w.armed /\ PublishState(w, s).fired = w.fired
<1> DEFINE feed == CASE s = "STOPPED" -> "CLOSED"
                     [] s = "RUNNING" -> "OPEN"
                     [] s = "FAILED"  -> "FAILED"
                     [] OTHER         -> w.feed
<1>1. feed \in FeedState
  BY DEF WsType, State, FeedState
<1>2. PublishState(w, s) = [w EXCEPT !.state = s, !.feed = feed]
  BY DEF PublishState, WsType
<1> HIDE DEF feed
<1>3. QED BY <1>1, <1>2 DEF WsType

(* reset_stream() leaves a well-formed object; state, attempts and timer   *)
(* are as they were.                                                       *)
LEMMA ResetFacts ==
  ASSUME NEW w \in WsType
  PROVE  /\ ResetStream(w) \in WsType
         /\ ResetStream(w).state = w.state /\ ResetStream(w).restart = w.restart
         /\ ResetStream(w).attempts = w.attempts
         /\ ResetStream(w).armed = w.armed /\ ResetStream(w).fired = w.fired
<1> DEFINE old == [k \in Op |-> w.stale[k] + w.fresh[k]]
<1>1. old \in [Op -> Nat] /\ None \in [Op -> Nat]
  BY DEF WsType, None
<1>2. ResetStream(w) = [w EXCEPT !.open = FALSE, !.fresh = None, !.stale = old]
  BY DEF ResetStream
<1> HIDE DEF old, None
<1>3. QED BY <1>1, <1>2 DEF WsType

(* start() leaves an object from which something still leads on.           *)
LEMMA StartFacts ==
  ASSUME NEW w \in WsType, w.state \in {"STARTING", "RUNNING"} => Alive(w)
  PROVE  Start(w) \in WsType /\ Alive(Start(w))
<1> DEFINE cancelled == [w EXCEPT !.armed = FALSE]
           reset     == ResetStream(cancelled)
           begun     == [reset EXCEPT !.restart = FALSE, !.starts = @ + 1]
           starting  == PublishState(begun, "STARTING")
<1>1. cancelled \in WsType /\ cancelled.state = w.state /\ cancelled.fresh = w.fresh
  BY DEF WsType
<1>2. CASE w.state \in {"STARTING", "RUNNING"}
  BY <1>1, <1>2 DEF Start, Alive
<1>3. CASE w.state \notin {"STARTING", "RUNNING"}
  <2>1. Start(w) = Issue(starting, "resolve")
    BY <1>3 DEF Start
  <2> HIDE DEF cancelled
  <2>2. reset \in WsType
    BY <1>1, ResetFacts
  <2> HIDE DEF reset
  <2>3. begun \in WsType
    <3>1. PICK n \in Nat : n = reset.starts + 1
      BY <2>2 DEF WsType
    <3>2. begun = [reset EXCEPT !.restart = FALSE, !.starts = n]
      BY <3>1
    <3>3. QED BY <2>2, <3>2 DEF WsType
  <2> HIDE DEF begun
  <2>4. starting \in WsType /\ starting.state = "STARTING"
    <3>1. "STARTING" \in State
      BY DEF State
    <3>2. QED BY <2>3, <3>1, PublishFacts
  <2> HIDE DEF starting
  <2>5. /\ Issue(starting, "resolve") \in WsType
        /\ Issue(starting, "resolve").state = "STARTING"
        /\ Issue(starting, "resolve").fresh["resolve"] > 0
    <3>1. "resolve" \in Op
      BY DEF Op
    <3>2. QED BY <2>4, <3>1, IssueFacts
  <2>6. QED BY <2>1, <2>5 DEF Alive, Connecting
<1>4. QED BY <1>2, <1>3

(* schedule_reconnect() arms the timer, or the attempts are used up,       *)
(* unless stop() has begun.                                                *)
LEMMA ScheduleFacts ==
  ASSUME NEW w \in WsType
  PROVE  /\ ScheduleReconnect(w) \in WsType
         /\ ScheduleReconnect(w).state = w.state /\ ScheduleReconnect(w).fresh = w.fresh
         /\ ScheduleReconnect(w).restart = w.restart
         /\ w.state \notin {"STOPPING", "STOPPED"} =>
               ScheduleReconnect(w).armed \/ ScheduleReconnect(w).attempts = MaxReconnectAttempts
<1>1. CASE w.state \in {"STOPPING", "STOPPED"} \/ w.attempts >= MaxReconnectAttempts
  BY <1>1, WsAssumption DEF ScheduleReconnect, WsType
<1>2. CASE ~(w.state \in {"STOPPING", "STOPPED"} \/ w.attempts >= MaxReconnectAttempts)
  <2>1. ScheduleReconnect(w) = [w EXCEPT !.attempts = w.attempts + 1, !.armed = TRUE]
    BY <1>2 DEF ScheduleReconnect, WsType
  <2>2. w.attempts + 1 \in 0..MaxReconnectAttempts
    BY <1>2, WsAssumption DEF WsType
  <2>3. QED BY <2>1, <2>2 DEF WsType
<1>3. QED BY <1>1, <1>2

(* fail() leaves an object that is failed and alive: the timer runs, or    *)
(* there are no attempts left.                                             *)
LEMMA FailFacts ==
  ASSUME NEW w \in WsType
  PROVE  Fail(w) \in WsType /\ Alive(Fail(w))
<1> DEFINE failed == PublishState(w, "FAILED")
           reset  == ResetStream(failed)
<1>1. failed \in WsType /\ failed.state = "FAILED"
  <2>1. "FAILED" \in State
    BY DEF State
  <2>2. QED BY <2>1, PublishFacts
<1> HIDE DEF failed
<1>2. reset \in WsType /\ reset.state = "FAILED"
  BY <1>1, ResetFacts
<1>3. Fail(w) = ScheduleReconnect(reset)
  BY DEF Fail, failed
<1> HIDE DEF reset
<1>4. QED BY <1>2, <1>3, ScheduleFacts DEF Alive

(* on_close() leaves an object that is alive in each of its outcomes:      *)
(* restarted, stopped or failed.                                           *)
LEMMA OnCloseFacts ==
  ASSUME NEW w \in WsType, NEW failed \in BOOLEAN
  PROVE  OnClose(w, failed) \in WsType /\ Alive(OnClose(w, failed))
<1> DEFINE closed == IF failed THEN ScheduleReconnect(PublishState(w, "FAILED"))
                               ELSE PublishState(w, "STOPPED")
           reset  == ResetStream(closed)
           again  == [reset EXCEPT !.restart = FALSE]
<1>1. /\ closed \in WsType /\ closed.state \in {"FAILED", "STOPPED"}
      /\ closed.state = "FAILED" => closed.armed \/ closed.attempts = MaxReconnectAttempts
  <2>1. ASSUME NEW s \in {"FAILED", "STOPPED"}
        PROVE  PublishState(w, s) \in WsType /\ PublishState(w, s).state = s
    <3>1. s \in State
      BY DEF State
    <3>2. QED BY <3>1, PublishFacts
  <2>2. CASE failed
    <3>1. PublishState(w, "FAILED") \in WsType /\ PublishState(w, "FAILED").state = "FAILED"
      BY <2>1
    <3>2. QED BY <2>2, <3>1, ScheduleFacts
  <2>3. CASE ~failed
    BY <2>1, <2>3
  <2>4. QED BY <2>2, <2>3
<1>2. OnClose(w, failed) = IF reset.restart THEN Start(again) ELSE reset
  BY DEF OnClose
<1> HIDE DEF closed
<1>3. /\ reset \in WsType /\ reset.state = closed.state
      /\ reset.armed = closed.armed /\ reset.attempts = closed.attempts
  BY <1>1, ResetFacts
<1> HIDE DEF reset
<1>4. again \in WsType /\ again.state = reset.state
  BY <1>3 DEF WsType
<1> HIDE DEF again
<1>5. Start(again) \in WsType /\ Alive(Start(again))
  BY <1>1, <1>3, <1>4, StartFacts
<1>6. Alive(reset)
  BY <1>1, <1>3 DEF Alive
<1>7. QED BY <1>2, <1>3, <1>5, <1>6

(* do_close() leaves an object whose close is under way, or whose end      *)
(* on_close() decided.                                                     *)
LEMMA DoCloseFacts ==
  ASSUME NEW w \in WsType, w.state = "STOPPING" \/ Alive(w)
  PROVE  DoClose(w) \in WsType /\ Alive(DoClose(w))
<1>1. CASE w.open
  <2> DEFINE r == Issue(w, "close")
  <2>1. "close" \in Op /\ "read" \in Op /\ Connecting \subseteq Op
    BY DEF Op, Connecting
  <2>2. /\ r \in WsType /\ r.fresh["close"] > 0
        /\ r.state = w.state /\ r.attempts = w.attempts
        /\ r.armed = w.armed /\ r.fired = w.fired
        /\ \A j \in Op : r.fresh[j] >= w.fresh[j]
    BY <2>1, IssueFacts
  <2>3. DoClose(w) = r
    BY <1>1 DEF DoClose
  <2> HIDE DEF r
  <2>4. \A j \in Op : r.fresh[j] \in Nat /\ w.fresh[j] \in Nat
    BY <2>2 DEF WsType
  <2>5. Alive(r)
    BY <2>1, <2>2, <2>4 DEF Alive
  <2>6. QED BY <2>2, <2>3, <2>5
<1>2. CASE ~w.open
  BY <1>2, OnCloseFacts DEF DoClose
<1>3. QED BY <1>1, <1>2
-----------------------------------------------------------------------------
(* The steps *)

IInv == TypeOK /\ NeverStuck

(* The kinds of operation are six, four of which connect.                  *)
LEMMA Kinds ==
  /\ "resolve" \in Op /\ "connect" \in Op /\ "tls_handshake" \in Op
  /\ "ws_handshake" \in Op /\ "read" \in Op /\ "close" \in Op
  /\ Connecting = {"resolve", "connect", "tls_handshake", "ws_handshake"}
  /\ Connecting \subseteq Op
  BY DEF Op, Connecting

(* The object as constructed satisfies the invariant.                      *)
LEMMA InitHolds == Init => IInv
<1> SUFFICES ASSUME Init
             PROVE  IInv
  OBVIOUS
<1>1. None \in [Op -> Nat]
  BY DEF None
<1>2. TypeOK
  <2> HIDE DEF None
  <2> QED BY <1>1, WsAssumption DEF Init, TypeOK, WsType, State, FeedState
<1>3. NeverStuck
  BY DEF Init, NeverStuck
<1>4. QED BY <1>2, <1>3 DEF IInv

(* A step that ends in an object that is alive keeps the invariant.          *)
LEMMA AliveIsEnough ==
  ASSUME ws' \in WsType, Alive(ws'), stopper' \in {"out", "publish", "close"},
         calls' \in [open : 0..1, stop : 0..MaxStops, restart : 0..MaxRestarts]
  PROVE  IInv'
<1>1. NeverStuck'
  BY Kinds DEF Alive, NeverStuck, AnyOutstanding
<1>2. QED BY <1>1 DEF IInv, TypeOK

(* Between the calls of stop(), the object is alive. *)
LEMMA AliveOutside ==
  ASSUME IInv, stopper # "publish", stopper # "close" \/ ws.state # "STOPPING"
  PROVE  Alive(ws)
  BY DEF IInv, NeverStuck, AnyOutstanding, Alive

(* Nothing but stop() moves the stopper, and one call is counted once. *)
LEMMA CallFacts ==
  ASSUME TypeOK, NEW method \in {"open", "stop", "restart"}, NEW bound \in Nat,
         bound = (CASE method = "open" -> 1 [] method = "stop" -> MaxStops
                    [] OTHER -> MaxRestarts),
         Call(method, bound)
  PROVE  calls' \in [open : 0..1, stop : 0..MaxStops, restart : 0..MaxRestarts]
  BY WsAssumption DEF TypeOK, Call

(* The operation that completes is taken off the pending ones. *)
LEMMA TakenFacts ==
  ASSUME ws \in WsType, NEW k \in Op, NEW age \in Age, Outstanding(k, age)
  PROVE  /\ Taken(k, age) \in WsType
         /\ Taken(k, age).state = ws.state /\ Taken(k, age).attempts = ws.attempts
         /\ Taken(k, age).armed = ws.armed /\ Taken(k, age).fired = ws.fired
         /\ \A j \in Op : j # k => Taken(k, age).fresh[j] = ws.fresh[j]
<1>1. ws.fresh \in [Op -> Nat] /\ ws.stale \in [Op -> Nat]
  BY DEF WsType
<1>2. CASE age = "fresh"
  <2> DEFINE less == [ws.fresh EXCEPT ![k] = @ - 1]
  <2>1. less \in [Op -> Nat] /\ \A j \in Op : j # k => less[j] = ws.fresh[j]
    BY <1>1, <1>2 DEF Outstanding
  <2>2. Taken(k, age) = [ws EXCEPT !.fresh = less]
    BY <1>2 DEF Taken, WsType
  <2> HIDE DEF less
  <2>3. QED BY <2>1, <2>2 DEF WsType
<1>3. CASE age = "stale"
  <2> DEFINE less == [ws.stale EXCEPT ![k] = @ - 1]
  <2>1. less \in [Op -> Nat]
    BY <1>1, <1>3 DEF Outstanding
  <2>2. Taken(k, age) = [ws EXCEPT !.stale = less]
    BY <1>3 DEF Taken, WsType
  <2> HIDE DEF less
  <2>3. QED BY <2>1, <2>2 DEF WsType
<1>4. QED BY <1>2, <1>3 DEF Age

(* A step of connecting that goes on to the next one: k is done, next begins. *)
LEMMA GoesOn ==
  ASSUME IInv, NEW k \in Connecting, NEW next \in Connecting, NEW age \in Age, Outstanding(k, age),
         NEW w \in WsType, w.state = ws.state, w.attempts = ws.attempts, w.armed = ws.armed,
         w.fired = ws.fired, \A j \in Op : j # k => w.fresh[j] = ws.fresh[j],
         Io(Issue(w, next))
  PROVE  IInv'
<1>1. ws' = Issue(w, next) /\ stopper' = stopper /\ calls' = calls
  BY DEF Io
<1>2. /\ ws' \in WsType /\ ws'.state = ws.state /\ ws'.attempts = ws.attempts
      /\ ws'.armed = ws.armed /\ ws'.fired = ws.fired
      /\ ws'.fresh[next] > 0 /\ \A j \in Op : ws'.fresh[j] >= w.fresh[j]
  BY <1>1, Kinds, IssueFacts
<1>3. TypeOK'
  BY <1>1, <1>2 DEF IInv, TypeOK
<1>4. /\ ws.fresh["read"] \in Nat /\ ws'.fresh["read"] \in Nat
      /\ ws.fresh["close"] \in Nat /\ ws'.fresh["close"] \in Nat
      /\ ws'.fresh["read"] >= ws.fresh["read"] /\ ws'.fresh["close"] >= ws.fresh["close"]
  <2>1. ws \in WsType
    BY DEF IInv, TypeOK
  <2>2. "read" # k /\ "close" # k
    BY Kinds
  <2>3. QED BY <1>2, <2>1, <2>2, Kinds DEF WsType
<1>5. NeverStuck'
  BY <1>1, <1>2, <1>4 DEF IInv, NeverStuck, AnyOutstanding
<1>6. QED BY <1>3, <1>5 DEF IInv

(* Every call of the owner (open, the three parts of stop, restart) keeps  *)
(* the invariant.                                                          *)
LEMMA OwnerStep ==
  ASSUME IInv, Open \/ StopBegins \/ StopPublishes \/ StopCloses \/ Restart
  PROVE  IInv'
<1>0. /\ ws \in WsType /\ TypeOK /\ NeverStuck
      /\ stopper \in {"out", "publish", "close"}
      /\ calls \in [open : 0..1, stop : 0..MaxStops, restart : 0..MaxRestarts]
  BY DEF IInv, TypeOK
<1>1. ASSUME Open
      PROVE  IInv'
  <2>1. ws.state \in {"STARTING", "RUNNING"} => Alive(ws)
    BY <1>0 DEF NeverStuck, AnyOutstanding, Alive
  <2>2. ws' \in WsType /\ Alive(ws')
    BY <1>0, <1>1, <2>1, StartFacts DEF Open
  <2>3. calls' \in [open : 0..1, stop : 0..MaxStops, restart : 0..MaxRestarts]
    BY <1>0, <1>1, CallFacts DEF Open
  <2>4. QED BY <1>0, <1>1, <2>2, <2>3, AliveIsEnough DEF Open
<1>2. ASSUME StopBegins
      PROVE  IInv'
  <2>1. /\ ws' \in WsType /\ ws'.state = ws.state /\ ws'.fresh = ws.fresh
        /\ ws'.attempts = ws.attempts /\ ws'.fired = ws.fired
    BY <1>0, <1>2 DEF StopBegins, WsType
  <2>2. calls' \in [open : 0..1, stop : 0..MaxStops, restart : 0..MaxRestarts]
    BY <1>0, <1>2, WsAssumption, CallFacts DEF StopBegins
  <2>3. /\ stopper = "out" /\ stopper' \in {"out", "publish"}
        /\ stopper' = "out" => ws.state \in {"STOPPED", "STOPPING"}
    BY <1>2 DEF StopBegins
  <2>4. TypeOK'
    BY <2>1, <2>2, <2>3 DEF TypeOK
  <2>5. NeverStuck'
    BY <1>0, <2>1, <2>3 DEF NeverStuck, AnyOutstanding
  <2>6. QED BY <2>4, <2>5 DEF IInv
<1>3. ASSUME StopPublishes
      PROVE  IInv'
  <2>1. ws' = PublishState(ws, "STOPPING") /\ stopper' = "close" /\ calls' = calls
    BY <1>3 DEF StopPublishes
  <2>2. "STOPPING" \in State
    BY DEF State
  <2>3. ws' \in WsType /\ ws'.state = "STOPPING"
    BY <1>0, <2>1, <2>2, PublishFacts
  <2>4. TypeOK' /\ NeverStuck'
    BY <1>0, <2>1, <2>3 DEF TypeOK, NeverStuck
  <2>5. QED BY <2>4 DEF IInv
<1>4. ASSUME StopCloses
      PROVE  IInv'
  <2>1. ws' = DoClose(ws) /\ stopper = "close" /\ stopper' = "out" /\ calls' = calls
    BY <1>4 DEF StopCloses
  <2>2. ws.state = "STOPPING" \/ Alive(ws)
    BY <2>1, AliveOutside
  <2>3. ws' \in WsType /\ Alive(ws')
    BY <1>0, <2>1, <2>2, DoCloseFacts
  <2>4. QED BY <1>0, <2>1, <2>3, AliveIsEnough
<1>5. ASSUME Restart
      PROVE  IInv'
  <2> DEFINE asked == [ws EXCEPT !.restart = TRUE]
  <2>1. /\ asked \in WsType /\ asked.state = ws.state /\ asked.fresh = ws.fresh
        /\ asked.armed = ws.armed /\ asked.fired = ws.fired /\ asked.attempts = ws.attempts
    BY <1>0 DEF WsType
  <2>2. /\ ws' = DoRestart(ws) /\ stopper' = stopper
        /\ calls' \in [open : 0..1, stop : 0..MaxStops, restart : 0..MaxRestarts]
    BY <1>0, <1>5, WsAssumption, CallFacts DEF Restart
  <2>3. CASE ws.state \in {"STOPPED", "FAILED"}
    <3>1. ws' = Start(ResetStream(asked))
      BY <2>2, <2>3 DEF DoRestart
    <3> HIDE DEF asked
    <3>2. ResetStream(asked) \in WsType /\ ResetStream(asked).state = ws.state
      BY <2>1, ResetFacts
    <3>3. ws' \in WsType /\ Alive(ws')
      BY <2>3, <3>1, <3>2, StartFacts
    <3>4. QED BY <1>0, <2>2, <3>3, AliveIsEnough
  <2>4. CASE ws.state = "STOPPING"
    <3>1. ws' = asked
      BY <2>2, <2>4 DEF DoRestart
    <3> HIDE DEF asked
    <3>2. TypeOK' /\ NeverStuck'
      BY <1>0, <2>1, <2>2, <2>4, <3>1 DEF TypeOK, NeverStuck, AnyOutstanding
    <3>3. QED BY <3>2 DEF IInv
  <2>5. CASE ws.state \notin {"STOPPED", "FAILED", "STOPPING"}
    <3> DEFINE stopping == PublishState(asked, "STOPPING")
    <3>1. ws' = DoClose(stopping)
      BY <2>2, <2>5 DEF DoRestart
    <3> HIDE DEF asked
    <3>2. stopping \in WsType /\ stopping.state = "STOPPING"
      <4>1. "STOPPING" \in State
        BY DEF State
      <4>2. QED BY <2>1, <4>1, PublishFacts
    <3> HIDE DEF stopping
    <3>3. ws' \in WsType /\ Alive(ws')
      BY <3>1, <3>2, DoCloseFacts
    <3>4. QED BY <1>0, <2>2, <3>3, AliveIsEnough
  <2>6. QED BY <2>3, <2>4, <2>5
<1>6. QED BY <1>1, <1>2, <1>3, <1>4, <1>5

(* The handlers that end in an object that is alive whatever it was. *)
LEMMA EndsAlive ==
  ASSUME IInv, NEW w, w \in WsType, Alive(w), Io(w)
  PROVE  IInv'
<1>1. ws' = w /\ stopper' = stopper /\ calls' = calls
  BY DEF Io
<1>2. QED BY <1>1, AliveIsEnough DEF IInv, TypeOK

(* Every completion handler keeps the invariant, for an operation of this  *)
(* stream or of one reset since.                                           *)
LEMMA HandlerStep ==
  ASSUME IInv, NEW k \in Op, NEW age \in Age, Complete(k, age)
  PROVE  IInv'
<1>0. ws \in WsType /\ "fresh" \in Age
  BY DEF IInv, TypeOK, Age
<1>1. ASSUME OperationFails(k, age)
      PROVE  IInv'
  <2>1. Taken(k, age) \in WsType
    BY <1>0, <1>1, TakenFacts DEF OperationFails
  <2>2. CASE k = "close"
    <3>1. /\ OnClose(Taken(k, age), TRUE) \in WsType
          /\ Alive(OnClose(Taken(k, age), TRUE))
      BY <2>1, OnCloseFacts
    <3>2. Io(OnClose(Taken(k, age), TRUE))
      BY <1>1, <2>2 DEF OperationFails
    <3>3. QED BY <3>1, <3>2, EndsAlive
  <2>3. CASE k # "close"
    <3>1. Fail(Taken(k, age)) \in WsType /\ Alive(Fail(Taken(k, age)))
      BY <2>1, FailFacts
    <3>2. Io(Fail(Taken(k, age)))
      BY <1>1, <2>3 DEF OperationFails
    <3>3. QED BY <3>1, <3>2, EndsAlive
  <2>4. QED BY <2>2, <2>3
<1>2. ASSUME k = "resolve", Resolved(age)
      PROVE  IInv'
  <2> DEFINE taken == Taken("resolve", age)
             w     == [taken EXCEPT !.open = TRUE]
  <2>1. Outstanding("resolve", age) /\ Io(Issue(w, "connect"))
    BY <1>2 DEF Resolved, MaySucceed
  <2>2. /\ taken \in WsType
        /\ taken.state = ws.state /\ taken.attempts = ws.attempts
        /\ taken.armed = ws.armed /\ taken.fired = ws.fired
        /\ \A j \in Op : j # "resolve" => taken.fresh[j] = ws.fresh[j]
    BY <1>0, <2>1, Kinds, TakenFacts
  <2> HIDE DEF taken
  <2>3. /\ w \in WsType
        /\ w.state = ws.state /\ w.attempts = ws.attempts
        /\ w.armed = ws.armed /\ w.fired = ws.fired
        /\ \A j \in Op : j # "resolve" => w.fresh[j] = ws.fresh[j]
    BY <2>2 DEF WsType
  <2> HIDE DEF w
  <2>4. "resolve" \in Connecting /\ "connect" \in Connecting
    BY Kinds
  <2>5. QED BY <2>1, <2>3, <2>4, GoesOn
<1>3. ASSUME k = "connect", Connected(age)
      PROVE  IInv'
  <2>1. PICK next \in Connecting :
           Outstanding("connect", age) /\ Io(Issue(Taken("connect", age), next))
    BY <1>3, Kinds DEF Connected, MaySucceed
  <2>2. "connect" \in Connecting
    BY Kinds
  <2>3. QED BY <1>0, <2>1, <2>2, Kinds, TakenFacts, GoesOn
<1>4. ASSUME k = "tls_handshake", TlsHandshaken(age)
      PROVE  IInv'
  <2>1. Outstanding("tls_handshake", age) /\ Io(Issue(Taken("tls_handshake", age), "ws_handshake"))
    BY <1>4 DEF TlsHandshaken, MaySucceed
  <2>2. "tls_handshake" \in Connecting /\ "ws_handshake" \in Connecting
    BY Kinds
  <2>3. QED BY <1>0, <2>1, <2>2, Kinds, TakenFacts, GoesOn
<1>5. ASSUME WsHandshaken
      PROVE  IInv'
  <2> DEFINE taken   == Taken("ws_handshake", "fresh")
             running == PublishState(taken, "RUNNING")
             w       == [running EXCEPT !.attempts = 0, !.starts = 0]
  <2>1. Outstanding("ws_handshake", "fresh") /\ Io(Issue(w, "read"))
    BY <1>5 DEF WsHandshaken, MaySucceed
  <2>2. taken \in WsType
    BY <1>0, <2>1, Kinds, TakenFacts
  <2> HIDE DEF taken
  <2>3. running \in WsType /\ running.state = "RUNNING"
    <3>1. "RUNNING" \in State
      BY DEF State
    <3>2. QED BY <2>2, <3>1, PublishFacts
  <2> HIDE DEF running
  <2>4. w \in WsType /\ w.state = "RUNNING"
    <3>1. 0 \in 0..MaxReconnectAttempts /\ 0 \in Nat
      BY WsAssumption
    <3>2. QED BY <2>3, <3>1 DEF WsType
  <2> HIDE DEF w
  <2>5. /\ Issue(w, "read") \in WsType /\ Issue(w, "read").state = "RUNNING"
        /\ Issue(w, "read").fresh["read"] > 0
    BY <2>4, Kinds, IssueFacts
  <2>6. Alive(Issue(w, "read"))
    BY <2>5 DEF Alive
  <2>7. QED BY <2>1, <2>5, <2>6, EndsAlive
<1>6. ASSUME Closed
      PROVE  IInv'
  <2>1. Outstanding("close", "fresh") /\ Io(OnClose(Taken("close", "fresh"), FALSE))
    BY <1>6 DEF Closed, MaySucceed
  <2>2. Taken("close", "fresh") \in WsType
    BY <1>0, <2>1, Kinds, TakenFacts
  <2>3. /\ OnClose(Taken("close", "fresh"), FALSE) \in WsType
        /\ Alive(OnClose(Taken("close", "fresh"), FALSE))
    BY <2>2, OnCloseFacts
  <2>4. QED BY <2>1, <2>3, EndsAlive
<1>7. QED BY <1>1, <1>2, <1>3, <1>4, <1>5, <1>6 DEF Complete

(* Reading a message and the reconnect timer keep the invariant.           *)
LEMMA IoStep ==
  ASSUME IInv, Read \/ TimerExpires \/ TimerFires
  PROVE  IInv'
<1>0. ws \in WsType /\ TypeOK /\ NeverStuck /\ "fresh" \in Age
  BY DEF IInv, TypeOK, Age
<1>1. ASSUME Read
      PROVE  IInv'
  <2> DEFINE taken == Taken("read", "fresh")
  <2>1. /\ Outstanding("read", "fresh")
        /\ Io(IF ws.state = "RUNNING" THEN Issue(taken, "read") ELSE taken)
    BY <1>1 DEF Read, MaySucceed
  <2>2. /\ taken \in WsType
        /\ taken.state = ws.state /\ taken.attempts = ws.attempts
        /\ taken.armed = ws.armed /\ taken.fired = ws.fired
        /\ \A j \in Op : j # "read" => taken.fresh[j] = ws.fresh[j]
    BY <1>0, <2>1, Kinds, TakenFacts
  <2> HIDE DEF taken
  <2>3. CASE ws.state = "RUNNING"
    <3>1. /\ Issue(taken, "read") \in WsType /\ Issue(taken, "read").state = "RUNNING"
          /\ Issue(taken, "read").fresh["read"] > 0
      BY <2>2, <2>3, Kinds, IssueFacts
    <3>2. Alive(Issue(taken, "read"))
      BY <3>1 DEF Alive
    <3>3. Io(Issue(taken, "read"))
      BY <2>1, <2>3
    <3>4. QED BY <3>1, <3>2, <3>3, EndsAlive
  <2>4. CASE ws.state # "RUNNING"
    <3>1. ws' = taken /\ stopper' = stopper /\ calls' = calls
      BY <2>1, <2>4 DEF Io
    <3>2. TypeOK'
      BY <1>0, <2>2, <3>1 DEF TypeOK
    <3>3. NeverStuck'
      <4>1. \A j \in Connecting \cup {"close"} : ws'.fresh[j] = ws.fresh[j]
        BY <2>2, <3>1, Kinds
      <4>2. QED BY <1>0, <2>2, <2>4, <3>1, <4>1 DEF NeverStuck, AnyOutstanding
    <3>4. QED BY <3>2, <3>3 DEF IInv
  <2>5. QED BY <2>3, <2>4
<1>2. ASSUME TimerExpires
      PROVE  IInv'
  <2>1. PICK n \in Nat : n = ws.fired + 1 /\ n > 0
    BY <1>0 DEF WsType
  <2>2. ws' = [ws EXCEPT !.armed = FALSE, !.fired = n] /\ stopper' = stopper /\ calls' = calls
    BY <1>2, <2>1 DEF TimerExpires, Io
  <2>3. /\ ws' \in WsType /\ ws'.state = ws.state /\ ws'.fresh = ws.fresh
        /\ ws'.fired > 0
    BY <1>0, <2>1, <2>2 DEF WsType
  <2>4. TypeOK' /\ NeverStuck'
    BY <1>0, <2>2, <2>3 DEF TypeOK, NeverStuck, AnyOutstanding
  <2>5. QED BY <2>4 DEF IInv
<1>3. ASSUME TimerFires
      PROVE  IInv'
  <2>1. PICK n \in Nat : n = ws.fired - 1
    BY <1>0, <1>3 DEF TimerFires, WsType
  <2> DEFINE ran == [ws EXCEPT !.fired = n]
  <2>2. /\ ws' = IF ws.state \in {"STOPPING", "RUNNING"} THEN ran ELSE Start(ran)
        /\ stopper' = stopper /\ calls' = calls
    BY <1>3, <2>1 DEF TimerFires, Io
  <2>3. ran \in WsType /\ ran.state = ws.state /\ ran.fresh = ws.fresh
    BY <1>0, <2>1 DEF WsType
  <2> HIDE DEF ran
  <2>4. CASE ws.state \in {"STOPPING", "RUNNING"}
    <3>1. ws' = ran
      BY <2>2, <2>4
    <3>2. TypeOK' /\ NeverStuck'
      BY <1>0, <2>2, <2>3, <2>4, <3>1 DEF TypeOK, NeverStuck, AnyOutstanding
    <3>3. QED BY <3>2 DEF IInv
  <2>5. CASE ws.state \notin {"STOPPING", "RUNNING"}
    <3>1. ws' = Start(ran)
      BY <2>2, <2>5
    <3>2. ran.state \in {"STARTING", "RUNNING"} => Alive(ran)
      BY <1>0, <2>3, <2>5 DEF NeverStuck, AnyOutstanding, Alive
    <3>3. ws' \in WsType /\ Alive(ws')
      BY <2>3, <3>1, <3>2, StartFacts
    <3>4. QED BY <1>0, <2>2, <3>3, AliveIsEnough DEF TypeOK
  <2>6. QED BY <2>4, <2>5
<1>4. QED BY <1>1, <1>2, <1>3

(* Every step keeps the invariant.                                         *)
LEMMA StepHolds == IInv /\ [Next]_vars => IInv'
<1> SUFFICES ASSUME IInv, [Next]_vars
             PROVE  IInv'
  OBVIOUS
<1>1. CASE UNCHANGED vars
  BY <1>1 DEF vars, IInv, TypeOK, NeverStuck, AnyOutstanding
<1>2. CASE Open \/ StopBegins \/ StopPublishes \/ StopCloses \/ Restart
  BY <1>2, OwnerStep
<1>3. CASE Read \/ TimerExpires \/ TimerFires
  BY <1>3, IoStep
<1>4. ASSUME NEW k \in Op, NEW age \in Age, Complete(k, age)
      PROVE  IInv'
  BY <1>4, HandlerStep
<1>5. QED BY <1>1, <1>2, <1>3, <1>4 DEF Next

(* The inductive invariant holds in every behaviour, for any number of     *)
(* attempts, stops and restarts.                                           *)
THEOREM Invariance == Spec => []IInv
  BY InitHolds, StepHolds, PTL DEF Spec

(* The object and the counts keep their types: attempts never exceed        *)
(* kMaxReconnectAttempts.                                                   *)
THEOREM TypeCorrect == Spec => []TypeOK
<1>1. IInv => TypeOK
  BY DEF IInv
<1>2. QED BY <1>1, Invariance, PTL

(* Whatever order the handlers run in and wherever stop() falls, something  *)
(* is pending that leads out of every state that is not final.              *)
THEOREM AlwaysSomethingPending == Spec => []NeverStuck
<1>1. IInv => NeverStuck
  BY DEF IInv
<1>2. QED BY <1>1, Invariance, PTL
-----------------------------------------------------------------------------
(***************************************************************************)
(* What can still begin a connection.  The drivers are the operations under *)
(* way and the waits of the timer; what is owed are the connections begun   *)
(* and about to begin, beyond the attempts counted.  Each call of the owner *)
(* adds at most one of each, a handler none.                                *)
(***************************************************************************)
Bit(b)   == IF b THEN 1 ELSE 0
Total(f) == f["resolve"] + f["connect"] + f["tls_handshake"] + f["ws_handshake"]
              + f["read"] + f["close"]

Others(w)  == Total(w.fresh) + Total(w.stale) + w.fired
Drivers(w) == Others(w) + Bit(w.armed)
Owed(w)    == w.starts + w.fired + Bit(w.armed) + Bit(w.restart) - w.attempts

Calls == calls.open + calls.stop + calls.restart

\* A call of stop() that has not come to do_close() yet may still add its driver.
Accounted ==
    /\ Drivers(ws) + Bit(stopper # "out") <= Calls
    /\ Owed(ws) <= Calls

(* The sums over the kinds of operation. *)
LEMMA TotalFacts ==
  ASSUME NEW f \in [Op -> Nat], NEW k \in Op
  PROVE  /\ Total(f) \in Nat
         /\ Total([f EXCEPT ![k] = @ + 1]) = Total(f) + 1
         /\ f[k] > 0 => Total([f EXCEPT ![k] = @ - 1]) = Total(f) - 1
<1>1. \A j \in Op : f[j] \in Nat
  OBVIOUS
<1>2. ASSUME NEW g \in [Op -> Nat], NEW n \in {-1, 1}, g = [f EXCEPT ![k] = f[k] + n]
      PROVE  Total(g) = Total(f) + n
  <2>1. \A j \in Op : g[j] = IF j = k THEN f[j] + n ELSE f[j]
    BY <1>2
  <2>2. QED BY <1>1, <2>1, Kinds DEF Total, Op
<1>3. Total([f EXCEPT ![k] = @ + 1]) = Total(f) + 1
  <2>1. [f EXCEPT ![k] = f[k] + 1] \in [Op -> Nat]
    BY <1>1
  <2>2. QED BY <1>2, <2>1
<1>4. ASSUME f[k] > 0
      PROVE  Total([f EXCEPT ![k] = @ - 1]) = Total(f) - 1
  <2>1. [f EXCEPT ![k] = f[k] + (-1)] \in [Op -> Nat]
    BY <1>1, <1>4
  <2>2. f[k] + (-1) = f[k] - 1 /\ Total(f) + (-1) = Total(f) - 1
    BY <1>1, Kinds DEF Total
  <2>3. QED BY <1>2, <2>1, <2>2
<1>5. Total(f) \in Nat
  BY <1>1, Kinds DEF Total
<1>6. QED BY <1>3, <1>4, <1>5

(* The stale operations of a stream that is reset. *)
LEMMA TotalSum ==
  ASSUME NEW f \in [Op -> Nat], NEW g \in [Op -> Nat]
  PROVE  Total([k \in Op |-> g[k] + f[k]]) = Total(g) + Total(f)
<1>1. \A j \in Op : f[j] \in Nat /\ g[j] \in Nat
  OBVIOUS
<1>2. QED BY <1>1, Kinds DEF Total

(* A new stream has no operations. *)
LEMMA TotalNone == Total(None) = 0
  BY Kinds DEF Total, None

(* The counts are numbers; those of the drivers are never negative. *)
LEMMA CountTypes ==
  ASSUME NEW w \in WsType
  PROVE  /\ Total(w.fresh) \in Nat /\ Total(w.stale) \in Nat /\ Others(w) \in Nat
         /\ w.fired \in Nat /\ w.fired <= Others(w) /\ w.starts \in Nat /\ w.attempts \in Nat
         /\ Bit(w.armed) \in {0, 1} /\ Bit(w.restart) \in {0, 1}
         /\ Drivers(w) \in Nat /\ Owed(w) \in Int
<1>1. /\ w.fresh \in [Op -> Nat] /\ w.stale \in [Op -> Nat] /\ w.fired \in Nat
      /\ w.starts \in Nat /\ w.attempts \in Nat /\ w.armed \in BOOLEAN /\ w.restart \in BOOLEAN
  BY WsAssumption DEF WsType
<1>2. Total(w.fresh) \in Nat /\ Total(w.stale) \in Nat
  BY <1>1, Kinds, TotalFacts
<1>3. Bit(w.armed) \in {0, 1} /\ Bit(w.restart) \in {0, 1}
  BY DEF Bit
<1>4. QED BY <1>1, <1>2, <1>3 DEF Others, Drivers, Owed

(* The methods.  Issuing an operation adds a driver.                        *)
LEMMA IssueCounts ==
  ASSUME NEW w \in WsType, NEW k \in Op
  PROVE  Others(Issue(w, k)) = Others(w) + 1 /\ Drivers(Issue(w, k)) = Drivers(w) + 1
         /\ Owed(Issue(w, k)) = Owed(w)
<1> DEFINE more == [w.fresh EXCEPT ![k] = @ + 1]
           v    == Issue(w, k)
<1>1. w.fresh \in [Op -> Nat]
  BY DEF WsType
<1>2. Total(more) = Total(w.fresh) + 1
  BY <1>1, TotalFacts
<1>3. v = [w EXCEPT !.fresh = more]
  BY DEF Issue, WsType
<1> HIDE DEF more, v
<1>4. /\ v.fresh = more /\ v.stale = w.stale /\ v.fired = w.fired /\ v.armed = w.armed
      /\ v.starts = w.starts /\ v.restart = w.restart /\ v.attempts = w.attempts
  BY <1>3 DEF WsType
<1>5. Others(v) = Others(w) + 1
  BY <1>2, <1>4, CountTypes DEF Others
<1>6. Drivers(v) = Drivers(w) + 1
  BY <1>4, <1>5, CountTypes DEF Drivers
<1>7. QED BY <1>4, <1>5, <1>6 DEF Owed, v

(* Publishing a state ... *)
LEMMA PublishCounts ==
  ASSUME NEW w \in WsType, NEW s \in State
  PROVE  /\ Others(PublishState(w, s)) = Others(w) /\ Owed(PublishState(w, s)) = Owed(w)
         /\ Drivers(PublishState(w, s)) = Drivers(w)
<1> DEFINE v == PublishState(w, s)
<1>1. /\ v.fresh = w.fresh /\ v.stale = w.stale /\ v.fired = w.fired /\ v.armed = w.armed
      /\ v.starts = w.starts /\ v.restart = w.restart /\ v.attempts = w.attempts
  BY DEF PublishState, WsType
<1> HIDE DEF v
<1>2. QED BY <1>1 DEF Others, Drivers, Owed, v

(* ... and resetting the stream change no count. *)
LEMMA ResetCounts ==
  ASSUME NEW w \in WsType
  PROVE  /\ Others(ResetStream(w)) = Others(w) /\ Owed(ResetStream(w)) = Owed(w)
         /\ Drivers(ResetStream(w)) = Drivers(w)
<1> DEFINE old == [k \in Op |-> w.stale[k] + w.fresh[k]]
           v   == ResetStream(w)
<1>1. w.fresh \in [Op -> Nat] /\ w.stale \in [Op -> Nat]
  BY DEF WsType
<1>2. Total(old) = Total(w.stale) + Total(w.fresh)
  BY <1>1, TotalSum
<1>3. v = [w EXCEPT !.open = FALSE, !.fresh = None, !.stale = old]
  BY DEF ResetStream
<1> HIDE DEF old, v, None
<1>4. /\ v.fresh = None /\ v.stale = old /\ v.fired = w.fired /\ v.armed = w.armed
      /\ v.starts = w.starts /\ v.restart = w.restart /\ v.attempts = w.attempts
  BY <1>3 DEF WsType
<1>5. Others(v) = Others(w)
  BY <1>2, <1>4, TotalNone, CountTypes DEF Others
<1>6. QED BY <1>4, <1>5 DEF Drivers, Owed, v

(* start() adds an operation in place of the timer's wait, and one begun   *)
(* connection in place of a restart that was asked for.                    *)
LEMMA StartCounts ==
  ASSUME NEW w \in WsType
  PROVE  /\ Start(w) \in WsType
         /\ Drivers(Start(w)) <= Others(w) + 1
         /\ Owed(Start(w)) <= Owed(w) + 1
         /\ w.state \notin {"STARTING", "RUNNING"} => Owed(Start(w)) <= Owed(w) + 1 - Bit(w.restart)
<1> DEFINE cancelled == [w EXCEPT !.armed = FALSE]
           reset     == ResetStream(cancelled)
           begun     == [reset EXCEPT !.restart = FALSE, !.starts = @ + 1]
           starting  == PublishState(begun, "STARTING")
<1>1. /\ cancelled \in WsType /\ cancelled.state = w.state /\ cancelled.armed = FALSE
      /\ cancelled.fresh = w.fresh /\ cancelled.stale = w.stale /\ cancelled.fired = w.fired
      /\ cancelled.starts = w.starts /\ cancelled.restart = w.restart
      /\ cancelled.attempts = w.attempts
  BY DEF WsType
<1>2. Start(w) = IF w.state \in {"STARTING", "RUNNING"} THEN cancelled
                                                       ELSE Issue(starting, "resolve")
  BY DEF Start
<1> HIDE DEF cancelled
<1>3. /\ Others(cancelled) = Others(w) /\ Drivers(cancelled) = Others(w)
      /\ Owed(cancelled) <= Owed(w) /\ Bit(cancelled.restart) = Bit(w.restart)
  <2>1. Others(cancelled) = Others(w)
    BY <1>1 DEF Others
  <2>2. /\ Bit(cancelled.armed) = 0 /\ Bit(cancelled.restart) = Bit(w.restart)
        /\ Bit(w.armed) \in {0, 1} /\ Bit(w.restart) \in {0, 1}
    BY <1>1 DEF Bit
  <2>6. /\ Others(w) \in Nat /\ w.starts \in Nat /\ w.fired \in Nat /\ w.attempts \in Nat
    BY CountTypes
  <2>3. Drivers(cancelled) = Others(w)
    BY <2>1, <2>2, <2>6 DEF Drivers
  <2>4. Owed(cancelled) <= Owed(w)
    BY <1>1, <2>2, <2>6 DEF Owed
  <2>5. QED BY <2>1, <2>2, <2>3, <2>4
<1>4. CASE w.state \in {"STARTING", "RUNNING"}
  BY <1>1, <1>2, <1>3, <1>4, CountTypes
<1>5. CASE w.state \notin {"STARTING", "RUNNING"}
  <2>1. /\ reset \in WsType /\ Drivers(reset) = Others(w)
        /\ Owed(reset) <= Owed(w) /\ Bit(reset.restart) = Bit(w.restart)
    BY <1>1, <1>3, ResetFacts, ResetCounts
  <2> HIDE DEF reset
  <2>2. /\ begun \in WsType /\ begun.starts = reset.starts + 1 /\ begun.restart = FALSE
        /\ begun.fresh = reset.fresh /\ begun.stale = reset.stale /\ begun.fired = reset.fired
        /\ begun.armed = reset.armed /\ begun.attempts = reset.attempts
    <3>1. PICK n \in Nat : n = reset.starts + 1
      BY <2>1 DEF WsType
    <3>2. begun = [reset EXCEPT !.restart = FALSE, !.starts = n]
      BY <3>1
    <3> HIDE DEF begun
    <3>3. QED BY <2>1, <3>1, <3>2 DEF WsType
  <2> HIDE DEF begun
  <2>3. Drivers(begun) = Others(w)
    BY <2>1, <2>2 DEF Drivers, Others
  <2>4. Owed(begun) = Owed(reset) + 1 - Bit(w.restart)
    <3>1. Bit(begun.restart) = 0 /\ Bit(begun.armed) = Bit(reset.armed)
      BY <2>2 DEF Bit
    <3>2. /\ reset.starts \in Nat /\ reset.fired \in Nat /\ reset.attempts \in Nat
          /\ Bit(reset.armed) \in {0, 1} /\ Bit(reset.restart) \in {0, 1}
      BY <2>1, CountTypes
    <3>3. QED BY <2>1, <2>2, <3>1, <3>2 DEF Owed
  <2>5. "STARTING" \in State
    BY DEF State
  <2>6. starting \in WsType /\ Drivers(starting) = Others(w) /\ Owed(starting) = Owed(begun)
    BY <2>2, <2>3, <2>5, PublishFacts, PublishCounts
  <2> HIDE DEF starting
  <2>7. /\ Start(w) \in WsType
        /\ Drivers(Start(w)) = Others(w) + 1 /\ Owed(Start(w)) = Owed(begun)
    BY <1>2, <1>5, <2>6, Kinds, IssueFacts, IssueCounts
  <2>8. QED BY <2>1, <2>4, <2>7, CountTypes
<1>6. QED BY <1>4, <1>5

(* A reconnection that is scheduled is counted as an attempt. *)
LEMMA ScheduleCounts ==
  ASSUME NEW w \in WsType
  PROVE  /\ Others(ScheduleReconnect(w)) = Others(w)
         /\ Drivers(ScheduleReconnect(w)) <= Others(w) + 1
         /\ Owed(ScheduleReconnect(w)) <= Owed(w)
<1> DEFINE v == ScheduleReconnect(w)
<1>1. CASE w.state \in {"STOPPING", "STOPPED"} \/ w.attempts >= MaxReconnectAttempts
  <2>1. v = w
    BY <1>1 DEF ScheduleReconnect
  <2>2. QED BY <2>1, CountTypes DEF Drivers
<1>2. CASE ~(w.state \in {"STOPPING", "STOPPED"} \/ w.attempts >= MaxReconnectAttempts)
  <2>1. /\ v.fresh = w.fresh /\ v.stale = w.stale /\ v.fired = w.fired /\ v.armed = TRUE
        /\ v.starts = w.starts /\ v.restart = w.restart /\ v.attempts = w.attempts + 1
    BY <1>2 DEF ScheduleReconnect, WsType
  <2> HIDE DEF v
  <2>2. Others(v) = Others(w)
    BY <2>1 DEF Others
  <2>3. /\ Bit(v.armed) = 1 /\ Bit(v.restart) = Bit(w.restart)
        /\ Bit(w.armed) \in {0, 1} /\ Bit(w.restart) \in {0, 1}
    BY <2>1 DEF Bit
  <2>4. Drivers(v) = Others(w) + 1
    BY <2>2, <2>3 DEF Drivers
  <2>7. w.starts \in Nat /\ w.fired \in Nat /\ w.attempts \in Nat
    BY CountTypes
  <2>5. Owed(v) <= Owed(w)
    BY <2>1, <2>3, <2>7 DEF Owed
  <2>6. QED BY <2>2, <2>4, <2>5, CountTypes DEF v
<1>3. QED BY <1>1, <1>2

(* The end of a connection leaves the timer in its place. *)
LEMMA FailCounts ==
  ASSUME NEW w \in WsType
  PROVE  Drivers(Fail(w)) <= Others(w) + 1 /\ Owed(Fail(w)) <= Owed(w)
<1> DEFINE failed == PublishState(w, "FAILED")
           reset  == ResetStream(failed)
<1>1. failed \in WsType /\ Others(failed) = Others(w) /\ Owed(failed) = Owed(w)
  <2>1. "FAILED" \in State
    BY DEF State
  <2>2. QED BY <2>1, PublishFacts, PublishCounts
<1>2. Fail(w) = ScheduleReconnect(reset)
  BY DEF Fail
<1> HIDE DEF failed
<1>3. reset \in WsType /\ Others(reset) = Others(w) /\ Owed(reset) = Owed(w)
  BY <1>1, ResetFacts, ResetCounts
<1> HIDE DEF reset
<1>4. QED BY <1>2, <1>3, ScheduleCounts

(* on_close() leaves one driver, whether it restarts, waits or stops. *)
LEMMA OnCloseCounts ==
  ASSUME NEW w \in WsType, NEW failed \in BOOLEAN
  PROVE  /\ Drivers(OnClose(w, failed)) <= Drivers(w) + 1
         /\ failed => Drivers(OnClose(w, failed)) <= Others(w) + 1
         /\ Owed(OnClose(w, failed)) <= Owed(w)
<1> DEFINE closed == IF failed THEN ScheduleReconnect(PublishState(w, "FAILED"))
                               ELSE PublishState(w, "STOPPED")
           reset  == ResetStream(closed)
           again  == [reset EXCEPT !.restart = FALSE]
<1>0. Drivers(w) \in Nat /\ Others(w) \in Nat /\ Owed(w) \in Int /\ Others(w) <= Drivers(w)
  BY CountTypes DEF Drivers
<1>1. /\ closed \in WsType /\ Others(closed) = Others(w)
      /\ Drivers(closed) <= Drivers(w) + 1 /\ (failed => Drivers(closed) <= Others(w) + 1)
      /\ Owed(closed) <= Owed(w)
  <2>1. ASSUME NEW s \in {"FAILED", "STOPPED"}
        PROVE  /\ PublishState(w, s) \in WsType /\ Others(PublishState(w, s)) = Others(w)
               /\ Drivers(PublishState(w, s)) = Drivers(w) /\ Owed(PublishState(w, s)) = Owed(w)
    <3>1. s \in State
      BY DEF State
    <3>2. QED BY <3>1, PublishFacts, PublishCounts
  <2>2. CASE failed
    <3> DEFINE p == PublishState(w, "FAILED")
    <3>1. p \in WsType /\ Others(p) = Others(w) /\ Owed(p) = Owed(w)
      BY <2>1
    <3>2. closed = ScheduleReconnect(p)
      BY <2>2
    <3> HIDE DEF p, closed
    <3>3. /\ closed \in WsType /\ Others(closed) = Others(w)
          /\ Drivers(closed) <= Others(w) + 1 /\ Owed(closed) <= Owed(w)
      BY <3>1, <3>2, ScheduleFacts, ScheduleCounts
    <3>4. QED BY <1>0, <3>3, CountTypes
  <2>3. CASE ~failed
    <3>1. closed = PublishState(w, "STOPPED")
      BY <2>3
    <3> HIDE DEF closed
    <3>2. QED BY <1>0, <2>1, <2>3, <3>1
  <2>4. QED BY <2>2, <2>3
<1>2. OnClose(w, failed) = IF reset.restart THEN Start(again) ELSE reset
  BY DEF OnClose
<1> HIDE DEF closed
<1>3. /\ reset \in WsType /\ Others(reset) = Others(w) /\ Drivers(reset) = Drivers(closed)
      /\ Owed(reset) <= Owed(w)
  BY <1>1, ResetFacts, ResetCounts
<1> HIDE DEF reset
<1>4. ASSUME reset.restart
      PROVE  /\ again \in WsType /\ Others(again) = Others(w) /\ Owed(again) = Owed(reset) - 1
  <2>1. /\ again \in WsType /\ again.restart = FALSE
        /\ again.fresh = reset.fresh /\ again.stale = reset.stale /\ again.fired = reset.fired
        /\ again.armed = reset.armed /\ again.attempts = reset.attempts
        /\ again.starts = reset.starts
    BY <1>3 DEF WsType
  <2> HIDE DEF again
  <2>2. Others(again) = Others(w)
    BY <1>3, <2>1 DEF Others
  <2>3. /\ Bit(again.restart) = 0 /\ Bit(reset.restart) = 1
        /\ Bit(again.armed) = Bit(reset.armed) /\ Bit(reset.armed) \in {0, 1}
    BY <1>4, <2>1 DEF Bit
  <2>6. reset.starts \in Nat /\ reset.fired \in Nat /\ reset.attempts \in Nat
    BY <1>3, CountTypes
  <2>4. Owed(again) = Owed(reset) - 1
    BY <2>1, <2>3, <2>6 DEF Owed
  <2>5. QED BY <2>1, <2>2, <2>4
<1> HIDE DEF again
<1>5. CASE reset.restart
  <2>1. Drivers(Start(again)) <= Others(w) + 1 /\ Owed(Start(again)) <= Owed(reset)
    <3>1. Owed(again) \in Int /\ Owed(reset) \in Int
      BY <1>3, <1>4, <1>5, CountTypes
    <3>2. Drivers(Start(again)) <= Others(again) + 1 /\ Owed(Start(again)) <= Owed(again) + 1
      BY <1>4, <1>5, StartCounts
    <3>3. QED BY <1>4, <1>5, <3>1, <3>2
  <2>2. Drivers(Start(again)) \in Nat /\ Owed(Start(again)) \in Int /\ Owed(reset) \in Int
    BY <1>3, <1>4, <1>5, StartCounts, CountTypes
  <2>3. QED BY <1>0, <1>2, <1>3, <1>5, <2>1, <2>2
<1>6. CASE ~reset.restart
  BY <1>0, <1>1, <1>2, <1>3, <1>6
<1>7. QED BY <1>5, <1>6

(* do_close() adds the close, or is an on_close(). *)
LEMMA DoCloseCounts ==
  ASSUME NEW w \in WsType
  PROVE  /\ DoClose(w) \in WsType
         /\ Drivers(DoClose(w)) <= Drivers(w) + 1 /\ Owed(DoClose(w)) <= Owed(w)
<1>1. CASE w.open
  <2>1. DoClose(w) = Issue(w, "close")
    BY <1>1 DEF DoClose
  <2>2. /\ Issue(w, "close") \in WsType /\ Drivers(Issue(w, "close")) = Drivers(w) + 1
        /\ Owed(Issue(w, "close")) = Owed(w)
    BY Kinds, IssueFacts, IssueCounts
  <2>3. Drivers(w) \in Nat /\ Owed(w) \in Int
    BY CountTypes
  <2>4. QED BY <2>1, <2>2, <2>3
<1>2. CASE ~w.open
  <2>1. DoClose(w) = OnClose(w, FALSE)
    BY <1>2 DEF DoClose
  <2>2. QED BY <2>1, OnCloseFacts, OnCloseCounts
<1>3. QED BY <1>1, <1>2

(* The call of restart() pays for the start it makes, or for the flag that  *)
(* it leaves.                                                               *)
LEMMA DoRestartCounts ==
  ASSUME NEW w \in WsType
  PROVE  /\ DoRestart(w) \in WsType
         /\ Drivers(DoRestart(w)) <= Drivers(w) + 1 /\ Owed(DoRestart(w)) <= Owed(w) + 1
<1> DEFINE asked == [w EXCEPT !.restart = TRUE]
<1>0. /\ Drivers(w) \in Nat /\ Others(w) \in Nat /\ Owed(w) \in Int
      /\ Others(w) <= Drivers(w)
  BY CountTypes DEF Drivers
<1>1. /\ asked \in WsType /\ asked.state = w.state
      /\ Drivers(asked) = Drivers(w) /\ Others(asked) = Others(w)
      /\ Owed(asked) <= Owed(w) + 1 /\ Bit(asked.restart) = 1
  <2>1. /\ asked \in WsType /\ asked.state = w.state /\ asked.restart = TRUE
        /\ asked.fresh = w.fresh /\ asked.stale = w.stale /\ asked.fired = w.fired
        /\ asked.armed = w.armed /\ asked.attempts = w.attempts /\ asked.starts = w.starts
    BY DEF WsType
  <2> HIDE DEF asked
  <2>2. /\ Bit(asked.restart) = 1 /\ Bit(w.restart) \in {0, 1}
        /\ Bit(asked.armed) = Bit(w.armed) /\ Bit(w.armed) \in {0, 1}
    BY <2>1 DEF Bit
  <2>3. w.starts \in Nat /\ w.fired \in Nat /\ w.attempts \in Nat
    BY CountTypes
  <2>4. Owed(asked) <= Owed(w) + 1
    BY <2>1, <2>2, <2>3 DEF Owed
  <2>5. Others(asked) = Others(w)
    BY <2>1 DEF Others
  <2>6. QED BY <2>1, <2>2, <2>4, <2>5 DEF Drivers
<1> DEFINE reset    == ResetStream(asked)
           stopping == PublishState(asked, "STOPPING")
<1>2. DoRestart(w) = CASE w.state \in {"STOPPED", "FAILED"} -> Start(reset)
                       [] w.state = "STOPPING"              -> asked
                       [] OTHER                             -> DoClose(stopping)
  BY DEF DoRestart
<1> HIDE DEF asked
<1>3. CASE w.state \in {"STOPPED", "FAILED"}
  <2>1. /\ reset \in WsType /\ Others(reset) = Others(w) /\ Owed(reset) = Owed(asked)
        /\ reset.state \notin {"STARTING", "RUNNING"} /\ reset.restart = asked.restart
    BY <1>1, <1>3, ResetFacts, ResetCounts
  <2> HIDE DEF reset
  <2>2. DoRestart(w) = Start(reset)
    BY <1>2, <1>3
  <2>3. /\ Start(reset) \in WsType /\ Drivers(Start(reset)) <= Others(w) + 1
        /\ Owed(Start(reset)) <= Owed(reset) + 1 - Bit(reset.restart)
    BY <2>1, StartCounts
  <2>4. /\ Drivers(Start(reset)) \in Nat /\ Owed(Start(reset)) \in Int /\ Owed(asked) \in Int
        /\ Bit(reset.restart) = 1
    BY <1>1, <2>1, <2>3, CountTypes
  <2>5. QED BY <1>0, <1>1, <2>1, <2>2, <2>3, <2>4
<1>4. CASE w.state = "STOPPING"
  <2>1. DoRestart(w) = asked
    BY <1>2, <1>4
  <2>2. QED BY <1>0, <1>1, <2>1
<1>5. CASE w.state \notin {"STOPPED", "FAILED", "STOPPING"}
  <2>1. "STOPPING" \in State
    BY DEF State
  <2>2. stopping \in WsType /\ Drivers(stopping) = Drivers(w) /\ Owed(stopping) = Owed(asked)
    BY <1>1, <2>1, PublishFacts, PublishCounts
  <2> HIDE DEF stopping
  <2>3. DoRestart(w) = DoClose(stopping)
    BY <1>2, <1>5
  <2>4. /\ DoClose(stopping) \in WsType /\ Drivers(DoClose(stopping)) <= Drivers(w) + 1
        /\ Owed(DoClose(stopping)) <= Owed(asked)
    BY <2>2, DoCloseCounts
  <2>5. Owed(DoClose(stopping)) \in Int /\ Owed(asked) \in Int
    BY <1>1, <2>4, CountTypes
  <2>6. QED BY <1>0, <1>1, <2>3, <2>4, <2>5
<1>6. QED BY <1>3, <1>4, <1>5

(* A handler uses up the operation it is of. *)
LEMMA TakenCounts ==
  ASSUME ws \in WsType, NEW k \in Op, NEW age \in Age, Outstanding(k, age)
  PROVE  /\ Others(Taken(k, age)) = Others(ws) - 1 /\ Drivers(Taken(k, age)) = Drivers(ws) - 1
         /\ Owed(Taken(k, age)) = Owed(ws)
<1>1. ws.fresh \in [Op -> Nat] /\ ws.stale \in [Op -> Nat]
  BY DEF WsType
<1> DEFINE v == Taken(k, age)
<1>2. /\ v.fired = ws.fired /\ v.armed = ws.armed /\ v.starts = ws.starts
      /\ v.restart = ws.restart /\ v.attempts = ws.attempts
      /\ Total(v.fresh) + Total(v.stale) = Total(ws.fresh) + Total(ws.stale) - 1
  <2>1. CASE age = "fresh"
    <3>1. v = [ws EXCEPT !.fresh = [ws.fresh EXCEPT ![k] = @ - 1]] /\ ws.fresh[k] > 0
      BY <2>1 DEF Taken, Outstanding, WsType
    <3> DEFINE less == [ws.fresh EXCEPT ![k] = @ - 1]
    <3>2. Total(less) = Total(ws.fresh) - 1
      BY <1>1, <3>1, TotalFacts
    <3> HIDE DEF less, v
    <3>3. /\ v.fired = ws.fired /\ v.armed = ws.armed /\ v.starts = ws.starts
          /\ v.restart = ws.restart /\ v.attempts = ws.attempts
          /\ v.fresh = less /\ v.stale = ws.stale
      BY <3>1 DEF WsType, less
    <3>4. QED BY <3>2, <3>3, CountTypes
  <2>2. CASE age = "stale"
    <3>1. v = [ws EXCEPT !.stale = [ws.stale EXCEPT ![k] = @ - 1]] /\ ws.stale[k] > 0
      BY <2>2 DEF Taken, Outstanding, WsType
    <3> DEFINE less == [ws.stale EXCEPT ![k] = @ - 1]
    <3>2. Total(less) = Total(ws.stale) - 1
      BY <1>1, <3>1, TotalFacts
    <3> HIDE DEF less, v
    <3>3. /\ v.fired = ws.fired /\ v.armed = ws.armed /\ v.starts = ws.starts
          /\ v.restart = ws.restart /\ v.attempts = ws.attempts
          /\ v.fresh = ws.fresh /\ v.stale = less
      BY <3>1 DEF WsType, less
    <3>4. QED BY <3>2, <3>3, CountTypes
  <2>3. QED BY <2>1, <2>2 DEF Age
<1> HIDE DEF v
<1>3. Total(ws.fresh) \in Nat /\ Total(ws.stale) \in Nat /\ ws.fired \in Nat /\ Others(ws) \in Nat
  BY CountTypes
<1>4. Others(v) = Others(ws) - 1
  <2>1. Others(v) = (Total(v.fresh) + Total(v.stale)) + ws.fired
    BY <1>2 DEF Others
  <2>2. Others(ws) = (Total(ws.fresh) + Total(ws.stale)) + ws.fired
    BY DEF Others
  <2>3. QED BY <1>2, <1>3, <2>1, <2>2
<1>5. Drivers(v) = Drivers(ws) - 1
  <2>1. Bit(v.armed) = Bit(ws.armed) /\ Bit(ws.armed) \in {0, 1}
    BY <1>2 DEF Bit
  <2>2. QED BY <1>3, <1>4, <2>1 DEF Drivers
<1>6. QED BY <1>2, <1>4, <1>5 DEF Owed, v

(* A handler keeps the accounts if it gives back no more than it has used. *)
LEMMA HandlerKeeps ==
  ASSUME TypeOK, Accounted, NEW w \in WsType, Io(w),
         Drivers(w) <= Drivers(ws), Owed(w) <= Owed(ws)
  PROVE  Accounted'
<1>1. ws' = w /\ stopper' = stopper /\ calls' = calls
  BY DEF Io
<1>2. Drivers(w) \in Nat /\ Drivers(ws) \in Nat /\ Owed(w) \in Int /\ Owed(ws) \in Int
  BY CountTypes DEF TypeOK
<1>3. Calls \in Nat /\ Calls' = Calls
  BY <1>1, WsAssumption DEF Calls, TypeOK
<1>4. Bit(stopper # "out") \in {0, 1} /\ Bit((stopper # "out"))' = Bit(stopper # "out")
  BY <1>1 DEF Bit
<1>5. Drivers(ws)' = Drivers(w) /\ Owed(ws)' = Owed(w)
  BY <1>1
<1>6. QED BY <1>2, <1>3, <1>4, <1>5 DEF Accounted

(* A call of the owner keeps them, since it is counted. *)
LEMMA CallKeeps ==
  ASSUME TypeOK, TypeOK', Accounted,
         NEW d \in {0, 1}, NEW o \in {0, 1}, NEW n \in {0, 1},
         Drivers(ws)' <= Drivers(ws) + d, Owed(ws)' <= Owed(ws) + o, Calls' = Calls + n,
         o <= n, d + Bit(stopper # "out")' <= n + Bit(stopper # "out")
  PROVE  Accounted'
<1>1. /\ Drivers(ws) \in Nat /\ Drivers(ws)' \in Nat /\ Owed(ws) \in Int /\ Owed(ws)' \in Int
  BY CountTypes DEF TypeOK
<1>2. Calls \in Nat
  BY WsAssumption DEF Calls, TypeOK
<1>3. Bit(stopper # "out") \in {0, 1} /\ Bit(stopper # "out")' \in {0, 1}
  BY DEF Bit
<1>4. QED BY <1>1, <1>2, <1>3 DEF Accounted

(* A call of the owner is counted once. *)
LEMMA CallCounts ==
  ASSUME TypeOK, NEW method \in {"open", "stop", "restart"}, NEW bound \in Nat, Call(method, bound)
  PROVE  Calls' = Calls + 1
<1>1. /\ calls \in [open : 0..1, stop : 0..MaxStops, restart : 0..MaxRestarts]
      /\ calls' = [calls EXCEPT ![method] = @ + 1]
  BY DEF TypeOK, Call
<1>2. calls.open \in Nat /\ calls.stop \in Nat /\ calls.restart \in Nat
  BY <1>1, WsAssumption
<1>3. CASE method = "open"
  BY <1>1, <1>2, <1>3 DEF Calls
<1>4. CASE method = "stop"
  BY <1>1, <1>2, <1>4 DEF Calls
<1>5. CASE method = "restart"
  BY <1>1, <1>2, <1>5 DEF Calls
<1>6. QED BY <1>3, <1>4, <1>5

(* Every call of the owner keeps the accounts. *)
LEMMA OwnerAccounts ==
  ASSUME TypeOK, TypeOK', Accounted, Open \/ StopBegins \/ StopPublishes \/ StopCloses \/ Restart
  PROVE  Accounted'
<1>0. /\ ws \in WsType /\ Others(ws) \in Nat /\ Drivers(ws) \in Nat /\ Owed(ws) \in Int
      /\ Others(ws) <= Drivers(ws) /\ Calls \in Nat
  BY WsAssumption, CountTypes DEF TypeOK, Drivers, Calls
<1>1. CASE Open
  <2>1. ws' = Start(ws) /\ stopper' = stopper /\ Calls' = Calls + 1
    BY <1>1, CallCounts DEF Open
  <2>2. Drivers(ws)' <= Drivers(ws) + 1 /\ Owed(ws)' <= Owed(ws) + 1
    <3>1. Drivers(Start(ws)) \in Nat
      BY <1>0, StartCounts, CountTypes
    <3>2. QED BY <1>0, <2>1, <3>1, StartCounts
  <2>3. 1 + Bit(stopper # "out")' <= 1 + Bit(stopper # "out")
    BY <2>1 DEF Bit
  <2>4. QED BY <2>1, <2>2, <2>3, CallKeeps
<1>2. CASE StopBegins
  <2>1. /\ ws' = [ws EXCEPT !.restart = FALSE, !.armed = FALSE] /\ stopper = "out"
        /\ Calls' = Calls + 1
    BY <1>2, CallCounts, WsAssumption DEF StopBegins
  <2>2. /\ Bit(ws'.armed) = 0 /\ Bit(ws'.restart) = 0
        /\ Bit(ws.armed) \in {0, 1} /\ Bit(ws.restart) \in {0, 1}
    BY <1>0, <2>1 DEF Bit, WsType
  <2>3. /\ ws'.fresh = ws.fresh /\ ws'.stale = ws.stale /\ ws'.fired = ws.fired
        /\ ws'.starts = ws.starts /\ ws'.attempts = ws.attempts
    BY <1>0, <2>1 DEF WsType
  <2>4. ws.starts \in Nat /\ ws.fired \in Nat /\ ws.attempts \in Nat
    BY <1>0, CountTypes
  <2>5. Owed(ws)' <= Owed(ws) + 0
    BY <2>2, <2>3, <2>4 DEF Owed
  <2>6. Others(ws)' = Others(ws)
    BY <2>3 DEF Others
  <2>7. Drivers(ws)' <= Drivers(ws) + 0
    BY <1>0, <2>2, <2>6 DEF Drivers
  <2>8. 0 + Bit(stopper # "out")' <= 1 + Bit(stopper # "out")
    BY <2>1 DEF Bit
  <2>9. QED BY <2>1, <2>5, <2>7, <2>8, CallKeeps
<1>3. CASE StopPublishes
  <2>1. "STOPPING" \in State
    BY DEF State
  <2>2. /\ ws' = PublishState(ws, "STOPPING") /\ stopper = "publish" /\ stopper' = "close"
        /\ Calls' = Calls
    BY <1>3 DEF StopPublishes, Calls
  <2>3. Drivers(ws)' <= Drivers(ws) + 0 /\ Owed(ws)' <= Owed(ws) + 0
    BY <1>0, <2>1, <2>2, PublishCounts
  <2>4. 0 + Bit(stopper # "out")' <= 0 + Bit(stopper # "out")
    BY <2>2 DEF Bit
  <2>5. Calls' = Calls + 0
    BY <1>0, <2>2
  <2>6. QED BY <2>3, <2>4, <2>5, CallKeeps
<1>4. CASE StopCloses
  <2>1. /\ ws' = DoClose(ws) /\ stopper = "close" /\ stopper' = "out" /\ Calls' = Calls
    BY <1>4 DEF StopCloses, Calls
  <2>2. Drivers(ws)' <= Drivers(ws) + 1 /\ Owed(ws)' <= Owed(ws)
    BY <1>0, <2>1, DoCloseCounts
  <2>3. 1 + Bit(stopper # "out")' <= 0 + Bit(stopper # "out")
    BY <2>1 DEF Bit
  <2>4. Calls' = Calls + 0 /\ Owed(ws)' <= Owed(ws) + 0
    BY <1>0, <2>1, <2>2
  <2>5. QED BY <2>2, <2>3, <2>4, CallKeeps
<1>5. CASE Restart
  <2>1. ws' = DoRestart(ws) /\ stopper' = stopper /\ Calls' = Calls + 1
    BY <1>5, CallCounts, WsAssumption DEF Restart
  <2>2. Drivers(ws)' <= Drivers(ws) + 1 /\ Owed(ws)' <= Owed(ws) + 1
    BY <1>0, <2>1, DoRestartCounts
  <2>3. 1 + Bit(stopper # "out")' <= 1 + Bit(stopper # "out")
    BY <2>1 DEF Bit
  <2>4. QED BY <2>1, <2>2, <2>3, CallKeeps
<1>6. QED BY <1>1, <1>2, <1>3, <1>4, <1>5

(* A handler that issues the next operation in place of its own. *)
LEMMA IssueKeeps ==
  ASSUME TypeOK, Accounted, NEW w \in WsType, NEW k \in Op, Io(Issue(w, k)),
         Drivers(w) = Drivers(ws) - 1, Owed(w) <= Owed(ws)
  PROVE  Accounted'
<1>1. Issue(w, k) \in WsType /\ Drivers(Issue(w, k)) = Drivers(w) + 1 /\ Owed(Issue(w, k)) = Owed(w)
  BY IssueFacts, IssueCounts
<1>2. Drivers(ws) \in Nat
  BY CountTypes DEF TypeOK
<1>3. Drivers(Issue(w, k)) <= Drivers(ws)
  BY <1>1, <1>2
<1>4. QED BY <1>1, <1>3, HandlerKeeps

(* Every completion handler keeps the accounts. *)
LEMMA HandlerAccounts ==
  ASSUME TypeOK, Accounted, NEW k \in Op, NEW age \in Age, Complete(k, age)
  PROVE  Accounted'
<1>0. /\ ws \in WsType /\ "fresh" \in Age
      /\ Others(ws) \in Nat /\ Drivers(ws) \in Nat /\ Owed(ws) \in Int /\ Others(ws) <= Drivers(ws)
  BY CountTypes DEF TypeOK, Age, Drivers
<1>1. ASSUME OperationFails(k, age)
      PROVE  Accounted'
  <2> DEFINE taken == Taken(k, age)
  <2>1. /\ taken \in WsType
        /\ Others(taken) = Others(ws) - 1 /\ Drivers(taken) = Drivers(ws) - 1
        /\ Owed(taken) = Owed(ws)
    BY <1>0, <1>1, TakenFacts, TakenCounts DEF OperationFails
  <2>2. Io(IF k = "close" THEN OnClose(taken, TRUE) ELSE Fail(taken))
    BY <1>1 DEF OperationFails
  <2> HIDE DEF taken
  <2>3. CASE k = "close"
    <3> DEFINE w == OnClose(taken, TRUE)
    <3>1. w \in WsType /\ Drivers(w) <= Drivers(taken) + 1 /\ Owed(w) <= Owed(taken)
      BY <2>1, OnCloseFacts, OnCloseCounts
    <3>2. Io(w)
      BY <2>2, <2>3
    <3> HIDE DEF w
    <3>3. Drivers(w) <= Drivers(ws) /\ Owed(w) <= Owed(ws)
      BY <1>0, <2>1, <3>1
    <3>4. QED BY <3>1, <3>2, <3>3, HandlerKeeps
  <2>4. CASE k # "close"
    <3> DEFINE w == Fail(taken)
    <3>1. w \in WsType /\ Drivers(w) <= Others(taken) + 1 /\ Owed(w) <= Owed(taken)
      BY <2>1, FailFacts, FailCounts
    <3>2. Io(w)
      BY <2>2, <2>4
    <3> HIDE DEF w
    <3>3. Drivers(w) \in Nat
      BY <3>1, CountTypes
    <3>4. Drivers(w) <= Drivers(ws) /\ Owed(w) <= Owed(ws)
      BY <1>0, <2>1, <3>1, <3>3
    <3>5. QED BY <3>1, <3>2, <3>4, HandlerKeeps
  <2>5. QED BY <2>3, <2>4
<1>2. ASSUME k = "resolve", Resolved(age)
      PROVE  Accounted'
  <2> DEFINE taken == Taken("resolve", age)
             w     == [taken EXCEPT !.open = TRUE]
  <2>1. Outstanding("resolve", age) /\ Io(Issue(w, "connect"))
    BY <1>2 DEF Resolved, MaySucceed
  <2>2. taken \in WsType /\ Drivers(taken) = Drivers(ws) - 1 /\ Owed(taken) = Owed(ws)
    BY <1>0, <2>1, Kinds, TakenFacts, TakenCounts
  <2> HIDE DEF taken
  <2>3. /\ w \in WsType
        /\ w.fresh = taken.fresh /\ w.stale = taken.stale /\ w.fired = taken.fired
        /\ w.armed = taken.armed /\ w.starts = taken.starts /\ w.restart = taken.restart
        /\ w.attempts = taken.attempts
    BY <2>2 DEF WsType
  <2> HIDE DEF w
  <2>4. Drivers(w) = Drivers(taken) /\ Owed(w) = Owed(taken)
    BY <2>3 DEF Drivers, Others, Owed
  <2>5. QED BY <1>0, <2>1, <2>2, <2>3, <2>4, Kinds, IssueKeeps
<1>3. ASSUME NEW from \in Op, NEW next \in Op, Outstanding(from, age), Io(Issue(Taken(from, age), next))
      PROVE  Accounted'
  <2> DEFINE taken == Taken(from, age)
  <2>1. taken \in WsType /\ Drivers(taken) = Drivers(ws) - 1 /\ Owed(taken) = Owed(ws)
    BY <1>0, <1>3, TakenFacts, TakenCounts
  <2>2. Owed(taken) <= Owed(ws) /\ Io(Issue(taken, next))
    BY <1>0, <1>3, <2>1
  <2> HIDE DEF taken
  <2>3. QED BY <2>1, <2>2, IssueKeeps
<1>4. ASSUME k = "connect", Connected(age)
      PROVE  Accounted'
  <2>1. /\ Outstanding("connect", age)
        /\ \/ Io(Issue(Taken("connect", age), "tls_handshake"))
           \/ Io(Issue(Taken("connect", age), "ws_handshake"))
    BY <1>4 DEF Connected, MaySucceed
  <2>2. QED BY <1>3, <2>1, Kinds
<1>5. ASSUME k = "tls_handshake", TlsHandshaken(age)
      PROVE  Accounted'
  <2>1. Outstanding("tls_handshake", age) /\ Io(Issue(Taken("tls_handshake", age), "ws_handshake"))
    BY <1>5 DEF TlsHandshaken, MaySucceed
  <2>2. QED BY <1>3, <2>1, Kinds
<1>6. ASSUME WsHandshaken
      PROVE  Accounted'
  <2> DEFINE taken   == Taken("ws_handshake", "fresh")
             running == PublishState(taken, "RUNNING")
             w       == [running EXCEPT !.attempts = 0, !.starts = 0]
             v       == Issue(w, "read")
  <2>1. Outstanding("ws_handshake", "fresh") /\ Io(v)
    BY <1>6 DEF WsHandshaken, MaySucceed
  <2>2. taken \in WsType /\ Drivers(taken) = Drivers(ws) - 1
    BY <1>0, <2>1, Kinds, TakenFacts, TakenCounts
  <2> HIDE DEF taken
  <2>3. running \in WsType /\ Drivers(running) = Drivers(ws) - 1
    <3>1. "RUNNING" \in State
      BY DEF State
    <3>2. QED BY <2>2, <3>1, PublishFacts, PublishCounts
  <2> HIDE DEF running
  <2>4. /\ w \in WsType /\ w.attempts = 0 /\ w.starts = 0
        /\ w.fresh = running.fresh /\ w.stale = running.stale /\ w.fired = running.fired
        /\ w.armed = running.armed
    <3>1. 0 \in 0..MaxReconnectAttempts /\ 0 \in Nat
      BY WsAssumption
    <3>2. QED BY <2>3, <3>1 DEF WsType
  <2> HIDE DEF w
  <2>5. Drivers(w) = Drivers(ws) - 1
    BY <2>3, <2>4 DEF Drivers, Others
  <2>6. Owed(w) <= Drivers(ws)
    <3>1. /\ w.fired \in Nat /\ w.fired <= Others(w) /\ Others(w) \in Nat
          /\ Bit(w.armed) \in {0, 1} /\ Bit(w.restart) \in {0, 1}
      BY <2>4, CountTypes
    <3>2. Owed(w) = w.fired + Bit(w.armed) + Bit(w.restart)
      BY <2>4, <3>1 DEF Owed
    <3>3. Others(w) + Bit(w.armed) = Drivers(ws) - 1
      BY <2>5 DEF Drivers
    <3>4. QED BY <1>0, <3>1, <3>2, <3>3
  <2>7. v \in WsType /\ Drivers(v) = Drivers(w) + 1 /\ Owed(v) = Owed(w)
    BY <2>4, Kinds, IssueFacts, IssueCounts
  <2> HIDE DEF v
  <2>8. Drivers(v) <= Drivers(ws) /\ Owed(v) <= Drivers(ws) /\ Owed(v) \in Int
    BY <1>0, <2>5, <2>6, <2>7, CountTypes
  <2>9. /\ ws' = v /\ Drivers(ws)' = Drivers(v) /\ Owed(ws)' = Owed(v)
        /\ stopper' = stopper /\ Calls' = Calls
    BY <2>1 DEF Io, Calls
  <2>10. Calls \in Nat /\ Drivers(v) \in Nat /\ Bit(stopper # "out") \in {0, 1}
         /\ Bit(stopper # "out")' = Bit(stopper # "out")
    BY <2>7, <2>9, WsAssumption, CountTypes DEF TypeOK, Calls, Bit
  <2>11. QED BY <1>0, <2>8, <2>9, <2>10 DEF Accounted
<1>7. ASSUME Closed
      PROVE  Accounted'
  <2> DEFINE taken == Taken("close", "fresh")
             w     == OnClose(taken, FALSE)
  <2>1. Outstanding("close", "fresh") /\ Io(w)
    BY <1>7 DEF Closed, MaySucceed
  <2>2. taken \in WsType /\ Drivers(taken) = Drivers(ws) - 1 /\ Owed(taken) = Owed(ws)
    BY <1>0, <2>1, Kinds, TakenFacts, TakenCounts
  <2> HIDE DEF taken
  <2>3. w \in WsType /\ Drivers(w) <= Drivers(taken) + 1 /\ Owed(w) <= Owed(taken)
    BY <2>2, OnCloseFacts, OnCloseCounts
  <2> HIDE DEF w
  <2>4. Drivers(w) <= Drivers(ws) /\ Owed(w) <= Owed(ws)
    BY <1>0, <2>2, <2>3
  <2>5. QED BY <2>1, <2>3, <2>4, HandlerKeeps
<1>8. QED BY <1>1, <1>2, <1>4, <1>5, <1>6, <1>7 DEF Complete

(* Reading a message and the reconnect timer keep the accounts. *)
LEMMA IoAccounts ==
  ASSUME TypeOK, Accounted, Read \/ TimerExpires \/ TimerFires
  PROVE  Accounted'
<1>0. /\ ws \in WsType /\ "fresh" \in Age
      /\ Others(ws) \in Nat /\ Drivers(ws) \in Nat /\ Owed(ws) \in Int /\ Others(ws) <= Drivers(ws)
  BY CountTypes DEF TypeOK, Age, Drivers
<1>1. CASE Read
  <2> DEFINE taken == Taken("read", "fresh")
  <2>1. /\ Outstanding("read", "fresh")
        /\ Io(IF ws.state = "RUNNING" THEN Issue(taken, "read") ELSE taken)
    BY <1>1 DEF Read, MaySucceed
  <2>2. taken \in WsType /\ Drivers(taken) = Drivers(ws) - 1 /\ Owed(taken) = Owed(ws)
    BY <1>0, <2>1, Kinds, TakenFacts, TakenCounts
  <2> HIDE DEF taken
  <2>3. Drivers(taken) <= Drivers(ws) /\ Owed(taken) <= Owed(ws)
    BY <1>0, <2>2
  <2>4. CASE ws.state = "RUNNING"
    BY <2>1, <2>2, <2>3, <2>4, Kinds, IssueKeeps
  <2>5. CASE ws.state # "RUNNING"
    BY <2>1, <2>2, <2>3, <2>5, HandlerKeeps
  <2>6. QED BY <2>4, <2>5
<1>2. CASE TimerExpires
  <2>1. PICK n \in Nat : n = ws.fired + 1
    BY <1>0 DEF WsType
  <2> DEFINE w == [ws EXCEPT !.armed = FALSE, !.fired = n]
  <2>2. Io(w) /\ ws.armed
    BY <1>2, <2>1 DEF TimerExpires
  <2>3. /\ w \in WsType /\ w.fresh = ws.fresh /\ w.stale = ws.stale /\ w.fired = n
        /\ w.armed = FALSE /\ w.starts = ws.starts /\ w.restart = ws.restart
        /\ w.attempts = ws.attempts
    BY <1>0, <2>1 DEF WsType
  <2> HIDE DEF w
  <2>4. /\ Bit(w.armed) = 0 /\ Bit(ws.armed) = 1 /\ Bit(w.restart) = Bit(ws.restart)
        /\ Bit(ws.restart) \in {0, 1}
    BY <2>2, <2>3 DEF Bit
  <2>5. /\ Total(ws.fresh) \in Nat /\ Total(ws.stale) \in Nat /\ ws.fired \in Nat
        /\ ws.starts \in Nat /\ ws.attempts \in Nat
    BY <1>0, CountTypes
  <2>6. Drivers(w) = Drivers(ws)
    BY <2>1, <2>3, <2>4, <2>5 DEF Drivers, Others
  <2>7. Owed(w) = Owed(ws)
    BY <2>1, <2>3, <2>4, <2>5 DEF Owed
  <2>8. Drivers(w) <= Drivers(ws) /\ Owed(w) <= Owed(ws)
    BY <1>0, <2>6, <2>7
  <2>9. QED BY <2>2, <2>3, <2>8, HandlerKeeps
<1>3. CASE TimerFires
  <2>1. PICK n \in Nat : n = ws.fired - 1
    BY <1>0, <1>3 DEF TimerFires, WsType
  <2> DEFINE ran == [ws EXCEPT !.fired = n]
  <2>2. Io(IF ws.state \in {"STOPPING", "RUNNING"} THEN ran ELSE Start(ran))
    BY <1>3, <2>1 DEF TimerFires
  <2>3. /\ ran \in WsType /\ ran.fresh = ws.fresh /\ ran.stale = ws.stale /\ ran.fired = n
        /\ ran.armed = ws.armed /\ ran.starts = ws.starts /\ ran.restart = ws.restart
        /\ ran.attempts = ws.attempts
    BY <1>0, <2>1 DEF WsType
  <2> HIDE DEF ran
  <2>4. /\ Bit(ran.armed) = Bit(ws.armed) /\ Bit(ws.armed) \in {0, 1}
        /\ Bit(ran.restart) = Bit(ws.restart) /\ Bit(ws.restart) \in {0, 1}
    BY <2>3 DEF Bit
  <2>5. /\ Total(ws.fresh) \in Nat /\ Total(ws.stale) \in Nat /\ ws.fired \in Nat
        /\ ws.starts \in Nat /\ ws.attempts \in Nat
    BY <1>0, CountTypes
  <2>6. Others(ran) = Others(ws) - 1
    BY <2>1, <2>3, <2>5 DEF Others
  <2>7. Owed(ran) = Owed(ws) - 1
    BY <2>1, <2>3, <2>4, <2>5 DEF Owed
  <2>8. Drivers(ran) = Drivers(ws) - 1
    BY <1>0, <2>4, <2>6 DEF Drivers
  <2>9. CASE ws.state \in {"STOPPING", "RUNNING"}
    <3>1. Io(ran)
      BY <2>2, <2>9
    <3>2. Drivers(ran) <= Drivers(ws) /\ Owed(ran) <= Owed(ws)
      BY <1>0, <2>7, <2>8
    <3>3. QED BY <2>3, <3>1, <3>2, HandlerKeeps
  <2>10. CASE ws.state \notin {"STOPPING", "RUNNING"}
    <3>1. Io(Start(ran))
      BY <2>2, <2>10
    <3>2. /\ Start(ran) \in WsType /\ Drivers(Start(ran)) <= Others(ran) + 1
          /\ Owed(Start(ran)) <= Owed(ran) + 1
      BY <2>3, StartCounts
    <3>3. Drivers(Start(ran)) \in Nat /\ Owed(Start(ran)) \in Int
      BY <3>2, CountTypes
    <3>4. Drivers(Start(ran)) <= Drivers(ws) /\ Owed(Start(ran)) <= Owed(ws)
      BY <1>0, <2>6, <2>7, <3>2, <3>3
    <3>5. QED BY <3>1, <3>2, <3>4, HandlerKeeps
  <2>11. QED BY <2>9, <2>10
<1>4. QED BY <1>1, <1>2, <1>3

(* The accounts hold in every behaviour. *)
THEOREM Accounts == Spec => []Accounted
<1>1. Init => Accounted
  <2> SUFFICES ASSUME Init PROVE Accounted
    OBVIOUS
  <2> USE DEF Init
  <2>1. Total(ws.fresh) = 0 /\ Total(ws.stale) = 0
    BY TotalNone
  <2>2. Bit(ws.armed) = 0 /\ Bit(ws.restart) = 0 /\ Bit(stopper # "out") = 0
    BY DEF Bit
  <2>3. Calls = 0
    BY DEF Calls
  <2>4. Drivers(ws) = 0 /\ Owed(ws) = 0
    <3>1. ws.fired = 0 /\ ws.starts = 0 /\ ws.attempts = 0
      OBVIOUS
    <3> QED BY ONLY <2>1, <2>2, <3>1 DEF Drivers, Others, Owed
  <2>5. QED BY <2>2, <2>3, <2>4 DEF Accounted
<1>2. TypeOK /\ TypeOK' /\ Accounted /\ [Next]_vars => Accounted'
  <2> SUFFICES ASSUME TypeOK, TypeOK', Accounted, [Next]_vars PROVE Accounted'
    OBVIOUS
  <2>1. CASE UNCHANGED vars
    BY <2>1 DEF vars, Accounted, Drivers, Others, Owed, Calls, Total, Bit
  <2>2. CASE Open \/ StopBegins \/ StopPublishes \/ StopCloses \/ Restart
    BY <2>2, OwnerAccounts
  <2>3. CASE Read \/ TimerExpires \/ TimerFires
    BY <2>3, IoAccounts
  <2>4. ASSUME NEW k \in Op, NEW age \in Age, Complete(k, age) PROVE Accounted'
    BY <2>4, HandlerAccounts
  <2>5. QED BY <2>1, <2>2, <2>3, <2>4 DEF Next
<1>3. QED BY <1>1, <1>2, TypeCorrect, PTL DEF Spec

(* Between two successful handshakes the source begins no more connections  *)
(* than the attempts it has counted, and one for each call of its owner.    *)
THEOREM RetriesAreBounded == Spec => []RetriesBounded
<1>1. TypeOK /\ Accounted => RetriesBounded
  <2> SUFFICES ASSUME TypeOK, Accounted PROVE RetriesBounded
    OBVIOUS
  <2>1. /\ ws.starts \in Nat /\ ws.fired \in Nat /\ ws.attempts \in Nat
        /\ Bit(ws.armed) \in {0, 1} /\ Bit(ws.restart) \in {0, 1}
    BY CountTypes DEF TypeOK
  <2>2. calls.open \in Nat /\ calls.stop \in Nat /\ calls.restart \in Nat
    BY WsAssumption DEF TypeOK
  <2>3. ws.starts + ws.fired + Bit(ws.armed) + Bit(ws.restart) - ws.attempts
           <= calls.open + calls.stop + calls.restart
    BY DEF Accounted, Owed, Calls
  <2>4. QED BY <2>1, <2>2, <2>3 DEF RetriesBounded
<1>2. QED BY <1>1, Accounts, TypeCorrect, PTL

(* Reconnecting by itself the source does one thing at a time: an operation *)
(* of one connection, or the wait for the next.                             *)
THEOREM OneDriver == Spec => []OneThingAtATime
<1>1. TypeOK /\ Accounted => OneThingAtATime
  <2> SUFFICES ASSUME TypeOK, Accounted, calls.stop = 0, calls.restart = 0,
                      NEW d \in Driver, NEW e \in Driver
               PROVE  Load(d) <= 1 /\ (Load(d) = 1 /\ Load(e) = 1 => d = e)
    BY DEF OneThingAtATime
  <2>1. ws \in WsType /\ calls.open \in {0, 1}
    BY DEF TypeOK
  <2>2. /\ ws.fresh \in [Op -> Nat] /\ ws.stale \in [Op -> Nat] /\ ws.fired \in Nat
        /\ Bit(ws.armed) \in {0, 1} /\ Bit(stopper # "out") \in {0, 1}
        /\ Drivers(ws) \in Nat
    BY <2>1, CountTypes DEF WsType, Bit
  <2>3. Calls \in {0, 1}
    BY <2>1 DEF Calls
  <2>4. Drivers(ws) <= 1
    BY <2>2, <2>3 DEF Accounted
  <2>5. /\ \A k \in Op : ws.fresh[k] \in Nat /\ ws.stale[k] \in Nat
        /\ Total(ws.fresh) + Total(ws.stale) + ws.fired + Bit(ws.armed) <= 1
    BY <2>2, <2>4 DEF Drivers, Others
  <2>6. ASSUME NEW f \in [Op -> Nat], NEW j \in Op, NEW k \in Op
        PROVE  /\ f[j] \in Nat /\ f[j] <= Total(f) /\ Total(f) \in Nat
               /\ j # k => f[j] + f[k] <= Total(f)
    <3>1. \A i \in Op : f[i] \in Nat
      OBVIOUS
    <3>2. QED BY <3>1, Kinds DEF Total, Op
  <2>7. /\ \A k \in Op : Load(<<k, "fresh">>) = ws.fresh[k] /\ Load(<<k, "stale">>) = ws.stale[k]
        /\ Load(<<"timer", "armed">>) = Bit(ws.armed) /\ Load(<<"timer", "fired">>) = ws.fired
    BY DEF Load, Op, Bit
  <2>8. ASSUME NEW x \in Driver
        PROVE  \/ \E k \in Op : x = <<k, "fresh">> \/ x = <<k, "stale">>
               \/ x = <<"timer", "armed">> \/ x = <<"timer", "fired">>
    BY DEF Driver, Age
  <2> DEFINE a == Bit(ws.armed)
             F == Total(ws.fresh)
             S == Total(ws.stale)
  <2>9. F \in Nat /\ S \in Nat /\ a \in Nat /\ F + S + ws.fired + a <= 1
    BY <2>1, <2>2, <2>5, CountTypes
  <2> HIDE DEF a, F, S
  <2>10. CASE \E k \in Op : d = <<k, "fresh">>
    <3>1. PICK k \in Op : d = <<k, "fresh">>
      BY <2>10
    <3>2. Load(d) = ws.fresh[k] /\ ws.fresh[k] <= F /\ ws.fresh[k] \in Nat
      BY <2>2, <2>6, <2>7, <3>1 DEF F
    <3>3. ASSUME NEW j \in Op, e = <<j, "fresh">>, j # k PROVE Load(d) + Load(e) <= F /\ Load(e) \in Nat
      BY <2>2, <2>6, <2>7, <3>1, <3>3 DEF F
    <3>4. ASSUME NEW j \in Op, e = <<j, "stale">> PROVE Load(e) <= S /\ Load(e) \in Nat
      BY <2>2, <2>6, <2>7, <3>4 DEF S
    <3>5. /\ e = <<"timer", "armed">> => Load(e) = a
          /\ e = <<"timer", "fired">> => Load(e) = ws.fired
      BY <2>7 DEF a
    <3>6. Load(d) = 1 /\ Load(e) = 1 => d = e
      BY <2>2, <2>8, <2>9, <3>1, <3>2, <3>3, <3>4, <3>5
    <3>7. QED BY <2>2, <2>9, <3>2, <3>6
  <2>11. CASE \E k \in Op : d = <<k, "stale">>
    <3>1. PICK k \in Op : d = <<k, "stale">>
      BY <2>11
    <3>2. Load(d) = ws.stale[k] /\ ws.stale[k] <= S /\ ws.stale[k] \in Nat
      BY <2>2, <2>6, <2>7, <3>1 DEF S
    <3>3. ASSUME NEW j \in Op, e = <<j, "stale">>, j # k PROVE Load(d) + Load(e) <= S /\ Load(e) \in Nat
      BY <2>2, <2>6, <2>7, <3>1, <3>3 DEF S
    <3>4. ASSUME NEW j \in Op, e = <<j, "fresh">> PROVE Load(e) <= F /\ Load(e) \in Nat
      BY <2>2, <2>6, <2>7, <3>4 DEF F
    <3>5. /\ e = <<"timer", "armed">> => Load(e) = a
          /\ e = <<"timer", "fired">> => Load(e) = ws.fired
      BY <2>7 DEF a
    <3>6. Load(d) = 1 /\ Load(e) = 1 => d = e
      BY <2>2, <2>8, <2>9, <3>1, <3>2, <3>3, <3>4, <3>5
    <3>7. QED BY <2>2, <2>9, <3>2, <3>6
  <2>12. CASE d \in {<<"timer", "armed">>, <<"timer", "fired">>}
    <3>1. /\ d = <<"timer", "armed">> => Load(d) = a
          /\ d = <<"timer", "fired">> => Load(d) = ws.fired
          /\ e = <<"timer", "armed">> => Load(e) = a
          /\ e = <<"timer", "fired">> => Load(e) = ws.fired
      BY <2>7 DEF a
    <3>2. ASSUME NEW j \in Op, e = <<j, "fresh">> \/ e = <<j, "stale">>
          PROVE  (Load(e) <= F \/ Load(e) <= S) /\ Load(e) \in Nat
      BY <2>2, <2>6, <2>7, <3>2 DEF F, S
    <3>3. Load(d) = 1 /\ Load(e) = 1 => d = e
      BY <2>2, <2>8, <2>9, <2>12, <3>1, <3>2
    <3>4. QED BY <2>2, <2>9, <2>12, <3>1, <3>3
  <2>13. QED BY <2>8, <2>10, <2>11, <2>12
<1>2. QED BY <1>1, Accounts, TypeCorrect, PTL
=============================================================================
