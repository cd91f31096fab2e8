---------------------------- MODULE PendingStream ----------------------------
(***************************************************************************)
(* The public side of the block builder: POST /public/tx, GET               *)
(* /public/pending and WS /ws/pending (app.py, ws.py) over the mempool.     *)
(*                                                                          *)
(* Every handler is a coroutine of one event loop; it runs without          *)
(* interruption from one await that suspends to the next.  The awaits are   *)
(* accept(), send_json() to one subscriber and receive_text(), and the      *)
(* actions below are the stretches between them.  A websocket (Client) is   *)
(* one connection; a client that comes back has a new one.                  *)
(***************************************************************************)
EXTENDS Mempool

CONSTANTS
    Client,                 \* websocket connections to /ws/pending
    Outcome                 \* the statuses that bundles give to records

ASSUME OutcomeAssumption == Outcome \subseteq Terminal

VARIABLES
    subscribers,            \* PendingTransactionBroadcaster._subscribers
    handler,                \* coroutine of pending_stream, per connection
    conn,                   \* the connection as the transport sees it
    phase,                  \* coroutine of submit_public_tx, per submission
    todo,                   \* rest of list(self._subscribers) in broadcast()
    at,                     \* the subscriber whose send_json is awaited, as a set
    failed,                 \* broadcast()'s local list disconnected
    got,                    \* got[c][r]: times r's record was written to c
    snap,                   \* the last GET /public/pending answered to c's owner
    covered                 \* clients that were subscribed when snap was taken

taskVars   == <<phase, todo, at, failed>>
clientVars == <<subscribers, handler, conn>>
viewVars   == <<got, snap, covered>>
vars       == <<mempoolVars, taskVars, clientVars, viewVars>>

Live   == {c \in Client : conn[c] \in {"open", "stalled"}}
Closed == {c \in Client : conn[c] = "closed"}

TypeOK ==
    /\ MempoolTypeOK
    /\ subscribers \subseteq Client
    /\ handler \in [Client -> {"none", "accepting", "reading", "gone"}]
    /\ conn \in [Client -> {"none", "open", "stalled", "closed"}]
    /\ phase \in [Request -> {"new", "sending", "done"}]
    /\ todo \in [Request -> SUBSET Client]
    /\ at \in [Request -> SUBSET Client]
    /\ failed \in [Request -> SUBSET Client]
    /\ got \in [Client -> [Request -> Nat]]
    /\ snap \in [Client -> [snapshotSeq : Nat, transactions : SUBSET Request]]
    /\ covered \subseteq Client

Init ==
    /\ MempoolInit
    /\ subscribers = {}
    /\ handler = [c \in Client |-> "none"]
    /\ conn = [c \in Client |-> "none"]
    /\ phase = [r \in Request |-> "new"]
    /\ todo = [r \in Request |-> {}]
    /\ at = [r \in Request |-> {}]
    /\ failed = [r \in Request |-> {}]
    /\ got = [c \in Client |-> [r \in Request |-> 0]]
    /\ snap = [c \in Client |-> [snapshotSeq |-> 0, transactions |-> {}]]
    /\ covered = {}

-----------------------------------------------------------------------------
(* POST /public/tx.  The record is added and the subscribers are listed with *)
(* no await in between; with nobody subscribed the handler never suspends.   *)

Submit(r) ==
    /\ phase[r] = "new"
    /\ AddTransaction(r)
    /\ todo' = [todo EXCEPT ![r] = subscribers]
    /\ phase' = [phase EXCEPT ![r] = IF subscribers = {} THEN "done" ELSE "sending"]
    /\ UNCHANGED <<at, failed, clientVars, viewVars>>

\* Faulty variant: the subscriber stays on the list after its send.
StartSendKeepsTodo(r, c) ==
    /\ phase[r] = "sending" /\ at[r] = {} /\ c \in todo[r]
    /\ at' = [at EXCEPT ![r] = {c}]
    /\ got' = IF c \in Live THEN [got EXCEPT ![c][r] = @ + 1] ELSE got
    /\ UNCHANGED <<mempoolVars, phase, todo, failed, clientVars, snap, covered>>

\* Faulty variant: a full transport drops the frame instead of buffering it.
StartSendLossy(r, c) ==
    /\ phase[r] = "sending" /\ at[r] = {} /\ c \in todo[r]
    /\ todo' = [todo EXCEPT ![r] = @ \ {c}]
    /\ at' = [at EXCEPT ![r] = {c}]
    /\ got' = IF conn[c] = "open" THEN [got EXCEPT ![c][r] = @ + 1] ELSE got
    /\ UNCHANGED <<mempoolVars, phase, failed, clientVars, snap, covered>>

\* The call of send_json: on a live connection the frame is written, then the
\* coroutine waits for the transport to drain.
StartSend(r, c) ==
    /\ phase[r] = "sending" /\ at[r] = {} /\ c \in todo[r]
    /\ todo' = [todo EXCEPT ![r] = @ \ {c}]
    /\ at' = [at EXCEPT ![r] = {c}]
    /\ got' = IF c \in Live THEN [got EXCEPT ![c][r] = @ + 1] ELSE got
    /\ UNCHANGED <<mempoolVars, phase, failed, clientVars, snap, covered>>

\* Faulty variant: every send that had to wait counts as failed.
EndSendTimesOut(r) ==
    \E c \in at[r] :
        /\ at' = [at EXCEPT ![r] = {}]
        /\ failed' = IF conn[c] # "open" THEN [failed EXCEPT ![r] = @ \cup {c}] ELSE failed
        /\ UNCHANGED <<mempoolVars, phase, todo, clientVars, viewVars>>

\* Faulty variant: the exception of a failed send is swallowed.
EndSendSwallows(r) ==
    \E c \in at[r] :
        /\ conn[c] # "stalled"
        /\ at' = [at EXCEPT ![r] = {}]
        /\ UNCHANGED <<mempoolVars, phase, todo, failed, clientVars, viewVars>>

\* send_json returns, or raises because the connection is closed.
EndSend(r) ==
    \E c \in at[r] :
        /\ conn[c] # "stalled"
        /\ at' = [at EXCEPT ![r] = {}]
        /\ failed' = IF c \in Closed THEN [failed EXCEPT ![r] = @ \cup {c}] ELSE failed
        /\ UNCHANGED <<mempoolVars, phase, todo, clientVars, viewVars>>

\* Faulty variant: a failed send leaves broadcast() with the exception.
FinishBroadcastRaises(r) ==
    /\ phase[r] = "sending" /\ at[r] = {} /\ todo[r] = {} /\ failed[r] = {}
    /\ phase' = [phase EXCEPT ![r] = "done"]
    /\ UNCHANGED <<mempoolVars, todo, at, failed, clientVars, viewVars>>

\* The end of broadcast(): the failed subscribers are dropped, the request is
\* answered with the record as it is by now.
FinishBroadcast(r) ==
    /\ phase[r] = "sending" /\ at[r] = {} /\ todo[r] = {}
    /\ subscribers' = subscribers \ failed[r]
    /\ phase' = [phase EXCEPT ![r] = "done"]
    /\ UNCHANGED <<mempoolVars, todo, at, failed, handler, conn, viewVars>>

-----------------------------------------------------------------------------
(* WS /ws/pending.  accept() is awaited before the websocket is added, so a *)
(* client may see the connection open and not be subscribed yet.            *)

Accept(c) ==
    /\ handler[c] = "none"
    /\ handler' = [handler EXCEPT ![c] = "accepting"]
    /\ conn' = [conn EXCEPT ![c] = "open"]
    /\ UNCHANGED <<mempoolVars, taskVars, subscribers, viewVars>>

Register(c) ==
    /\ handler[c] = "accepting"
    /\ subscribers' = subscribers \cup {c}
    /\ handler' = [handler EXCEPT ![c] = "reading"]
    /\ UNCHANGED <<mempoolVars, taskVars, conn, viewVars>>

\* receive_text() raises WebSocketDisconnect.
HandlerDisconnect(c) ==
    /\ handler[c] = "reading" /\ c \in Closed
    /\ handler' = [handler EXCEPT ![c] = "gone"]
    /\ subscribers' = subscribers \ {c}
    /\ UNCHANGED <<mempoolVars, taskVars, conn, viewVars>>

\* receive_text() raises anything else (a binary frame has no text): no except
\* clause takes it, so the server closes the connection and nobody discards it.
HandlerCrash(c) ==
    /\ handler[c] = "reading" /\ c \in Live
    /\ handler' = [handler EXCEPT ![c] = "gone"]
    /\ conn' = [conn EXCEPT ![c] = "closed"]
    /\ UNCHANGED <<mempoolVars, taskVars, subscribers, viewVars>>

-----------------------------------------------------------------------------
(* The environment: the transport of a connection, the clients' snapshots,  *)
(* the bundles that mine records (module BundleBuilder has the detail).     *)

Stall(c) ==                 \* the client stops reading, writes do not drain
    /\ conn[c] = "open"
    /\ conn' = [conn EXCEPT ![c] = "stalled"]
    /\ UNCHANGED <<mempoolVars, taskVars, subscribers, handler, viewVars>>

Drain(c) ==                 \* it reads again
    /\ conn[c] = "stalled"
    /\ conn' = [conn EXCEPT ![c] = "open"]
    /\ UNCHANGED <<mempoolVars, taskVars, subscribers, handler, viewVars>>

Close(c) ==                 \* it leaves, or the server's ping times out
    /\ c \in Live
    /\ conn' = [conn EXCEPT ![c] = "closed"]
    /\ UNCHANGED <<mempoolVars, taskVars, subscribers, handler, viewVars>>

\* GET /public/pending by the owner of c, at any moment it finds c open.
TakeSnapshot(c) ==
    /\ c \in Live
    /\ snap' = [snap EXCEPT ![c] = PendingSnapshot]
    /\ covered' = IF c \in subscribers THEN covered \cup {c} ELSE covered \ {c}
    /\ UNCHANGED <<mempoolVars, taskVars, clientVars, got>>

\* POST /private/bundle with a set of pending records.
Mine(result) ==
    /\ DOMAIN result # {} /\ DOMAIN result \subseteq Pending
    /\ MarkMined(result)
    /\ UNCHANGED <<taskVars, clientVars, viewVars>>

Next ==
    \/ \E r \in Request : Submit(r) \/ EndSend(r) \/ FinishBroadcast(r)
    \/ \E r \in Request, c \in Client : StartSend(r, c)
    \/ \E c \in Client :
          \/ Accept(c) \/ Register(c) \/ HandlerDisconnect(c) \/ HandlerCrash(c)
          \/ Stall(c) \/ Drain(c) \/ Close(c) \/ TakeSnapshot(c)
    \/ \E R \in SUBSET Request : \E result \in [R -> Outcome] : Mine(result)

Spec == Init /\ [][Next]_vars

(***************************************************************************)
(* The event loop runs every ready coroutine.  A send that is ready stays   *)
(* ready even if the transport fills up again before it runs, hence the     *)
(* strong fairness of EndSend.  A stall ends: the client reads, or the      *)
(* server's websocket ping times out and the connection is closed.  A       *)
(* connection that is open may stay open for ever.                          *)
(***************************************************************************)
Fairness ==
    /\ \A r \in Request : /\ WF_vars(\E c \in Client : StartSend(r, c))
                          /\ SF_vars(EndSend(r))
                          /\ WF_vars(FinishBroadcast(r))
    /\ \A c \in Client : /\ WF_vars(Register(c))
                         /\ WF_vars(HandlerDisconnect(c))
                         /\ WF_vars(conn[c] = "stalled" /\ (Drain(c) \/ Close(c)))

FairSpec == Spec /\ Fairness
-----------------------------------------------------------------------------
InFlight(r, c) == c \in todo[r]

(***************************************************************************)
(* What a client needs to follow the mempool: subscribe, then take the      *)
(* snapshot.  As long as its connection lives, every record that is pending *)
(* now is in the snapshot if its number is within snapshotSeq, and was      *)
(* written to the client or is about to be if its number is beyond it.      *)
(* No lock spans addTransaction and the copy of the subscribers; only the   *)
(* absence of an await between them closes the gap.                         *)
(***************************************************************************)
SnapshotPlusStreamComplete ==
    \A c \in covered \cap Live, r \in Pending :
        IF seqNum[r] <= snap[c].snapshotSeq
        THEN r \in snap[c].transactions
        ELSE got[c][r] > 0 \/ InFlight(r, c)

(***************************************************************************)
(* A client is never sent a record twice, however broadcasts, departures    *)
(* and registrations interleave.                                            *)
(***************************************************************************)
StreamAtMostOnce ==
    \A c \in Client, r \in Request :
        /\ got[c][r] <= 1
        /\ InFlight(r, c) => got[c][r] = 0

(***************************************************************************)
(* A connection that works is in the set exactly while its handler is past  *)
(* connect(): dropping the failed subscribers at the end of a broadcast     *)
(* that started long ago never removes it, and a handler that left never    *)
(* leaves it behind.                                                        *)
(***************************************************************************)
LiveRegistryExact ==
    \A c \in Live : c \in subscribers <=> handler[c] = "reading"

(***************************************************************************)
(* Every submission is answered, although the broadcast waits for each      *)
(* subscriber in turn and a subscriber may stall.                           *)
(***************************************************************************)
SubmissionAnswered ==
    \A r \in Request : phase[r] = "sending" ~> phase[r] = "done"

(***************************************************************************)
(* A subscriber for which a record is in flight gets it or loses its        *)
(* connection.                                                              *)
(***************************************************************************)
RecordDelivered ==
    \A c \in Client, r \in Request : InFlight(r, c) ~> (got[c][r] > 0 \/ c \in Closed)

(***************************************************************************)
(* A connection whose handler crashed without discarding it is dropped by   *)
(* the next broadcast that starts after the crash.                          *)
(***************************************************************************)
DeadSubscriberDropped ==
    \A c \in Client, r \in Request :
        (c \in Closed /\ InFlight(r, c)) ~> c \notin subscribers
=============================================================================
