------------------------------ MODULE Following ------------------------------
(***************************************************************************)
(* Knight following the block builder: Runtime::run and run_core_loop       *)
(* (runtime.cpp) over the websocket source, the pending queue and the       *)
(* snapshot client, against the public side of the builder (PendingStream). *)
(*                                                                          *)
(* Of the source only its connection is kept: none, being opened, open.  A  *)
(* connection is a Client of PendingStream, and Knight has a new one each   *)
(* time it reconnects; there are as many as attempts.  Frames travel in     *)
(* order on their connection and may be lost with it.  Knight opens the     *)
(* stream, waits for it, asks for the snapshot once, and from then on logs  *)
(* what the queue gives it.                                                 *)
(***************************************************************************)
EXTENDS PendingStream, SequencesExt

CONSTANT Capacity           \* of Knight's pending queue

ASSUME FollowingAssumption == Capacity \in Nat \ {0}

VARIABLES
    main,                   \* where Runtime::run is
    source,                 \* the connection of the websocket source
    link,                   \* which Client it is, as a set
    wire,                   \* frames written to a connection and not read yet
    queue,                  \* m_pending_queue
    snapshot,               \* what request_snapshot returned, as a set
    log,                    \* records logged by the core loop
    before,                 \* history: before[r] were answered when r was submitted
    cause                   \* history: why Knight may not have heard of a record

builderVars == <<mempoolVars, taskVars, clientVars, viewVars>>
knightVars  == <<main, source, link, queue, snapshot, log>>
followVars  == <<builderVars, wire, knightVars, before, cause>>

Frames(c) == ToSet(wire[c])

\* Faulty variant: the broadcast is a task in the background.
AnsweredInBackground == {r \in Request : phase[r] # "new"}

\* Submissions that returned from the await of their broadcast.
Answered == {r \in Request : phase[r] = "done"}

\* Why Knight may not hear of the records R.  What was known or submitted before
\* the snapshot needs no excuse.
Blame(R, why) ==
    cause' = [r \in Request |->
                IF r \in R /\ snapshot # {} /\ cause[r] = "none" THEN why ELSE cause[r]]

FollowingInit ==
    /\ Init
    /\ main = "waiting" /\ source = "none" /\ link = {}
    /\ wire = [c \in Client |-> <<>>]
    /\ queue = <<>> /\ snapshot = {} /\ log = <<>>
    /\ before = [r \in Request |-> {}]
    /\ cause = [r \in Request |-> "none"]
-----------------------------------------------------------------------------
(* The builder: the actions of PendingStream, with the frames they write.   *)
(* A connection that stalls is one whose EndSend comes late.                *)

Reconnecting == link \cap subscribers = {} /\ \E c \in Client : handler[c] # "none"

Submission(r) ==
    /\ Submit(r)
    /\ before' = [before EXCEPT ![r] = Answered]
    /\ Blame(IF Reconnecting THEN {r} ELSE {}, "unheard")
    /\ UNCHANGED <<wire, knightVars>>

Write(r, c) ==
    /\ StartSend(r, c)
    /\ wire' = IF c \in Live THEN [wire EXCEPT ![c] = Append(@, r)] ELSE wire
    /\ Blame(IF c \in link \ Live THEN {r} ELSE {}, "cut")
    /\ UNCHANGED <<knightVars, before>>

BuilderMoves ==
    /\ \/ \E r \in Request : EndSend(r) \/ FinishBroadcast(r)
       \/ \E c \in Client : Register(c) \/ HandlerDisconnect(c) \/ Close(c)
       \/ \E R \in SUBSET Request : \E result \in [R -> Outcome] : Mine(result)
    /\ UNCHANGED <<wire, knightVars, before, cause>>
-----------------------------------------------------------------------------
(* Knight.  HandlerCrash does not occur: it sends no frames.                *)

\* start(), also by the reconnect timer: the builder has accepted, Knight has not
\* read its answer yet.
Connect(c) ==
    /\ source = "none" /\ Accept(c)
    /\ source' = "opening" /\ link' = {c}
    /\ UNCHANGED <<wire, main, queue, snapshot, log, before, cause>>

\* on_ws_handshake: the source is RUNNING, the feed is OPEN.
Opened ==
    /\ source = "opening"
    /\ source' = "open"
    /\ UNCHANGED <<builderVars, wire, main, link, queue, snapshot, log, before, cause>>

\* A read or the handshake fails: the source is FAILED until its timer fires.
\* Frames that were not read are gone.
Disconnected ==
    \E c \in link \cap Closed :
        /\ source' = "none" /\ link' = {}
        /\ wire' = [wire EXCEPT ![c] = <<>>]
        /\ Blame(Frames(c) \cup {r \in Request : c \in todo[r]}, "cut")
        /\ UNCHANGED <<builderVars, main, queue, snapshot, log, before>>

\* on_read and publish_message: a message that finds the queue full is dropped.
ReadFrame ==
    \E c \in link :
        /\ source = "open" /\ wire[c] # <<>>
        /\ wire' = [wire EXCEPT ![c] = Tail(@)]
        /\ IF Len(queue) < Capacity
           THEN queue' = Append(queue, Head(wire[c])) /\ UNCHANGED cause
           ELSE Blame({Head(wire[c])}, "dropped") /\ UNCHANGED queue
        /\ UNCHANGED <<builderVars, main, source, link, snapshot, log, before>>

Main(from, to) ==
    /\ main = from /\ main' = to
    /\ UNCHANGED <<builderVars, wire, source, link, before, cause>>

\* Faulty variant: the snapshot is asked for without waiting for the stream.
ReadyAtOnce == Main("waiting", "requesting") /\ UNCHANGED <<queue, snapshot, log>>

Ready ==
    /\ source = "open"
    /\ Main("waiting", "requesting")
    /\ UNCHANGED <<queue, snapshot, log>>

WaitFails ==                \* the feed failed, or ten seconds have passed
    /\ source # "open"
    /\ Main("waiting", "returned")
    /\ UNCHANGED <<queue, snapshot, log>>

SnapshotArrives ==          \* of the attempts, the one that succeeds
    /\ Main("requesting", "popping")
    /\ snapshot' = {PendingSnapshot}
    /\ UNCHANGED <<queue, log>>

SnapshotFails ==            \* all attempts failed: the core loop runs without
    /\ Main("requesting", "popping")
    /\ UNCHANGED <<queue, snapshot, log>>

PopItem ==
    /\ queue # <<>>
    /\ Main("popping", "popping")
    /\ log' = Append(log, Head(queue)) /\ queue' = Tail(queue)
    /\ UNCHANGED snapshot

\* Knight ends when its run returns; what the builder goes on doing is not followed.
FollowingNext ==
    /\ main # "returned"
    /\ \/ \E r \in Request : Submission(r)
       \/ \E r \in Request, c \in Client : Write(r, c)
       \/ BuilderMoves
       \/ \E c \in Client : Connect(c)
       \/ Opened \/ Disconnected \/ ReadFrame
       \/ Ready \/ WaitFails \/ SnapshotArrives \/ SnapshotFails \/ PopItem

FollowingSpec == FollowingInit /\ [][FollowingNext]_followVars
-----------------------------------------------------------------------------
OnItsWay(r) == \E c \in link : r \in Frames(c) \/ c \in todo[r]

InView(r) ==
    \/ \E s \in snapshot : r \in s.transactions
    \/ r \in ToSet(log) \cup ToSet(queue)
    \/ OnItsWay(r)

(***************************************************************************)
(* Once Knight has its snapshot, every record that is pending is in the     *)
(* snapshot, was logged, is queued or on its way; and if one is not, there  *)
(* is a cause that came after the snapshot: it was dropped by the full      *)
(* queue, lost with a connection, or submitted while Knight had lost its    *)
(* connection or was not yet among the subscribers of one.  There is no     *)
(* second snapshot, so such a record is missed for good; but opening the    *)
(* stream before asking for the snapshot leaves no other gap.               *)
(***************************************************************************)
MissesOnlyForCause ==
    snapshot # {} => \A r \in Pending : InView(r) \/ cause[r] # "none"

(***************************************************************************)
(* Sequence numbers may reach Knight in any order, since broadcasts overlap *)
(* at their awaits; but a record is logged at most once, over all its       *)
(* connections, and never before one whose submission was answered before   *)
(* it was submitted: broadcast, connections and queue all keep that order.  *)
(***************************************************************************)
LogFollowsAnswers ==
    \A j, k \in DOMAIN log :
        j < k => log[j] # log[k] /\ log[k] \notin before[log[j]]
=============================================================================
