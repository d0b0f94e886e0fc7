------------------------------ MODULE CdpClient ------------------------------
(***************************************************************************)
(* CdpClient (crates/vscreen-cdp/src/client.rs): commands to a browser     *)
(* over a WebSocket, correlated with their answers by id, the write loop,  *)
(* the connection loop that reads, acknowledges screencast frames and      *)
(* reconnects, and the browser they talk to.                               *)
(*                                                                         *)
(* The model starts when `connect` has returned.  Connections are numbered *)
(* as they are opened, and each has its own bounded request channel, whose *)
(* only receiver is its own write loop.  `request_tx` is the Sender in use *)
(* behind an async mutex: a caller holds it while it waits for room in the *)
(* channel ("push"), and the connection loop needs it for every message it *)
(* reads and to replace the Sender after it reconnected.                   *)
(*                                                                         *)
(* Callers reach the client through the mutex of their supervisor, so one  *)
(* call is in progress at a time; the future of a call may be dropped      *)
(* half-way, with the HTTP request that made it.  A caller that has an     *)
(* outcome touches nothing any more: it takes it in the step that brings   *)
(* it about.  Ids are unique (protocol.rs, next_message_id), so a command  *)
(* is its id.  Connection states (a watch channel that nothing reads) and  *)
(* the contents of frames are left out; so are the screencast generations, *)
(* which the connection loop both bumps and passes to the frames it reads. *)
(*                                                                         *)
(* A definition named Bug_Op is Op with a plausible bug, put before it.    *)
(***************************************************************************)
EXTENDS Naturals, Sequences

CONSTANTS
    Calls,          \* commands sent by send_command_and_wait
    Sends,          \* commands sent and forgotten (input, navigation)
    Start,          \* Page.startScreencast, by start_screencast or a reconnection
    Ack,            \* Page.screencastFrameAck
    Frame,          \* the event Page.screencastFrame
    None,           \* no request in the write loop's hands
    Capacity,       \* of a request channel (64)
    Socket,         \* requests the socket buffers while the browser reads none
    MaxAttempts,    \* retry_config.max_attempts
    MaxConnections  \* bound: connections opened over a client's life

Callers  == Calls \cup Sends \cup {Start}
Requests == Callers \cup {Ack}
Conns    == 1..MaxConnections

ASSUME SizesAssumption ==
    /\ Capacity \in Nat \ {0} /\ Socket \in Nat \ {0}
    /\ MaxAttempts \in Nat /\ MaxConnections \in Nat \ {0}
ASSUME TokensAssumption ==
    /\ Calls \cap Sends = {} /\ Start \notin Calls \cup Sends
    /\ Ack \notin Callers /\ Frame \notin Calls /\ None \notin Requests

VARIABLES
    pc,         \* where each call stands, or how it ended
    pending,    \* pending_requests: the ids with a oneshot sender
    tx,         \* the connection whose channel request_tx feeds
    chan,       \* the request channel of each connection
    writer,     \* the write loop of each connection
    hand,       \* the request each write loop is writing
    reader,     \* where the connection loop stands
    conn,       \* the connection it reads from
    attempt,    \* its reconnection attempts so far
    wanted,     \* screencast_params is Some
    cancelled,  \* the cancellation token
    open,       \* the socket of each connection is up
    asked,      \* requests in the socket, not yet read by the browser
    answers,    \* messages of the browser, not yet read
    cast,       \* the browser's screencast on each connection
    executed    \* how many times the browser executed each call

clientVars  == <<pc, pending, tx, chan, wanted>>
writerVars  == <<writer, hand>>
readerVars  == <<reader, conn, attempt>>
browserVars == <<open, asked, answers, cast, executed>>
vars == <<clientVars, writerVars, readerVars, cancelled, browserVars>>

InProgress == {"lock", "push", "wait"}
Ended      == {"answered", "sent", "failed", "timedOut", "dropped"}
\* The states of the connection loop in which it polls the token.
Polling    == {"reading", "backoff"}

Init ==
    /\ pc = [r \in Callers |-> "idle"]
    /\ pending = {}
    /\ tx = 1
    /\ chan = [c \in Conns |-> <<>>]
    /\ writer = [c \in Conns |-> IF c = 1 THEN "running" ELSE "none"]
    /\ hand = [c \in Conns |-> None]
    /\ reader = "reading" /\ conn = 1 /\ attempt = 0
    /\ wanted = FALSE
    /\ cancelled = FALSE
    /\ open = [c \in Conns |-> c = 1]
    /\ asked = [c \in Conns |-> <<>>]
    /\ answers = [c \in Conns |-> <<>>]
    /\ cast = [c \in Conns |-> "off"]
    /\ executed = [r \in Calls |-> 0]

Contains(s, x) == \E i \in DOMAIN s : s[i] = x

\* The mutex of request_tx is free, the channel has room, its receiver exists.
TxFree     == \A r \in Callers : pc[r] # "push"
HasRoom(c) == Len(chan[c]) < Capacity
Receives(c) == writer[c] = "running"

-----------------------------------------------------------------------------
(* The callers                                                             *)

\* A call takes the supervisor's mutex.  send_command_and_wait registers its
\* id, and start_screencast its parameters, before anything is sent; the
\* connection loop holds the lock of the parameters while it restarts the
\* screencast.
Begin(r) ==
    /\ pc[r] = "idle"
    /\ \A o \in Callers : pc[o] \notin InProgress
    /\ r = Start => reader \notin {"clone", "restart"}
    /\ pc' = [pc EXCEPT ![r] = "lock"]
    /\ pending' = IF r \in Calls THEN pending \cup {r} ELSE pending
    /\ wanted' = (wanted \/ r = Start)
    /\ UNCHANGED <<tx, chan, writerVars, readerVars, cancelled, browserVars>>

LockTx(r) ==
    /\ pc[r] = "lock" /\ TxFree
    /\ pc' = [pc EXCEPT ![r] = "push"]
    /\ UNCHANGED <<pending, tx, chan, wanted, writerVars, readerVars, cancelled,
                   browserVars>>

\* A call that lost its oneshot sender meanwhile fails as soon as it waits.
Push(r) ==
    /\ pc[r] = "push" /\ Receives(tx) /\ HasRoom(tx)
    /\ chan' = [chan EXCEPT ![tx] = Append(@, r)]
    /\ pc' = [pc EXCEPT ![r] = IF r \notin Calls THEN "sent"
                               ELSE IF r \in pending THEN "wait" ELSE "failed"]
    /\ UNCHANGED <<pending, tx, wanted, writerVars, readerVars, cancelled,
                   browserVars>>

KeepsId_SendFails(r) ==
    /\ pc[r] = "push" /\ ~Receives(tx)
    /\ pc' = [pc EXCEPT ![r] = "failed"]
    /\ UNCHANGED pending
    /\ UNCHANGED <<tx, chan, wanted, writerVars, readerVars, cancelled,
                   browserVars>>

SendFails(r) ==
    /\ pc[r] = "push" /\ ~Receives(tx)
    /\ pc' = [pc EXCEPT ![r] = "failed"]
    /\ pending' = pending \ {r}
    /\ UNCHANGED <<tx, chan, wanted, writerVars, readerVars, cancelled,
                   browserVars>>

NoTimer_Timeout(r) ==
    /\ pc[r] = "wait" /\ r \notin pending
    /\ pc' = [pc EXCEPT ![r] = "timedOut"]
    /\ pending' = pending \ {r}
    /\ UNCHANGED <<tx, chan, wanted, writerVars, readerVars, cancelled,
                   browserVars>>

Timeout(r) ==
    /\ pc[r] = "wait"
    /\ pc' = [pc EXCEPT ![r] = "timedOut"]
    /\ pending' = pending \ {r}
    /\ UNCHANGED <<tx, chan, wanted, writerVars, readerVars, cancelled,
                   browserVars>>

\* The future is dropped at an await: its id stays in pending_requests.
Drop(r) ==
    /\ pc[r] \in InProgress /\ r # Start
    /\ pc' = [pc EXCEPT ![r] = "dropped"]
    /\ UNCHANGED <<pending, tx, chan, wanted, writerVars, readerVars, cancelled,
                   browserVars>>

CallStep(r) == LockTx(r) \/ Push(r) \/ SendFails(r) \/ Timeout(r)

-----------------------------------------------------------------------------
(* The write loop of connection c                                          *)

WriterTakes(c) ==
    /\ Receives(c) /\ hand[c] = None /\ ~cancelled /\ chan[c] # <<>>
    /\ hand' = [hand EXCEPT ![c] = Head(chan[c])]
    /\ chan' = [chan EXCEPT ![c] = Tail(@)]
    /\ UNCHANGED <<pc, pending, tx, wanted, writer, readerVars, cancelled,
                   browserVars>>

\* A write to a socket that is down may still succeed, and is lost.
WriterSends(c) ==
    /\ Receives(c) /\ hand[c] # None
    /\ open[c] => Len(asked[c]) < Socket
    /\ asked' = IF open[c] THEN [asked EXCEPT ![c] = Append(@, hand[c])] ELSE asked
    /\ hand' = [hand EXCEPT ![c] = None]
    /\ UNCHANGED <<clientVars, writer, readerVars, cancelled, open, answers, cast,
                   executed>>

Deaf_WriterEnds(c) ==
    /\ Receives(c)
    /\ \/ hand[c] # None /\ ~open[c]
       \/ hand[c] = None /\ tx # c /\ chan[c] = <<>>
    /\ writer' = [writer EXCEPT ![c] = "ended"]
    /\ hand' = [hand EXCEPT ![c] = None]
    /\ chan' = [chan EXCEPT ![c] = <<>>]
    /\ UNCHANGED <<pc, pending, tx, wanted, readerVars, cancelled, browserVars>>

\* The loop ends and drops its receiver, and what is in the channel with it.
WriterEnds(c) ==
    /\ Receives(c)
    /\ \/ hand[c] # None /\ ~open[c]
       \/ hand[c] = None /\ cancelled
       \/ hand[c] = None /\ tx # c /\ chan[c] = <<>>
    /\ writer' = [writer EXCEPT ![c] = "ended"]
    /\ hand' = [hand EXCEPT ![c] = None]
    /\ chan' = [chan EXCEPT ![c] = <<>>]
    /\ UNCHANGED <<pc, pending, tx, wanted, readerVars, cancelled, browserVars>>

WriterStep(c) == WriterTakes(c) \/ WriterSends(c) \/ WriterEnds(c)

-----------------------------------------------------------------------------
(* The connection loop                                                     *)

Reads(m) ==
    /\ reader = "reading" /\ ~cancelled /\ TxFree
    /\ answers[conn] # <<>> /\ Head(answers[conn]) = m
    /\ answers' = [answers EXCEPT ![conn] = Tail(@)]

InOrder_ReadAnswer(r) ==
    /\ Reads(r)
    /\ \E q \in pending :
         /\ pending' = pending \ {q}
         /\ pc' = IF pc[q] = "wait" THEN [pc EXCEPT ![q] = "answered"] ELSE pc
    /\ UNCHANGED <<tx, chan, wanted, writerVars, readerVars, cancelled, open, asked,
                   cast, executed>>

\* handle_message: an answer nobody awaits any more is ignored.
ReadAnswer(r) ==
    /\ Reads(r)
    /\ pending' = pending \ {r}
    /\ pc' = IF r \in pending /\ pc[r] = "wait"
             THEN [pc EXCEPT ![r] = "answered"] ELSE pc
    /\ UNCHANGED <<tx, chan, wanted, writerVars, readerVars, cancelled, open, asked,
                   cast, executed>>

ReadFrame ==
    /\ Reads(Frame)
    /\ reader' = "acking"
    /\ UNCHANGED <<clientVars, writerVars, conn, attempt, cancelled, open, asked,
                   cast, executed>>

TrySend_Acknowledge ==
    /\ reader = "acking"
    /\ \/ /\ Receives(conn) /\ HasRoom(conn)
          /\ chan' = [chan EXCEPT ![conn] = Append(@, Ack)]
       \/ /\ ~(Receives(conn) /\ HasRoom(conn))
          /\ UNCHANGED chan
    /\ reader' = "reading"
    /\ UNCHANGED <<pc, pending, tx, wanted, writerVars, conn, attempt, cancelled,
                   browserVars>>

OnlyOpen_Acknowledge ==
    /\ reader = "acking"
    /\ \/ /\ Receives(conn) /\ HasRoom(conn)
          /\ chan' = [chan EXCEPT ![conn] = Append(@, Ack)]
    /\ reader' = "reading"
    /\ UNCHANGED <<pc, pending, tx, wanted, writerVars, conn, attempt, cancelled,
                   browserVars>>

\* The loop waits for room, and ignores the error of a channel that is closed.
Acknowledge ==
    /\ reader = "acking"
    /\ \/ /\ Receives(conn) /\ HasRoom(conn)
          /\ chan' = [chan EXCEPT ![conn] = Append(@, Ack)]
       \/ /\ ~Receives(conn)
          /\ UNCHANGED chan
    /\ reader' = "reading"
    /\ UNCHANGED <<pc, pending, tx, wanted, writerVars, conn, attempt, cancelled,
                   browserVars>>

\* pending_requests.clear(): every call that waits fails.
Disconnected ==
    /\ reader = "reading" /\ ~cancelled /\ ~open[conn]
    /\ pending' = {}
    /\ pc' = [r \in Callers |-> IF r \in pending /\ pc[r] = "wait"
                                THEN "failed" ELSE pc[r]]
    /\ reader' = "backoff" /\ attempt' = 0
    /\ UNCHANGED <<tx, chan, wanted, writerVars, conn, cancelled, browserVars>>

OneMore_BackedOff ==
    /\ reader = "backoff" /\ attempt <= MaxAttempts
    /\ reader' = "connecting"
    /\ UNCHANGED <<clientVars, writerVars, conn, attempt, cancelled, browserVars>>

\* The back-off delay elapses; try_connect does not poll the token.
BackedOff ==
    /\ reader = "backoff" /\ attempt < MaxAttempts
    /\ reader' = "connecting"
    /\ UNCHANGED <<clientVars, writerVars, conn, attempt, cancelled, browserVars>>

ConnectFails ==
    /\ reader = "connecting"
    /\ reader' = "backoff" /\ attempt' = attempt + 1
    /\ UNCHANGED <<clientVars, writerVars, conn, cancelled, browserVars>>

ConnectSucceeds ==
    /\ reader = "connecting" /\ conn < MaxConnections
    /\ reader' = "swap" /\ conn' = conn + 1
    /\ open' = [open EXCEPT ![conn + 1] = TRUE]
    /\ UNCHANGED <<clientVars, writerVars, attempt, cancelled, asked, answers, cast,
                   executed>>

\* A new channel, and a new write loop on it.
Swap ==
    /\ reader = "swap" /\ TxFree
    /\ tx' = conn
    /\ writer' = [writer EXCEPT ![conn] = "running"]
    /\ reader' = "params"
    /\ UNCHANGED <<pc, pending, chan, wanted, hand, conn, attempt, cancelled,
                   browserVars>>

OnlySeen_ReadParams ==
    /\ reader = "params"
    /\ reader' = IF wanted /\ cast[conn - 1] # "off" THEN "clone" ELSE "reading"
    /\ UNCHANGED <<clientVars, writerVars, conn, attempt, cancelled, browserVars>>

ReadParams ==
    /\ reader = "params"
    /\ reader' = IF wanted THEN "clone" ELSE "reading"
    /\ UNCHANGED <<clientVars, writerVars, conn, attempt, cancelled, browserVars>>

CloneTx ==
    /\ reader = "clone" /\ TxFree
    /\ reader' = "restart"
    /\ UNCHANGED <<clientVars, writerVars, conn, attempt, cancelled, browserVars>>

RestartScreencast ==
    /\ reader = "restart"
    /\ \/ /\ Receives(conn) /\ HasRoom(conn)
          /\ chan' = [chan EXCEPT ![conn] = Append(@, Start)]
       \/ /\ ~Receives(conn)
          /\ UNCHANGED chan
    /\ reader' = "reading"
    /\ UNCHANGED <<pc, pending, tx, wanted, writerVars, conn, attempt, cancelled,
                   browserVars>>

\* The attempts are exhausted, or the token was cancelled.
ReaderEnds ==
    /\ reader \in Polling
    /\ cancelled \/ (reader = "backoff" /\ attempt = MaxAttempts)
    /\ reader' = "stopped"
    /\ UNCHANGED <<clientVars, writerVars, conn, attempt, cancelled, browserVars>>

ReaderStep ==
    \/ \E r \in Calls : ReadAnswer(r)
    \/ ReadFrame
    \/ Acknowledge
    \/ Disconnected
    \/ BackedOff
    \/ ConnectFails
    \/ ConnectSucceeds
    \/ Swap
    \/ ReadParams
    \/ CloneTx
    \/ RestartScreencast
    \/ ReaderEnds

-----------------------------------------------------------------------------
(* The browser, and the supervisor's cancellation                          *)

\* The browser answers every request; only the answers to Calls matter.  It
\* sends a frame, and the next one when that is acknowledged.
Execute(c) ==
    /\ open[c] /\ asked[c] # <<>>
    /\ LET q == Head(asked[c]) IN
       /\ answers' = IF q \in Calls THEN [answers EXCEPT ![c] = Append(@, q)]
                                    ELSE answers
       /\ executed' = IF q \in Calls THEN [executed EXCEPT ![q] = @ + 1]
                                     ELSE executed
       /\ cast' = IF \/ q = Start /\ cast[c] = "off"
                     \/ q = Ack /\ cast[c] = "unacked"
                  THEN [cast EXCEPT ![c] = "ready"] ELSE cast
    /\ asked' = [asked EXCEPT ![c] = Tail(@)]
    /\ UNCHANGED <<clientVars, writerVars, readerVars, cancelled, open>>

SendFrame(c) ==
    /\ open[c] /\ cast[c] = "ready"
    /\ cast' = [cast EXCEPT ![c] = "unacked"]
    /\ answers' = [answers EXCEPT ![c] = Append(@, Frame)]
    /\ UNCHANGED <<clientVars, writerVars, readerVars, cancelled, open, asked,
                   executed>>

\* What the browser has sent may or may not be read any more.
CloseSocket(c) ==
    /\ open[c]
    /\ open' = [open EXCEPT ![c] = FALSE]
    /\ asked' = [asked EXCEPT ![c] = <<>>]
    /\ UNCHANGED <<clientVars, writerVars, readerVars, cancelled, answers, cast,
                   executed>>

Cancel ==
    /\ ~cancelled
    /\ cancelled' = TRUE
    /\ UNCHANGED <<clientVars, writerVars, readerVars, browserVars>>

Next ==
    \/ \E r \in Callers : Begin(r) \/ CallStep(r) \/ Drop(r)
    \/ \E c \in Conns :
          WriterStep(c) \/ Execute(c) \/ SendFrame(c) \/ CloseSocket(c)
    \/ ReaderStep
    \/ Cancel

Spec == Init /\ [][Next]_vars

\* tokio polls every task that can make progress, timers fire, and a connection
\* attempt ends; request_tx and the channels serve those that wait in turn.
ClientFairness ==
    /\ \A r \in Callers : WF_vars(CallStep(r))
    /\ \A c \in Conns : WF_vars(WriterStep(c))
    /\ WF_vars(ReaderStep)

\* A browser that reads its socket as long as it is up.
FairSpec == Spec /\ ClientFairness /\ \A c \in Conns : WF_vars(Execute(c))

\* A browser that may stop reading and leave its socket open.
HungSpec == Spec /\ ClientFairness

-----------------------------------------------------------------------------
(* Properties                                                              *)

\* Every part of the client and of the browser has its type; there is one write
\* loop at most for each connection, on the socket it was spawned for.
CdpTypeOK ==
    /\ pc \in [Callers -> {"idle"} \cup InProgress \cup Ended]
    /\ pending \subseteq Calls
    /\ tx \in Conns /\ conn \in Conns /\ attempt \in 0..MaxAttempts
    /\ chan \in [Conns -> Seq(Requests)]
    /\ writer \in [Conns -> {"none", "running", "ended"}]
    /\ hand \in [Conns -> Requests \cup {None}]
    /\ reader \in Polling \cup {"acking", "connecting", "swap", "params", "clone",
                                "restart", "stopped"}
    /\ wanted \in BOOLEAN /\ cancelled \in BOOLEAN
    /\ open \in [Conns -> BOOLEAN]
    /\ asked \in [Conns -> Seq(Requests)]
    /\ answers \in [Conns -> Seq(Calls \cup {Frame})]
    /\ cast \in [Conns -> {"off", "ready", "unacked"}]
    /\ executed \in [Calls -> Nat]

\* A call that waits has its oneshot sender registered, so that an answer or a
\* disconnection ends it, and pending_requests keeps the id of no call that
\* returned: only a call that was dropped half-way leaves its id behind
\* (send_command_and_wait, its three removals, and the clear on disconnection).
PendingMatchesCalls ==
    \A r \in Calls :
        /\ pc[r] = "wait" => r \in pending
        /\ r \in pending => pc[r] \in InProgress \cup {"dropped"}

\* Request q has been sent on connection c and not yet executed.
OnItsWay(c, q) ==
    Contains(chan[c], q) \/ hand[c] = q \/ Contains(asked[c], q)

\* The screencast goes on: a frame the browser sent, on a connection that is up
\* and still read, is on its way to the client or its acknowledgement on its way
\* back ("Always ack so Chrome sends the next frame").
FramesKeepFlowing ==
    open[conn] /\ cast[conn] = "unacked" /\ ~cancelled =>
        \/ Contains(answers[conn], Frame)
        \/ reader = "acking"
        \/ OnItsWay(conn, Ack)

\* Once start_screencast has returned, every connection that is read has its
\* screencast started, or the request on its way, however the call and a
\* reconnection interleave (start_screencast stores its parameters first; the
\* connection loop replaces the Sender before it reads them).
ScreencastNotForgotten ==
    /\ pc[Start] \in {"sent", "failed"} /\ reader \in {"reading", "acking"}
    /\ open[conn] /\ ~cancelled
    => cast[conn] # "off" \/ OnItsWay(conn, Start)

\* The calls of a client are those of RequestReply: each is executed at most
\* once, and answered only with the answer to itself (pending_requests by id).
Outcome(v) ==
    CASE v = "idle"       -> "none"
      [] v \in InProgress -> "awaited"
      [] v = "answered"   -> "answered"
      [] OTHER            -> "failed"

Abstract == INSTANCE RequestReply WITH
    result <- [r \in Calls |-> Outcome(pc[r])],
    executed <- executed

ImplementsCalls == Abstract!Spec

\* Every call ends, with the browser's answer or with a failure: connection
\* loss, time-out, a closed channel (send_command_and_wait, send_request).
CallsEnd ==
    \A r \in Callers : pc[r] \in InProgress ~> pc[r] \in Ended

\* What send_command_and_wait documents: "Returns `CdpError` on connection loss,
\* timeout, or CDP error response", so that it returns whatever the browser does.
CallsTimeOut ==
    \A r \in Calls : pc[r] \in InProgress ~> pc[r] \in Ended

\* A connection loop that waits for room in a channel, for the lock of the
\* Sender or for a connection comes back to where it polls its socket and the
\* token: it never waits for a write loop that is gone or waits for it.
ReaderReturns == reader \notin Polling ~> reader \in Polling \cup {"stopped"}

\* Cancelling the token ends the connection loop and every write loop, also
\* those of a connection that was being opened (InstanceSupervisor::stop).
LoopsStop ==
    cancelled ~> /\ reader = "stopped"
                 /\ \A c \in Conns : writer[c] # "running"
=============================================================================
