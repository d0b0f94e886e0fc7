-------------------------------- MODULE Rtsp --------------------------------
(***************************************************************************)
(* RTSP sessions (vscreen-rtsp): the request handlers, the tasks that send *)
(* a track's RTP packets, the two loops that reap expired sessions, and    *)
(* the server's shutdown.  A DashMap guard makes PLAY and PAUSE atomic;    *)
(* SETUP gives its guard up between its parts, the reapers collect first   *)
(* and remove later, and a sender notices that it was cancelled or aborted *)
(* when it is polled.                                                      *)
(***************************************************************************)
EXTENDS Naturals, FiniteSets, Functions

CONSTANTS
    Sids,       \* the session ids (UUIDs) that are ever created
    Tracks,     \* the tracks of a session: video, audio
    Senders,    \* sender tasks that may exist at the same time
    Clients,    \* RTSP connections, each with one request at a time
    Ports,      \* pairs of server ports
    Tcp,        \* the transport that is interleaved with the connection
    Reapers,    \* run_reaper and run_watchdog
    Run,        \* RtspServer::run, which tears down what is left when it stops
    None        \* no session, task or transport

ASSUME NoneAssumption == None \notin Sids \cup Tracks \cup Senders

VARIABLES
    session,    \* the map of sessions
    sender,     \* the sender tasks
    request,    \* the request each connection is handling
    todo,       \* what each loop has collected and has still to remove
    stopping,   \* the server's cancellation token is cancelled
    swept       \* the loops that have collected for teardown_all

rtspVars == <<session, sender, request, todo, stopping, swept>>

-----------------------------------------------------------------------------
(* Sessions                                                                *)

NoTrack == [transport |-> None, task |-> None]

NewSession == [state |-> "Ready", fresh |-> TRUE, track |-> [k \in Tracks |-> NoTrack]]

Unused == [NewSession EXCEPT !.state = "unused"]
Gone == [NewSession EXCEPT !.state = "gone"]

Live(s) == session[s].state \in {"Ready", "Playing", "Paused"}

touch(s) == session' = [session EXCEPT ![s].fresh = TRUE]

NoSender == [at |-> "none", sid |-> None, track |-> None, transport |-> None,
             cancelled |-> FALSE, aborted |-> FALSE]

\* The task of a session's track, as its JoinHandle knows it.
TaskOf(s, k) == session[s].track[k].task

TasksOf(s) == {TaskOf(s, k) : k \in Tracks} \ {None}

\* The token of session s is cancelled, and the handles of its tasks are taken
\* and aborted.
Told(s) ==
    [t \in Senders |->
        IF sender[t].sid # s THEN sender[t]
        ELSE IF sender[t].at = "ended" THEN NoSender
        ELSE [sender[t] EXCEPT !.cancelled = TRUE, !.aborted = @ \/ t \in TasksOf(s)]]

RtspInit ==
    /\ session = [s \in Sids |-> Unused]
    /\ sender = [t \in Senders |-> NoSender]
    /\ request = [c \in Clients |-> None]
    /\ todo = [r \in Reapers \cup {Run} |-> {}]
    /\ stopping = FALSE
    /\ swept = {}

-----------------------------------------------------------------------------
(* Requests                                                                *)

\* Ports that allocate_port_pair finds free: no sender has bound them now.
\* They are not kept.
Bound == {sender[t].transport : t \in {u \in Senders : sender[u].at = "sending"}} \ {Tcp}

allocate_port_pair == Ports \ Bound

\* A request is read while the server runs; SETUP allocates its ports first.
Receive(c) ==
    /\ ~stopping /\ request[c] = None
    /\ \E r \in [method : {"SETUP"}, sid : {s \in Sids : session[s].state # "unused"} \cup {None},
                 track : Tracks, transport : allocate_port_pair \cup {Tcp}]
              \cup [method : {"PLAY", "PAUSE", "TEARDOWN", "GET_PARAMETER"},
                    sid : {s \in Sids : session[s].state # "unused"}] :
           request' = [request EXCEPT ![c] = r]
    /\ UNCHANGED <<session, sender, todo, stopping, swept>>

Answer(c) == request' = [request EXCEPT ![c] = None]

Asks(c, method) == request[c] # None /\ request[c].method = method

\* SETUP without a session creates one, and then looks it up to add the track.
CreateSession(c) ==
    /\ Asks(c, "SETUP") /\ request[c].sid = None
    /\ \E s \in Sids :
          /\ session[s] = Unused
          /\ session' = [session EXCEPT ![s] = NewSession]
          /\ request' = [request EXCEPT ![c].sid = s]
    /\ UNCHANGED <<sender, todo, stopping, swept>>

\* 454 for a session that is gone, 455 for a track that is set up.
AddTrack(c) ==
    /\ Asks(c, "SETUP") /\ request[c].sid # None
    /\ LET s == request[c].sid
           k == request[c].track
       IN  session' = IF Live(s) /\ session[s].track[k] = NoTrack
                      THEN [session EXCEPT ![s].fresh = TRUE,
                                           ![s].track[k].transport = request[c].transport]
                      ELSE session
    /\ Answer(c)
    /\ UNCHANGED <<sender, todo, stopping, swept>>

\* PLAY always succeeds.  A sender is spawned for every track that has none, if
\* the instance has a supervisor to subscribe to.
Play(c) ==
    /\ Asks(c, "PLAY")
    /\ LET s == request[c].sid
       IN  IF ~Live(s) THEN UNCHANGED <<session, sender>>
           ELSE \E subscribed \in SUBSET Tracks :
                LET new == {k \in subscribed : session[s].track[k].transport # None
                                               /\ TaskOf(s, k) = None}
                IN  \E spawn \in Injection(new, {t \in Senders : sender[t] = NoSender}) :
                    /\ session' = [session EXCEPT ![s] = [
                           state |-> "Playing",
                           fresh |-> @.fresh \/ @.state # "Playing",
                           track |-> [k \in Tracks |->
                               IF k \in new THEN [@.track[k] EXCEPT !.task = spawn[k]]
                                            ELSE @.track[k]]]]
                    /\ sender' = [t \in Senders |->
                           IF \E k \in new : spawn[k] = t
                           THEN LET k == CHOOSE k \in new : spawn[k] = t
                                IN  [at |-> "start", sid |-> s, track |-> k,
                                     transport |-> session[s].track[k].transport,
                                     cancelled |-> stopping, aborted |-> FALSE]
                           ELSE sender[t]]
    /\ Answer(c)
    /\ UNCHANGED <<todo, stopping, swept>>

Forgets_Pause(c) ==
    /\ Asks(c, "PAUSE")
    /\ LET s == request[c].sid
       IN  IF session[s].state \notin {"Playing", "Paused"} THEN UNCHANGED <<session, sender>>
           ELSE /\ session' = [session EXCEPT ![s] = [
                       state |-> "Paused",
                       fresh |-> @.fresh \/ @.state = "Playing",
                       track |-> [k \in Tracks |-> [@.track[k] EXCEPT !.task = None]]]]
                /\ UNCHANGED sender
    /\ Answer(c)
    /\ UNCHANGED <<todo, stopping, swept>>

\* 455 before the first PLAY.  The session gets a new token for a later PLAY.
Pause(c) ==
    /\ Asks(c, "PAUSE")
    /\ LET s == request[c].sid
       IN  IF session[s].state \notin {"Playing", "Paused"} THEN UNCHANGED <<session, sender>>
           ELSE /\ session' = [session EXCEPT ![s] = [
                       state |-> "Paused",
                       fresh |-> @.fresh \/ @.state = "Playing",
                       track |-> [k \in Tracks |-> [@.track[k] EXCEPT !.task = None]]]]
                /\ sender' = Told(s)
    /\ Answer(c)
    /\ UNCHANGED <<todo, stopping, swept>>

OnlyCancels_remove(s) ==
    IF Live(s)
    THEN /\ session' = [session EXCEPT ![s] = Gone]
         /\ sender' = [t \in Senders |-> [sender[t] EXCEPT !.cancelled = @ \/ sender[t].sid = s]]
    ELSE UNCHANGED <<session, sender>>

\* Out of the map first; then nobody else can reach it to undo the teardown.
remove(s) ==
    IF Live(s)
    THEN /\ session' = [session EXCEPT ![s] = Gone]
         /\ sender' = Told(s)
    ELSE UNCHANGED <<session, sender>>

Teardown(c) ==
    /\ Asks(c, "TEARDOWN")
    /\ remove(request[c].sid)
    /\ Answer(c)
    /\ UNCHANGED <<todo, stopping, swept>>

\* The HTTP handler audio_stream_teardown.
audio_stream_teardown(s) ==
    /\ Live(s)
    /\ remove(s)
    /\ UNCHANGED <<request, todo, stopping, swept>>

GetParameter(c) ==
    /\ Asks(c, "GET_PARAMETER")
    /\ IF Live(request[c].sid) THEN touch(request[c].sid) ELSE UNCHANGED session
    /\ Answer(c)
    /\ UNCHANGED <<sender, todo, stopping, swept>>

\* Interleaved data from the client keeps its session alive.
InterleavedData(s) ==
    /\ ~stopping /\ Live(s)
    /\ touch(s)
    /\ UNCHANGED <<sender, request, todo, stopping, swept>>

-----------------------------------------------------------------------------
(* Sender tasks                                                            *)

Runs(t) == sender[t].at \in {"start", "sending", "blocked"}

At(t, at) == sender' = [sender EXCEPT ![t].at = at]

Detached_End(t) == sender' = [sender EXCEPT ![t] = NoSender]

\* A task that has ended is there for as long as its handle is in its track.
End(t) ==
    LET s == sender[t].sid
        k == sender[t].track
    IN  sender' = [sender EXCEPT ![t] =
            IF TaskOf(s, k) = t THEN [NoSender EXCEPT !.at = "ended", !.sid = s, !.track = k]
                                ELSE NoSender]

\* RtpUnicastStream and RtpVideoStream bind the ports of SETUP.
Starts(t) ==
    /\ sender[t].at = "start" /\ ~sender[t].aborted
    /\ IF sender[t].transport \in Bound THEN End(t) ELSE At(t, "sending")
    /\ UNCHANGED <<session, request, todo, stopping, swept>>

\* The transcoder cannot be created, a packet not sent, or the broadcast is
\* closed: the task ends and its handle stays in its track.
Fails(t) ==
    /\ Runs(t)
    /\ End(t)
    /\ UNCHANGED <<session, request, todo, stopping, swept>>

\* A TCP client that does not read, and one that does again: meanwhile the
\* sender does not look at its token.
Blocks(t) ==
    /\ sender[t].at = "sending" /\ sender[t].transport = Tcp
    /\ At(t, "blocked")
    /\ UNCHANGED <<session, request, todo, stopping, swept>>

Unblocks(t) ==
    /\ sender[t].at = "blocked"
    /\ At(t, "sending")
    /\ UNCHANGED <<session, request, todo, stopping, swept>>

\* Every five seconds the sender reports, and touches its session.
Tick(t) ==
    /\ sender[t].at = "sending"
    /\ Live(sender[t].sid)
    /\ touch(sender[t].sid)
    /\ UNCHANGED <<sender, request, todo, stopping, swept>>

Ends(t) ==
    /\ \/ Runs(t) /\ sender[t].aborted
       \/ sender[t].at = "sending" /\ sender[t].cancelled
    /\ End(t)
    /\ UNCHANGED <<session, request, todo, stopping, swept>>

-----------------------------------------------------------------------------
(* Expiry and shutdown                                                     *)

\* last_activity is longer ago than the timeout.
Expires(s) ==
    /\ Live(s)
    /\ session' = [session EXCEPT ![s].fresh = FALSE]
    /\ UNCHANGED <<sender, request, todo, stopping, swept>>

Ready_reap_expired(r) ==
    /\ ~stopping /\ todo[r] = {}
    /\ todo' = [todo EXCEPT ![r] = {s \in Sids : session[s].state = "Ready" /\ ~session[s].fresh}]
    /\ UNCHANGED <<session, sender, request, stopping, swept>>

reap_expired(r) ==
    /\ ~stopping /\ todo[r] = {}
    /\ todo' = [todo EXCEPT ![r] = {s \in Sids : Live(s) /\ ~session[s].fresh}]
    /\ UNCHANGED <<session, sender, request, stopping, swept>>

\* Whatever was collected is removed, touched or not in between.
Reap(r) ==
    /\ \E s \in todo[r] :
          /\ remove(s)
          /\ todo' = [todo EXCEPT ![r] = @ \ {s}]
    /\ UNCHANGED <<request, stopping, swept>>

Stop ==
    /\ ~stopping
    /\ stopping' = TRUE
    /\ sender' = [t \in Senders |-> [sender[t] EXCEPT !.cancelled = Runs(t)]]
    /\ UNCHANGED <<session, request, todo, swept>>

\* By run and by one of the reapers, when they notice.
teardown_all(r) ==
    /\ stopping /\ todo[r] = {} /\ r \notin swept
    /\ todo' = [todo EXCEPT ![r] = {s \in Sids : Live(s)}]
    /\ swept' = swept \cup {r}
    /\ UNCHANGED <<session, sender, request, stopping>>

-----------------------------------------------------------------------------
Handle(c) ==
    \/ CreateSession(c) \/ AddTrack(c) \/ Play(c) \/ Pause(c) \/ Teardown(c) \/ GetParameter(c)

Sender(t) == Starts(t) \/ Ends(t)

Loop(r) == (r \in Reapers /\ reap_expired(r)) \/ Reap(r) \/ teardown_all(r)

RtspNext ==
    \/ \E c \in Clients : Receive(c) \/ Handle(c)
    \/ \E s \in Sids : InterleavedData(s) \/ audio_stream_teardown(s) \/ Expires(s)
    \/ \E t \in Senders : Sender(t) \/ Fails(t) \/ Blocks(t) \/ Unblocks(t) \/ Tick(t)
    \/ \E r \in Reapers \cup {Run} : Loop(r)
    \/ Stop

\* tokio polls every task that can make progress, and timers fire.
RtspFairness ==
    /\ \A c \in Clients : WF_rtspVars(Handle(c))
    /\ \A t \in Senders : WF_rtspVars(Sender(t))
    /\ \A r \in Reapers \cup {Run} : WF_rtspVars(Loop(r))

RtspSpec == RtspInit /\ [][RtspNext]_rtspVars /\ RtspFairness

-----------------------------------------------------------------------------
(* Properties                                                              *)

\* Every variable keeps its type; a task belongs to one track of one session.
RtspTypeOK ==
    /\ session \in [Sids -> [state : {"unused", "Ready", "Playing", "Paused", "gone"},
                             fresh : BOOLEAN,
                             track : [Tracks -> [transport : Ports \cup {Tcp, None},
                                                 task : Senders \cup {None}]]]]
    /\ sender \in [Senders -> [at : {"none", "start", "sending", "blocked", "ended"},
                               sid : Sids \cup {None}, track : Tracks \cup {None},
                               transport : Ports \cup {Tcp, None},
                               cancelled : BOOLEAN, aborted : BOOLEAN]]
    /\ \A s \in Sids, k \in Tracks :
          TaskOf(s, k) # None => sender[TaskOf(s, k)].sid = s /\ sender[TaskOf(s, k)].track = k
    /\ todo \in [Reapers \cup {Run} -> SUBSET Sids]
    /\ stopping \in BOOLEAN
    /\ swept \subseteq Reapers \cup {Run}

\* A sender that nobody told to end is the one its track knows, of a session
\* that plays: PAUSE, TEARDOWN, expiry and shutdown leave no sender behind that
\* goes on, and PLAY starts no second one (handle_play, handle_pause,
\* RtspSession::teardown).
SendersBelong ==
    \A t \in Senders :
        Runs(t) /\ ~sender[t].aborted /\ ~sender[t].cancelled =>
            /\ session[sender[t].sid].state = "Playing"
            /\ TaskOf(sender[t].sid, sender[t].track) = t

\* A sender whose session was paused or removed ends, though its client may
\* have stopped reading: the token alone would not reach it.
SendersEnd ==
    \A t \in Senders :
        Runs(t) /\ TaskOf(sender[t].sid, sender[t].track) # t ~> ~Runs(t)

\* An expired session is removed if nobody touches it, while the server runs.
ExpiredSessionsEnd ==
    \A s \in Sids : Live(s) /\ ~session[s].fresh ~> ~Live(s) \/ session[s].fresh \/ stopping
=============================================================================
