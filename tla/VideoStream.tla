----------------------------- MODULE VideoStream -----------------------------
(***************************************************************************)
(* Video from the screencast to the viewers: the video task and the encode *)
(* thread of an InstanceSupervisor (supervisor.rs), the encoders           *)
(* (vscreen-video), and the broadcast channel that each viewer reads.  A   *)
(* viewer can decode from a keyframe on, and asks for one when it comes: a *)
(* WebRTC peer (ws.rs) subscribes first, an RTSP player (handle_play) asks *)
(* first.                                                                  *)
(***************************************************************************)
EXTENDS Naturals, SequencesExt

CONSTANTS
    Peers,          \* WebRTC peers
    Players,        \* RTSP players
    EncodeQueue,    \* commands that wait for the encode thread (2 in the code)
    BroadcastSize   \* packets that a viewer may be behind (8)

ASSUME VideoAssumption == EncodeQueue \in Nat \ {0} /\ BroadcastSize \in Nat \ {0}

Viewers == Peers \cup Players

VARIABLES
    frame,      \* a frame of the screencast waits for the video task
    hint,       \* a bitrate hint waits for it
    flag,       \* keyframe_flag
    queue,      \* the commands for the encode thread
    keyframe,   \* keyframe_requested of the encoder
    viewer      \* what each viewer is doing, and the packets it has to read

videoVars == <<frame, hint, flag, queue, keyframe, viewer>>

Absent == [at |-> "absent", packets |-> <<>>]

VideoInit ==
    /\ frame = FALSE /\ hint = FALSE /\ flag = FALSE
    /\ queue = <<>>
    /\ keyframe = TRUE
    /\ viewer = [v \in Viewers |-> Absent]

-----------------------------------------------------------------------------
(* The pipeline                                                            *)

\* A newer frame takes the place of one that still waits.
ScreencastFrame ==
    /\ frame' = TRUE
    /\ UNCHANGED <<hint, flag, queue, keyframe, viewer>>

BitrateHint ==
    /\ hint' = TRUE
    /\ UNCHANGED <<frame, flag, queue, keyframe, viewer>>

ClearsAfter_VideoTask ==
    /\ frame
    /\ Len(queue) < EncodeQueue
    /\ queue' = Append(queue, [force |-> FALSE, hint |-> hint])
    /\ frame' = FALSE /\ hint' = FALSE /\ flag' = FALSE
    /\ UNCHANGED <<keyframe, viewer>>

\* The video task takes the newest frame, the flag and the latest hint, and waits
\* for room in the channel of the encode thread.
VideoTask ==
    /\ frame
    /\ Len(queue) < EncodeQueue
    /\ queue' = Append(queue, [force |-> flag, hint |-> hint])
    /\ frame' = FALSE /\ hint' = FALSE /\ flag' = FALSE
    /\ UNCHANGED <<keyframe, viewer>>

\* The viewer's state when a keyframe goes by that it cannot read.
Misses(at) == IF at \in {"asked", "waits"} THEN "missed" ELSE at

\* Every receiver gets the packet; one that is too far behind loses its oldest.
Broadcast(key) ==
    [v \in Viewers |->
        IF viewer[v].at \in {"absent", "asked"}
        THEN [viewer[v] EXCEPT !.at = IF key THEN Misses(@) ELSE @]
        ELSE LET full == Len(viewer[v].packets) >= BroadcastSize
             IN  [at |-> IF full /\ Head(viewer[v].packets) THEN Misses(viewer[v].at)
                                                            ELSE viewer[v].at,
                  packets |-> Append(IF full THEN Tail(viewer[v].packets) ELSE viewer[v].packets,
                                     key)]]

\* The encode thread applies the hint (a new encoder starts with a keyframe),
\* passes the request on, and processes the frame.  A frame that cannot be
\* decoded leaves the request in the encoder, one that cannot be encoded uses
\* it up.
EncodeThread ==
    /\ queue # <<>>
    /\ queue' = Tail(queue)
    /\ \E reconfigured \in BOOLEAN :
          LET cmd == Head(queue)
              requested == keyframe \/ cmd.force \/ reconfigured
          IN  \/ /\ keyframe' = requested     \* not decoded
                 /\ reconfigured => cmd.hint
                 /\ UNCHANGED viewer
              \/ /\ keyframe' = FALSE         \* not encoded
                 /\ viewer' = [v \in Viewers |->
                        IF requested THEN [viewer[v] EXCEPT !.at = Misses(@)] ELSE viewer[v]]
              \/ /\ keyframe' = FALSE
                 /\ \E key \in {requested, TRUE} : viewer' = Broadcast(key)
    /\ UNCHANGED <<frame, hint, flag>>

-----------------------------------------------------------------------------
(* Viewers                                                                 *)

\* A peer subscribes when it connects, and asks when its offer is answered.
PeerConnects(v) ==
    /\ v \in Peers /\ viewer[v] = Absent
    /\ viewer' = [viewer EXCEPT ![v].at = "reads"]
    /\ UNCHANGED <<frame, hint, flag, queue, keyframe>>

Answered(v) ==
    /\ v \in Peers /\ viewer[v].at # "absent"
    /\ flag' = TRUE
    /\ viewer' = [viewer EXCEPT ![v].at = "waits"]
    /\ UNCHANGED <<frame, hint, queue, keyframe>>

\* PLAY asks, and subscribes before it spawns the sender.
PlayAsks(v) ==
    /\ v \in Players /\ viewer[v] = Absent
    /\ flag' = TRUE
    /\ viewer' = [viewer EXCEPT ![v].at = "asked"]
    /\ UNCHANGED <<frame, hint, queue, keyframe>>

PlaySubscribes(v) ==
    /\ v \in Players /\ viewer[v].at \in {"asked", "missed"} /\ viewer[v].packets = <<>>
    /\ viewer' = [viewer EXCEPT ![v].at = IF @ = "asked" THEN "waits" ELSE "reads"]
    /\ UNCHANGED <<frame, hint, flag, queue, keyframe>>

Read(v) ==
    /\ viewer[v].packets # <<>>
    /\ viewer' = [viewer EXCEPT ![v].packets = Tail(@),
                                ![v].at = IF Head(viewer[v].packets) THEN "reads" ELSE @]
    /\ UNCHANGED <<frame, hint, flag, queue, keyframe>>

Leaves(v) ==
    /\ viewer[v].at # "absent"
    /\ viewer' = [viewer EXCEPT ![v] = Absent]
    /\ UNCHANGED <<frame, hint, flag, queue, keyframe>>

-----------------------------------------------------------------------------
VideoNext ==
    \/ ScreencastFrame \/ BitrateHint \/ VideoTask \/ EncodeThread
    \/ \E v \in Viewers :
           \/ PeerConnects(v) \/ Answered(v) \/ PlayAsks(v) \/ PlaySubscribes(v)
           \/ Read(v) \/ Leaves(v)

VideoSpec == VideoInit /\ [][VideoNext]_videoVars

-----------------------------------------------------------------------------
(* Properties                                                              *)

\* A keyframe is on its way to v, or will be when the next frame comes.
OnItsWay(v) ==
    \/ flag \/ keyframe
    \/ \E i \in DOMAIN queue : queue[i].force
    \/ Contains(viewer[v].packets, TRUE)

\* A viewer that asked for a keyframe and waits for it will be sent one with one
\* of the next frames: the request is not lost between the flag, the channel and
\* the encoder, nor by frames that are skipped or cannot be decoded.  It "missed"
\* it when the encoder failed on it, when it was too far behind, or, an RTSP
\* player, when the keyframe was sent before PLAY subscribed.
RequestNotForgotten ==
    \A v \in Viewers : viewer[v].at \in {"asked", "waits"} => OnItsWay(v)
=============================================================================
