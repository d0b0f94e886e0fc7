------------------------------ MODULE MCServer ------------------------------
(* Instances of Server and of Rtsp for TLC: a behaviour is one of `vscreen     *)
(* --dev` with its HTTP requests, or one of its RTSP server, which share only  *)
(* the cancellation token.                                                     *)
EXTENDS Server, Rtsp

VARIABLE part   \* the one that this behaviour is about

allVars == <<part, serverVars, rtspVars>>

MCInit ==
    /\ part \in {"server", "rtsp"}
    /\ ServerInit /\ (part = "rtsp" => main = "serve")
    /\ RtspInit

MCNext ==
    \/ part = "server" /\ ServerNext /\ UNCHANGED <<part, rtspVars>>
    \/ part = "rtsp" /\ RtspNext /\ UNCHANGED <<part, serverVars>>

MCSpec == MCInit /\ [][MCNext]_allVars /\ ServerFairness /\ RtspFairness
=============================================================================
