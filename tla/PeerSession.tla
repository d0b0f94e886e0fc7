---------------------------- MODULE PeerSession ----------------------------
(***************************************************************************)
(* The signaling of one WebRTC viewer: the loop over its WebSocket         *)
(* (vscreen-server/src/ws.rs) and its PeerSession (vscreen-transport).     *)
(* The peer connection itself is the webrtc crate's: it accepts or refuses *)
(* descriptions, and gathers local candidates on its own tasks, which put  *)
(* them into a bounded channel that the loop forwards.                     *)
(***************************************************************************)
EXTENDS Integers, Sequences

CONSTANTS
    SignalingSize,  \* room in the channel of local candidates (128)
    MaxOffers,      \* bounds: offers of the client,
    MaxRemote,      \* candidates of the client,
    MaxLocal        \* and candidates gathered here

VARIABLES
    loop,           \* where the loop is: "idle" between two of its turns
    peerState,      \* PeerSession.state
    remote_description_set,
    ice_buffer,     \* candidates of the client kept until there is a description
    attempts,       \* candidates given to the peer connection, in order
    received,       \* candidates received, numbered as they come
    gathering,      \* the peer connection gathers local candidates
    gathered,       \* how many it found
    signaling,      \* the channel of local candidates
    toClient,       \* what the client is sent, in order
    offers          \* offers received

peerVars == <<loop, peerState, remote_description_set, ice_buffer, attempts, received,
              gathering, gathered, signaling, toClient, offers>>

PeerInit ==
    /\ loop = "upgrade" /\ peerState = "New"
    /\ remote_description_set = FALSE
    /\ ice_buffer = <<>> /\ attempts = <<>> /\ received = 0
    /\ gathering = FALSE /\ gathered = 0 /\ signaling = <<>>
    /\ toClient = <<>> /\ offers = 0

Tells(message) == toClient' = Append(toClient, message)

-----------------------------------------------------------------------------
(* The loop                                                                *)

\* After the upgrade the instance is looked up again: it may have gone.
SignalingStarts ==
    /\ loop = "upgrade"
    /\ \/ loop' = "idle" /\ Tells("connected")
       \/ loop' = "closed" /\ Tells("error")
    /\ UNCHANGED <<peerState, remote_description_set, ice_buffer, attempts, received,
                   gathering, gathered, signaling, offers>>

\* An offer: until it is set as the remote description, candidates wait.
ReceiveOffer ==
    /\ loop = "idle" /\ offers < MaxOffers
    /\ offers' = offers + 1
    /\ peerState' = "Connecting"
    /\ loop' = "offer"
    /\ UNCHANGED <<remote_description_set, ice_buffer, attempts, received, gathering,
                   gathered, signaling, toClient>>

KeepsBuffer_SetRemote ==
    /\ loop = "offer"
    /\ remote_description_set' = TRUE
    /\ attempts' = attempts \o ice_buffer
    /\ loop' = "answer"
    /\ UNCHANGED <<peerState, ice_buffer, received, gathering, gathered, signaling, toClient,
                   offers>>

\* Those that waited are applied, in order; one that fails is passed over.
SetRemote ==
    /\ loop = "offer"
    /\ remote_description_set' = TRUE
    /\ attempts' = attempts \o ice_buffer
    /\ ice_buffer' = <<>>
    /\ loop' = "answer"
    /\ UNCHANGED <<peerState, received, gathering, gathered, signaling, toClient, offers>>

\* The local description starts the gathering before the answer is returned.
SetLocal ==
    /\ loop = "answer"
    /\ gathering' = TRUE
    /\ loop' = "respond"
    /\ UNCHANGED <<peerState, remote_description_set, ice_buffer, attempts, received,
                   gathered, signaling, toClient, offers>>

\* A description that does not parse, or that the peer connection refuses.
OfferFails ==
    /\ loop \in {"offer", "answer"}
    /\ Tells("error")
    /\ loop' = "idle"
    /\ UNCHANGED <<peerState, remote_description_set, ice_buffer, attempts, received,
                   gathering, gathered, signaling, offers>>

ThroughChannel_Respond ==
    /\ loop = "respond"
    /\ signaling' = IF Len(signaling) < SignalingSize THEN Append(signaling, "answer")
                                                      ELSE signaling
    /\ loop' = "idle"
    /\ UNCHANGED <<peerState, remote_description_set, ice_buffer, attempts, received,
                   gathering, gathered, toClient, offers>>

\* The answer goes straight to the socket, and then the loop looks at the channel.
Respond ==
    /\ loop = "respond"
    /\ Tells("answer")
    /\ loop' = "idle"
    /\ UNCHANGED <<peerState, remote_description_set, ice_buffer, attempts, received,
                   gathering, gathered, signaling, offers>>

\* The peer connection may refuse a candidate: the client is sent the error.
ReceiveCandidate ==
    /\ loop = "idle" /\ received < MaxRemote
    /\ received' = received + 1
    /\ IF remote_description_set
       THEN /\ attempts' = Append(attempts, received')
            /\ ice_buffer' = ice_buffer
            /\ toClient' = toClient \/ Tells("error")
       ELSE /\ ice_buffer' = Append(ice_buffer, received')
            /\ UNCHANGED <<attempts, toClient>>
    /\ UNCHANGED <<loop, peerState, remote_description_set, gathering, gathered, signaling,
                   offers>>

\* on_ice_candidate, on a task of the peer connection: a full channel drops it.
LocalCandidate ==
    /\ gathering /\ loop # "closed" /\ gathered < MaxLocal
    /\ gathered' = gathered + 1
    /\ signaling' = IF Len(signaling) < SignalingSize THEN Append(signaling, "candidate")
                                                      ELSE signaling
    /\ UNCHANGED <<loop, peerState, remote_description_set, ice_buffer, attempts, received,
                   gathering, toClient, offers>>

Forward ==
    /\ loop = "idle" /\ signaling # <<>>
    /\ Tells(Head(signaling))
    /\ signaling' = Tail(signaling)
    /\ UNCHANGED <<loop, peerState, remote_description_set, ice_buffer, attempts, received,
                   gathering, gathered, offers>>

\* The client or the server closes, or a send fails.
Leave ==
    /\ loop = "idle"
    /\ loop' = "closed" /\ peerState' = "Disconnected"
    /\ gathering' = FALSE
    /\ signaling' = <<>>
    /\ toClient' = toClient \/ Tells("disconnected")
    /\ UNCHANGED <<remote_description_set, ice_buffer, attempts, received, gathered, offers>>

PeerNext ==
    \/ SignalingStarts \/ Leave
    \/ ReceiveOffer \/ SetRemote \/ SetLocal \/ OfferFails \/ Respond
    \/ ReceiveCandidate \/ LocalCandidate \/ Forward

PeerSpec == PeerInit /\ [][PeerNext]_peerVars

-----------------------------------------------------------------------------
(* Properties                                                              *)

\* Every candidate of the client reaches the peer connection once, in the order
\* it came, whether it came before the offer, between two offers, or after one
\* that failed (handle_ice_candidate, and the drain in handle_offer).
CandidatesInOrder == attempts \o ice_buffer = [i \in 1 .. received |-> i]

\* The client is sent a local candidate only after an answer: gathering starts
\* before handle_offer returns, and candidates travel by another way.
AnswerBeforeCandidates ==
    \A i \in DOMAIN toClient :
        toClient[i] = "candidate" => \E j \in 1 .. i - 1 : toClient[j] = "answer"
=============================================================================
