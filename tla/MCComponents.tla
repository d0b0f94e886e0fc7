---------------------------- MODULE MCComponents ----------------------------
(* Safety of components that have no state in common, for TLC: a behaviour is  *)
(* one of one of them, and `part` says which.                                  *)
EXTENDS VideoStream, RtpStreams, PeerSession, SessionMemory, DevEnvironment, Tools

VARIABLE part

toolsVars == vars

allVars == <<part, videoVars, rtpVars, peerVars, memoryVars, devVars, toolsVars>>

MCInit ==
    /\ part \in {"video", "rtp", "peer", "memory", "dev", "tools"}
    /\ VideoInit /\ RtpInit /\ PeerInit /\ MemoryInit /\ DevInit /\ Init

MCNext ==
    /\ part' = part
    /\ \/ /\ part = "video" /\ VideoNext
          /\ UNCHANGED <<rtpVars, peerVars, memoryVars, devVars, toolsVars>>
       \/ /\ part = "rtp" /\ RtpNext
          /\ UNCHANGED <<videoVars, peerVars, memoryVars, devVars, toolsVars>>
       \/ /\ part = "peer" /\ PeerNext
          /\ UNCHANGED <<videoVars, rtpVars, memoryVars, devVars, toolsVars>>
       \/ /\ part = "memory" /\ MemoryNext
          /\ UNCHANGED <<videoVars, rtpVars, peerVars, devVars, toolsVars>>
       \/ /\ part = "dev" /\ DevNext
          /\ UNCHANGED <<videoVars, rtpVars, peerVars, memoryVars, toolsVars>>
       \/ /\ part = "tools" /\ Next
          /\ UNCHANGED <<videoVars, rtpVars, peerVars, memoryVars, devVars>>

MCSpec == MCInit /\ [][MCNext]_allVars

\* The sessions and tasks of Tools are interchangeable.
Symmetry == Permutations(Sessions) \cup Permutations(Tasks)
=============================================================================
