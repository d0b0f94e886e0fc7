---------------------------- MODULE StreamProofs ----------------------------
(***************************************************************************)
(* Theorems about what a viewer gets: in PeerSession the order of the      *)
(* client's candidates, and the answer before the local ones, however the  *)
(* peer connection's tasks and the loop interleave; in VideoStream the     *)
(* keyframe that a viewer asked for; in RtpStreams what the packetizers    *)
(* make of a frame, and what of it arrives.                                *)
(***************************************************************************)
EXTENDS PeerSession, VideoStream, RtpStreams, Recursion

\* The candidates, those given to the peer connection and those that wait, in
\* order; and none waits once there is a description, so that one that is given
\* at once passes no other.
Candidates ==
    /\ received \in Nat
    /\ attempts \in Seq(Nat) /\ ice_buffer \in Seq(Nat)
    /\ CandidatesInOrder
    /\ remote_description_set => ice_buffer = <<>>

\* A local candidate that is sent, or can still be, has an answer before it.
AnswerSent == \E i \in DOMAIN toClient : toClient[i] = "answer"

\* What the client is sent.
Kinds == {"connected", "answer", "candidate", "error", "disconnected"}

Messages ==
    /\ toClient \in Seq(Kinds) /\ signaling \in Seq({"candidate"})
    /\ AnswerBeforeCandidates
    /\ gathering \/ signaling # <<>> => loop = "respond" \/ AnswerSent

-----------------------------------------------------------------------------
\* One more number at the end of 1, 2, ... n.
LEMMA OneMore ==
    ASSUME NEW n \in Nat, NEW s \in Seq(Nat), s = [i \in 1 .. n |-> i]
    PROVE  Append(s, n + 1) = [i \in 1 .. n + 1 |-> i]
<1>1. Len(s) = n
  OBVIOUS
<1>2. \A i \in 1 .. n + 1 : Append(s, n + 1)[i] = i
  BY <1>1
<1>3. DOMAIN Append(s, n + 1) = 1 .. n + 1
  BY <1>1
<1> QED BY <1>2, <1>3

\* A candidate at the end of the candidates that wait is at the end of all.
LEMMA AppendBehind ==
    ASSUME NEW s \in Seq(Nat), NEW t \in Seq(Nat), NEW n \in Nat
    PROVE  s \o Append(t, n) = Append(s \o t, n)
  OBVIOUS

\* Nothing behind changes nothing.
LEMMA NothingBehind ==
    ASSUME NEW s \in Seq(Nat)
    PROVE  s \o <<>> = s
  OBVIOUS

\* Candidates are as they were if a step leaves them alone.
LEMMA CandidatesKept ==
    ASSUME Candidates, UNCHANGED <<received, attempts, ice_buffer, remote_description_set>>
    PROVE  Candidates'
  BY DEF Candidates, CandidatesInOrder

\* The candidates that wait are given in order when there is a description.
LEMMA CandidatesDrained ==
    ASSUME Candidates, SetRemote
    PROVE  Candidates'
<1>1. attempts' = attempts \o ice_buffer /\ ice_buffer' = <<>> /\ received' = received
  BY DEF SetRemote
<1>2. attempts' \in Seq(Nat)
  BY <1>1 DEF Candidates
<1>3. attempts' \o ice_buffer' = attempts \o ice_buffer
  BY <1>1, <1>2, NothingBehind
<1>4. CandidatesInOrder'
  BY <1>1, <1>3 DEF Candidates, CandidatesInOrder
<1> QED BY <1>1, <1>2, <1>4 DEF Candidates

\* One that comes is given behind all others, or waits behind all others.
LEMMA CandidatesReceived ==
    ASSUME Candidates, ReceiveCandidate
    PROVE  Candidates'
<1>1. received' = received + 1 /\ remote_description_set' = remote_description_set
  BY DEF ReceiveCandidate
<1>2. attempts' \o ice_buffer' = Append(attempts \o ice_buffer, received + 1)
      /\ attempts' \in Seq(Nat) /\ ice_buffer' \in Seq(Nat)
      /\ (remote_description_set => ice_buffer' = <<>>)
  <2>1. CASE remote_description_set
    <3>1. attempts' = Append(attempts, received + 1) /\ ice_buffer' = <<>> /\ ice_buffer = <<>>
      BY <2>1, <1>1 DEF ReceiveCandidate, Candidates
    <3>2. attempts' \in Seq(Nat)
      BY <3>1 DEF Candidates
    <3>3. attempts' \o ice_buffer' = attempts' /\ attempts \o ice_buffer = attempts
      BY <3>1, <3>2, NothingBehind DEF Candidates
    <3> QED BY <3>1, <3>2, <3>3
  <2>2. CASE ~remote_description_set
    <3>1. attempts' = attempts /\ ice_buffer' = Append(ice_buffer, received + 1)
      BY <2>2, <1>1 DEF ReceiveCandidate
    <3> QED BY <2>2, <3>1, AppendBehind DEF Candidates
  <2> QED BY <2>1, <2>2
<1>3. attempts \o ice_buffer \in Seq(Nat) /\ received \in Nat
  BY DEF Candidates
<1>4. attempts \o ice_buffer = [i \in 1 .. received |-> i]
  BY DEF Candidates, CandidatesInOrder
<1>5. Append(attempts \o ice_buffer, received + 1) = [i \in 1 .. received + 1 |-> i]
  BY <1>3, <1>4, OneMore
<1>6. CandidatesInOrder'
  BY <1>1, <1>2, <1>5 DEF CandidatesInOrder
<1> QED BY <1>1, <1>2, <1>3, <1>6 DEF Candidates

-----------------------------------------------------------------------------
\* Messages are as they were if a step leaves them alone, and starts nothing.
LEMMA MessagesKept ==
    ASSUME Messages, UNCHANGED <<toClient, signaling, gathering>>, loop = "respond" => loop' = "respond"
    PROVE  Messages'
  BY DEF Messages, AnswerBeforeCandidates, AnswerSent

\* A message that is no candidate, or comes behind an answer, keeps the order, and
\* an answer stays an answer.
LEMMA Told ==
    ASSUME Messages, NEW m \in Kinds, toClient' = Append(toClient, m),
           (m = "candidate" => AnswerSent)
    PROVE  /\ AnswerBeforeCandidates' /\ toClient' \in Seq(Kinds)
           /\ (AnswerSent => AnswerSent')
           /\ (m = "answer" => AnswerSent')
<1>1. toClient' = Append(toClient, m) /\ toClient \in Seq(Kinds)
  BY DEF Messages
<1>2. /\ DOMAIN toClient = 1 .. Len(toClient) /\ Len(toClient) \in Nat
      /\ DOMAIN toClient' = 1 .. Len(toClient) + 1
      /\ \A i \in 1 .. Len(toClient) : toClient'[i] = toClient[i]
      /\ toClient'[Len(toClient) + 1] = m
  BY <1>1
<1>3. AnswerSent => AnswerSent'
  BY <1>2 DEF AnswerSent
<1>4. m = "answer" => AnswerSent'
  BY <1>2 DEF AnswerSent
<1>5. ASSUME NEW i \in DOMAIN toClient', toClient'[i] = "candidate"
      PROVE  \E j \in 1 .. i - 1 : toClient'[j] = "answer"
  <2>1. CASE i \in 1 .. Len(toClient)
    <3>1. toClient[i] = "candidate" /\ i \in DOMAIN toClient
      BY <1>2, <1>5, <2>1
    <3>2. PICK j \in 1 .. i - 1 : toClient[j] = "answer"
      BY <3>1 DEF Messages, AnswerBeforeCandidates
    <3> QED BY <1>2, <2>1, <3>2
  <2>2. CASE i = Len(toClient) + 1
    <3>1. PICK j \in DOMAIN toClient : toClient[j] = "answer"
      BY <1>2, <1>5, <2>2 DEF AnswerSent
    <3> QED BY <1>2, <2>2, <3>1
  <2> QED BY <1>2, <2>1, <2>2
<1>6. AnswerBeforeCandidates'
  BY <1>5 DEF AnswerBeforeCandidates
<1> QED BY <1>1, <1>3, <1>4, <1>6

\* What the loop sends of its own.
LEMMA MessagesTold ==
    ASSUME Messages, SignalingStarts \/ OfferFails \/ Respond
    PROVE  Messages'
<1>1. PICK m \in {"connected", "error", "answer"} :
          /\ toClient' = Append(toClient, m)
          /\ loop = "respond" => m = "answer"
  BY DEF Tells, SignalingStarts, OfferFails, Respond
<1>2. signaling' = signaling /\ gathering' = gathering
  BY DEF SignalingStarts, OfferFails, Respond
<1>3. AnswerBeforeCandidates' /\ toClient' \in Seq(Kinds)
      /\ (AnswerSent => AnswerSent') /\ (m = "answer" => AnswerSent')
  BY <1>1, Told DEF Kinds
<1> QED BY <1>1, <1>2, <1>3 DEF Messages

\* What it forwards is a candidate, with an answer before it.
LEMMA MessagesForwarded ==
    ASSUME Messages, Forward
    PROVE  Messages'
<1>1. toClient' = Append(toClient, "candidate") /\ Tail(signaling) \in Seq({"candidate"})
  BY DEF Messages, Forward, Tells
<1>2. AnswerSent
  BY DEF Messages, Forward
<1>3. AnswerBeforeCandidates' /\ toClient' \in Seq(Kinds) /\ AnswerSent'
  BY <1>1, <1>2, Told DEF Kinds
<1> QED BY <1>1, <1>3 DEF Messages, Forward

\* The end is told, or it is not: nothing is left to be sent after it.
LEMMA MessagesEnd ==
    ASSUME Messages, Leave
    PROVE  Messages'
<1>1. signaling' = <<>> /\ gathering' = FALSE
  BY DEF Leave
<1>2. AnswerBeforeCandidates' /\ toClient' \in Seq(Kinds)
  <2>1. CASE toClient' = toClient
    BY <2>1 DEF Messages, AnswerBeforeCandidates
  <2>2. CASE Tells("disconnected")
    BY <2>2, Told DEF Tells, Kinds
  <2> QED BY <2>1, <2>2 DEF Leave
<1> QED BY <1>1, <1>2 DEF Messages

\* A candidate of the client may be answered with an error.
LEMMA MessagesReceived ==
    ASSUME Messages, ReceiveCandidate
    PROVE  Messages'
<1>1. signaling' = signaling /\ gathering' = gathering /\ loop' = loop
  BY DEF ReceiveCandidate
<1>2. CASE toClient' = toClient
  BY <1>1, <1>2, MessagesKept
<1>3. CASE Tells("error")
  <2>1. AnswerBeforeCandidates' /\ toClient' \in Seq(Kinds) /\ (AnswerSent => AnswerSent')
    BY <1>3, Told DEF Tells, Kinds
  <2> QED BY <1>1, <2>1 DEF Messages
<1> QED BY <1>2, <1>3 DEF ReceiveCandidate

\* A local candidate is found only while they are gathered.
LEMMA MessagesFound ==
    ASSUME Messages, LocalCandidate
    PROVE  Messages'
<1>1. gathering /\ gathering' = gathering /\ loop' = loop /\ toClient' = toClient
  BY DEF LocalCandidate
<1>2. signaling' \in Seq({"candidate"})
  BY DEF LocalCandidate, Messages
<1>3. AnswerSent' = AnswerSent /\ (AnswerBeforeCandidates' = AnswerBeforeCandidates)
  BY <1>1 DEF AnswerSent, AnswerBeforeCandidates
<1> QED BY <1>1, <1>2, <1>3 DEF Messages

\* Gathering starts when the answer is the next thing that the loop sends.
LEMMA MessagesStart ==
    ASSUME Messages, SetLocal
    PROVE  Messages'
  BY DEF Messages, SetLocal, AnswerBeforeCandidates, AnswerSent

-----------------------------------------------------------------------------
(* Theorems                                                                *)

\* Every candidate of the client is given to the peer connection once and in the
\* order it came, whatever offers come and fail (handle_ice_candidate,
\* handle_offer).
THEOREM CandidatesAlwaysInOrder == PeerSpec => []CandidatesInOrder
<1>1. PeerInit => Candidates
  <2> SUFFICES ASSUME PeerInit PROVE Candidates
    OBVIOUS
  <2>1. attempts = <<>> /\ ice_buffer = <<>> /\ received = 0
    BY DEF PeerInit
  <2>2. attempts \o ice_buffer = [i \in 1 .. received |-> i]
    BY <2>1
  <2> QED BY <2>1, <2>2 DEF Candidates, CandidatesInOrder
<1>2. Candidates /\ [PeerNext]_peerVars => Candidates'
  <2> SUFFICES ASSUME Candidates, [PeerNext]_peerVars PROVE Candidates'
    OBVIOUS
  <2>1. CASE SetRemote
    BY <2>1, CandidatesDrained
  <2>2. CASE ReceiveCandidate
    BY <2>2, CandidatesReceived
  <2>3. CASE SignalingStarts \/ Leave \/ ReceiveOffer \/ SetLocal \/ OfferFails \/ Respond
    BY <2>3, CandidatesKept
       DEF SignalingStarts, Leave, ReceiveOffer, SetLocal, OfferFails, Respond
  <2>4. CASE LocalCandidate \/ Forward \/ UNCHANGED peerVars
    BY <2>4, CandidatesKept DEF LocalCandidate, Forward, peerVars
  <2> QED BY <2>1, <2>2, <2>3, <2>4 DEF PeerNext
<1>3. Candidates => CandidatesInOrder
  BY DEF Candidates
<1> QED BY <1>1, <1>2, <1>3, PTL DEF PeerSpec

\* The client never sees a local candidate before the answer, although they are
\* found on other tasks before the answer is sent (set_local_description,
\* on_ice_candidate, handle_signaling).
THEOREM AnswerAlwaysFirst == PeerSpec => []AnswerBeforeCandidates
<1>1. PeerInit => Messages
  BY DEF PeerInit, Messages, AnswerBeforeCandidates
<1>2. Messages /\ [PeerNext]_peerVars => Messages'
  <2> SUFFICES ASSUME Messages, [PeerNext]_peerVars PROVE Messages'
    OBVIOUS
  <2>1. CASE SignalingStarts \/ OfferFails \/ Respond
    BY <2>1, MessagesTold
  <2>2. CASE Forward
    BY <2>2, MessagesForwarded
  <2>3. CASE Leave
    BY <2>3, MessagesEnd
  <2>4. CASE ReceiveCandidate
    BY <2>4, MessagesReceived
  <2>5. CASE LocalCandidate
    BY <2>5, MessagesFound
  <2>6. CASE SetLocal
    BY <2>6, MessagesStart
  <2>7. CASE ReceiveOffer \/ SetRemote \/ UNCHANGED peerVars
    BY <2>7, MessagesKept DEF ReceiveOffer, SetRemote, peerVars
  <2> QED BY <2>1, <2>2, <2>3, <2>4, <2>5, <2>6, <2>7 DEF PeerNext
<1>3. Messages => AnswerBeforeCandidates
  BY DEF Messages
<1> QED BY <1>1, <1>2, <1>3, PTL DEF PeerSpec

-----------------------------------------------------------------------------
(* VideoStream: a request for a keyframe                                   *)

Command == [force : BOOLEAN, hint : BOOLEAN]

Places == {"absent", "asked", "waits", "missed", "reads"}

Viewing == [at : Places, packets : Seq(BOOLEAN)]

VideoTypeOK ==
    /\ frame \in BOOLEAN /\ hint \in BOOLEAN /\ flag \in BOOLEAN
    /\ queue \in Seq(Command)
    /\ keyframe \in BOOLEAN
    /\ viewer \in [Viewers -> Viewing]

\* A command in the channel carries a request.
Forced(q) == \E i \in DOMAIN q : q[i].force

\* What a channel has at its end, and behind its first element.
LEMMA Appended ==
    ASSUME NEW S, NEW s \in Seq(S), NEW e \in S
    PROVE  /\ Append(s, e) \in Seq(S)
           /\ DOMAIN Append(s, e) = 1 .. (Len(s) + 1) /\ DOMAIN s = 1 .. Len(s)
           /\ Len(s) \in Nat
           /\ Append(s, e)[Len(s) + 1] = e
           /\ \A i \in 1 .. Len(s) : Append(s, e)[i] = s[i]
  OBVIOUS

\* The first element of a sequence and the others.
LEMMA Taken ==
    ASSUME NEW S, NEW s \in Seq(S), s # <<>>
    PROVE  /\ Tail(s) \in Seq(S) /\ Head(s) \in S
           /\ DOMAIN s = 1 .. Len(s) /\ Len(s) \in Nat \ {0} /\ Head(s) = s[1]
           /\ DOMAIN Tail(s) = 1 .. (Len(s) - 1)
           /\ \A i \in 1 .. (Len(s) - 1) : Tail(s)[i] = s[i + 1]
  OBVIOUS

\* A command that is sent.
LEMMA ForcedAppend ==
    ASSUME NEW q \in Seq(Command), NEW c \in Command
    PROVE  Forced(Append(q, c)) <=> Forced(q) \/ c.force
<1> DEFINE r == Append(q, c)
           n == Len(q)
<1>1. /\ DOMAIN r = 1 .. (n + 1) /\ DOMAIN q = 1 .. n /\ n \in Nat
      /\ r[n + 1] = c /\ \A i \in 1 .. n : r[i] = q[i]
  BY Appended
<1> HIDE DEF r, n
<1>2. ASSUME NEW i \in DOMAIN r, r[i].force PROVE Forced(q) \/ c.force
  <2>1. CASE i = n + 1
    BY <1>1, <1>2, <2>1
  <2>2. CASE i \in DOMAIN q
    BY <1>1, <1>2, <2>2 DEF Forced
  <2> QED BY <1>1, <2>1, <2>2
<1>3. ASSUME NEW i \in DOMAIN q, q[i].force PROVE Forced(r)
  <2>1. i \in DOMAIN r /\ r[i] = q[i]
    BY <1>1
  <2> QED BY <1>3, <2>1 DEF Forced
<1>4. ASSUME c.force PROVE Forced(r)
  <2>1. n + 1 \in DOMAIN r
    BY <1>1
  <2> QED BY <1>1, <1>4, <2>1 DEF Forced
<1> QED BY <1>2, <1>3, <1>4 DEF Forced, r

\* A command that is received.
LEMMA ForcedTail ==
    ASSUME NEW q \in Seq(Command), q # <<>>, Forced(q)
    PROVE  Head(q).force \/ Forced(Tail(q))
<1> DEFINE r == Tail(q)
           n == Len(q)
<1>1. /\ DOMAIN q = 1 .. n /\ n \in Nat \ {0} /\ Head(q) = q[1]
      /\ DOMAIN r = 1 .. (n - 1) /\ \A i \in 1 .. (n - 1) : r[i] = q[i + 1]
  BY Taken
<1> HIDE DEF r, n
<1>2. PICK i \in DOMAIN q : q[i].force
  BY DEF Forced
<1>3. CASE i = 1
  BY <1>1, <1>2, <1>3
<1>4. CASE i # 1
  <2>1. i - 1 \in DOMAIN r /\ r[i - 1] = q[i]
    BY <1>1, <1>4
  <2> QED BY <1>2, <2>1 DEF Forced, r
<1> QED BY <1>3, <1>4

\* A viewer's packets, where TRUE is a keyframe.
LEMMA PacketAppend ==
    ASSUME NEW s \in Seq(BOOLEAN), NEW b \in BOOLEAN,
           Contains(s, TRUE) \/ b
    PROVE  Contains(Append(s, b), TRUE)
<1> DEFINE r == Append(s, b)
           n == Len(s)
<1>1. /\ r \in Seq(BOOLEAN) /\ DOMAIN r = 1 .. (n + 1) /\ n \in Nat
      /\ r[n + 1] = b /\ \A i \in 1 .. n : r[i] = s[i]
  BY Appended
<1>2. DOMAIN r = 1 .. Len(r)
  BY <1>1
<1>3. CASE b
  <2>1. n + 1 \in 1 .. Len(r) /\ r[n + 1] = TRUE
    BY <1>1, <1>2, <1>3
  <2> HIDE DEF r, n
  <2> QED BY <2>1 DEF Contains, r
<1>4. CASE Contains(s, TRUE)
  <2>1. PICK i \in 1 .. n : s[i] = TRUE
    BY <1>4 DEF Contains
  <2>2. i \in 1 .. Len(r) /\ r[i] = TRUE
    BY <1>1, <1>2, <2>1
  <2> HIDE DEF r, n
  <2> QED BY <2>2 DEF Contains, r
<1> QED BY <1>3, <1>4

\* A packet that is received.
LEMMA PacketTail ==
    ASSUME NEW s \in Seq(BOOLEAN), s # <<>>, Contains(s, TRUE)
    PROVE  Head(s) \/ Contains(Tail(s), TRUE)
<1> DEFINE r == Tail(s)
           n == Len(s)
<1>1. /\ r \in Seq(BOOLEAN) /\ n \in Nat \ {0} /\ Head(s) = s[1]
      /\ DOMAIN r = 1 .. (n - 1) /\ \A i \in 1 .. (n - 1) : r[i] = s[i + 1]
  BY Taken
<1>2. DOMAIN r = 1 .. Len(r)
  BY <1>1
<1>3. PICK i \in 1 .. n : s[i] = TRUE
  BY DEF Contains
<1>4. CASE i = 1
  BY <1>1, <1>3, <1>4
<1>5. CASE i # 1
  <2>1. i - 1 \in 1 .. Len(r) /\ r[i - 1] = TRUE
    BY <1>1, <1>2, <1>3, <1>5
  <2> HIDE DEF r, n
  <2> QED BY <2>1 DEF Contains, r
<1> QED BY <1>4, <1>5

\* What the broadcast of one packet does to one viewer.
Sent(w, key) ==
    IF w.at \in {"absent", "asked"}
    THEN [w EXCEPT !.at = IF key THEN Misses(@) ELSE @]
    ELSE LET full == Len(w.packets) >= BroadcastSize
         IN  [at |-> IF full /\ Head(w.packets) THEN Misses(w.at) ELSE w.at,
              packets |-> Append(IF full THEN Tail(w.packets) ELSE w.packets, key)]

\* A packet goes to each viewer's channel.
LEMMA BroadcastSends ==
    ASSUME NEW key
    PROVE  Broadcast(key) = [v \in Viewers |-> Sent(viewer[v], key)]
  BY DEF Broadcast, Sent

\* A viewer that waits after a keyframe went by has it; after another packet it
\* has what it had, unless a keyframe was dropped, which it then knows.
LEMMA SentWell ==
    ASSUME NEW w \in Viewing, NEW key \in BOOLEAN
    PROVE  /\ Sent(w, key) \in Viewing
           /\ Sent(w, key).at \in {"asked", "waits"} =>
                  /\ w.at \in {"asked", "waits"}
                  /\ key \/ Contains(w.packets, TRUE) =>
                         Contains(Sent(w, key).packets, TRUE)
<1>1. w.at \in Places /\ w.packets \in Seq(BOOLEAN) /\ Misses(w.at) \in Places
      /\ Misses(w.at) \notin {"asked", "waits"}
  BY DEF Viewing, Places, Misses
<1>2. CASE w.at \in {"absent", "asked"}
  <2> DEFINE at == IF key THEN Misses(w.at) ELSE w.at
  <2>1. Sent(w, key) = [w EXCEPT !.at = at]
    BY <1>2 DEF Sent
  <2>2. /\ Sent(w, key) \in Viewing
        /\ Sent(w, key).at = at /\ Sent(w, key).packets = w.packets
    BY <1>1, <2>1 DEF Viewing
  <2> QED BY <1>1, <1>2, <2>2
<1>3. CASE w.at \notin {"absent", "asked"}
  <2> DEFINE full == Len(w.packets) >= BroadcastSize
             at == IF full /\ Head(w.packets) THEN Misses(w.at) ELSE w.at
             kept == IF full THEN Tail(w.packets) ELSE w.packets
  <2>1. Sent(w, key) = [at |-> at, packets |-> Append(kept, key)]
    BY <1>3 DEF Sent
  <2>2. full => w.packets # <<>>
    BY VideoAssumption
  <2>3. kept \in Seq(BOOLEAN)
    BY <1>1, <2>2, Taken
  <2>4. Append(kept, key) \in Seq(BOOLEAN)
    BY <2>3, Appended
  <2>5. at \in Places
    BY <1>1
  <2> HIDE DEF at, kept, full
  <2>6. /\ Sent(w, key) \in Viewing
        /\ Sent(w, key).at = at /\ Sent(w, key).packets = Append(kept, key)
    BY <2>1, <2>4, <2>5 DEF Viewing
  <2>7. ASSUME at \in {"asked", "waits"}, Contains(w.packets, TRUE)
        PROVE  Contains(kept, TRUE)
    <3>1. CASE full
      <4>1. ~Head(w.packets)
        BY <1>1, <2>7, <3>1 DEF at
      <4>2. Contains(Tail(w.packets), TRUE)
        BY <1>1, <2>2, <2>7, <3>1, <4>1, PacketTail
      <4> QED BY <3>1, <4>2 DEF kept
    <3>2. CASE ~full
      BY <2>7, <3>2 DEF kept
    <3> QED BY <3>1, <3>2
  <2>8. at \in {"asked", "waits"} => w.at \in {"asked", "waits"}
    BY <1>1 DEF at
  <2> QED BY <2>3, <2>6, <2>7, <2>8, PacketAppend
<1> QED BY <1>2, <1>3

-----------------------------------------------------------------------------

\* The channel, the encoder and the flag.
Requested == flag \/ keyframe \/ Forced(queue)

\* RequestNotForgotten in these terms.
NoneForgotten ==
    \A v \in Viewers : viewer[v].at \in {"asked", "waits"} =>
        Requested \/ Contains(viewer[v].packets, TRUE)

\* The invariant says more than the property.
LEMMA NoneForgottenSuffices == NoneForgotten => RequestNotForgotten
  BY DEF NoneForgotten, RequestNotForgotten, OnItsWay, Requested, Forced

\* A viewer reads, comes or goes, and the pipeline keeps what it had or gets a
\* request.
LEMMA ViewerStep ==
    ASSUME VideoTypeOK, NoneForgotten, NEW v \in Viewers, NEW w \in Viewing,
           viewer' = [viewer EXCEPT ![v] = w],
           flag' \in BOOLEAN, UNCHANGED <<frame, hint, queue, keyframe>>,
           Requested => Requested',
           w.at \in {"asked", "waits"} => Requested' \/ Contains(w.packets, TRUE)
    PROVE  VideoTypeOK' /\ NoneForgotten'
<1>1. VideoTypeOK'
  BY DEF VideoTypeOK
<1>2. ASSUME NEW u \in Viewers, viewer'[u].at \in {"asked", "waits"}
      PROVE  Requested' \/ Contains(viewer'[u].packets, TRUE)
  <2>1. CASE u = v
    <3>1. viewer'[u] = w
      BY <2>1 DEF VideoTypeOK
    <3> QED BY <1>2, <3>1
  <2>2. CASE u # v
    <3>1. viewer'[u] = viewer[u]
      BY <2>2 DEF VideoTypeOK
    <3> QED BY <1>2, <3>1 DEF NoneForgotten
  <2> QED BY <2>1, <2>2
<1> QED BY <1>1, <1>2 DEF NoneForgotten

\* The pipeline keeps a request, or none was made and no viewer waits for one in
\* it.
LEMMA PipelineStep ==
    ASSUME NoneForgotten,
           \A v \in Viewers : viewer'[v].at \in {"asked", "waits"} =>
               /\ viewer[v].at \in {"asked", "waits"}
               /\ \/ Requested => Requested'
                  \/ Contains(viewer'[v].packets, TRUE)
               /\ Contains(viewer[v].packets, TRUE) =>
                      Contains(viewer'[v].packets, TRUE)
    PROVE  NoneForgotten'
  BY DEF NoneForgotten

\* The video task hands the flag on with the frame.
LEMMA VideoTaskStep ==
    ASSUME VideoTypeOK, NoneForgotten, VideoTask
    PROVE  VideoTypeOK' /\ NoneForgotten'
<1> DEFINE c == [force |-> flag, hint |-> hint]
<1>1. c \in Command /\ (c.force <=> flag)
  BY DEF VideoTypeOK, Command
<1>2. /\ queue' = Append(queue, c) /\ UNCHANGED <<keyframe, viewer>>
      /\ frame' \in BOOLEAN /\ hint' \in BOOLEAN /\ flag' \in BOOLEAN
  BY DEF VideoTask
<1> HIDE DEF c
<1>3. VideoTypeOK'
  BY <1>1, <1>2, Appended DEF VideoTypeOK
<1>4. Forced(queue') <=> Forced(queue) \/ flag
  BY <1>1, <1>2, ForcedAppend DEF VideoTypeOK
<1>5. Requested => Requested'
  <2>1. Forced(queue') => Requested'
    BY DEF Requested, Forced
  <2>2. keyframe => Requested'
    BY <1>2 DEF Requested
  <2> QED BY <1>4, <2>1, <2>2, Zenon DEF Requested
<1> QED BY <1>2, <1>3, <1>5, PipelineStep

\* What the encode thread took from the channel is requested of the encoder, or
\* still in the channel.
LEMMA RequestTaken ==
    ASSUME VideoTypeOK, queue # <<>>, queue' = Tail(queue), flag' = flag
    PROVE  /\ queue' \in Seq(Command) /\ Head(queue) \in Command
           /\ Requested => keyframe \/ Head(queue).force \/ Requested'
<1>1. queue \in Seq(Command)
  BY DEF VideoTypeOK
<1>2. queue' \in Seq(Command) /\ Head(queue) \in Command
  BY <1>1, Taken
<1>3. Forced(queue) => Head(queue).force \/ Forced(queue')
  BY <1>1, ForcedTail
<1>4. Forced(queue') => Requested'
  BY DEF Requested, Forced
<1>5. flag => Requested'
  BY DEF Requested
<1> QED BY <1>2, <1>3, <1>4, <1>5, Zenon DEF Requested

\* The encode thread passes the request on, sends the keyframe, or the viewers
\* miss it.
LEMMA EncodeThreadStep ==
    ASSUME VideoTypeOK, NoneForgotten, EncodeThread
    PROVE  VideoTypeOK' /\ NoneForgotten'
<1> DEFINE cmd == Head(queue)
           requested(r) == keyframe \/ cmd.force \/ r
<1>1. /\ queue # <<>> /\ queue' = Tail(queue) /\ UNCHANGED <<frame, hint, flag>>
  BY DEF EncodeThread
<1>2. /\ queue' \in Seq(Command) /\ cmd \in Command
      /\ Requested => keyframe \/ cmd.force \/ Requested'
  BY <1>1, RequestTaken
<1>3. PICK r \in BOOLEAN :
          \/ keyframe' = requested(r) /\ UNCHANGED viewer
          \/ /\ keyframe' = FALSE
             /\ viewer' = [v \in Viewers |->
                    IF requested(r) THEN [viewer[v] EXCEPT !.at = Misses(@)] ELSE viewer[v]]
          \/ /\ keyframe' = FALSE
             /\ \E key \in {requested(r), TRUE} : viewer' = Broadcast(key)
  BY DEF EncodeThread
<1>4. keyframe \in BOOLEAN /\ cmd.force \in BOOLEAN /\ viewer \in [Viewers -> Viewing]
  BY <1>2 DEF VideoTypeOK, Command
<1>5. requested(r) \in BOOLEAN
  OBVIOUS
<1>6. Requested => requested(r) \/ Requested'
  BY <1>2, Zenon
<1>7. ASSUME keyframe' \in BOOLEAN, viewer' \in [Viewers -> Viewing] PROVE VideoTypeOK'
  BY <1>1, <1>2, <1>7 DEF VideoTypeOK
<1> HIDE DEF cmd, requested
<1>8. CASE keyframe' = requested(r) /\ UNCHANGED viewer
  <2>1. Requested => Requested'
    BY <1>6, <1>8, Zenon DEF Requested
  <2> QED BY <1>4, <1>5, <1>7, <1>8, <2>1, PipelineStep
<1>9. CASE /\ keyframe' = FALSE
           /\ viewer' = [v \in Viewers |->
                  IF requested(r) THEN [viewer[v] EXCEPT !.at = Misses(@)] ELSE viewer[v]]
  <2>1. CASE requested(r)
    <3>1. ASSUME NEW v \in Viewers
          PROVE  /\ viewer'[v] \in Viewing
                 /\ viewer'[v].at \notin {"asked", "waits"}
      <4>1. viewer'[v] = [viewer[v] EXCEPT !.at = Misses(@)]
        BY <1>9, <2>1
      <4>2. viewer[v] \in Viewing /\ Misses(viewer[v].at) \in Places
            /\ Misses(viewer[v].at) \notin {"asked", "waits"}
        BY <1>4 DEF Viewing, Places, Misses
      <4> QED BY <4>1, <4>2 DEF Viewing
    <3>2. viewer' \in [Viewers -> Viewing]
      BY <1>9, <3>1
    <3> QED BY <1>7, <1>9, <3>1, <3>2, PipelineStep
  <2>2. CASE ~requested(r)
    <3>1. viewer' = viewer
      BY <1>4, <1>9, <2>2
    <3> QED BY <1>4, <1>6, <1>7, <1>9, <2>2, <3>1, PipelineStep
  <2> QED BY <2>1, <2>2
<1>10. CASE /\ keyframe' = FALSE
            /\ \E key \in {requested(r), TRUE} : viewer' = Broadcast(key)
  <2>1. PICK key \in {requested(r), TRUE} : viewer' = Broadcast(key)
    BY <1>10
  <2>2. key \in BOOLEAN /\ (requested(r) => key)
    BY <1>5, <2>1, Zenon
  <2>3. viewer' = [v \in Viewers |-> Sent(viewer[v], key)]
    BY <2>1, BroadcastSends
  <2>4. ASSUME NEW v \in Viewers
        PROVE  /\ viewer'[v] \in Viewing
               /\ viewer'[v].at \in {"asked", "waits"} =>
                      /\ viewer[v].at \in {"asked", "waits"}
                      /\ key \/ Contains(viewer[v].packets, TRUE) =>
                             Contains(viewer'[v].packets, TRUE)
    <3>1. viewer'[v] = Sent(viewer[v], key) /\ viewer[v] \in Viewing
      BY <1>4, <2>3
    <3> QED BY <2>2, <3>1, SentWell
  <2>5. viewer' \in [Viewers -> Viewing]
    BY <2>3, <2>4
  <2>6. (Requested => Requested') \/ key
    BY <1>6, <2>2, Zenon
  <2> QED BY <1>7, <1>10, <2>4, <2>5, <2>6, PipelineStep
<1> QED BY <1>3, <1>8, <1>9, <1>10 DEF requested

\* What a read leaves of a viewer.
LEMMA ReadsOne ==
    ASSUME NEW old \in Viewing, NEW key, NEW rest
    PROVE  [[old EXCEPT !.packets = rest] EXCEPT !.at = IF key THEN "reads" ELSE @] =
               [at |-> IF key THEN "reads" ELSE old.at, packets |-> rest]
<1> DEFINE at == IF key THEN "reads" ELSE old.at
           old2 == [old EXCEPT !.packets = rest]
<1>1. old2 = [at |-> old.at, packets |-> rest] /\ old2.at = old.at
  BY DEF Viewing
<1>2. [old2 EXCEPT !.at = IF key THEN "reads" ELSE @] = [old2 EXCEPT !.at = at]
  BY <1>1
<1> HIDE DEF at, old2
<1>3. [old2 EXCEPT !.at = at] = [at |-> at, packets |-> rest]
  BY <1>1
<1> QED BY <1>2, <1>3 DEF at, old2

\* A viewer that comes, asks, reads or goes forgets no request.
LEMMA ViewersStep ==
    ASSUME VideoTypeOK, NoneForgotten, NEW v \in Viewers,
           \/ PeerConnects(v) \/ Answered(v) \/ PlayAsks(v) \/ PlaySubscribes(v)
           \/ Read(v) \/ Leaves(v)
    PROVE  VideoTypeOK' /\ NoneForgotten'
<1>1. /\ viewer \in [Viewers -> Viewing] /\ viewer[v] \in Viewing
      /\ flag \in BOOLEAN
  BY DEF VideoTypeOK
<1>2. flag' = flag /\ UNCHANGED <<queue, keyframe>> => (Requested => Requested')
  BY DEF Requested, Forced
<1>3. flag' => Requested'
  BY DEF Requested
<1>4. CASE PeerConnects(v)
  <2>1. viewer' = [viewer EXCEPT ![v] = [viewer[v] EXCEPT !.at = "reads"]]
        /\ UNCHANGED <<frame, hint, flag, queue, keyframe>>
    BY <1>4 DEF PeerConnects
  <2>2. [viewer[v] EXCEPT !.at = "reads"] \in Viewing
        /\ [viewer[v] EXCEPT !.at = "reads"].at = "reads"
    BY <1>1 DEF Viewing, Places
  <2> QED BY <1>1, <1>2, <2>1, <2>2, ViewerStep
<1>5. CASE Answered(v)
  <2>1. viewer' = [viewer EXCEPT ![v] = [viewer[v] EXCEPT !.at = "waits"]]
        /\ flag' = TRUE /\ UNCHANGED <<frame, hint, queue, keyframe>>
    BY <1>5 DEF Answered
  <2>2. [viewer[v] EXCEPT !.at = "waits"] \in Viewing
    BY <1>1 DEF Viewing, Places
  <2> QED BY <1>3, <2>1, <2>2, ViewerStep
<1>6. CASE PlayAsks(v)
  <2>1. viewer' = [viewer EXCEPT ![v] = [viewer[v] EXCEPT !.at = "asked"]]
        /\ flag' = TRUE /\ UNCHANGED <<frame, hint, queue, keyframe>>
    BY <1>6 DEF PlayAsks
  <2>2. [viewer[v] EXCEPT !.at = "asked"] \in Viewing
    BY <1>1 DEF Viewing, Places
  <2> QED BY <1>3, <2>1, <2>2, ViewerStep
<1>7. CASE PlaySubscribes(v)
  <2> DEFINE at == IF viewer[v].at = "asked" THEN "waits" ELSE "reads"
             w == [viewer[v] EXCEPT !.at = at]
  <2>1. viewer' = [viewer EXCEPT ![v] = w]
        /\ UNCHANGED <<frame, hint, flag, queue, keyframe>>
    BY <1>7 DEF PlaySubscribes
  <2>2. w \in Viewing /\ w.at = at /\ w.packets = viewer[v].packets
    BY <1>1 DEF Viewing, Places
  <2>3. at \in {"asked", "waits"} => viewer[v].at \in {"asked", "waits"}
    OBVIOUS
  <2> HIDE DEF w, at
  <2>4. w.at \in {"asked", "waits"} => Requested \/ Contains(w.packets, TRUE)
    BY <2>2, <2>3 DEF NoneForgotten
  <2>5. w.at \in {"asked", "waits"} => Requested' \/ Contains(w.packets, TRUE)
    BY <1>2, <2>1, <2>4
  <2> QED BY <1>1, <1>2, <2>1, <2>2, <2>5, ViewerStep
<1>8. CASE Read(v)
  <2> DEFINE key == Head(viewer[v].packets)
             w == [at |-> IF key THEN "reads" ELSE viewer[v].at,
                   packets |-> Tail(viewer[v].packets)]
  <2>1. viewer[v].packets # <<>>
        /\ UNCHANGED <<frame, hint, flag, queue, keyframe>>
    BY <1>8 DEF Read
  <2>2. viewer[v].packets \in Seq(BOOLEAN) /\ viewer[v].at \in Places
    BY <1>1 DEF Viewing
  <2>3. Tail(viewer[v].packets) \in Seq(BOOLEAN)
    BY <2>1, <2>2, Taken
  <2>4. w \in Viewing
    BY <2>2, <2>3 DEF Viewing, Places
  <2>5. viewer' = [viewer EXCEPT ![v] = w]
    <3>1. viewer' = [viewer EXCEPT ![v] =
                        [[viewer[v] EXCEPT !.packets = Tail(@)] EXCEPT
                            !.at = IF key THEN "reads" ELSE @]]
      BY <1>1, <1>8 DEF Read
    <3> QED BY <1>1, <3>1, ReadsOne
  <2>6. ASSUME w.at \in {"asked", "waits"}
        PROVE  Requested \/ Contains(w.packets, TRUE)
    <3>1. ~key /\ viewer[v].at \in {"asked", "waits"}
      BY <2>6
    <3>2. Requested \/ Contains(viewer[v].packets, TRUE)
      BY <3>1 DEF NoneForgotten
    <3>3. Contains(viewer[v].packets, TRUE) => Contains(Tail(viewer[v].packets), TRUE)
      BY <2>1, <2>2, <3>1, PacketTail
    <3> QED BY <3>2, <3>3
  <2> HIDE DEF w
  <2>7. w.at \in {"asked", "waits"} => Requested' \/ Contains(w.packets, TRUE)
    BY <1>2, <2>1, <2>6
  <2> QED BY <1>1, <1>2, <2>1, <2>4, <2>5, <2>7, ViewerStep
<1>9. CASE Leaves(v)
  <2>1. Absent \in Viewing /\ Absent.at = "absent"
    BY DEF Absent, Viewing, Places
  <2>2. viewer' = [viewer EXCEPT ![v] = Absent]
        /\ UNCHANGED <<frame, hint, flag, queue, keyframe>>
    BY <1>9 DEF Leaves
  <2> QED BY <1>1, <1>2, <2>1, <2>2, ViewerStep
<1> QED BY <1>4, <1>5, <1>6, <1>7, <1>8, <1>9

\* A viewer that asked for a keyframe and waits for it has one on its way: the
\* request is not lost between keyframe_flag, the channel of the encode thread
\* and the encoder (video_loop, encode thread), for any number of viewers and
\* any sizes of the channels.
THEOREM RequestNeverForgotten == VideoSpec => []RequestNotForgotten
<1>1. VideoInit => VideoTypeOK /\ NoneForgotten
  <2> SUFFICES ASSUME VideoInit PROVE VideoTypeOK /\ NoneForgotten
    OBVIOUS
  <2>1. Absent \in Viewing /\ <<>> \in Seq(Command)
    BY DEF Absent, Viewing, Places
  <2> QED BY <2>1 DEF VideoInit, VideoTypeOK, NoneForgotten, Requested
<1>2. VideoTypeOK /\ NoneForgotten /\ [VideoNext]_videoVars
          => VideoTypeOK' /\ NoneForgotten'
  <2> SUFFICES ASSUME VideoTypeOK, NoneForgotten, [VideoNext]_videoVars
               PROVE  VideoTypeOK' /\ NoneForgotten'
    OBVIOUS
  <2>1. CASE ScreencastFrame \/ BitrateHint \/ UNCHANGED videoVars
    <3>1. UNCHANGED <<flag, queue, keyframe, viewer>>
      BY <2>1 DEF ScreencastFrame, BitrateHint, videoVars
    <3>2. VideoTypeOK'
      BY <2>1 DEF ScreencastFrame, BitrateHint, videoVars, VideoTypeOK
    <3>3. Requested => Requested'
      BY <3>1 DEF Requested, Forced
    <3> QED BY <3>1, <3>2, <3>3, PipelineStep
  <2>2. CASE VideoTask
    BY <2>2, VideoTaskStep
  <2>3. CASE EncodeThread
    BY <2>3, EncodeThreadStep
  <2>4. ASSUME NEW v \in Viewers,
               \/ PeerConnects(v) \/ Answered(v) \/ PlayAsks(v) \/ PlaySubscribes(v)
               \/ Read(v) \/ Leaves(v)
        PROVE  VideoTypeOK' /\ NoneForgotten'
    BY <2>4, ViewersStep
  <2> QED BY <2>1, <2>2, <2>3, <2>4 DEF VideoNext
<1> QED BY <1>1, <1>2, NoneForgottenSuffices, PTL DEF VideoSpec

-----------------------------------------------------------------------------
(* RTP: where a frame is cut                                               *)

\* Division: a quotient and a remainder, and no others.
LEMMA Divides ==
    ASSUME NEW a \in Int, NEW b \in Nat \ {0}
    PROVE  /\ a \div b \in Int /\ a % b \in 0 .. b - 1
           /\ a = b * (a \div b) + (a % b)
  OBVIOUS

\* There is one remainder.
LEMMA OneRemainder ==
    ASSUME NEW a \in Int, NEW b \in Nat \ {0}, NEW q \in Int, NEW r \in 0 .. b - 1,
           a = b * q + r
    PROVE  a % b = r
  OBVIOUS

\* Less than the divisor is its own remainder.
LEMMA NoRemainder ==
    ASSUME NEW b \in Nat \ {0}, NEW a \in 0 .. b - 1
    PROVE  a % b = a
  OBVIOUS

\* Counting modulo b.
LEMMA CountsOn ==
    ASSUME NEW a \in Int, NEW b \in Nat \ {0}
    PROVE  ((a % b) + 1) % b = (a + 1) % b
<1> DEFINE q == a \div b
           r == a % b
<1>1. q \in Int /\ r \in 0 .. b - 1 /\ a = b * q + r
  BY Divides
<1> HIDE DEF q, r
<1>2. CASE r + 1 < b
  <2>1. r + 1 \in 0 .. b - 1 /\ a + 1 = b * q + (r + 1) /\ r + 1 = b * 0 + (r + 1)
    BY <1>1, <1>2
  <2>2. (r + 1) % b = r + 1
    BY <1>1, <2>1, OneRemainder
  <2>3. (a + 1) % b = r + 1
    BY <1>1, <2>1, OneRemainder
  <2> QED BY <2>2, <2>3 DEF r
<1>3. CASE r + 1 = b
  <2>1. 0 \in 0 .. b - 1 /\ a + 1 = b * (q + 1) + 0 /\ r + 1 = b * 1 + 0
    BY <1>1, <1>3
  <2>2. (r + 1) % b = 0
    BY <1>1, <2>1, OneRemainder
  <2>3. (a + 1) % b = 0
    BY <1>1, <2>1, OneRemainder
  <2> QED BY <2>2, <2>3 DEF r
<1> QED BY <1>1, <1>2, <1>3

\* Where the pieces of `len` bytes end.
LEMMA PiecesReach ==
    ASSUME NEW len \in Nat, NEW first \in Nat \ {0}, NEW rest \in Nat \ {0}
    PROVE  /\ Pieces(len, first, rest) \in Nat \ {0}
           /\ Pieces(len, first, rest) = 1 <=> len <= first
           /\ Pieces(len, first, rest) > 1 => first + (Pieces(len, first, rest) - 2) * rest < len
           /\ len <= first + (Pieces(len, first, rest) - 1) * rest
<1> DEFINE n == Pieces(len, first, rest)
           a == len - first + rest - 1
           q == a \div rest
           r == a % rest
<1>1. CASE len <= first
  <2>1. n = 1
    BY <1>1 DEF Pieces
  <2> QED BY <1>1, <2>1
<1>2. CASE len > first
  <2>1. n = 1 + q /\ a \in Int
    BY <1>2 DEF Pieces
  <2>2. q \in Int /\ r \in 0 .. rest - 1 /\ a = rest * q + r
    BY <2>1, Divides
  <2>3. a >= rest /\ rest * q >= rest - (rest - 1)
    BY <1>2, <2>2
  <2> HIDE DEF q, r, n
  <2>4. q >= 1
    BY <2>2, <2>3
  <2>5. first + (n - 2) * rest < len
    <3>1. n - 2 = q - 1 /\ (q - 1) * rest = rest * q - rest
      BY <2>1, <2>2
    <3> QED BY <2>2, <3>1
  <2>6. len <= first + (n - 1) * rest
    <3>1. n - 1 = q /\ q * rest = rest * q
      BY <2>1, <2>2
    <3> QED BY <2>2, <3>1
  <2> QED BY <1>2, <2>1, <2>2, <2>4, <2>5, <2>6 DEF n
<1> QED BY <1>1, <1>2

\* The pieces follow one another, from the first byte to the last, and each has
\* the room that it takes.
LEMMA PiecesCover ==
    ASSUME NEW len \in Nat, NEW first \in Nat \ {0}, NEW rest \in Nat \ {0}, NEW n,
           n = Pieces(len, first, rest)
    PROVE  /\ \A i \in 1 .. n :
                  /\ Piece(i, len, first, rest).from \in Nat /\ Piece(i, len, first, rest).upto \in Nat
                  /\ Piece(i, len, first, rest).upto - Piece(i, len, first, rest).from + 1
                         \in 0 .. (IF i = 1 THEN first ELSE rest)
           /\ Piece(1, len, first, rest).from = 1 /\ Piece(n, len, first, rest).upto = len
           /\ \A i \in 2 .. n : Piece(i, len, first, rest).from =
                                    Piece(i - 1, len, first, rest).upto + 1
<1>1. n \in Nat \ {0} /\ (n = 1 <=> len <= first)
      /\ (n > 1 => first + (n - 2) * rest < len) /\ len <= first + (n - 1) * rest
  BY PiecesReach
<1> DEFINE from(i) == Piece(i, len, first, rest).from
           upto(i) == Piece(i, len, first, rest).upto
           edge(i) == first + (i - 1) * rest
<1>2. ASSUME NEW i \in 1 .. n
      PROVE  /\ from(i) = IF i = 1 THEN 1 ELSE edge(i - 1) + 1
             /\ upto(i) = IF edge(i) > len THEN len ELSE edge(i)
  BY <1>1 DEF Piece
<1>3. ASSUME NEW i \in 1 .. n
      PROVE  edge(i) \in Nat /\ edge(i) >= first
  <2>1. (i - 1) \in Nat
    BY <1>1
  <2>2. (i - 1) * rest \in Nat
    BY <2>1
  <2> QED BY <2>2
<1>4. ASSUME NEW i \in 2 .. n
      PROVE  edge(i) = edge(i - 1) + rest /\ edge(i - 1) < len
  <2>1. (i - 1) * rest = (i - 2) * rest + rest
    BY <1>1
  <2>2. (i - 2) * rest <= (n - 2) * rest
    BY <1>1
  <2>3. n > 1 /\ i - 1 - 1 = i - 2
    BY <1>1
  <2>4. (i - 2) * rest \in Int /\ (n - 2) * rest \in Int
    BY <1>1
  <2> QED BY <1>1, <2>1, <2>2, <2>3, <2>4
<1>5. edge(1) = first /\ len <= edge(n)
  BY <1>1
<1> HIDE DEF edge, from, upto
<1>6. ASSUME NEW i \in 1 .. n
      PROVE  from(i) \in Nat /\ upto(i) \in Nat
             /\ upto(i) - from(i) + 1 \in 0 .. (IF i = 1 THEN first ELSE rest)
  <2>1. CASE i = 1
    BY <1>1, <1>2, <1>5, <2>1
  <2>2. CASE i # 1
    <3>1. i - 1 \in 1 .. n /\ i \in 2 .. n
      BY <1>1, <2>2
    <3>2. edge(i - 1) \in Nat /\ edge(i) = edge(i - 1) + rest /\ edge(i - 1) < len
      BY <1>3, <1>4, <3>1
    <3>3. from(i) = edge(i - 1) + 1 /\ upto(i) = IF edge(i) > len THEN len ELSE edge(i)
      BY <1>2, <2>2
    <3> QED BY <2>2, <3>2, <3>3
  <2> QED BY <2>1, <2>2
<1>7. from(1) = 1 /\ upto(n) = len
  <2>1. 1 \in 1 .. n /\ n \in 1 .. n
    BY <1>1
  <2> QED BY <1>2, <1>3, <1>5, <2>1
<1>8. ASSUME NEW i \in 2 .. n
      PROVE  from(i) = upto(i - 1) + 1
  <2>1. i - 1 \in 1 .. n /\ i \in 1 .. n /\ i # 1
    BY <1>1
  <2>2. from(i) = edge(i - 1) + 1 /\ upto(i - 1) = IF edge(i - 1) > len THEN len ELSE edge(i - 1)
    BY <1>2, <2>1
  <2> QED BY <1>3, <1>4, <2>1, <2>2
<1> QED BY <1>6, <1>7, <1>8 DEF from, upto

-----------------------------------------------------------------------------
Payloads == [part : Nat, from : Nat, upto : Nat, begin : BOOLEAN, end : BOOLEAN, size : Nat]

\* The payloads of the n pieces of `len` bytes.
CutUp(s, n, part, len, first, rest, header) ==
    /\ n = Pieces(len, first, rest) /\ header \in [1 .. n -> Nat]
    /\ s = [i \in 1 .. n |->
               Payload(part, Piece(i, len, first, rest), i = 1, i = n, header[i])]

\* s covers `len` bytes.
Cuts(s, part, len, first, rest, header) ==
    /\ s \in Seq(Payloads) /\ Len(s) = Pieces(len, first, rest) /\ Len(s) > 0
    /\ s[1].from = 1 /\ s[Len(s)].upto = len
    /\ \A i \in 1 .. Len(s) :
          /\ s[i].part = part /\ (s[i].begin <=> i = 1) /\ (s[i].end <=> i = Len(s))
          /\ s[i].size \in header[i] .. header[i] + (IF i = 1 THEN first ELSE rest)
    /\ \A i \in 2 .. Len(s) : s[i].from = s[i - 1].upto + 1
    /\ s[1].size = header[1] + s[1].upto

\* So do they.
LEMMA PayloadsCut ==
    ASSUME NEW part \in Nat, NEW len \in Nat, NEW first \in Nat \ {0}, NEW rest \in Nat \ {0},
           NEW n, NEW header, NEW s, CutUp(s, n, part, len, first, rest, header)
    PROVE  Cuts(s, part, len, first, rest, header)
<1>0. /\ n = Pieces(len, first, rest) /\ header \in [1 .. n -> Nat]
      /\ s = [i \in 1 .. n |->
                 Payload(part, Piece(i, len, first, rest), i = 1, i = n, header[i])]
  BY DEF CutUp
<1> DEFINE piece(i) == Piece(i, len, first, rest)
<1>1. n \in Nat \ {0}
  BY <1>0, PiecesReach
<1>2. /\ \A i \in 1 .. n :
            /\ piece(i).from \in Nat /\ piece(i).upto \in Nat
            /\ piece(i).upto - piece(i).from + 1 \in 0 .. (IF i = 1 THEN first ELSE rest)
      /\ piece(1).from = 1 /\ piece(n).upto = len
      /\ \A i \in 2 .. n : piece(i).from = piece(i - 1).upto + 1
  BY <1>0, PiecesCover
<1> HIDE DEF piece
<1>3. ASSUME NEW i \in 1 .. n
      PROVE  /\ s[i].part = part /\ s[i].from = piece(i).from /\ s[i].upto = piece(i).upto
             /\ (s[i].begin <=> i = 1) /\ (s[i].end <=> i = n)
             /\ s[i].size = header[i] + piece(i).upto - piece(i).from + 1
  BY <1>0 DEF Payload, piece
<1>4. ASSUME NEW i \in 1 .. n
      PROVE  s[i].size \in Nat
             /\ s[i].size \in header[i] .. header[i] + (IF i = 1 THEN first ELSE rest)
  <2>1. header[i] \in Nat
    BY <1>0
  <2> QED BY <1>2, <1>3, <2>1
<1>5. ASSUME NEW i \in 1 .. n
      PROVE  s[i] \in Payloads
  <2> DEFINE begin == (i = 1)
             end == (i = n)
             size == header[i] + piece(i).upto - piece(i).from + 1
  <2>1. s[i] = [part |-> part, from |-> piece(i).from, upto |-> piece(i).upto,
                begin |-> begin, end |-> end, size |-> size]
    BY <1>0 DEF Payload, piece
  <2>2. begin \in BOOLEAN /\ end \in BOOLEAN
    OBVIOUS
  <2>3. size \in Nat /\ piece(i).from \in Nat /\ piece(i).upto \in Nat
    BY <1>2, <1>3, <1>4
  <2> HIDE DEF begin, end, size
  <2> QED BY <2>1, <2>2, <2>3 DEF Payloads
<1>6. s \in Seq(Payloads) /\ Len(s) = n
  <2>1. s = [i \in 1 .. n |-> s[i]]
    BY <1>0
  <2> QED BY <1>1, <1>5, <2>1
<1>7. ASSUME NEW i \in 2 .. n
      PROVE  s[i].from = s[i - 1].upto + 1
  <2>1. i \in 1 .. n /\ i - 1 \in 1 .. n
    BY <1>1
  <2>2. s[i].from = piece(i).from /\ s[i - 1].upto = piece(i - 1).upto
    BY <1>3, <2>1
  <2> QED BY <1>2, <2>2
<1>8. s[1].from = 1 /\ s[n].upto = len /\ s[1].size = header[1] + s[1].upto
  <2>1. 1 \in 1 .. n /\ n \in 1 .. n /\ header[1] \in Nat
    BY <1>0, <1>1
  <2>2. s[1].from = 1 /\ s[n].upto = len
    BY <1>2, <1>3, <2>1
  <2>3. s[1].size = header[1] + s[1].upto - 1 + 1 /\ s[1].upto \in Nat
    BY <1>2, <1>3, <2>1
  <2> QED BY <2>1, <2>2, <2>3
<1>9. ASSUME NEW i \in 1 .. Len(s)
      PROVE  /\ s[i].part = part /\ (s[i].begin <=> i = 1) /\ (s[i].end <=> i = Len(s))
             /\ s[i].size \in header[i] .. header[i] + (IF i = 1 THEN first ELSE rest)
  <2>1. i \in 1 .. n
    BY <1>6
  <2> QED BY <1>3, <1>4, <1>6, <2>1
<1>10. \A i \in 2 .. Len(s) : s[i].from = s[i - 1].upto + 1
  BY <1>6, <1>7
<1>11. Len(s) = Pieces(len, first, rest) /\ Len(s) > 0 /\ s[Len(s)].upto = len
  BY <1>0, <1>1, <1>6, <1>8
<1> QED
  <2> HIDE DEF Payloads
  <2> QED BY <1>6, <1>8, <1>9, <1>10, <1>11 DEF Cuts

\* s is all of part k, `whole` bytes or, in pieces, `cut`; none is larger than max.
IsPart(s, k, whole, cut, max) ==
    /\ s \in Seq(Payloads) /\ Len(s) > 0
    /\ \A i \in 1 .. Len(s) : s[i].part = k /\ s[i].size <= max
    /\ s[1].begin /\ s[1].from = 1 /\ s[Len(s)].end
    /\ s[Len(s)].upto = IF Len(s) > 1 THEN cut ELSE whole
    /\ \A i \in 2 .. Len(s) :
          s[i].from = s[i - 1].upto + 1 /\ ~s[i].begin /\ ~s[i - 1].end

\* What a sequence of pieces is.
LEMMA CutsIsPart ==
    ASSUME NEW s, NEW k, NEW len, NEW first, NEW rest, NEW header, NEW max,
           Cuts(s, k, len, first, rest, header),
           \A i \in 1 .. Len(s) : s[i].size <= max
    PROVE  IsPart(s, k, len, len, max)
<1>1. /\ s \in Seq(Payloads) /\ Len(s) \in Nat /\ Len(s) > 0
      /\ s[1].from = 1 /\ s[Len(s)].upto = len
      /\ \A i \in 1 .. Len(s) : s[i].part = k /\ (s[i].begin <=> i = 1) /\ (s[i].end <=> i = Len(s))
      /\ \A i \in 2 .. Len(s) : s[i].from = s[i - 1].upto + 1
  BY DEF Cuts
<1>2. s[1].begin /\ s[Len(s)].end
  BY <1>1
<1>3. ASSUME NEW i \in 2 .. Len(s)
      PROVE  s[i].from = s[i - 1].upto + 1 /\ ~s[i].begin /\ ~s[i - 1].end
  <2>1. i \in 1 .. Len(s) /\ i - 1 \in 1 .. Len(s) /\ i # 1 /\ i - 1 # Len(s)
    BY <1>1
  <2> QED BY <1>1, <2>1
<1>4. \A i \in 1 .. Len(s) : s[i].part = k /\ s[i].size <= max
  BY <1>1
<1> QED BY <1>1, <1>2, <1>3, <1>4 DEF IsPart

\* FU-A: a NAL unit that does not fit into one packet.
LEMMA FragmentFits ==
    ASSUME NEW k \in Nat, NEW len \in Nat, len > Mtu - RtpHeader
    PROVE  IsPart(fragment_fu_a(k, len), k, len, len - 1, Mtu - RtpHeader)
<1> DEFINE room == Mtu - RtpHeader - FuHeader
           bytes == len - 1
           n == Pieces(bytes, room, room)
           header == [i \in 1 .. n |-> FuHeader]
           s == fragment_fu_a(k, len)
<1>1. /\ Mtu \in Nat /\ RtpHeader \in Nat /\ FuHeader \in Nat /\ room \in Nat \ {0}
      /\ bytes \in Nat /\ bytes > room
  BY RtpAssumption
<1>2. s = [i \in 1 .. n |->
              Payload(k, Piece(i, bytes, room, room), i = 1, i = n, header[i])]
  BY DEF fragment_fu_a
<1> HIDE DEF room, bytes, s
<1>3. n > 1
  <2>1. n \in Nat \ {0} /\ (n = 1 <=> bytes <= room)
    BY <1>1, PiecesReach
  <2> HIDE DEF n
  <2>2. bytes \in Int /\ room \in Int
    BY <1>1
  <2> QED BY <1>1, <2>1, <2>2
<1>4. header \in [1 .. n -> Nat] /\ n = Pieces(bytes, room, room)
  BY <1>1
<1> HIDE DEF n, header
<1>5. Cuts(s, k, bytes, room, room, header)
  <2>1. CutUp(s, n, k, bytes, room, room, header)
    BY <1>2, <1>4 DEF CutUp
  <2> QED BY <1>1, <2>1, PayloadsCut
<1>6. Len(s) = n
  BY <1>4, <1>5 DEF Cuts
<1>7. ASSUME NEW i \in 1 .. Len(s)
      PROVE  s[i].size <= Mtu - RtpHeader
  <2>1. header[i] = FuHeader /\ s[i].size \in header[i] .. header[i] + room
    BY <1>5, <1>6 DEF Cuts, header
  <2>2. FuHeader + room = Mtu - RtpHeader
    BY <1>1 DEF room
  <2> QED BY <1>1, <2>1, <2>2
<1>8. IsPart(s, k, bytes, bytes, Mtu - RtpHeader)
  BY <1>5, <1>7, CutsIsPart
<1>9. IsPart(s, k, len, bytes, Mtu - RtpHeader)
  BY <1>3, <1>6, <1>8 DEF IsPart
<1> QED BY <1>9 DEF s, bytes

\* A VP9 frame, where the RTP header is left out.
LEMMA Vp9Fits ==
    ASSUME NEW len \in Nat, NEW key \in BOOLEAN
    PROVE  IsPart(Vp9Packetizer(len, key), 1, len, len, Mtu)
<1> DEFINE first == Mtu - Descriptor - (IF key THEN Structure ELSE 0)
           rest == Mtu - Descriptor
           n == Pieces(len, first, rest)
           header == [i \in 1 .. n |-> IF i = 1 /\ (key \/ len = 0) THEN Descriptor + Structure
                                                                  ELSE Descriptor]
           s == Vp9Packetizer(len, key)
<1>1. /\ Mtu \in Nat /\ Descriptor \in Nat /\ Structure \in Nat /\ Descriptor + Structure < Mtu
      /\ first \in Nat \ {0} /\ rest \in Nat \ {0} /\ Descriptor + rest = Mtu
      /\ key => Descriptor + Structure + first = Mtu
      /\ ~key => Descriptor + first = Mtu
  BY RtpAssumption
<1>2. s = [i \in 1 .. n |-> Payload(1, Piece(i, len, first, rest), i = 1, i = n, header[i])]
  BY DEF Vp9Packetizer
<1> HIDE DEF first, rest, s
<1>3. header \in [1 .. n -> Nat] /\ n = Pieces(len, first, rest)
  BY <1>1
<1>4. n \in Nat \ {0}
  BY <1>1, PiecesReach
<1>5. ASSUME NEW i \in 1 .. n
      PROVE  header[i] = IF i = 1 /\ (key \/ len = 0) THEN Descriptor + Structure ELSE Descriptor
  OBVIOUS
<1> HIDE DEF n, header
<1>6. Cuts(s, 1, len, first, rest, header)
  <2>1. CutUp(s, n, 1, len, first, rest, header)
    BY <1>2, <1>3 DEF CutUp
  <2> QED BY <1>1, <2>1, PayloadsCut
<1>7. Len(s) = n
  BY <1>3, <1>6 DEF Cuts
<1>8. ASSUME NEW i \in 1 .. Len(s)
      PROVE  s[i].size <= Mtu
  <2>1. s[i].size \in header[i] .. header[i] + (IF i = 1 THEN first ELSE rest)
    BY <1>6 DEF Cuts
  <2>2. CASE i # 1
    BY <1>1, <1>5, <1>7, <2>1, <2>2
  <2>3. CASE i = 1 /\ (key \/ len # 0)
    BY <1>1, <1>5, <1>7, <2>1, <2>3
  <2>4. CASE i = 1 /\ len = 0
    <3>1. n = 1
      BY <1>1, <1>3, <2>4 DEF Pieces
    <3>2. s[1].size = header[1] + s[1].upto /\ s[1].upto = 0
      BY <1>6, <1>7, <2>4, <3>1 DEF Cuts
    <3>3. header[1] = Descriptor + Structure
      BY <1>5, <2>4, <3>1
    <3> QED BY <1>1, <2>4, <3>2, <3>3
  <2> QED BY <2>2, <2>3, <2>4
<1>9. IsPart(s, 1, len, len, Mtu)
  BY <1>6, <1>8, CutsIsPart
<1> QED BY <1>9 DEF s

\* A NAL unit that fits into one packet.
LEMMA SingleFits ==
    ASSUME NEW k \in Nat, NEW len \in Nat \ {0}, NEW cut, NEW max \in Nat, len <= max
    PROVE  IsPart(<<Payload(k, [from |-> 1, upto |-> len], TRUE, TRUE, 0)>>, k, len, cut, max)
<1> DEFINE p == Payload(k, [from |-> 1, upto |-> len], TRUE, TRUE, 0)
           s == <<p>>
           yes == (k = k)
           size == 0 + len - 1 + 1
<1>0. yes /\ yes \in BOOLEAN /\ size = len
  OBVIOUS
<1>1. p = [part |-> k, from |-> 1, upto |-> len, begin |-> yes, end |-> yes, size |-> size]
  BY DEF Payload
<1> HIDE DEF yes, size, p
<1>2. p \in Payloads
  BY <1>0, <1>1 DEF Payloads
<1>3. p.part = k /\ p.size = len /\ p.begin /\ p.end /\ p.from = 1 /\ p.upto = len
  BY <1>0, <1>1
<1>4. s \in Seq(Payloads) /\ Len(s) = 1 /\ s[1] = p /\ 1 .. Len(s) = {1} /\ 2 .. Len(s) = {}
  BY <1>2
<1> HIDE DEF s
<1>5. IsPart(s, k, len, cut, max)
  BY <1>3, <1>4 DEF IsPart
<1> QED BY <1>5 DEF s, p

-----------------------------------------------------------------------------
\* first .. last are the positions of part k in p, and what is there is all of it.
PartAt(p, first, last, k, whole, cut) ==
    /\ first <= last
    /\ \A i \in 1 .. Len(p) : p[i].part = k <=> i \in first .. last
    /\ p[first].begin /\ p[first].from = 1 /\ p[last].end
    /\ p[last].upto = IF first < last THEN cut ELSE whole
    /\ \A i \in first + 1 .. last :
          p[i].from = p[i - 1].upto + 1 /\ ~p[i].begin /\ ~p[i - 1].end

\* p holds the parts up to m, and nothing else.
Holds(p, m, whole, cut, max) ==
    /\ p \in Seq(Payloads)
    /\ \A i \in 1 .. Len(p) : p[i].part \in 1 .. m /\ p[i].size <= max
    /\ \A k \in 1 .. m : \E first, last \in 1 .. Len(p) :
          PartAt(p, first, last, k, whole[k], cut[k])

\* Then one more part goes behind them.
LEMMA HoldsOneMore ==
    ASSUME NEW p, NEW m \in Nat, NEW whole, NEW cut, NEW max, Holds(p, m, whole, cut, max),
           NEW s, IsPart(s, m + 1, whole[m + 1], cut[m + 1], max)
    PROVE  Holds(p \o s, m + 1, whole, cut, max)
<1> DEFINE q == p \o s
           a == Len(p)
           b == Len(s)
<1>1. p \in Seq(Payloads) /\ s \in Seq(Payloads) /\ a \in Nat /\ b \in Nat \ {0}
  BY DEF Holds, IsPart
<1>2. q \in Seq(Payloads) /\ Len(q) = a + b
  BY <1>1
<1>3. \A i \in 1 .. a : q[i] = p[i]
  BY <1>1
<1>4. \A i \in 1 .. b : q[a + i] = s[i]
  BY <1>1
<1>5. /\ \A i \in 1 .. a : p[i].part \in 1 .. m /\ p[i].size <= max
      /\ \A k \in 1 .. m : \E first, last \in 1 .. a : PartAt(p, first, last, k, whole[k], cut[k])
  BY DEF Holds
<1>6. /\ \A i \in 1 .. b : s[i].part = m + 1 /\ s[i].size <= max
      /\ s[1].begin /\ s[1].from = 1 /\ s[b].end
      /\ s[b].upto = IF b > 1 THEN cut[m + 1] ELSE whole[m + 1]
      /\ \A i \in 2 .. b : s[i].from = s[i - 1].upto + 1 /\ ~s[i].begin /\ ~s[i - 1].end
  BY DEF IsPart
<1> HIDE DEF q, a, b
<1>7. ASSUME NEW i \in 1 .. a + b
      PROVE  \/ i \in 1 .. a /\ q[i] = p[i] /\ q[i].part \in 1 .. m
             \/ i - a \in 1 .. b /\ q[i] = s[i - a] /\ q[i].part = m + 1
  <2>1. CASE i <= a
    BY <1>1, <1>3, <1>5, <2>1
  <2>2. CASE i > a
    <3>1. i - a \in 1 .. b /\ a + (i - a) = i
      BY <1>1, <2>2
    <3> QED BY <1>4, <1>6, <3>1
  <2> QED BY <1>1, <2>1, <2>2
<1>8. \A i \in 1 .. a + b : q[i].part \in 1 .. m + 1 /\ q[i].size <= max
  BY <1>5, <1>6, <1>7
<1>9. ASSUME NEW k \in 1 .. m
      PROVE  \E first, last \in 1 .. a + b : PartAt(q, first, last, k, whole[k], cut[k])
  <2>1. PICK first \in 1 .. a, last \in 1 .. a : PartAt(p, first, last, k, whole[k], cut[k])
    BY <1>5
  <2>2. /\ first <= last
        /\ \A i \in 1 .. a : p[i].part = k <=> i \in first .. last
        /\ p[first].begin /\ p[first].from = 1 /\ p[last].end
        /\ p[last].upto = IF first < last THEN cut[k] ELSE whole[k]
        /\ \A i \in first + 1 .. last :
              p[i].from = p[i - 1].upto + 1 /\ ~p[i].begin /\ ~p[i - 1].end
    BY <2>1 DEF PartAt, a
  <2>3. q[first] = p[first] /\ q[last] = p[last] /\ first \in 1 .. a + b /\ last \in 1 .. a + b
    BY <1>1, <1>3
  <2>4. ASSUME NEW i \in 1 .. a + b
        PROVE  q[i].part = k <=> i \in first .. last
    <3>1. CASE i \in 1 .. a /\ q[i] = p[i]
      BY <2>2, <3>1
    <3>2. CASE i - a \in 1 .. b /\ q[i].part = m + 1
      BY <1>1, <3>2
    <3> QED BY <1>7, <3>1, <3>2
  <2>5. ASSUME NEW i \in first + 1 .. last
        PROVE  q[i].from = q[i - 1].upto + 1 /\ ~q[i].begin /\ ~q[i - 1].end
    <3>1. i \in 1 .. a /\ i - 1 \in 1 .. a
      BY <1>1
    <3> QED BY <1>3, <2>2, <3>1
  <2>6. PartAt(q, first, last, k, whole[k], cut[k])
    BY <1>2, <2>2, <2>3, <2>4, <2>5 DEF PartAt
  <2> QED BY <2>3, <2>6
<1>10. \E first, last \in 1 .. a + b : PartAt(q, first, last, m + 1, whole[m + 1], cut[m + 1])
  <2>1. a + 1 \in 1 .. a + b /\ a + b \in 1 .. a + b /\ 1 \in 1 .. b /\ b \in 1 .. b
    BY <1>1
  <2>2. q[a + 1] = s[1] /\ q[a + b] = s[b]
    BY <1>4, <2>1
  <2>3. ASSUME NEW i \in 1 .. a + b
        PROVE  q[i].part = m + 1 <=> i \in a + 1 .. a + b
    BY <1>1, <1>7
  <2>4. ASSUME NEW i \in a + 2 .. a + b
        PROVE  q[i].from = q[i - 1].upto + 1 /\ ~q[i].begin /\ ~q[i - 1].end
    <3>1. /\ i - a \in 2 .. b /\ i - a \in 1 .. b /\ i - a - 1 \in 1 .. b
          /\ a + (i - a) = i /\ a + (i - a - 1) = i - 1
      BY <1>1
    <3>2. q[i] = s[i - a] /\ q[i - 1] = s[i - a - 1]
      BY <1>4, <3>1
    <3> QED BY <1>6, <3>1, <3>2
  <2>5. PartAt(q, a + 1, a + b, m + 1, whole[m + 1], cut[m + 1])
    <3>1. a + 1 <= a + b /\ (a + 1 < a + b <=> b > 1) /\ a + 1 + 1 = a + 2
      BY <1>1
    <3> QED BY <1>2, <1>6, <2>2, <2>3, <2>4, <3>1 DEF PartAt
  <2> QED BY <2>1, <2>5
<1>11. Holds(q, m + 1, whole, cut, max)
  <2>1. ASSUME NEW k \in 1 .. m + 1
        PROVE  \E first, last \in 1 .. Len(q) : PartAt(q, first, last, k, whole[k], cut[k])
    <3>1. CASE k = m + 1
      BY <1>2, <1>10, <3>1
    <3>2. CASE k # m + 1
      <4>1. k \in 1 .. m
        BY <3>2
      <4> QED BY <1>2, <1>9, <4>1
    <3> QED BY <3>1, <3>2
  <2> QED BY <1>2, <1>8, <2>1 DEF Holds
<1> QED BY <1>11 DEF q

\* All of them, one after another.
LEMMA FlattenHolds ==
    ASSUME NEW seqs \in Seq(Seq(Payloads)), NEW whole, NEW cut, NEW max,
           \A k \in 1 .. Len(seqs) : IsPart(seqs[k], k, whole[k], cut[k], max)
    PROVE  Holds(FlattenSeq(seqs), Len(seqs), whole, cut, max)
<1> DEFINE n == Len(seqs)
           S == Payloads
<1>1. PICK f \in [0 .. n -> Seq(S)] :
          /\ f[0] = <<>>
          /\ \A i \in 1 .. n : f[i] = f[i - 1] \o seqs[i]
          /\ FlattenSeq(seqs) = f[n]
  <2>1. seqs \in Seq(Seq(S))
    OBVIOUS
  <2> HIDE DEF S
  <2> QED BY <2>1, Flattens
<1>2. n \in Nat
  OBVIOUS
<1> HIDE DEF n, S
<1> DEFINE T == {i \in 0 .. n : Holds(f[i], i, whole, cut, max)}
<1>3. 0 \in T
  <2>1. f[0] \in Seq(Payloads) /\ Len(f[0]) = 0
    BY <1>1
  <2>2. 1 .. 0 = {}
    OBVIOUS
  <2>3. Holds(f[0], 0, whole, cut, max)
    BY <2>1, <2>2 DEF Holds
  <2> QED BY <1>2, <2>3
<1>4. ASSUME NEW i \in T, i < n
      PROVE  i + 1 \in T
  <2>1. /\ i \in Nat /\ i + 1 \in 1 .. n /\ i + 1 \in 0 .. n /\ i + 1 - 1 = i
        /\ Holds(f[i], i, whole, cut, max)
    BY <1>2, <1>4
  <2>2. f[i + 1] = f[i] \o seqs[i + 1]
    <3> DEFINE j == i + 1
    <3>1. j \in 1 .. n /\ j - 1 = i
      BY <2>1
    <3> HIDE DEF j
    <3>2. f[j] = f[j - 1] \o seqs[j]
      BY <1>1, <3>1
    <3>3. f[j] = f[i] \o seqs[j]
      BY <3>1, <3>2
    <3> QED BY <3>3 DEF j
  <2>3. IsPart(seqs[i + 1], i + 1, whole[i + 1], cut[i + 1], max)
    BY <2>1 DEF n
  <2>4. Holds(f[i + 1], i + 1, whole, cut, max)
    BY <2>1, <2>2, <2>3, HoldsOneMore
  <2> QED BY <2>1, <2>4
<1>5. T = 0 .. n
  <2>1. T \in SUBSET (0 .. n)
    OBVIOUS
  <2> HIDE DEF T
  <2> QED BY <1>2, <1>3, <1>4, <2>1, Induction
<1>6. Holds(f[n], n, whole, cut, max)
  <2>1. n \in 0 .. n
    BY <1>2
  <2>2. n \in T
    <3> HIDE DEF T
    <3> QED BY <1>5, <2>1
  <2> QED BY <2>2
<1> QED BY <1>1, <1>6 DEF n

-----------------------------------------------------------------------------
\* What is left of part k when it is cut, and the largest payload.
CutParts(f) == [k \in DOMAIN f.parts |-> IF f.codec = "H264" THEN f.parts[k] - 1 ELSE f.parts[k]]

Largest(f) == IF f.codec = "H264" THEN Mtu - RtpHeader ELSE Mtu

\* The frames that encoders make.
LEMMA FramesAre ==
    ASSUME NEW f \in Frames
    PROVE  /\ f.codec = "H264" => f.parts \in Seq(Nat \ {0})
           /\ f.codec # "H264" => /\ f.parts \in Seq(Nat) /\ Len(f.parts) = 1
                                  /\ f.parts[1] \in Nat /\ f.key \in BOOLEAN
<1> DEFINE H == {<<>>} \cup {<<a>> : a \in NalSizes} \cup {<<a, b>> : a, b \in NalSizes}
           V == {<<a>> : a \in FrameSizes}
<1>1. ASSUME NEW p \in H
      PROVE  p \in Seq(Nat \ {0})
  <2>1. CASE p = <<>>
    BY <2>1
  <2>2. CASE \E a \in NalSizes : p = <<a>>
    <3>1. PICK a \in Nat \ {0} : p = <<a>>
      BY <2>2, RtpAssumption
    <3> QED BY <3>1
  <2>3. CASE \E a, b \in NalSizes : p = <<a, b>>
    <3>1. PICK a \in Nat \ {0}, b \in Nat \ {0} : p = <<a, b>>
      BY <2>3, RtpAssumption
    <3> QED BY <3>1
  <2> QED BY <2>1, <2>2, <2>3
<1>2. ASSUME NEW p \in V
      PROVE  p \in Seq(Nat) /\ Len(p) = 1 /\ p[1] \in Nat
  <2>1. PICK a \in Nat : p = <<a>>
    BY RtpAssumption
  <2> QED BY <2>1
<1>3. Frames = [parts : H, codec : {"H264"}, key : {FALSE}] \cup
               [parts : V, codec : {"Vp9"}, key : BOOLEAN]
  BY DEF Frames
<1> HIDE DEF H, V
<1>4. CASE f \in [parts : H, codec : {"H264"}, key : {FALSE}]
  BY <1>1, <1>4
<1>5. CASE f \in [parts : V, codec : {"Vp9"}, key : BOOLEAN]
  BY <1>2, <1>5
<1> QED BY <1>3, <1>4, <1>5

\* What the packetizers make of them.
LEMMA PacketizerHolds ==
    ASSUME NEW f \in Frames
    PROVE  Holds(packetize(f), Len(f.parts), f.parts, CutParts(f), Largest(f))
<1>1. CASE f.codec = "H264"
  <2> DEFINE nals == f.parts
             max == Mtu - RtpHeader
             seqs == [k \in DOMAIN nals |->
                 IF nals[k] <= Mtu - RtpHeader
                 THEN <<Payload(k, [from |-> 1, upto |-> nals[k]], TRUE, TRUE, 0)>>
                 ELSE fragment_fu_a(k, nals[k])]
  <2>1. nals \in Seq(Nat \ {0})
    BY <1>1, FramesAre
  <2>2. packetize(f) = FlattenSeq(seqs)
    BY <1>1 DEF packetize, H264Packetizer
  <2>3. max \in Nat /\ Largest(f) = max
    BY <1>1, RtpAssumption DEF Largest
  <2> HIDE DEF nals
  <2>4. DOMAIN nals = 1 .. Len(nals) /\ Len(nals) \in Nat
    BY <2>1
  <2>5. ASSUME NEW k \in 1 .. Len(nals)
        PROVE  IsPart(seqs[k], k, nals[k], nals[k] - 1, max)
    <3>1. nals[k] \in Nat \ {0} /\ k \in Nat
      BY <2>1
    <3>2. CASE nals[k] <= Mtu - RtpHeader
      <4>1. seqs[k] = <<Payload(k, [from |-> 1, upto |-> nals[k]], TRUE, TRUE, 0)>>
        BY <2>4, <3>2
      <4> HIDE DEF seqs
      <4> QED BY <2>3, <3>1, <3>2, <4>1, SingleFits
    <3>3. CASE nals[k] > Mtu - RtpHeader
      <4>1. ~(nals[k] <= Mtu - RtpHeader)
        BY <2>3, <3>1, <3>3
      <4>2. seqs[k] = fragment_fu_a(k, nals[k])
        BY <2>4, <4>1
      <4> HIDE DEF seqs
      <4> QED BY <3>1, <3>3, <4>2, FragmentFits
    <3> QED BY <2>3, <3>1, <3>2, <3>3
  <2>6. seqs \in Seq(Seq(Payloads)) /\ Len(seqs) = Len(nals)
    <3>1. \A k \in 1 .. Len(nals) : seqs[k] \in Seq(Payloads)
      BY <2>5 DEF IsPart
    <3>2. seqs = [k \in 1 .. Len(nals) |-> seqs[k]]
      BY <2>4
    <3> HIDE DEF seqs
    <3> QED BY <2>4, <3>1, <3>2
  <2> HIDE DEF seqs, max
  <2>7. \A k \in 1 .. Len(seqs) : IsPart(seqs[k], k, nals[k], CutParts(f)[k], max)
    <3>1. \A k \in 1 .. Len(nals) : CutParts(f)[k] = nals[k] - 1
      BY <1>1, <2>4 DEF CutParts, nals
    <3> QED BY <2>5, <2>6, <3>1
  <2>8. Holds(FlattenSeq(seqs), Len(seqs), nals, CutParts(f), max)
    BY <2>6, <2>7, FlattenHolds
  <2> QED BY <2>2, <2>3, <2>6, <2>8 DEF nals
<1>2. CASE f.codec # "H264"
  <2> DEFINE s == Vp9Packetizer(f.parts[1], f.key)
             none == <<>>
  <2>1. f.parts \in Seq(Nat) /\ Len(f.parts) = 1 /\ f.parts[1] \in Nat /\ f.key \in BOOLEAN
    BY <1>2, FramesAre
  <2>2. packetize(f) = s /\ Largest(f) = Mtu
    BY <1>2 DEF packetize, Largest
  <2>3. CutParts(f)[1] = f.parts[1]
    BY <1>2, <2>1 DEF CutParts
  <2>4. IsPart(s, 1, f.parts[1], f.parts[1], Mtu)
    BY <2>1, Vp9Fits
  <2> HIDE DEF s
  <2>5. Holds(none, 0, f.parts, CutParts(f), Mtu)
    <3>1. none \in Seq(Payloads) /\ Len(none) = 0 /\ 1 .. 0 = {}
      OBVIOUS
    <3> HIDE DEF none
    <3> QED BY <3>1 DEF Holds
  <2>6. none \o s = s
    BY <2>4 DEF IsPart
  <2>7. IsPart(s, 0 + 1, f.parts[0 + 1], CutParts(f)[0 + 1], Mtu)
    BY <2>3, <2>4
  <2> HIDE DEF none
  <2>8. Holds(none \o s, 0 + 1, f.parts, CutParts(f), Mtu)
    BY <2>5, <2>7, HoldsOneMore
  <2> QED BY <2>1, <2>2, <2>6, <2>8
<1> QED BY <1>1, <1>2

\* So that a frame can be put together again.
LEMMA HoldsCarries ==
    ASSUME NEW f \in Frames
    PROVE  Carries(packetize(f), f)
<1> DEFINE p == packetize(f)
<1>1. Holds(p, Len(f.parts), f.parts, CutParts(f), Largest(f))
  BY PacketizerHolds
<1>2. f.parts \in Seq(Nat)
  BY FramesAre
<1> HIDE DEF p
<1>3. DOMAIN f.parts = 1 .. Len(f.parts) /\ p \in Seq(Payloads) /\ DOMAIN p = 1 .. Len(p)
  BY <1>1, <1>2 DEF Holds
<1>4. ASSUME NEW k \in DOMAIN f.parts
      PROVE  CarriesPart(p, f, k)
  <2>1. PICK first \in 1 .. Len(p), last \in 1 .. Len(p) :
            PartAt(p, first, last, k, f.parts[k], CutParts(f)[k])
    BY <1>1, <1>3 DEF Holds
  <2>2. CutParts(f)[k] = IF f.codec = "H264" THEN f.parts[k] - 1 ELSE f.parts[k]
    BY DEF CutParts
  <2>3. p[last].upto = IF first < last /\ f.codec = "H264" THEN f.parts[k] - 1 ELSE f.parts[k]
    BY <2>1, <2>2 DEF PartAt
  <2> QED BY <1>3, <2>1, <2>3 DEF PartAt, CarriesPart
<1>5. \A i \in DOMAIN p : p[i].part \in DOMAIN f.parts
  BY <1>1, <1>3 DEF Holds
<1> QED BY <1>4, <1>5 DEF Carries, p

-----------------------------------------------------------------------------
(* The stream                                                              *)

Packets == [payload : Payloads, seq : Nat, timestamp : Nat, marker : BOOLEAN]

RtpTypes ==
    /\ seq \in 0 .. SeqNumbers - 1 /\ timestamp \in Nat
    /\ sending \in Seq(Payloads) /\ sent \in Seq(Packets)
    /\ frames \in Seq([frame : Frames, timestamp : Nat])

\* What is sent and what is left to send fits the stream's codec.
AllFit ==
    /\ \A i \in DOMAIN frames : frames[i].frame.codec = frames[1].frame.codec
    /\ sent # <<>> \/ sending # <<>> => frames # <<>>
    /\ \A i \in DOMAIN sent : sent[i].payload.size <= Largest(frames[1].frame)
    /\ \A i \in DOMAIN sending : sending[i].size <= Largest(frames[1].frame)

Newest == frames[Len(frames)]

\* The packets behind the first `base` are the beginning of the newest frame, and
\* what is left to send is the rest of it.
Underway(base) ==
    /\ base > 0 => sent[base].marker
    /\ Len(packetize(Newest.frame)) = Len(sent) - base + Len(sending)
    /\ \A k \in 1 .. Len(sending) :
          sending[k] = packetize(Newest.frame)[Len(sent) - base + k]
    /\ \A k \in 1 .. Len(sent) - base :
          /\ sent[base + k].payload = packetize(Newest.frame)[k]
          /\ sent[base + k].timestamp = Newest.timestamp
          /\ sent[base + k].seq = (sent[base + 1].seq + k - 1) % SeqNumbers
          /\ ~sent[base + k].marker
    /\ base < Len(sent) => seq = (sent[base + 1].seq + Len(sent) - base) % SeqNumbers
    /\ Newest.timestamp = timestamp

\* Between two frames the last packet has a marker.
Current ==
    /\ ended => sending = <<>>
    /\ ~ended /\ sending = <<>> /\ sent # <<>> => sent[Len(sent)].marker
    /\ sending # <<>> => \E base \in 0 .. Len(sent) : Underway(base)

RtpInv == RtpTypes /\ AllFit /\ Current /\ FramesArriveWhole

\* What was sent stays what it is.
LEMMA SentStays ==
    ASSUME RtpTypes, NEW i \in DOMAIN sent, NEW j \in DOMAIN sent,
           \A k \in DOMAIN sent : sent'[k] = sent[k]
    PROVE  /\ Unit(i, j)' => Unit(i, j)
           /\ \A f : Whole(i, j, f) => Whole(i, j, f)'
<1> DEFINE a == Len(sent)
<1>1. DOMAIN sent = 1 .. a /\ a \in Nat
  BY DEF RtpTypes
<1> HIDE DEF a
<1>2. ASSUME Unit(i, j)' PROVE Unit(i, j)
  <2>1. /\ i <= j /\ sent'[j].marker /\ (i > 1 => sent'[i - 1].marker)
        /\ \A k \in i .. j - 1 : ~sent'[k].marker
    BY <1>2 DEF Unit
  <2>2. \A k \in i .. j - 1 : sent'[k] = sent[k]
    BY <1>1
  <2>3. i > 1 => sent'[i - 1] = sent[i - 1]
    BY <1>1
  <2> QED BY <2>1, <2>2, <2>3 DEF Unit
<1>3. ASSUME NEW f, Whole(i, j, f) PROVE Whole(i, j, f)'
  <2>1. \A k \in i .. j : sent'[k] = sent[k]
    BY <1>1
  <2>2. ASSUME NEW k \in 1 .. j - i + 1 PROVE sent'[i + k - 1] = sent[i + k - 1]
    BY <1>1
  <2>3. [k \in 1 .. j - i + 1 |-> sent'[i + k - 1].payload] =
            [k \in 1 .. j - i + 1 |-> sent[i + k - 1].payload]
    BY <2>2
  <2>4. \A k \in i .. j : sent'[k].timestamp = f.timestamp
                         /\ sent'[k].seq = (sent'[i].seq + k - i) % SeqNumbers
    BY <1>3, <2>1 DEF Whole
  <2>5. Carries([k \in 1 .. j - i + 1 |-> sent'[i + k - 1].payload], f.frame)
    BY <1>3, <2>3 DEF Whole
  <2> QED BY <2>4, <2>5 DEF Whole
<1> QED BY <1>2, <1>3

\* A frame is begun: nothing of it is sent yet.
LEMMA FrameBegun ==
    ASSUME RtpInv, BeginFrame
    PROVE  RtpInv'
<1>1. PICK f \in Frames :
          /\ frames # <<>> => f.codec = frames[1].frame.codec
          /\ frames' = Append(frames, [frame |-> f, timestamp |-> timestamp])
          /\ sending' = packetize(f)
          /\ timestamp' = IF sending' = <<>> THEN Later(timestamp) ELSE timestamp
  BY DEF BeginFrame
<1>2. ~ended /\ sending = <<>> /\ UNCHANGED <<seq, sent, ended>>
  BY DEF BeginFrame
<1> DEFINE m == Len(frames)
           Begun == [frame : Frames, timestamp : Nat]
           begun == [frame |-> f, timestamp |-> timestamp]
           p == packetize(f)
<1>3. timestamp \in Nat /\ frames \in Seq(Begun) /\ sent \in Seq(Packets)
  BY DEF RtpInv, RtpTypes
<1>4. /\ p \in Seq(Payloads) /\ \A i \in DOMAIN p : p[i].size <= Largest(f)
  <2>1. Holds(p, Len(f.parts), f.parts, CutParts(f), Largest(f))
    BY PacketizerHolds
  <2> HIDE DEF p
  <2> QED BY <2>1 DEF Holds
<1>5. begun \in Begun /\ begun.frame = f /\ begun.timestamp = timestamp
  BY <1>3
<1> HIDE DEF m, Begun, begun, p
<1>6. /\ frames' \in Seq(Begun) /\ m \in Nat /\ Len(frames') = m + 1 /\ DOMAIN frames = 1 .. m
      /\ DOMAIN frames' = 1 .. (m + 1)
      /\ frames'[m + 1] = begun /\ \A i \in 1 .. m : frames'[i] = frames[i]
  BY <1>1, <1>3, <1>5 DEF m, begun
<1>7. Later(timestamp) \in Nat
  <2>1. timestamp + Tick \in Int /\ Timestamps \in Nat \ {0}
    BY <1>3, RtpAssumption
  <2> QED BY <2>1, Divides DEF Later
<1>8. RtpTypes'
  BY <1>1, <1>2, <1>3, <1>4, <1>6, <1>7 DEF RtpInv, RtpTypes, p, Begun
<1>9. \A i \in DOMAIN frames' : frames'[i].frame.codec = frames'[1].frame.codec
  <2>1. CASE m = 0
    BY <1>6, <2>1
  <2>2. CASE m # 0
    <3>1. frames # <<>> /\ 1 \in 1 .. m
      BY <1>6, <2>2 DEF m
    <3>2. frames'[1] = frames[1] /\ f.codec = frames[1].frame.codec
      BY <1>1, <1>6, <3>1
    <3>3. ASSUME NEW i \in DOMAIN frames' PROVE frames'[i].frame.codec = frames[1].frame.codec
      <4>1. CASE i = m + 1
        BY <1>5, <1>6, <3>2, <4>1
      <4>2. CASE i \in 1 .. m
        BY <1>6, <4>2 DEF RtpInv, AllFit
      <4> QED BY <1>6, <4>1, <4>2
    <3> QED BY <3>2, <3>3
  <2> QED BY <2>1, <2>2
<1>10. Largest(f) = Largest(frames'[1].frame)
  <2>1. frames'[m + 1].frame = f /\ m + 1 \in DOMAIN frames'
    BY <1>5, <1>6
  <2>2. f.codec = frames'[1].frame.codec
    BY <1>9, <2>1
  <2> QED BY <2>2 DEF Largest
<1>11. \A i \in DOMAIN sent : sent[i].payload.size <= Largest(frames'[1].frame)
  <2> SUFFICES ASSUME NEW i \in DOMAIN sent
               PROVE  sent[i].payload.size <= Largest(frames'[1].frame)
    OBVIOUS
  <2>1. frames # <<>>
    BY <1>3 DEF RtpInv, AllFit
  <2>2. 1 \in 1 .. m
    BY <1>3, <1>6, <2>1 DEF m
  <2>3. frames'[1] = frames[1]
    BY <1>6, <2>2
  <2> QED BY <2>3 DEF RtpInv, AllFit
<1>12. AllFit'
  <2>1. frames' # <<>>
    BY <1>6
  <2> QED BY <1>1, <1>2, <1>4, <1>9, <1>10, <1>11, <2>1 DEF AllFit, p
<1>13. Current'
  <2>1. ~ended' /\ (sent # <<>> => sent[Len(sent)].marker)
    BY <1>2 DEF RtpInv, Current
  <2>2. ASSUME sending' # <<>> PROVE \E base \in 0 .. Len(sent') : Underway(base)'
    <3>1. timestamp' = timestamp /\ Newest' = begun
      BY <1>1, <1>6, <2>2 DEF Newest
    <3>2. Len(sent) \in 0 .. Len(sent') /\ sent' = sent /\ Len(sent) \in Nat
          /\ Len(sent) - Len(sent) = 0 /\ 1 .. 0 = {}
      BY <1>2, <1>3
    <3>3. Newest'.timestamp = timestamp /\ Newest'.frame = f
      BY <1>5, <3>1
    <3>4. \A k \in 1 .. Len(sending') : sending'[k] = p[0 + k]
      BY <1>1, <1>4 DEF p
    <3>5. Len(p) = 0 + Len(sending')
      BY <1>1, <1>4 DEF p
    <3>6. Len(sent) > 0 => sent[Len(sent)].marker
      BY <1>3, <2>1
    <3>7. packetize(Newest'.frame) = p
      BY <3>3 DEF p
    <3> PICK a \in Nat : a = Len(sent)
      BY <3>2
    <3>8. a \in 0 .. Len(sent') /\ Len(sent') - a = 0 /\ 1 .. (Len(sent') - a) = {}
      BY <3>2
    <3>9. Underway(a)'
      <4> HIDE DEF p
      <4>1. a > 0 => sent'[a].marker
        BY <3>2, <3>6
      <4>2. Len(packetize(Newest'.frame)) = Len(sent') - a + Len(sending')
        BY <3>5, <3>7, <3>8
      <4>3. \A k \in 1 .. Len(sending') :
                sending'[k] = packetize(Newest'.frame)[Len(sent') - a + k]
        BY <3>4, <3>7, <3>8
      <4>4. ~(a < Len(sent'))
        BY <3>8
      <4>5. \A k \in 1 .. Len(sent') - a :
                /\ sent'[a + k].payload = packetize(Newest'.frame)[k]
                /\ sent'[a + k].timestamp = Newest'.timestamp
                /\ sent'[a + k].seq = (sent'[a + 1].seq + k - 1) % SeqNumbers
                /\ ~sent'[a + k].marker
        BY <3>8
      <4>6. Newest'.timestamp = timestamp'
        BY <3>1, <3>3
      <4> QED BY <4>1, <4>2, <4>3, <4>4, <4>5, <4>6 DEF Underway
    <3> QED BY <3>8, <3>9
  <2> QED BY <1>2, <2>1, <2>2 DEF Current
<1>14. FramesArriveWhole'
  <2> SUFFICES ASSUME NEW i \in DOMAIN sent, NEW j \in DOMAIN sent, Unit(i, j)'
               PROVE  \E g \in Range(frames') : Whole(i, j, g)'
    BY <1>2 DEF FramesArriveWhole
  <2>1. RtpTypes /\ \A k \in DOMAIN sent : sent'[k] = sent[k]
    BY <1>2 DEF RtpInv
  <2>2. Unit(i, j) /\ \A g : Whole(i, j, g) => Whole(i, j, g)'
    BY <2>1, SentStays
  <2>3. PICK g \in Range(frames) : Whole(i, j, g)
    BY <2>2 DEF RtpInv, FramesArriveWhole
  <2>4. g \in Range(frames')
    <3>1. PICK k \in 1 .. m : g = frames[k]
      BY <1>6 DEF Range
    <3>2. k \in DOMAIN frames' /\ g = frames'[k]
      BY <1>6, <3>1
    <3> QED BY <3>2 DEF Range
  <2> QED BY <2>2, <2>3, <2>4
<1> QED BY <1>8, <1>12, <1>13, <1>14 DEF RtpInv

\* A packet is sent: it is the next one of its frame, or the last one, and then the
\* packets from `base` on are the frame.
LEMMA PacketSent ==
    ASSUME RtpInv, SendPacket
    PROVE  RtpInv'
<1>1. /\ ~ended /\ sending # <<>>
      /\ sent' = Append(sent, [payload |-> Head(sending), seq |-> seq, timestamp |-> timestamp,
                               marker |-> Len(sending) = 1])
      /\ seq' = (seq + 1) % SeqNumbers
      /\ sending' = Tail(sending)
      /\ timestamp' = IF sending' = <<>> THEN Later(timestamp) ELSE timestamp
      /\ UNCHANGED <<frames, ended>>
  BY DEF SendPacket
<1>2. /\ seq \in 0 .. SeqNumbers - 1 /\ timestamp \in Nat /\ SeqNumbers \in Nat \ {0}
      /\ sending \in Seq(Payloads) /\ sent \in Seq(Packets)
      /\ frames \in Seq([frame : Frames, timestamp : Nat])
  BY RtpAssumption DEF RtpInv, RtpTypes
<1>3. PICK base \in 0 .. Len(sent) : Underway(base)
  BY <1>1 DEF RtpInv, Current
<1> PICK a \in Nat : a = Len(sent)
  BY <1>2
<1> DEFINE isLast == (Len(sending) = 1)
           packet == [payload |-> Head(sending), seq |-> seq, timestamp |-> timestamp,
                      marker |-> isLast]
           p == packetize(Newest.frame)
<1>4. /\ Len(sending) \in Nat \ {0} /\ Head(sending) = sending[1] /\ Head(sending) \in Payloads
      /\ sending' \in Seq(Payloads) /\ Len(sending') = Len(sending) - 1
      /\ \A k \in 1 .. Len(sending') : sending'[k] = sending[k + 1]
      /\ sending' = <<>> <=> Len(sending) = 1
  <2>1. /\ Len(sending) \in Nat \ {0} /\ Head(sending) = sending[1] /\ Head(sending) \in Payloads
    BY <1>1, <1>2
  <2>2. /\ sending' \in Seq(Payloads) /\ Len(sending') = Len(sending) - 1
        /\ \A k \in 1 .. Len(sending') : sending'[k] = sending[k + 1]
    BY <1>1, <1>2
  <2>3. sending' = <<>> <=> Len(sending') = 0
    BY <2>2
  <2> QED BY <2>1, <2>2, <2>3
<1>5. isLast \in BOOLEAN /\ (isLast <=> Len(sending) = 1)
  OBVIOUS
<1>6. sent' = Append(sent, packet)
  BY <1>1
<1> HIDE DEF isLast
<1>7. /\ packet \in Packets /\ packet.payload = sending[1] /\ packet.seq = seq
      /\ packet.timestamp = timestamp /\ (packet.marker <=> Len(sending) = 1)
  BY <1>2, <1>4, <1>5 DEF Packets
<1> HIDE DEF packet, p
<1>8. /\ sent' \in Seq(Packets) /\ Len(sent') = a + 1 /\ DOMAIN sent = 1 .. a
      /\ DOMAIN sent' = 1 .. (a + 1)
      /\ sent'[a + 1] = packet /\ \A k \in 1 .. a : sent'[k] = sent[k]
  BY <1>2, <1>6, <1>7
<1>9. RtpTypes'
  <2>1. seq' \in 0 .. SeqNumbers - 1
    <3>1. seq + 1 \in Int
      BY <1>2
    <3> QED BY <1>1, <1>2, <3>1, Divides
  <2>2. Later(timestamp) \in Nat
    <3>1. timestamp + Tick \in Int /\ Timestamps \in Nat \ {0}
      BY <1>2, RtpAssumption
    <3> QED BY <3>1, Divides DEF Later
  <2> QED BY <1>1, <1>2, <1>4, <1>8, <2>1, <2>2 DEF RtpTypes
<1>10. AllFit'
  <2>1. frames' = frames /\ frames # <<>> /\ sending[1].size <= Largest(frames[1].frame)
    BY <1>1, <1>2, <1>4 DEF RtpInv, AllFit
  <2>2. \A i \in DOMAIN frames' : frames'[i].frame.codec = frames'[1].frame.codec
    BY <2>1 DEF RtpInv, AllFit
  <2>3. ASSUME NEW i \in DOMAIN sent'
        PROVE  sent'[i].payload.size <= Largest(frames'[1].frame)
    <3>1. CASE i = a + 1
      BY <1>7, <1>8, <2>1, <3>1
    <3>2. CASE i \in 1 .. a
      BY <1>8, <2>1, <3>2 DEF RtpInv, AllFit
    <3> QED BY <1>8, <3>1, <3>2
  <2>4. ASSUME NEW i \in DOMAIN sending'
        PROVE  sending'[i].size <= Largest(frames'[1].frame)
    <3>1. i \in 1 .. Len(sending') /\ i + 1 \in DOMAIN sending
      BY <1>2, <1>4
    <3> QED BY <1>4, <2>1, <3>1 DEF RtpInv, AllFit
  <2> QED BY <2>1, <2>2, <2>3, <2>4 DEF AllFit
<1>11. Newest' = Newest
  BY <1>1 DEF Newest
<1>12. /\ base \in 0 .. a /\ (base > 0 => sent[base].marker)
       /\ Len(p) = a - base + Len(sending)
       /\ \A k \in 1 .. Len(sending) : sending[k] = p[a - base + k]
       /\ \A k \in 1 .. a - base :
             /\ sent[base + k].payload = p[k]
             /\ sent[base + k].timestamp = Newest.timestamp
             /\ sent[base + k].seq = (sent[base + 1].seq + k - 1) % SeqNumbers
             /\ ~sent[base + k].marker
       /\ base < a => seq = (sent[base + 1].seq + a - base) % SeqNumbers
       /\ Newest.timestamp = timestamp
  BY <1>3 DEF Underway, p
<1> DEFINE start == sent'[base + 1].seq
<1>13. start \in Nat /\ seq = (start + a - base) % SeqNumbers
  <2>1. CASE base < a
    <3>1. base + 1 \in 1 .. a
      BY <1>12, <2>1
    <3>2. start = sent[base + 1].seq /\ sent[base + 1] \in Packets
      BY <1>2, <1>8, <3>1
    <3> QED BY <1>12, <2>1, <3>2 DEF Packets
  <2>2. CASE base = a
    <3>1. start = seq /\ start + a - base = seq /\ seq \in Nat
      BY <1>2, <1>7, <1>8, <2>2
    <3>2. seq % SeqNumbers = seq
      BY <1>2, NoRemainder
    <3> QED BY <3>1, <3>2
  <2> QED BY <1>12, <2>1, <2>2
<1> HIDE DEF start
<1>14. ASSUME NEW k \in 1 .. a - base + 1
       PROVE  /\ sent'[base + k].payload = p[k]
              /\ sent'[base + k].timestamp = Newest.timestamp
              /\ sent'[base + k].seq = (start + k - 1) % SeqNumbers
              /\ k <= a - base => ~sent'[base + k].marker
  <2>1. CASE k \in 1 .. a - base
    <3>1. sent'[base + k] = sent[base + k] /\ base + k \in 1 .. a /\ base + 1 \in 1 .. a
      BY <1>8, <1>12, <2>1
    <3>2. start = sent[base + 1].seq
      BY <1>8, <3>1 DEF start
    <3> QED BY <1>12, <2>1, <3>1, <3>2
  <2>2. CASE k = a - base + 1
    <3>1. base + k = a + 1 /\ start + k - 1 = start + a - base /\ ~(k <= a - base)
      <4>1. base \in Nat /\ start \in Nat
        BY <1>12, <1>13
      <4> QED BY <2>2, <4>1
    <3>2. sent'[base + k] = packet
      BY <1>8, <3>1
    <3>3. sending[1] = p[k]
      BY <1>4, <1>12, <2>2
    <3> QED BY <1>7, <1>12, <1>13, <3>1, <3>2, <3>3
  <2> QED BY <1>12, <2>1, <2>2
<1>15. seq' = (start + (a + 1) - base) % SeqNumbers
  <2>1. start + a - base \in Int /\ start + (a + 1) - base = start + a - base + 1
    BY <1>12, <1>13
  <2> DEFINE b == start + a - base
  <2>2. b \in Int /\ seq = b % SeqNumbers /\ start + (a + 1) - base = b + 1
    BY <1>13, <2>1
  <2> HIDE DEF b
  <2>3. (seq + 1) % SeqNumbers = (b + 1) % SeqNumbers
    BY <1>2, <2>2, CountsOn
  <2> QED BY <1>1, <2>2, <2>3
<1>16. base > 0 => sent'[base].marker
  BY <1>8, <1>12
<1>17. Current'
  <2>1. CASE sending' = <<>>
    <3>1. sent'[Len(sent')].marker
      BY <1>4, <1>7, <1>8, <2>1
    <3> QED BY <1>1, <2>1, <3>1 DEF Current
  <2>2. CASE sending' # <<>>
    <3>1. ~packet.marker /\ timestamp' = timestamp
      BY <1>1, <1>4, <1>7, <2>2
    <3>2. Len(p) = Len(sent') - base + Len(sending')
      BY <1>4, <1>8, <1>12
    <3>3. \A k \in 1 .. Len(sending') : sending'[k] = p[Len(sent') - base + k]
      <4> SUFFICES ASSUME NEW k \in 1 .. Len(sending')
                   PROVE  sending'[k] = p[Len(sent') - base + k]
        OBVIOUS
      <4>1. k + 1 \in 1 .. Len(sending) /\ a - base + (k + 1) = Len(sent') - base + k
        <5>1. /\ base \in Nat /\ Len(sending) \in Nat
              /\ Len(sending') = Len(sending) - 1 /\ Len(sent') = a + 1
          BY <1>4, <1>8, <1>12
        <5> QED BY <5>1
      <4>2. sending[k + 1] = p[a - base + (k + 1)]
        BY <1>12, <4>1
      <4> QED BY <1>4, <4>1, <4>2
    <3>4. \A k \in 1 .. Len(sent') - base :
              /\ sent'[base + k].payload = p[k]
              /\ sent'[base + k].timestamp = Newest.timestamp
              /\ sent'[base + k].seq = (start + k - 1) % SeqNumbers
              /\ ~sent'[base + k].marker
      <4> SUFFICES ASSUME NEW k \in 1 .. a - base + 1
                   PROVE  /\ sent'[base + k].payload = p[k]
                          /\ sent'[base + k].timestamp = Newest.timestamp
                          /\ sent'[base + k].seq = (start + k - 1) % SeqNumbers
                          /\ ~sent'[base + k].marker
        BY <1>8, <1>12
      <4>1. k <= a - base \/ base + k = a + 1
        BY <1>12
      <4>2. ~sent'[base + k].marker
        BY <1>8, <1>14, <3>1, <4>1
      <4> QED BY <1>14, <4>2
    <3>5. seq' = (start + Len(sent') - base) % SeqNumbers
      BY <1>8, <1>15
    <3>6. base \in 0 .. Len(sent')
      BY <1>8, <1>12
    <3>7. packetize(Newest'.frame) = p /\ Newest'.timestamp = timestamp'
      BY <1>11, <1>12, <3>1 DEF p
    <3>8. Underway(base)'
      BY <1>11, <1>16, <3>2, <3>3, <3>4, <3>5, <3>7 DEF Underway, start
    <3> QED BY <1>1, <2>2, <3>6, <3>8 DEF Current
  <2> QED BY <2>1, <2>2
<1>18. FramesArriveWhole'
  <2> SUFFICES ASSUME NEW i \in 1 .. (a + 1), NEW j \in 1 .. (a + 1), Unit(i, j)'
               PROVE  \E g \in Range(frames') : Whole(i, j, g)'
    BY <1>8 DEF FramesArriveWhole
  <2>1. i <= j /\ sent'[j].marker /\ (i > 1 => sent'[i - 1].marker)
        /\ \A k \in i .. j - 1 : ~sent'[k].marker
    BY DEF Unit
  <2>2. CASE j \in 1 .. a
    <3>1. /\ RtpTypes /\ i \in DOMAIN sent /\ j \in DOMAIN sent
          /\ \A k \in DOMAIN sent : sent'[k] = sent[k]
      BY <1>8, <2>1, <2>2 DEF RtpInv
    <3>2. Unit(i, j) /\ \A g : Whole(i, j, g) => Whole(i, j, g)'
      BY <3>1, SentStays
    <3>3. PICK g \in Range(frames) : Whole(i, j, g)
      BY <3>1, <3>2 DEF RtpInv, FramesArriveWhole
    <3> QED BY <1>1, <3>2, <3>3
  <2>3. CASE j = a + 1
    <3>1. Len(sending) = 1 /\ Len(p) = a + 1 - base
      <4>1. packet.marker
        BY <1>8, <2>1, <2>3
      <4>2. Len(sending) = 1
        BY <1>7, <4>1
      <4> QED BY <1>12, <4>2
    <3>2. i = base + 1
      <4>1. ~(i <= base)
        BY <1>12, <1>16, <2>1, <2>3
      <4>2. ~(i > base + 1)
        <5> SUFFICES ASSUME i > base + 1 PROVE FALSE
          OBVIOUS
        <5>1. i - 1 - base \in 1 .. a - base /\ i > 1
          BY <1>12
        <5> PICK k \in 1 .. a - base : k = i - 1 - base
          BY <5>1
        <5>2. k \in 1 .. a - base + 1 /\ k <= a - base /\ base + k = i - 1
          BY <1>12
        <5>3. ~sent'[base + k].marker
          BY <1>14, <5>2
        <5>4. ~sent'[i - 1].marker
          BY <5>2, <5>3
        <5> QED BY <2>1, <5>1, <5>4
      <4> QED BY <1>12, <4>1, <4>2
    <3>3. frames # <<>> /\ Newest \in Range(frames) /\ Newest.frame \in Frames
      <4>1. frames # <<>>
        BY <1>1 DEF RtpInv, AllFit
      <4>2. Len(frames) \in DOMAIN frames
        BY <1>2, <4>1
      <4> DEFINE Begun == [frame : Frames, timestamp : Nat]
      <4>3. Newest \in Begun
        <5>1. frames \in Seq(Begun)
          BY <1>2
        <5> HIDE DEF Begun
        <5> QED BY <4>2, <5>1 DEF Newest
      <4>4. Newest \in Range(frames)
        BY <4>2 DEF Newest, Range
      <4> QED BY <4>1, <4>3, <4>4
    <3>4. ASSUME NEW k \in i .. j
          PROVE  sent'[k].timestamp = Newest.timestamp
                 /\ sent'[k].seq = (sent'[i].seq + k - i) % SeqNumbers
      <4>1. base \in Nat /\ start \in Nat
        BY <1>12, <1>13
      <4>2. /\ k - base \in 1 .. a - base + 1 /\ base + (k - base) = k
            /\ start + (k - base) - 1 = start + k - i
        BY <2>3, <3>2, <4>1
      <4>3. start = sent'[i].seq
        BY <3>2 DEF start
      <4> PICK e \in 1 .. a - base + 1 : e = k - base
        BY <4>2
      <4>4. /\ sent'[base + e].timestamp = Newest.timestamp
            /\ sent'[base + e].seq = (start + e - 1) % SeqNumbers
        BY <1>14
      <4>5. base + e = k /\ start + e - 1 = start + k - i
        BY <4>2
      <4> QED BY <4>3, <4>4, <4>5
    <3> DEFINE unit == [k \in 1 .. j - i + 1 |-> sent'[i + k - 1].payload]
    <3>5. unit = p
      <4>1. p \in Seq(Payloads)
        BY <3>3, PacketizerHolds DEF Holds, p
      <4>2. j - i + 1 = Len(p)
        <5>1. base \in Nat
          BY <1>12
        <5> QED BY <2>3, <3>1, <3>2, <5>1
      <4>3. ASSUME NEW k \in 1 .. Len(p) PROVE sent'[i + k - 1].payload = p[k]
        <5>1. k \in 1 .. a - base + 1 /\ base + k = i + k - 1
          BY <1>12, <3>1, <3>2
        <5> QED BY <1>14, <5>1
      <4>4. unit = [k \in 1 .. Len(p) |-> p[k]]
        BY <4>2, <4>3
      <4>5. p = [k \in 1 .. Len(p) |-> p[k]]
        BY <4>1
      <4> QED BY <4>4, <4>5
    <3>6. Carries(unit, Newest.frame)
      BY <3>3, <3>5, HoldsCarries DEF p
    <3> PICK g : g = Newest
      OBVIOUS
    <3>7. Whole(i, j, g)'
      BY <3>4, <3>6 DEF Whole
    <3> QED BY <1>1, <3>3, <3>7
  <2> QED BY <1>8, <2>2, <2>3
<1> QED BY <1>9, <1>10, <1>17, <1>18 DEF RtpInv

\* The sender ends: nothing more is sent.
LEMMA SenderEnds ==
    ASSUME RtpInv, SendFails
    PROVE  RtpInv'
<1>1. /\ sending' = <<>> /\ ended' = TRUE
      /\ UNCHANGED <<seq, timestamp, sent, frames>>
  BY DEF SendFails
<1>2. RtpTypes'
  BY <1>1 DEF RtpInv, RtpTypes
<1>3. AllFit'
  <2>1. DOMAIN sending' = {}
    BY <1>1
  <2> QED BY <1>1, <2>1 DEF RtpInv, AllFit
<1>4. Current'
  BY <1>1 DEF Current
<1>5. FramesArriveWhole'
  BY <1>1 DEF RtpInv, FramesArriveWhole, Unit, Whole
<1> QED BY <1>2, <1>3, <1>4, <1>5 DEF RtpInv

\* One step for each action.
LEMMA NextRtpInv == RtpInv /\ [RtpNext]_rtpVars => RtpInv'
<1> SUFFICES ASSUME RtpInv, [RtpNext]_rtpVars PROVE RtpInv'
  OBVIOUS
<1>1. CASE UNCHANGED rtpVars
  <2>1. UNCHANGED <<seq, timestamp, sending, sent, frames, ended>>
    BY <1>1 DEF rtpVars
  <2>2. RtpTypes' /\ AllFit'
    BY <2>1 DEF RtpInv, RtpTypes, AllFit
  <2>3. Current'
    BY <2>1 DEF RtpInv, Current, Underway, Newest
  <2>4. FramesArriveWhole'
    BY <2>1 DEF RtpInv, FramesArriveWhole, Unit, Whole
  <2> QED BY <2>2, <2>3, <2>4 DEF RtpInv
<1> QED BY <1>1, FrameBegun, PacketSent, SenderEnds DEF RtpNext

\* At first nothing is sent.
LEMMA InitRtpInv == RtpInit => RtpInv
<1> SUFFICES ASSUME RtpInit PROVE RtpInv
  OBVIOUS
<1>1. /\ seq = 0 /\ timestamp = 0 /\ sending = <<>> /\ sent = <<>> /\ frames = <<>>
      /\ SeqNumbers \in Nat \ {0}
  BY RtpAssumption DEF RtpInit
<1>2. RtpTypes
  BY <1>1 DEF RtpTypes
<1>3. AllFit /\ Current /\ FramesArriveWhole
  BY <1>1 DEF AllFit, Current, FramesArriveWhole
<1> QED BY <1>2, <1>3 DEF RtpInv

\* No packet of a track is larger than the MTU that its packetizer was made with
\* (fragment_fu_a, Vp9Packetizer::packetize), for any sizes of headers and frames.
THEOREM PacketsAlwaysFit == RtpSpec => []PacketsFit
<1>1. RtpInv => PacketsFit
  BY DEF RtpInv, AllFit, PacketsFit, Largest
<1> QED BY <1>1, InitRtpInv, NextRtpInv, PTL DEF RtpSpec

\* Up to a marker a receiver that misses no sequence number puts together one frame
\* as it came from the encoder (send_frame, and the sender task that ends when a
\* packet cannot be sent).
THEOREM FramesAlwaysArriveWhole == RtpSpec => []FramesArriveWhole
<1>1. RtpInv => FramesArriveWhole
  BY DEF RtpInv
<1> QED BY <1>1, InitRtpInv, NextRtpInv, PTL DEF RtpSpec
=============================================================================
