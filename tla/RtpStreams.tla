----------------------------- MODULE RtpStreams -----------------------------
(***************************************************************************)
(* The RTP stream of a video track (vscreen-rtsp): Vp9Packetizer and       *)
(* H264Packetizer cut a frame into payloads, and RtpVideoStream sends them *)
(* one by one, until it is told to stop or a packet cannot be sent.  The   *)
(* bytes of a frame are its positions 1 .. its length.                     *)
(***************************************************************************)
EXTENDS Integers, SequencesExt

CONSTANTS
    Mtu,            \* 1200 in the code
    RtpHeader,      \* bytes of the RTP header (12)
    FuHeader,       \* of the two FU-A bytes (2)
    Descriptor,     \* of the VP9 payload descriptor (3)
    Structure,      \* of its scalability structure (5)
    SeqNumbers,     \* sequence numbers wrap here (2^16)
    Timestamps,     \* and timestamps here (2^32)
    Tick,           \* 90000 / framerate
    NalSizes,       \* lengths of NAL units that the encoder makes
    FrameSizes,     \* lengths of VP9 frames; 0 for a frame that was dropped
    MaxFrames       \* bound: frames in a stream

ASSUME RtpAssumption ==
    /\ {Mtu, RtpHeader, Descriptor, Structure, Tick} \subseteq Nat
    /\ {FuHeader, SeqNumbers, Timestamps} \subseteq Nat \ {0}
    /\ RtpHeader + FuHeader < Mtu /\ Descriptor + Structure < Mtu
    /\ NalSizes \subseteq Nat \ {0} /\ FrameSizes \subseteq Nat

VARIABLES
    seq, timestamp, \* sequence_number and timestamp of the stream
    sending,        \* what is left of the frame that is being sent
    sent,           \* the packets that were sent
    frames,         \* the frames that were begun: their timestamps and parts
    ended           \* the sender task has ended

rtpVars == <<seq, timestamp, sending, sent, frames, ended>>

RtpInit ==
    /\ seq = 0 /\ timestamp = 0
    /\ sending = <<>> /\ sent = <<>> /\ frames = <<>>
    /\ ended = FALSE

-----------------------------------------------------------------------------
(* Packetizers                                                             *)

\* The number of pieces of `len` bytes, `first` in the first and `rest` in each
\* of the others, and the i-th of them.
Pieces(len, first, rest) ==
    IF len <= first THEN 1 ELSE 1 + (len - first + rest - 1) \div rest

Piece(i, len, first, rest) ==
    LET from == IF i = 1 THEN 1 ELSE first + (i - 2) * rest + 1
        upto == first + (i - 1) * rest
    IN  [from |-> from, upto |-> IF upto > len THEN len ELSE upto]

Payload(part, piece, begin, end, header) ==
    [part |-> part, from |-> piece.from, upto |-> piece.upto, begin |-> begin, end |-> end,
     size |-> header + piece.upto - piece.from + 1]

FullSize_fragment_fu_a(part, len) ==
    LET room == Mtu - RtpHeader
        n == Pieces(len - 1, room, room)
    IN  [i \in 1 .. n |->
            Payload(part, Piece(i, len - 1, room, room), i = 1, i = n, FuHeader)]

\* The header byte of the NAL unit goes into the two FU-A bytes; the others are
\* counted from 1 here.
fragment_fu_a(part, len) ==
    LET room == Mtu - RtpHeader - FuHeader
        n == Pieces(len - 1, room, room)
    IN  [i \in 1 .. n |->
            Payload(part, Piece(i, len - 1, room, room), i = 1, i = n, FuHeader)]

\* A frame is a sequence of NAL units.
H264Packetizer(nals) ==
    FlattenSeq([k \in DOMAIN nals |->
        IF nals[k] <= Mtu - RtpHeader
        THEN <<Payload(k, [from |-> 1, upto |-> nals[k]], TRUE, TRUE, 0)>>
        ELSE fragment_fu_a(k, nals[k])])

\* The MTU of this one leaves the RTP header out.
Vp9Packetizer(len, is_keyframe) ==
    LET first == Mtu - Descriptor - (IF is_keyframe THEN Structure ELSE 0)
        rest == Mtu - Descriptor
        n == Pieces(len, first, rest)
    IN  [i \in 1 .. n |->
            Payload(1, Piece(i, len, first, rest), i = 1, i = n,
                    IF i = 1 /\ (is_keyframe \/ len = 0) THEN Descriptor + Structure
                                                         ELSE Descriptor)]

\* What the two encoders hand over: NAL units, or one VP9 frame.
Frames ==
    [parts : {<<>>} \cup {<<a>> : a \in NalSizes} \cup {<<a, b>> : a, b \in NalSizes},
     codec : {"H264"}, key : {FALSE}]
    \cup [parts : {<<a>> : a \in FrameSizes}, codec : {"Vp9"}, key : BOOLEAN]

packetize(f) ==
    IF f.codec = "H264" THEN H264Packetizer(f.parts) ELSE Vp9Packetizer(f.parts[1], f.key)

-----------------------------------------------------------------------------
(* The stream                                                              *)

Later(t) == (t + Tick) % Timestamps

\* send_frame starts on a frame of the stream's codec.
BeginFrame ==
    /\ ~ended /\ sending = <<>> /\ Len(frames) < MaxFrames
    /\ \E f \in Frames :
          /\ frames # <<>> => f.codec = frames[1].frame.codec
          /\ frames' = Append(frames, [frame |-> f, timestamp |-> timestamp])
          /\ sending' = packetize(f)
          /\ timestamp' = IF sending' = <<>> THEN Later(timestamp) ELSE timestamp
    /\ UNCHANGED <<seq, sent, ended>>

\* The number advances with each packet, the timestamp with the last one.
SendPacket ==
    /\ ~ended /\ sending # <<>>
    /\ sent' = Append(sent, [payload |-> Head(sending), seq |-> seq, timestamp |-> timestamp,
                             marker |-> Len(sending) = 1])
    /\ seq' = (seq + 1) % SeqNumbers
    /\ sending' = Tail(sending)
    /\ timestamp' = IF sending' = <<>> THEN Later(timestamp) ELSE timestamp
    /\ UNCHANGED <<frames, ended>>

SkipsFrame_SendFails ==
    /\ ~ended /\ sending # <<>>
    /\ sending' = <<>>
    /\ UNCHANGED <<seq, timestamp, sent, frames, ended>>

\* The rest of the frame is not sent, and the sender ends: PAUSE and TEARDOWN
\* abort it too, and the next PLAY starts another stream.
SendFails ==
    /\ ~ended
    /\ sending' = <<>>
    /\ ended' = TRUE
    /\ UNCHANGED <<seq, timestamp, sent, frames>>

RtpNext == BeginFrame \/ SendPacket \/ SendFails

RtpSpec == RtpInit /\ [][RtpNext]_rtpVars

-----------------------------------------------------------------------------
(* Properties                                                              *)

\* No packet is larger than the MTU; the VP9 packetizer forgets the RTP header.
PacketsFit ==
    \A i \in DOMAIN sent :
        sent[i].payload.size <=
            IF frames[1].frame.codec = "H264" THEN Mtu - RtpHeader ELSE Mtu

\* The packets from the one after a marker to the next marker.
Unit(i, j) ==
    /\ i <= j /\ sent[j].marker
    /\ i > 1 => sent[i - 1].marker
    /\ \A k \in i .. j - 1 : ~sent[k].marker

\* The payloads of part k of frame f follow one another and are all of it: bytes
\* 1 .. len, or the len - 1 after the header byte if it was cut.
CarriesPart(payloads, f, k) ==
    \E first, last \in DOMAIN payloads :
        /\ first <= last
        /\ \A i \in DOMAIN payloads : payloads[i].part = k <=> i \in first .. last
        /\ payloads[first].begin /\ payloads[first].from = 1 /\ payloads[last].end
        /\ payloads[last].upto = IF first < last /\ f.codec = "H264" THEN f.parts[k] - 1
                                                                    ELSE f.parts[k]
        /\ \A i \in first + 1 .. last :
              /\ payloads[i].from = payloads[i - 1].upto + 1
              /\ ~payloads[i].begin /\ ~payloads[i - 1].end

\* Every part, and nothing else.
Carries(payloads, f) ==
    /\ \A k \in DOMAIN f.parts : CarriesPart(payloads, f, k)
    /\ \A i \in DOMAIN payloads : payloads[i].part \in DOMAIN f.parts

\* The packets i .. j are those of a frame that was begun.
Whole(i, j, f) ==
    /\ \A k \in i .. j : sent[k].timestamp = f.timestamp
                         /\ sent[k].seq = (sent[i].seq + k - i) % SeqNumbers
    /\ Carries([k \in 1 .. j - i + 1 |-> sent[i + k - 1].payload], f.frame)

\* What a receiver that misses no sequence number puts together, up to a marker,
\* is one frame as it came from the encoder, all with the frame's timestamp: no
\* part of a frame that could not be sent runs into the next one.
FramesArriveWhole ==
    \A i, j \in DOMAIN sent : Unit(i, j) => \E f \in Range(frames) : Whole(i, j, f)
=============================================================================
