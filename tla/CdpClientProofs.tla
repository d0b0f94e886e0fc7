--------------------------- MODULE CdpClientProofs ---------------------------
(***************************************************************************)
(* Theorems about CdpClient: its types, its pending requests, and that     *)
(* neither a frame's acknowledgement nor the screencast is forgotten; then *)
(* that it implements the abstract calls of RequestReply.                  *)
(***************************************************************************)
EXTENDS CdpClient, TLAPS

\* How the two loops and the connections stand to each other: `tx` feeds the
\* connection that is read, except while the connection loop is about to replace
\* it; later connections are untouched; a connection that is up has its write
\* loop; the loop reconnects only when the socket is down.
Connected ==
    /\ tx <= conn
    /\ reader # "swap" => tx = conn
    /\ reader = "swap" => tx < conn
    /\ \A c \in Conns : c > conn => ~open[c] /\ cast[c] = "off"
    /\ \A c \in Conns : c > tx => writer[c] = "none"
    /\ reader \in {"backoff", "connecting"} => ~open[conn]
    /\ reader = "connecting" => attempt < MaxAttempts
    /\ open[conn] /\ ~cancelled /\ reader # "swap" => writer[conn] = "running"
    /\ wanted = (pc[Start] # "idle")

IInv ==
    /\ CdpTypeOK
    /\ PendingMatchesCalls
    /\ Connected
    /\ FramesKeepFlowing
    /\ ScreencastNotForgotten

-----------------------------------------------------------------------------
(* Sequences                                                               *)

\* Appending to a channel or a socket adds the last element.
LEMMA ContainsAppend ==
    ASSUME NEW S, NEW s \in Seq(S), NEW e \in S, NEW x
    PROVE  Contains(Append(s, e), x) <=> Contains(s, x) \/ x = e
<1> DEFINE t == Append(s, e)
<1>1. DOMAIN t = 1..(Len(s) + 1) /\ t[Len(s) + 1] = e
      /\ \A i \in 1..Len(s) : t[i] = s[i]
  OBVIOUS
<1>2. DOMAIN s = 1..Len(s) /\ Len(s) \in Nat
  OBVIOUS
<1> HIDE DEF t
<1>3. ASSUME NEW i \in DOMAIN t, t[i] = x PROVE Contains(s, x) \/ x = e
  BY <1>1, <1>2, <1>3 DEF Contains
<1>4. ASSUME NEW i \in DOMAIN s, s[i] = x PROVE Contains(t, x)
  <2>1. i \in DOMAIN t /\ t[i] = x
    BY <1>1, <1>2, <1>4
  <2> QED BY <2>1 DEF Contains
<1>5. ASSUME x = e PROVE Contains(t, x)
  <2>1. Len(s) + 1 \in DOMAIN t
    BY <1>1, <1>2
  <2> QED BY <1>1, <1>5, <2>1 DEF Contains
<1> QED BY <1>3, <1>4, <1>5 DEF Contains, t

\* Receiving takes the first element.
LEMMA ContainsTail ==
    ASSUME NEW S, NEW s \in Seq(S), s # <<>>, NEW x
    PROVE  Contains(s, x) <=> Contains(Tail(s), x) \/ x = Head(s)
<1> DEFINE t == Tail(s)
<1>1. DOMAIN t = 1..(Len(s) - 1) /\ \A i \in DOMAIN t : t[i] = s[i + 1]
  OBVIOUS
<1>2. DOMAIN s = 1..Len(s) /\ Len(s) \in Nat \ {0} /\ Head(s) = s[1]
  OBVIOUS
<1> HIDE DEF t
<1>3. ASSUME NEW i \in DOMAIN s, s[i] = x PROVE Contains(t, x) \/ x = Head(s)
  <2>1. CASE i = 1
    BY <1>2, <1>3, <2>1
  <2>2. CASE i # 1
    <3>1. i - 1 \in DOMAIN t /\ t[i - 1] = x
      BY <1>1, <1>2, <1>3, <2>2
    <3> QED BY <3>1 DEF Contains
  <2> QED BY <2>1, <2>2
<1>4. ASSUME NEW i \in DOMAIN t, t[i] = x PROVE Contains(s, x)
  <2>1. i + 1 \in DOMAIN s /\ s[i + 1] = x
    BY <1>1, <1>2, <1>4
  <2> QED BY <2>1 DEF Contains
<1>5. ASSUME x = Head(s) PROVE Contains(s, x)
  <2>1. 1 \in DOMAIN s
    BY <1>2
  <2> QED BY <1>2, <1>5, <2>1 DEF Contains
<1> QED BY <1>3, <1>4, <1>5 DEF Contains, t

-----------------------------------------------------------------------------
(* Types                                                                   *)

\* Every step keeps the types.
LEMMA TypeStep ==
    ASSUME CdpTypeOK, Connected, [Next]_vars
    PROVE  CdpTypeOK'
<1>a. Callers \subseteq Requests /\ Calls \subseteq Callers
  BY DEF Callers, Requests
<1>b. Ack \in Requests /\ Start \in Requests /\ None \notin Requests
  BY TokensAssumption DEF Callers, Requests
<1> USE SizesAssumption, <1>a, <1>b
    DEF CdpTypeOK, Conns, InProgress, Ended, Polling
<1>1. ASSUME NEW r \in Callers, Begin(r) PROVE CdpTypeOK'
  BY <1>1 DEF Begin, clientVars, writerVars, readerVars,
       browserVars
<1>2. ASSUME NEW r \in Callers, LockTx(r) PROVE CdpTypeOK'
  BY <1>2 DEF LockTx, clientVars, writerVars, readerVars,
       browserVars
<1>3. ASSUME NEW r \in Callers, Push(r) PROVE CdpTypeOK'
  <2>1. Append(chan[tx], r) \in Seq(Requests)
    BY <1>3 DEF Push
  <2>2. chan' \in [Conns -> Seq(Requests)]
    BY <1>3, <2>1 DEF Push
  <2> QED BY <1>3, <2>2 DEF Push, clientVars, writerVars,
         readerVars, browserVars
<1>4. ASSUME NEW r \in Callers, SendFails(r) PROVE CdpTypeOK'
  BY <1>4 DEF SendFails, clientVars, writerVars, readerVars,
       browserVars
<1>5. ASSUME NEW r \in Callers, Timeout(r) PROVE CdpTypeOK'
  BY <1>5 DEF Timeout, clientVars, writerVars, readerVars,
       browserVars
<1>6. ASSUME NEW r \in Callers, Drop(r) PROVE CdpTypeOK'
  BY <1>6 DEF Drop, clientVars, writerVars, readerVars,
       browserVars
<1>7. ASSUME NEW c \in Conns, WriterTakes(c) PROVE CdpTypeOK'
  <2>1. Head(chan[c]) \in Requests /\ Tail(chan[c]) \in Seq(Requests)
    BY <1>7 DEF WriterTakes
  <2>2. chan' \in [Conns -> Seq(Requests)] /\ hand' \in [Conns -> Requests \cup {None}]
    BY <1>7, <2>1 DEF WriterTakes
  <2> QED BY <1>7, <2>2 DEF WriterTakes, clientVars, writerVars,
         readerVars, browserVars
<1>8. ASSUME NEW c \in Conns, WriterSends(c) PROVE CdpTypeOK'
  <2>1. hand[c] \in Requests
    BY <1>8 DEF WriterSends
  <2>2. Append(asked[c], hand[c]) \in Seq(Requests)
    BY <2>1
  <2>3. asked' \in [Conns -> Seq(Requests)]
    BY <1>8, <2>2 DEF WriterSends
  <2>4. hand' \in [Conns -> Requests \cup {None}]
    BY <1>8 DEF WriterSends
  <2>5. UNCHANGED <<pc, pending, tx, chan, wanted, writer, reader, conn, attempt,
                    cancelled, open, answers, cast, executed>>
    BY <1>8 DEF WriterSends, clientVars, readerVars
  <2> QED BY <2>3, <2>4, <2>5
<1>9. ASSUME NEW c \in Conns, WriterEnds(c) PROVE CdpTypeOK'
  <2>1. chan' \in [Conns -> Seq(Requests)]
    <3>1. <<>> \in Seq(Requests)
      OBVIOUS
    <3> QED BY <1>9, <3>1 DEF WriterEnds
  <2>2. hand' \in [Conns -> Requests \cup {None}]
    BY <1>9 DEF WriterEnds
  <2>3. writer' \in [Conns -> {"none", "running", "ended"}]
    BY <1>9 DEF WriterEnds
  <2>4. UNCHANGED <<pc, pending, tx, wanted, reader, conn, attempt, cancelled,
                    open, asked, answers, cast, executed>>
    BY <1>9 DEF WriterEnds, readerVars, browserVars
  <2> QED BY <2>1, <2>2, <2>3, <2>4
<1>10. ASSUME NEW c \in Conns, Execute(c) PROVE CdpTypeOK'
  <2> DEFINE q == Head(asked[c])
  <2>1. q \in Requests /\ Tail(asked[c]) \in Seq(Requests)
    BY <1>10 DEF Execute
  <2>2. asked' \in [Conns -> Seq(Requests)]
    BY <1>10, <2>1 DEF Execute
  <2>3. answers' \in [Conns -> Seq(Calls \cup {Frame})]
    <3>1. q \in Calls => Append(answers[c], q) \in Seq(Calls \cup {Frame})
      OBVIOUS
    <3> QED BY <1>10, <3>1 DEF Execute
  <2>4. executed' \in [Calls -> Nat]
    <3>1. \A r \in Calls : executed[r] + 1 \in Nat
      OBVIOUS
    <3>2. executed' = IF q \in Calls THEN [executed EXCEPT ![q] = @ + 1]
                                     ELSE executed
      BY <1>10 DEF Execute
    <3> QED BY <3>1, <3>2
  <2>5. cast' \in [Conns -> {"off", "ready", "unacked"}]
    BY <1>10 DEF Execute
  <2>6. UNCHANGED <<pc, pending, tx, chan, wanted, writer, hand, reader, conn,
                    attempt, cancelled, open>>
    BY <1>10 DEF Execute, clientVars, writerVars, readerVars
  <2> QED BY <2>2, <2>3, <2>4, <2>5, <2>6
<1>11. ASSUME NEW c \in Conns, SendFrame(c) PROVE CdpTypeOK'
  <2>1. Append(answers[c], Frame) \in Seq(Calls \cup {Frame})
    OBVIOUS
  <2>2. answers' \in [Conns -> Seq(Calls \cup {Frame})]
    BY <1>11, <2>1 DEF SendFrame
  <2>3. cast' \in [Conns -> {"off", "ready", "unacked"}]
    BY <1>11 DEF SendFrame
  <2>4. UNCHANGED <<pc, pending, tx, chan, wanted, writer, hand, reader, conn,
                    attempt, cancelled, open, asked, executed>>
    BY <1>11 DEF SendFrame, clientVars, writerVars, readerVars
  <2> QED BY <2>2, <2>3, <2>4
<1>12. ASSUME NEW c \in Conns, CloseSocket(c) PROVE CdpTypeOK'
  <2>1. asked' \in [Conns -> Seq(Requests)]
    <3>1. <<>> \in Seq(Requests)
      OBVIOUS
    <3> QED BY <1>12, <3>1 DEF CloseSocket
  <2>2. open' \in [Conns -> BOOLEAN]
    BY <1>12 DEF CloseSocket
  <2>3. UNCHANGED <<pc, pending, tx, chan, wanted, writer, hand, reader, conn,
                    attempt, cancelled, answers, cast, executed>>
    BY <1>12 DEF CloseSocket, clientVars, writerVars, readerVars
  <2> QED BY <2>1, <2>2, <2>3
<1>13. ASSUME NEW r \in Calls, ReadAnswer(r) PROVE CdpTypeOK'
  <2>1. Tail(answers[conn]) \in Seq(Calls \cup {Frame})
    BY <1>13 DEF ReadAnswer, Reads
  <2>2. answers' \in [Conns -> Seq(Calls \cup {Frame})]
    BY <1>13, <2>1 DEF ReadAnswer, Reads
  <2>3. pc' \in [Callers -> {"idle"} \cup InProgress \cup Ended]
    BY <1>13 DEF ReadAnswer
  <2> QED BY <1>13, <2>2, <2>3 DEF ReadAnswer, clientVars, writerVars,
         readerVars, browserVars
<1>14. CASE ReadFrame
  <2>1. Tail(answers[conn]) \in Seq(Calls \cup {Frame})
    BY <1>14 DEF ReadFrame, Reads
  <2>2. answers' \in [Conns -> Seq(Calls \cup {Frame})]
    BY <1>14, <2>1 DEF ReadFrame, Reads
  <2> QED BY <1>14, <2>2 DEF ReadFrame, Reads, clientVars, writerVars,
         readerVars, browserVars
<1>15. CASE Acknowledge
  <2>1. Append(chan[conn], Ack) \in Seq(Requests)
    OBVIOUS
  <2>2. chan' \in [Conns -> Seq(Requests)]
    BY <1>15, <2>1 DEF Acknowledge
  <2> QED BY <1>15, <2>2 DEF Acknowledge, clientVars, writerVars,
         readerVars, browserVars
<1>16. CASE Disconnected
  BY <1>16 DEF Disconnected, clientVars, writerVars, readerVars,
       browserVars
<1>17. CASE BackedOff
  BY <1>17 DEF BackedOff, clientVars, writerVars, readerVars,
       browserVars
<1>18. CASE ConnectFails
  BY <1>18 DEF ConnectFails, Connected, clientVars, writerVars,
         readerVars, browserVars
<1>19. CASE ConnectSucceeds
  BY <1>19 DEF ConnectSucceeds, clientVars, writerVars, readerVars,
       browserVars
<1>20. CASE Swap
  BY <1>20 DEF Swap, clientVars, writerVars, readerVars,
       browserVars
<1>21. CASE ReadParams
  BY <1>21 DEF ReadParams, clientVars, writerVars, readerVars,
       browserVars
<1>22. CASE CloneTx
  BY <1>22 DEF CloneTx, clientVars, writerVars, readerVars,
       browserVars
<1>23. CASE RestartScreencast
  <2>1. Append(chan[conn], Start) \in Seq(Requests)
    OBVIOUS
  <2>2. chan' \in [Conns -> Seq(Requests)]
    BY <1>23, <2>1 DEF RestartScreencast
  <2> QED BY <1>23, <2>2 DEF RestartScreencast, clientVars, writerVars,
         readerVars, browserVars
<1>24. CASE ReaderEnds
  BY <1>24 DEF ReaderEnds, clientVars, writerVars, readerVars,
       browserVars
<1>25. CASE Cancel
  BY <1>25 DEF Cancel, clientVars, writerVars, readerVars,
       browserVars
<1>26. CASE UNCHANGED vars
  BY <1>26 DEF vars, clientVars, writerVars, readerVars,
       browserVars
<1> QED
  BY <1>1, <1>2, <1>3, <1>4, <1>5, <1>6, <1>7, <1>8, <1>9, <1>10, <1>11,
     <1>12, <1>13, <1>14, <1>15, <1>16, <1>17, <1>18, <1>19, <1>20, <1>21,
     <1>22, <1>23, <1>24, <1>25, <1>26
  DEF Next, CallStep, WriterStep, ReaderStep

-----------------------------------------------------------------------------
(* Pending requests                                                        *)

\* Registering, answering, failing, timing out and dropping a call keep
\* pending_requests and the calls in step.
LEMMA PendingStep ==
    ASSUME CdpTypeOK, PendingMatchesCalls, [Next]_vars
    PROVE  PendingMatchesCalls'
<1> USE DEF CdpTypeOK, PendingMatchesCalls, Callers, InProgress
<1>1. ASSUME NEW r \in Callers, Begin(r)
      PROVE  PendingMatchesCalls'
  BY <1>1 DEF Begin
<1>2. ASSUME NEW r \in Callers, LockTx(r)
      PROVE  PendingMatchesCalls'
  BY <1>2 DEF LockTx
<1>3. ASSUME NEW r \in Callers, Push(r)
      PROVE  PendingMatchesCalls'
  BY <1>3 DEF Push
<1>4. ASSUME NEW r \in Callers, SendFails(r)
      PROVE  PendingMatchesCalls'
  BY <1>4 DEF SendFails
<1>5. ASSUME NEW r \in Callers, Timeout(r)
      PROVE  PendingMatchesCalls'
  BY <1>5 DEF Timeout
<1>6. ASSUME NEW r \in Callers, Drop(r)
      PROVE  PendingMatchesCalls'
  BY <1>6 DEF Drop
<1>7. ASSUME NEW r \in Calls, ReadAnswer(r)
      PROVE  PendingMatchesCalls'
  BY <1>7 DEF ReadAnswer
<1>8. CASE Disconnected
  BY <1>8 DEF Disconnected
<1>9. CASE UNCHANGED <<pc, pending>>
  BY <1>9
<1> QED
  BY <1>1, <1>2, <1>3, <1>4, <1>5, <1>6, <1>7, <1>8, <1>9
  DEF Next, CallStep, WriterStep, ReaderStep, vars, clientVars, writerVars,
      readerVars, browserVars, WriterTakes, WriterSends, WriterEnds, Execute,
      SendFrame, CloseSocket, ReadFrame, Acknowledge, BackedOff,
      ConnectFails, ConnectSucceeds, Swap, ReadParams, CloneTx,
      RestartScreencast, ReaderEnds, Cancel, Reads

-----------------------------------------------------------------------------
(* Connections                                                             *)

\* Disconnections, reconnections and the ends of write loops keep Connected.
LEMMA ConnectedStep ==
    ASSUME CdpTypeOK, Connected, [Next]_vars
    PROVE  Connected'
<1> USE SizesAssumption, TokensAssumption
    DEF CdpTypeOK, Connected, Callers, Conns, InProgress, Polling
<1>1. ASSUME NEW r \in Callers, Begin(r)
      PROVE  Connected'
  BY <1>1 DEF Begin, clientVars, writerVars, readerVars,
       browserVars
<1>2. ASSUME NEW r \in Callers, LockTx(r)
      PROVE  Connected'
  BY <1>2 DEF LockTx, clientVars, writerVars, readerVars,
       browserVars
<1>3. ASSUME NEW r \in Callers, Push(r)
      PROVE  Connected'
  BY <1>3 DEF Push, clientVars, writerVars, readerVars,
       browserVars
<1>4. ASSUME NEW r \in Callers, SendFails(r)
      PROVE  Connected'
  BY <1>4 DEF SendFails, clientVars, writerVars, readerVars,
       browserVars
<1>5. ASSUME NEW r \in Callers, Timeout(r)
      PROVE  Connected'
  BY <1>5 DEF Timeout, clientVars, writerVars, readerVars,
       browserVars
<1>6. ASSUME NEW r \in Callers, Drop(r)
      PROVE  Connected'
  BY <1>6 DEF Drop, clientVars, writerVars, readerVars,
       browserVars
<1>7. ASSUME NEW c \in Conns, WriterEnds(c)
      PROVE  Connected'
  <2>1. /\ writer[c] = "running"
        /\ ~open[c] \/ cancelled \/ tx # c
        /\ \A d \in Conns : writer'[d] = IF d = c THEN "ended" ELSE writer[d]
    BY <1>7 DEF WriterEnds, Receives
  <2>2. UNCHANGED <<pc, wanted, tx, conn, reader, attempt, open, cast, cancelled>>
    BY <1>7 DEF WriterEnds, readerVars, browserVars
  <2> QED BY <2>1, <2>2
<1>8. ASSUME NEW c \in Conns, Execute(c)
      PROVE  Connected'
  BY <1>8 DEF Execute, clientVars, writerVars, readerVars,
       browserVars
<1>9. ASSUME NEW c \in Conns, SendFrame(c)
      PROVE  Connected'
  BY <1>9 DEF SendFrame, clientVars, writerVars, readerVars,
       browserVars
<1>10. ASSUME NEW c \in Conns, CloseSocket(c)
      PROVE  Connected'
  BY <1>10 DEF CloseSocket, clientVars, writerVars, readerVars,
       browserVars
<1>11. ASSUME NEW r \in Calls, ReadAnswer(r)
      PROVE  Connected'
  BY <1>11 DEF ReadAnswer, clientVars, writerVars, readerVars,
       browserVars
<1>12. CASE ReadFrame
  BY <1>12 DEF ReadFrame, Reads, clientVars, writerVars, readerVars,
       browserVars
<1>13. CASE Acknowledge
  BY <1>13 DEF Acknowledge, clientVars, writerVars, readerVars,
       browserVars
<1>14. CASE Disconnected
  BY <1>14 DEF Disconnected, clientVars, writerVars, readerVars,
       browserVars
<1>15. CASE BackedOff
  BY <1>15 DEF BackedOff, clientVars, writerVars, readerVars,
       browserVars
<1>16. CASE ConnectFails
  BY <1>16 DEF ConnectFails, clientVars, writerVars, readerVars,
       browserVars
<1>17. CASE ConnectSucceeds
  BY <1>17 DEF ConnectSucceeds, clientVars, writerVars, readerVars,
       browserVars
<1>18. CASE Swap
  BY <1>18 DEF Swap, clientVars, writerVars, readerVars,
       browserVars
<1>19. CASE ReadParams
  BY <1>19 DEF ReadParams, clientVars, writerVars, readerVars,
       browserVars
<1>20. CASE CloneTx
  BY <1>20 DEF CloneTx, clientVars, writerVars, readerVars,
       browserVars
<1>21. CASE RestartScreencast
  BY <1>21 DEF RestartScreencast, clientVars, writerVars, readerVars,
       browserVars
<1>22. CASE ReaderEnds
  BY <1>22 DEF ReaderEnds, clientVars, writerVars, readerVars,
       browserVars
<1>23. CASE Cancel
  BY <1>23 DEF Cancel, clientVars, writerVars, readerVars,
       browserVars
<1>24. CASE UNCHANGED <<pc, wanted, tx, conn, reader, attempt, open, cast, writer, cancelled>>
  BY <1>24
<1> QED
  BY <1>1, <1>2, <1>3, <1>4, <1>5, <1>6, <1>7, <1>8, <1>9, <1>10, <1>11,
     <1>12, <1>13, <1>14, <1>15, <1>16, <1>17, <1>18, <1>19, <1>20, <1>21,
     <1>22, <1>23, <1>24
  DEF Next, CallStep, WriterStep, ReaderStep, vars, clientVars, writerVars,
      readerVars, browserVars, WriterTakes, WriterSends

-----------------------------------------------------------------------------
(* The screencast                                                          *)

\* A request that was sent on the connection that is read stays on its way until
\* the browser executes it, as long as the socket is up.
LEMMA StaysOnItsWay ==
    ASSUME CdpTypeOK, Connected, [Next]_vars, NEW q \in Requests,
           OnItsWay(conn, q), conn' = conn, open[conn], ~cancelled, open'[conn],
           \A c \in Conns : ~(Execute(c) /\ c = conn /\ Head(asked[c]) = q)
    PROVE  OnItsWay(conn, q)'
<1> DEFINE on(ch, h, a) == Contains(ch, q) \/ h = q \/ Contains(a, q)
<1>1. SUFFICES on(chan'[conn], hand'[conn], asked'[conn])
  BY DEF OnItsWay
<1>2. on(chan[conn], hand[conn], asked[conn])
  BY DEF OnItsWay
<1> HIDE DEF on
<1> USE DEF CdpTypeOK
<1>3. ASSUME NEW r \in Callers, Push(r)
      PROVE  on(chan'[conn], hand'[conn], asked'[conn])
  <2>1. chan' = [chan EXCEPT ![tx] = Append(@, r)] /\ UNCHANGED <<hand, asked>>
    BY <1>3 DEF Push, writerVars, browserVars
  <2>2. r \in Requests
    BY DEF Requests
  <2>3. Contains(Append(chan[tx], r), q) <=> Contains(chan[tx], q) \/ q = r
    BY <2>2, ContainsAppend
  <2> QED BY <1>2, <2>1, <2>3 DEF on
<1>4. ASSUME NEW c \in Conns, WriterTakes(c)
      PROVE  on(chan'[conn], hand'[conn], asked'[conn])
  <2>1. /\ hand[c] = None /\ chan[c] # <<>> /\ UNCHANGED asked
        /\ hand' = [hand EXCEPT ![c] = Head(chan[c])]
        /\ chan' = [chan EXCEPT ![c] = Tail(@)]
    BY <1>4 DEF WriterTakes, browserVars
  <2>2. Contains(chan[c], q) <=> Contains(Tail(chan[c]), q) \/ q = Head(chan[c])
    BY <2>1, ContainsTail
  <2>3. q # None
    BY TokensAssumption
  <2> QED BY <1>2, <2>1, <2>2, <2>3 DEF on
<1>5. ASSUME NEW c \in Conns, WriterSends(c)
      PROVE  on(chan'[conn], hand'[conn], asked'[conn])
  <2>1. /\ hand[c] # None /\ UNCHANGED chan
        /\ hand' = [hand EXCEPT ![c] = None]
        /\ c # conn => asked'[conn] = asked[conn]
        /\ c = conn => asked'[conn] = Append(asked[conn], hand[conn])
    BY <1>5 DEF WriterSends, clientVars
  <2>2. hand[c] \in Requests
    BY <2>1
  <2>3. Contains(Append(asked[c], hand[c]), q) <=> Contains(asked[c], q) \/ q = hand[c]
    BY <2>2, ContainsAppend
  <2> QED BY <1>2, <2>1, <2>3 DEF on
<1>6. ASSUME NEW c \in Conns, WriterEnds(c)
      PROVE  on(chan'[conn], hand'[conn], asked'[conn])
  <2>1. /\ writer[c] = "running" /\ UNCHANGED asked
        /\ ~open[c] \/ cancelled \/ tx # c
        /\ hand' = [hand EXCEPT ![c] = None]
        /\ chan' = [chan EXCEPT ![c] = <<>>]
    BY <1>6 DEF WriterEnds, Receives, browserVars, readerVars
  <2>2. c # conn
    BY <2>1 DEF Connected
  <2> QED BY <1>2, <2>1, <2>2 DEF on
<1>7. ASSUME NEW c \in Conns, Execute(c)
      PROVE  on(chan'[conn], hand'[conn], asked'[conn])
  <2>1. /\ asked[c] # <<>> /\ UNCHANGED <<chan, hand>>
        /\ asked' = [asked EXCEPT ![c] = Tail(@)]
    BY <1>7 DEF Execute, clientVars, writerVars
  <2>2. Contains(asked[c], q) <=> Contains(Tail(asked[c]), q) \/ q = Head(asked[c])
    BY <2>1, ContainsTail
  <2> QED BY <1>2, <1>7, <2>1, <2>2 DEF on
<1>8. ASSUME NEW c \in Conns, CloseSocket(c)
      PROVE  on(chan'[conn], hand'[conn], asked'[conn])
  <2>1. c # conn
    BY <1>8 DEF CloseSocket
  <2> QED BY <1>2, <1>8, <2>1 DEF CloseSocket, clientVars, writerVars, on
<1>9. CASE Acknowledge
  <2>1. /\ UNCHANGED <<hand, asked>>
        /\ chan' = [chan EXCEPT ![conn] = Append(@, Ack)] \/ UNCHANGED chan
    BY <1>9 DEF Acknowledge, writerVars, browserVars
  <2>2. Ack \in Requests
    BY DEF Requests, Callers
  <2>3. Contains(Append(chan[conn], Ack), q) <=> Contains(chan[conn], q) \/ q = Ack
    BY <2>2, ContainsAppend
  <2> QED BY <1>2, <2>1, <2>3 DEF on
<1>10. CASE RestartScreencast
  <2>1. /\ UNCHANGED <<hand, asked>>
        /\ chan' = [chan EXCEPT ![conn] = Append(@, Start)] \/ UNCHANGED chan
    BY <1>10 DEF RestartScreencast, writerVars, browserVars
  <2>2. Start \in Requests
    BY DEF Requests, Callers
  <2>3. Contains(Append(chan[conn], Start), q) <=> Contains(chan[conn], q) \/ q = Start
    BY <2>2, ContainsAppend
  <2> QED BY <1>2, <2>1, <2>3 DEF on
<1>11. CASE UNCHANGED <<chan, hand, asked>>
  BY <1>2, <1>11 DEF on
<1> QED
  BY <1>3, <1>4, <1>5, <1>6, <1>7, <1>8, <1>9, <1>10, <1>11
  DEF Next, CallStep, WriterStep, ReaderStep, vars, clientVars, writerVars,
      readerVars, browserVars, Begin, LockTx, SendFails, Timeout, Drop,
      SendFrame, ReadAnswer, ReadFrame, Disconnected, BackedOff,
      ConnectFails, ConnectSucceeds, Swap, ReadParams, CloneTx, ReaderEnds,
      Cancel, Reads

\* The connection loop changes connections only when it has opened one.
LEMMA SameConnection ==
    ASSUME CdpTypeOK, Connected, [Next]_vars, open'[conn'], ~cancelled',
           reader' # "swap" \/ cast'[conn'] # "off"
    PROVE  conn' = conn /\ open[conn] /\ ~cancelled
<1> USE DEF CdpTypeOK, Connected
<1>1. ASSUME NEW c \in Conns, CloseSocket(c)
      PROVE  conn' = conn /\ open[conn] /\ ~cancelled
  BY <1>1 DEF CloseSocket, clientVars, writerVars, readerVars,
       browserVars
<1>2. CASE ConnectSucceeds
  <2>1. reader' = "swap" /\ conn' = conn + 1 /\ cast' = cast
    BY <1>2 DEF ConnectSucceeds
  <2>2. conn + 1 \in Conns /\ cast[conn + 1] = "off"
    BY <1>2, SizesAssumption DEF ConnectSucceeds, Conns
  <2> QED BY <2>1, <2>2
<1>3. CASE Cancel
  BY <1>3 DEF Cancel, clientVars, writerVars, readerVars,
       browserVars
<1>4. CASE UNCHANGED <<open, conn, cancelled>>
  BY <1>4
<1> QED
  BY <1>1, <1>2, <1>3, <1>4
  DEF Next, CallStep, WriterStep, ReaderStep, vars, clientVars, writerVars,
      readerVars, browserVars, Begin, LockTx, Push, SendFails, Timeout, Drop,
      WriterTakes, WriterSends, WriterEnds, Execute, SendFrame, ReadAnswer,
      ReadFrame, Acknowledge, Disconnected, BackedOff, ConnectFails, Swap,
      ReadParams, CloneTx, RestartScreencast, ReaderEnds, Reads

\* Only a new frame makes a connection wait for an acknowledgement.
LEMMA CastStep ==
    ASSUME CdpTypeOK, [Next]_vars, NEW d \in Conns, cast'[d] = "unacked"
    PROVE  cast[d] = "unacked" \/ \E c \in Conns : SendFrame(c) /\ c = d
<1> USE DEF CdpTypeOK
<1>1. ASSUME NEW c \in Conns, Execute(c)
      PROVE  cast[d] = "unacked" \/ \E e \in Conns : SendFrame(e) /\ e = d
  BY <1>1 DEF Execute
<1>2. ASSUME NEW c \in Conns, SendFrame(c)
      PROVE  cast[d] = "unacked" \/ \E e \in Conns : SendFrame(e) /\ e = d
  <2>1. CASE c = d
    BY <1>2, <2>1
  <2>2. CASE c # d
    BY <1>2, <2>2 DEF SendFrame
  <2> QED BY <2>1, <2>2
<1>3. CASE UNCHANGED cast
  BY <1>3
<1> QED
  BY <1>1, <1>2, <1>3
  DEF Next, CallStep, WriterStep, ReaderStep, vars, clientVars, writerVars,
      readerVars, browserVars, Begin, LockTx, Push, SendFails, Timeout, Drop,
      WriterTakes, WriterSends, WriterEnds, CloseSocket, ReadAnswer,
      ReadFrame, Acknowledge, Disconnected, BackedOff, ConnectFails,
      ConnectSucceeds, Swap, ReadParams, CloneTx, RestartScreencast,
      ReaderEnds, Cancel, Reads

\* A frame that was sent stays until it is read.
LEMMA FrameStep ==
    ASSUME CdpTypeOK, [Next]_vars, conn' = conn, Contains(answers[conn], Frame)
    PROVE  Contains(answers'[conn], Frame) \/ reader' = "acking"
<1> USE DEF CdpTypeOK
<1>1. ASSUME NEW c \in Conns, Execute(c)
      PROVE  Contains(answers'[conn], Frame) \/ reader' = "acking"
  <2>1. CASE answers' = answers
    BY <2>1
  <2>2. CASE answers' # answers
    <3>1. /\ answers' = [answers EXCEPT ![c] = Append(@, Head(asked[c]))]
          /\ Head(asked[c]) \in Calls
      BY <1>1, <2>2 DEF Execute
    <3>2. Contains(Append(answers[c], Head(asked[c])), Frame)
            <=> Contains(answers[c], Frame) \/ Frame = Head(asked[c])
      <4> DEFINE M == Calls \cup {Frame}
      <4>1. answers[c] \in Seq(M) /\ Head(asked[c]) \in M
        BY <3>1
      <4> HIDE DEF M
      <4> QED BY <4>1, ContainsAppend
    <3> QED BY <3>1, <3>2
  <2> QED BY <2>1, <2>2
<1>2. ASSUME NEW c \in Conns, SendFrame(c)
      PROVE  Contains(answers'[conn], Frame) \/ reader' = "acking"
  <2>1. Contains(Append(answers[c], Frame), Frame)
    <3> DEFINE M == Calls \cup {Frame}
    <3>1. answers[c] \in Seq(M) /\ Frame \in M
      OBVIOUS
    <3> HIDE DEF M
    <3> QED BY <3>1, ContainsAppend
  <2>2. answers' = [answers EXCEPT ![c] = Append(@, Frame)]
    BY <1>2 DEF SendFrame
  <2> QED BY <2>1, <2>2
<1>3. ASSUME NEW r \in Calls, ReadAnswer(r)
      PROVE  Contains(answers'[conn], Frame) \/ reader' = "acking"
  <2>1. /\ answers[conn] # <<>> /\ Head(answers[conn]) = r
        /\ answers' = [answers EXCEPT ![conn] = Tail(@)]
    BY <1>3 DEF ReadAnswer, Reads
  <2>2. Contains(answers[conn], Frame)
          <=> Contains(Tail(answers[conn]), Frame) \/ Frame = Head(answers[conn])
    BY <2>1, ContainsTail
  <2>3. Frame # r
    BY TokensAssumption
  <2> QED BY <2>1, <2>2, <2>3
<1>4. CASE ReadFrame
  BY <1>4 DEF ReadFrame
<1>5. CASE UNCHANGED answers
  BY <1>5
<1> QED
  BY <1>1, <1>2, <1>3, <1>4, <1>5
  DEF Next, CallStep, WriterStep, ReaderStep, vars, clientVars, writerVars,
      readerVars, browserVars, Begin, LockTx, Push, SendFails, Timeout, Drop,
      WriterTakes, WriterSends, WriterEnds, CloseSocket, Acknowledge,
      Disconnected, BackedOff, ConnectFails, ConnectSucceeds, Swap,
      ReadParams, CloneTx, RestartScreencast, ReaderEnds, Cancel

\* A frame is read, or its acknowledgement sent, or on its way, after each step.
LEMMA FramesStep ==
    ASSUME CdpTypeOK, Connected, FramesKeepFlowing, [Next]_vars
    PROVE  FramesKeepFlowing'
<1> SUFFICES ASSUME open'[conn'], cast'[conn'] = "unacked", ~cancelled'
             PROVE  \/ Contains(answers'[conn'], Frame)
                    \/ reader' = "acking"
                    \/ OnItsWay(conn, Ack)'
  BY DEF FramesKeepFlowing
<1> DEFINE flows == \/ Contains(answers'[conn'], Frame)
                    \/ reader' = "acking"
                    \/ OnItsWay(conn, Ack)'
<1>1. conn' = conn /\ open[conn] /\ ~cancelled
  BY SameConnection DEF CdpTypeOK, Connected
<1>2. \/ cast[conn] = "unacked"
      \/ \E c \in Conns : SendFrame(c) /\ c = conn
  BY <1>1, CastStep DEF CdpTypeOK
<1>3. ASSUME NEW c \in Conns, SendFrame(c), c = conn PROVE flows
  <2>1. answers'[conn'] = Append(answers[conn], Frame)
    BY <1>1, <1>3 DEF SendFrame, CdpTypeOK
  <2>2. answers[conn] \in Seq(Calls \cup {Frame})
    BY DEF CdpTypeOK
  <2> QED BY <2>1, <2>2, ContainsAppend
<1>4. CASE cast[conn] = "unacked"
  <2>1. CASE Contains(answers[conn], Frame)
    BY <1>1, <2>1, FrameStep
  <2>2. CASE reader = "acking"
    <3>1. CASE reader' = "acking"
      BY <3>1
    <3>2. CASE reader' # "acking"
      <4>1. Acknowledge
        BY <2>2, <3>2 DEF Next, CallStep, WriterStep, ReaderStep, Reads, vars, clientVars,
            writerVars, readerVars, browserVars, Begin, LockTx, Push,
            SendFails, Timeout, Drop, WriterTakes, WriterSends, WriterEnds,
            Execute, SendFrame, CloseSocket, ReadAnswer, ReadFrame,
            Disconnected, BackedOff, ConnectFails, ConnectSucceeds, Swap,
            ReadParams, CloneTx, RestartScreencast, ReaderEnds, Cancel
      <4>2. writer[conn] = "running"
        BY <1>1, <2>2 DEF Connected
      <4>3. chan' = [chan EXCEPT ![conn] = Append(@, Ack)]
        BY <4>1, <4>2 DEF Acknowledge, Receives
      <4>4. chan'[conn'] = Append(chan[conn], Ack) /\ chan[conn] \in Seq(Requests)
        BY <1>1, <4>3 DEF CdpTypeOK
      <4>5. Ack \in Requests
        BY DEF Requests
      <4> QED BY <4>4, <4>5, ContainsAppend DEF OnItsWay
    <3> QED BY <3>1, <3>2
  <2>3. CASE OnItsWay(conn, Ack)
    <3>1. ASSUME NEW c \in Conns, Execute(c), c = conn, Head(asked[c]) = Ack
          PROVE  FALSE
      BY <1>1, <1>4, <3>1, TokensAssumption
         DEF Execute, readerVars, CdpTypeOK, Callers
    <3>2. Ack \in Requests
      BY DEF Requests
    <3> QED BY <1>1, <2>3, <3>1, <3>2, StaysOnItsWay
  <2> QED BY <1>1, <1>4, <2>1, <2>2, <2>3 DEF FramesKeepFlowing
<1> QED BY <1>2, <1>3, <1>4

\* A screencast that is started stays so.
LEMMA CastStays ==
    ASSUME CdpTypeOK, [Next]_vars, NEW d \in Conns, cast[d] # "off"
    PROVE  cast'[d] # "off"
<1> USE DEF CdpTypeOK
<1>1. ASSUME NEW c \in Conns, Execute(c)
      PROVE  cast'[d] # "off"
  BY <1>1 DEF Execute
<1>2. ASSUME NEW c \in Conns, SendFrame(c)
      PROVE  cast'[d] # "off"
  BY <1>2 DEF SendFrame
<1>3. CASE UNCHANGED cast
  BY <1>3
<1> QED
  BY <1>1, <1>2, <1>3
  DEF Next, CallStep, WriterStep, ReaderStep, vars, clientVars, writerVars,
      readerVars, browserVars, Begin, LockTx, Push, SendFails, Timeout, Drop,
      WriterTakes, WriterSends, WriterEnds, CloseSocket, ReadAnswer,
      ReadFrame, Acknowledge, Disconnected, BackedOff, ConnectFails,
      ConnectSucceeds, Swap, ReadParams, CloneTx, RestartScreencast,
      ReaderEnds, Cancel, Reads

\* The steps by which start_screencast returns, or the connection loop comes back
\* to its socket.
LEMMA ScreencastContext ==
    ASSUME CdpTypeOK, [Next]_vars, pc'[Start] \in {"sent", "failed"},
           reader' \in {"reading", "acking"},
           ~Push(Start), ~SendFails(Start), ~RestartScreencast, ~ReadParams
    PROVE  pc[Start] \in {"sent", "failed"} /\ reader \in {"reading", "acking"}
<1> USE TokensAssumption DEF CdpTypeOK, Callers
<1>1. ASSUME NEW r \in Callers, Begin(r)
      PROVE  pc[Start] \in {"sent", "failed"} /\ reader \in {"reading", "acking"}
  BY <1>1 DEF Begin, readerVars
<1>2. ASSUME NEW r \in Callers, LockTx(r)
      PROVE  pc[Start] \in {"sent", "failed"} /\ reader \in {"reading", "acking"}
  BY <1>2 DEF LockTx, readerVars
<1>3. ASSUME NEW r \in Callers, Push(r)
      PROVE  pc[Start] \in {"sent", "failed"} /\ reader \in {"reading", "acking"}
  BY <1>3 DEF Push, readerVars
<1>4. ASSUME NEW r \in Callers, SendFails(r)
      PROVE  pc[Start] \in {"sent", "failed"} /\ reader \in {"reading", "acking"}
  BY <1>4 DEF SendFails, readerVars
<1>5. ASSUME NEW r \in Callers, Timeout(r)
      PROVE  pc[Start] \in {"sent", "failed"} /\ reader \in {"reading", "acking"}
  BY <1>5 DEF Timeout, readerVars
<1>6. ASSUME NEW r \in Callers, Drop(r)
      PROVE  pc[Start] \in {"sent", "failed"} /\ reader \in {"reading", "acking"}
  BY <1>6 DEF Drop, readerVars
<1>7. ASSUME NEW r \in Calls, ReadAnswer(r)
      PROVE  pc[Start] \in {"sent", "failed"} /\ reader \in {"reading", "acking"}
  BY <1>7 DEF ReadAnswer, Reads, readerVars
<1>8. CASE ReadFrame
  BY <1>8 DEF ReadFrame, Reads, clientVars
<1>9. CASE Acknowledge
  BY <1>9 DEF Acknowledge, clientVars, readerVars
<1>10. CASE Disconnected
  BY <1>10 DEF Disconnected, clientVars, readerVars
<1>11. CASE BackedOff
  BY <1>11 DEF BackedOff, clientVars, readerVars
<1>12. CASE ConnectFails
  BY <1>12 DEF ConnectFails, clientVars, readerVars
<1>13. CASE ConnectSucceeds
  BY <1>13 DEF ConnectSucceeds, clientVars, readerVars
<1>14. CASE Swap
  BY <1>14 DEF Swap, clientVars, readerVars
<1>15. CASE ReadParams
  BY <1>15 DEF ReadParams, clientVars, readerVars
<1>16. CASE CloneTx
  BY <1>16 DEF CloneTx, clientVars, readerVars
<1>17. CASE RestartScreencast
  BY <1>17 DEF RestartScreencast, clientVars, readerVars
<1>18. CASE ReaderEnds
  BY <1>18 DEF ReaderEnds, clientVars, readerVars
<1>19. CASE UNCHANGED <<pc, reader>>
  BY <1>19
<1> QED
  BY <1>1, <1>2, <1>3, <1>4, <1>5, <1>6, <1>7, <1>8, <1>9, <1>10, <1>11,
     <1>12, <1>13, <1>14, <1>15, <1>16, <1>17, <1>18, <1>19
  DEF Next, CallStep, WriterStep, ReaderStep, vars, clientVars, writerVars,
      readerVars, browserVars, WriterTakes, WriterSends, WriterEnds, Execute,
      SendFrame, CloseSocket, Cancel

\* Whatever start_screencast and a reconnection do between each other's steps,
\* the screencast is started or its request on its way.
LEMMA ScreencastStep ==
    ASSUME CdpTypeOK, Connected, ScreencastNotForgotten, [Next]_vars
    PROVE  ScreencastNotForgotten'
<1> DEFINE started == cast'[conn'] # "off" \/ OnItsWay(conn, Start)'
<1> SUFFICES ASSUME pc'[Start] \in {"sent", "failed"},
                    reader' \in {"reading", "acking"}, open'[conn'], ~cancelled'
             PROVE  started
  BY DEF ScreencastNotForgotten
<1>1. conn' = conn /\ open[conn] /\ ~cancelled
  BY SameConnection
<1>2. ASSUME pc[Start] \in {"sent", "failed"}, reader \in {"reading", "acking"}
      PROVE  started
  <2>1. CASE cast[conn] # "off"
    BY <1>1, <2>1, CastStays DEF CdpTypeOK
  <2>2. CASE OnItsWay(conn, Start)
    <3>1. CASE \E c \in Conns : Execute(c) /\ c = conn /\ Head(asked[c]) = Start
      BY <1>1, <3>1 DEF Execute, CdpTypeOK
    <3>2. CASE ~\E c \in Conns : Execute(c) /\ c = conn /\ Head(asked[c]) = Start
      BY <1>1, <2>2, <3>2, StaysOnItsWay DEF Requests, Callers
    <3> QED BY <3>1, <3>2
  <2> QED BY <1>1, <1>2, <2>1, <2>2 DEF ScreencastNotForgotten
<1>3. Start \in Callers /\ Start \in Requests /\ Start \notin Calls
  BY TokensAssumption DEF Callers, Requests
<1>4. CASE Push(Start)
  <2>1. tx = conn
    BY <1>4 DEF Push, readerVars, Connected
  <2>2. chan'[conn'] = Append(chan[conn], Start) /\ chan[conn] \in Seq(Requests)
    BY <1>1, <1>4, <2>1 DEF Push, CdpTypeOK
  <2> QED BY <1>3, <2>2, ContainsAppend DEF OnItsWay
<1>5. CASE SendFails(Start)
  BY <1>1, <1>5 DEF SendFails, Receives, readerVars, Connected
<1>6. CASE RestartScreencast
  <2>1. writer[conn] = "running"
    BY <1>1, <1>6 DEF RestartScreencast, Connected
  <2>2. chan'[conn'] = Append(chan[conn], Start) /\ chan[conn] \in Seq(Requests)
    BY <1>1, <1>6, <2>1 DEF RestartScreencast, Receives, CdpTypeOK
  <2> QED BY <1>3, <2>2, ContainsAppend DEF OnItsWay
<1>7. CASE ReadParams
  BY <1>3, <1>7 DEF ReadParams, clientVars, Connected
<1>8. ASSUME ~Push(Start), ~SendFails(Start), ~RestartScreencast, ~ReadParams
      PROVE  pc[Start] \in {"sent", "failed"} /\ reader \in {"reading", "acking"}
  BY <1>3, <1>8, ScreencastContext
<1> QED BY <1>2, <1>4, <1>5, <1>6, <1>7, <1>8

-----------------------------------------------------------------------------
(* The invariant                                                           *)

\* `connect` establishes the invariant.
LEMMA InitIInv == Init => IInv
<1> SUFFICES ASSUME Init PROVE IInv
  OBVIOUS
<1>1. 1 \in Conns
  BY SizesAssumption DEF Conns
<1>2. CdpTypeOK
  <2>1. /\ pc \in [Callers -> {"idle"} \cup InProgress \cup Ended]
        /\ pending \subseteq Calls /\ tx \in Conns /\ conn \in Conns
        /\ attempt \in 0..MaxAttempts
    BY <1>1, SizesAssumption DEF Init
  <2>2. /\ chan \in [Conns -> Seq(Requests)]
        /\ asked \in [Conns -> Seq(Requests)]
        /\ answers \in [Conns -> Seq(Calls \cup {Frame})]
    BY DEF Init
  <2>3. /\ writer \in [Conns -> {"none", "running", "ended"}]
        /\ hand \in [Conns -> Requests \cup {None}]
        /\ open \in [Conns -> BOOLEAN]
        /\ cast \in [Conns -> {"off", "ready", "unacked"}]
        /\ executed \in [Calls -> Nat]
    BY DEF Init
  <2>4. reader = "reading" /\ wanted = FALSE /\ cancelled = FALSE
    BY DEF Init
  <2> QED BY <2>1, <2>2, <2>3, <2>4 DEF CdpTypeOK, Polling
<1>3. PendingMatchesCalls
  BY DEF Init, PendingMatchesCalls, Callers
<1>4. Connected
  <2>1. /\ tx = 1 /\ conn = 1 /\ reader = "reading"
        /\ wanted = FALSE /\ pc[Start] = "idle"
    BY DEF Init, Callers
  <2>2. ASSUME NEW c \in Conns, c > 1
        PROVE  ~open[c] /\ cast[c] = "off" /\ writer[c] = "none"
    <3>1. c # 1
      BY <2>2
    <3>2. cast[c] = "off" /\ writer[c] = "none"
      BY <3>1 DEF Init
    <3>3. ~open[c]
      BY <3>1, Zenon DEF Init
    <3> QED BY <3>2, <3>3
  <2>3. writer[1] = "running"
    BY <1>1 DEF Init
  <2>4. wanted = (pc[Start] # "idle")
    BY <2>1
  <2>5. reader \notin {"swap", "backoff", "connecting"}
    BY <2>1
  <2> QED BY <2>1, <2>2, <2>3, <2>4, <2>5 DEF Connected
<1>5. FramesKeepFlowing /\ ScreencastNotForgotten
  BY <1>1 DEF Init, FramesKeepFlowing, ScreencastNotForgotten, Callers
<1> QED BY <1>2, <1>3, <1>4, <1>5 DEF IInv

\* The parts of the invariant hold together: types, pending requests, the state of
\* the connections, frames and the screencast.
THEOREM Invariance == Spec => []IInv
<1>1. IInv /\ [Next]_vars => IInv'
  BY TypeStep, PendingStep, ConnectedStep, FramesStep, ScreencastStep DEF IInv
<1> QED BY InitIInv, <1>1, PTL DEF Spec

\* The client, its loops and the browser keep their types, whatever the number of
\* commands and connections and the size of the channels.
THEOREM TypeCorrect == Spec => []CdpTypeOK
<1>1. IInv => CdpTypeOK
  BY DEF IInv
<1> QED BY Invariance, <1>1, PTL

\* A call that waits can be answered or failed, and no call that returned leaves
\* its id in pending_requests (send_command_and_wait, connection_loop).
THEOREM PendingAlwaysMatches == Spec => []PendingMatchesCalls
<1>1. IInv => PendingMatchesCalls
  BY DEF IInv
<1> QED BY Invariance, <1>1, PTL

\* No acknowledgement of a frame is lost while its connection is up
\* (handle_message, write_loop).
THEOREM FramesAlwaysFlow == Spec => []FramesKeepFlowing
<1>1. IInv => FramesKeepFlowing
  BY DEF IInv
<1> QED BY Invariance, <1>1, PTL

\* However start_screencast and reconnections interleave, the connection that is
\* read has its screencast (start_screencast, connection_loop).
THEOREM ScreencastNeverForgotten == Spec => []ScreencastNotForgotten
<1>1. IInv => ScreencastNotForgotten
  BY DEF IInv
<1> QED BY Invariance, <1>1, PTL

-----------------------------------------------------------------------------
(* CdpClient implements RequestReply: a call is executed by the browser at *)
(* most once and answered only with the answer to itself, across channels, *)
(* reconnections, time-outs and calls that are dropped.                    *)

Once(s, x) == \A i, j \in DOMAIN s : s[i] = x /\ s[j] = x => i = j

\* Call q is in one place at most: in one channel, one write loop's hands or one
\* socket.
InOnePlace(q) ==
    /\ \A c \in Conns : Once(chan[c], q) /\ Once(asked[c], q)
    /\ \A c, d \in Conns : OnItsWay(c, q) /\ OnItsWay(d, q) => c = d
    /\ \A c \in Conns : /\ ~(Contains(chan[c], q) /\ hand[c] = q)
                        /\ ~(Contains(chan[c], q) /\ Contains(asked[c], q))
                        /\ ~(hand[c] = q /\ Contains(asked[c], q))

\* It is on its way, executed, or neither; it is on its way only once it was sent,
\* and an answer to it follows its execution.
ExecutedOnce(q) ==
    /\ \A c \in Conns : OnItsWay(c, q) =>
           executed[q] = 0 /\ pc[q] \in {"wait", "failed", "timedOut", "dropped"}
    /\ pc[q] \in {"idle", "lock", "push"} => executed[q] = 0
    /\ \A c \in Conns : Contains(answers[c], q) => executed[q] = 1
    /\ executed[q] \in {0, 1}
    /\ pc[q] = "answered" => executed[q] = 1
    /\ pc[q] # "sent"

Traced == \A q \in Calls : InOnePlace(q) /\ ExecutedOnce(q)

-----------------------------------------------------------------------------
(* Sequences                                                               *)

\* What is appended to a sequence without it occurs in it once.
LEMMA OnceAppend ==
    ASSUME NEW S, NEW s \in Seq(S), NEW e \in S, NEW x, Once(s, x),
           e = x => ~Contains(s, x)
    PROVE  Once(Append(s, e), x)
<1> DEFINE t == Append(s, e)
<1>1. /\ DOMAIN t = 1..(Len(s) + 1) /\ t[Len(s) + 1] = e
      /\ \A i \in 1..Len(s) : t[i] = s[i]
      /\ DOMAIN s = 1..Len(s) /\ Len(s) \in Nat
  OBVIOUS
<1> HIDE DEF t
<1>2. ASSUME NEW i \in DOMAIN t, NEW j \in DOMAIN t, t[i] = x, t[j] = x
      PROVE  i = j
  <2>1. CASE e = x
    <3>1. \A k \in DOMAIN s : s[k] # x
      BY <2>1 DEF Contains
    <3> QED BY <1>1, <1>2, <3>1
  <2>2. CASE e # x
    <3>1. i \in DOMAIN s /\ j \in DOMAIN s /\ s[i] = x /\ s[j] = x
      BY <1>1, <1>2, <2>2
    <3> QED BY <3>1 DEF Once
  <2> QED BY <2>1, <2>2
<1> QED BY <1>2 DEF Once, t

\* What occurs once in a sequence and is received has left it.
LEMMA OnceTail ==
    ASSUME NEW S, NEW s \in Seq(S), s # <<>>, NEW x, Once(s, x)
    PROVE  /\ Once(Tail(s), x)
           /\ Head(s) = x => ~Contains(Tail(s), x)
<1> DEFINE t == Tail(s)
<1>1. /\ DOMAIN t = 1..(Len(s) - 1) /\ \A i \in DOMAIN t : t[i] = s[i + 1]
      /\ DOMAIN s = 1..Len(s) /\ Len(s) \in Nat \ {0} /\ Head(s) = s[1]
  OBVIOUS
<1> HIDE DEF t
<1>2. ASSUME NEW i \in DOMAIN t, NEW j \in DOMAIN t, t[i] = x, t[j] = x
      PROVE  i = j
  <2>1. /\ i + 1 \in DOMAIN s /\ j + 1 \in DOMAIN s
        /\ s[i + 1] = x /\ s[j + 1] = x
    BY <1>1, <1>2
  <2>2. i + 1 = j + 1
    BY <2>1 DEF Once
  <2> QED BY <1>1, <2>2
<1>3. ASSUME Head(s) = x, NEW i \in DOMAIN t, t[i] = x PROVE FALSE
  <2>1. i + 1 \in DOMAIN s /\ 1 \in DOMAIN s /\ s[i + 1] = x /\ s[1] = x
    BY <1>1, <1>3
  <2>2. i + 1 = 1
    BY <2>1 DEF Once
  <2> QED BY <1>1, <2>2
<1> QED BY <1>2, <1>3 DEF Once, Contains, t

-----------------------------------------------------------------------------
(* The invariant                                                           *)

\* Every step leaves a call in one place at most.
LEMMA PlaceStep ==
    ASSUME CdpTypeOK, [Next]_vars, NEW q \in Calls, InOnePlace(q), ExecutedOnce(q)
    PROVE  InOnePlace(q)'
<1>1. q \in Requests /\ q \notin {None, Ack, Start}
  BY TokensAssumption DEF Requests, Callers
<1>2. ASSUME NEW r \in Callers, Push(r)
      PROVE  InOnePlace(q)'
  <2>1. /\ UNCHANGED <<hand, asked>> /\ tx \in Conns /\ pc[r] = "push"
        /\ chan' = [chan EXCEPT ![tx] = Append(@, r)]
    BY <1>2 DEF Push, writerVars, browserVars, CdpTypeOK
  <2>2. chan[tx] \in Seq(Requests) /\ r \in Requests
    BY <2>1 DEF CdpTypeOK, Requests
  <2>3. Contains(Append(chan[tx], r), q) <=> Contains(chan[tx], q) \/ q = r
    BY <2>2, ContainsAppend
  <2>4. r = q => \A c \in Conns : ~OnItsWay(c, q)
    BY <2>1 DEF ExecutedOnce
  <2>5. Once(Append(chan[tx], r), q)
    BY <2>1, <2>2, <2>4, OnceAppend DEF InOnePlace, OnItsWay
  <2> QED BY <2>1, <2>3, <2>4, <2>5 DEF InOnePlace, OnItsWay, CdpTypeOK
<1>3. ASSUME NEW c \in Conns, WriterTakes(c)
      PROVE  InOnePlace(q)'
  <2>1. /\ hand[c] = None /\ chan[c] # <<>> /\ UNCHANGED asked
        /\ hand' = [hand EXCEPT ![c] = Head(chan[c])]
        /\ chan' = [chan EXCEPT ![c] = Tail(@)]
    BY <1>3 DEF WriterTakes, browserVars
  <2>2. chan[c] \in Seq(Requests)
    BY DEF CdpTypeOK
  <2>3. Contains(chan[c], q) <=> Contains(Tail(chan[c]), q) \/ q = Head(chan[c])
    BY <2>1, <2>2, ContainsTail
  <2>4. /\ Once(Tail(chan[c]), q)
        /\ Head(chan[c]) = q => ~Contains(Tail(chan[c]), q)
    BY <2>1, <2>2, OnceTail DEF InOnePlace
  <2> QED BY <1>1, <2>1, <2>3, <2>4 DEF InOnePlace, OnItsWay, CdpTypeOK
<1>4. ASSUME NEW c \in Conns, WriterSends(c)
      PROVE  InOnePlace(q)'
  <2>1. /\ hand[c] \in Requests /\ UNCHANGED chan
        /\ hand' = [hand EXCEPT ![c] = None]
        /\ UNCHANGED asked \/ asked' = [asked EXCEPT ![c] = Append(@, hand[c])]
    BY <1>4 DEF WriterSends, clientVars, CdpTypeOK
  <2>2. asked[c] \in Seq(Requests)
    BY DEF CdpTypeOK
  <2>3. Contains(Append(asked[c], hand[c]), q) <=> Contains(asked[c], q) \/ q = hand[c]
    BY <2>1, <2>2, ContainsAppend
  <2>4. Once(Append(asked[c], hand[c]), q)
    BY <2>1, <2>2, OnceAppend DEF InOnePlace
  <2> QED BY <1>1, <2>1, <2>3, <2>4 DEF InOnePlace, OnItsWay, CdpTypeOK
<1>5. ASSUME NEW c \in Conns, WriterEnds(c)
      PROVE  InOnePlace(q)'
  <2>1. /\ UNCHANGED asked
        /\ hand' = [hand EXCEPT ![c] = None]
        /\ chan' = [chan EXCEPT ![c] = <<>>]
    BY <1>5 DEF WriterEnds, browserVars
  <2>2. ~Contains(<<>>, q) /\ Once(<<>>, q)
    BY DEF Contains, Once
  <2> QED BY <1>1, <2>1, <2>2 DEF InOnePlace, OnItsWay, CdpTypeOK
<1>6. ASSUME NEW c \in Conns, Execute(c)
      PROVE  InOnePlace(q)'
  <2>1. /\ asked[c] # <<>> /\ UNCHANGED <<chan, hand>>
        /\ asked' = [asked EXCEPT ![c] = Tail(@)]
    BY <1>6 DEF Execute, clientVars, writerVars
  <2>2. asked[c] \in Seq(Requests)
    BY DEF CdpTypeOK
  <2>3. Contains(asked[c], q) <=> Contains(Tail(asked[c]), q) \/ q = Head(asked[c])
    BY <2>1, <2>2, ContainsTail
  <2>4. Once(Tail(asked[c]), q)
    BY <2>1, <2>2, OnceTail DEF InOnePlace
  <2> QED BY <2>1, <2>3, <2>4 DEF InOnePlace, OnItsWay, CdpTypeOK
<1>7. ASSUME NEW c \in Conns, CloseSocket(c)
      PROVE  InOnePlace(q)'
  <2>1. UNCHANGED <<chan, hand>> /\ asked' = [asked EXCEPT ![c] = <<>>]
    BY <1>7 DEF CloseSocket, clientVars, writerVars
  <2>2. ~Contains(<<>>, q) /\ Once(<<>>, q)
    BY DEF Contains, Once
  <2> QED BY <2>1, <2>2 DEF InOnePlace, OnItsWay, CdpTypeOK
<1>8. CASE Acknowledge
  <2>1. /\ UNCHANGED <<hand, asked>> /\ conn \in Conns
        /\ UNCHANGED chan \/ chan' = [chan EXCEPT ![conn] = Append(@, Ack)]
    BY <1>8 DEF Acknowledge, writerVars, browserVars, CdpTypeOK
  <2>2. chan[conn] \in Seq(Requests) /\ Ack \in Requests
    BY <2>1 DEF CdpTypeOK, Requests, Callers
  <2>3. Contains(Append(chan[conn], Ack), q) <=> Contains(chan[conn], q)
    BY <1>1, <2>2, ContainsAppend
  <2>4. Once(Append(chan[conn], Ack), q)
    BY <1>1, <2>1, <2>2, OnceAppend DEF InOnePlace
  <2> QED BY <2>1, <2>3, <2>4 DEF InOnePlace, OnItsWay, CdpTypeOK
<1>9. CASE RestartScreencast
  <2>1. /\ UNCHANGED <<hand, asked>> /\ conn \in Conns
        /\ UNCHANGED chan \/ chan' = [chan EXCEPT ![conn] = Append(@, Start)]
    BY <1>9 DEF RestartScreencast, writerVars, browserVars, CdpTypeOK
  <2>2. chan[conn] \in Seq(Requests) /\ Start \in Requests
    BY <2>1 DEF CdpTypeOK, Requests, Callers
  <2>3. Contains(Append(chan[conn], Start), q) <=> Contains(chan[conn], q)
    BY <1>1, <2>2, ContainsAppend
  <2>4. Once(Append(chan[conn], Start), q)
    BY <1>1, <2>1, <2>2, OnceAppend DEF InOnePlace
  <2> QED BY <2>1, <2>3, <2>4 DEF InOnePlace, OnItsWay, CdpTypeOK
<1>10. CASE UNCHANGED <<chan, hand, asked>>
  BY <1>10 DEF InOnePlace, OnItsWay
<1> QED
  BY <1>2, <1>3, <1>4, <1>5, <1>6, <1>7, <1>8, <1>9, <1>10
  DEF Next, CallStep, WriterStep, ReaderStep, vars, clientVars, writerVars,
      readerVars, browserVars, Begin, LockTx, SendFails, Timeout, Drop,
      SendFrame, ReadAnswer, ReadFrame, Disconnected, BackedOff,
      ConnectFails, ConnectSucceeds, Swap, ReadParams, CloneTx, ReaderEnds,
      Cancel, Reads

\* What a call may become in one step.
LEMMA PcStep ==
    ASSUME CdpTypeOK, [Next]_vars, NEW q \in Calls
    PROVE  /\ pc'[q] \in {"idle", "lock", "push"} => pc[q] \in {"idle", "lock", "push"}
           /\ pc'[q] = "answered" =>
                  pc[q] = "answered" \/ Contains(answers[conn], q)
           /\ pc[q] \in {"wait", "failed", "timedOut", "dropped"} =>
                  pc'[q] \in {"wait", "failed", "timedOut", "dropped", "answered"}
           /\ pc'[q] = "sent" => pc[q] = "sent"
<1> DEFINE next(v, w) ==
               /\ w \in {"idle", "lock", "push"} => v \in {"idle", "lock", "push"}
               /\ w = "answered" => v = "answered" \/ Contains(answers[conn], q)
               /\ v \in {"wait", "failed", "timedOut", "dropped"} =>
                      w \in {"wait", "failed", "timedOut", "dropped", "answered"}
               /\ w = "sent" => v = "sent"
<1> SUFFICES next(pc[q], pc'[q])
  OBVIOUS
<1> USE DEF CdpTypeOK, Callers
<1>1. ASSUME NEW r \in Callers, Begin(r)
      PROVE  next(pc[q], pc'[q])
  BY <1>1 DEF Begin
<1>2. ASSUME NEW r \in Callers, LockTx(r)
      PROVE  next(pc[q], pc'[q])
  BY <1>2 DEF LockTx
<1>3. ASSUME NEW r \in Callers, Push(r)
      PROVE  next(pc[q], pc'[q])
  BY <1>3 DEF Push
<1>4. ASSUME NEW r \in Callers, SendFails(r)
      PROVE  next(pc[q], pc'[q])
  BY <1>4 DEF SendFails
<1>5. ASSUME NEW r \in Callers, Timeout(r)
      PROVE  next(pc[q], pc'[q])
  BY <1>5 DEF Timeout
<1>6. ASSUME NEW r \in Callers, Drop(r)
      PROVE  next(pc[q], pc'[q])
  BY <1>6 DEF Drop, InProgress
<1>7. ASSUME NEW r \in Calls, ReadAnswer(r)
      PROVE  next(pc[q], pc'[q])
  <2>1. /\ answers[conn] # <<>> /\ Head(answers[conn]) = r
        /\ answers[conn] \in Seq(Calls \cup {Frame})
    BY <1>7 DEF ReadAnswer, Reads
  <2>2. Contains(answers[conn], r)
    BY <2>1 DEF Contains
  <2>3. pc'[q] = pc[q] \/ (q = r /\ pc[q] = "wait" /\ pc'[q] = "answered")
    BY <1>7 DEF ReadAnswer
  <2> QED BY <2>2, <2>3
<1>8. CASE Disconnected
  BY <1>8 DEF Disconnected
<1>9. CASE UNCHANGED pc
  BY <1>9
<1> QED
  BY <1>1, <1>2, <1>3, <1>4, <1>5, <1>6, <1>7, <1>8, <1>9
  DEF Next, CallStep, WriterStep, ReaderStep, vars, clientVars, writerVars,
      readerVars, browserVars, WriterTakes, WriterSends, WriterEnds, Execute,
      SendFrame, CloseSocket, ReadFrame, Acknowledge, BackedOff,
      ConnectFails, ConnectSucceeds, Swap, ReadParams, CloneTx,
      RestartScreencast, ReaderEnds, Cancel, Reads

\* Only the browser executes calls, each when it takes it off the socket.
LEMMA ExecutedStep ==
    ASSUME CdpTypeOK, [Next]_vars, NEW q \in Calls
    PROVE  \/ executed'[q] = executed[q]
           \/ /\ \E c \in Conns : Execute(c) /\ Head(asked[c]) = q
              /\ executed'[q] = executed[q] + 1
<1> DEFINE goal == \/ executed'[q] = executed[q]
                   \/ /\ \E c \in Conns : Execute(c) /\ Head(asked[c]) = q
                      /\ executed'[q] = executed[q] + 1
<1>1. ASSUME NEW c \in Conns, Execute(c)
      PROVE  goal
  <2>1. CASE Head(asked[c]) = q
    BY <1>1, <2>1 DEF Execute, CdpTypeOK
  <2>2. CASE Head(asked[c]) # q
    BY <1>1, <2>2 DEF Execute, CdpTypeOK
  <2> QED BY <2>1, <2>2
<1>2. CASE UNCHANGED executed
  BY <1>2
<1> QED
  BY <1>1, <1>2
  DEF Next, CallStep, WriterStep, ReaderStep, vars, clientVars, writerVars,
      readerVars, browserVars, Begin, LockTx, Push, SendFails, Timeout, Drop,
      WriterTakes, WriterSends, WriterEnds, SendFrame, CloseSocket,
      ReadAnswer, ReadFrame, Acknowledge, Disconnected, BackedOff,
      ConnectFails, ConnectSucceeds, Swap, ReadParams, CloneTx,
      RestartScreencast, ReaderEnds, Cancel, Reads

\* An answer is sent when its call is executed.
LEMMA AnswersStep ==
    ASSUME CdpTypeOK, [Next]_vars, NEW q \in Calls, NEW d \in Conns,
           Contains(answers'[d], q)
    PROVE  \/ Contains(answers[d], q)
           \/ \E c \in Conns : Execute(c) /\ Head(asked[c]) = q
<1> DEFINE goal == \/ Contains(answers[d], q)
                   \/ \E c \in Conns : Execute(c) /\ Head(asked[c]) = q
<1> USE DEF CdpTypeOK
<1>1. ASSUME NEW c \in Conns, Execute(c)
      PROVE  goal
  <2> DEFINE M == Calls \cup {Frame}
             p == Head(asked[c])
  <2>1. CASE UNCHANGED answers
    BY <2>1
  <2>2. CASE p \in Calls /\ answers' = [answers EXCEPT ![c] = Append(@, p)]
    <3>1. answers[c] \in Seq(M) /\ p \in M
      BY <2>2
    <3> HIDE DEF M, p
    <3>2. Contains(Append(answers[c], p), q) <=> Contains(answers[c], q) \/ q = p
      BY <3>1, ContainsAppend
    <3> QED BY <1>1, <2>2, <3>2 DEF p
  <2> QED BY <1>1, <2>1, <2>2 DEF Execute
<1>2. ASSUME NEW c \in Conns, SendFrame(c)
      PROVE  goal
  <2> DEFINE M == Calls \cup {Frame}
  <2>1. answers[c] \in Seq(M) /\ Frame \in M
    OBVIOUS
  <2> HIDE DEF M
  <2>2. Contains(Append(answers[c], Frame), q) <=> Contains(answers[c], q) \/ q = Frame
    BY <2>1, ContainsAppend
  <2>3. answers' = [answers EXCEPT ![c] = Append(@, Frame)]
    BY <1>2 DEF SendFrame
  <2> QED BY <2>2, <2>3, TokensAssumption
<1>3. ASSUME NEW r \in Calls, ReadAnswer(r)
      PROVE  goal
  <2>1. /\ answers[conn] # <<>>
        /\ answers' = [answers EXCEPT ![conn] = Tail(@)]
    BY <1>3 DEF ReadAnswer, Reads
  <2> DEFINE M == Calls \cup {Frame}
  <2>2. answers[conn] \in Seq(M)
    OBVIOUS
  <2> HIDE DEF M
  <2>3. Contains(answers[conn], q)
          <=> Contains(Tail(answers[conn]), q) \/ q = Head(answers[conn])
    BY <2>1, <2>2, ContainsTail
  <2> QED BY <2>1, <2>3
<1>4. CASE ReadFrame
  <2>1. /\ answers[conn] # <<>>
        /\ answers' = [answers EXCEPT ![conn] = Tail(@)]
    BY <1>4 DEF ReadFrame, Reads
  <2> DEFINE M == Calls \cup {Frame}
  <2>2. answers[conn] \in Seq(M)
    OBVIOUS
  <2> HIDE DEF M
  <2>3. Contains(answers[conn], q)
          <=> Contains(Tail(answers[conn]), q) \/ q = Head(answers[conn])
    BY <2>1, <2>2, ContainsTail
  <2> QED BY <2>1, <2>3
<1>5. CASE UNCHANGED answers
  BY <1>5
<1> QED
  BY <1>1, <1>2, <1>3, <1>4, <1>5
  DEF Next, CallStep, WriterStep, ReaderStep, vars, clientVars, writerVars,
      readerVars, browserVars, Begin, LockTx, Push, SendFails, Timeout, Drop,
      WriterTakes, WriterSends, WriterEnds, CloseSocket, Acknowledge,
      Disconnected, BackedOff, ConnectFails, ConnectSucceeds, Swap,
      ReadParams, CloneTx, RestartScreencast, ReaderEnds, Cancel

\* A call is on its way only after it was pushed.
LEMMA WayStep ==
    ASSUME CdpTypeOK, [Next]_vars, NEW q \in Calls, NEW d \in Conns,
           OnItsWay(d, q)'
    PROVE  OnItsWay(d, q) \/ Push(q)
<1> DEFINE goal == OnItsWay(d, q) \/ Push(q)
<1>1. q \in Requests /\ q \notin {None, Ack, Start}
  BY TokensAssumption DEF Requests, Callers
<1>2. Contains(chan'[d], q) \/ hand'[d] = q \/ Contains(asked'[d], q)
  BY DEF OnItsWay
<1>3. ASSUME NEW r \in Callers, Push(r)
      PROVE  goal
  <2>1. /\ UNCHANGED <<hand, asked>> /\ tx \in Conns /\ pc[r] = "push"
        /\ chan' = [chan EXCEPT ![tx] = Append(@, r)]
    BY <1>3 DEF Push, writerVars, browserVars, CdpTypeOK
  <2>2. chan[tx] \in Seq(Requests) /\ r \in Requests
    BY <2>1 DEF CdpTypeOK, Requests
  <2>3. Contains(Append(chan[tx], r), q) <=> Contains(chan[tx], q) \/ q = r
    BY <2>2, ContainsAppend
  <2> QED BY <1>1, <1>2, <1>3, <2>1, <2>2, <2>3
     DEF OnItsWay, CdpTypeOK
<1>4. ASSUME NEW c \in Conns, WriterTakes(c)
      PROVE  goal
  <2>1. /\ hand[c] = None /\ chan[c] # <<>> /\ UNCHANGED asked
        /\ hand' = [hand EXCEPT ![c] = Head(chan[c])]
        /\ chan' = [chan EXCEPT ![c] = Tail(@)]
    BY <1>4 DEF WriterTakes, browserVars
  <2>2. chan[c] \in Seq(Requests)
    BY DEF CdpTypeOK
  <2>3. Contains(chan[c], q) <=> Contains(Tail(chan[c]), q) \/ q = Head(chan[c])
    BY <2>1, <2>2, ContainsTail
  <2> QED BY <1>1, <1>2, <2>1, <2>2, <2>3
     DEF OnItsWay, CdpTypeOK
<1>5. ASSUME NEW c \in Conns, WriterSends(c)
      PROVE  goal
  <2>1. /\ hand[c] \in Requests /\ UNCHANGED chan
        /\ hand' = [hand EXCEPT ![c] = None]
        /\ UNCHANGED asked \/ asked' = [asked EXCEPT ![c] = Append(@, hand[c])]
    BY <1>5 DEF WriterSends, clientVars, CdpTypeOK
  <2>2. asked[c] \in Seq(Requests)
    BY DEF CdpTypeOK
  <2>3. Contains(Append(asked[c], hand[c]), q) <=> Contains(asked[c], q) \/ q = hand[c]
    BY <2>1, <2>2, ContainsAppend
  <2> QED BY <1>1, <1>2, <2>1, <2>2, <2>3
     DEF OnItsWay, CdpTypeOK
<1>6. ASSUME NEW c \in Conns, WriterEnds(c)
      PROVE  goal
  <2>1. /\ UNCHANGED asked
        /\ hand' = [hand EXCEPT ![c] = None]
        /\ chan' = [chan EXCEPT ![c] = <<>>]
    BY <1>6 DEF WriterEnds, browserVars
  <2>2. ~Contains(<<>>, q)
    BY DEF Contains
  <2> QED BY <1>1, <1>2, <2>1, <2>2
     DEF OnItsWay, CdpTypeOK
<1>7. ASSUME NEW c \in Conns, Execute(c)
      PROVE  goal
  <2>1. /\ asked[c] # <<>> /\ UNCHANGED <<chan, hand>>
        /\ asked' = [asked EXCEPT ![c] = Tail(@)]
    BY <1>7 DEF Execute, clientVars, writerVars
  <2>2. asked[c] \in Seq(Requests)
    BY DEF CdpTypeOK
  <2>3. Contains(asked[c], q) <=> Contains(Tail(asked[c]), q) \/ q = Head(asked[c])
    BY <2>1, <2>2, ContainsTail
  <2> QED BY <1>1, <1>2, <2>1, <2>2, <2>3
     DEF OnItsWay, CdpTypeOK
<1>8. ASSUME NEW c \in Conns, CloseSocket(c)
      PROVE  goal
  <2>1. UNCHANGED <<chan, hand>> /\ asked' = [asked EXCEPT ![c] = <<>>]
    BY <1>8 DEF CloseSocket, clientVars, writerVars
  <2>2. ~Contains(<<>>, q)
    BY DEF Contains
  <2> QED BY <1>1, <1>2, <2>1, <2>2
     DEF OnItsWay, CdpTypeOK
<1>9. CASE Acknowledge
  <2>1. /\ UNCHANGED <<hand, asked>> /\ conn \in Conns
        /\ UNCHANGED chan \/ chan' = [chan EXCEPT ![conn] = Append(@, Ack)]
    BY <1>9 DEF Acknowledge, writerVars, browserVars, CdpTypeOK
  <2>2. chan[conn] \in Seq(Requests) /\ Ack \in Requests
    BY <2>1 DEF CdpTypeOK, Requests, Callers
  <2>3. Contains(Append(chan[conn], Ack), q) <=> Contains(chan[conn], q)
    BY <1>1, <2>2, ContainsAppend
  <2> QED BY <1>1, <1>2, <2>1, <2>2, <2>3
     DEF OnItsWay, CdpTypeOK
<1>10. CASE RestartScreencast
  <2>1. /\ UNCHANGED <<hand, asked>> /\ conn \in Conns
        /\ UNCHANGED chan \/ chan' = [chan EXCEPT ![conn] = Append(@, Start)]
    BY <1>10 DEF RestartScreencast, writerVars, browserVars, CdpTypeOK
  <2>2. chan[conn] \in Seq(Requests) /\ Start \in Requests
    BY <2>1 DEF CdpTypeOK, Requests, Callers
  <2>3. Contains(Append(chan[conn], Start), q) <=> Contains(chan[conn], q)
    BY <1>1, <2>2, ContainsAppend
  <2> QED BY <1>1, <1>2, <2>1, <2>2, <2>3
     DEF OnItsWay, CdpTypeOK
<1>11. CASE UNCHANGED <<chan, hand, asked>>
  BY <1>2, <1>11 DEF OnItsWay
<1> QED
  BY <1>3, <1>4, <1>5, <1>6, <1>7, <1>8, <1>9, <1>10, <1>11
  DEF Next, CallStep, WriterStep, ReaderStep, vars, clientVars, writerVars,
      readerVars, browserVars, Begin, LockTx, SendFails, Timeout, Drop,
      SendFrame, ReadAnswer, ReadFrame, Disconnected, BackedOff,
      ConnectFails, ConnectSucceeds, Swap, ReadParams, CloneTx, ReaderEnds,
      Cancel, Reads

\* A call that is executed has left every channel and socket.
LEMMA ExecutedLeaves ==
    ASSUME CdpTypeOK, NEW q \in Calls, InOnePlace(q), NEW c \in Conns,
           Execute(c), Head(asked[c]) = q, NEW d \in Conns
    PROVE  ~OnItsWay(d, q)' /\ OnItsWay(c, q) /\ pc' = pc /\ executed[q] \in Nat
<1>1. /\ asked[c] # <<>> /\ asked[c] \in Seq(Requests)
      /\ asked' = [asked EXCEPT ![c] = Tail(@)] /\ UNCHANGED <<chan, hand, pc>>
      /\ executed[q] \in Nat
  BY DEF Execute, CdpTypeOK, clientVars, writerVars
<1>2. Contains(asked[c], q) /\ ~Contains(Tail(asked[c]), q)
  BY <1>1, ContainsTail, OnceTail DEF InOnePlace
<1>3. OnItsWay(c, q) /\ ~Contains(chan[c], q) /\ hand[c] # q
  BY <1>2 DEF InOnePlace, OnItsWay
<1>4. d # c => ~OnItsWay(d, q)
  BY <1>3 DEF InOnePlace
<1> QED BY <1>1, <1>2, <1>3, <1>4 DEF OnItsWay, CdpTypeOK

\* A call stays executed once, and is answered after that.
LEMMA OnceStep ==
    ASSUME CdpTypeOK, [Next]_vars, NEW q \in Calls, InOnePlace(q), ExecutedOnce(q)
    PROVE  ExecutedOnce(q)'
<1>1. CASE \E c \in Conns : Execute(c) /\ Head(asked[c]) = q
  <2>1. PICK c \in Conns : Execute(c) /\ Head(asked[c]) = q
    BY <1>1
  <2>2. /\ \A d \in Conns : ~OnItsWay(d, q)'
        /\ OnItsWay(c, q) /\ pc' = pc
    BY <2>1, ExecutedLeaves
  <2>3. /\ executed[q] = 0
        /\ pc[q] \in {"wait", "failed", "timedOut", "dropped"}
    BY <2>2 DEF ExecutedOnce
  <2>4. executed'[q] = 1
    BY <2>1, <2>3 DEF Execute, CdpTypeOK
  <2> QED BY <2>2, <2>3, <2>4 DEF ExecutedOnce
<1>2. CASE ~\E c \in Conns : Execute(c) /\ Head(asked[c]) = q
  <2>1. executed'[q] = executed[q]
    BY <1>2, ExecutedStep
  <2>2. ASSUME NEW d \in Conns, OnItsWay(d, q)'
        PROVE  /\ executed'[q] = 0
               /\ pc'[q] \in {"wait", "failed", "timedOut", "dropped"}
    <3>1. CASE Push(q)
      BY <2>1, <3>1 DEF Push, ExecutedOnce, CdpTypeOK, Callers
    <3>2. CASE OnItsWay(d, q)
      <4>1. /\ executed[q] = 0
            /\ pc[q] \in {"wait", "failed", "timedOut", "dropped"}
        BY <3>2 DEF ExecutedOnce
      <4>2. ~Contains(answers[conn], q)
        BY <4>1 DEF ExecutedOnce, CdpTypeOK
      <4>3. pc[q] # "answered"
        BY <4>1
      <4>4. pc'[q] # "answered"
        BY <4>2, <4>3, PcStep
      <4>5. pc'[q] \in {"wait", "failed", "timedOut", "dropped", "answered"}
        BY <4>1, PcStep
      <4> QED BY <2>1, <4>1, <4>4, <4>5
    <3> QED BY <2>2, <3>1, <3>2, WayStep
  <2>3. ASSUME NEW d \in Conns, Contains(answers'[d], q) PROVE executed'[q] = 1
    <3>1. Contains(answers[d], q)
      BY <1>2, <2>3, AnswersStep
    <3> QED BY <2>1, <3>1 DEF ExecutedOnce
  <2>4. pc'[q] \in {"idle", "lock", "push"} => executed'[q] = 0
    BY <2>1, PcStep DEF ExecutedOnce
  <2>5. pc'[q] = "answered" => executed'[q] = 1
    <3>1. pc'[q] = "answered" => pc[q] = "answered" \/ Contains(answers[conn], q)
      BY PcStep
    <3> QED BY <2>1, <3>1 DEF ExecutedOnce, CdpTypeOK
  <2>6. pc'[q] # "sent" /\ executed'[q] \in {0, 1}
    BY <2>1, PcStep DEF ExecutedOnce
  <2> QED BY <2>2, <2>3, <2>4, <2>5, <2>6 DEF ExecutedOnce
<1> QED BY <1>1, <1>2

\* Calls are in one place and executed once in every reachable state.
THEOREM CallsTraced == Spec => []Traced
<1>1. ASSUME Init, NEW q \in Calls PROVE InOnePlace(q) /\ ExecutedOnce(q)
  <2>1. /\ pc[q] = "idle" /\ executed[q] = 0 /\ q # None
        /\ \A c \in Conns : /\ chan[c] = <<>> /\ asked[c] = <<>>
                            /\ answers[c] = <<>> /\ hand[c] = None
    BY <1>1, TokensAssumption DEF Init, Callers, Requests
  <2>2. ~Contains(<<>>, q) /\ Once(<<>>, q)
    BY DEF Contains, Once
  <2>3. \A c \in Conns : ~OnItsWay(c, q)
    BY <2>1, <2>2 DEF OnItsWay
  <2> QED BY <2>1, <2>2, <2>3 DEF InOnePlace, ExecutedOnce
<1>2. CdpTypeOK /\ Traced /\ [Next]_vars => Traced'
  BY PlaceStep, OnceStep DEF Traced
<1>3. Init => Traced
  BY <1>1 DEF Traced
<1> QED BY TypeCorrect, <1>2, <1>3, PTL DEF Spec

-----------------------------------------------------------------------------
(* Refinement                                                              *)

\* The results of RequestReply, under the refinement mapping.
Results == [r \in Calls |-> Outcome(pc[r])]

\* A step that leaves every call's outcome alone is no step of RequestReply.
LEMMA Stutters ==
    ASSUME \A r \in Calls : Outcome(pc'[r]) = Outcome(pc[r]), executed' = executed
    PROVE  UNCHANGED Abstract!vars
<1>1. Results' = Results
  BY DEF Results
<1> QED BY <1>1 DEF Results, Abstract!vars

\* A step by which one call changes its outcome.
LEMMA ChangesOne ==
    ASSUME CdpTypeOK, NEW r \in Calls, NEW v, pc' = [pc EXCEPT ![r] = v]
    PROVE  Results' = [Results EXCEPT ![r] = Outcome(v)]
<1>1. \A o \in Calls : pc'[o] = IF o = r THEN v ELSE pc[o]
  BY DEF CdpTypeOK, Callers
<1>2. Results' = [o \in Calls |-> Outcome(pc'[o])]
  BY DEF Results
<1>3. \A o \in Calls : Outcome(pc'[o]) = IF o = r THEN Outcome(v) ELSE Outcome(pc[o])
  <2> SUFFICES ASSUME NEW o \in Calls
               PROVE  Outcome(pc'[o]) = IF o = r THEN Outcome(v) ELSE Outcome(pc[o])
    OBVIOUS
  <2>1. CASE o = r
    <3>1. pc'[o] = v
      BY <1>1, <2>1
    <3> QED BY <2>1, <3>1
  <2>2. CASE o # r
    <3>1. pc'[o] = pc[o]
      BY <1>1, <2>2
    <3> QED BY <2>2, <3>1
  <2> QED BY <2>1, <2>2
<1>4. Results' = [o \in Calls |-> IF o = r THEN Outcome(v) ELSE Outcome(pc[o])]
  BY <1>2, <1>3
<1> QED BY <1>4 DEF Results

\* A call that ends without an answer fails.
LEMMA FailsOne ==
    ASSUME CdpTypeOK, NEW r \in Calls, NEW v, pc' = [pc EXCEPT ![r] = v],
           pc[r] \in InProgress, Outcome(v) = "failed", executed' = executed
    PROVE  Abstract!Next
<1>1. Results' = [Results EXCEPT ![r] = "failed"]
  BY ChangesOne
<1>2. Results[r] = "awaited"
  BY DEF Results, Outcome, InProgress
<1>3. Results' = [o \in Calls |-> IF o \in {r} THEN "failed" ELSE Results[o]]
  BY <1>1 DEF Results
<1>4. Abstract!Fail({r})
  BY <1>2, <1>3 DEF Abstract!Fail, Results
<1> QED BY <1>4 DEF Abstract!Next

\* Each step of the client is one of RequestReply, or none.
LEMMA StepRefines ==
    ASSUME CdpTypeOK, PendingMatchesCalls, Traced, [Next]_vars
    PROVE  Abstract!Next \/ UNCHANGED Abstract!vars
<1> DEFINE goal == Abstract!Next \/ UNCHANGED Abstract!vars
<1> USE DEF CdpTypeOK, Callers
<1>1. Start \notin Calls
  BY TokensAssumption
<1>2. ASSUME NEW r \in Callers, Begin(r)
      PROVE  goal
  <2>1. pc[r] = "idle" /\ pc' = [pc EXCEPT ![r] = "lock"] /\ executed' = executed
    BY <1>2 DEF Begin, browserVars
  <2>2. CASE r \in Calls
    <3>1. Results' = [Results EXCEPT ![r] = Outcome("lock")] /\ Results[r] = Outcome("idle")
      BY <2>1, <2>2, ChangesOne DEF Results
    <3>2. Outcome("lock") = "awaited" /\ Outcome("idle") = "none"
      BY DEF Outcome, InProgress
    <3>3. Abstract!Ask(r)
      BY <2>1, <3>1, <3>2 DEF Abstract!Ask, Results
    <3> QED BY <2>2, <3>3 DEF Abstract!Next
  <2>3. CASE r \notin Calls
    BY <2>1, <2>3, Stutters
  <2> QED BY <2>2, <2>3
<1>3. ASSUME NEW r \in Callers, LockTx(r)
      PROVE  goal
  <2>1. pc[r] = "lock" /\ pc' = [pc EXCEPT ![r] = "push"] /\ executed' = executed
    BY <1>3 DEF LockTx, browserVars
  <2>2. Outcome("lock") = Outcome("push")
    BY DEF Outcome, InProgress
  <2> QED BY <2>1, <2>2, Stutters
<1>4. ASSUME NEW r \in Callers, Push(r)
      PROVE  goal
  <2>1. pc[r] = "push" /\ executed' = executed
    BY <1>4 DEF Push, browserVars
  <2>2. CASE r \notin Calls
    BY <1>4, <2>1, <2>2, Stutters DEF Push
  <2>3. CASE r \in Calls /\ r \in pending
    <3>1. pc' = [pc EXCEPT ![r] = "wait"]
      BY <1>4, <2>3 DEF Push
    <3>2. Outcome("push") = Outcome("wait")
      BY DEF Outcome, InProgress
    <3> QED BY <2>1, <3>1, <3>2, Stutters
  <2>4. CASE r \in Calls /\ r \notin pending
    <3>1. pc' = [pc EXCEPT ![r] = "failed"] /\ pc[r] \in InProgress
      BY <1>4, <2>1, <2>4 DEF Push, InProgress
    <3>2. Outcome("failed") = "failed"
      BY DEF Outcome, InProgress
    <3> QED BY <2>1, <2>4, <3>1, <3>2, FailsOne
  <2> QED BY <2>2, <2>3, <2>4
<1>5. ASSUME NEW r \in Callers, SendFails(r)
      PROVE  goal
  <2>1. pc[r] \in InProgress /\ pc' = [pc EXCEPT ![r] = "failed"] /\ executed' = executed
    BY <1>5 DEF SendFails, browserVars, InProgress
  <2>2. CASE r \in Calls
    <3>1. Outcome("failed") = "failed"
      BY DEF Outcome, InProgress
    <3> QED BY <2>1, <2>2, <3>1, FailsOne
  <2>3. CASE r \notin Calls
    BY <2>1, <2>3, Stutters
  <2> QED BY <2>2, <2>3
<1>6. ASSUME NEW r \in Callers, Timeout(r)
      PROVE  goal
  <2>1. pc[r] \in InProgress /\ pc' = [pc EXCEPT ![r] = "timedOut"] /\ executed' = executed
    BY <1>6 DEF Timeout, browserVars, InProgress
  <2>2. CASE r \in Calls
    <3>1. Outcome("timedOut") = "failed"
      BY DEF Outcome, InProgress
    <3> QED BY <2>1, <2>2, <3>1, FailsOne
  <2>3. CASE r \notin Calls
    BY <2>1, <2>3, Stutters
  <2> QED BY <2>2, <2>3
<1>7. ASSUME NEW r \in Callers, Drop(r)
      PROVE  goal
  <2>1. pc[r] \in InProgress /\ pc' = [pc EXCEPT ![r] = "dropped"] /\ executed' = executed
    BY <1>7 DEF Drop, browserVars, InProgress
  <2>2. CASE r \in Calls
    <3>1. Outcome("dropped") = "failed"
      BY DEF Outcome, InProgress
    <3> QED BY <2>1, <2>2, <3>1, FailsOne
  <2>3. CASE r \notin Calls
    BY <2>1, <2>3, Stutters
  <2> QED BY <2>2, <2>3
<1>8. ASSUME NEW c \in Conns, Execute(c)
      PROVE  goal
  <2> DEFINE q == Head(asked[c])
  <2>1. pc' = pc
    BY <1>8 DEF Execute, clientVars
  <2>2. CASE q \notin Calls
    BY <1>8, <2>1, <2>2, Stutters DEF Execute
  <2>3. CASE q \in Calls
    <3>1. OnItsWay(c, q)
      BY <1>8, <2>3, ExecutedLeaves DEF Traced
    <3>2. executed[q] = 0 /\ pc[q] \in {"wait", "failed", "timedOut", "dropped"}
      BY <2>3, <3>1 DEF Traced, ExecutedOnce
    <3>3. executed' = [executed EXCEPT ![q] = 1]
      BY <1>8, <2>3, <3>2 DEF Execute
    <3>4. Results[q] \in {"awaited", "failed"} /\ Results' = Results
      BY <2>1, <2>3, <3>2 DEF Results, Outcome, InProgress
    <3>5. Abstract!Execute(q)
      BY <3>2, <3>3, <3>4 DEF Abstract!Execute, Results
    <3> QED BY <2>3, <3>5 DEF Abstract!Next
  <2> QED BY <2>2, <2>3
<1>9. ASSUME NEW r \in Calls, ReadAnswer(r)
      PROVE  goal
  <2>1. executed' = executed /\ answers[conn] # <<>> /\ Head(answers[conn]) = r
    BY <1>9 DEF ReadAnswer, Reads
  <2>2. CASE r \in pending /\ pc[r] = "wait"
    <3>1. pc' = [pc EXCEPT ![r] = "answered"]
      BY <1>9, <2>2 DEF ReadAnswer
    <3>2. Contains(answers[conn], r)
      BY <2>1 DEF Contains
    <3>3. executed[r] = 1
      BY <3>2 DEF Traced, ExecutedOnce
    <3>4. Results' = [Results EXCEPT ![r] = Outcome("answered")]
      BY <3>1, ChangesOne
    <3>5. Results[r] = Outcome("wait")
      BY <2>2 DEF Results
    <3>6. Outcome("answered") = "answered" /\ Outcome("wait") = "awaited"
      BY DEF Outcome, InProgress
    <3>7. Abstract!Answer(r)
      BY <2>1, <3>3, <3>4, <3>5, <3>6 DEF Abstract!Answer, Results
    <3> QED BY <3>7 DEF Abstract!Next
  <2>3. CASE ~(r \in pending /\ pc[r] = "wait")
    BY <1>9, <2>1, <2>3, Stutters DEF ReadAnswer
  <2> QED BY <2>2, <2>3
<1>10. CASE Disconnected
  <2> DEFINE S == {r \in Calls : r \in pending /\ pc[r] = "wait"}
  <2>1. /\ executed' = executed
        /\ \A r \in Calls : pc'[r] = IF r \in S THEN "failed" ELSE pc[r]
    BY <1>10 DEF Disconnected, browserVars
  <2>2. Outcome("failed") = "failed" /\ Outcome("wait") = "awaited"
    BY DEF Outcome, InProgress
  <2>3. \A r \in Calls : Outcome(pc'[r]) = IF r \in S THEN "failed" ELSE Outcome(pc[r])
    <3> SUFFICES ASSUME NEW r \in Calls
                 PROVE  Outcome(pc'[r]) = IF r \in S THEN "failed" ELSE Outcome(pc[r])
      OBVIOUS
    <3>1. CASE r \in S
      <4>1. pc'[r] = "failed"
        BY <2>1, <3>1
      <4> QED BY <2>2, <3>1, <4>1
    <3>2. CASE r \notin S
      <4>1. pc'[r] = pc[r]
        BY <2>1, <3>2
      <4> QED BY <3>2, <4>1
    <3> QED BY <3>1, <3>2
  <2>4. Results' = [r \in Calls |-> IF r \in S THEN "failed" ELSE Results[r]]
    BY <2>3 DEF Results
  <2>5. \A r \in S : Results[r] = "awaited"
    BY <2>2 DEF Results
  <2>6. Abstract!Fail(S)
    BY <2>1, <2>4, <2>5 DEF Abstract!Fail, Results
  <2>7. S \in SUBSET Calls
    OBVIOUS
  <2> QED BY <2>6, <2>7 DEF Abstract!Next
<1>11. CASE UNCHANGED <<pc, executed>>
  BY <1>11, Stutters
<1> QED
  BY <1>2, <1>3, <1>4, <1>5, <1>6, <1>7, <1>8, <1>9, <1>10, <1>11
  DEF Next, CallStep, WriterStep, ReaderStep, vars, clientVars, writerVars,
      readerVars, browserVars, WriterTakes, WriterSends, WriterEnds,
      SendFrame, CloseSocket, ReadFrame, Acknowledge, BackedOff,
      ConnectFails, ConnectSucceeds, Swap, ReadParams, CloneTx,
      RestartScreencast, ReaderEnds, Cancel, Reads

\* Calls are executed at most once and answered only with their own answer,
\* whatever the number of commands and connections and the size of the channels
\* (send_command_and_wait, handle_message, connection_loop).
THEOREM Refinement == Spec => ImplementsCalls
<1>1. Init => Abstract!Init
  <2>1. ASSUME Init PROVE Results = [r \in Calls |-> "none"]
    <3>1. \A r \in Calls : pc[r] = "idle"
      BY <2>1 DEF Init, Callers
    <3>2. Outcome("idle") = "none"
      BY DEF Outcome, InProgress
    <3>3. \A r \in Calls : Outcome(pc[r]) = "none"
      BY <3>1, <3>2
    <3> QED BY <3>3 DEF Results
  <2> QED BY <2>1 DEF Init, Abstract!Init, Results
<1>2. /\ CdpTypeOK /\ PendingMatchesCalls /\ Traced /\ [Next]_vars
      => [Abstract!Next]_(Abstract!vars)
  BY StepRefines
<1> QED BY TypeCorrect, PendingAlwaysMatches, CallsTraced, <1>1, <1>2, PTL
        DEF Spec, ImplementsCalls, Abstract!Spec
=============================================================================
