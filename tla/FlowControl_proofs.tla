-------------------------- MODULE FlowControl_proofs --------------------------
(***************************************************************************)
(* FlowControl for every window, buffer, packet size and number of faults: *)
(* the sender stays within the credit it was given, and credit due to it   *)
(* is always on its way.                                                   *)
(***************************************************************************)
EXTENDS FlowControl, SequenceTheorems, TLAPS

Half == InitialFlowWindow \div 2

IsWindow(p) == p.kind = "window"

\* Numbers, and what ties the reader's position to the credit it has granted.
CreditInv ==
    /\ dataInBuffer \in Nat /\ offset \in Nat /\ nextOffset \in Nat
    /\ WindowSize \in Nat /\ recvWindow \in Nat /\ ackedWindow \in Nat
    /\ offset <= dataInBuffer /\ offset <= WindowSize /\ WindowSize <= recvWindow
    /\ recvWindow = InitialFlowWindow + nextOffset

\* No update says more than the reader has granted by now.
UpdatesInv == \A p \in net \cup acks \cup flight :
                  IsWindow(p) => p.window \in Nat /\ p.window <= recvWindow

\* What was acknowledged, or received and is about to be, the sender knows of, as
\* long as it is there: an acknowledgement out of order moves ackedWindow back, never
\* past the credit the sender has.
KnownInv ==
    sendStreams => /\ ackedWindow <= WindowSize
                   /\ \A p \in acks : IsWindow(p) => p.window <= WindowSize

Inv == CreditInv /\ UpdatesInv /\ KnownInv /\ CreditOnItsWay

LEMMA HalfWindow == Half \in Nat /\ Half >= 1
  BY FlowAssumption DEF Half

LEMMA InitInv == Init => Inv
  BY FlowAssumption, HalfWindow
     DEF Init, QueueInit, Inv, CreditInv, UpdatesInv, KnownInv, CreditOnItsWay, Half

--------------------------------------------------------------------------------
(* Steps, by what they leave alone *)

creditVars == <<offset, dataInBuffer, nextOffset, WindowSize, recvWindow, ackedWindow>>
requestVars == <<eofReached, sendStreams, updateWindow>>

\* A step that sends nothing but data or cancels, and forgets nothing but data.
LEMMA QuietInv ==
    ASSUME Inv, UNCHANGED <<WindowSize, recvWindow, ackedWindow, nextOffset>>,
           offset' \in Nat, dataInBuffer' \in Nat, offset' <= dataInBuffer', offset' <= WindowSize,
           eofReached' = eofReached, sendStreams' => sendStreams, updateWindow' = updateWindow,
           \A p \in net' \cup acks' \cup flight' : IsWindow(p) => p \in net \cup acks \cup flight,
           \A p \in acks' : IsWindow(p) => p \in acks,
           \A p \in flight : IsWindow(p) => p \in flight'
    PROVE  Inv'
<1>1. CreditInv'
  BY DEF Inv, CreditInv
<1>2. UpdatesInv'
  BY DEF Inv, UpdatesInv
<1>3. KnownInv'
  BY DEF Inv, KnownInv
<1>4. CreditOnItsWay'
  BY DEF Inv, CreditOnItsWay, IsWindow
<1> QED BY <1>1, <1>2, <1>3, <1>4 DEF Inv

LEMMA WriterInv == Inv /\ (Write \/ AppendData \/ WriterWakes \/ Close \/ Cancel) => Inv'
<1> SUFFICES ASSUME Inv, Write \/ AppendData \/ WriterWakes \/ Close \/ Cancel PROVE Inv'
  OBVIOUS
<1>1. /\ UNCHANGED <<offset, WindowSize, recvWindow, ackedWindow, nextOffset, eofReached,
                     sendStreams, updateWindow, net, acks, flight>>
      /\ dataInBuffer' = dataInBuffer \/ dataInBuffer' = dataInBuffer + 1
  BY DEF Write, AppendData, WriterWakes, Close, Cancel, bufferVars, recvVars, netVars, queueVars,
         sendVars
<1> QED BY <1>1, QuietInv DEF Inv, CreditInv

LEMMA SendLoopInv == Inv /\ SendLoop => Inv'
<1> SUFFICES ASSUME Inv, SendLoop PROVE Inv'
  OBVIOUS
<1>1. CASE removeSendStream \/ NothingToSend
  <2>1. /\ UNCHANGED <<offset, dataInBuffer, WindowSize, recvWindow, ackedWindow, nextOffset,
                       eofReached, updateWindow, net, acks, flight>>
        /\ sendStreams' => sendStreams
    BY <1>1 DEF removeSendStream, NothingToSend, bufferVars, recvVars, netVars, queueVars
  <2> QED BY <2>1, QuietInv DEF Inv, CreditInv
<1>2. CASE Retransmit
  <2> DEFINE p == DataPacket(Head(retransmitQueue))
  <2>1. /\ UNCHANGED <<offset, dataInBuffer, WindowSize, recvWindow, ackedWindow, nextOffset,
                       eofReached, updateWindow, sendStreams, acks>>
        /\ net' = net \cup {p} /\ flight' = flight \cup {p}
    BY <1>2 DEF Retransmit, Sent, bufferVars, recvVars, queueVars
  <2>2. ~ IsWindow(p)
    BY DEF IsWindow, DataPacket
  <2> HIDE DEF p
  <2> QED BY <2>1, <2>2, QuietInv DEF Inv, CreditInv
<1>3. CASE SendNew
  <2> DEFINE p == DataPacket(readChunk)
             len == readChunk.Len
  <2>1. /\ UNCHANGED <<dataInBuffer, WindowSize, recvWindow, ackedWindow, nextOffset,
                       eofReached, updateWindow, sendStreams, acks>>
        /\ net' = net \cup {p} /\ flight' = flight \cup {p}
        /\ offset' = offset + len
    BY <1>3 DEF SendNew, Sent, recvVars, queueVars
  <2>2. len \in Nat /\ offset + len <= dataInBuffer /\ offset + len <= WindowSize
    <3>1. len = 0 \/ len = Smaller(dataInBuffer - offset, Smaller(MaxPayload, SendableSize))
      BY DEF readChunk, Chunk
    <3> QED BY <3>1, FlowAssumption DEF Inv, CreditInv, Smaller, SendableSize
  <2>3. ~ IsWindow(p)
    BY DEF IsWindow, DataPacket
  <2> HIDE DEF p, len
  <2> QED BY <2>1, <2>2, <2>3, QuietInv DEF Inv, CreditInv
<1> QED BY <1>1, <1>2, <1>3 DEF SendLoop

\* A read grants credit; once the sender could lack half a window, it also asks for
\* an update, because the sender knows of whatever ackedWindow counts.
LEMMA ReadInv == ASSUME Inv, NEW n \in Nat, Read(n) PROVE Inv'
<1>1. /\ UNCHANGED <<dataInBuffer, offset, WindowSize, ackedWindow, sendStreams, net, acks, flight>>
      /\ ~ eofReached
  BY DEF Read, ReadDirect, sendVars, bufferVars, netVars
<1>10. nextOffset' \in Nat /\ nextOffset' >= nextOffset
  <2>1. PICK end \in nextOffset .. nextOffset + n : nextOffset' = end
    BY DEF Read, ReadDirect
  <2> QED BY <2>1 DEF Inv, CreditInv
<1>11. /\ updateWindow => updateWindow'
       /\ nextOffset' > nextOffset /\ Owed(recvWindow') => updateWindow'
  BY Zenon DEF Read
<1>12. recvWindow' = recvWindow + (nextOffset' - nextOffset)
  BY Zenon DEF Read
<1>2. CreditInv' /\ recvWindow' >= recvWindow
  <2>1. CreditInv
    BY DEF Inv
  <2>2. recvWindow' \in Nat /\ recvWindow' = InitialFlowWindow + nextOffset' /\ recvWindow' >= recvWindow
    <3> DEFINE w == recvWindow'
               o == nextOffset'
    <3>1. /\ recvWindow \in Nat /\ InitialFlowWindow \in Nat /\ nextOffset \in Nat
          /\ recvWindow = InitialFlowWindow + nextOffset
      BY <2>1, FlowAssumption DEF CreditInv
    <3>2. w = recvWindow + (o - nextOffset) /\ o \in Nat /\ o >= nextOffset
      BY <1>10, <1>12
    <3> HIDE DEF w, o
    <3>3. w \in Nat /\ w = InitialFlowWindow + o /\ w >= recvWindow
      BY <3>1, <3>2
    <3> QED BY <3>3 DEF w, o
  <2>3. UNCHANGED <<dataInBuffer, offset, WindowSize, ackedWindow>>
    BY <1>1
  <2>4. WindowSize' <= recvWindow'
    BY <2>1, <2>2, <2>3 DEF CreditInv
  <2> QED BY <2>1, <2>2, <2>3, <2>4, <1>10, FlowAssumption DEF CreditInv
<1>3. UpdatesInv'
  BY <1>1, <1>2 DEF Inv, UpdatesInv, CreditInv
<1>4. KnownInv'
  BY <1>1 DEF Inv, KnownInv
<1>5. CreditOnItsWay'
  <2>1. CASE nextOffset' > nextOffset
    <3> SUFFICES ASSUME sendStreams, recvWindow' - WindowSize >= Half PROVE updateWindow'
      BY <1>1 DEF CreditOnItsWay, Half
    <3>1. recvWindow' - ackedWindow >= Half
      BY <1>2, <1>1, HalfWindow DEF Inv, KnownInv, CreditInv
    <3>2. Owed(recvWindow')
      BY <3>1 DEF Owed, Half
    <3> QED BY Zenon, <3>2, <2>1, <1>11
  <2>2. CASE nextOffset' = nextOffset
    <3>1. recvWindow' = recvWindow
      BY <1>12, <2>2 DEF Inv, CreditInv
    <3> QED BY Zenon, <3>1, <1>1, <1>11 DEF Inv, CreditOnItsWay
  <2> QED BY <2>1, <2>2, <1>10 DEF Inv, CreditInv
<1> QED BY <1>2, <1>3, <1>4, <1>5 DEF Inv

LEMMA RecvLoopInv == Inv /\ RecvLoop => Inv'
<1> SUFFICES ASSUME Inv, RecvLoop PROVE Inv'
  OBVIOUS
<1>1. UNCHANGED <<dataInBuffer, offset, nextOffset, eofReached, WindowSize, recvWindow, ackedWindow,
                  sendStreams, acks>>
  BY DEF RecvLoop, sendCancel, sendWindowUpdate, dropRequests, Sent, queueVars, sendVars, bufferVars,
         netVars
<1>2. CASE sendCancel
  <2>1. /\ net' = net \cup {CancelPacket} /\ flight' = flight \cup {CancelPacket}
        /\ updateWindow' = updateWindow /\ ~ IsWindow(CancelPacket)
    BY <1>2 DEF sendCancel, Sent, IsWindow, CancelPacket
  <2> QED BY <1>1, <2>1, QuietInv DEF Inv, CreditInv
<1>3. CASE sendWindowUpdate
  <2> DEFINE p == WindowPacket(recvWindow)
  <2>1. net' = net \cup {p} /\ flight' = flight \cup {p} /\ p.window = recvWindow /\ IsWindow(p)
    BY <1>3 DEF sendWindowUpdate, Sent, WindowPacket, IsWindow
  <2> HIDE DEF p
  <2>2. CreditInv' /\ KnownInv'
    BY <1>1 DEF Inv, CreditInv, KnownInv
  <2>3. UpdatesInv'
    BY <1>1, <2>1 DEF Inv, UpdatesInv, CreditInv
  <2>4. CreditOnItsWay'
    BY <1>1, <2>1 DEF CreditOnItsWay, IsWindow
  <2> QED BY <2>2, <2>3, <2>4 DEF Inv
<1>4. CASE dropRequests
  <2>1. UNCHANGED <<net, flight>> /\ eofReached
    BY <1>4 DEF dropRequests, netVars
  <2> QED BY <1>1, <2>1 DEF Inv, CreditInv, UpdatesInv, KnownInv, CreditOnItsWay
<1> QED BY <1>2, <1>3, <1>4 DEF RecvLoop

LEMMA DeliverInv == ASSUME Inv, NEW p \in net, Deliver(p) PROVE Inv'
<1>1. CASE ReceiveData(p)
  <2>1. /\ UNCHANGED <<dataInBuffer, offset, nextOffset, eofReached, WindowSize, recvWindow,
                       ackedWindow, sendStreams, updateWindow, acks>>
        /\ net' = net \ {p} /\ flight' = flight \ {p} /\ ~ IsWindow(p)
    BY <1>1 DEF ReceiveData, ProcessChunk, bufferVars, IsWindow
  <2> QED BY <2>1, QuietInv DEF Inv, CreditInv
<1>2. CASE ReceiveCancel(p)
  <2>1. /\ UNCHANGED <<dataInBuffer, offset, nextOffset, eofReached, WindowSize, recvWindow,
                       ackedWindow, sendStreams, updateWindow, flight>>
        /\ net' = net \ {p} /\ acks' = acks \cup {p} /\ ~ IsWindow(p)
    BY <1>2 DEF ReceiveCancel, Received, recvVars, queueVars, IsWindow
  <2> QED BY <2>1, QuietInv DEF Inv, CreditInv
<1>3. CASE ReceiveWindow(p)
  <2>1. /\ UNCHANGED <<dataInBuffer, offset, nextOffset, eofReached, recvWindow,
                       ackedWindow, sendStreams, updateWindow, flight>>
        /\ net' = net \ {p} /\ acks' = acks \cup {p} /\ IsWindow(p)
        /\ WindowSize' = IF sendStreams /\ p.window > WindowSize THEN p.window ELSE WindowSize
    BY <1>3 DEF ReceiveWindow, Received, UpdateWindow, recvVars, queueVars, bufferVars, IsWindow
  <2>2. p.window \in Nat /\ p.window <= recvWindow
    BY <2>1 DEF Inv, UpdatesInv
  <2>3. CreditInv' /\ WindowSize' >= WindowSize /\ (sendStreams => p.window <= WindowSize')
    BY <2>1, <2>2 DEF Inv, CreditInv
  <2>4. UpdatesInv'
    BY <2>1 DEF Inv, UpdatesInv
  <2>5. KnownInv'
    <3> SUFFICES ASSUME sendStreams
                 PROVE  /\ ackedWindow <= WindowSize'
                        /\ \A q \in acks \cup {p} : IsWindow(q) => q.window <= WindowSize'
      BY <2>1 DEF KnownInv
    <3>1. ackedWindow <= WindowSize'
      BY <2>3 DEF Inv, KnownInv, CreditInv
    <3>2. ASSUME NEW q \in acks, IsWindow(q) PROVE q.window <= WindowSize'
      BY <2>3, <3>2 DEF Inv, KnownInv, CreditInv, UpdatesInv
    <3> QED BY <3>1, <3>2, <2>3
  <2>6. CreditOnItsWay'
    BY <2>1, <2>3, HalfWindow DEF Inv, CreditOnItsWay, CreditInv, Half
  <2> QED BY <2>3, <2>4, <2>5, <2>6 DEF Inv
<1> QED BY <1>1, <1>2, <1>3 DEF Deliver

\* The acknowledgement of an update: the sender has had it, so that no credit waits
\* for this very packet any more.
LEMMA OnACKInv == ASSUME Inv, NEW p \in acks, OnACK(p) PROVE Inv'
<1>1. /\ UNCHANGED <<dataInBuffer, offset, nextOffset, eofReached, WindowSize, recvWindow,
                     sendStreams, updateWindow, net>>
      /\ acks' = acks \ {p} /\ flight' = flight \ {p}
      /\ ackedWindow' = IF p \in flight /\ IsWindow(p) THEN p.window ELSE ackedWindow
  BY DEF OnACK, onWindowAck, queueVars, sendVars, bufferVars, IsWindow
<1>2. IsWindow(p) => /\ p.window \in Nat /\ p.window <= recvWindow
                     /\ sendStreams => p.window <= WindowSize
  BY DEF Inv, UpdatesInv, KnownInv
<1>3. CreditInv' /\ UpdatesInv' /\ KnownInv'
  BY <1>1, <1>2 DEF Inv, CreditInv, UpdatesInv, KnownInv
<1>4. CreditOnItsWay'
  <2> SUFFICES ASSUME ~ eofReached, sendStreams, recvWindow - WindowSize >= Half, ~ updateWindow
               PROVE  \E q \in flight' : IsWindow(q) /\ q.window = recvWindow
    BY <1>1 DEF CreditOnItsWay, Half, IsWindow
  <2>1. PICK q \in flight : IsWindow(q) /\ q.window = recvWindow
    BY DEF Inv, CreditOnItsWay, Half, IsWindow
  <2>2. q # p
    BY <2>1, <1>2, HalfWindow DEF Inv, CreditInv
  <2> QED BY <2>1, <2>2, <1>1
<1> QED BY <1>3, <1>4 DEF Inv

LEMMA OnLostInv == ASSUME Inv, NEW p \in flight, OnLostData(p) \/ OnLost(p) PROVE Inv'
<1>1. CASE OnLostData(p)
  <2>1. /\ UNCHANGED <<dataInBuffer, offset, nextOffset, eofReached, WindowSize, recvWindow,
                       ackedWindow, sendStreams, updateWindow, net, acks>>
        /\ flight' = flight \ {p} /\ ~ IsWindow(p)
    BY <1>1 DEF OnLostData, recvVars, queueVars, bufferVars, IsWindow
  <2> QED BY <2>1, QuietInv DEF Inv, CreditInv
<1>2. CASE OnLost(p)
  <2>1. /\ UNCHANGED <<dataInBuffer, offset, nextOffset, eofReached, WindowSize, recvWindow,
                       ackedWindow, sendStreams, net, acks>>
        /\ flight' = flight \ {p}
        /\ updateWindow' = (updateWindow \/ (IsWindow(p) /\ ~ eofReached))
    BY <1>2 DEF OnLost, repeatWindow, queueVars, sendVars, bufferVars, IsWindow
  <2>2. CreditInv' /\ UpdatesInv' /\ KnownInv'
    BY <2>1 DEF Inv, CreditInv, UpdatesInv, KnownInv
  <2>3. CreditOnItsWay'
    BY <2>1 DEF Inv, CreditOnItsWay, IsWindow
  <2> QED BY <2>2, <2>3 DEF Inv
<1> QED BY <1>1, <1>2

LEMMA LoseInv == ASSUME Inv, NEW p \in net, Lose(p) PROVE Inv'
<1>1. /\ UNCHANGED <<dataInBuffer, offset, nextOffset, eofReached, WindowSize, recvWindow,
                     ackedWindow, sendStreams, updateWindow, acks, flight>>
      /\ net' = net \ {p}
  BY DEF Lose, sendVars, recvVars, queueVars, bufferVars
<1> QED BY <1>1, QuietInv DEF Inv, CreditInv

LEMMA StutterInv == Inv /\ UNCHANGED vars => Inv'
  BY DEF Inv, CreditInv, UpdatesInv, KnownInv, CreditOnItsWay, vars, sendVars, recvVars, netVars,
         queueVars, bufferVars

--------------------------------------------------------------------------------

\* The inductive invariant holds in every state of every instance: windows of any
\* size, packets lost, repeated and acknowledged in any order.
THEOREM FlowInvariance == Spec => []Inv
<1>1. Inv /\ [Next]_vars => Inv'
  <2> SUFFICES ASSUME Inv, [Next]_vars PROVE Inv'
    OBVIOUS
  <2> QED BY WriterInv, SendLoopInv, ReadInv, RecvLoopInv, DeliverInv, OnACKInv, OnLostInv, LoseInv,
             StutterInv DEF Next
<1> QED BY <1>1, InitInv, PTL DEF Spec

\* The sender never exceeds the credit the reader granted, and what is sent but unread
\* fits in one window (flow.go, readChunk, ReadContext).
THEOREM SenderWithinCredit == Spec => []WithinCredit
<1>1. Inv => WithinCredit
  BY FlowAssumption DEF Inv, CreditInv, WithinCredit
<1> QED BY <1>1, FlowInvariance, PTL

\* A sender short of half a window always has an update coming, although onWindowAck
\* takes acknowledgements out of order (recvStream.ReadContext, the run loop's OnLost).
THEOREM CreditArrives == Spec => []CreditOnItsWay
<1>1. Inv => CreditOnItsWay
  BY DEF Inv
<1> QED BY <1>1, FlowInvariance, PTL

--------------------------------------------------------------------------------
(* Types *)

\* A piece of what was written: its bytes are those of its own offset.
Piece == {c \in [Offset : Nat, Data : Nat, Len : Nat, Eof : BOOLEAN] :
             c.Data = c.Offset /\ c.Offset + c.Len <= MaxWrites}

\* Everything on the way to the reader is a piece, and a write is under way only
\* while there is one left to make.
Shape ==
    /\ writer \in {"idle", "check", "wait", "done"} /\ writerSignal \in BOOLEAN
    /\ dataInBuffer <= MaxWrites /\ dataInBuffer - offset <= BufferLimit
    /\ writer \in {"check", "wait"} => dataInBuffer < MaxWrites
    /\ signalEOF \in BOOLEAN /\ cancelRequested \in BOOLEAN /\ eofSent \in BOOLEAN
    /\ sendTrigger \in BOOLEAN /\ sendStreams \in BOOLEAN
    /\ cancelSent \in BOOLEAN /\ updateWindow \in BOOLEAN /\ cancelTrigger \in BOOLEAN
    /\ eofReached \in BOOLEAN /\ left \in BOOLEAN
    /\ sentRanges \subseteq Piece /\ queue \subseteq Piece
    /\ retransmitQueue \in Seq(Piece) /\ IsInjective(retransmitQueue)
    /\ \A p \in net \cup flight : p.kind = "data" => p.chunk \in Piece
    /\ faults \in 0 .. MaxFaults /\ givenUp \in Nat

LEMMA ShapeInit == Init => Shape
<1> SUFFICES ASSUME Init PROVE Shape
  OBVIOUS
<1>1. retransmitQueue \in Seq(Piece) /\ IsInjective(retransmitQueue)
  BY DEF Init, IsInjective
<1>2. /\ signalEOF \in BOOLEAN /\ cancelRequested \in BOOLEAN /\ eofSent \in BOOLEAN
      /\ sendTrigger \in BOOLEAN /\ sendStreams \in BOOLEAN /\ writerSignal \in BOOLEAN
      /\ cancelSent \in BOOLEAN /\ updateWindow \in BOOLEAN /\ cancelTrigger \in BOOLEAN
      /\ eofReached \in BOOLEAN /\ left \in BOOLEAN
  BY DEF Init, QueueInit
<1>3. /\ dataInBuffer <= MaxWrites /\ dataInBuffer - offset <= BufferLimit
      /\ faults \in 0 .. MaxFaults /\ givenUp \in Nat
  BY FlowAssumption DEF Init
<1>4. /\ writer = "idle" /\ sentRanges = {} /\ queue = {} /\ net = {} /\ flight = {}
  BY DEF Init, QueueInit
<1> QED BY <1>1, <1>2, <1>3, <1>4 DEF Shape

LEMMA TailInjective ==
    ASSUME NEW S, NEW s \in Seq(S), s # <<>>, IsInjective(s)
    PROVE  Tail(s) \in Seq(S) /\ IsInjective(Tail(s)) /\ Head(s) \in S
<1>1. /\ Head(s) \in S /\ Tail(s) \in Seq(S) /\ Len(Tail(s)) = Len(s) - 1
      /\ \A i \in 1 .. Len(Tail(s)) : Tail(s)[i] = s[i + 1]
  BY HeadTailProperties
<1>2. DOMAIN s = 1 .. Len(s) /\ DOMAIN Tail(s) = 1 .. Len(Tail(s)) /\ Len(s) \in Nat
  BY <1>1
<1>3. ASSUME NEW i \in DOMAIN Tail(s), NEW j \in DOMAIN Tail(s), Tail(s)[i] = Tail(s)[j]
      PROVE  i = j
  <2>1. s[i + 1] = s[j + 1] /\ i + 1 \in DOMAIN s /\ j + 1 \in DOMAIN s
    BY <1>1, <1>2, <1>3
  <2>2. i + 1 = j + 1
    BY <2>1 DEF IsInjective
  <2> QED BY <2>2, <1>2
<1> QED BY <1>1, <1>3 DEF IsInjective

LEMMA AppendKeepsInjective ==
    ASSUME NEW S, NEW s \in Seq(S), IsInjective(s), NEW e \in S, e \notin ToSet(s)
    PROVE  Append(s, e) \in Seq(S) /\ IsInjective(Append(s, e))
<1> DEFINE t == Append(s, e)
<1>1. /\ t \in Seq(S) /\ Len(t) = Len(s) + 1
      /\ \A i \in 1 .. Len(s) : t[i] = s[i]
      /\ t[Len(s) + 1] = e
  BY AppendProperties
<1>2. DOMAIN s = 1 .. Len(s) /\ DOMAIN t = 1 .. Len(t) /\ Len(s) \in Nat
  BY <1>1
<1> HIDE DEF t
<1>3. \A i \in 1 .. Len(s) : s[i] # e
  BY <1>2 DEF ToSet
<1>4. ASSUME NEW i \in DOMAIN t, NEW j \in DOMAIN t, t[i] = t[j] PROVE i = j
  <2>1. CASE i \in 1 .. Len(s) /\ j \in 1 .. Len(s)
    BY <2>1, <1>1, <1>2, <1>4 DEF IsInjective
  <2>2. CASE i = Len(s) + 1 \/ j = Len(s) + 1
    BY <2>2, <1>1, <1>2, <1>3, <1>4
  <2> QED BY <2>1, <2>2, <1>1, <1>2
<1> QED BY <1>1, <1>4 DEF IsInjective, t

LEMMA WriterShape == Inv /\ Shape /\ (Write \/ AppendData \/ WriterWakes \/ Close \/ Cancel) => Shape'
<1> SUFFICES ASSUME Inv, Shape, Write \/ AppendData \/ WriterWakes \/ Close \/ Cancel
             PROVE  Shape'
  OBVIOUS
<1>1. dataInBuffer \in Nat /\ offset \in Nat
  BY DEF Inv, CreditInv
<1>2. CASE Write
  BY <1>1, <1>2 DEF Write, Shape, bufferVars, recvVars, netVars, queueVars
<1>3. CASE AppendData
  <2>1. dataInBuffer' <= MaxWrites /\ dataInBuffer' - offset <= BufferLimit
    BY <1>1, <1>3, FlowAssumption DEF AppendData, Shape, BufferFull
  <2>2. /\ UNCHANGED <<offset, writerSignal, signalEOF, cancelRequested, eofSent, sentRanges,
                       retransmitQueue, sendStreams, queue, eofReached, cancelSent, updateWindow,
                       cancelTrigger, left, flight, net, faults, givenUp>>
    BY <1>3 DEF AppendData, recvVars, netVars, queueVars
  <2>3. /\ writer' \in {"idle", "wait", "done"} /\ sendTrigger' \in BOOLEAN
        /\ writer' = "wait" => dataInBuffer' = dataInBuffer
    BY <1>3 DEF AppendData, Shape
  <2> QED BY <1>3, <2>1, <2>2, <2>3 DEF AppendData, Shape
<1>4. CASE WriterWakes
  BY <1>4 DEF WriterWakes, Shape, bufferVars, recvVars, netVars, queueVars
<1>5. CASE Close
  BY <1>5 DEF Close, Shape, recvVars, netVars, queueVars
<1>6. CASE Cancel
  BY <1>6 DEF Cancel, Shape, sendVars, writerVars, bufferVars, netVars, queueVars
<1> QED BY <1>2, <1>3, <1>4, <1>5, <1>6

LEMMA SendLoopShape == Inv /\ Shape /\ SendLoop => Shape'
<1> SUFFICES ASSUME Inv, Shape, SendLoop PROVE Shape'
  OBVIOUS
<1>0. dataInBuffer \in Nat /\ offset \in Nat /\ offset <= dataInBuffer /\ offset <= WindowSize
      /\ WindowSize \in Nat
  BY DEF Inv, CreditInv
<1>1. CASE removeSendStream \/ NothingToSend
  <2>1. /\ UNCHANGED <<writerVars, bufferVars, sentRanges, retransmitQueue, recvVars, netVars>>
        /\ sendTrigger' \in BOOLEAN /\ sendStreams' \in BOOLEAN
    BY <1>1 DEF removeSendStream, NothingToSend, Shape
  <2> QED BY <2>1 DEF Shape, writerVars, bufferVars, recvVars, netVars, queueVars
<1>2. CASE Retransmit
  <2> DEFINE c == Head(retransmitQueue)
             p == DataPacket(c)
  <2>1. /\ UNCHANGED <<writerVars, bufferVars, sentRanges, sendStreams, recvVars, faults, givenUp>>
        /\ retransmitQueue' = Tail(retransmitQueue) /\ retransmitQueue # <<>>
        /\ net' = net \cup {p} /\ flight' = flight \cup {p}
        /\ sendTrigger' \in BOOLEAN
    BY <1>2 DEF Retransmit, Sent, requeueIfMore
  <2>2. c \in Piece /\ retransmitQueue' \in Seq(Piece) /\ IsInjective(retransmitQueue')
    BY <2>1, TailInjective DEF Shape
  <2>3. p.chunk \in Piece
    BY <2>2 DEF DataPacket
  <2> HIDE DEF p, c
  <2> QED BY <2>1, <2>2, <2>3 DEF Shape, writerVars, bufferVars, recvVars, queueVars
<1>3. CASE SendNew
  <2> DEFINE c == readChunk
             p == DataPacket(c)
  <2>1. /\ UNCHANGED <<writer, dataInBuffer, signalEOF, cancelRequested, retransmitQueue, sendStreams,
                       recvVars, faults, givenUp>>
        /\ net' = net \cup {p} /\ flight' = flight \cup {p}
        /\ offset' = offset + c.Len /\ eofSent' = c.Eof
        /\ sentRanges' = sentRanges \cup {c}
        /\ writerSignal' = TRUE
        /\ sendTrigger' \in BOOLEAN
    BY <1>3 DEF SendNew, Sent, requeueIfMore
  <2>2. c \in Piece /\ c.Len \in Nat /\ c.Eof \in BOOLEAN
    <3> DEFINE n == Smaller(dataInBuffer - offset, Smaller(MaxPayload, SendableSize))
    <3>1. n \in Nat /\ offset + n <= dataInBuffer
      BY <1>0, FlowAssumption DEF Smaller, SendableSize
    <3> HIDE DEF n
    <3>2. c = Chunk(offset, 0, TRUE) \/ c = Chunk(offset, n, signalEOF /\ offset + n = dataInBuffer)
      BY DEF readChunk, n
    <3>3. (signalEOF /\ offset + n = dataInBuffer) \in BOOLEAN
      OBVIOUS
    <3>4. dataInBuffer <= MaxWrites
      BY DEF Shape
    <3>5. ASSUME NEW l \in Nat, NEW e \in BOOLEAN, offset + l <= dataInBuffer
          PROVE  /\ Chunk(offset, l, e) \in Piece
                 /\ Chunk(offset, l, e).Len = l /\ Chunk(offset, l, e).Eof = e
      BY <1>0, <3>4, <3>5, FlowAssumption DEF Chunk, Piece
    <3> HIDE DEF c
    <3>6. CASE c = Chunk(offset, 0, TRUE)
      <4>1. 0 \in Nat /\ TRUE \in BOOLEAN /\ offset + 0 <= dataInBuffer
        BY <1>0
      <4> QED BY <3>5, <3>6, <4>1
    <3>7. CASE c = Chunk(offset, n, signalEOF /\ offset + n = dataInBuffer)
      BY <3>1, <3>3, <3>5, <3>7
    <3> QED BY <3>2, <3>6, <3>7 DEF c
  <2>3. p.chunk \in Piece
    BY <2>2 DEF DataPacket
  <2> HIDE DEF p, c
  <2>4. dataInBuffer' - offset' <= BufferLimit
    BY <2>1, <2>2, <1>0, FlowAssumption DEF Shape
  <2> QED BY <2>1, <2>2, <2>3, <2>4 DEF Shape, recvVars, queueVars
<1> QED BY <1>1, <1>2, <1>3 DEF SendLoop

\* A read takes chunks whole or leaves the rest of one, which is a piece again.
LEMMA ReadShape == ASSUME Inv, Shape, NEW n \in Nat, Read(n) PROVE Shape'
<1>1. /\ UNCHANGED <<ackedWindow, cancelSent, cancelTrigger, left, sendVars, netVars>>
      /\ updateWindow' \in BOOLEAN
  BY Zenon DEF Read
<1>2. PICK end \in nextOffset .. nextOffset + n :
         LET partial == {c \in queue : c.Offset < end /\ end < End(c)}
         IN /\ queue' = (queue \ (Consumed(end, n) \cup partial))
                           \cup {Trimmed(c, end) : c \in partial}
            /\ eofReached' = \E c \in Consumed(end, n) :
                                 /\ c.Eof
                                 /\ \A d \in Consumed(end, n) : d.Offset <= c.Offset
  BY Zenon DEF Read, ReadDirect
<1>3. eofReached' \in BOOLEAN
  BY Zenon, <1>2
<1>4. end \in Nat
  BY DEF Inv, CreditInv
<1>5. ASSUME NEW c \in queue, c.Offset < end, end < End(c)
      PROVE  Trimmed(c, end) \in Piece
  <2>1. c \in Piece
    BY DEF Shape
  <2> QED BY <1>4, <1>5, <2>1, FlowAssumption DEF Piece, Trimmed, End
<1>6. queue' \subseteq Piece
  BY <1>2, <1>5 DEF Shape
<1> QED BY <1>1, <1>3, <1>6 DEF Shape, sendVars, writerVars, bufferVars, netVars

LEMMA RecvLoopShape == Shape /\ RecvLoop => Shape'
<1> SUFFICES ASSUME Shape, RecvLoop PROVE Shape'
  OBVIOUS
<1>1. /\ UNCHANGED <<queueVars, cancelSent, left, sendVars, faults, givenUp>>
      /\ updateWindow' \in BOOLEAN /\ cancelTrigger' \in BOOLEAN
  BY DEF RecvLoop, sendCancel, sendWindowUpdate, dropRequests, Sent, netVars, Shape
<1>2. ASSUME NEW p \in net' \cup flight', p.kind = "data" PROVE p \in net \cup flight
  BY <1>2 DEF RecvLoop, sendCancel, sendWindowUpdate, dropRequests, Sent, netVars, CancelPacket,
              WindowPacket
<1> QED BY <1>1, <1>2 DEF Shape, queueVars, sendVars, writerVars, bufferVars

LEMMA DeliverShape == ASSUME Shape, NEW p \in net, Deliver(p) PROVE Shape'
<1>1. CASE ReceiveData(p)
  <2>1. /\ UNCHANGED <<eofReached, cancelSent, updateWindow, cancelTrigger, left, writerVars,
                       bufferVars, retransmitQueue, sendStreams, faults, givenUp>>
        /\ net' \subseteq net /\ flight' \subseteq flight /\ sentRanges' \subseteq sentRanges
        /\ sendTrigger' = TRUE
        /\ queue' = queue \/ queue' = queue \cup {p.chunk}
        /\ p.kind = "data"
    BY <1>1 DEF ReceiveData, ProcessChunk
  <2> QED BY <2>1 DEF Shape, writerVars, bufferVars
<1>2. CASE ReceiveWindow(p)
  <2>1. /\ UNCHANGED <<writerVars, bufferVars, sentRanges, retransmitQueue, sendStreams, recvVars,
                       flight, faults, givenUp>>
        /\ net' \subseteq net /\ sendTrigger' \in BOOLEAN
    BY <1>2 DEF ReceiveWindow, Received, UpdateWindow, Shape
  <2> QED BY <2>1 DEF Shape, writerVars, bufferVars, recvVars, queueVars
<1>3. CASE ReceiveCancel(p)
  <2>1. /\ UNCHANGED <<writerVars, dataInBuffer, offset, signalEOF, eofSent, sentRanges,
                       retransmitQueue, sendStreams, recvVars, flight, faults, givenUp>>
        /\ net' \subseteq net /\ sendTrigger' \in BOOLEAN /\ cancelRequested' \in BOOLEAN
    BY <1>3 DEF ReceiveCancel, Received
  <2> QED BY <2>1 DEF Shape, writerVars, recvVars, queueVars
<1> QED BY <1>1, <1>2, <1>3 DEF Deliver

LEMMA VerdictShape ==
    ASSUME Shape, \/ \E p \in acks : OnACK(p)
                  \/ \E p \in flight : OnLostData(p) \/ OnLost(p)
                  \/ \E p \in net : Lose(p)
    PROVE  Shape'
<1>1. ASSUME NEW p \in acks, OnACK(p) PROVE Shape'
  <2>1. /\ UNCHANGED <<queueVars, cancelSent, updateWindow, cancelTrigger, left, sendVars, net,
                       faults, givenUp>>
        /\ flight' \subseteq flight
    BY <1>1 DEF OnACK
  <2> QED BY <2>1 DEF Shape, queueVars, sendVars, writerVars, bufferVars
<1>2. ASSUME NEW p \in flight, OnLostData(p) PROVE Shape'
  <2>1. /\ UNCHANGED <<writerVars, bufferVars, sentRanges, sendStreams, recvVars, net, faults, givenUp>>
        /\ flight' \subseteq flight /\ sendTrigger' = TRUE /\ p.kind = "data"
        /\ \/ retransmitQueue' = retransmitQueue
           \/ /\ p.chunk \notin ToSet(retransmitQueue)
              /\ retransmitQueue' = Append(retransmitQueue, p.chunk)
    BY <1>2 DEF OnLostData
  <2>2. p.chunk \in Piece
    BY <2>1 DEF Shape
  <2>3. retransmitQueue' \in Seq(Piece) /\ IsInjective(retransmitQueue')
    BY <2>1, <2>2, AppendKeepsInjective DEF Shape
  <2> QED BY <2>1, <2>3 DEF Shape, writerVars, bufferVars, recvVars, queueVars
<1>3. ASSUME NEW p \in flight, OnLost(p) PROVE Shape'
  <2>1. /\ UNCHANGED <<queueVars, cancelSent, left, sendVars, net>>
        /\ flight' \subseteq flight
        /\ updateWindow' \in BOOLEAN /\ cancelTrigger' \in BOOLEAN
        /\ givenUp' = givenUp + 1
        /\ faults' \in {faults, faults + 1} /\ faults' <= MaxFaults
    BY <1>3 DEF OnLost, repeatWindow
  <2>2. faults' \in 0 .. MaxFaults /\ givenUp' \in Nat
    BY <2>1, FlowAssumption DEF Shape
  <2> QED BY <2>1, <2>2 DEF Shape, queueVars, sendVars, writerVars, bufferVars
<1>4. ASSUME NEW p \in net, Lose(p) PROVE Shape'
  <2>1. /\ UNCHANGED <<flight, givenUp, sendVars, recvVars>>
        /\ net' \subseteq net /\ faults < MaxFaults /\ faults' = faults + 1
    BY <1>4 DEF Lose
  <2>2. faults' \in 0 .. MaxFaults
    BY <2>1, FlowAssumption DEF Shape
  <2> QED BY <2>1, <2>2 DEF Shape, queueVars, recvVars, sendVars, writerVars, bufferVars
<1> QED BY <1>1, <1>2, <1>3, <1>4

LEMMA StutterShape == Shape /\ UNCHANGED vars => Shape'
  BY DEF Shape, vars, sendVars, recvVars, netVars, queueVars, writerVars, bufferVars

LEMMA ShapeTypes == ASSUME Inv, Shape PROVE TypeOK
<1>1. \A c \in Piece : IsChunk(c)
  BY FlowAssumption DEF Piece, IsChunk
<1>2. ToSet(retransmitQueue) \subseteq Piece
  BY DEF ToSet, Shape
<1>3. \A c \in sentRanges \cup ToSet(retransmitQueue) \cup queue : IsChunk(c)
  BY <1>1, <1>2 DEF Shape
<1>4. {signalEOF, cancelRequested, eofSent, sendTrigger, sendStreams, cancelSent,
       updateWindow, cancelTrigger, eofReached, left} \subseteq BOOLEAN
  BY Zenon DEF Shape
<1>5. dataInBuffer \in 0 .. MaxWrites /\ offset \in 0 .. dataInBuffer
  BY FlowAssumption DEF Inv, CreditInv, Shape
<1> QED BY <1>3, <1>4, <1>5 DEF Inv, CreditInv, Shape, TypeOK

\* The types of both halves of a stream and of what is between them: the buffer holds
\* at most one write past its limit, and no range is queued for retransmission twice,
\* however often the packets that carry it are lost (AppendData, onLost).
THEOREM FlowTypeCorrect == Spec => []TypeOK
<1>1. Inv /\ Shape /\ [Next]_vars => Shape'
  <2> SUFFICES ASSUME Inv, Shape, [Next]_vars PROVE Shape'
    OBVIOUS
  <2>1. \A n \in 1 .. MaxWrites : n \in Nat
    BY FlowAssumption
  <2> QED BY <2>1, WriterShape, SendLoopShape, ReadShape, RecvLoopShape, DeliverShape, VerdictShape,
             StutterShape DEF Next
<1> QED BY <1>1, ShapeInit, ShapeTypes, FlowInvariance, PTL DEF Spec

================================================================================
