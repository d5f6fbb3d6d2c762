----------------------------- MODULE FlowControl -----------------------------
(***************************************************************************)
(* Per-stream flow control and cancellation, across the network: the       *)
(* sending half of a stream accepted from the peer (trsf/send_stream.go,   *)
(* trsf/flow.go), the receiving half that grants it credit                 *)
(* (trsf/recv_stream.go), the part of each end's run loop that sends data, *)
(* window updates and cancels, and what handlePacket does with them        *)
(* (trsf/conn.go).                                                         *)
(*                                                                         *)
(* Packets are lost, delayed and reordered.  The acknowledgement of an     *)
(* update or a cancel takes its own time, and the loss detector may give   *)
(* up on one that did arrive, or will; such a packet is numbered by those  *)
(* given up on before it, which tells a repetition from the original.      *)
(* Late acknowledgements of data, and the changes of the path MTU, are     *)
(* StreamTransfer's: here data is acknowledged as it arrives.  The         *)
(* congestion window is open (RunLoop has the closed one), and the removal *)
(* of the receiving half is beyond the run.                                *)
(***************************************************************************)
EXTENDS OrderingQueue, Sequences, SequencesExt

CONSTANTS
    InitialFlowWindow,  \* credit both ends start from (16 MiB)
    BufferLimit,        \* unsent bytes at which AppendData waits (1 MiB)
    MaxPayload,         \* payload bytes a packet carries
    MaxWrites,          \* bound: bytes the application writes, one a call
    MaxFaults           \* bound: packets lost, or given up on wrongly

ASSUME FlowAssumption ==
    /\ InitialFlowWindow \in Nat /\ InitialFlowWindow >= 2
    /\ BufferLimit \in Nat \ {0} /\ MaxPayload \in Nat \ {0}
    /\ MaxWrites \in Nat /\ MaxFaults \in Nat

VARIABLES
    \* the sending half
    writer,            \* the writing goroutine: "idle", "check", "wait" or "done"
    writerSignal,      \* the one-slot channel that wakes it
    dataInBuffer, offset, signalEOF, cancelRequested, eofSent,
    WindowSize,        \* flowController; SentSize is always `offset'
    sentRanges, retransmitQueue,
    sendTrigger,       \* the stream is on the connection's send trigger
    sendStreams,       \* the stream is in its endpoint's table
    \* the receiving half
    recvWindow, ackedWindow, cancelSent,
    updateWindow,      \* the stream is on the window update queue
    cancelTrigger,     \* the stream is on the cancel queue
    left,              \* having cancelled, the reader will never read again
    \* between them
    flight,            \* packets whose sender awaits a verdict
    net,               \* packets on the way
    acks,              \* requests received whose acknowledgement is on the way back
    givenUp,           \* requests given up on
    faults             \* bound

writerVars == <<writer, writerSignal>>
bufferVars == <<dataInBuffer, offset, signalEOF, cancelRequested, eofSent>>
sendVars == <<writerVars, bufferVars, WindowSize, sentRanges, retransmitQueue, sendTrigger,
              sendStreams>>
recvVars == <<queueVars, recvWindow, ackedWindow, cancelSent, updateWindow, cancelTrigger, left>>
netVars == <<flight, net, acks, faults, givenUp>>
vars == <<sendVars, recvVars, netVars>>

Init ==
    /\ QueueInit
    /\ writer = "idle" /\ writerSignal = FALSE
    /\ dataInBuffer = 0 /\ offset = 0 /\ eofSent = FALSE
    /\ signalEOF = FALSE /\ cancelRequested = FALSE
    /\ WindowSize = InitialFlowWindow
    /\ sentRanges = {} /\ retransmitQueue = <<>> /\ sendTrigger = FALSE /\ sendStreams = TRUE
    /\ recvWindow = InitialFlowWindow /\ ackedWindow = InitialFlowWindow
    /\ cancelSent = FALSE /\ updateWindow = FALSE /\ cancelTrigger = FALSE /\ left = FALSE
    /\ flight = {} /\ net = {} /\ acks = {} /\ faults = 0 /\ givenUp = 0

Chunk(o, l, e) == [Offset |-> o, Data |-> o, Len |-> l, Eof |-> e]
DataPacket(c)   == [kind |-> "data", chunk |-> c]
WindowPacket(w) == [kind |-> "window", no |-> givenUp, window |-> w]
CancelPacket    == [kind |-> "cancel", no |-> givenUp]

Sent(p) ==
    /\ flight' = flight \cup {p}
    /\ net' = net \cup {p}
    /\ UNCHANGED <<acks, faults, givenUp>>

-----------------------------------------------------------------------------
(* The writing application *)

\* Write and AppendData up to the loop.
Write ==
    /\ writer = "idle" /\ dataInBuffer < MaxWrites
    /\ writer' = "check"
    /\ UNCHANGED <<writerSignal, bufferVars, WindowSize, sentRanges, retransmitQueue,
                   sendTrigger, sendStreams, recvVars, netVars>>

\* Mutant of BufferFull: a full buffer is noticed one write late.
BufferFullLate == dataInBuffer - offset > BufferLimit

BufferFull == dataInBuffer - offset >= BufferLimit

\* One turn of AppendData's loop: a closed or cancelled stream refuses the write, a
\* full buffer makes it wait, anything else takes it whole.
AppendData ==
    /\ writer = "check"
    /\ IF signalEOF \/ cancelRequested
       THEN writer' = "done" /\ UNCHANGED <<dataInBuffer, sendTrigger>>
       ELSE IF BufferFull
       THEN writer' = "wait" /\ UNCHANGED <<dataInBuffer, sendTrigger>>
       ELSE /\ writer' = "idle"
            /\ dataInBuffer' = dataInBuffer + 1
            /\ sendTrigger' = TRUE
    /\ UNCHANGED <<writerSignal, offset, signalEOF, cancelRequested, eofSent, WindowSize,
                   sentRanges, retransmitQueue, sendStreams, recvVars, netVars>>

WriterWakes ==
    /\ writer = "wait" /\ writerSignal
    /\ writer' = "check" /\ writerSignal' = FALSE
    /\ UNCHANGED <<bufferVars, WindowSize, sentRanges, retransmitQueue, sendTrigger,
                   sendStreams, recvVars, netVars>>

\* Close, by the writer between two writes or by another goroutine during one.
Close ==
    /\ ~ signalEOF
    /\ signalEOF' = TRUE
    /\ writer' = IF writer = "idle" THEN "done" ELSE writer
    /\ writerSignal' = TRUE
    /\ sendTrigger' = TRUE
    /\ UNCHANGED <<dataInBuffer, offset, cancelRequested, eofSent, WindowSize, sentRanges,
                   retransmitQueue, sendStreams, recvVars, netVars>>

-----------------------------------------------------------------------------
(* The sending end's run loop *)

SendableSize == WindowSize - offset
Completed == eofSent /\ sentRanges = {}

\* A completed stream leaves the table when it comes up on the trigger.
removeSendStream ==
    /\ sendTrigger /\ Completed
    /\ sendTrigger' = FALSE /\ sendStreams' = FALSE
    /\ UNCHANGED <<writerVars, bufferVars, WindowSize, sentRanges, retransmitQueue,
                   recvVars, netVars>>

requeueIfMore(off, eofOut) ==
    \/ WindowSize > off /\ dataInBuffer > off
    \/ ~ eofOut /\ signalEOF

Retransmit ==
    /\ sendTrigger /\ ~ Completed
    /\ retransmitQueue # <<>>
    /\ retransmitQueue' = Tail(retransmitQueue)
    /\ sendTrigger' = requeueIfMore(offset, eofSent)
    /\ Sent(DataPacket(Head(retransmitQueue)))
    /\ UNCHANGED <<writerVars, bufferVars, WindowSize, sentRanges, sendStreams, recvVars>>

Smaller(a, b) == IF a < b THEN a ELSE b

\* Mutant of readChunk: the data is not cut to the credit.
readChunkUncut ==
    LET n == Smaller(dataInBuffer - offset, MaxPayload)
    IN IF cancelRequested THEN Chunk(offset, 0, TRUE)
       ELSE Chunk(offset, n, signalEOF /\ offset + n = dataInBuffer)

\* What a packet may carry of the buffer; a cancelled stream sends its EOF instead.
readChunk ==
    LET n == Smaller(dataInBuffer - offset, Smaller(MaxPayload, SendableSize))
    IN IF cancelRequested THEN Chunk(offset, 0, TRUE)
       ELSE Chunk(offset, n, signalEOF /\ offset + n = dataInBuffer)

\* The buffer is not looked at, not even for an EOF, without credit.
HasChunk == SendableSize > 0 /\ (readChunk.Len > 0 \/ readChunk.Eof)

SendNew ==
    /\ sendTrigger
    /\ retransmitQueue = <<>> /\ ~ eofSent
    /\ HasChunk
    /\ offset' = offset + readChunk.Len
    /\ eofSent' = readChunk.Eof
    /\ sentRanges' = sentRanges \cup {readChunk}
    /\ sendTrigger' = requeueIfMore(offset', eofSent')
    /\ writerSignal' = TRUE
    /\ Sent(DataPacket(readChunk))
    /\ UNCHANGED <<writer, dataInBuffer, signalEOF, cancelRequested, WindowSize,
                   retransmitQueue, sendStreams, recvVars>>

\* triggerPacket returns nil.
NothingToSend ==
    /\ sendTrigger /\ ~ Completed
    /\ retransmitQueue = <<>>
    /\ eofSent \/ ~ HasChunk
    /\ sendTrigger' = FALSE
    /\ UNCHANGED <<writerVars, bufferVars, WindowSize, sentRanges, retransmitQueue,
                   sendStreams, recvVars, netVars>>

-----------------------------------------------------------------------------
(* The reading application *)

Owed(w) == w - ackedWindow >= InitialFlowWindow \div 2

\* Mutant of ReadContext: only whole windows are reported.
ReadLazily(n) ==
    /\ ~ left
    /\ ReadDirect(n)
    /\ recvWindow' = recvWindow + (nextOffset' - nextOffset)
    /\ updateWindow' = (updateWindow \/ (/\ nextOffset' > nextOffset
                                         /\ recvWindow' - ackedWindow >= 2 * InitialFlowWindow))
    /\ UNCHANGED <<ackedWindow, cancelSent, cancelTrigger, left, sendVars, netVars>>

\* ReadContext and ReadDirectContext, for a reader with room for n bytes.  What is
\* read becomes credit; the peer is told once half a window has gone unacknowledged.
Read(n) ==
    /\ ~ left
    /\ ReadDirect(n)
    /\ recvWindow' = recvWindow + (nextOffset' - nextOffset)
    /\ updateWindow' = (updateWindow \/ (nextOffset' > nextOffset /\ Owed(recvWindow')))
    /\ UNCHANGED <<ackedWindow, cancelSent, cancelTrigger, left, sendVars, netVars>>

\* The reader cancels, and may walk away: CloseBoth does.
Cancel ==
    /\ ~ cancelSent
    /\ cancelSent' = TRUE
    /\ left' \in BOOLEAN
    /\ cancelTrigger' = TRUE
    /\ UNCHANGED <<queueVars, recvWindow, ackedWindow, updateWindow, sendVars, netVars>>

-----------------------------------------------------------------------------
(* The receiving end's run loop *)

\* Both queues are popped; a cancel goes first and the update is put back.
sendCancel ==
    /\ cancelTrigger /\ ~ eofReached
    /\ cancelTrigger' = FALSE
    /\ Sent(CancelPacket)
    /\ UNCHANGED <<queueVars, recvWindow, ackedWindow, cancelSent, updateWindow, left, sendVars>>

sendWindowUpdate ==
    /\ updateWindow /\ ~ eofReached /\ ~ cancelTrigger
    /\ updateWindow' = FALSE
    /\ Sent(WindowPacket(recvWindow))
    /\ UNCHANGED <<queueVars, recvWindow, ackedWindow, cancelSent, cancelTrigger, left, sendVars>>

\* A stream read to its EOF asks for nothing more.
dropRequests ==
    /\ updateWindow \/ cancelTrigger
    /\ eofReached
    /\ updateWindow' = FALSE /\ cancelTrigger' = FALSE
    /\ UNCHANGED <<queueVars, recvWindow, ackedWindow, cancelSent, left, sendVars, netVars>>

-----------------------------------------------------------------------------
(* handlePacket *)

Received(p) ==
    /\ p \in net
    /\ net' = net \ {p}
    /\ acks' = acks \cup {p}
    /\ UNCHANGED <<flight, faults, givenUp>>

\* Data, and its ACK: the sender drops the range and the stream is triggered.
ReceiveData(p) ==
    /\ p \in net /\ p.kind = "data"
    /\ ProcessChunk(p.chunk)
    /\ net' = net \ {p} /\ flight' = flight \ {p}
    /\ sentRanges' = sentRanges \ {p.chunk}
    /\ sendTrigger' = TRUE
    /\ UNCHANGED <<recvWindow, ackedWindow, cancelSent, updateWindow, cancelTrigger, left,
                   writerVars, bufferVars, WindowSize, retransmitQueue, sendStreams, acks, faults, givenUp>>

\* updateFlowWindow: credit only grows, and growing puts the stream on the trigger.
UpdateWindow(w) ==
    /\ WindowSize' = IF w > WindowSize THEN w ELSE WindowSize
    /\ sendTrigger' = (sendTrigger \/ w > WindowSize)

\* An update or a cancel of a stream no longer in the table is dropped.
ReceiveWindow(p) ==
    /\ p.kind = "window"
    /\ Received(p)
    /\ IF sendStreams THEN UpdateWindow(p.window) ELSE UNCHANGED <<WindowSize, sendTrigger>>
    /\ UNCHANGED <<writerVars, bufferVars, sentRanges, retransmitQueue, sendStreams, recvVars>>

\* onCancel does not wake a waiting writer: the EOF it causes does.
ReceiveCancel(p) ==
    /\ p.kind = "cancel"
    /\ Received(p)
    /\ cancelRequested' = (cancelRequested \/ sendStreams)
    /\ sendTrigger' = (sendTrigger \/ sendStreams)
    /\ UNCHANGED <<writerVars, dataInBuffer, offset, signalEOF, eofSent, WindowSize, sentRanges,
                   retransmitQueue, sendStreams, recvVars>>

-----------------------------------------------------------------------------
(* Verdicts of the loss detectors *)

\* The ACK of an older update arriving late moves ackedWindow back.
onWindowAck(w) == ackedWindow' = w

\* An acknowledgement; one for a packet already given up on changes nothing.
OnACK(p) ==
    /\ p \in acks
    /\ acks' = acks \ {p}
    /\ flight' = flight \ {p}
    /\ IF p \in flight /\ p.kind = "window" THEN onWindowAck(p.window) ELSE UNCHANGED ackedWindow
    /\ UNCHANGED <<queueVars, recvWindow, cancelSent, updateWindow, cancelTrigger, left, sendVars, net,
                   faults, givenUp>>

\* Mutant of repeatWindow: a lost update is left to the next read.
repeatWindowNever(p) == FALSE

repeatWindow(p) == p.kind = "window" /\ ~ eofReached

\* Lost data goes on the retransmission queue, and its stream on the trigger.
OnLostData(p) ==
    /\ p \in flight \ net /\ p.kind = "data"
    /\ flight' = flight \ {p}
    /\ sendTrigger' = TRUE
    /\ retransmitQueue' = IF p.chunk \in ToSet(retransmitQueue) THEN retransmitQueue
                          ELSE Append(retransmitQueue, p.chunk)
    /\ UNCHANGED <<writerVars, bufferVars, WindowSize, sentRanges, sendStreams, recvVars, net, acks,
                   faults, givenUp>>

\* A request is given up on: it was lost, or the detector is wrong.  It goes back on
\* its queue, unless the stream is over.
OnLost(p) ==
    /\ p \in flight /\ p.kind # "data"
    /\ faults' = IF p \in net \cup acks THEN faults + 1 ELSE faults
    /\ faults' <= MaxFaults
    /\ flight' = flight \ {p}
    /\ givenUp' = givenUp + 1
    /\ updateWindow' = (updateWindow \/ repeatWindow(p))
    /\ cancelTrigger' = (cancelTrigger \/ (p.kind = "cancel" /\ ~ eofReached))
    /\ UNCHANGED <<queueVars, recvWindow, ackedWindow, cancelSent, left, sendVars, net, acks>>

\* The network loses a packet.
Lose(p) ==
    /\ p \in net
    /\ faults < MaxFaults
    /\ faults' = faults + 1
    /\ net' = net \ {p}
    /\ UNCHANGED <<flight, acks, givenUp, sendVars, recvVars>>

-----------------------------------------------------------------------------
SendLoop == removeSendStream \/ Retransmit \/ SendNew \/ NothingToSend
RecvLoop == sendCancel \/ sendWindowUpdate \/ dropRequests
Deliver(p) == ReceiveData(p) \/ ReceiveWindow(p) \/ ReceiveCancel(p)

Next ==
    \/ Write \/ AppendData \/ WriterWakes \/ Close
    \/ SendLoop
    \/ \E n \in 1 .. MaxWrites : Read(n)
    \/ Cancel
    \/ RecvLoop
    \/ \E p \in net : Deliver(p)
    \/ \E p \in acks : OnACK(p)
    \/ \E p \in flight : OnLostData(p) \/ OnLost(p)
    \/ \E p \in net : Lose(p)

Spec == Init /\ [][Next]_vars

\* The writer's goroutine and the run loops run, the network delivers what it does
\* not lose, every packet gets its verdict, a reader that has not left reads, and the
\* application closes the stream in the end.
Fairness ==
    /\ WF_vars(AppendData \/ WriterWakes)
    /\ WF_vars(Close)
    /\ WF_vars(SendLoop) /\ WF_vars(RecvLoop)
    /\ WF_vars(\E n \in 1 .. MaxWrites : Read(n))
    /\ WF_vars(\E p \in net : Deliver(p))
    /\ WF_vars(\E p \in acks : OnACK(p))
    /\ WF_vars(\E p \in flight : p \notin net \cup acks /\ (OnLostData(p) \/ OnLost(p)))

FairSpec == Spec /\ Fairness

-----------------------------------------------------------------------------
(* Properties *)

IsChunk(c) ==
    /\ c.Offset \in 0 .. MaxWrites /\ c.Data \in 0 .. MaxWrites
    /\ c.Len \in 0 .. MaxWrites /\ c.Eof \in BOOLEAN

\* Every variable holds a value of its type; the queued retransmissions are distinct,
\* and no more is buffered than one write past the limit.
TypeOK ==
    /\ writer \in {"idle", "check", "wait", "done"} /\ writerSignal \in BOOLEAN
    /\ dataInBuffer \in 0 .. MaxWrites /\ offset \in 0 .. dataInBuffer
    /\ dataInBuffer - offset <= BufferLimit
    /\ {signalEOF, cancelRequested, eofSent, sendTrigger, sendStreams, cancelSent,
        updateWindow, cancelTrigger, eofReached, left} \subseteq BOOLEAN
    /\ WindowSize \in Nat /\ recvWindow \in Nat /\ ackedWindow \in Nat
    /\ \A c \in sentRanges \cup ToSet(retransmitQueue) \cup queue : IsChunk(c)
    /\ IsInjective(retransmitQueue)
    /\ faults \in 0 .. MaxFaults /\ givenUp \in Nat

\* The sender never uses credit it was not given, whichever updates were lost or
\* overtaken: what is sent but unread fits in one window of the reader's memory
\* (flow.go, readChunk).
WithinCredit ==
    /\ offset <= WindowSize
    /\ WindowSize <= recvWindow
    /\ offset - nextOffset <= InitialFlowWindow

\* While a sender still there lacks half a window of the credit due to it, an update with all
\* of it is queued or awaits its verdict (ReadContext, onWindowAck, OnLost): an
\* acknowledgement out of order, or a lost update, never leaves the sender short.
CreditOnItsWay ==
    ~ eofReached /\ sendStreams /\ recvWindow - WindowSize >= InitialFlowWindow \div 2 =>
        \/ updateWindow
        \/ \E p \in flight : p.kind = "window" /\ p.window = recvWindow

\* A cancel is honoured by an EOF, but an EOF needs credit and a reader that has left
\* gives none.
Starved == left /\ cancelRequested /\ ~ eofSent /\ SendableSize = 0

\* Whatever is lost, and whether or not the reader cancels, the stream comes to its
\* end on both sides: the reader gets to the EOF (or has left), the writer is not left
\* waiting in AppendData, and the sending half leaves the table (triggerPacket,
\* onCancel).  The one exception is a stream cancelled by a reader that leaves with the
\* sender's credit used up.
StreamEnds ==
    <>[](Starved \/ (writer = "done" /\ ~ sendStreams /\ (eofReached \/ left)))
=============================================================================
