----------------------------- MODULE SendStream -----------------------------
(***************************************************************************)
(* The sending half of a stream (trsf/send_stream.go): the application's   *)
(* buffer, the ranges awaiting acknowledgement, the retransmission queue   *)
(* and the stream's place on the connection's send trigger.                *)
(*                                                                         *)
(* A SentRange is matched by pointer identity in the code, so it carries a *)
(* fresh identity here.  Its payload is the position of its first byte in  *)
(* what the application wrote (see OrderingQueue) and its length.          *)
(*                                                                         *)
(* `room' is the number of payload bytes a packet can carry: maxPayload    *)
(* less the frame header.  The 16 MiB flow window and a peer's cancel are  *)
(* not modelled here.                                                      *)
(***************************************************************************)
EXTENDS Integers, Sequences, FiniteSets, SequencesExt

CONSTANTS
    BufferLimit,  \* unsent bytes at which AppendData waits (1 MiB)
    OpenedHere    \* this endpoint created the stream

ASSUME SendAssumption == BufferLimit \in Nat \ {0} /\ OpenedHere \in BOOLEAN

VARIABLES
    dataInBuffer,     \* bytes ever appended by the application
    offset,           \* bytes handed over for a first transmission
    signalEOF,        \* the application closed the stream
    eofSent,          \* a range carrying the EOF has been handed over
    pendingOpen,      \* an open marker is still owed for a stream nobody wrote to
    sentRanges,       \* the ranges awaiting acknowledgement
    retransmitQueue,  \* ranges to send again, each at most once
    freshId,          \* identity of the next SentRange
    sendTrigger       \* the stream is on the connection's send trigger

sendVars == <<dataInBuffer, offset, signalEOF, eofSent, pendingOpen, sentRanges,
              retransmitQueue, freshId, sendTrigger>>

\* The side that creates a stream owes the peer an open marker and puts the new
\* stream on the trigger; the sending half of an accepted stream does neither.
SendInit ==
    /\ dataInBuffer = 0
    /\ offset = 0
    /\ signalEOF = FALSE
    /\ eofSent = FALSE
    /\ pendingOpen = OpenedHere
    /\ sentRanges = {}
    /\ retransmitQueue = <<>>
    /\ freshId = 1
    /\ sendTrigger = OpenedHere

NewRange(id, o, d, l, e) == [id |-> id, Offset |-> o, Data |-> d, Len |-> l, Eof |-> e]

Completed == eofSent /\ sentRanges = {}

-----------------------------------------------------------------------------
(* The application *)

\* AppendData holds a writer back while the buffer is full, then takes all of
\* its data, even past the limit.
AppendData(n, eof) ==
    /\ ~ signalEOF
    /\ dataInBuffer - offset < BufferLimit
    /\ n > 0 \/ eof
    /\ dataInBuffer' = dataInBuffer + n
    /\ signalEOF' = eof
    /\ sendTrigger' = TRUE
    /\ UNCHANGED <<offset, eofSent, pendingOpen, sentRanges, retransmitQueue, freshId>>

Close ==
    /\ ~ signalEOF   \* a second Close only repeats the push
    /\ signalEOF' = TRUE
    /\ sendTrigger' = TRUE
    /\ UNCHANGED <<dataInBuffer, offset, eofSent, pendingOpen, sentRanges,
                   retransmitQueue, freshId>>

-----------------------------------------------------------------------------
(* Verdicts of the loss detector *)

\* Mutants of Triggers: only one of the two kinds of verdict puts the stream back.
TriggersOnLoss(acked, lost) == lost # {}
TriggersOnACK(acked, lost)  == acked # {}

\* Either verdict puts the stream on the trigger: an ACK because the stream may be
\* finished with it, a loss because there is something to send.
Triggers(acked, lost) == acked # {} \/ lost # {}

\* OnACK of the ranges in `acked', then OnLost of the ranges of the packets in
\* `lost', in the order those packets were sent.  A range already queued, or lost
\* with two packets at once, is queued once (withTriggerQueue.Push).
Verdict(acked, lost) ==
    LET new == {p.range : p \in lost} \ ToSet(retransmitQueue)
        firstLost(r) == CHOOSE n \in {p.pn : p \in lost} :
                           /\ \E p \in lost : p.pn = n /\ p.range = r
                           /\ \A p \in lost : p.range = r => n <= p.pn
    IN /\ sentRanges' = sentRanges \ acked
       /\ \E order \in [1 .. Cardinality(new) -> new] :
             /\ \A i, j \in DOMAIN order : i < j => firstLost(order[i]) < firstLost(order[j])
             /\ retransmitQueue' = retransmitQueue \o order
       /\ sendTrigger' = (sendTrigger \/ Triggers(acked, lost))
       /\ UNCHANGED <<dataInBuffer, offset, signalEOF, eofSent, pendingOpen, freshId>>

-----------------------------------------------------------------------------
(* triggerPacket *)

\* requeueIfMore, for a stream that has just handed a packet over.
MoreToSend(off, eofOut) == dataInBuffer > off \/ (~ eofOut /\ signalEOF)

\* The oldest queued retransmission still fits.
Retransmit(room, r) ==
    /\ retransmitQueue # <<>>
    /\ r = Head(retransmitQueue)
    /\ r.Len <= room
    /\ retransmitQueue' = Tail(retransmitQueue)
    /\ sendTrigger' = MoreToSend(offset, eofSent)
    /\ UNCHANGED <<dataInBuffer, offset, signalEOF, eofSent, pendingOpen,
                   sentRanges, freshId>>

\* Mutants of the split: the head keeps the EOF; the tail keeps the whole payload.
SplitHeadEof(src, n) == NewRange(freshId, src.Offset, src.Data, n, src.Eof)
SplitTailUnshifted(src, n) ==
    NewRange(freshId + 1, src.Offset + n, src.Data, src.Len - n, src.Eof)
SplitHead(src, n) == NewRange(freshId, src.Offset, src.Data, n, FALSE)
SplitTail(src, n) ==
    NewRange(freshId + 1, src.Offset + n, src.Data + n, src.Len - n, src.Eof)

\* Mutant of SplitRetransmit: the tail is queued but not tracked.
SplitRetransmitUntracked(room, r) ==
    /\ retransmitQueue # <<>>
    /\ Head(retransmitQueue).Len > room
    /\ r = SplitHead(Head(retransmitQueue), room)
    /\ LET src == Head(retransmitQueue)
       IN /\ sentRanges' = (sentRanges \ {src}) \cup {r}
          /\ retransmitQueue' = Append(Tail(retransmitQueue), SplitTail(src, room))
    /\ freshId' = freshId + 2
    /\ sendTrigger' = MoreToSend(offset, eofSent)
    /\ UNCHANGED <<dataInBuffer, offset, signalEOF, eofSent, pendingOpen>>

\* It does not: splitSentRange cuts it, both fragments replace it among the
\* tracked ranges (or join them, if an ACK already retired it), the tail is
\* queued and the head goes out.
SplitRetransmit(room, r) ==
    /\ retransmitQueue # <<>>
    /\ Head(retransmitQueue).Len > room
    /\ r = SplitHead(Head(retransmitQueue), room)
    /\ LET src == Head(retransmitQueue)
           tail == SplitTail(src, room)
       IN /\ sentRanges' = (sentRanges \ {src}) \cup {r, tail}
          /\ retransmitQueue' = Append(Tail(retransmitQueue), tail)
    /\ freshId' = freshId + 2
    /\ sendTrigger' = MoreToSend(offset, eofSent)
    /\ UNCHANGED <<dataInBuffer, offset, signalEOF, eofSent, pendingOpen>>

\* readChunk: as much of the buffer as there is room for, and the EOF once the
\* application has closed and nothing is left behind.
ChunkLen(room) ==
    IF dataInBuffer - offset > room THEN room ELSE dataInBuffer - offset

\* Mutant of ChunkEof: the EOF rides the first chunk after Close.
ChunkEofEarly(room) == signalEOF

ChunkEof(room) == signalEOF /\ dataInBuffer - offset <= room

\* New data, the EOF, or -- once, with neither -- the open marker.
SendNew(room, r) ==
    /\ retransmitQueue = <<>>
    /\ ~ eofSent
    /\ ChunkLen(room) > 0 \/ ChunkEof(room) \/ pendingOpen
    /\ r = NewRange(freshId, offset, offset, ChunkLen(room), ChunkEof(room))
    /\ pendingOpen' = (pendingOpen /\ (r.Len > 0 \/ r.Eof))
    /\ offset' = offset + r.Len
    /\ eofSent' = r.Eof
    /\ sentRanges' = sentRanges \cup {r}
    /\ freshId' = freshId + 1
    /\ sendTrigger' = MoreToSend(offset', eofSent')
    /\ UNCHANGED <<dataInBuffer, signalEOF, retransmitQueue>>

\* triggerPacket hands over r.
TriggerPacket(room, r) ==
    \/ Retransmit(room, r)
    \/ SplitRetransmit(room, r)
    \/ SendNew(room, r)

\* triggerPacket returns nil; the stream has left the trigger.
NothingToSend(room) ==
    /\ retransmitQueue = <<>>
    /\ eofSent \/ ~ (ChunkLen(room) > 0 \/ ChunkEof(room) \/ pendingOpen)
    /\ sendTrigger' = FALSE
    /\ UNCHANGED <<dataInBuffer, offset, signalEOF, eofSent, pendingOpen,
                   sentRanges, retransmitQueue, freshId>>
=============================================================================
