--------------------------- MODULE StreamTransfer ---------------------------
(***************************************************************************)
(* One stream, end to end: the application writing into a SendStream, the  *)
(* sending connection's run loop and loss detector, a network that loses,  *)
(* delays and reorders, the receiving connection's packet number tracker   *)
(* and OrderingQueue, and the application reading (trsf/conn.go: run,      *)
(* handlePacket, getRecvStream, scheduleRecvStreamRemoval).                *)
(*                                                                         *)
(* Time is abstracted: a packet at or below the largest acknowledged one   *)
(* may be found past the loss threshold at any moment, oldest first, and   *)
(* the PTO may expire whenever no such packet exists (SentPacketHandler).  *)
(* A packet number is never processed twice (objproto's nonce tracker), so *)
(* duplication of data packets by the network is invisible here.  Numbers  *)
(* are also consumed by packets of no concern to this stream (ACKs, pings),*)
(* so the receiver sees gaps even where nothing is lost.                   *)
(***************************************************************************)
EXTENDS SendStream, OrderingQueue, AckRanges

CONSTANTS
    Writes,         \* application writes: <<size, with EOF>>
    ReadSizes,      \* sizes of the reader's buffer
    Rooms,          \* payload bytes per packet, one per MTU the tracker can settle on
    Cwnd,           \* congestion window, in packets
    MaxBytes,       \* bound: bytes the application writes
    MaxRoomChanges, \* bound: MTU changes while a range is tracked
    MaxLosses,      \* bound: packets and ACKs the network drops
    MaxReorders,    \* bound: deliveries out of order
    MaxTrouble,     \* bound: losses, reorderings and foreign numbers together
    MaxSpurious,    \* bound: PTO expiries with the answer still under way
    MaxPN,          \* bound: packet numbers this stream's packets take
    MaxOther,       \* bound: packet numbers other packets take
    MaxAcks,        \* bound: ACKs in the network at a time
    LongGrace       \* the removal grace period outlasts the recovery of lost packets

ASSUME TransferAssumption ==
    /\ Writes \subseteq Nat \X BOOLEAN /\ ReadSizes \subseteq Nat \ {0}
    \* The smallest MTU leaves far more than two bytes, so triggerPacket never
    \* meets a budget too small to divide a range.
    /\ Rooms \subseteq Nat \ {0, 1} /\ Rooms # {}
    /\ Cwnd \in Nat \ {0} /\ MaxBytes \in Nat /\ MaxRoomChanges \in Nat
    /\ MaxLosses \in Nat /\ MaxReorders \in Nat /\ MaxSpurious \in Nat
    /\ MaxTrouble \in Nat
    /\ MaxPN \in Nat /\ MaxOther \in Nat /\ MaxAcks \in Nat
    /\ LongGrace \in BOOLEAN

VARIABLES
    room,          \* payload bytes a packet carries at the current MTU
    roomChanges,
    outstanding,   \* SentPacketHandler.sentRanges: [pn, range]
    nextPN,        \* ConsumePacketNumber
    others,        \* numbers consumed by other packets
    largestAcked,
    iter,          \* the run loop: at its top, past a loss expiry, past a PTO
    parked,        \* the stream is in congestionBlocked
    removed,       \* the send stream left the connection's table
    net,           \* data packets in the network: [pn, chunk]
    acks,          \* ACKs in the network: sets of packet numbers
    losses, reorders, spurious,
    recvEntry      \* the receiver's table entry for the stream

connVars == <<room, roomChanges, outstanding, nextPN, others, largestAcked, iter, parked,
              removed>>
netVars == <<net, acks, losses, reorders, spurious>>
\* unackedRanges (AckRanges) is the receiver's PacketNumTracker.
recvVars == <<unackedRanges, recvEntry>>
vars == <<sendVars, queueVars, connVars, netVars, recvVars>>

\* The joint bound on what the network does to packets; no code corresponds to it.
MoreTrouble == losses + reorders + others < MaxTrouble

Init ==
    /\ SendInit /\ QueueInit
    /\ room \in Rooms /\ roomChanges = 0
    /\ outstanding = {} /\ nextPN = 1 /\ others = 0 /\ largestAcked = 0
    /\ iter = "top" /\ parked = FALSE /\ removed = FALSE
    /\ net = {} /\ acks = {} /\ losses = 0 /\ reorders = 0 /\ spurious = 0
    /\ unackedRanges = <<>>
    /\ recvEntry = IF OpenedHere THEN "absent" ELSE "live"

-----------------------------------------------------------------------------
(* The applications *)

AppWrite(n, eof) ==
    /\ dataInBuffer + n <= MaxBytes
    /\ AppendData(n, eof)
    /\ UNCHANGED <<queueVars, connVars, netVars, recvVars>>

AppClose ==
    /\ Close
    /\ UNCHANGED <<queueVars, connVars, netVars, recvVars>>

\* The reader holds the stream itself, not its table entry.
AppRead(n) ==
    /\ ReadDirect(n)
    /\ UNCHANGED <<sendVars, connVars, netVars, recvVars>>

-----------------------------------------------------------------------------
(* The sending connection's run loop *)

CanSend == Cardinality(outstanding) < Cwnd

Chunk(r) == [Offset |-> r.Offset, Data |-> r.Data, Len |-> r.Len, Eof |-> r.Eof]

\* Top of the loop: a stream parked by the congestion gate is revived.
Unpark ==
    /\ iter = "top" /\ parked /\ CanSend
    /\ parked' = FALSE
    /\ sendTrigger' = TRUE
    /\ UNCHANGED <<dataInBuffer, offset, signalEOF, eofSent, pendingOpen, sentRanges,
                   retransmitQueue, freshId>>
    /\ UNCHANGED <<room, roomChanges, outstanding, nextPN, others, largestAcked, iter, removed>>
    /\ UNCHANGED <<queueVars, netVars, recvVars>>

\* The send half pops the stream and finds it finished.
ReapStream ==
    /\ sendTrigger /\ Completed
    /\ iter' = "top"
    /\ removed' = TRUE
    /\ sendTrigger' = FALSE
    /\ UNCHANGED <<dataInBuffer, offset, signalEOF, eofSent, pendingOpen, sentRanges,
                   retransmitQueue, freshId>>
    /\ UNCHANGED <<room, roomChanges, outstanding, nextPN, others, largestAcked, parked>>
    /\ UNCHANGED <<queueVars, netVars, recvVars>>

\* The congestion window is full and this is no PTO: the stream is parked.
ParkStream ==
    /\ sendTrigger /\ ~ Completed
    /\ ~ CanSend /\ iter # "pto"
    /\ iter' = "top"
    /\ parked' = TRUE
    /\ sendTrigger' = FALSE
    /\ UNCHANGED <<dataInBuffer, offset, signalEOF, eofSent, pendingOpen, sentRanges,
                   retransmitQueue, freshId>>
    /\ UNCHANGED <<room, roomChanges, outstanding, nextPN, others, largestAcked, removed>>
    /\ UNCHANGED <<queueVars, netVars, recvVars>>

MaySend == sendTrigger /\ ~ Completed /\ (CanSend \/ iter = "pto")

\* A packet is registered with the loss detector and goes out.
SendPacket(r) ==
    /\ MaySend
    /\ nextPN - others <= MaxPN
    /\ TriggerPacket(room, r)
    /\ outstanding' = outstanding \cup {[pn |-> nextPN, range |-> r]}
    /\ net' = net \cup {[pn |-> nextPN, chunk |-> Chunk(r)]}
    /\ nextPN' = nextPN + 1
    /\ iter' = "top"
    /\ UNCHANGED <<room, roomChanges, others, largestAcked, parked, removed>>
    /\ UNCHANGED <<acks, losses, reorders, spurious>>
    /\ UNCHANGED <<queueVars, recvVars>>

\* A packet that is not this stream's data takes a number; which number it is shows
\* only if one of the stream's own follows.
OtherPacket ==
    /\ others < MaxOther /\ MoreTrouble
    /\ MaySend /\ iter = "top"
    /\ others' = others + 1
    /\ nextPN' = nextPN + 1
    /\ UNCHANGED <<room, roomChanges, outstanding, largestAcked, iter, parked, removed>>
    /\ UNCHANGED <<sendVars, queueVars, netVars, recvVars>>

\* What triggerPacket can hand over: a queued range, a fragment, a new range.
Candidates ==
    ToSet(retransmitQueue)
      \cup {SplitHead(q, room) : q \in ToSet(retransmitQueue)}
      \cup {NewRange(freshId, offset, offset, ChunkLen(room), ChunkEof(room))}

SendNothing ==
    /\ \/ MaySend /\ NothingToSend(room)
       \/ ~ sendTrigger /\ iter # "top" /\ UNCHANGED sendVars
    /\ iter' = "top"
    /\ UNCHANGED <<room, roomChanges, outstanding, nextPN, others, largestAcked, parked, removed>>
    /\ UNCHANGED <<queueVars, netVars, recvVars>>

-----------------------------------------------------------------------------
(* The loss detector *)

LossSuspects == {p \in outstanding : p.pn <= largestAcked}

\* detectLost retires the packets at or below largestAcked that are old enough:
\* those up to some packet number.
LostUpTo(pkts, largest, cut) == {p \in pkts : p.pn <= largest /\ p.pn <= cut}

ReceiveACK(ack, cut) ==
    /\ iter = "top"
    /\ acks' = acks \ {ack}
    /\ LET acked == {p \in outstanding : p.pn \in ack}
           rest == outstanding \ acked
           top == CHOOSE n \in ack : \A m \in ack : m <= n
           largest == IF top > largestAcked THEN top ELSE largestAcked
           lost == LostUpTo(rest, largest, cut)
       IN /\ acked # {}
          /\ cut = 0 \/ \E p \in rest : p.pn = cut /\ cut <= largest
          /\ outstanding' = rest \ lost
          /\ largestAcked' = largest
          /\ Verdict({p.range : p \in acked}, lost)
    /\ UNCHANGED <<room, roomChanges, nextPN, others, iter, parked, removed>>
    /\ UNCHANGED <<net, losses, reorders, spurious>>
    /\ UNCHANGED <<queueVars, recvVars>>

\* An ACK that retires nothing, late or duplicate, is the end of the handler.
StaleACK(ack) ==
    /\ iter = "top"
    /\ \A p \in outstanding : p.pn \notin ack
    /\ acks' = acks \ {ack}
    /\ UNCHANGED <<net, losses, reorders, spurious>>
    /\ UNCHANGED <<sendVars, queueVars, connVars, recvVars>>

\* OnTimeout with the loss timer armed: at least the oldest suspect is lost.
LossTimer(cut) ==
    /\ iter = "top"
    /\ \E p \in LossSuspects : p.pn = cut
    /\ LET lost == LostUpTo(outstanding, largestAcked, cut)
       IN /\ outstanding' = outstanding \ lost
          /\ Verdict({}, lost)
    /\ iter' = "loss"
    /\ UNCHANGED <<room, roomChanges, nextPN, others, largestAcked, parked, removed>>
    /\ UNCHANGED <<queueVars, netVars, recvVars>>

Quiet == net = {} /\ unackedRanges = <<>> /\ acks = {}

\* OnTimeout without it: the oldest packet's range is queued again and the
\* packet itself STAYS outstanding.
PTO ==
    /\ iter = "top"
    /\ LossSuspects = {}
    /\ \E p \in outstanding :
          /\ \A q \in outstanding : p.pn <= q.pn
          /\ Verdict({}, {p})
    /\ Quiet \/ spurious < MaxSpurious
    /\ spurious' = IF Quiet THEN spurious ELSE spurious + 1
    /\ iter' = "pto"
    /\ UNCHANGED <<room, roomChanges, outstanding, nextPN, others, largestAcked, parked, removed>>
    /\ UNCHANGED <<net, acks, losses, reorders>>
    /\ UNCHANGED <<queueVars, recvVars>>

\* Nothing the stream has sent awaits an acknowledgement or a retransmission.
AllAcked == sentRanges = {} /\ retransmitQueue = <<>> /\ outstanding = {}

\* The MTU tracker settles on another size.  roomChanges counts the changes that fell
\* between a range's first packet and its acknowledgement: one that finds nothing
\* tracked starts the count again, unless some range has met two.
ChangesMet == IF AllAcked /\ roomChanges <= 1 THEN 0 ELSE roomChanges + 1

ChangeRoom(r) ==
    /\ ChangesMet <= MaxRoomChanges
    /\ r # room
    /\ room' = r
    /\ roomChanges' = ChangesMet
    /\ UNCHANGED <<outstanding, nextPN, others, largestAcked, iter, parked, removed>>
    /\ UNCHANGED <<sendVars, queueVars, netVars, recvVars>>

-----------------------------------------------------------------------------
(* The network *)

InSequence(p) == \A q \in net : p.pn <= q.pn

LosePacket(p) ==
    /\ losses < MaxLosses /\ MoreTrouble
    /\ net' = net \ {p}
    /\ losses' = losses + 1
    /\ UNCHANGED <<acks, reorders, spurious>>
    /\ UNCHANGED <<sendVars, queueVars, connVars, recvVars>>

LoseAck(a) ==
    /\ losses < MaxLosses /\ MoreTrouble
    /\ acks' = acks \ {a}
    /\ losses' = losses + 1
    /\ UNCHANGED <<net, reorders, spurious>>
    /\ UNCHANGED <<sendVars, queueVars, connVars, recvVars>>

-----------------------------------------------------------------------------
(* The receiving connection *)

\* handlePacket: the packet number is recorded before the payload is looked at,
\* a stream the peer opened is created by its first frame, and after the removal
\* of its entry by the next one again, a stream no reader knows of; the receiving
\* half of a stream opened at this end exists from the start and once.
ReceivePacket(p) ==
    /\ InSequence(p) \/ (reorders < MaxReorders /\ MoreTrouble)
    /\ reorders' = IF InSequence(p) THEN reorders ELSE reorders + 1
    /\ net' = net \ {p}
    /\ unackedRanges' = InsertInto(unackedRanges, p.pn)
    /\ IF recvEntry \in {"removed", "recreated"}
       THEN /\ recvEntry' = IF OpenedHere THEN "recreated" ELSE "removed"
            /\ UNCHANGED queueVars
       ELSE /\ recvEntry' = IF p.chunk.Eof \/ eofReached \/ recvEntry = "expiring"
                            THEN "expiring" ELSE "live"
            /\ ProcessChunk(p.chunk)
    /\ UNCHANGED <<acks, losses, spurious>>
    /\ UNCHANGED <<sendVars, connVars>>

\* Byte o has reached the receiving endpoint: read, or waiting in the queue.
Arrived(o) == o < nextOffset \/ \E c \in queue : Covers(c, o)

EofArrived == eofReached \/ \E c \in queue : c.Eof

\* scheduleRecvStreamRemoval's timer, armed by the arrival of the EOF frame.
RemoveRecvStream ==
    /\ recvEntry = "expiring"
    /\ LongGrace => EofArrived /\ \A o \in 0 .. dataInBuffer - 1 : Arrived(o)
    /\ recvEntry' = "removed"
    /\ UNCHANGED unackedRanges
    /\ UNCHANGED <<sendVars, queueVars, connVars, netVars>>

\* A pass of the receiver's run loop: the record is cleared, and an ACK goes out
\* if TransferACK can express it.
SendAck ==
    /\ unackedRanges # <<>>
    /\ Cardinality(acks) < MaxAcks
    /\ unackedRanges' = <<>>
    /\ acks' = IF TransferACKFails(unackedRanges)
               THEN acks
               ELSE acks \cup {Covered(decodeRanges(TransferACK(unackedRanges)))}
    /\ UNCHANGED <<net, losses, reorders, spurious, recvEntry>>
    /\ UNCHANGED <<sendVars, queueVars, connVars>>

-----------------------------------------------------------------------------
Timers == (\E p \in outstanding : LossTimer(p.pn)) \/ PTO

Acking ==
    \E a \in acks :
       \/ \E cut \in {0} \cup {p.pn : p \in outstanding} : ReceiveACK(a, cut)
       \/ StaleACK(a)

SendHalf == ReapStream \/ ParkStream \/ SendNothing \/ \E r \in Candidates : SendPacket(r)

Next ==
    \/ \E w \in Writes : AppWrite(w[1], w[2])
    \/ AppClose
    \/ \E n \in ReadSizes : AppRead(n)
    \/ Unpark
    \/ SendHalf
    \/ OtherPacket
    \/ Acking
    \/ Timers
    \/ \E r \in Rooms : ChangeRoom(r)
    \/ \E p \in net : LosePacket(p) \/ ReceivePacket(p)
    \/ \E a \in acks : LoseAck(a)
    \/ RemoveRecvStream
    \/ SendAck

Spec == Init /\ [][Next]_vars

\* The run loops are goroutines that are always scheduled, timers expire, the
\* reader reads, and the network delivers what it does not lose. Sending and the
\* verdicts on what was sent are one loop's passes; reading and receiving are other
\* goroutines, and an endless exchange of timers and probes does not starve them.
Fairness ==
    /\ WF_vars(Unpark \/ SendHalf)
    /\ WF_vars(Acking \/ Timers)
    /\ WF_vars((\E p \in net : ReceivePacket(p)) \/ SendAck)
    /\ WF_vars(\E n \in ReadSizes : AppRead(n))

FairSpec == Spec /\ Fairness
-----------------------------------------------------------------------------
(* Properties *)

\* The two ends of the stream, as their applications see it.
Promise == INSTANCE ReliableStream
    WITH written <- dataInBuffer, closed <- signalEOF, got <- delivered, ended <- eofReached

Chunks == [Offset : Nat, Data : Nat, Len : Nat, Eof : BOOLEAN]
Ranges == [id : Nat, Offset : Nat, Data : Nat, Len : Nat, Eof : BOOLEAN]

\* The types of the sending stream, the reassembly queue, and the connection.
SendTypeOK ==
    /\ dataInBuffer \in Nat /\ offset \in Nat /\ freshId \in Nat
    /\ signalEOF \in BOOLEAN /\ eofSent \in BOOLEAN
    /\ pendingOpen \in BOOLEAN /\ sendTrigger \in BOOLEAN
    /\ sentRanges \subseteq Ranges /\ retransmitQueue \in Seq(Ranges)

QueueTypeOK ==
    /\ queue \subseteq Chunks
    /\ nextOffset \in Nat
    /\ eofReached \in BOOLEAN
    /\ delivered \in [1 .. nextOffset -> Nat]

ConnTypeOK ==
    /\ room \in Rooms
    /\ nextPN \in Nat /\ others \in 0 .. MaxOther
    /\ outstanding \subseteq [pn : Nat, range : Ranges]
    /\ net \subseteq [pn : Nat, chunk : Chunks]
    /\ iter \in {"top", "loss", "pto"} /\ parked \in BOOLEAN /\ removed \in BOOLEAN
    /\ recvEntry \in {"absent", "live", "expiring", "removed", "recreated"}
    /\ losses \in 0 .. MaxLosses /\ reorders \in 0 .. MaxReorders
    /\ spurious \in 0 .. MaxSpurious /\ roomChanges \in 0 .. MaxRoomChanges

TypeOK == SendTypeOK /\ QueueTypeOK /\ ConnTypeOK

\* The reader gets exactly the bytes the application wrote, in order, each once:
\* no split, retransmission or reordering misplaces a byte.
InOrder == \A i \in DOMAIN delivered : delivered[i] = i - 1 /\ i <= dataInBuffer

\* As a step-by-step account of both applications, EOF included: the transfer
\* implements ReliableStream.
Implements == Promise!Spec

\* A reader that sees EOF has been given everything: the end of the stream never
\* comes early, whichever fragment the EOF rides and whatever arrives first.
EofIsLast == eofReached => signalEOF /\ nextOffset = dataInBuffer

\* A byte the sender has stopped tracking is one the receiver really has: ranges
\* are retired by the ACK of a packet that carried them, and splitting a range
\* never retires a byte nobody acknowledged (splitSentRange).
UntrackedHasArrived ==
    \A o \in 0 .. offset - 1 :
        (\A r \in sentRanges : ~ Covers(r, o)) => Arrived(o)

\* A send stream is reaped only when the receiver has every byte and the EOF.
CompletedHasArrived ==
    Completed => EofArrived /\ \A o \in 0 .. dataInBuffer - 1 : Arrived(o)

\* Work is never stranded: a stream with something left to send is on the
\* trigger, parked, or will be put back by the verdict on a packet of its own.
NothingStranded ==
    /\ ~ Completed
    /\ \/ retransmitQueue # <<>>
       \/ offset < dataInBuffer
       \/ signalEOF /\ ~ eofSent
       \/ OpenedHere /\ freshId = 1
    => sendTrigger \/ parked \/ outstanding # {}

\* The sender forgets nothing: neither bytes, nor the EOF, nor a stream that still has
\* something to do, through splits, verdicts, parking and reaping.
NothingForgotten == UntrackedHasArrived /\ CompletedHasArrived /\ NothingStranded

\* Liveness: what is written is read and a closed stream is read to its end,
\* whatever finite amount of loss, reordering, unexpressible ACKs, congestion
\* blocking and MTU change the transfer meets.
FairlyImplements == Promise!FairSpec

\* Liveness: the sender learns it, and the send stream leaves the table.
EventuallyReaped == signalEOF ~> removed
=============================================================================
