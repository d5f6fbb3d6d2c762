----------------------- MODULE StreamTransfer_proofs -----------------------
(***************************************************************************)
(* Proofs about StreamTransfer, for every choice of its constants: however *)
(* large the buffer, the window, the packets and the number of losses,     *)
(* reorderings, timeouts and MTU changes; and about the receiver's         *)
(* PacketNumTracker, for numbers of any size.                              *)
(***************************************************************************)
EXTENDS StreamTransfer, PacketNumTracker, SequenceTheorems, FiniteSetTheorems, WellFoundedInduction, TLAPS

(* The inductive invariant *)

\* A range or chunk stands for the bytes at its own offset, all of them handed
\* over before, and carries the EOF only at the end of a closed stream.
Placed(c) ==
    /\ c.Data = c.Offset
    /\ c.Offset + c.Len <= offset
    /\ c.Eof => eofSent /\ c.Offset + c.Len = dataInBuffer

SenderInv ==
    /\ offset <= dataInBuffer
    /\ eofSent => signalEOF /\ offset = dataInBuffer
    /\ \A r \in sentRanges : Placed(r)
    /\ \A i \in 1 .. Len(retransmitQueue) : Placed(retransmitQueue[i])

PathInv ==
    /\ IsFiniteSet(outstanding)
    /\ \A p \in outstanding : Placed(p.range)
    /\ \A p \in net : Placed(p.chunk)

ReceiverInv ==
    /\ \A c \in queue : Placed(c)
    /\ nextOffset <= offset
    /\ \A i \in 1 .. nextOffset : delivered[i] = i - 1
    /\ eofReached => eofSent /\ nextOffset = dataInBuffer

Inv == TypeOK /\ SenderInv /\ PathInv /\ ReceiverInv

-----------------------------------------------------------------------------
(* Steps *)

LEMMA InitInv == Init => Inv
<1> SUFFICES ASSUME Init PROVE Inv
  OBVIOUS
<1> USE DEF Init
<1>1. SendTypeOK
  <2>1. pendingOpen \in BOOLEAN /\ sendTrigger \in BOOLEAN
    BY SendAssumption DEF SendInit
  <2>2. sentRanges \subseteq Ranges /\ retransmitQueue \in Seq(Ranges)
    BY DEF SendInit
  <2>3. dataInBuffer \in Nat /\ offset \in Nat /\ freshId \in Nat
    BY DEF SendInit
  <2>4. signalEOF \in BOOLEAN /\ eofSent \in BOOLEAN
    BY DEF SendInit
  <2> QED
    BY <2>1, <2>2, <2>3, <2>4 DEF SendTypeOK
<1>2. QueueTypeOK
  <2>1. 1 .. 0 = {}
    OBVIOUS
  <2>2. delivered \in [1 .. nextOffset -> Nat]
    BY <2>1 DEF QueueInit
  <2> QED
    BY <2>2 DEF QueueInit, QueueTypeOK
<1>3. ConnTypeOK
  <2>1. /\ losses \in 0 .. MaxLosses /\ reorders \in 0 .. MaxReorders
        /\ spurious \in 0 .. MaxSpurious /\ roomChanges \in 0 .. MaxRoomChanges
        /\ nextPN \in Nat /\ others \in 0 .. MaxOther /\ room \in Rooms
    BY TransferAssumption
  <2>2. /\ outstanding \subseteq [pn : Nat, range : Ranges]
        /\ net \subseteq [pn : Nat, chunk : Chunks]
        /\ iter \in {"top", "loss", "pto"} /\ parked \in BOOLEAN /\ removed \in BOOLEAN
    OBVIOUS
  <2>3. recvEntry \in {"absent", "live", "expiring", "removed", "recreated"}
    OBVIOUS
  <2> QED
    BY <2>1, <2>2, <2>3 DEF ConnTypeOK
<1>4. SenderInv /\ ReceiverInv
  BY DEF SenderInv, ReceiverInv, SendInit, QueueInit
<1>5. PathInv
  BY FS_EmptySet DEF PathInv
<1> QED
  BY <1>1, <1>2, <1>3, <1>4, <1>5 DEF Inv, TypeOK

-----------------------------------------------------------------------------
(* The data in place: steps that hand over, take back or pass on ranges already
   placed, and leave the application's data and the receiver alone. *)

\* Whatever such a step does to the ranges and packets, it keeps the invariant if
\* all of them are placed.
LEMMA Shuffle ==
  ASSUME Inv, SendTypeOK', ConnTypeOK',
         UNCHANGED <<dataInBuffer, offset, signalEOF, eofSent>>,
         UNCHANGED queueVars,
         \A r \in sentRanges' : Placed(r),
         \A i \in 1 .. Len(retransmitQueue') : Placed(retransmitQueue'[i]),
         IsFiniteSet(outstanding'),
         \A p \in outstanding' : Placed(p.range),
         \A p \in net' : Placed(p.chunk)
  PROVE  Inv'
<1>1. QueueTypeOK'
  BY DEF Inv, TypeOK, QueueTypeOK, queueVars
<1>2. SenderInv'
  BY DEF Inv, SenderInv, Placed
<1>3. PathInv'
  BY DEF PathInv, Placed
<1>4. ReceiverInv'
  BY DEF Inv, ReceiverInv, Placed, queueVars
<1> QED
  BY <1>1, <1>2, <1>3, <1>4 DEF Inv, TypeOK

\* In particular if it adds nothing to them.
LEMMA Steady ==
  ASSUME Inv, ConnTypeOK', sendTrigger' \in BOOLEAN,
         UNCHANGED <<dataInBuffer, offset, signalEOF, eofSent, pendingOpen, freshId>>,
         UNCHANGED <<sentRanges, retransmitQueue, queueVars>>,
         outstanding' \subseteq outstanding, net' \subseteq net
  PROVE  Inv'
<1>1. SendTypeOK'
  BY DEF Inv, TypeOK, SendTypeOK
<1>2. /\ \A r \in sentRanges' : Placed(r)
      /\ \A i \in 1 .. Len(retransmitQueue') : Placed(retransmitQueue'[i])
  BY DEF Inv, SenderInv
<1>3. /\ IsFiniteSet(outstanding')
      /\ \A p \in outstanding' : Placed(p.range)
      /\ \A p \in net' : Placed(p.chunk)
  BY FS_Subset DEF Inv, PathInv
<1> QED
  BY <1>1, <1>2, <1>3, Shuffle

LEMMA StutterInv == Inv /\ UNCHANGED vars => Inv'
<1> SUFFICES ASSUME Inv, UNCHANGED vars PROVE Inv'
  OBVIOUS
<1> USE DEF vars, sendVars, connVars, netVars, recvVars
<1>1. ConnTypeOK'
  BY DEF Inv, TypeOK, ConnTypeOK
<1> QED
  BY <1>1, Steady DEF Inv, TypeOK, SendTypeOK

LEMMA UnparkInv == Inv /\ Unpark => Inv'
<1> SUFFICES ASSUME Inv, Unpark PROVE Inv'
  OBVIOUS
<1>1. ConnTypeOK'
  BY DEF Inv, TypeOK, ConnTypeOK, Unpark, netVars, recvVars
<1> QED
  BY <1>1, Steady DEF Unpark, netVars

LEMMA ReapStreamInv == Inv /\ ReapStream => Inv'
<1> SUFFICES ASSUME Inv, ReapStream PROVE Inv'
  OBVIOUS
<1>1. ConnTypeOK'
  BY DEF Inv, TypeOK, ConnTypeOK, ReapStream, netVars, recvVars
<1> QED
  BY <1>1, Steady DEF ReapStream, netVars

LEMMA ParkStreamInv == Inv /\ ParkStream => Inv'
<1> SUFFICES ASSUME Inv, ParkStream PROVE Inv'
  OBVIOUS
<1>1. ConnTypeOK'
  BY DEF Inv, TypeOK, ConnTypeOK, ParkStream, netVars, recvVars
<1> QED
  BY <1>1, Steady DEF ParkStream, netVars

LEMMA SendNothingInv == Inv /\ SendNothing => Inv'
<1> SUFFICES ASSUME Inv, SendNothing PROVE Inv'
  OBVIOUS
<1>1. ConnTypeOK'
  BY DEF Inv, TypeOK, ConnTypeOK, SendNothing, netVars, recvVars
<1>2. /\ UNCHANGED <<dataInBuffer, offset, signalEOF, eofSent, pendingOpen, freshId>>
      /\ UNCHANGED <<sentRanges, retransmitQueue>>
      /\ sendTrigger' \in BOOLEAN
  BY DEF SendNothing, NothingToSend, sendVars, Inv, TypeOK, SendTypeOK
<1> QED
  BY <1>1, <1>2, Steady DEF SendNothing, netVars

LEMMA OtherPacketInv == Inv /\ OtherPacket => Inv'
<1> SUFFICES ASSUME Inv, OtherPacket PROVE Inv'
  OBVIOUS
<1>1. ConnTypeOK'
  BY TransferAssumption DEF Inv, TypeOK, ConnTypeOK, OtherPacket, netVars, recvVars
<1> QED
  BY <1>1, Steady DEF OtherPacket, netVars, sendVars, Inv, TypeOK, SendTypeOK

LEMMA ChangeRoomInv == ASSUME NEW r \in Rooms PROVE Inv /\ ChangeRoom(r) => Inv'
<1> SUFFICES ASSUME Inv, ChangeRoom(r) PROVE Inv'
  OBVIOUS
<1>1. ConnTypeOK'
  <2>1. roomChanges \in Nat /\ MaxRoomChanges \in Nat
    BY TransferAssumption DEF Inv, TypeOK, ConnTypeOK
  <2>2. roomChanges' \in 0 .. MaxRoomChanges
    BY <2>1 DEF ChangeRoom, ChangesMet
  <2> QED BY <2>2, TransferAssumption DEF Inv, TypeOK, ConnTypeOK, ChangeRoom, netVars, recvVars
<1> QED
  BY <1>1, Steady DEF ChangeRoom, netVars, sendVars, Inv, TypeOK, SendTypeOK

LEMMA StaleACKInv == ASSUME NEW a PROVE Inv /\ StaleACK(a) => Inv'
<1> SUFFICES ASSUME Inv, StaleACK(a) PROVE Inv'
  OBVIOUS
<1>1. ConnTypeOK'
  BY DEF Inv, TypeOK, ConnTypeOK, StaleACK, connVars, recvVars
<1> QED
  BY <1>1, Steady DEF StaleACK, connVars, sendVars, Inv, TypeOK, SendTypeOK

LEMMA LosePacketInv == ASSUME NEW p PROVE Inv /\ LosePacket(p) => Inv'
<1> SUFFICES ASSUME Inv, LosePacket(p) PROVE Inv'
  OBVIOUS
<1>1. ConnTypeOK'
  BY TransferAssumption DEF Inv, TypeOK, ConnTypeOK, LosePacket, connVars, recvVars
<1> QED
  BY <1>1, Steady DEF LosePacket, connVars, sendVars, Inv, TypeOK, SendTypeOK

LEMMA LoseAckInv == ASSUME NEW a PROVE Inv /\ LoseAck(a) => Inv'
<1> SUFFICES ASSUME Inv, LoseAck(a) PROVE Inv'
  OBVIOUS
<1>1. ConnTypeOK'
  BY TransferAssumption DEF Inv, TypeOK, ConnTypeOK, LoseAck, connVars, recvVars
<1> QED
  BY <1>1, Steady DEF LoseAck, connVars, sendVars, Inv, TypeOK, SendTypeOK

LEMMA RemoveRecvStreamInv == Inv /\ RemoveRecvStream => Inv'
<1> SUFFICES ASSUME Inv, RemoveRecvStream PROVE Inv'
  OBVIOUS
<1>1. ConnTypeOK'
  BY DEF Inv, TypeOK, ConnTypeOK, RemoveRecvStream, connVars, netVars
<1> QED
  BY <1>1, Steady DEF RemoveRecvStream, connVars, netVars, sendVars, Inv, TypeOK, SendTypeOK

LEMMA SendAckInv == Inv /\ SendAck => Inv'
<1> SUFFICES ASSUME Inv, SendAck PROVE Inv'
  OBVIOUS
<1>1. /\ UNCHANGED <<sendVars, queueVars, connVars>>
      /\ UNCHANGED <<net, losses, reorders, spurious, recvEntry>>
  BY DEF SendAck
<1>2. ConnTypeOK'
  BY <1>1 DEF Inv, TypeOK, ConnTypeOK, connVars
<1> QED
  BY <1>1, <1>2, Steady DEF connVars, sendVars, Inv, TypeOK, SendTypeOK

-----------------------------------------------------------------------------
(* The writer.  An EOF is handed over only after the close, so no range or chunk
   carries one while the application can still write. *)

LEMMA AppWriteInv ==
  ASSUME NEW n \in Nat, NEW eof \in BOOLEAN PROVE Inv /\ AppWrite(n, eof) => Inv'
<1> SUFFICES ASSUME Inv, AppWrite(n, eof) PROVE Inv'
  OBVIOUS
<1> USE DEF AppWrite, AppendData, connVars, netVars, recvVars, queueVars
<1>1. SendTypeOK' /\ QueueTypeOK' /\ ConnTypeOK'
  BY DEF Inv, TypeOK, SendTypeOK, QueueTypeOK, ConnTypeOK
<1>2. ASSUME NEW c, Placed(c) PROVE Placed(c)'
  BY <1>2 DEF Placed, Inv, TypeOK, SendTypeOK, SenderInv
<1>3. SenderInv'
  BY <1>2 DEF Inv, TypeOK, SendTypeOK, SenderInv
<1>4. PathInv'
  BY <1>2 DEF Inv, PathInv
<1>5. ReceiverInv'
  BY <1>2 DEF Inv, ReceiverInv, SenderInv
<1> QED
  BY <1>1, <1>3, <1>4, <1>5 DEF Inv, TypeOK

LEMMA AppCloseInv == Inv /\ AppClose => Inv'
<1> SUFFICES ASSUME Inv, AppClose PROVE Inv'
  OBVIOUS
<1> USE DEF AppClose, Close, connVars, netVars, recvVars, queueVars
<1>1. SendTypeOK' /\ QueueTypeOK' /\ ConnTypeOK'
  BY DEF Inv, TypeOK, SendTypeOK, QueueTypeOK, ConnTypeOK
<1>2. ASSUME NEW c, Placed(c) PROVE Placed(c)'
  BY <1>2 DEF Placed
<1>3. SenderInv'
  BY <1>2 DEF Inv, SenderInv
<1>4. PathInv'
  BY <1>2 DEF Inv, PathInv
<1>5. ReceiverInv'
  BY <1>2 DEF Inv, ReceiverInv
<1> QED
  BY <1>1, <1>3, <1>4, <1>5 DEF Inv, TypeOK

-----------------------------------------------------------------------------
(* The loss detector *)

\* The ranges of finitely many packets are finitely many.
LEMMA RangesOfFinite ==
  ASSUME NEW S, IsFiniteSet(S) PROVE IsFiniteSet({p.range : p \in S})
<1> DEFINE T == {p.range : p \in S}
           f == [p \in S |-> p.range]
<1>1. f \in Surjection(S, T)
  BY DEF Surjection
<1> QED
  BY <1>1, FS_Surjection

\* A verdict on outstanding packets queues placed ranges only.
LEMMA VerdictFacts ==
  ASSUME Inv, NEW acked, NEW lost \in SUBSET outstanding, Verdict(acked, lost)
  PROVE  /\ SendTypeOK'
         /\ UNCHANGED <<dataInBuffer, offset, signalEOF, eofSent>>
         /\ \A r \in sentRanges' : Placed(r)
         /\ \A i \in 1 .. Len(retransmitQueue') : Placed(retransmitQueue'[i])
<1> DEFINE new == {p.range : p \in lost} \ ToSet(retransmitQueue)
<1>1. /\ UNCHANGED <<dataInBuffer, offset, signalEOF, eofSent, pendingOpen, freshId>>
      /\ sentRanges' = sentRanges \ acked
      /\ sendTrigger' = (sendTrigger \/ Triggers(acked, lost))
      /\ \E order \in [1 .. Cardinality(new) -> new] :
            retransmitQueue' = retransmitQueue \o order
  BY DEF Verdict
<1>2. Cardinality(new) \in Nat
  <2>1. IsFiniteSet(lost)
    BY FS_Subset DEF Inv, PathInv
  <2>2. IsFiniteSet({p.range : p \in lost})
    BY <2>1, RangesOfFinite
  <2>3. IsFiniteSet(new)
    BY <2>2, FS_Subset
  <2> QED
    BY <2>3, FS_CardinalityType
<1>3. \A r \in new : r \in Ranges /\ Placed(r)
  BY DEF Inv, TypeOK, ConnTypeOK, PathInv
<1>4. PICK order \in [1 .. Cardinality(new) -> new] :
         retransmitQueue' = retransmitQueue \o order
  BY <1>1
<1> HIDE DEF new
<1>5. order \in Seq(Ranges) /\ Len(order) = Cardinality(new)
  BY <1>2, <1>3, <1>4
<1>6. retransmitQueue \in Seq(Ranges)
  BY DEF Inv, TypeOK, SendTypeOK
<1>7. retransmitQueue' \in Seq(Ranges)
  BY <1>4, <1>5, <1>6
<1>8. \A i \in 1 .. Len(retransmitQueue') : Placed(retransmitQueue'[i])
  <2> SUFFICES ASSUME NEW i \in 1 .. Len(retransmitQueue')
               PROVE  Placed(retransmitQueue'[i])
    OBVIOUS
  <2>1. CASE i <= Len(retransmitQueue)
    <3>1. retransmitQueue'[i] = retransmitQueue[i]
      BY <2>1, <1>4, <1>5, <1>6
    <3> QED
      BY <2>1, <3>1, <1>6 DEF Inv, SenderInv
  <2>2. CASE i > Len(retransmitQueue)
    <3>1. /\ retransmitQueue'[i] = order[i - Len(retransmitQueue)]
          /\ i - Len(retransmitQueue) \in 1 .. Cardinality(new)
      BY <2>2, <1>2, <1>4, <1>5, <1>6
    <3> QED
      BY <3>1, <1>3, <1>4
  <2> QED
    BY <2>1, <2>2, <1>6
<1>9. SendTypeOK'
  <2>1. sendTrigger' \in BOOLEAN
    BY <1>1
  <2> QED
    BY <2>1, <1>1, <1>7 DEF Inv, TypeOK, SendTypeOK
<1> QED
  BY <1>1, <1>8, <1>9 DEF Inv, SenderInv

LEMMA ReceiveACKInv ==
  ASSUME NEW a, NEW cut PROVE Inv /\ ReceiveACK(a, cut) => Inv'
<1> SUFFICES ASSUME Inv, ReceiveACK(a, cut) PROVE Inv'
  OBVIOUS
<1>1. PICK acked \in SUBSET outstanding, lost \in SUBSET outstanding :
         outstanding' \subseteq outstanding /\ Verdict({p.range : p \in acked}, lost)
  <2> DEFINE acked == {p \in outstanding : p.pn \in a}
             top == CHOOSE n \in a : \A m \in a : m <= n
             largest == IF top > largestAcked THEN top ELSE largestAcked
             lost == LostUpTo(outstanding \ acked, largest, cut)
  <2>1. /\ outstanding' = (outstanding \ acked) \ lost
        /\ Verdict({p.range : p \in acked}, lost)
    BY DEF ReceiveACK
  <2>2. acked \in SUBSET outstanding /\ lost \in SUBSET outstanding
    BY DEF LostUpTo
  <2> QED
    BY <2>1, <2>2
<1>2. /\ UNCHANGED <<room, roomChanges, nextPN, others, iter, parked, removed>>
      /\ UNCHANGED <<net, losses, reorders, spurious, queueVars, recvEntry>>
  BY DEF ReceiveACK, recvVars
<1>3. ConnTypeOK'
  BY <1>1, <1>2 DEF Inv, TypeOK, ConnTypeOK
<1>4. /\ IsFiniteSet(outstanding')
      /\ \A p \in outstanding' : Placed(p.range)
      /\ \A p \in net' : Placed(p.chunk)
  BY <1>1, <1>2, FS_Subset DEF Inv, PathInv
<1> QED
  BY <1>1, <1>2, <1>3, <1>4, VerdictFacts, Shuffle

LEMMA LossTimerInv == ASSUME NEW cut PROVE Inv /\ LossTimer(cut) => Inv'
<1> SUFFICES ASSUME Inv, LossTimer(cut) PROVE Inv'
  OBVIOUS
<1>1. PICK lost \in SUBSET outstanding :
         outstanding' = outstanding \ lost /\ Verdict({}, lost)
  BY DEF LossTimer, LostUpTo
<1>2. /\ iter' = "loss"
      /\ UNCHANGED <<room, roomChanges, nextPN, others, parked, removed>>
      /\ UNCHANGED <<net, losses, reorders, spurious, queueVars, recvEntry>>
  BY DEF LossTimer, recvVars, netVars
<1>3. ConnTypeOK'
  BY <1>1, <1>2 DEF Inv, TypeOK, ConnTypeOK
<1>4. /\ IsFiniteSet(outstanding')
      /\ \A p \in outstanding' : Placed(p.range)
      /\ \A p \in net' : Placed(p.chunk)
  BY <1>1, <1>2, FS_Subset DEF Inv, PathInv
<1> QED
  BY <1>1, <1>2, <1>3, <1>4, VerdictFacts, Shuffle

LEMMA PTOInv == Inv /\ PTO => Inv'
<1> SUFFICES ASSUME Inv, PTO PROVE Inv'
  OBVIOUS
<1>1. PICK p \in outstanding : Verdict({}, {p})
  BY DEF PTO
<1>2. /\ iter' = "pto"
      /\ UNCHANGED <<room, roomChanges, outstanding, nextPN, others, parked, removed>>
      /\ UNCHANGED <<net, losses, reorders, queueVars, recvEntry>>
  BY DEF PTO, recvVars
<1>3. spurious' \in 0 .. MaxSpurious
  BY TransferAssumption DEF PTO, Inv, TypeOK, ConnTypeOK
<1>4. ConnTypeOK'
  BY <1>2, <1>3 DEF Inv, TypeOK, ConnTypeOK
<1>5. /\ IsFiniteSet(outstanding')
      /\ \A q \in outstanding' : Placed(q.range)
      /\ \A q \in net' : Placed(q.chunk)
  BY <1>2 DEF Inv, PathInv
<1> QED
  BY <1>1, <1>2, <1>4, <1>5, VerdictFacts, Shuffle

-----------------------------------------------------------------------------
(* triggerPacket *)

LEMMA RoomType == Inv => room \in Nat /\ room > 0
<1>1. Inv => room \in Rooms
  BY DEF Inv, TypeOK, ConnTypeOK
<1>2. \A n \in Rooms : n \in Nat /\ n # 0
  BY TransferAssumption
<1>3. \A n \in Nat : n # 0 => n > 0
  OBVIOUS
<1> QED
  BY <1>1, <1>2, <1>3

\* Ends of a queue of ranges.
LEMMA QueueEnds ==
  ASSUME NEW q \in Seq(Ranges), q # <<>>, NEW t \in Ranges
  PROVE  /\ Head(q) \in Ranges /\ 1 \in 1 .. Len(q) /\ Head(q) = q[1]
         /\ Tail(q) \in Seq(Ranges)
         /\ \A i \in 1 .. Len(Tail(q)) : i + 1 \in 1 .. Len(q) /\ Tail(q)[i] = q[i + 1]
         /\ Append(Tail(q), t) \in Seq(Ranges)
         /\ Len(Append(Tail(q), t)) = Len(Tail(q)) + 1
         /\ \A i \in 1 .. Len(Tail(q)) : Append(Tail(q), t)[i] = Tail(q)[i]
         /\ Append(Tail(q), t)[Len(Tail(q)) + 1] = t
  OBVIOUS

LEMMA RetransmitFacts ==
  ASSUME Inv, NEW r, Retransmit(room, r)
  PROVE  /\ SendTypeOK' /\ r \in Ranges /\ Placed(r)
         /\ UNCHANGED <<dataInBuffer, offset, signalEOF, eofSent>>
         /\ \A q \in sentRanges' : Placed(q)
         /\ \A i \in 1 .. Len(retransmitQueue') : Placed(retransmitQueue'[i])
<1> DEFINE q == retransmitQueue
<1>1. q \in Seq(Ranges) /\ q # <<>> /\ r = Head(q) /\ retransmitQueue' = Tail(q)
  BY DEF Retransmit, Inv, TypeOK, SendTypeOK
<1>2. \A i \in 1 .. Len(q) : Placed(q[i])
  BY DEF Inv, SenderInv
<1> HIDE DEF q
<1>3. /\ r \in Ranges /\ Placed(r) /\ retransmitQueue' \in Seq(Ranges)
      /\ \A i \in 1 .. Len(retransmitQueue') : Placed(retransmitQueue'[i])
  BY <1>1, <1>2, QueueEnds
<1>4. sendTrigger' \in BOOLEAN
  BY DEF Retransmit, MoreToSend
<1>5. UNCHANGED <<dataInBuffer, offset, signalEOF, eofSent, pendingOpen, sentRanges, freshId>>
  BY DEF Retransmit
<1> QED
  BY <1>3, <1>4, <1>5 DEF Inv, TypeOK, SendTypeOK, SenderInv

\* Both fragments of a placed range are placed, and the EOF stays with the tail.
LEMMA SplitFacts ==
  ASSUME Inv, NEW src \in Ranges, Placed(src), src.Len > room
  PROVE  /\ SplitHead(src, room) \in Ranges /\ Placed(SplitHead(src, room))
         /\ SplitTail(src, room) \in Ranges /\ Placed(SplitTail(src, room))
  BY RoomType DEF SplitHead, SplitTail, NewRange, Ranges, Placed, Inv, TypeOK, SendTypeOK

LEMMA SplitRetransmitFacts ==
  ASSUME Inv, NEW r, SplitRetransmit(room, r)
  PROVE  /\ SendTypeOK' /\ r \in Ranges /\ Placed(r)
         /\ UNCHANGED <<dataInBuffer, offset, signalEOF, eofSent>>
         /\ \A q \in sentRanges' : Placed(q)
         /\ \A i \in 1 .. Len(retransmitQueue') : Placed(retransmitQueue'[i])
<1> DEFINE q == retransmitQueue
           src == Head(q)
           tail == SplitTail(src, room)
<1>1. /\ q \in Seq(Ranges) /\ q # <<>> /\ src.Len > room
      /\ r = SplitHead(src, room)
      /\ retransmitQueue' = Append(Tail(q), tail)
      /\ sentRanges' = (sentRanges \ {src}) \cup {r, tail}
  BY DEF SplitRetransmit, Inv, TypeOK, SendTypeOK
<1>2. \A i \in 1 .. Len(q) : Placed(q[i])
  BY DEF Inv, SenderInv
<1> HIDE DEF q
<1>3. src \in Ranges /\ Placed(src)
  <2>1. Head(q) \in Ranges /\ 1 \in 1 .. Len(q) /\ Head(q) = q[1]
    BY <1>1
  <2> QED
    BY <2>1, <1>2
<1> HIDE DEF src
<1>4. r \in Ranges /\ Placed(r) /\ tail \in Ranges /\ Placed(tail)
  BY <1>1, <1>3, SplitFacts
<1> HIDE DEF tail
<1>5. /\ retransmitQueue' \in Seq(Ranges)
      /\ \A i \in 1 .. Len(retransmitQueue') : Placed(retransmitQueue'[i])
  BY <1>1, <1>2, <1>4, QueueEnds
<1>6. sendTrigger' \in BOOLEAN
  BY DEF SplitRetransmit, MoreToSend
<1>7. /\ UNCHANGED <<dataInBuffer, offset, signalEOF, eofSent, pendingOpen>>
      /\ freshId' = freshId + 2
  BY DEF SplitRetransmit
<1>8. sentRanges' \subseteq Ranges /\ \A p \in sentRanges' : Placed(p)
  BY <1>1, <1>4 DEF Inv, TypeOK, SendTypeOK, SenderInv
<1> QED
  BY <1>4, <1>5, <1>6, <1>7, <1>8 DEF Inv, TypeOK, SendTypeOK

\* A packet of ranges already handed over leaves the data where it was.
LEMMA SendAgainInv ==
  ASSUME Inv, NEW r, SendPacket(r), Retransmit(room, r) \/ SplitRetransmit(room, r)
  PROVE  Inv'
<1>1. /\ SendTypeOK' /\ r \in Ranges /\ Placed(r)
      /\ UNCHANGED <<dataInBuffer, offset, signalEOF, eofSent>>
      /\ \A q \in sentRanges' : Placed(q)
      /\ \A i \in 1 .. Len(retransmitQueue') : Placed(retransmitQueue'[i])
  BY RetransmitFacts, SplitRetransmitFacts
<1>2. /\ outstanding' = outstanding \cup {[pn |-> nextPN, range |-> r]}
      /\ net' = net \cup {[pn |-> nextPN, chunk |-> Chunk(r)]}
      /\ nextPN' = nextPN + 1 /\ iter' = "top"
      /\ UNCHANGED <<room, roomChanges, others, parked, removed>>
      /\ UNCHANGED <<losses, reorders, spurious, queueVars, recvEntry>>
  BY DEF SendPacket, recvVars
<1>3. Chunk(r) \in Chunks /\ Placed(Chunk(r))
  BY <1>1 DEF Chunk, Chunks, Ranges, Placed
<1>4. ConnTypeOK'
  BY <1>1, <1>2, <1>3 DEF Inv, TypeOK, ConnTypeOK
<1>5. /\ IsFiniteSet(outstanding')
      /\ \A p \in outstanding' : Placed(p.range)
      /\ \A p \in net' : Placed(p.chunk)
  <2>1. IsFiniteSet(outstanding')
    BY <1>2, FS_AddElement DEF Inv, PathInv
  <2>2. \A p \in outstanding' : Placed(p.range)
    BY <1>1, <1>2 DEF Inv, PathInv
  <2>3. \A p \in net' : Placed(p.chunk)
    BY <1>2, <1>3 DEF Inv, PathInv
  <2> QED
    BY <2>1, <2>2, <2>3
<1> QED
  BY <1>1, <1>2, <1>4, <1>5, Shuffle

\* A packet of new data: everything placed before stays placed, because the data
\* handed over only grows and no EOF was out; the new range is placed at its end.
LEMMA SendNewInv ==
  ASSUME Inv, NEW r, SendPacket(r), SendNew(room, r)
  PROVE  Inv'
<1>1. /\ r = NewRange(freshId, offset, offset, ChunkLen(room), ChunkEof(room))
      /\ offset' = offset + r.Len
      /\ eofSent' = r.Eof /\ ~ eofSent
      /\ sentRanges' = sentRanges \cup {r}
      /\ freshId' = freshId + 1
      /\ UNCHANGED <<dataInBuffer, signalEOF, retransmitQueue>>
  BY DEF SendNew
<1>2. dataInBuffer \in Nat /\ offset \in Nat /\ freshId \in Nat /\ offset <= dataInBuffer
  BY DEF Inv, TypeOK, SendTypeOK, SenderInv
<1>3. /\ ChunkLen(room) \in Nat /\ offset + ChunkLen(room) <= dataInBuffer
      /\ ChunkEof(room) \in BOOLEAN
      /\ ChunkEof(room) => signalEOF /\ offset + ChunkLen(room) = dataInBuffer
  BY <1>2, RoomType DEF ChunkLen, ChunkEof
<1>4. r \in Ranges /\ r.Len = ChunkLen(room) /\ r.Eof = ChunkEof(room)
  BY <1>1, <1>2, <1>3 DEF NewRange, Ranges
<1>5. Placed(r)'
  BY <1>1, <1>2, <1>3 DEF NewRange, Placed
<1>6. ASSUME NEW c, Placed(c), c \in Ranges \/ c \in Chunks PROVE Placed(c)'
  BY <1>6, <1>1, <1>2, <1>3, <1>4 DEF Placed, Ranges, Chunks
<1>7. /\ outstanding' = outstanding \cup {[pn |-> nextPN, range |-> r]}
      /\ net' = net \cup {[pn |-> nextPN, chunk |-> Chunk(r)]}
      /\ nextPN' = nextPN + 1 /\ iter' = "top"
      /\ UNCHANGED <<room, roomChanges, others, parked, removed>>
      /\ UNCHANGED <<losses, reorders, spurious, queueVars, recvEntry>>
  BY DEF SendPacket, recvVars
<1>8. Chunk(r) \in Chunks /\ Placed(Chunk(r))'
  BY <1>4, <1>5 DEF Chunk, Chunks, Ranges, Placed
<1>9. SendTypeOK'
  <2>1. pendingOpen' \in BOOLEAN /\ sendTrigger' \in BOOLEAN
    BY DEF SendNew, MoreToSend
  <2>2. /\ dataInBuffer' \in Nat /\ offset' \in Nat /\ freshId' \in Nat
        /\ sentRanges' \subseteq Ranges /\ retransmitQueue' \in Seq(Ranges)
    BY <1>1, <1>2, <1>3, <1>4 DEF Inv, TypeOK, SendTypeOK
  <2>3. signalEOF' \in BOOLEAN /\ eofSent' \in BOOLEAN
    BY <1>1, <1>3, <1>4 DEF Inv, TypeOK, SendTypeOK
  <2> QED
    BY <2>1, <2>2, <2>3 DEF SendTypeOK
<1>10. QueueTypeOK' /\ ConnTypeOK'
  <2>1. QueueTypeOK'
    BY <1>7 DEF Inv, TypeOK, QueueTypeOK, queueVars
  <2>2. ConnTypeOK'
    BY <1>4, <1>7, <1>8 DEF Inv, TypeOK, ConnTypeOK
  <2> QED
    BY <2>1, <2>2
<1>11. SenderInv'
  <2>1. offset' <= dataInBuffer' /\ (eofSent' => signalEOF' /\ offset' = dataInBuffer')
    BY <1>1, <1>2, <1>3, <1>4
  <2>2. \A p \in sentRanges' : Placed(p)'
    BY <1>1, <1>5, <1>6 DEF Inv, TypeOK, SendTypeOK, SenderInv
  <2>3. \A i \in 1 .. Len(retransmitQueue') : Placed(retransmitQueue[i])'
    <3> SUFFICES ASSUME NEW i \in 1 .. Len(retransmitQueue)
                 PROVE  Placed(retransmitQueue[i])'
      BY <1>1
    <3>1. retransmitQueue[i] \in Ranges /\ Placed(retransmitQueue[i])
      BY DEF Inv, TypeOK, SendTypeOK, SenderInv
    <3>2. retransmitQueue'[i] = retransmitQueue[i]
      BY <1>1
    <3> QED
      BY <3>1, <3>2, <1>1, <1>2, <1>3, <1>4 DEF Placed, Ranges
  <2> QED
    BY <2>1, <2>2, <2>3 DEF SenderInv
<1>12. PathInv'
  <2>1. IsFiniteSet(outstanding')
    BY <1>7, FS_AddElement DEF Inv, PathInv
  <2>2. ASSUME NEW p \in outstanding' PROVE Placed(p.range)'
    BY <2>2, <1>5, <1>6, <1>7 DEF Inv, PathInv, TypeOK, ConnTypeOK
  <2>3. ASSUME NEW p \in net' PROVE Placed(p.chunk)'
    BY <2>3, <1>6, <1>7, <1>8 DEF Inv, PathInv, TypeOK, ConnTypeOK
  <2> QED
    BY <2>1, <2>2, <2>3 DEF PathInv
<1>13. ReceiverInv'
  <2>1. \A c \in queue' : Placed(c)'
    BY <1>6, <1>7 DEF Inv, TypeOK, QueueTypeOK, ReceiverInv, queueVars
  <2>2. nextOffset' <= offset'
    BY <1>1, <1>2, <1>3, <1>4, <1>7 DEF Inv, TypeOK, QueueTypeOK, ReceiverInv, queueVars
  <2> QED
    BY <2>1, <2>2, <1>1, <1>7 DEF Inv, ReceiverInv, queueVars
<1> QED
  BY <1>9, <1>10, <1>11, <1>12, <1>13 DEF Inv, TypeOK

LEMMA SendPacketInv == ASSUME NEW r PROVE Inv /\ SendPacket(r) => Inv'
  BY SendAgainInv, SendNewInv DEF SendPacket, TriggerPacket

-----------------------------------------------------------------------------
(* The receiver *)

LEMMA ReceivePacketInv == ASSUME NEW p \in net PROVE Inv /\ ReceivePacket(p) => Inv'
<1> SUFFICES ASSUME Inv, ReceivePacket(p) PROVE Inv'
  OBVIOUS
<1>1. /\ net' = net \ {p} /\ UNCHANGED <<acks, losses, spurious, sendVars, connVars>>
      /\ UNCHANGED <<nextOffset, eofReached, delivered>>
      /\ queue' \subseteq queue \cup {p.chunk}
  BY DEF ReceivePacket, ProcessChunk, queueVars
<1>2. recvEntry' \in {"absent", "live", "expiring", "removed", "recreated"}
  BY DEF ReceivePacket
<1>3. reorders' \in 0 .. MaxReorders
  BY TransferAssumption DEF ReceivePacket, Inv, TypeOK, ConnTypeOK
<1>4. TypeOK'
  BY <1>1, <1>2, <1>3
  DEF Inv, TypeOK, SendTypeOK, QueueTypeOK, ConnTypeOK, sendVars, connVars
<1>5. SenderInv'
  BY <1>1 DEF Inv, SenderInv, Placed, sendVars
<1>6. PathInv'
  BY <1>1 DEF Inv, PathInv, Placed, sendVars, connVars
<1>7. ReceiverInv'
  BY <1>1 DEF Inv, ReceiverInv, PathInv, Placed, sendVars
<1> QED
  BY <1>4, <1>5, <1>6, <1>7 DEF Inv

\* The byte read at an offset some chunk covers is the byte of that offset.
LEMMA ByteAtOffset ==
  ASSUME Inv, NEW o \in Nat, \E c \in queue : Covers(c, o)
  PROVE  ByteAt(o) = o
<1> DEFINE d == CHOOSE c \in queue : Covers(c, o)
<1>1. d \in queue
  OBVIOUS
<1>2. d.Data = d.Offset /\ d.Offset \in Nat
  BY <1>1 DEF Inv, TypeOK, QueueTypeOK, Chunks, ReceiverInv, Placed
<1>3. ByteAt(o) = d.Data + (o - d.Offset)
  BY DEF ByteAt
<1> HIDE DEF d
<1> QED
  BY <1>2, <1>3

\* A chunk read in part leaves its rest in place.
LEMMA TrimmedFacts ==
  ASSUME Inv, NEW c \in queue, NEW end \in Nat, c.Offset < end, end < End(c)
  PROVE  Trimmed(c, end) \in Chunks /\ Placed(Trimmed(c, end))
<1>1. c \in Chunks /\ Placed(c)
  BY DEF Inv, TypeOK, QueueTypeOK, ReceiverInv
<1>2. offset \in Nat /\ dataInBuffer \in Nat
  BY DEF Inv, TypeOK, SendTypeOK
<1>3. /\ c.Data + (end - c.Offset) = end
      /\ End(c) - end \in Nat /\ end + (End(c) - end) = c.Offset + c.Len
  BY <1>1 DEF End, Chunks, Placed
<1> QED
  BY <1>1, <1>2, <1>3 DEF Trimmed, Chunks, Placed

LEMMA AppReadInv == ASSUME NEW n \in Nat PROVE Inv /\ AppRead(n) => Inv'
<1> SUFFICES ASSUME Inv, AppRead(n) PROVE Inv'
  OBVIOUS
<1>1. UNCHANGED <<sendVars, connVars, netVars, recvVars>>
  BY DEF AppRead
<1>2. PICK end \in nextOffset .. nextOffset + n :
         LET partial == {c \in queue : c.Offset < end /\ end < End(c)}
         IN /\ IsReadEnd(end, n)
            /\ queue' = (queue \ (Consumed(end, n) \cup partial))
                          \cup {Trimmed(c, end) : c \in partial}
            /\ nextOffset' = end
            /\ eofReached' = \E c \in Consumed(end, n) :
                                /\ c.Eof
                                /\ \A d \in Consumed(end, n) : d.Offset <= c.Offset
            /\ delivered' = [i \in 1 .. end |-> IF i <= nextOffset
                                                THEN delivered[i]
                                                ELSE ByteAt(i - 1)]
  BY DEF AppRead, ReadDirect
<1>3. /\ nextOffset \in Nat /\ end \in Nat /\ nextOffset <= end
      /\ offset \in Nat /\ dataInBuffer \in Nat /\ offset <= dataInBuffer
  BY <1>2 DEF Inv, TypeOK, SendTypeOK, QueueTypeOK, SenderInv
<1>4. \A o \in nextOffset .. end - 1 : \E c \in queue : Covers(c, o)
  BY <1>2 DEF IsReadEnd
<1>5. end <= offset
  <2>1. CASE end = nextOffset
    BY <2>1 DEF Inv, ReceiverInv
  <2>2. CASE end > nextOffset
    <3>1. PICK c \in queue : Covers(c, end - 1)
      BY <2>2, <1>3, <1>4
    <3>2. c \in Chunks /\ Placed(c)
      BY DEF Inv, TypeOK, QueueTypeOK, ReceiverInv
    <3> QED
      BY <3>1, <3>2, <1>3 DEF Covers, End, Placed, Chunks
  <2> QED
    BY <2>1, <2>2, <1>3
<1>6. \A i \in 1 .. end : delivered'[i] = i - 1
  <2> SUFFICES ASSUME NEW i \in 1 .. end PROVE delivered'[i] = i - 1
    OBVIOUS
  <2>1. CASE i <= nextOffset
    BY <2>1, <1>2, <1>3 DEF Inv, ReceiverInv
  <2>2. CASE i > nextOffset
    <3>1. i - 1 \in nextOffset .. end - 1 /\ i - 1 \in Nat
      BY <2>2, <1>3
    <3>2. ByteAt(i - 1) = i - 1
      BY <3>1, <1>4, ByteAtOffset
    <3> QED
      BY <2>2, <3>2, <1>2, <1>3
  <2> QED
    BY <2>1, <2>2, <1>3
<1>7. \A c \in queue' : c \in Chunks /\ Placed(c)
  <2> SUFFICES ASSUME NEW c \in queue' PROVE c \in Chunks /\ Placed(c)
    OBVIOUS
  <2>1. CASE c \in queue
    BY <2>1 DEF Inv, TypeOK, QueueTypeOK, ReceiverInv
  <2>2. CASE c \notin queue
    <3>1. PICK d \in queue : d.Offset < end /\ end < End(d) /\ c = Trimmed(d, end)
      BY <2>2, <1>2
    <3> QED
      BY <3>1, <1>3, TrimmedFacts
  <2> QED
    BY <2>1, <2>2
<1>8. eofReached' \in BOOLEAN /\ (eofReached' => eofSent /\ end = dataInBuffer)
  <2>1. eofReached' \in BOOLEAN
    BY <1>2
  <2>2. ASSUME eofReached' PROVE eofSent /\ end = dataInBuffer
    <3>1. PICK c \in Consumed(end, n) : c.Eof
      BY <2>2, <1>2
    <3>2. c \in Chunks /\ Placed(c) /\ End(c) <= end
      BY DEF Consumed, Inv, TypeOK, QueueTypeOK, ReceiverInv
    <3> QED
      BY <3>1, <3>2, <1>3, <1>5 DEF Placed, End, Chunks
  <2> QED
    BY <2>1, <2>2
<1>9. TypeOK'
  <2>1. SendTypeOK' /\ ConnTypeOK'
    BY <1>1 DEF Inv, TypeOK, SendTypeOK, ConnTypeOK, sendVars, connVars, netVars, recvVars
  <2>2. delivered' \in [1 .. nextOffset' -> Nat]
    <3>1. \A i \in 1 .. end : delivered'[i] \in Nat
      BY <1>3, <1>6
    <3> QED
      BY <3>1, <1>2
  <2>3. QueueTypeOK'
    BY <2>2, <1>2, <1>3, <1>7, <1>8 DEF QueueTypeOK
  <2> QED
    BY <2>1, <2>3 DEF TypeOK
<1>10. SenderInv' /\ PathInv'
  BY <1>1 DEF Inv, SenderInv, PathInv, Placed, sendVars, connVars, netVars
<1>11. ReceiverInv'
  <2>1. offset' = offset /\ eofSent' = eofSent /\ dataInBuffer' = dataInBuffer
    BY <1>1 DEF sendVars
  <2>2. nextOffset' = end
    BY <1>2
  <2>3. \A c \in queue' : Placed(c)'
    BY <2>1, <1>7 DEF Placed
  <2>4. \A i \in 1 .. nextOffset' : delivered'[i] = i - 1
    BY <2>2, <1>6
  <2> QED
    BY <2>1, <2>2, <2>3, <2>4, <1>5, <1>8 DEF ReceiverInv
<1> QED
  BY <1>9, <1>10, <1>11 DEF Inv

-----------------------------------------------------------------------------
(* Every step, and the invariants *)

LEMMA NextInv == Inv /\ [Next]_vars => Inv'
<1> SUFFICES ASSUME Inv, [Next]_vars PROVE Inv'
  OBVIOUS
<1>1. CASE UNCHANGED vars
  BY <1>1, StutterInv
<1>2. ASSUME NEW w \in Writes, AppWrite(w[1], w[2]) PROVE Inv'
  <2>1. w[1] \in Nat /\ w[2] \in BOOLEAN
    BY TransferAssumption
  <2> QED
    BY <1>2, <2>1, AppWriteInv
<1>3. CASE AppClose
  BY <1>3, AppCloseInv
<1>4. ASSUME NEW n \in ReadSizes, AppRead(n) PROVE Inv'
  BY <1>4, AppReadInv, TransferAssumption
<1>5. CASE Unpark
  BY <1>5, UnparkInv
<1>6. CASE SendHalf
  BY <1>6, ReapStreamInv, ParkStreamInv, SendNothingInv, SendPacketInv DEF SendHalf
<1>7. CASE OtherPacket
  BY <1>7, OtherPacketInv
<1>8. CASE Acking
  BY <1>8, ReceiveACKInv, StaleACKInv DEF Acking
<1>9. CASE Timers
  BY <1>9, LossTimerInv, PTOInv DEF Timers
<1>10. ASSUME NEW r \in Rooms, ChangeRoom(r) PROVE Inv'
  BY <1>10, ChangeRoomInv
<1>11. ASSUME NEW p \in net, LosePacket(p) \/ ReceivePacket(p) PROVE Inv'
  BY <1>11, LosePacketInv, ReceivePacketInv
<1>12. ASSUME NEW a \in acks, LoseAck(a) PROVE Inv'
  BY <1>12, LoseAckInv
<1>13. CASE RemoveRecvStream
  BY <1>13, RemoveRecvStreamInv
<1>14. CASE SendAck
  BY <1>14, SendAckInv
<1> QED
  BY <1>1, <1>2, <1>3, <1>4, <1>5, <1>6, <1>7, <1>8, <1>9, <1>10, <1>11, <1>12,
     <1>13, <1>14 DEF Next

\* Every state reachable by a transfer satisfies the inductive invariant.
THEOREM Invariance == Spec => []Inv
  BY InitInv, NextInv, PTL DEF Spec

\* The transfer's state keeps its types.
THEOREM TypeCorrect == Spec => []TypeOK
<1>1. Inv => TypeOK
  BY DEF Inv
<1> QED
  BY <1>1, Invariance, PTL

\* The reader gets the bytes the writer wrote, in order and each once, over any
\* number of splits, retransmissions, losses and reorderings (send_stream.go:
\* splitSentRange and readChunk; ordering.go: Push and ReadDirect).
THEOREM DeliveryInOrder == Spec => []InOrder
<1>1. Inv => InOrder
  <2> SUFFICES ASSUME Inv, NEW i \in DOMAIN delivered
               PROVE  delivered[i] = i - 1 /\ i <= dataInBuffer
    BY DEF InOrder
  <2>1. i \in 1 .. nextOffset
    BY DEF Inv, TypeOK, QueueTypeOK
  <2> QED
    BY <2>1 DEF Inv, TypeOK, SendTypeOK, QueueTypeOK, SenderInv, ReceiverInv
<1> QED
  BY <1>1, Invariance, PTL

\* A reader that sees EOF has every byte of a closed stream (ordering.go:
\* ReadDirect's end of file).
THEOREM NoEarlyEof == Spec => []EofIsLast
<1>1. Inv => EofIsLast
  BY DEF Inv, EofIsLast, SenderInv, ReceiverInv
<1> QED
  BY <1>1, Invariance, PTL

-----------------------------------------------------------------------------
(* The refinement *)

\* In a state of the invariant the reader has a prefix of what was written.
LEMMA DeliveredIsPrefix ==
  ASSUME Inv
  PROVE  delivered = Promise!Prefix(nextOffset) /\ Len(delivered) = nextOffset
<1>1. /\ nextOffset \in Nat
      /\ delivered \in [1 .. nextOffset -> Nat]
      /\ \A i \in 1 .. nextOffset : delivered[i] = i - 1
  BY DEF Inv, TypeOK, QueueTypeOK, ReceiverInv
<1>2. delivered = [i \in 1 .. nextOffset |-> i - 1]
  BY <1>1
<1>3. delivered \in Seq(Nat) /\ Len(delivered) = nextOffset
  BY <1>1
<1> QED
  BY <1>2, <1>3 DEF Promise!Prefix

LEMMA WriteRefines ==
  ASSUME Inv, Inv', NEW n \in Nat, NEW eof \in BOOLEAN, AppWrite(n, eof) \/ AppClose
  PROVE  Promise!Write
<1>1. ~ signalEOF /\ dataInBuffer' \in Nat /\ dataInBuffer' >= dataInBuffer
  BY DEF AppWrite, AppendData, AppClose, Close, Inv, TypeOK, SendTypeOK
<1>2. signalEOF' \in BOOLEAN
  BY DEF Inv, TypeOK, SendTypeOK
<1>3. UNCHANGED <<delivered, eofReached>>
  BY DEF AppWrite, AppClose, queueVars
<1> QED
  BY <1>1, <1>2, <1>3 DEF Promise!Write

LEMMA ReadRefines ==
  ASSUME Inv, Inv', NEW n \in Nat, AppRead(n)
  PROVE  Promise!Read
<1>1. ~ eofReached /\ nextOffset <= nextOffset'
  BY DEF AppRead, ReadDirect, Inv, TypeOK, QueueTypeOK
<1>2. UNCHANGED <<dataInBuffer, signalEOF>>
  BY DEF AppRead, sendVars
<1>3. delivered' = Promise!Prefix(nextOffset')
  BY DeliveredIsPrefix DEF Inv, TypeOK, QueueTypeOK, ReceiverInv, Promise!Prefix
<1>4. nextOffset' \in Len(delivered) .. dataInBuffer
  <2>1. Len(delivered) = nextOffset
    BY DeliveredIsPrefix
  <2>2. /\ nextOffset \in Nat /\ nextOffset' \in Nat /\ dataInBuffer \in Nat
        /\ nextOffset' <= dataInBuffer
    BY <1>2 DEF Inv, TypeOK, SendTypeOK, QueueTypeOK, SenderInv, ReceiverInv
  <2> QED
    BY <1>1, <2>1, <2>2
<1>5. eofReached' \in BOOLEAN
  BY DEF Inv, TypeOK, QueueTypeOK
<1>6. eofReached' => signalEOF /\ nextOffset' = dataInBuffer
  BY <1>2 DEF Inv, SenderInv, ReceiverInv
<1> QED
  BY <1>1, <1>2, <1>3, <1>4, <1>5, <1>6 DEF Promise!Read

\* Everything else is invisible to the applications.
LEMMA OthersStutter ==
  ASSUME \/ Unpark \/ SendHalf \/ OtherPacket \/ Acking \/ Timers
         \/ \E r \in Rooms : ChangeRoom(r)
         \/ \E p \in net : LosePacket(p) \/ ReceivePacket(p)
         \/ \E a \in acks : LoseAck(a)
         \/ RemoveRecvStream \/ SendAck
         \/ UNCHANGED vars
  PROVE  UNCHANGED <<dataInBuffer, signalEOF, delivered, eofReached>>
<1> USE DEF sendVars, queueVars
<1>1. CASE Unpark \/ OtherPacket \/ RemoveRecvStream
  BY <1>1 DEF Unpark, OtherPacket, RemoveRecvStream
<1>2. CASE SendHalf
  <2>1. CASE ReapStream \/ ParkStream
    BY <2>1 DEF ReapStream, ParkStream
  <2>2. CASE SendNothing
    BY <2>2 DEF SendNothing, NothingToSend
  <2>3. ASSUME NEW r, SendPacket(r)
        PROVE  UNCHANGED <<dataInBuffer, signalEOF, delivered, eofReached>>
    BY <2>3 DEF SendPacket, TriggerPacket, Retransmit, SplitRetransmit, SendNew
  <2> QED
    BY <1>2, <2>1, <2>2, <2>3 DEF SendHalf
<1>3. CASE Acking
  <2>1. ASSUME NEW a, StaleACK(a)
        PROVE  UNCHANGED <<dataInBuffer, signalEOF, delivered, eofReached>>
    BY <2>1 DEF StaleACK
  <2>2. ASSUME NEW a, NEW cut, ReceiveACK(a, cut)
        PROVE  UNCHANGED <<dataInBuffer, signalEOF, delivered, eofReached>>
    <3>1. UNCHANGED queueVars /\ \E acked, lost : Verdict(acked, lost)
      BY <2>2 DEF ReceiveACK
    <3> QED
      BY <3>1 DEF Verdict
  <2> QED
    BY <1>3, <2>1, <2>2 DEF Acking
<1>4. CASE Timers
  BY <1>4 DEF Timers, LossTimer, PTO, Verdict
<1>5. CASE \E r \in Rooms : ChangeRoom(r)
  BY <1>5 DEF ChangeRoom
<1>6. CASE \E p \in net : LosePacket(p) \/ ReceivePacket(p)
  BY <1>6 DEF LosePacket, ReceivePacket, ProcessChunk
<1>7. CASE \E a \in acks : LoseAck(a)
  BY <1>7 DEF LoseAck
<1>8. CASE SendAck
  BY <1>8 DEF SendAck
<1>9. CASE UNCHANGED vars
  BY <1>9 DEF vars
<1> QED
  BY <1>1, <1>2, <1>3, <1>4, <1>5, <1>6, <1>7, <1>8, <1>9

\* A transfer, with all its packets, timers and queues, implements the reliable
\* stream its two applications see (api.go's SendStream and ReceiveStream).
THEOREM Refinement == Spec => Implements
<1>1. Init => Promise!Init
  <2> SUFFICES ASSUME Init PROVE Promise!Init
    OBVIOUS
  <2>1. delivered = Promise!Prefix(nextOffset)
    BY InitInv, DeliveredIsPrefix
  <2> QED
    BY <2>1 DEF Promise!Init, Init, SendInit, QueueInit
<1>2. Inv /\ Inv' /\ [Next]_vars => [Promise!Next]_(Promise!vars)
  <2> SUFFICES ASSUME Inv, Inv', [Next]_vars PROVE [Promise!Next]_(Promise!vars)
    OBVIOUS
  <2>1. ASSUME NEW w \in Writes, AppWrite(w[1], w[2]) PROVE Promise!Next
    <3>1. w[1] \in Nat /\ w[2] \in BOOLEAN
      BY TransferAssumption
    <3> QED
      BY <2>1, <3>1, WriteRefines DEF Promise!Next
  <2>2. CASE AppClose
    BY <2>2, WriteRefines DEF Promise!Next
  <2>3. ASSUME NEW n \in ReadSizes, AppRead(n) PROVE Promise!Next
    BY <2>3, ReadRefines, TransferAssumption DEF Promise!Next
  <2>4. CASE UNCHANGED <<dataInBuffer, signalEOF, delivered, eofReached>>
    BY <2>4 DEF Promise!vars
  <2> QED
    BY <2>1, <2>2, <2>3, <2>4, OthersStutter DEF Next
<1> QED
  BY <1>1, <1>2, Invariance, PTL DEF Spec, Implements, Promise!Spec
-----------------------------------------------------------------------------
(* Induction over the natural numbers, for a set instead of a predicate *)

\* A set of natural numbers that is not empty has a least element.
LEMMA LeastNatural ==
    ASSUME NEW S \in SUBSET Nat, S # {}
    PROVE  \E n \in S : \A m \in S : n <= m
<1> DEFINE R == OpToRel(<, Nat)
<1>1. IsWellFoundedOn(R, Nat)
  BY NatLessThanWellFounded
<1>2. \A x, y \in Nat : x < y => <<x, y>> \in R
  BY DEF OpToRel
<1> HIDE DEF R
<1>3. PICK x \in S : \A y \in S : ~ (<<y, x>> \in R)
  BY <1>1, WFMin
<1>4. ASSUME NEW y \in S PROVE x <= y
  <2>1. x \in Nat /\ y \in Nat
    OBVIOUS
  <2>2. ~ (y < x)
    BY <1>2, <1>3, <2>1
  <2> QED BY <2>1, <2>2
<1> QED BY <1>4

\* What holds at the start of an interval and passes from each number to the next
\* holds throughout.
LEMMA IntervalInduction ==
    ASSUME NEW a \in Nat, NEW b \in Nat, NEW S, a \in S,
           \A n \in a .. b : n \in S /\ n < b => n + 1 \in S
    PROVE  \A n \in a .. b : n \in S
<1> DEFINE Bad == {n \in a .. b : n \notin S}
<1> SUFFICES ASSUME Bad # {} PROVE FALSE
  OBVIOUS
<1>1. Bad \in SUBSET Nat
  OBVIOUS
<1>2. PICK n \in Bad : \A m \in Bad : n <= m
  BY <1>1, LeastNatural
<1>3. n \in a .. b /\ n \notin S /\ n # a
  OBVIOUS
<1>4. n - 1 \in a .. b /\ n - 1 \notin Bad
  BY <1>2, <1>3
<1> QED BY <1>3, <1>4

-----------------------------------------------------------------------------
(* Lists *)

\* What is left when an element is taken out of a list.
LEMMA RemoveAtFacts ==
    ASSUME NEW S, NEW s \in Seq(S), NEW i \in 1 .. Len(s)
    PROVE  /\ RemoveAt(s, i) \in Seq(S)
           /\ Len(RemoveAt(s, i)) = Len(s) - 1
           /\ \A j \in 1 .. Len(s) - 1 :
                 RemoveAt(s, i)[j] = IF j < i THEN s[j] ELSE s[j + 1]
<1> DEFINE a == SubSeq(s, 1, i - 1)  b == SubSeq(s, i + 1, Len(s))
<1>1. a \in Seq(S) /\ Len(a) = i - 1 /\ \A j \in 1 .. i - 1 : a[j] = s[j]
  OBVIOUS
<1>2. b \in Seq(S) /\ Len(b) = Len(s) - i /\ \A j \in 1 .. Len(s) - i : b[j] = s[i + j]
  OBVIOUS
<1>3. RemoveAt(s, i) = a \o b
  BY DEF RemoveAt
<1> HIDE DEF a, b
<1>4. /\ a \o b \in Seq(S) /\ Len(a \o b) = Len(s) - 1
      /\ \A j \in 1 .. Len(s) - 1 : (a \o b)[j] = IF j <= i - 1 THEN a[j] ELSE b[j - (i - 1)]
  <2>1. /\ a \o b \in Seq(S) /\ Len(a \o b) = Len(a) + Len(b)
        /\ \A j \in 1 .. Len(a) + Len(b) : (a \o b)[j] = IF j <= Len(a) THEN a[j] ELSE b[j - Len(a)]
    BY <1>1, <1>2, ConcatProperties, Zenon
  <2> QED BY <2>1, <1>1, <1>2
<1>5. ASSUME NEW j \in 1 .. Len(s) - 1
      PROVE  (a \o b)[j] = IF j < i THEN s[j] ELSE s[j + 1]
  <2>1. CASE j < i
    BY <2>1, <1>1, <1>4
  <2>2. CASE ~ (j < i)
    <3>1. (a \o b)[j] = b[j - (i - 1)]
      BY <2>2, <1>4
    <3>2. j - (i - 1) \in 1 .. Len(s) - i /\ i + (j - (i - 1)) = j + 1
      BY <2>2
    <3>3. b[j - (i - 1)] = s[j + 1]
      BY <3>2, <1>2
    <3> QED BY <3>1, <3>3, <2>2
  <2> QED BY <2>1, <2>2
<1> QED BY <1>3, <1>4, <1>5

\* A list with an element put in.
LEMMA InsertAtFacts ==
    ASSUME NEW S, NEW s \in Seq(S), NEW i \in 1 .. Len(s) + 1, NEW e \in S
    PROVE  /\ InsertAt(s, i, e) \in Seq(S)
           /\ Len(InsertAt(s, i, e)) = Len(s) + 1
           /\ \A j \in 1 .. Len(s) + 1 :
                 InsertAt(s, i, e)[j] = IF j < i THEN s[j] ELSE IF j = i THEN e ELSE s[j - 1]
<1> DEFINE a == SubSeq(s, 1, i - 1)  b == SubSeq(s, i, Len(s))  c == a \o <<e>>
<1>1. a \in Seq(S) /\ Len(a) = i - 1 /\ \A j \in 1 .. i - 1 : a[j] = s[j]
  OBVIOUS
<1>2. b \in Seq(S) /\ Len(b) = Len(s) - i + 1 /\ \A j \in 1 .. Len(s) - i + 1 : b[j] = s[i + j - 1]
  OBVIOUS
<1>3. InsertAt(s, i, e) = c \o b
  BY DEF InsertAt
<1> HIDE DEF a, b
<1>4. c \in Seq(S) /\ Len(c) = i /\ c[i] = e /\ \A j \in 1 .. i - 1 : c[j] = s[j]
  BY <1>1
<1> HIDE DEF c
<1>5. /\ c \o b \in Seq(S) /\ Len(c \o b) = Len(s) + 1
      /\ \A j \in 1 .. Len(s) + 1 : (c \o b)[j] = IF j <= i THEN c[j] ELSE b[j - i]
  <2>1. /\ c \o b \in Seq(S) /\ Len(c \o b) = Len(c) + Len(b)
        /\ \A j \in 1 .. Len(c) + Len(b) : (c \o b)[j] = IF j <= Len(c) THEN c[j] ELSE b[j - Len(c)]
    BY <1>2, <1>4, ConcatProperties, Zenon
  <2> QED BY <2>1, <1>2, <1>4
<1>6. ASSUME NEW j \in 1 .. Len(s) + 1
      PROVE  (c \o b)[j] = IF j < i THEN s[j] ELSE IF j = i THEN e ELSE s[j - 1]
  <2>1. CASE j <= i
    BY <2>1, <1>4, <1>5
  <2>2. CASE ~ (j <= i)
    <3>1. (c \o b)[j] = b[j - i]
      BY <2>2, <1>5
    <3>2. j - i \in 1 .. Len(s) - i + 1 /\ i + (j - i) - 1 = j - 1
      BY <2>2
    <3>3. b[j - i] = s[j - 1]
      BY <3>2, <1>2
    <3> QED BY <3>1, <3>3, <2>2
  <2> QED BY <2>1, <2>2
<1> QED BY <1>3, <1>5, <1>6

-----------------------------------------------------------------------------
(* The range list *)

\* Half-open ranges of packet numbers.
Spans == [Begin : Nat, End : Nat]

\* The normal form, for any two ranges of the list and not only for neighbours.
Apart(ranges) ==
    /\ ranges \in Seq(Spans)
    /\ \A i \in 1 .. Len(ranges) : ranges[i].Begin < ranges[i].End
    /\ \A i, j \in 1 .. Len(ranges) : i < j => ranges[i].End < ranges[j].Begin

\* A number is covered when it lies in some range.
LEMMA CoveredMember ==
    ASSUME NEW ranges \in Seq(Spans), NEW n
    PROVE  n \in Covered(ranges) <=>
               \E i \in 1 .. Len(ranges) : n \in ranges[i].Begin .. (ranges[i].End - 1)
<1>1. DOMAIN ranges = 1 .. Len(ranges)
  OBVIOUS
<1> QED BY <1>1 DEF Covered, ToSet

\* Ranges that are apart begin at their index or above.
LEMMA BeginsAbove ==
    ASSUME NEW ranges, Apart(ranges)
    PROVE  \A i \in 1 .. Len(ranges) : i - 1 <= ranges[i].Begin
<1> DEFINE S == {i \in 1 .. Len(ranges) : i - 1 <= ranges[i].Begin}
<1>1. /\ Len(ranges) \in Nat
      /\ \A i \in 1 .. Len(ranges) : ranges[i] \in Spans
  BY DEF Apart
<1>2. \A i \in 1 .. Len(ranges) : ranges[i].Begin \in Nat /\ ranges[i].End \in Nat
  BY <1>1 DEF Spans
<1>3. CASE Len(ranges) = 0
  BY <1>3
<1>4. CASE Len(ranges) # 0
  <2>1. 1 \in S
    BY <1>1, <1>2, <1>4
  <2>2. ASSUME NEW i \in 1 .. Len(ranges), i \in S, i < Len(ranges) PROVE i + 1 \in S
    <3>1. /\ i + 1 \in 1 .. Len(ranges) /\ i < i + 1
          /\ ranges[i].Begin < ranges[i].End /\ ranges[i].End < ranges[i + 1].Begin
      BY <1>1, <2>2 DEF Apart
    <3> QED BY <1>2, <2>2, <3>1
  <2>3. \A i \in 1 .. Len(ranges) : i \in S
    <3> HIDE DEF S
    <3> QED BY <1>1, <2>1, <2>2, IntervalInduction
  <2> QED BY <2>3
<1> QED BY <1>3, <1>4

\* Giving one range another end leaves the others as they are.
LEMMA EndChanged ==
    ASSUME NEW ranges \in Seq(Spans), NEW i \in 1 .. Len(ranges), NEW e \in Nat
    PROVE  LET grown == [ranges EXCEPT ![i].End = e]
           IN  /\ grown \in Seq(Spans) /\ Len(grown) = Len(ranges)
               /\ grown[i].Begin = ranges[i].Begin /\ grown[i].End = e
               /\ \A j \in 1 .. Len(ranges) : j # i => grown[j] = ranges[j]
<1> DEFINE r == [ranges[i] EXCEPT !.End = e]
           grown == [ranges EXCEPT ![i] = r]
<1>1. ranges[i] \in Spans
  OBVIOUS
<1>2. r \in Spans /\ r.Begin = ranges[i].Begin /\ r.End = e
  BY <1>1 DEF Spans
<1> HIDE DEF r
<1>3. /\ grown \in Seq(Spans) /\ Len(grown) = Len(ranges)
      /\ grown[i] = r /\ \A j \in 1 .. Len(ranges) : j # i => grown[j] = ranges[j]
  BY <1>2
<1>4. [ranges EXCEPT ![i].End = e] = grown
  BY DEF r
<1> QED BY <1>2, <1>3, <1>4

LEMMA BeginChanged ==
    ASSUME NEW ranges \in Seq(Spans), NEW i \in 1 .. Len(ranges), NEW b \in Nat
    PROVE  LET grown == [ranges EXCEPT ![i].Begin = b]
           IN  /\ grown \in Seq(Spans) /\ Len(grown) = Len(ranges)
               /\ grown[i].Begin = b /\ grown[i].End = ranges[i].End
               /\ \A j \in 1 .. Len(ranges) : j # i => grown[j] = ranges[j]
<1> DEFINE r == [ranges[i] EXCEPT !.Begin = b]
           grown == [ranges EXCEPT ![i] = r]
<1>1. ranges[i] \in Spans
  OBVIOUS
<1>2. r \in Spans /\ r.Begin = b /\ r.End = ranges[i].End
  BY <1>1 DEF Spans
<1> HIDE DEF r
<1>3. /\ grown \in Seq(Spans) /\ Len(grown) = Len(ranges)
      /\ grown[i] = r /\ \A j \in 1 .. Len(ranges) : j # i => grown[j] = ranges[j]
  BY <1>2
<1>4. [ranges EXCEPT ![i].Begin = b] = grown
  BY DEF r
<1> QED BY <1>2, <1>3, <1>4

\* The arithmetic of a normal list: bounds and order of its ranges.
LEMMA ApartFacts ==
    ASSUME NEW ranges, Apart(ranges)
    PROVE  /\ ranges \in Seq(Spans) /\ Len(ranges) \in Nat /\ DOMAIN ranges = 1 .. Len(ranges)
           /\ \A i \in 1 .. Len(ranges) :
                 /\ ranges[i].Begin \in Nat /\ ranges[i].End \in Nat
                 /\ ranges[i].Begin < ranges[i].End
           /\ \A i, j \in 1 .. Len(ranges) : i < j => ranges[i].End < ranges[j].Begin
<1>1. ranges \in Seq(Spans)
  BY DEF Apart
<1>2. Len(ranges) \in Nat /\ DOMAIN ranges = 1 .. Len(ranges)
      /\ \A i \in 1 .. Len(ranges) : ranges[i] \in Spans
  BY <1>1
<1>3. \A i \in 1 .. Len(ranges) : ranges[i].Begin \in Nat /\ ranges[i].End \in Nat
  BY <1>2 DEF Spans
<1> QED BY <1>1, <1>2, <1>3 DEF Apart

\* A number just above a range extends it, and joins it with the next one if they
\* now touch.
LEMMA ExtendUpFacts ==
    ASSUME NEW ranges, Apart(ranges), NEW i \in 1 .. Len(ranges), NEW n \in Nat,
           n = ranges[i].End
    PROVE  /\ Apart(ExtendUp(ranges, i))
           /\ Covered(ExtendUp(ranges, i)) \subseteq Covered(ranges) \cup {n}
<1> DEFINE L == Len(ranges)
<1>1. /\ ranges \in Seq(Spans) /\ L \in Nat
      /\ \A j \in 1 .. L : /\ ranges[j].Begin \in Nat /\ ranges[j].End \in Nat
                           /\ ranges[j].Begin < ranges[j].End
      /\ \A j, k \in 1 .. L : j < k => ranges[j].End < ranges[k].Begin
  BY ApartFacts
<1>2. n \in Nat /\ n + 1 \in Nat
  OBVIOUS
<1> DEFINE grown == [ranges EXCEPT ![i].End = n + 1]
<1>3. grown = [ranges EXCEPT ![i].End = @ + 1]
  OBVIOUS
<1>4. /\ grown \in Seq(Spans) /\ Len(grown) = L
      /\ grown[i].Begin = ranges[i].Begin /\ grown[i].End = n + 1
      /\ \A j \in 1 .. L : j # i => grown[j] = ranges[j]
  BY <1>1, <1>2, EndChanged
<1>5. CASE i + 1 <= L /\ n + 1 = ranges[i + 1].Begin
  <2> DEFINE e == ranges[i + 1].End
             wide == [grown EXCEPT ![i].End = e]
             joined == RemoveAt(wide, i + 1)
  <2>1. ExtendUp(ranges, i) = joined
    BY <1>3, <1>4, <1>5, Zenon DEF ExtendUp
  <2>2. i + 1 \in 1 .. L /\ e \in Nat
    BY <1>1, <1>5
  <2> HIDE DEF grown, e
  <2>3. /\ wide \in Seq(Spans) /\ Len(wide) = L
        /\ wide[i].Begin = grown[i].Begin /\ wide[i].End = e
        /\ \A j \in 1 .. L : j # i => wide[j] = grown[j]
    BY <1>4, <2>2, EndChanged
  <2> HIDE DEF wide
  <2>4. /\ joined \in Seq(Spans) /\ Len(joined) = L - 1
        /\ \A j \in 1 .. L - 1 : joined[j] = IF j < i + 1 THEN wide[j] ELSE wide[j + 1]
    BY <2>2, <2>3, RemoveAtFacts
  <2> HIDE DEF joined
  <2>5. /\ \A j \in 1 .. L - 1 : j < i => joined[j] = ranges[j]
        /\ joined[i].Begin = ranges[i].Begin /\ joined[i].End = ranges[i + 1].End
        /\ \A j \in 1 .. L - 1 : i < j => joined[j] = ranges[j + 1]
    <3>1. i \in 1 .. L - 1
      BY <1>1, <2>2
    <3>2. joined[i] = wide[i]
      BY <2>4, <3>1
    <3>3. ASSUME NEW j \in 1 .. L - 1, j < i PROVE joined[j] = ranges[j]
      BY <3>3, <1>4, <2>3, <2>4
    <3>4. ASSUME NEW j \in 1 .. L - 1, i < j PROVE joined[j] = ranges[j + 1]
      BY <3>4, <1>4, <2>3, <2>4
    <3> QED BY <3>2, <3>3, <3>4, <1>4, <2>3 DEF e
  <2>6. Apart(joined)
    <3>1. ASSUME NEW j \in 1 .. L - 1 PROVE joined[j].Begin < joined[j].End
      <4>1. CASE j = i
        BY SMTT(30), <4>1, <1>1, <2>2, <2>5
      <4>2. CASE j < i
        <5>1. joined[j] = ranges[j] /\ j \in 1 .. L
          BY <4>2, <1>1, <2>5
        <5> QED BY <5>1, <1>1
      <4>3. CASE j > i
        <5>1. joined[j] = ranges[j + 1] /\ j + 1 \in 1 .. L
          BY <4>3, <1>1, <2>5
        <5> QED BY <5>1, <1>1
      <4> QED BY <4>1, <4>2, <4>3
    <3>2. ASSUME NEW j \in 1 .. L - 1, NEW k \in 1 .. L - 1, j < k
          PROVE  joined[j].End < joined[k].Begin
      <4>1. CASE k = i
        <5>1. joined[j] = ranges[j] /\ j \in 1 .. L
          BY <4>1, <3>2, <1>1, <2>5
        <5> QED BY <5>1, <4>1, <3>2, <1>1, <2>5
      <4>2. CASE j = i
        <5>1. joined[k] = ranges[k + 1] /\ k + 1 \in 1 .. L /\ i + 1 < k + 1
          BY <4>2, <3>2, <1>1, <2>5
        <5> QED BY <5>1, <4>2, <1>1, <2>2, <2>5
      <4>3. CASE k < i
        <5>1. joined[j] = ranges[j] /\ joined[k] = ranges[k] /\ j \in 1 .. L /\ k \in 1 .. L
          BY <4>3, <3>2, <1>1, <2>5
        <5> QED BY <5>1, <3>2, <1>1
      <4>4. CASE j > i
        <5>1. /\ joined[j] = ranges[j + 1] /\ joined[k] = ranges[k + 1]
              /\ j + 1 \in 1 .. L /\ k + 1 \in 1 .. L /\ j + 1 < k + 1
          BY <4>4, <3>2, <1>1, <2>5
        <5> QED BY <5>1, <1>1
      <4>5. CASE j < i /\ i < k
        <5>1. /\ joined[j] = ranges[j] /\ joined[k] = ranges[k + 1]
              /\ j \in 1 .. L /\ k + 1 \in 1 .. L /\ j < k + 1
          <6>1. j \in 1 .. L /\ k + 1 \in 1 .. L /\ j < k + 1
            BY <4>5, <3>2, <1>1
          <6>2. joined[j] = ranges[j]
            BY <4>5, <2>5
          <6>3. joined[k] = ranges[k + 1]
            BY <4>5, <2>5
          <6> QED BY <6>1, <6>2, <6>3
        <5> QED BY <5>1, <1>1
      <4> QED BY <4>1, <4>2, <4>3, <4>4, <4>5
    <3> QED BY <2>4, <3>1, <3>2 DEF Apart
  <2>7. ASSUME NEW m \in Covered(joined) PROVE m \in Covered(ranges) \cup {n}
    <3>1. PICK j \in 1 .. L - 1 : m \in joined[j].Begin .. (joined[j].End - 1)
      BY <2>4, <2>7, CoveredMember
    <3>2. \/ m = n
          \/ \E k \in 1 .. L : m \in ranges[k].Begin .. (ranges[k].End - 1)
      <4>1. CASE j < i
        BY <3>1, <4>1, <2>5
      <4>2. CASE j > i
        BY <3>1, <4>2, <2>5
      <4>3. CASE j = i
        <5>1. m \in ranges[i].Begin .. (ranges[i + 1].End - 1)
          BY <3>1, <4>3, <2>5
        <5>2. \/ m \in ranges[i].Begin .. (ranges[i].End - 1) \/ m = n
              \/ m \in ranges[i + 1].Begin .. (ranges[i + 1].End - 1)
          BY SMTT(30), <5>1, <1>1, <1>2, <1>5, <2>2
        <5> QED BY <5>2, <2>2
      <4> QED BY <4>1, <4>2, <4>3
    <3> QED BY <3>2, <1>1, CoveredMember
  <2> QED BY <2>1, <2>6, <2>7
<1>6. CASE ~ (i + 1 <= L /\ n + 1 = ranges[i + 1].Begin)
  <2>1. ExtendUp(ranges, i) = grown
    BY <1>3, <1>4, <1>6, Zenon DEF ExtendUp
  <2> HIDE DEF grown
  <2>2. ASSUME NEW j \in 1 .. L, i < j PROVE n + 1 < ranges[j].Begin
    <3>1. i + 1 \in 1 .. L /\ n < ranges[i + 1].Begin /\ n + 1 # ranges[i + 1].Begin
      BY <1>1, <1>6, <2>2
    <3>2. j = i + 1 \/ ranges[i + 1].End < ranges[j].Begin
      BY <1>1, <2>2, <3>1
    <3>3. n + 1 < ranges[i + 1].Begin
      BY SMTT(30), <3>1, <1>1, <1>2
    <3>4. CASE j = i + 1
      BY <3>3, <3>4
    <3>5. CASE ranges[i + 1].End < ranges[j].Begin
      <4>1. /\ n + 1 \in Int /\ ranges[j].Begin \in Int
            /\ ranges[i + 1].Begin \in Int /\ ranges[i + 1].End \in Int
            /\ ranges[i + 1].Begin < ranges[i + 1].End
        BY SMTT(30), <3>1, <1>1, <1>2
      <4> QED BY <3>3, <3>5, <4>1
    <3> QED BY <3>2, <3>4, <3>5
  <2>3. Apart(grown)
    <3>1. ASSUME NEW j \in 1 .. L PROVE grown[j].Begin < grown[j].End
      <4>1. CASE j = i
        <5>1. ranges[i].Begin \in Int /\ ranges[i].Begin < n
          BY <1>1
        <5> QED BY <1>2, <1>4, <4>1, <5>1
      <4>2. CASE j # i
        BY <1>1, <1>4, <4>2
      <4> QED BY <4>1, <4>2
    <3>2. ASSUME NEW j \in 1 .. L, NEW k \in 1 .. L, j < k
          PROVE  grown[j].End < grown[k].Begin
      BY <1>1, <1>4, <2>2, <3>2
    <3> QED BY <1>4, <3>1, <3>2 DEF Apart
  <2>4. ASSUME NEW m \in Covered(grown) PROVE m \in Covered(ranges) \cup {n}
    <3>1. PICK j \in 1 .. L : m \in grown[j].Begin .. (grown[j].End - 1)
      BY <1>4, <2>4, CoveredMember
    <3>2. m = n \/ m \in ranges[j].Begin .. (ranges[j].End - 1)
      <4>1. CASE j = i
        BY <3>1, <4>1, <1>1, <1>2, <1>4
      <4>2. CASE j # i
        BY <3>1, <4>2, <1>4
      <4> QED BY <4>1, <4>2
    <3> QED BY <3>2, <1>1, CoveredMember
  <2> QED BY <2>1, <2>3, <2>4
<1> QED BY <1>5, <1>6

\* A number just below a range extends it downwards; the range below it does not
\* touch, or the number would have extended that one.
LEMMA ExtendDownFacts ==
    ASSUME NEW ranges, Apart(ranges), NEW i \in 1 .. Len(ranges), NEW n \in Nat,
           n + 1 = ranges[i].Begin, \A j \in 1 .. Len(ranges) : j < i => ranges[j].End < n
    PROVE  /\ Apart(ExtendDown(ranges, i))
           /\ Covered(ExtendDown(ranges, i)) \subseteq Covered(ranges) \cup {n}
<1> DEFINE L == Len(ranges)
<1>1. /\ ranges \in Seq(Spans) /\ L \in Nat
      /\ \A j \in 1 .. L : /\ ranges[j].Begin \in Nat /\ ranges[j].End \in Nat
                           /\ ranges[j].Begin < ranges[j].End
      /\ \A j, k \in 1 .. L : j < k => ranges[j].End < ranges[k].Begin
  BY ApartFacts
<1>2. n \in Nat
  OBVIOUS
<1> DEFINE grown == [ranges EXCEPT ![i].Begin = n]
<1>3. grown = [ranges EXCEPT ![i].Begin = @ - 1]
  <2>1. ranges[i].Begin - 1 = n
    <3>1. n + 1 = ranges[i].Begin /\ n \in Int
      BY <1>2
    <3>2. \A a \in Int : (a + 1) - 1 = a
      OBVIOUS
    <3> QED BY <3>1, <3>2
  <2> QED BY <2>1, Zenon
<1>4. /\ grown \in Seq(Spans) /\ Len(grown) = L
      /\ grown[i].Begin = n /\ grown[i].End = ranges[i].End
      /\ \A j \in 1 .. L : j # i => grown[j] = ranges[j]
  BY <1>1, BeginChanged
<1>5. ~ (i > 1 /\ ranges[i - 1].End = grown[i].Begin)
  BY <1>1, <1>2, <1>4
<1>6. ExtendDown(ranges, i) = grown
  BY <1>3, <1>5, Zenon DEF ExtendDown
<1> HIDE DEF grown
<1>7. Apart(grown)
  <2>1. ASSUME NEW j \in 1 .. L PROVE grown[j].Begin < grown[j].End
    <3>1. CASE j = i
      BY <3>1, <1>1, <1>2, <1>4
    <3>2. CASE j # i
      BY <3>2, <1>1, <1>4
    <3> QED BY <3>1, <3>2
  <2>2. ASSUME NEW j \in 1 .. L, NEW k \in 1 .. L, j < k
        PROVE  grown[j].End < grown[k].Begin
    <3>1. CASE k = i
      BY <3>1, <2>2, <1>1, <1>2, <1>4
    <3>2. CASE k # i /\ j = i
      BY <3>2, <2>2, <1>1, <1>4
    <3>3. CASE k # i /\ j # i
      BY <3>3, <2>2, <1>1, <1>4
    <3> QED BY <3>1, <3>2, <3>3
  <2> QED BY <1>4, <2>1, <2>2 DEF Apart
<1>8. ASSUME NEW m \in Covered(grown) PROVE m \in Covered(ranges) \cup {n}
  <2>1. PICK j \in 1 .. L : m \in grown[j].Begin .. (grown[j].End - 1)
    BY <1>4, <1>8, CoveredMember
  <2>2. m = n \/ m \in ranges[j].Begin .. (ranges[j].End - 1)
    BY SMTT(30), <2>1, <1>1, <1>2, <1>4
  <2> QED BY <2>2, <1>1, CoveredMember
<1> QED BY <1>6, <1>7, <1>8

\* InsertUnacked keeps the normal form and records nothing but the number.
LEMMA InsertIntoFacts ==
    ASSUME NEW ranges, Apart(ranges), NEW n \in Nat
    PROVE  /\ Apart(InsertInto(ranges, n))
           /\ Covered(InsertInto(ranges, n)) \subseteq Covered(ranges) \cup {n}
<1> DEFINE L == Len(ranges)
           matching == {i \in DOMAIN ranges : n <= ranges[i].End}
           i == CHOOSE j \in matching : \A k \in matching : j <= k
           single == [Begin |-> n, End |-> n + 1]
<1>1. /\ ranges \in Seq(Spans) /\ L \in Nat /\ DOMAIN ranges = 1 .. L
      /\ \A j \in 1 .. L : /\ ranges[j].Begin \in Nat /\ ranges[j].End \in Nat
                           /\ ranges[j].Begin < ranges[j].End
      /\ \A j, k \in 1 .. L : j < k => ranges[j].End < ranges[k].Begin
  BY ApartFacts
<1>2. n \in Nat
  OBVIOUS
<1>3. single \in Spans /\ single.Begin = n /\ single.End = n + 1
  BY <1>2 DEF Spans
<1>4. CASE ranges = <<>>
  <2>1. InsertInto(ranges, n) = <<single>>
    BY <1>4 DEF InsertInto
  <2> HIDE DEF single
  <2>2. <<single>> \in Seq(Spans) /\ Len(<<single>>) = 1 /\ <<single>>[1] = single
    BY <1>3
  <2>3. Apart(<<single>>)
    BY <1>2, <1>3, <2>2 DEF Apart
  <2>4. ASSUME NEW m \in Covered(<<single>>) PROVE m = n
    <3>1. \E j \in 1 .. 1 : m \in <<single>>[j].Begin .. (<<single>>[j].End - 1)
      BY <2>2, <2>4, CoveredMember
    <3> QED BY <3>1, <2>2, <1>2, <1>3
  <2> QED BY <2>1, <2>3, <2>4
<1>5. CASE ranges # <<>> /\ matching = {}
  <2>1. InsertInto(ranges, n) = ranges
    BY <1>5 DEF InsertInto
  <2> QED BY <2>1
<1>6. CASE ranges # <<>> /\ matching # {}
  <2>1. i \in matching /\ \A k \in matching : i <= k
    <3>1. matching \in SUBSET Nat
      BY <1>1
    <3>2. \E j \in matching : \A k \in matching : j <= k
      BY <3>1, <1>6, LeastNatural
    <3> QED BY <3>2
  <2>2. /\ InsertInto(ranges, n) =
              CASE n = ranges[i].End       -> ExtendUp(ranges, i)
                [] n + 1 = ranges[i].Begin -> ExtendDown(ranges, i)
                [] n < ranges[i].Begin - 1 -> InsertAt(ranges, i, single)
                [] OTHER                   -> ranges
    BY <1>6, Zenon DEF InsertInto
  <2>3. /\ i \in 1 .. L /\ n <= ranges[i].End
        /\ \A j \in 1 .. L : j < i => ranges[j].End < n
    <3>1. i \in 1 .. L /\ n <= ranges[i].End
      BY <1>1, <2>1
    <3>3. \A j \in 1 .. L : n <= ranges[j].End => j \in matching
      BY <1>1
    <3> HIDE DEF i, matching
    <3>2. ASSUME NEW j \in 1 .. L, j < i PROVE ranges[j].End < n
      <4>1. ~ (i <= j)
        BY <3>1, <3>2, <1>1
      <4>2. ~ (n <= ranges[j].End)
        BY <4>1, <3>3, <2>1, Zenon
      <4>3. n \in Int /\ ranges[j].End \in Int
        BY <1>1, <1>2
      <4> QED BY <4>2, <4>3
    <3> QED BY <3>1, <3>2
  <2> HIDE DEF i, matching, single
  <2>4. CASE n = ranges[i].End
    <3>1. InsertInto(ranges, n) = ExtendUp(ranges, i)
      BY <2>2, <2>3, <2>4, <1>1, <1>2
    <3> QED BY <3>1, <2>3, <2>4, ExtendUpFacts
  <2>5. CASE n # ranges[i].End /\ n + 1 = ranges[i].Begin
    <3>1. InsertInto(ranges, n) = ExtendDown(ranges, i)
      BY <2>2, <2>3, <2>5, <1>1, <1>2
    <3> QED BY <3>1, <2>3, <2>5, ExtendDownFacts
  <2>6. CASE n # ranges[i].End /\ n + 1 # ranges[i].Begin /\ n < ranges[i].Begin - 1
    <3> DEFINE more == InsertAt(ranges, i, single)
    <3>1. InsertInto(ranges, n) = more
      BY <2>2, <2>6
    <3>2. /\ more \in Seq(Spans) /\ Len(more) = L + 1
          /\ \A j \in 1 .. L + 1 :
                more[j] = IF j < i THEN ranges[j] ELSE IF j = i THEN single ELSE ranges[j - 1]
      <4>1. i \in 1 .. Len(ranges) + 1
        BY <1>1, <2>3
      <4> QED BY SMTT(30), <1>1, <1>3, <4>1, InsertAtFacts
    <3> HIDE DEF more
    <3>3. /\ \A j \in 1 .. L + 1 : j < i => more[j] = ranges[j] /\ j \in 1 .. L
          /\ more[i] = single
          /\ \A j \in 1 .. L + 1 : i < j => more[j] = ranges[j - 1] /\ j - 1 \in 1 .. L /\ i <= j - 1
      BY <1>1, <2>3, <3>2
    <3>4. \A j \in 1 .. L : i <= j => n + 1 < ranges[j].Begin
      BY <1>1, <1>2, <2>3, <2>6
    <3>5. ASSUME NEW j \in 1 .. L + 1 PROVE more[j].Begin < more[j].End
      <4>1. CASE j < i
        BY <4>1, <3>3, <1>1
      <4>2. CASE j = i
        BY <4>2, <3>3, <1>2, <1>3
      <4>3. CASE j > i
        BY <4>3, <3>3, <1>1
      <4> QED BY <4>1, <4>2, <4>3, <2>3
    <3>6. ASSUME NEW j \in 1 .. L + 1, NEW k \in 1 .. L + 1, j < k
          PROVE  more[j].End < more[k].Begin
      <4>1. CASE k < i
        <5>1. more[j] = ranges[j] /\ more[k] = ranges[k] /\ j \in 1 .. L /\ k \in 1 .. L
          BY <4>1, <3>6, <3>3, <2>3
        <5> QED BY <5>1, <3>6, <1>1
      <4>2. CASE k = i
        <5>1. more[j] = ranges[j] /\ more[k] = single /\ j \in 1 .. L /\ j < i
          BY <4>2, <3>6, <3>3
        <5> QED BY <5>1, <2>3, <1>3
      <4>3. CASE j = i
        <5>1. more[j] = single /\ more[k] = ranges[k - 1] /\ k - 1 \in 1 .. L /\ i <= k - 1
          BY <4>3, <3>6, <3>3
        <5> QED BY <5>1, <3>4, <1>3
      <4>4. CASE j > i
        <5>1. /\ more[j] = ranges[j - 1] /\ more[k] = ranges[k - 1]
              /\ j - 1 \in 1 .. L /\ k - 1 \in 1 .. L /\ j - 1 < k - 1
          BY <4>4, <3>6, <3>3, <2>3
        <5> QED BY <5>1, <1>1
      <4>5. CASE j < i /\ i < k
        <5>1. /\ more[j] = ranges[j] /\ more[k] = ranges[k - 1]
              /\ j \in 1 .. L /\ k - 1 \in 1 .. L /\ j < k - 1
          BY <4>5, <3>6, <3>3, <2>3
        <5> QED BY <5>1, <1>1
      <4> QED BY <4>1, <4>2, <4>3, <4>4, <4>5, <2>3
    <3>7. Apart(more)
      BY <3>2, <3>5, <3>6 DEF Apart
    <3>8. ASSUME NEW m \in Covered(more) PROVE m \in Covered(ranges) \cup {n}
      <4>1. PICK j \in 1 .. L + 1 : m \in more[j].Begin .. (more[j].End - 1)
        BY <3>2, <3>8, CoveredMember
      <4>2. CASE j = i
        BY <4>1, <4>2, <3>3, <1>2, <1>3
      <4>3. CASE j # i
        <5>1. \E k \in 1 .. L : more[j] = ranges[k]
          BY <4>3, <3>3, <2>3
        <5> QED BY <4>1, <5>1, <1>1, CoveredMember
      <4> QED BY <4>2, <4>3
    <3> QED BY <3>1, <3>7, <3>8
  <2>7. CASE ~ (\/ n = ranges[i].End \/ n + 1 = ranges[i].Begin \/ n < ranges[i].Begin - 1)
    BY <2>2, <2>7
  <2> QED BY <2>4, <2>5, <2>6, <2>7
<1> QED BY <1>4, <1>5, <1>6

-----------------------------------------------------------------------------
(* The wire form *)

\* A number within a word is not wrapped, and one just below zero is too large for
\* a varint.
LEMMA WrapFacts ==
    \A d \in Nat : EncodeVarintOK(d) => Wrap(d) = d /\ ~ EncodeVarintOK(Wrap(0 - 1))
<1> DEFINE q == 2^(Width - 2)  w == 2^Width
<1>1. q \in Nat /\ w = 4 * q
  BY PowersAssumption
<1>2. \A d : Wrap(d) = d % w /\ (EncodeVarintOK(d) <=> d < q)
  BY DEF Wrap, EncodeVarintOK
<1> HIDE DEF q, w
<1> SUFFICES ASSUME NEW d \in Nat, d < q PROVE d % w = d /\ ~ ((0 - 1) % w < q)
  BY <1>2
<1>3. d % w = d
  BY <1>1
<1>4. (0 - 1) % w = w - 1
  BY <1>1
<1> QED BY <1>1, <1>3, <1>4

\* In an ACK that can be encoded every number fits a varint, as the largest does.
LEMMA NumbersFit ==
    ASSUME NEW ranges, Apart(ranges), ~ TransferACKFails(ranges)
    PROVE  \A j \in 1 .. Len(ranges) :
               EncodeVarintOK(ranges[j].Begin) /\ EncodeVarintOK(ranges[j].End)
<1> DEFINE L == Len(ranges)
<1> SUFFICES ASSUME NEW j \in 1 .. L
             PROVE  EncodeVarintOK(ranges[j].Begin) /\ EncodeVarintOK(ranges[j].End)
  OBVIOUS
<1>1. /\ L \in Nat /\ L \in 1 .. L
      /\ \A m \in 1 .. L : /\ ranges[m].Begin \in Nat /\ ranges[m].End \in Nat
                           /\ ranges[m].Begin < ranges[m].End
      /\ \A m, n \in 1 .. L : m < n => ranges[m].End < ranges[n].Begin
  BY ApartFacts
<1>2. ranges[L].End < 2^(Width - 2) /\ 2^(Width - 2) \in Nat
  BY PowersAssumption DEF TransferACKFails, EncodeVarintOK
<1>3. ranges[j].End <= ranges[L].End
  <2>1. CASE j = L
    BY <2>1, <1>1
  <2>2. CASE j # L
    <3>1. j < L
      BY <2>2, <1>1
    <3>2. ranges[j].End < ranges[L].Begin
      BY <3>1, <1>1
    <3> QED BY <3>2, <1>1
  <2> QED BY <2>1, <2>2
<1> HIDE DEF L
<1> QED BY <1>1, <1>2, <1>3 DEF EncodeVarintOK

\* The offset of a range in an ACK that can be encoded is the true distance: where
\* the subtraction would pass below zero the varint is refused.
LEMMA OffsetIsDistance ==
    ASSUME NEW ranges, Apart(ranges), ~ TransferACKFails(ranges),
           NEW j \in 1 .. Len(ranges) - 1
    PROVE  /\ AckOffset(ranges, j) = ranges[j + 1].Begin - ranges[j].End - 2
           /\ ranges[j + 1].Begin - ranges[j].End - 2 \in Nat
<1>1. /\ Len(ranges) \in Nat /\ j \in 1 .. Len(ranges) /\ j + 1 \in 1 .. Len(ranges)
      /\ ranges[j].End \in Nat /\ ranges[j + 1].Begin \in Nat
      /\ ranges[j].End < ranges[j + 1].Begin
  BY ApartFacts
<1> DEFINE d == ranges[j + 1].Begin - ranges[j].End - 2
<1>2. EncodeVarintOK(Wrap(d))
  BY DEF TransferACKFails, AckOffset
<1>3. d \in Int /\ d >= 0 - 1 /\ d <= ranges[j + 1].Begin
  BY <1>1
<1>4. AckOffset(ranges, j) = Wrap(d)
  BY DEF AckOffset
<1> HIDE DEF d
<1>5. EncodeVarintOK(ranges[j + 1].Begin)
  BY <1>1, NumbersFit
<1>6. d \in Nat
  <2>1. d # 0 - 1
    BY <1>1, <1>2, <1>5, WrapFacts
  <2> QED BY <2>1, <1>3
<1>7. Wrap(d) = d
  <2>1. EncodeVarintOK(d)
    BY <1>1, <1>3, <1>5, <1>6, PowersAssumption DEF EncodeVarintOK
  <2> QED BY <2>1, <1>6, WrapFacts
<1> QED BY <1>4, <1>6, <1>7 DEF d

\* What the peer decodes from an ACK is what was encoded (TransferACK, decodeRanges).
LEMMA DecodesToItself ==
    ASSUME NEW ranges, Apart(ranges), ~ TransferACKFails(ranges)
    PROVE  decodeRanges(TransferACK(ranges)) = ranges
<1> DEFINE L == Len(ranges)
           top == ranges[L]
           pkt == TransferACK(ranges)
           k == Len(pkt.Ranges)
           Step(g) == [i \in 0 .. k |->
                          IF i = 0 THEN Wrap(pkt.LargestAck - pkt.FirstDelta - 1)
                          ELSE Wrap(g[i - 1] - pkt.Ranges[i].Offset - 2
                                             - pkt.Ranges[i].Delta - 1)]
           begin == CHOOSE g : g = Step(g)
           end(i) == IF i = 0 THEN pkt.LargestAck
                     ELSE Wrap(begin[i - 1] - pkt.Ranges[i].Offset - 2)
           Begins == [i \in 0 .. k |-> ranges[L - i].Begin]
<1>1. /\ ranges \in Seq(Spans) /\ L \in Nat /\ DOMAIN ranges = 1 .. L
      /\ \A j \in 1 .. L : /\ ranges[j].Begin \in Nat /\ ranges[j].End \in Nat
                           /\ ranges[j].Begin < ranges[j].End
                           /\ ranges[j] \in Spans
  BY ApartFacts
<1>2. L >= 1
  <2>1. ranges # <<>>
    BY DEF TransferACKFails
  <2> QED BY <2>1, <1>1
<1>3. decodeRanges(pkt) = Reverse([i \in 1 .. k + 1 |-> [Begin |-> begin[i - 1], End |-> end(i - 1)]])
  BY DEF decodeRanges
<1>4. /\ k = L - 1
      /\ pkt.LargestAck = top.End /\ pkt.FirstDelta = top.End - top.Begin - 1
      /\ \A i \in 1 .. k : /\ pkt.Ranges[i].Offset = AckOffset(ranges, L - i)
                           /\ pkt.Ranges[i].Delta = ranges[L - i].End - ranges[L - i].Begin - 1
  BY <1>1, <1>2 DEF TransferACK
<1> HIDE DEF pkt, k
<1>5. /\ top.Begin \in Nat /\ top.End \in Nat
      /\ pkt.LargestAck - pkt.FirstDelta - 1 = top.Begin
      /\ Wrap(top.Begin) = top.Begin
  BY <1>1, <1>2, <1>4, WrapFacts, NumbersFit
<1>6. ASSUME NEW i \in 1 .. k
      PROVE  /\ L - i \in 1 .. L /\ L - (i - 1) \in 1 .. L
             /\ ranges[L - (i - 1)].Begin - pkt.Ranges[i].Offset - 2 = ranges[L - i].End
             /\ ranges[L - (i - 1)].Begin - pkt.Ranges[i].Offset - 2 - pkt.Ranges[i].Delta - 1
                   = ranges[L - i].Begin
             /\ Wrap(ranges[L - i].End) = ranges[L - i].End
             /\ Wrap(ranges[L - i].Begin) = ranges[L - i].Begin
  <2> DEFINE j == L - i
  <2>1. j \in 1 .. L - 1 /\ j + 1 = L - (i - 1) /\ j \in 1 .. L /\ j + 1 \in 1 .. L
    BY <1>1, <1>4
  <2>2. /\ pkt.Ranges[i].Offset = ranges[j + 1].Begin - ranges[j].End - 2
        /\ pkt.Ranges[i].Delta = ranges[j].End - ranges[j].Begin - 1
    BY <1>4, <2>1, OffsetIsDistance
  <2> HIDE DEF j
  <2>3. Wrap(ranges[j].End) = ranges[j].End /\ Wrap(ranges[j].Begin) = ranges[j].Begin
    BY <1>1, <1>2, <2>1, WrapFacts, NumbersFit
  <2>4. /\ ranges[j + 1].Begin - pkt.Ranges[i].Offset - 2 = ranges[j].End
        /\ ranges[j + 1].Begin - pkt.Ranges[i].Offset - 2 - pkt.Ranges[i].Delta - 1
              = ranges[j].Begin
    <3>1. ranges[j + 1].Begin \in Int /\ ranges[j].End \in Int /\ ranges[j].Begin \in Int
      BY <1>1, <2>1
    <3>2. \A a, b, c \in Int : /\ a - (a - b - 2) - 2 = b
                               /\ a - (a - b - 2) - 2 - (b - c - 1) - 1 = c
      OBVIOUS
    <3> QED BY SMTT(30), <2>2, <3>1, <3>2
  <2>5. j = L - i
    BY DEF j
  <2> QED BY <2>1, <2>3, <2>4, <2>5
<1>7. Begins = Step(Begins)
  <2>1. ASSUME NEW i \in 0 .. k PROVE Begins[i] = Step(Begins)[i]
    <3>1. CASE i = 0
      BY <3>1, <1>1, <1>4, <1>5
    <3>2. CASE i # 0
      <4>1. i \in 1 .. k /\ i - 1 \in 0 .. k
        BY <3>2, <1>2, <1>4
      <4>2. Begins[i - 1] = ranges[L - (i - 1)].Begin
        BY <4>1
      <4>3. Step(Begins)[i] = Wrap(Begins[i - 1] - pkt.Ranges[i].Offset - 2
                                             - pkt.Ranges[i].Delta - 1)
        BY <3>2
      <4> QED BY <4>1, <4>2, <4>3, <1>6
    <3> QED BY <3>1, <3>2
  <2> QED BY <2>1
<1>8. begin = Step(begin)
  BY <1>7
<1> HIDE DEF begin
<1>9. \A i \in 0 .. k : begin[i] = ranges[L - i].Begin
  <2> DEFINE S == {i \in 0 .. k : begin[i] = ranges[L - i].Begin}
  <2>1. 0 \in S
    <3>1. 0 \in 0 .. k
      BY <1>2, <1>4
    <3>2. begin[0] = Wrap(pkt.LargestAck - pkt.FirstDelta - 1)
      BY <1>8, <3>1
    <3> QED BY <3>1, <3>2, <1>1, <1>5
  <2>2. ASSUME NEW i \in 0 .. k, i \in S, i < k PROVE i + 1 \in S
    <3>1. i + 1 \in 1 .. k /\ i + 1 \in 0 .. k /\ (i + 1) - 1 = i /\ i + 1 # 0
      BY <2>2, <1>2, <1>4
    <3>2. begin[i + 1] = Wrap(begin[(i + 1) - 1] - pkt.Ranges[i + 1].Offset - 2
                                                 - pkt.Ranges[i + 1].Delta - 1)
      <4>1. begin[i + 1] = Step(begin)[i + 1]
        BY <1>8
      <4> QED BY <4>1, <3>1
    <3>3. begin[(i + 1) - 1] = ranges[L - ((i + 1) - 1)].Begin
      BY <3>1, <2>2
    <3>4. begin[i + 1] = ranges[L - (i + 1)].Begin
      BY <3>1, <3>2, <3>3, <1>6
    <3> QED BY <3>1, <3>4
  <2>3. 0 \in Nat /\ k \in Nat
    BY <1>2, <1>4
  <2> HIDE DEF S
  <2>4. \A i \in 0 .. k : i \in S
    BY <2>1, <2>2, <2>3, IntervalInduction
  <2> QED BY <2>4 DEF S
<1>10. ASSUME NEW i \in 0 .. k PROVE end(i) = ranges[L - i].End
  <2>1. CASE i = 0
    BY <2>1, <1>1, <1>4
  <2>2. CASE i # 0
    <3>1. i \in 1 .. k /\ i - 1 \in 0 .. k
      BY <2>2, <1>2, <1>4
    <3>2. begin[i - 1] = ranges[L - (i - 1)].Begin
      BY <3>1, <1>9
    <3> QED BY <2>2, <3>1, <3>2, <1>6
  <2> QED BY <2>1, <2>2
<1> HIDE DEF end
<1> DEFINE down == [i \in 1 .. k + 1 |-> [Begin |-> begin[i - 1], End |-> end(i - 1)]]
<1>11. down = [i \in 1 .. L |-> ranges[L - i + 1]]
  <2>1. ASSUME NEW i \in 1 .. L
        PROVE  [Begin |-> begin[i - 1], End |-> end(i - 1)] = ranges[L - i + 1]
    <3>1. i - 1 \in 0 .. k /\ L - (i - 1) = L - i + 1 /\ L - i + 1 \in 1 .. L
      BY <1>1, <1>4
    <3>2. begin[i - 1] = ranges[L - i + 1].Begin /\ end(i - 1) = ranges[L - i + 1].End
      BY <3>1, <1>9, <1>10
    <3>3. ranges[L - i + 1] \in Spans
      BY <3>1, <1>1
    <3> QED BY <3>2, <3>3 DEF Spans
  <2>2. k + 1 = L
    BY <1>1, <1>4
  <2> QED BY <2>1, <2>2
<1> HIDE DEF down
<1>12. Reverse(down) = ranges
  <2>1. Len(down) = L /\ \A i \in 1 .. L : down[i] = ranges[L - i + 1]
    BY <1>1, <1>11
  <2>2. Reverse(down) = [i \in 1 .. L |-> down[(L - i) + 1]]
    BY <2>1 DEF Reverse
  <2>3. ASSUME NEW i \in 1 .. L PROVE down[(L - i) + 1] = ranges[i]
    <3>1. (L - i) + 1 \in 1 .. L /\ L - ((L - i) + 1) + 1 = i
      BY <1>1
    <3> QED BY <3>1, <2>1
  <2> QED BY <2>2, <2>3, <1>1
<1> QED BY <1>3, <1>12 DEF down, pkt

-----------------------------------------------------------------------------
(* The tracker on its own, as PacketNumTracker has it *)

\* The ranges pending and the ranges taken are in normal form and hold only numbers
\* that arrived; so does every ACK the peer has decoded.
TrackerInv ==
    /\ Apart(unackedRanges) /\ Apart(taken)
    /\ Covered(unackedRanges) \subseteq arrived
    /\ arrived \subseteq PN /\ decoded \subseteq arrived
    /\ largestPN = {} \/ \E n \in PN : largestPN = {n}
    /\ recvAdded \in BOOLEAN
    /\ OwedAckWakesLoop

LEMMA EmptyIsApart == Apart(<<>>) /\ Covered(<<>>) = {}
<1>1. <<>> \in Seq(Spans) /\ Len(<<>>) = 0
  OBVIOUS
<1>2. Apart(<<>>)
  BY <1>1 DEF Apart
<1>3. ASSUME NEW n \in Covered(<<>>) PROVE FALSE
  <2>1. \E i \in 1 .. Len(<<>>) : n \in <<>>[i].Begin .. (<<>>[i].End - 1)
    BY <1>1, <1>3, CoveredMember, Zenon
  <2> QED BY <2>1, <1>1
<1> QED BY <1>2, <1>3

LEMMA InsertUnackedInv ==
    ASSUME TrackerInv, NEW n \in PN, InsertUnacked(n) PROVE TrackerInv'
<1>1. /\ Apart(InsertInto(unackedRanges, n))
      /\ Covered(InsertInto(unackedRanges, n)) \subseteq Covered(unackedRanges) \cup {n}
  BY InsertIntoFacts DEF TrackerInv, PN
<1>2. Apart(unackedRanges)' /\ Apart(taken)'
  BY <1>1 DEF TrackerInv, InsertUnacked
<1>3. Covered(unackedRanges)' \subseteq arrived'
  BY <1>1 DEF TrackerInv, InsertUnacked
<1>4. arrived' \subseteq PN /\ decoded' \subseteq arrived'
  BY DEF TrackerInv, InsertUnacked
<1>5. largestPN' = {} \/ \E m \in PN : largestPN' = {m}
  BY DEF TrackerInv, InsertUnacked
<1>6. recvAdded' \in BOOLEAN /\ OwedAckWakesLoop'
  BY DEF TrackerInv, InsertUnacked, OwedAckWakesLoop
<1> QED BY <1>2, <1>3, <1>4, <1>5, <1>6 DEF TrackerInv

LEMMA GenerateACKInv ==
    ASSUME TrackerInv, GenerateACK PROVE TrackerInv'
<1>1. Apart(unackedRanges)' /\ Covered(unackedRanges)' = {}
  BY EmptyIsApart DEF GenerateACK
<1>2. Apart(taken)'
  BY DEF TrackerInv, GenerateACK
<1>3. decoded' \subseteq arrived'
  <2>1. CASE TransferACKFails(unackedRanges)
    BY <2>1 DEF TrackerInv, GenerateACK
  <2>2. CASE ~ TransferACKFails(unackedRanges)
    <3>1. decodeRanges(TransferACK(unackedRanges)) = unackedRanges
      BY <2>2, DecodesToItself DEF TrackerInv
    <3> QED BY <2>2, <3>1 DEF TrackerInv, GenerateACK
  <2> QED BY <2>1, <2>2
<1>4. /\ arrived' \subseteq PN /\ largestPN' = {} /\ recvAdded' \in BOOLEAN
      /\ OwedAckWakesLoop'
  BY DEF TrackerInv, GenerateACK, OwedAckWakesLoop
<1> QED BY <1>1, <1>2, <1>3, <1>4 DEF TrackerInv

\* The inductive invariant of the tracker, for every order of arrival.
THEOREM TrackerInvariance == TrackerSpec => []TrackerInv
<1>1. TrackerInit => TrackerInv
  BY EmptyIsApart DEF TrackerInit, TrackerInv, OwedAckWakesLoop
<1>2. TrackerInv /\ [TrackerNext]_trackerVars => TrackerInv'
  <2> SUFFICES ASSUME TrackerInv, [TrackerNext]_trackerVars PROVE TrackerInv'
    OBVIOUS
  <2>1. CASE \E n \in PN : InsertUnacked(n)
    BY <2>1, InsertUnackedInv
  <2>2. CASE GenerateACK
    BY <2>2, GenerateACKInv
  <2>3. CASE UNCHANGED trackerVars
    BY <2>3 DEF TrackerInv, OwedAckWakesLoop, trackerVars
  <2> QED BY <2>1, <2>2, <2>3 DEF TrackerNext
<1> QED BY <1>1, <1>2, PTL DEF TrackerSpec

\* The range list of pn_track.go is in normal form after every arrival and every ACK:
\* ranges that are not empty, ascending, and never two that touch.
THEOREM TrackerRangesNormal == TrackerSpec => []RangesNormal
<1>1. TrackerInv => RangesNormal
  <2> SUFFICES ASSUME TrackerInv PROVE RangesNormal
    OBVIOUS
  <2> DEFINE u == unackedRanges
  <2>1. /\ u \in Seq(Spans) /\ Len(u) \in Nat /\ DOMAIN u = 1 .. Len(u)
        /\ \A i \in 1 .. Len(u) : /\ u[i] \in Spans
                                  /\ u[i].Begin \in Nat /\ u[i].End \in Nat
                                  /\ u[i].Begin < u[i].End
        /\ \A i, j \in 1 .. Len(u) : i < j => u[i].End < u[j].Begin
    BY ApartFacts DEF TrackerInv
  <2>2. \A i \in 1 .. Len(u) : u[i] \in PNRange
    <3> SUFFICES ASSUME NEW i \in 1 .. Len(u) PROVE u[i] \in PNRange
      OBVIOUS
    <3> DEFINE b == u[i].Begin  e == u[i].End
    <3>1. b \in b .. (e - 1) /\ e - 1 \in b .. (e - 1)
      BY <2>1
    <3>2. b \in Covered(u) /\ e - 1 \in Covered(u)
      BY <2>1, <3>1, CoveredMember, Zenon
    <3>3. b \in 0 .. MaxNumber /\ e - 1 \in 0 .. MaxNumber
      BY <3>2 DEF TrackerInv, PN
    <3>4. e \in 1 .. MaxNumber + 1
      BY <3>3, <2>1, PNAssumption
    <3>5. u[i] = [Begin |-> b, End |-> e]
      BY <2>1 DEF Spans
    <3> HIDE DEF b, e
    <3> QED BY <3>3, <3>4, <3>5 DEF PNRange, PN
  <2>9. u \in Seq(PNRange) /\ Len(u) <= MaxNumber + 1
    <3>1. u \in Seq(PNRange)
      BY <2>1, <2>2
    <3>2. CASE Len(u) = 0
      BY <3>1, <3>2, PNAssumption
    <3>3. CASE Len(u) # 0
      <4>1. Len(u) \in 1 .. Len(u)
        BY <3>3, <2>1
      <4>2. Len(u) - 1 <= u[Len(u)].Begin
        BY <4>1, BeginsAbove DEF TrackerInv
      <4>3. u[Len(u)].Begin \in 0 .. MaxNumber
        BY <4>1, <2>2 DEF PNRange, PN
      <4> QED BY <3>1, <4>1, <4>2, <4>3, <2>1, PNAssumption
    <3> QED BY <3>2, <3>3
  <2>3. largestPN \in SUBSET PN /\ Cardinality(largestPN) <= 1
    <3>1. CASE largestPN = {}
      BY <3>1, FS_EmptySet
    <3>2. CASE largestPN # {}
      <4>1. PICK n \in PN : largestPN = {n}
        BY <3>2 DEF TrackerInv
      <4>2. Cardinality({n}) = 1
        BY FS_Singleton
      <4> QED BY <4>1, <4>2
    <3> QED BY <3>1, <3>2
  <2>4. decoded \in SUBSET Int /\ arrived \in SUBSET PN /\ recvAdded \in BOOLEAN
    BY PNAssumption DEF TrackerInv, PN
  <2>5. TrackerTypeOK
    BY <2>9, <2>3, <2>4 DEF TrackerTypeOK
  <2>6. \A i \in DOMAIN u : u[i].Begin < u[i].End
    BY <2>1
  <2>7. \A i \in 1 .. Len(u) - 1 : u[i].End < u[i + 1].Begin
    BY <2>1
  <2> QED BY <2>5, <2>6, <2>7 DEF RangesNormal
<1> QED BY <1>1, TrackerInvariance, PTL

\* The peer never decodes an acknowledgement of a packet that did not arrive, and
\* decodes exactly the ranges that were encoded (GenerateACK, TransferACK, decodeRanges).
THEOREM TrackerAcksExact == TrackerSpec => []AcksExact
<1>1. TrackerInv => AcksExact
  BY DecodesToItself DEF TrackerInv, AcksExact, NeverAcksUnreceived, EncodedAckIsExact
<1> QED BY <1>1, TrackerInvariance, PTL

\* While an ACK is owed the run loop has a token to wake on.
THEOREM TrackerWakes == TrackerSpec => []OwedAckWakesLoop
<1>1. TrackerInv => OwedAckWakesLoop
  BY DEF TrackerInv
<1> QED BY <1>1, TrackerInvariance, PTL

-----------------------------------------------------------------------------
(* Nothing forgotten: what the sender tracks, queues and has outstanding, what the
   network carries and what the receiver has, related to each other *)

\* The ranges of the outstanding packets; all ranges the sender knows; the chunks in
\* the network; the packet numbers the receiver has or had recorded; the bytes it has.
Sent == {p.range : p \in outstanding}
Held == sentRanges \cup ToSet(retransmitQueue) \cup Sent
Flying == {p.chunk : p \in net}
Recorded == Covered(unackedRanges) \cup UNION acks
Here == {o \in Nat : Arrived(o)}

\* Two ranges have a byte in common; they are the same bytes.
Shares(x, y) == x.Offset < End(y) /\ y.Offset < End(x)
SameExtent(x, y) == x.Offset = y.Offset /\ x.Len = y.Len /\ x.Eof = y.Eof

\* a and b are a multiple of n apart.
OnGrid(n, a, b) == \E m \in Int : a = b + m * n

\* Ranges that share bytes were cut from one at multiples of the room: the one that
\* ends earlier fills a packet, and only ranges that end together agree on the EOF.
CutAlike(n, x, y) ==
    Shares(x, y) =>
        /\ OnGrid(n, x.Offset, y.Offset)
        /\ End(x) < End(y) => x.Len = n
        /\ End(y) < End(x) => y.Len = n
        /\ End(x) = End(y) => x.Eof = y.Eof

\* The receiver has the bytes on both sides of o, or neither.
Joined(S, o) == o - 1 \in S <=> o \in S

NumInv ==
    /\ \A p \in outstanding : p.pn < nextPN
    /\ \A p \in net : p.pn < nextPN
    /\ \A p, q \in outstanding : p.pn = q.pn => p = q
    /\ \A p \in net, q \in outstanding : p.pn = q.pn => p.chunk = Chunk(q.range)
    /\ Apart(unackedRanges)
    /\ \A n \in Recorded : n \in Nat /\ n < nextPN
    /\ \A x \in Held : x.id < freshId

ShapeInv ==
    /\ \A x \in Held, y \in Held \cup Flying : CutAlike(room, x, y)
    /\ roomChanges = 0 =>
          /\ \A x \in Held : x.Len <= room
          /\ \A x, y \in Held : Shares(x, y) => x = y
          /\ \A x \in Held, y \in Flying : Shares(x, y) => SameExtent(x, y)

WholeInv ==
    /\ \A x \in Held : \A o \in x.Offset + 1 .. End(x) - 1 :
          roomChanges = 0 \/ ~ OnGrid(room, o, x.Offset) => Joined(Here, o)
    /\ \A r \in sentRanges \cap Sent : r.Len > room =>
          /\ \A o \in r.Offset + 1 .. End(r) - 1 : Joined(Here, o)
          /\ \A y \in Held : Shares(r, y) => y = r
          /\ \A y \in Flying : Shares(r, y) => SameExtent(r, y)
    /\ \A x \in Held : x.Eof /\ x.Len > 0 /\ dataInBuffer - 1 \in Here => EofArrived

\* The reassembly queue holds disjoint chunks at or above the read position.
QueueInv ==
    /\ \A c, d \in queue : c # d => End(c) <= d.Offset \/ End(d) <= c.Offset
    /\ \A c \in queue : c.Offset >= nextOffset /\ (c.Len = 0 => c.Eof)

HasAll(r) == (\A o \in r.Offset .. End(r) - 1 : o \in Here) /\ (r.Eof => EofArrived)

AckInv ==
    /\ \A p \in outstanding : p.pn \in Recorded /\ p.range \in sentRanges => HasAll(p.range)
    /\ eofSent => EofArrived \/ \E r \in sentRanges : r.Eof
    /\ recvEntry \in {"removed", "recreated"} =>
          EofArrived /\ \A o \in 0 .. dataInBuffer - 1 : o \in Here
    /\ \A o \in 0 .. offset - 1 : o \in Here \/ \E r \in sentRanges : Covers(r, o)

TransferInv == Inv /\ NumInv /\ ShapeInv /\ WholeInv /\ QueueInv /\ AckInv

-----------------------------------------------------------------------------
(* Ranges and the grid *)

LEMMA GridFacts ==
    ASSUME NEW n \in Nat, n > 0
    PROVE  /\ \A a \in Int : OnGrid(n, a, a)
           /\ \A a \in Int : OnGrid(n, a + n, a)
           /\ \A a, b \in Int : OnGrid(n, a, b) => OnGrid(n, b, a)
           /\ \A a, b, c \in Int : OnGrid(n, a, b) /\ OnGrid(n, b, c) => OnGrid(n, a, c)
           /\ \A a, b \in Int : OnGrid(n, a, b) /\ b < a => b + n <= a
<1>1. ASSUME NEW a \in Int PROVE OnGrid(n, a, a)
  <2>1. a = a + 0 * n
    OBVIOUS
  <2> QED BY <2>1 DEF OnGrid
<1>2. ASSUME NEW a \in Int PROVE OnGrid(n, a + n, a)
  <2>1. a + n = a + 1 * n
    OBVIOUS
  <2> QED BY <2>1 DEF OnGrid
<1>3. ASSUME NEW a \in Int, NEW b \in Int, OnGrid(n, a, b) PROVE OnGrid(n, b, a)
  <2>1. PICK m \in Int : a = b + m * n
    BY <1>3 DEF OnGrid
  <2>2. -m \in Int /\ b = a + (-m) * n
    BY <2>1
  <2> QED BY <2>2 DEF OnGrid
<1>4. ASSUME NEW a \in Int, NEW b \in Int, NEW c \in Int, OnGrid(n, a, b), OnGrid(n, b, c)
      PROVE  OnGrid(n, a, c)
  <2>1. PICK m \in Int : a = b + m * n
    BY <1>4 DEF OnGrid
  <2>2. PICK k \in Int : b = c + k * n
    BY <1>4 DEF OnGrid
  <2>3. k + m \in Int /\ a = c + (k + m) * n
    BY <2>1, <2>2
  <2> QED BY <2>3 DEF OnGrid
<1>5. ASSUME NEW a \in Int, NEW b \in Int, OnGrid(n, a, b), b < a PROVE b + n <= a
  <2>1. PICK m \in Int : a = b + m * n
    BY <1>5 DEF OnGrid
  <2>2. m * n \in Int /\ m * n > 0
    BY <2>1, <1>5
  <2>3. m >= 1
    <3> SUFFICES ASSUME m <= 0 PROVE FALSE
      OBVIOUS
    <3>1. m * n <= 0
      OBVIOUS
    <3> QED BY <3>1, <2>2
  <2>4. m * n >= n
    <3>1. (m - 1) * n >= 0
      BY <2>3
    <3>2. m * n = (m - 1) * n + n
      OBVIOUS
    <3> QED BY <3>1, <3>2
  <2> QED BY <2>1, <2>4
<1> QED BY <1>1, <1>2, <1>3, <1>4, <1>5

\* The chunk of a range has its extent.
LEMMA ChunkExtent ==
    ASSUME NEW x
    PROVE  /\ Chunk(x).Offset = x.Offset /\ Chunk(x).Len = x.Len /\ Chunk(x).Eof = x.Eof
           /\ End(Chunk(x)) = End(x)
  BY DEF Chunk, End

\* What the sender knows are ranges, each of them placed.
LEMMA HeldRanges ==
    ASSUME Inv PROVE \A x \in Held : Placed(x) /\ x \in Ranges
<1> SUFFICES ASSUME NEW x \in Held PROVE Placed(x) /\ x \in Ranges
  OBVIOUS
<1>1. CASE x \in sentRanges
  BY <1>1 DEF Inv, SenderInv, TypeOK, SendTypeOK
<1>2. CASE x \in Sent
  BY <1>2 DEF Sent, Inv, PathInv, TypeOK, ConnTypeOK
<1>3. CASE x \in ToSet(retransmitQueue)
  <2>1. retransmitQueue \in Seq(Ranges)
    BY DEF Inv, TypeOK, SendTypeOK
  <2>2. PICK i \in 1 .. Len(retransmitQueue) : x = retransmitQueue[i]
    BY <1>3, <2>1 DEF ToSet
  <2> QED BY <2>1, <2>2 DEF Inv, SenderInv
<1> QED BY <1>1, <1>2, <1>3 DEF Held

\* The extents of ranges, chunks and queued chunks, and where bytes can be.
LEMMA Extents ==
    ASSUME Inv
    PROVE  /\ \A x \in Held \cup Flying \cup queue :
                 /\ x.Offset \in Nat /\ x.Len \in Nat /\ x.Eof \in BOOLEAN
                 /\ End(x) = x.Offset + x.Len /\ End(x) <= offset
                 /\ x.Eof => eofSent /\ End(x) = dataInBuffer
           /\ offset \in Nat /\ dataInBuffer \in Nat /\ nextOffset \in Nat
           /\ nextOffset <= offset /\ offset <= dataInBuffer
           /\ eofSent => offset = dataInBuffer
           /\ room \in Nat /\ room > 0
           /\ \A o \in Here : o \in Nat /\ o < offset
           /\ EofArrived => eofSent
<1>1. ASSUME NEW x, Placed(x), x \in Ranges \/ x \in Chunks
      PROVE  /\ x.Offset \in Nat /\ x.Len \in Nat /\ x.Eof \in BOOLEAN
             /\ End(x) = x.Offset + x.Len /\ End(x) <= offset
             /\ x.Eof => eofSent /\ End(x) = dataInBuffer
  BY <1>1 DEF Placed, Ranges, Chunks, End
<1>2. ASSUME NEW x \in Held PROVE Placed(x) /\ x \in Ranges
  BY HeldRanges
<1>3. ASSUME NEW x \in Flying PROVE Placed(x) /\ x \in Chunks
  BY DEF Flying, Inv, PathInv, TypeOK, ConnTypeOK
<1>4. ASSUME NEW x \in queue PROVE Placed(x) /\ x \in Chunks
  BY DEF Inv, ReceiverInv, TypeOK, QueueTypeOK
<1>5. \A x \in Held \cup Flying \cup queue :
         /\ x.Offset \in Nat /\ x.Len \in Nat /\ x.Eof \in BOOLEAN
         /\ End(x) = x.Offset + x.Len /\ End(x) <= offset
         /\ x.Eof => eofSent /\ End(x) = dataInBuffer
  BY <1>1, <1>2, <1>3, <1>4
<1>6. /\ offset \in Nat /\ dataInBuffer \in Nat /\ nextOffset \in Nat
      /\ nextOffset <= offset /\ offset <= dataInBuffer
      /\ eofSent => offset = dataInBuffer
  BY DEF Inv, TypeOK, SendTypeOK, QueueTypeOK, SenderInv, ReceiverInv
<1>7. ASSUME NEW o \in Here PROVE o \in Nat /\ o < offset
  <2>1. o \in Nat /\ (o < nextOffset \/ \E c \in queue : Covers(c, o))
    BY DEF Here, Arrived
  <2>2. CASE o < nextOffset
    BY <2>1, <2>2, <1>6
  <2>3. CASE \E c \in queue : Covers(c, o)
    <3>1. PICK c \in queue : Covers(c, o)
      BY <2>3
    <3>2. o < End(c) /\ End(c) <= offset /\ End(c) \in Nat
      BY <3>1, <1>5 DEF Covers
    <3> QED BY <2>1, <3>2, <1>6
  <2> QED BY <2>1, <2>2, <2>3
<1>8. EofArrived => eofSent
  BY <1>5 DEF EofArrived, Inv, ReceiverInv
<1> QED BY <1>5, <1>6, <1>7, <1>8, RoomType

\* Being cut alike goes both ways, and the chunk of a range is cut as the range is.
LEMMA AlikeBothWays ==
    ASSUME NEW n \in Nat, n > 0, NEW x, NEW y, x.Offset \in Nat, y.Offset \in Nat,
           CutAlike(n, x, y)
    PROVE  CutAlike(n, y, x)
<1>1. OnGrid(n, x.Offset, y.Offset) => OnGrid(n, y.Offset, x.Offset)
  <2>1. x.Offset \in Int /\ y.Offset \in Int
    OBVIOUS
  <2> QED BY <2>1, GridFacts
<1> QED BY <1>1 DEF CutAlike, Shares

LEMMA AlikeChunk ==
    ASSUME NEW n, NEW x, NEW y
    PROVE  /\ CutAlike(n, x, Chunk(y)) <=> CutAlike(n, x, y)
           /\ Shares(x, Chunk(y)) <=> Shares(x, y)
           /\ SameExtent(x, Chunk(y)) <=> SameExtent(x, y)
  BY ChunkExtent DEF CutAlike, Shares, SameExtent

\* A range is cut like itself.
LEMMA AlikeItself ==
    ASSUME NEW n \in Nat, n > 0, NEW x, x.Offset \in Nat, x.Len \in Nat
    PROVE  CutAlike(n, x, x)
<1>1. x.Offset \in Int /\ End(x) \in Int
  BY DEF End
<1>2. OnGrid(n, x.Offset, x.Offset)
  BY <1>1, GridFacts
<1> QED BY <1>1, <1>2 DEF CutAlike

-----------------------------------------------------------------------------
(* Steps that bring in no range and no byte: verdicts, retransmissions, losses *)

LEMMA KeepsShape ==
    ASSUME Inv, ShapeInv, WholeInv,
           Held' \subseteq Held,
           \A y \in Flying' : y \in Flying \/ \E x \in Held : y = Chunk(x),
           \A r \in sentRanges' \cap Sent' : r.Len > room => r \in sentRanges \cap Sent,
           UNCHANGED <<room, roomChanges, dataInBuffer>>,
           Here' = Here, EofArrived => EofArrived'
    PROVE  ShapeInv' /\ WholeInv'
<1>1. ASSUME NEW x \in Held, NEW y \in Flying'
      PROVE  /\ CutAlike(room, x, y)
             /\ roomChanges = 0 /\ Shares(x, y) => SameExtent(x, y)
             /\ \A r \in sentRanges \cap Sent :
                   r.Len > room /\ Shares(r, y) => SameExtent(r, y)
  <2>1. CASE y \in Flying
    BY <2>1 DEF ShapeInv, WholeInv
  <2>2. CASE y \notin Flying
    <3>1. PICK z \in Held : y = Chunk(z)
      BY <2>2
    <3>2. CutAlike(room, x, z) /\ (roomChanges = 0 /\ Shares(x, z) => x = z)
      BY DEF ShapeInv
    <3>3. \A r \in sentRanges \cap Sent : r.Len > room /\ Shares(r, z) => z = r
      BY DEF WholeInv
    <3>4. SameExtent(x, x) /\ \A r : SameExtent(r, r)
      BY DEF SameExtent
    <3> QED BY <3>1, <3>2, <3>3, <3>4, AlikeChunk
  <2> QED BY <2>1, <2>2
<1>2. ShapeInv'
  <2>1. ASSUME NEW x \in Held', NEW y \in Held' \cup Flying' PROVE CutAlike(room, x, y)
    BY <1>1 DEF ShapeInv
  <2>2. ASSUME roomChanges = 0
        PROVE  /\ \A x \in Held' : x.Len <= room
               /\ \A x, y \in Held' : Shares(x, y) => x = y
               /\ \A x \in Held', y \in Flying' : Shares(x, y) => SameExtent(x, y)
    BY <2>2, <1>1 DEF ShapeInv
  <2> QED BY <2>1, <2>2 DEF ShapeInv
<1>3. WholeInv'
  <2>1. \A x \in Held' : \A o \in x.Offset + 1 .. End(x) - 1 :
           roomChanges = 0 \/ ~ OnGrid(room, o, x.Offset) => Joined(Here, o)
    BY DEF WholeInv
  <2>2. ASSUME NEW r \in sentRanges' \cap Sent', r.Len > room
        PROVE  /\ \A o \in r.Offset + 1 .. End(r) - 1 : Joined(Here, o)
               /\ \A y \in Held' : Shares(r, y) => y = r
               /\ \A y \in Flying' : Shares(r, y) => SameExtent(r, y)
    <3>1. r \in sentRanges \cap Sent /\ r \in Held
      BY <2>2 DEF Held
    <3> QED BY <2>2, <3>1, <1>1 DEF WholeInv
  <2>3. \A x \in Held' : x.Eof /\ x.Len > 0 /\ dataInBuffer - 1 \in Here => EofArrived'
    BY DEF WholeInv
  <2> QED BY <2>1, <2>2, <2>3 DEF WholeInv
<1> QED BY <1>2, <1>3

\* The queue decides what has arrived.
LEMMA HereOfQueue ==
    ASSUME UNCHANGED queueVars
    PROVE  Here' = Here /\ EofArrived' = EofArrived /\ (QueueInv => QueueInv')
<1>1. queue' = queue /\ nextOffset' = nextOffset /\ eofReached' = eofReached
  BY DEF queueVars
<1>2. Here' = Here
  BY <1>1 DEF Here, Arrived
<1>3. EofArrived' = EofArrived
  BY <1>1 DEF EofArrived
<1> QED BY <1>1, <1>2, <1>3 DEF QueueInv

\* A step that retires packets the receiver recorded, queues ranges it knows, and
\* otherwise only drops things.
LEMMA SettledStep ==
    ASSUME TransferInv, Inv', NEW retired \in SUBSET outstanding,
           \A p \in retired : p.pn \in Recorded,
           sentRanges' = sentRanges \ {p.range : p \in retired},
           ToSet(retransmitQueue') \subseteq Held,
           outstanding' \subseteq outstanding, net' \subseteq net,
           UNCHANGED <<dataInBuffer, offset, eofSent, freshId, room, roomChanges>>,
           UNCHANGED queueVars,
           nextPN' >= nextPN, Apart(unackedRanges'), Recorded' \subseteq Recorded,
           recvEntry' \in {"removed", "recreated"} =>
               \/ recvEntry \in {"removed", "recreated"}
               \/ EofArrived /\ \A o \in 0 .. dataInBuffer - 1 : o \in Here
    PROVE  TransferInv'
<1> USE DEF TransferInv
<1>1. Here' = Here /\ EofArrived' = EofArrived /\ QueueInv'
  BY HereOfQueue
<1>2. Sent' \subseteq Sent /\ Flying' \subseteq Flying /\ sentRanges' \subseteq sentRanges
  BY DEF Sent, Flying
<1>3. Held' \subseteq Held
  BY <1>2 DEF Held
<1>4. ShapeInv' /\ WholeInv'
  BY <1>1, <1>2, <1>3, KeepsShape
<1>5. NumInv'
  <2>1. nextPN \in Nat /\ nextPN' \in Nat
    BY DEF Inv, TypeOK, ConnTypeOK
  <2>2. \A p \in outstanding \cup net : p.pn \in Nat
    BY DEF Inv, TypeOK, ConnTypeOK
  <2>3. /\ \A p \in outstanding' : p.pn < nextPN'
        /\ \A p \in net' : p.pn < nextPN'
        /\ \A n \in Recorded' : n \in Nat /\ n < nextPN'
    BY <2>1, <2>2 DEF NumInv
  <2>4. /\ \A p, q \in outstanding' : p.pn = q.pn => p = q
        /\ \A p \in net', q \in outstanding' : p.pn = q.pn => p.chunk = Chunk(q.range)
    BY DEF NumInv
  <2>5. \A x \in Held' : x.id < freshId'
    BY <1>3 DEF NumInv
  <2> QED BY <2>3, <2>4, <2>5 DEF NumInv
<1>6. AckInv'
  <2> DEFINE gone == {p.range : p \in retired}
  <2>1. ASSUME NEW r \in sentRanges \cap gone PROVE HasAll(r)
    BY DEF AckInv
  <2>2. \A p \in outstanding' : p.pn \in Recorded' /\ p.range \in sentRanges' => HasAll(p.range)'
    BY <1>1 DEF AckInv, HasAll
  <2>3. eofSent' => EofArrived' \/ \E r \in sentRanges' : r.Eof
    BY <2>1, <1>1 DEF AckInv, HasAll
  <2>4. recvEntry' \in {"removed", "recreated"} =>
           EofArrived' /\ \A o \in 0 .. dataInBuffer' - 1 : o \in Here'
    BY <1>1 DEF AckInv
  <2>5. ASSUME NEW o \in 0 .. offset - 1
        PROVE  o \in Here \/ \E r \in sentRanges' : Covers(r, o)
    <3>1. CASE o \in Here
      BY <3>1
    <3>2. CASE \E r \in sentRanges : Covers(r, o)
      <4>1. PICK r \in sentRanges : Covers(r, o)
        BY <3>2
      <4>2. CASE r \in sentRanges'
        BY <4>1, <4>2
      <4>3. CASE r \notin sentRanges'
        <5>1. HasAll(r) /\ r \in Held
          BY <4>3, <2>1 DEF Held
        <5>2. r.Offset \in Nat /\ End(r) \in Nat /\ offset \in Nat
          BY <5>1, Extents
        <5>3. o \in r.Offset .. End(r) - 1
          BY <4>1, <5>2 DEF Covers
        <5> QED BY <5>1, <5>3 DEF HasAll
      <4> QED BY <4>2, <4>3
    <3> QED BY <3>1, <3>2 DEF AckInv
  <2>6. \A o \in 0 .. offset' - 1 : o \in Here' \/ \E r \in sentRanges' : Covers(r, o)
    BY <2>5, <1>1
  <2> QED BY <2>2, <2>3, <2>4, <2>6 DEF AckInv
<1> QED BY <1>1, <1>4, <1>5, <1>6

\* In particular a step that leaves the sender's ranges and packets alone.
LEMMA QuietStep ==
    ASSUME TransferInv, Inv',
           UNCHANGED <<sentRanges, retransmitQueue, outstanding>>, net' \subseteq net,
           UNCHANGED <<dataInBuffer, offset, eofSent, freshId, room, roomChanges>>,
           UNCHANGED queueVars,
           nextPN' >= nextPN, Apart(unackedRanges'), Recorded' \subseteq Recorded,
           recvEntry' \in {"removed", "recreated"} =>
               \/ recvEntry \in {"removed", "recreated"}
               \/ EofArrived /\ \A o \in 0 .. dataInBuffer - 1 : o \in Here
    PROVE  TransferInv'
<1> DEFINE retired == {}
<1>1. retired \in SUBSET outstanding /\ (\A p \in retired : p.pn \in Recorded)
  OBVIOUS
<1>2. sentRanges' = sentRanges \ {p.range : p \in retired}
  OBVIOUS
<1>3. ToSet(retransmitQueue') \subseteq Held
  BY DEF Held
<1> HIDE DEF retired
<1> QED BY <1>1, <1>2, <1>3, SettledStep

LEMMA QuietActions ==
    ASSUME TransferInv, Inv',
           \/ UNCHANGED vars \/ AppClose \/ Unpark \/ ReapStream \/ ParkStream
           \/ SendNothing \/ OtherPacket
    PROVE  TransferInv'
<1> USE DEF sendVars, connVars, netVars, recvVars
<1>1. /\ UNCHANGED <<sentRanges, retransmitQueue, outstanding, net>>
      /\ UNCHANGED <<dataInBuffer, offset, eofSent, freshId, room, roomChanges>>
      /\ UNCHANGED <<queueVars, unackedRanges, acks, recvEntry>>
      /\ nextPN' = nextPN \/ nextPN' = nextPN + 1
  <2>1. CASE UNCHANGED vars
    BY <2>1 DEF vars
  <2>2. CASE AppClose
    BY <2>2 DEF AppClose, Close
  <2>3. CASE Unpark \/ ReapStream \/ ParkStream
    BY <2>3 DEF Unpark, ReapStream, ParkStream
  <2>4. CASE SendNothing
    BY <2>4 DEF SendNothing, NothingToSend
  <2>5. CASE OtherPacket
    BY <2>5 DEF OtherPacket
  <2> QED BY <2>1, <2>2, <2>3, <2>4, <2>5
<1>2. nextPN' >= nextPN
  BY <1>1 DEF TransferInv, Inv, TypeOK, ConnTypeOK
<1>3. Apart(unackedRanges') /\ Recorded' = Recorded
  BY <1>1 DEF TransferInv, NumInv, Recorded
<1> QED BY <1>1, <1>2, <1>3, QuietStep

LEMMA NetworkActions ==
    ASSUME TransferInv, Inv',
           \/ \E p \in net : LosePacket(p)
           \/ \E a \in acks : LoseAck(a) \/ StaleACK(a)
    PROVE  TransferInv'
<1> USE DEF sendVars, connVars, netVars, recvVars
<1>1. /\ UNCHANGED <<sentRanges, retransmitQueue, outstanding, nextPN>>
      /\ UNCHANGED <<dataInBuffer, offset, eofSent, freshId, room, roomChanges>>
      /\ UNCHANGED <<queueVars, unackedRanges, recvEntry>>
      /\ net' \subseteq net /\ acks' \subseteq acks
  BY DEF LosePacket, LoseAck, StaleACK
<1>2. nextPN' >= nextPN
  BY <1>1 DEF TransferInv, Inv, TypeOK, ConnTypeOK
<1>3. Apart(unackedRanges') /\ Recorded' \subseteq Recorded
  BY <1>1 DEF TransferInv, NumInv, Recorded
<1> QED BY <1>1, <1>2, <1>3, QuietStep

\* An ACK of the receiver names nothing it did not record (TransferACK, decodeRanges).
LEMMA SendAckAction == ASSUME TransferInv, Inv', SendAck PROVE TransferInv'
<1> USE DEF sendVars, connVars
<1>1. /\ UNCHANGED <<sentRanges, retransmitQueue, outstanding, nextPN, net>>
      /\ UNCHANGED <<dataInBuffer, offset, eofSent, freshId, room, roomChanges>>
      /\ UNCHANGED <<queueVars, recvEntry>>
      /\ unackedRanges' = <<>>
  BY DEF SendAck
<1>2. nextPN' >= nextPN
  BY <1>1 DEF TransferInv, Inv, TypeOK, ConnTypeOK
<1>3. acks' \subseteq acks \cup {Covered(unackedRanges)}
  <2>1. CASE TransferACKFails(unackedRanges)
    BY <2>1 DEF SendAck
  <2>2. CASE ~ TransferACKFails(unackedRanges)
    <3>1. decodeRanges(TransferACK(unackedRanges)) = unackedRanges
      BY <2>2, DecodesToItself DEF TransferInv, NumInv
    <3> QED BY <2>2, <3>1 DEF SendAck
  <2> QED BY <2>1, <2>2
<1>4. Apart(unackedRanges') /\ Recorded' \subseteq Recorded
  <2>1. Covered(unackedRanges') = {}
    BY <1>1, EmptyIsApart
  <2> QED BY <1>1, <1>3, <2>1, EmptyIsApart DEF Recorded
<1> QED BY <1>1, <1>2, <1>4, QuietStep

\* The entry is removed only when the grace period outlasted the recovery.
LEMMA RemoveAction ==
    ASSUME LongGrace = TRUE, TransferInv, Inv', RemoveRecvStream PROVE TransferInv'
<1> USE DEF sendVars, connVars, netVars
<1>1. /\ UNCHANGED <<sentRanges, retransmitQueue, outstanding, nextPN, net>>
      /\ UNCHANGED <<dataInBuffer, offset, eofSent, freshId, room, roomChanges>>
      /\ UNCHANGED <<queueVars, unackedRanges, acks>>
      /\ EofArrived /\ \A o \in 0 .. dataInBuffer - 1 : Arrived(o)
  BY DEF RemoveRecvStream
<1>2. nextPN' >= nextPN
  BY <1>1 DEF TransferInv, Inv, TypeOK, ConnTypeOK
<1>3. Apart(unackedRanges') /\ Recorded' = Recorded
  BY <1>1 DEF TransferInv, NumInv, Recorded
<1>4. \A o \in 0 .. dataInBuffer - 1 : o \in Here
  <2>1. dataInBuffer \in Nat
    BY DEF TransferInv, Inv, TypeOK, SendTypeOK
  <2> QED BY <1>1, <2>1 DEF Here
<1> QED BY <1>1, <1>2, <1>3, <1>4, QuietStep

-----------------------------------------------------------------------------
(* Verdicts *)

\* A verdict queues ranges of the packets found lost.
LEMMA VerdictQueues ==
    ASSUME Inv, NEW retired, NEW lost \in SUBSET outstanding, Verdict(retired, lost)
    PROVE  /\ sentRanges' = sentRanges \ retired
           /\ ToSet(retransmitQueue') \subseteq Held
           /\ UNCHANGED <<dataInBuffer, offset, signalEOF, eofSent, pendingOpen, freshId>>
           /\ sendTrigger' = (sendTrigger \/ Triggers(retired, lost))
<1> DEFINE new == {p.range : p \in lost} \ ToSet(retransmitQueue)
<1>1. /\ UNCHANGED <<dataInBuffer, offset, signalEOF, eofSent, pendingOpen, freshId>>
      /\ sentRanges' = sentRanges \ retired
      /\ sendTrigger' = (sendTrigger \/ Triggers(retired, lost))
      /\ \E order \in [1 .. Cardinality(new) -> new] :
            retransmitQueue' = retransmitQueue \o order
  BY DEF Verdict
<1>2. Cardinality(new) \in Nat
  <2>1. IsFiniteSet(lost)
    BY FS_Subset DEF Inv, PathInv
  <2>2. IsFiniteSet({p.range : p \in lost})
    BY <2>1, RangesOfFinite
  <2>3. IsFiniteSet(new)
    BY <2>2, FS_Subset
  <2> QED
    BY <2>3, FS_CardinalityType
<1>3. new \subseteq Sent /\ new \subseteq Ranges
  BY DEF Sent, Inv, TypeOK, ConnTypeOK
<1>4. PICK order \in [1 .. Cardinality(new) -> new] :
         retransmitQueue' = retransmitQueue \o order
  BY <1>1
<1> HIDE DEF new
<1>5. order \in Seq(Ranges) /\ Len(order) = Cardinality(new)
  BY <1>2, <1>3, <1>4
<1>6. retransmitQueue \in Seq(Ranges)
  BY DEF Inv, TypeOK, SendTypeOK
<1>7. ASSUME NEW x \in ToSet(retransmitQueue') PROVE x \in Held
  <2>1. retransmitQueue' \in Seq(Ranges)
    BY <1>4, <1>5, <1>6
  <2>2. PICK i \in 1 .. Len(retransmitQueue') : x = retransmitQueue'[i]
    BY <2>1 DEF ToSet
  <2>3. CASE i <= Len(retransmitQueue)
    <3>1. retransmitQueue'[i] = retransmitQueue[i] /\ i \in DOMAIN retransmitQueue
      BY <2>3, <1>4, <1>5, <1>6
    <3> QED BY <2>2, <3>1 DEF ToSet, Held
  <2>4. CASE i > Len(retransmitQueue)
    <3>1. /\ retransmitQueue'[i] = order[i - Len(retransmitQueue)]
          /\ i - Len(retransmitQueue) \in 1 .. Cardinality(new)
      BY <2>4, <1>2, <1>4, <1>5, <1>6
    <3> QED BY <2>2, <3>1, <1>3, <1>4 DEF Held
  <2> QED BY <2>3, <2>4, <1>6
<1> QED BY <1>1, <1>7

LEMMA ReceiveACKAction ==
    ASSUME TransferInv, Inv', NEW a \in acks, NEW cut, ReceiveACK(a, cut) PROVE TransferInv'
<1>1. PICK lost \in SUBSET outstanding, retired \in SUBSET outstanding :
         /\ \A p \in retired : p.pn \in a
         /\ outstanding' \subseteq outstanding /\ Verdict({p.range : p \in retired}, lost)
  <2> DEFINE retired == {p \in outstanding : p.pn \in a}
             top == CHOOSE n \in a : \A m \in a : m <= n
             largest == IF top > largestAcked THEN top ELSE largestAcked
             lost == LostUpTo(outstanding \ retired, largest, cut)
  <2>1. /\ outstanding' = (outstanding \ retired) \ lost
        /\ Verdict({p.range : p \in retired}, lost)
    BY DEF ReceiveACK
  <2>2. retired \in SUBSET outstanding /\ lost \in SUBSET outstanding
    BY DEF LostUpTo
  <2> QED
    BY <2>1, <2>2
<1>2. /\ UNCHANGED <<room, roomChanges, nextPN, net, queueVars, recvEntry, unackedRanges>>
      /\ acks' \subseteq acks
  BY DEF ReceiveACK, recvVars
<1>3. /\ sentRanges' = sentRanges \ {p.range : p \in retired}
      /\ ToSet(retransmitQueue') \subseteq Held
      /\ UNCHANGED <<dataInBuffer, offset, eofSent, freshId>>
  BY <1>1, VerdictQueues DEF TransferInv
<1>4. nextPN' >= nextPN
  BY <1>2 DEF TransferInv, Inv, TypeOK, ConnTypeOK
<1>5. Apart(unackedRanges') /\ Recorded' \subseteq Recorded
  BY <1>2 DEF TransferInv, NumInv, Recorded
<1>6. \A p \in retired : p.pn \in Recorded
  BY <1>1 DEF Recorded
<1> QED BY <1>1, <1>2, <1>3, <1>4, <1>5, <1>6, SettledStep

LEMMA TimerActions ==
    ASSUME TransferInv, Inv', Timers PROVE TransferInv'
<1>1. PICK lost \in SUBSET outstanding : outstanding' \subseteq outstanding /\ Verdict({}, lost)
  <2>1. CASE PTO
    <3>1. PICK p \in outstanding : Verdict({}, {p})
      BY <2>1 DEF PTO
    <3>2. outstanding' = outstanding
      BY <2>1 DEF PTO
    <3> QED BY <3>1, <3>2
  <2>2. ASSUME NEW q \in outstanding, LossTimer(q.pn)
        PROVE  \E lost \in SUBSET outstanding :
                  outstanding' \subseteq outstanding /\ Verdict({}, lost)
    BY <2>2 DEF LossTimer, LostUpTo
  <2> QED BY <2>1, <2>2 DEF Timers
<1>2. UNCHANGED <<room, roomChanges, nextPN, net, acks, queueVars, recvEntry, unackedRanges>>
  BY DEF Timers, PTO, LossTimer, recvVars, netVars
<1> DEFINE retired == {}
<1>3. retired \in SUBSET outstanding /\ {p.range : p \in retired} = {}
  OBVIOUS
<1>4. /\ sentRanges' = sentRanges \ {p.range : p \in retired}
      /\ ToSet(retransmitQueue') \subseteq Held
      /\ UNCHANGED <<dataInBuffer, offset, eofSent, freshId>>
  BY <1>1, <1>3, VerdictQueues DEF TransferInv
<1>5. nextPN' >= nextPN
  BY <1>2 DEF TransferInv, Inv, TypeOK, ConnTypeOK
<1>6. Apart(unackedRanges') /\ Recorded' \subseteq Recorded
  BY <1>2 DEF TransferInv, NumInv, Recorded
<1>7. \A p \in retired : p.pn \in Recorded
  OBVIOUS
<1> HIDE DEF retired
<1> QED BY <1>1, <1>2, <1>3, <1>4, <1>5, <1>6, <1>7, SettledStep

-----------------------------------------------------------------------------
(* Writing, reading, and a change of the room *)

\* No EOF is anywhere while the application can still write.
LEMMA AppWriteAction ==
    ASSUME TransferInv, Inv', NEW n \in Nat, NEW eof \in BOOLEAN, AppWrite(n, eof)
    PROVE  TransferInv'
<1> USE DEF TransferInv
<1>1. /\ UNCHANGED <<sentRanges, retransmitQueue, freshId, offset, eofSent>>
      /\ UNCHANGED <<outstanding, net, nextPN, acks, unackedRanges, recvEntry, queueVars>>
      /\ UNCHANGED <<room, roomChanges>>
      /\ ~ signalEOF
  BY DEF AppWrite, AppendData, connVars, netVars, recvVars
<1>2. ~ eofSent /\ ~ EofArrived
  BY <1>1, Extents DEF Inv, SenderInv
<1>3. Here' = Here /\ EofArrived' = EofArrived /\ QueueInv'
  BY <1>1, HereOfQueue
<1>4. Sent' = Sent /\ Flying' = Flying /\ Held' = Held /\ Recorded' = Recorded
  BY <1>1 DEF Sent, Flying, Held, Recorded
<1>5. NumInv'
  BY <1>1, <1>4 DEF NumInv
<1>6. ShapeInv'
  BY <1>1, <1>4 DEF ShapeInv
<1>7. \A x \in Held : ~ x.Eof
  BY <1>2, Extents
<1>8. WholeInv'
  BY <1>1, <1>3, <1>4, <1>7 DEF WholeInv
<1>9. AckInv'
  <2>1. recvEntry' \notin {"removed", "recreated"}
    BY <1>1, <1>2 DEF AckInv
  <2> QED BY <2>1, <1>1, <1>3, <1>4 DEF AckInv, HasAll
<1> QED BY <1>3, <1>5, <1>6, <1>8, <1>9

\* Before the first change ranges that share bytes are the same bytes, so that any
\* room cuts them alike from then on.  A change that finds nothing tracked leaves
\* nothing to be cut.
LEMMA ChangeRoomAction ==
    ASSUME roomChanges' <= 1, TransferInv, Inv', NEW r \in Rooms, ChangeRoom(r)
    PROVE  TransferInv'
<1> USE DEF TransferInv
<1>1. /\ UNCHANGED <<sentRanges, retransmitQueue, freshId, offset, eofSent, dataInBuffer>>
      /\ UNCHANGED <<outstanding, net, nextPN, acks, unackedRanges, recvEntry, queueVars>>
      /\ room' = r
  BY DEF ChangeRoom, sendVars, netVars, recvVars
<1>2. Here' = Here /\ EofArrived' = EofArrived /\ QueueInv'
  BY <1>1, HereOfQueue
<1>3. Sent' = Sent /\ Flying' = Flying /\ Held' = Held /\ Recorded' = Recorded
  BY <1>1 DEF Sent, Flying, Held, Recorded
<1>4. NumInv'
  BY <1>1, <1>3 DEF NumInv
<1>5. room' \in Nat /\ room' > 0
  <2>1. r \in Nat /\ r # 0
    BY TransferAssumption
  <2>2. r > 0
    BY <2>1
  <2> QED BY <2>1, <2>2, <1>1
<1>6. Held = {} \/ (roomChanges = 0 /\ roomChanges' # 0)
  <2>1. CASE AllAcked
    <3>1. Sent = {}
      BY <2>1 DEF AllAcked, Sent
    <3>2. ToSet(retransmitQueue) = {}
      BY <2>1 DEF AllAcked, ToSet
    <3> QED BY <2>1, <3>1, <3>2 DEF AllAcked, Held
  <2>2. CASE ~ AllAcked
    <3>1. roomChanges \in Nat /\ roomChanges' = roomChanges + 1
      BY <2>2, TransferAssumption DEF Inv, TypeOK, ConnTypeOK, ChangeRoom, ChangesMet
    <3> QED BY <3>1
  <2> QED BY <2>1, <2>2
<1>7. ShapeInv'
  <2>1. CASE Held = {}
    BY <2>1, <1>3 DEF ShapeInv
  <2>2. ASSUME roomChanges = 0, NEW x \in Held, NEW y \in Held \cup Flying
        PROVE  CutAlike(room', x, y)
    <3>1. CutAlike(room', x, x)
      BY <1>5, Extents, AlikeItself
    <3>2. Shares(x, y) => SameExtent(x, y)
      BY <2>2 DEF ShapeInv, SameExtent
    <3> QED BY <3>1, <3>2 DEF CutAlike, SameExtent, Shares, End
  <2>3. CASE roomChanges = 0 /\ roomChanges' # 0
    BY <2>2, <2>3, <1>1, <1>3 DEF ShapeInv
  <2> QED BY <2>1, <2>3, <1>6
<1>8. CASE Held = {}
  <2>1. WholeInv'
    BY <1>8, <1>3, <1>1 DEF WholeInv, Held
  <2>2. AckInv'
    BY <1>1, <1>2, <1>3 DEF AckInv, HasAll
  <2> QED BY <1>2, <1>4, <1>7, <2>1, <2>2
<1>9. CASE roomChanges = 0 /\ roomChanges' # 0
  <2>1. ASSUME NEW x \in sentRanges \cap Sent
        PROVE  /\ \A o \in x.Offset + 1 .. End(x) - 1 : Joined(Here, o)
               /\ \A y \in Held : Shares(x, y) => y = x
               /\ \A y \in Flying : Shares(x, y) => SameExtent(x, y)
    <3>1. x \in Held
      BY DEF Held
    <3> QED BY <3>1, <1>9 DEF ShapeInv, WholeInv
  <2>2. \A x \in Held : \A o \in x.Offset + 1 .. End(x) - 1 : Joined(Here, o)
    BY <1>9 DEF WholeInv
  <2>3. \A x \in Held : x.Eof /\ x.Len > 0 /\ dataInBuffer - 1 \in Here => EofArrived
    BY DEF WholeInv
  <2>4. WholeInv'
    BY <2>1, <2>2, <2>3, <1>1, <1>2, <1>3 DEF WholeInv
  <2>5. AckInv'
    BY <1>1, <1>2, <1>3 DEF AckInv, HasAll
  <2> QED BY <1>2, <1>4, <1>7, <2>4, <2>5
<1> QED BY <1>6, <1>8, <1>9

\* A reader takes bytes from the queue that then lie below its position, and the EOF
\* with the last of them.
LEMMA AppReadAction ==
    ASSUME TransferInv, Inv', NEW n \in Nat, AppRead(n) PROVE TransferInv'
<1> USE DEF TransferInv
<1>1. /\ UNCHANGED <<sentRanges, retransmitQueue, freshId, offset, eofSent, dataInBuffer>>
      /\ UNCHANGED <<outstanding, net, nextPN, acks, unackedRanges, recvEntry>>
      /\ UNCHANGED <<room, roomChanges>>
  BY DEF AppRead, sendVars, connVars, netVars, recvVars
<1>2. PICK end \in nextOffset .. nextOffset + n :
         LET partial == {c \in queue : c.Offset < end /\ end < End(c)}
         IN /\ IsReadEnd(end, n)
            /\ queue' = (queue \ (Consumed(end, n) \cup partial))
                          \cup {Trimmed(c, end) : c \in partial}
            /\ nextOffset' = end
            /\ eofReached' = \E c \in Consumed(end, n) :
                                /\ c.Eof
                                /\ \A d \in Consumed(end, n) : d.Offset <= c.Offset
  BY DEF AppRead, ReadDirect
<1> DEFINE partial == {c \in queue : c.Offset < end /\ end < End(c)}
<1>3. /\ nextOffset \in Nat /\ end \in Nat /\ nextOffset <= end /\ end <= nextOffset + n
      /\ offset \in Nat /\ dataInBuffer \in Nat
      /\ \A c \in queue : /\ c.Offset \in Nat /\ c.Len \in Nat /\ End(c) = c.Offset + c.Len
                          /\ c.Eof \in BOOLEAN /\ End(c) <= offset /\ offset <= dataInBuffer
                          /\ c.Eof => End(c) = dataInBuffer
  BY <1>2, Extents
<1>4. \A o \in nextOffset .. end - 1 : \E c \in queue : Covers(c, o)
  BY <1>2 DEF IsReadEnd
<1>5. \A c \in queue : /\ Trimmed(c, end).Offset = end /\ Trimmed(c, end).Len = End(c) - end
                       /\ Trimmed(c, end).Eof = c.Eof /\ End(Trimmed(c, end)) = End(c)
  BY <1>3 DEF Trimmed, End
<1>6. ASSUME NEW c \in queue' PROVE \/ c \in queue /\ c \notin Consumed(end, n) /\ c \notin partial
                                    \/ \E d \in partial : c = Trimmed(d, end)
  BY <1>2
<1>7. \A c \in queue : \/ c \in queue' /\ c.Offset >= end
                       \/ c \in Consumed(end, n) /\ End(c) <= end
                       \/ c \in partial /\ Trimmed(c, end) \in queue'
  BY <1>2, <1>3 DEF Consumed
<1>8. Here' = Here
  <2>1. ASSUME NEW o \in Nat, Arrived(o) PROVE Arrived(o)'
    <3>1. CASE o < end
      BY <3>1, <1>2 DEF Arrived
    <3>2. CASE o >= end
      <4>1. PICK c \in queue : Covers(c, o)
        BY <2>1, <3>2, <1>3 DEF Arrived
      <4>2. ~ (End(c) <= end)
        BY <4>1, <3>2, <1>3 DEF Covers
      <4>3. CASE c \in queue'
        BY <4>1, <4>3 DEF Arrived
      <4>4. CASE Trimmed(c, end) \in queue'
        BY <4>1, <4>4, <3>2, <1>5 DEF Arrived, Covers
      <4> QED BY <4>2, <4>3, <4>4, <1>7
    <3> QED BY <3>1, <3>2, <1>3
  <2>2. ASSUME NEW o \in Nat, Arrived(o)' PROVE Arrived(o)
    <3>1. CASE o < end
      <4>1. CASE o < nextOffset
        BY <4>1 DEF Arrived
      <4>2. CASE o >= nextOffset
        <5>1. o \in nextOffset .. end - 1
          BY <3>1, <4>2, <1>3
        <5> QED BY <5>1, <1>4 DEF Arrived
      <4> QED BY <4>1, <4>2, <1>3
    <3>2. CASE o >= end
      <4>1. PICK c \in queue' : Covers(c, o)
        BY <2>2, <3>2, <1>2, <1>3 DEF Arrived
      <4>2. CASE c \in queue
        BY <4>1, <4>2 DEF Arrived
      <4>3. CASE \E d \in partial : c = Trimmed(d, end)
        <5>1. PICK d \in partial : c = Trimmed(d, end)
          BY <4>3
        <5>2. Covers(d, o)
          BY <4>1, <5>1, <3>2, <1>3, <1>5 DEF Covers
        <5> QED BY <5>2 DEF Arrived
      <4> QED BY <4>2, <4>3, <1>6
    <3> QED BY <3>1, <3>2, <1>3
  <2> QED BY <2>1, <2>2 DEF Here
<1>9. EofArrived => EofArrived'
  <2> SUFFICES ASSUME EofArrived PROVE EofArrived'
    OBVIOUS
  <2>1. PICK c \in queue : c.Eof
    BY DEF EofArrived, AppRead, ReadDirect
  <2>2. CASE c \in queue'
    BY <2>1, <2>2 DEF EofArrived
  <2>3. CASE Trimmed(c, end) \in queue'
    BY <2>1, <2>3, <1>5 DEF EofArrived
  <2>4. CASE c \in Consumed(end, n)
    <3>1. CASE \A d \in Consumed(end, n) : d.Offset <= c.Offset
      BY <2>1, <2>4, <3>1, <1>2 DEF EofArrived
    <3>2. CASE ~ \A d \in Consumed(end, n) : d.Offset <= c.Offset
      <4>1. PICK d \in Consumed(end, n) : ~ (d.Offset <= c.Offset)
        BY <3>2
      <4>2. d \in queue /\ d # c
        BY <4>1, <1>3 DEF Consumed
      <4>3. End(c) <= d.Offset \/ End(d) <= c.Offset
        BY <4>2 DEF QueueInv
      <4>4. d.Offset = dataInBuffer /\ d.Len = 0
        BY <4>1, <4>2, <4>3, <2>1, <1>3
      <4>5. d.Eof
        BY <4>2, <4>4 DEF QueueInv
      <4>6. \A e \in Consumed(end, n) : e.Offset <= d.Offset
        BY <4>4, <1>3 DEF Consumed
      <4> QED BY <4>1, <4>5, <4>6, <1>2 DEF EofArrived
    <3> QED BY <3>1, <3>2
  <2> QED BY <2>2, <2>3, <2>4, <1>7
<1>10. QueueInv'
  <2>1. ASSUME NEW c \in queue' PROVE c.Offset >= end /\ (c.Len = 0 => c.Eof)
    <3>1. CASE \E d \in partial : c = Trimmed(d, end)
      BY <3>1, <1>3, <1>5
    <3>2. CASE c \in queue /\ c \notin Consumed(end, n) /\ c \notin partial
      <4>1. c.Offset >= end
        BY <3>2, <1>3 DEF Consumed
      <4> QED BY <3>2, <4>1 DEF QueueInv
    <3> QED BY <3>1, <3>2, <1>6
  <2>2. ASSUME NEW c \in queue', NEW d \in queue', c # d
        PROVE  End(c) <= d.Offset \/ End(d) <= c.Offset
    <3>1. PICK x \in queue : \/ c = x /\ x \notin partial
                             \/ c = Trimmed(x, end) /\ x \in partial
      BY <1>6
    <3>2. PICK y \in queue : \/ d = y /\ y \notin partial
                             \/ d = Trimmed(y, end) /\ y \in partial
      BY <1>6
    <3>3. x # y
      BY <2>2, <3>1, <3>2
    <3>4. End(x) <= y.Offset \/ End(y) <= x.Offset
      BY <3>3 DEF QueueInv
    <3>5. End(c) = End(x) /\ End(d) = End(y)
      BY <3>1, <3>2, <1>5
    <3>6. /\ c.Offset = x.Offset \/ (c.Offset = end /\ x.Offset < end)
          /\ d.Offset = y.Offset \/ (d.Offset = end /\ y.Offset < end)
      BY <3>1, <3>2, <1>5
    <3> QED BY <3>4, <3>5, <3>6, <1>3
  <2>3. nextOffset' = end
    BY <1>2
  <2> QED BY <2>1, <2>2, <2>3 DEF QueueInv
<1>11. Sent' = Sent /\ Flying' = Flying /\ Held' = Held /\ Recorded' = Recorded
  BY <1>1 DEF Sent, Flying, Held, Recorded
<1>12. NumInv'
  BY <1>1, <1>11 DEF NumInv
<1>13. ShapeInv' /\ WholeInv'
  BY <1>1, <1>8, <1>9, <1>11, KeepsShape
<1>14. AckInv'
  BY <1>1, <1>8, <1>9, <1>11 DEF AckInv, HasAll
<1> QED BY <1>10, <1>12, <1>13, <1>14

-----------------------------------------------------------------------------
(* Reception *)

\* A stretch of bytes joined throughout is there as soon as one of them is.
LEMMA AllOrNone ==
    ASSUME NEW S, NEW a \in Nat, NEW b \in Nat, \A o \in a + 1 .. b - 1 : Joined(S, o),
           NEW w \in a .. b - 1, w \in S
    PROVE  \A o \in a .. b - 1 : o \in S
<1> SUFFICES ASSUME NEW o \in a .. b - 1, o \notin S PROVE FALSE
  OBVIOUS
<1>1. o \in Nat /\ w \in Nat
  OBVIOUS
<1>2. CASE w <= o
  <2>1. \A n \in w .. o : n \in S /\ n < o => n + 1 \in S
    <3> SUFFICES ASSUME NEW n \in w .. o, n \in S, n < o PROVE n + 1 \in S
      OBVIOUS
    <3>1. n + 1 \in a + 1 .. b - 1 /\ (n + 1) - 1 = n
      BY <1>1
    <3> QED BY <3>1 DEF Joined
  <2>2. \A n \in w .. o : n \in S
    BY <1>1, <2>1, IntervalInduction
  <2>3. o \in w .. o
    BY <1>1, <1>2
  <2> QED BY <2>2, <2>3
<1>3. CASE o <= w
  <2> DEFINE T == {n \in Nat : n \notin S}
  <2>1. \A n \in o .. w : n \in T /\ n < w => n + 1 \in T
    <3> SUFFICES ASSUME NEW n \in o .. w, n \notin S, n < w PROVE n + 1 \notin S
      BY <1>1
    <3>1. n + 1 \in a + 1 .. b - 1 /\ (n + 1) - 1 = n
      BY <1>1
    <3> QED BY <3>1 DEF Joined
  <2>2. o \in T
    BY <1>1
  <2> HIDE DEF T
  <2>3. \A n \in o .. w : n \in T
    BY <1>1, <2>1, <2>2, IntervalInduction
  <2>4. w \in o .. w
    BY <1>1, <1>3
  <2>5. w \in T
    BY <2>3, <2>4
  <2> QED BY <2>5 DEF T
<1> QED BY <1>1, <1>2, <1>3

\* Of a range that is tracked and outstanding the receiver has all or nothing.
LEMMA TrackedIsWhole ==
    ASSUME TransferInv, NEW r \in sentRanges \cap Sent,
           NEW w \in r.Offset .. End(r) - 1, w \in Here
    PROVE  HasAll(r)
<1> USE DEF TransferInv
<1>1. r \in Held
  BY DEF Held
<1>2. /\ r.Offset \in Nat /\ r.Len \in Nat /\ End(r) = r.Offset + r.Len
      /\ r.Eof \in BOOLEAN /\ (r.Eof => End(r) = dataInBuffer)
      /\ room \in Nat /\ room > 0
  BY <1>1, Extents
<1>3. ASSUME NEW o \in r.Offset + 1 .. End(r) - 1 PROVE Joined(Here, o)
  <2>1. CASE r.Len > room
    BY <2>1 DEF WholeInv
  <2>2. CASE r.Len <= room
    <3>1. o \in Int /\ r.Offset \in Int /\ r.Offset < o /\ ~ (r.Offset + room <= o)
      BY <2>2, <1>2
    <3>2. ~ OnGrid(room, o, r.Offset)
      BY <3>1, <1>2, GridFacts
    <3> QED BY <3>2, <1>1 DEF WholeInv
  <2> QED BY <2>1, <2>2, <1>2
<1>4. \A o \in r.Offset .. End(r) - 1 : o \in Here
  <2>1. End(r) \in Nat
    BY <1>2
  <2> QED BY <1>2, <1>3, <2>1, AllOrNone
<1>5. r.Eof => EofArrived
  <2> SUFFICES ASSUME r.Eof PROVE EofArrived
    OBVIOUS
  <2>1. r.Len > 0 /\ End(r) - 1 \in r.Offset .. End(r) - 1
    BY <1>2
  <2>2. dataInBuffer - 1 \in Here
    BY <2>1, <1>2, <1>4
  <2> QED BY <2>1, <2>2, <1>1 DEF WholeInv
<1> QED BY <1>4, <1>5 DEF HasAll

\* A chunk that Push drops has a byte the receiver has, or is an EOF it has.
LEMMA DroppedChunk ==
    ASSUME Inv, QueueInv, NEW c \in Flying,
           eofReached \/ IgnoredChunk(c) \/ Overlapping(c) \/ AfterEof(c)
    PROVE  /\ c.Len > 0 => \E o \in c.Offset .. End(c) - 1 : o \in Here
           /\ c.Len = 0 /\ c.Eof => EofArrived
<1>1. /\ c.Offset \in Nat /\ c.Len \in Nat /\ End(c) = c.Offset + c.Len
      /\ End(c) <= dataInBuffer /\ (c.Eof => End(c) = dataInBuffer)
      /\ nextOffset \in Nat /\ dataInBuffer \in Nat /\ nextOffset <= dataInBuffer
  BY Extents
<1>2. \A d \in queue : /\ d.Offset \in Nat /\ d.Len \in Nat /\ End(d) = d.Offset + d.Len
                       /\ End(d) <= dataInBuffer /\ (d.Eof => End(d) = dataInBuffer)
                       /\ d.Len = 0 => d.Eof
  BY Extents DEF QueueInv
<1>3. eofReached => nextOffset = dataInBuffer
  BY DEF Inv, ReceiverInv
<1>4. ASSUME c.Len > 0 PROVE \E o \in c.Offset .. End(c) - 1 : o \in Here
  <2> DEFINE bytes == c.Offset .. End(c) - 1
  <2>1. c.Offset \in bytes
    BY <1>1, <1>4
  <2>2. CASE c.Offset < nextOffset
    BY <2>1, <2>2, <1>1 DEF Here, Arrived
  <2>3. CASE \E d \in queue : d.Offset <= c.Offset /\ c.Offset < End(d)
    BY <2>1, <2>3, <1>1 DEF Here, Arrived, Covers
  <2>4. CASE \E d \in queue : c.Offset < d.Offset /\ d.Offset < End(c)
    <3>1. PICK d \in queue : c.Offset < d.Offset /\ d.Offset < End(c)
      BY <2>4
    <3>2. d.Offset \in bytes /\ d.Offset < End(d)
      BY <3>1, <1>1, <1>2
    <3>3. d.Offset \in Here
      BY <3>2, <1>2 DEF Here, Arrived, Covers
    <3> QED BY <3>2, <3>3
  <2>5. CASE eofReached
    BY <2>2, <2>5, <1>1, <1>3, <1>4
  <2>6. CASE IgnoredChunk(c)
    <3>1. CASE nextOffset > c.Offset
      BY <3>1, <2>2, <1>1
    <3>2. CASE \E d \in queue : d.Offset = c.Offset
      <4>1. PICK d \in queue : d.Offset = c.Offset
        BY <3>2
      <4>2. d.Len > 0
        BY <4>1, <1>1, <1>2, <1>4
      <4>3. d.Offset <= c.Offset /\ c.Offset < End(d)
        BY <4>1, <4>2, <1>1, <1>2
      <4> QED BY <4>3, <2>3
    <3> QED BY <2>6, <3>1, <3>2, <1>1, <1>4 DEF IgnoredChunk
  <2>7. CASE Overlapping(c)
    <3>1. CASE \E d \in Above(c) : End(c) > d.Offset
      BY <3>1, <2>4, <1>1, <1>2 DEF Above
    <3>2. CASE \E d \in Below(c) : End(d) > c.Offset
      BY <3>2, <2>3, <1>1, <1>2 DEF Below
    <3> QED BY <2>7, <3>1, <3>2 DEF Overlapping
  <2>8. CASE AfterEof(c)
    <3>1. CASE eofReached
      BY <3>1, <2>5
    <3>2. CASE ~ eofReached
      <4>1. PICK d \in queue : d.Eof
        BY <2>8, <3>2 DEF AfterEof
      <4>2. ~ (d.Offset > c.Offset)
        BY <2>8 DEF AfterEof, Above
      <4>3. d.Offset <= c.Offset /\ c.Offset < End(d)
        BY <4>1, <4>2, <1>1, <1>2, <1>4
      <4> QED BY <4>3, <2>3
    <3> QED BY <3>1, <3>2
  <2> QED BY <2>5, <2>6, <2>7, <2>8
<1>5. ASSUME c.Len = 0, c.Eof PROVE EofArrived
  <2>1. c.Offset = dataInBuffer
    BY <1>1, <1>5
  <2>2. CASE eofReached \/ AfterEof(c)
    BY <2>2 DEF EofArrived, AfterEof
  <2>3. CASE IgnoredChunk(c)
    <3>1. PICK d \in queue : d.Offset = c.Offset
      BY <2>1, <2>3, <1>1, <1>5 DEF IgnoredChunk
    <3>2. d.Eof
      BY <3>1, <2>1, <1>2
    <3> QED BY <3>2 DEF EofArrived
  <2>4. CASE Overlapping(c)
    BY <2>1, <2>4, <1>1, <1>2, <1>5 DEF Overlapping, Above, Below
  <2> QED BY <2>2, <2>3, <2>4
<1> QED BY <1>4, <1>5

\* A chunk that arrives joins no two bytes of a range it does not lie on the grid of.
LEMMA ArrivalKeepsWhole ==
    ASSUME Inv, ShapeInv, WholeInv, NEW c \in Flying,
           Here' = Here \cup (c.Offset .. End(c) - 1),
           EofArrived => EofArrived', c.Eof => EofArrived',
           Held' = Held, Sent' = Sent, Flying' \subseteq Flying,
           UNCHANGED <<sentRanges, room, roomChanges, dataInBuffer>>
    PROVE  WholeInv'
<1>1. /\ c.Offset \in Nat /\ c.Len \in Nat /\ End(c) = c.Offset + c.Len
      /\ End(c) <= dataInBuffer /\ dataInBuffer \in Nat
      /\ room \in Nat /\ room > 0
  BY Extents
<1>2. \A x \in Held : /\ x.Offset \in Nat /\ x.Len \in Nat /\ End(x) = x.Offset + x.Len
                      /\ x.Eof \in BOOLEAN /\ (x.Eof => End(x) = dataInBuffer)
  BY Extents
<1>3. ASSUME NEW x \in Held, NEW o \in x.Offset + 1 .. End(x) - 1,
             roomChanges = 0 \/ ~ OnGrid(room, o, x.Offset)
      PROVE  Joined(Here', o)
  <2>1. Joined(Here, o)
    BY <1>3 DEF WholeInv
  <2>2. /\ CutAlike(room, x, c)
        /\ roomChanges = 0 /\ Shares(x, c) => SameExtent(x, c)
    BY DEF ShapeInv
  <2>3. o \in Int /\ x.Offset < o /\ o < End(x) /\ x.Offset \in Nat /\ End(x) \in Nat
    BY <1>2
  <2>4. o # c.Offset \/ c.Len = 0
    <3> SUFFICES ASSUME o = c.Offset, c.Len > 0 PROVE FALSE
      BY <1>1
    <3>1. Shares(x, c)
      BY <2>3, <1>1 DEF Shares
    <3>2. OnGrid(room, x.Offset, c.Offset)
      BY <2>2, <3>1 DEF CutAlike
    <3>3. x.Offset \in Int /\ c.Offset \in Int
      BY <1>1, <1>2
    <3>4. OnGrid(room, o, x.Offset)
      BY <3>2, <3>3, <1>1, GridFacts
    <3>5. SameExtent(x, c)
      BY <3>1, <3>4, <2>2, <1>3
    <3> QED BY <3>5, <2>3 DEF SameExtent
  <2>5. o # End(c) \/ c.Len = 0
    <3> SUFFICES ASSUME o = End(c), c.Len > 0 PROVE FALSE
      BY <1>1
    <3>1. Shares(x, c) /\ End(c) < End(x)
      BY <2>3, <1>1 DEF Shares
    <3>2. OnGrid(room, x.Offset, c.Offset) /\ c.Len = room
      BY <2>2, <3>1 DEF CutAlike
    <3>3. x.Offset \in Int /\ c.Offset \in Int /\ o = c.Offset + room
      BY <3>2, <1>1, <1>2
    <3>4. OnGrid(room, o, c.Offset) /\ OnGrid(room, c.Offset, x.Offset)
      BY <3>2, <3>3, <1>1, GridFacts
    <3>5. OnGrid(room, o, x.Offset)
      BY <3>3, <3>4, <2>3, <1>1, GridFacts
    <3>6. SameExtent(x, c)
      BY <3>1, <3>5, <2>2, <1>3
    <3> QED BY <3>1, <3>6, <1>1, <1>2 DEF SameExtent
  <2>6. o - 1 \in c.Offset .. End(c) - 1 <=> o \in c.Offset .. End(c) - 1
    BY <2>3, <2>4, <2>5, <1>1
  <2> QED BY <2>1, <2>6 DEF Joined
<1>4. ASSUME NEW r \in sentRanges \cap Sent, r.Len > room
      PROVE  /\ \A o \in r.Offset + 1 .. End(r) - 1 : Joined(Here', o)
             /\ \A y \in Held : Shares(r, y) => y = r
             /\ \A y \in Flying : Shares(r, y) => SameExtent(r, y)
  <2>1. /\ \A o \in r.Offset + 1 .. End(r) - 1 : Joined(Here, o)
        /\ \A y \in Held : Shares(r, y) => y = r
        /\ \A y \in Flying : Shares(r, y) => SameExtent(r, y)
    BY <1>4 DEF WholeInv
  <2>2. r \in Held
    BY DEF Held
  <2>3. ASSUME NEW o \in r.Offset + 1 .. End(r) - 1 PROVE Joined(Here', o)
    <3>1. Joined(Here, o)
      BY <2>1
    <3>2. o \in Int /\ r.Offset < o /\ o < End(r)
      BY <2>2, <1>2
    <3>3. Shares(r, c) => SameExtent(r, c)
      BY <2>1
    <3>4. o - 1 \in c.Offset .. End(c) - 1 <=> o \in c.Offset .. End(c) - 1
      BY <3>2, <3>3, <2>2, <1>1, <1>2 DEF Shares, SameExtent
    <3> QED BY <3>1, <3>4 DEF Joined
  <2> QED BY <2>1, <2>3
<1>5. ASSUME NEW x \in Held, x.Eof, x.Len > 0, dataInBuffer - 1 \in Here' PROVE EofArrived'
  <2>1. CASE dataInBuffer - 1 \in Here
    BY <2>1, <1>5 DEF WholeInv
  <2>2. CASE dataInBuffer - 1 \in c.Offset .. End(c) - 1
    <3>1. End(c) = dataInBuffer /\ c.Offset < dataInBuffer
      BY <2>2, <1>1
    <3>2. End(x) = dataInBuffer /\ x.Offset < dataInBuffer
      BY <1>2, <1>5
    <3>3. Shares(x, c) /\ CutAlike(room, x, c)
      BY <3>1, <3>2 DEF Shares, ShapeInv
    <3>4. x.Eof = c.Eof
      BY <3>1, <3>2, <3>3 DEF CutAlike
    <3> QED BY <3>4, <1>5
  <2> QED BY <2>1, <2>2, <1>5
<1> QED BY <1>3, <1>4, <1>5 DEF WholeInv

LEMMA ReceivePacketAction ==
    ASSUME TransferInv, Inv', NEW p \in net, ReceivePacket(p) PROVE TransferInv'
<1> USE DEF TransferInv
<1> DEFINE c == p.chunk
           dropped == eofReached \/ IgnoredChunk(c) \/ Overlapping(c) \/ AfterEof(c)
           gone == recvEntry \in {"removed", "recreated"}
<1>1. /\ UNCHANGED <<sentRanges, retransmitQueue, freshId, offset, eofSent, dataInBuffer>>
      /\ UNCHANGED <<outstanding, nextPN, acks, room, roomChanges>>
      /\ net' = net \ {p}
      /\ unackedRanges' = InsertInto(unackedRanges, p.pn)
      /\ recvEntry' \in {"removed", "recreated"} => gone
      /\ UNCHANGED <<nextOffset, eofReached>>
      /\ gone => queue' = queue
      /\ ~ gone => queue' = IF dropped THEN queue ELSE queue \cup {c}
  BY DEF ReceivePacket, ProcessChunk, sendVars, connVars, queueVars
<1>2. c \in Flying /\ p.pn \in Nat /\ p.pn < nextPN
  BY DEF Flying, NumInv, Inv, TypeOK, ConnTypeOK
<1>3. /\ c.Offset \in Nat /\ c.Len \in Nat /\ End(c) = c.Offset + c.Len /\ c.Eof \in BOOLEAN
      /\ End(c) <= dataInBuffer /\ dataInBuffer \in Nat
      /\ nextOffset \in Nat
      /\ \A d \in queue : d.Offset \in Nat /\ End(d) \in Nat
  BY <1>2, Extents
<1>4. Sent' = Sent /\ Held' = Held /\ Flying' \subseteq Flying
  BY <1>1 DEF Sent, Held, Flying
<1>5. Apart(unackedRanges') /\ Recorded' \subseteq Recorded \cup {p.pn}
  <2>1. /\ Apart(unackedRanges')
        /\ Covered(unackedRanges') \subseteq Covered(unackedRanges) \cup {p.pn}
    BY <1>1, <1>2, InsertIntoFacts DEF NumInv
  <2> QED BY <1>1, <2>1 DEF Recorded
<1>6. NumInv'
  BY <1>1, <1>2, <1>4, <1>5 DEF NumInv
<1>7. ShapeInv'
  BY <1>1, <1>4 DEF ShapeInv
<1> DEFINE accepted == ~ gone /\ ~ dropped
<1>8. CASE accepted
  <2>1. queue' = queue \cup {c} /\ ~ IgnoredChunk(c) /\ ~ Overlapping(c)
    BY <1>1, <1>8
  <2>2. Here' = Here \cup (c.Offset .. End(c) - 1)
    <3>1. ASSUME NEW o \in Nat
          PROVE  Arrived(o)' <=> Arrived(o) \/ o \in c.Offset .. End(c) - 1
      <4>1. Covers(c, o) <=> o \in c.Offset .. End(c) - 1
        BY <1>3 DEF Covers
      <4> QED BY <4>1, <2>1, <1>1 DEF Arrived
    <3>2. c.Offset .. End(c) - 1 \subseteq Nat
      BY <1>3
    <3> QED BY <3>1, <3>2 DEF Here
  <2>3. (EofArrived => EofArrived') /\ (c.Eof => EofArrived')
    BY <2>1, <1>1 DEF EofArrived
  <2>4. WholeInv'
    BY <2>2, <2>3, <1>1, <1>2, <1>4, ArrivalKeepsWhole
  <2>5. QueueInv'
    <3>1. ASSUME NEW d \in queue PROVE End(c) <= d.Offset \/ End(d) <= c.Offset
      BY <2>1, <1>3 DEF IgnoredChunk, Overlapping, Above, Below
    <3>2. c.Offset >= nextOffset /\ (c.Len = 0 => c.Eof)
      BY <2>1, <1>3 DEF IgnoredChunk
    <3> QED BY <2>1, <3>1, <3>2, <1>1 DEF QueueInv
  <2>6. AckInv'
    <3>1. ASSUME NEW q \in outstanding, q.pn \in Recorded', q.range \in sentRanges
          PROVE  HasAll(q.range)'
      <4>1. CASE q.pn \in Recorded
        BY <3>1, <4>1, <2>2, <2>3 DEF AckInv, HasAll
      <4>2. CASE q.pn = p.pn
        <5>1. c = Chunk(q.range)
          BY <4>2 DEF NumInv
        <5> HIDE DEF c
        <5> QED BY <5>1, <2>2, <2>3, ChunkExtent DEF HasAll
      <4> QED BY <3>1, <4>1, <4>2, <1>5
    <3>2. ~ gone
      BY <1>8
    <3> QED BY <3>1, <3>2, <2>2, <2>3, <1>1 DEF AckInv
  <2> QED BY <2>4, <2>5, <2>6, <1>6, <1>7
<1>9. CASE ~ accepted
  <2>1. queue' = queue
    BY <1>1, <1>9
  <2>2. Here' = Here /\ EofArrived' = EofArrived
    <3>1. Here' = Here
      BY <2>1, <1>1 DEF Here, Arrived
    <3> QED BY <3>1, <2>1, <1>1 DEF EofArrived
  <2>3. WholeInv'
    BY <2>2, <1>1, <1>4, KeepsShape
  <2>4. QueueInv'
    BY <2>1, <1>1 DEF QueueInv
  <2>5. ASSUME NEW q \in outstanding, q.pn \in Recorded', q.range \in sentRanges
        PROVE  HasAll(q.range)
    <3>1. CASE q.pn \in Recorded
      BY <2>5, <3>1 DEF AckInv
    <3>2. CASE q.pn = p.pn
      <4>1. c = Chunk(q.range)
        BY <3>2 DEF NumInv
      <4>2. q.range \in sentRanges \cap Sent
        BY <2>5 DEF Sent
      <4> DEFINE r == q.range
      <4>3. /\ r.Offset = c.Offset /\ r.Len = c.Len /\ r.Eof = c.Eof /\ End(r) = End(c)
        BY <4>1, ChunkExtent
      <4>4. CASE gone
        <5>1. EofArrived /\ \A o \in 0 .. dataInBuffer - 1 : o \in Here
          BY <4>4 DEF AckInv
        <5>2. \A o \in r.Offset .. End(r) - 1 : o \in 0 .. dataInBuffer - 1
          BY <4>3, <1>3
        <5> QED BY <5>1, <5>2 DEF HasAll
      <4>5. CASE dropped
        <5>1. /\ c.Len > 0 => \E o \in c.Offset .. End(c) - 1 : o \in Here
              /\ c.Len = 0 /\ c.Eof => EofArrived
          BY <4>5, <1>2, DroppedChunk
        <5>2. CASE c.Len > 0
          <6>1. PICK w \in r.Offset .. End(r) - 1 : w \in Here
            BY <5>1, <5>2, <4>3
          <6> QED BY <6>1, <4>2, TrackedIsWhole
        <5>3. CASE c.Len = 0
          <6>1. r.Offset .. End(r) - 1 = {}
            BY <5>3, <4>3, <1>3
          <6> QED BY <6>1, <5>1, <5>3, <4>3 DEF HasAll
        <5> QED BY <5>2, <5>3, <1>3
      <4> QED BY <4>4, <4>5, <1>9
    <3> QED BY <2>5, <3>1, <3>2, <1>5
  <2>6. AckInv'
    BY <2>2, <2>5, <1>1 DEF AckInv, HasAll
  <2> QED BY <2>3, <2>4, <2>6, <1>6, <1>7
<1> QED BY <1>8, <1>9

-----------------------------------------------------------------------------
(* Sending *)

\* What every packet does to the numbers and to what is under way.
LEMMA SendFacts ==
    ASSUME TransferInv, NEW r, SendPacket(r)
    PROVE  /\ Sent' = Sent \cup {r} /\ Flying' = Flying \cup {Chunk(r)}
           /\ Recorded' = Recorded /\ nextPN \notin Recorded
           /\ outstanding' = outstanding \cup {[pn |-> nextPN, range |-> r]}
           /\ UNCHANGED <<room, roomChanges, recvEntry>>
           /\ Here' = Here /\ EofArrived' = EofArrived /\ QueueInv'
           /\ (\A x \in Held' : x.id < freshId') => NumInv'
<1> USE DEF TransferInv
<1>1. /\ outstanding' = outstanding \cup {[pn |-> nextPN, range |-> r]}
      /\ net' = net \cup {[pn |-> nextPN, chunk |-> Chunk(r)]}
      /\ nextPN' = nextPN + 1
      /\ UNCHANGED <<room, roomChanges, acks, queueVars, unackedRanges, recvEntry>>
  BY DEF SendPacket, recvVars
<1>2. Sent' = Sent \cup {r} /\ Flying' = Flying \cup {Chunk(r)}
  <2> DEFINE new == [pn |-> nextPN, range |-> r]
             data == [pn |-> nextPN, chunk |-> Chunk(r)]
  <2>1. new.range = r /\ data.chunk = Chunk(r)
    OBVIOUS
  <2>2. outstanding' = outstanding \cup {new} /\ net' = net \cup {data}
    BY <1>1
  <2> HIDE DEF new, data
  <2>3. Sent' = Sent \cup {r}
    BY <2>1, <2>2 DEF Sent
  <2>4. Flying' = Flying \cup {Chunk(r)}
    BY <2>1, <2>2 DEF Flying
  <2> QED BY <2>3, <2>4
<1>3. nextPN \in Nat /\ \A p \in outstanding \cup net : p.pn \in Nat
  BY DEF Inv, TypeOK, ConnTypeOK
<1>4. Recorded' = Recorded /\ nextPN \notin Recorded
  BY <1>1, <1>3 DEF Recorded, NumInv
<1>5. Here' = Here /\ EofArrived' = EofArrived /\ QueueInv'
  BY <1>1, HereOfQueue
<1>6. ASSUME \A x \in Held' : x.id < freshId' PROVE NumInv'
  <2>1. /\ \A p \in outstanding' : p.pn < nextPN'
        /\ \A p \in net' : p.pn < nextPN'
        /\ \A n \in Recorded' : n \in Nat /\ n < nextPN'
    BY <1>1, <1>3, <1>4 DEF NumInv
  <2>2. \A p \in outstanding \cup net : p.pn # nextPN
    BY <1>3 DEF NumInv
  <2>3. \A p, q \in outstanding' : p.pn = q.pn => p = q
    BY <2>2, <1>1 DEF NumInv
  <2>4. \A p \in net', q \in outstanding' : p.pn = q.pn => p.chunk = Chunk(q.range)
    BY <2>2, <1>1 DEF NumInv
  <2> QED BY <2>1, <2>3, <2>4, <1>1, <1>6 DEF NumInv
<1> QED BY <1>1, <1>2, <1>4, <1>5, <1>6

\* The ACKs keep their meaning if what they cover is tracked as before.
LEMMA SendKeepsAcks ==
    ASSUME TransferInv, NEW r, SendPacket(r),
           \A x \in Sent : x \in sentRanges' => x \in sentRanges
    PROVE  \A q \in outstanding' : q.pn \in Recorded' /\ q.range \in sentRanges'
                                       => HasAll(q.range)'
<1> SUFFICES ASSUME NEW q \in outstanding', q.pn \in Recorded', q.range \in sentRanges'
             PROVE  HasAll(q.range)'
  OBVIOUS
<1>1. q \in outstanding
  BY SendFacts
<1>2. q.range \in sentRanges /\ q.pn \in Recorded
  BY <1>1, SendFacts DEF Sent
<1>3. HasAll(q.range)
  BY <1>1, <1>2 DEF TransferInv, AckInv
<1> QED BY <1>3, SendFacts DEF HasAll

\* A queued range that fits goes out as it is.
LEMMA RetransmitAction ==
    ASSUME TransferInv, Inv', NEW r, SendPacket(r), Retransmit(room, r)
    PROVE  TransferInv'
<1> USE DEF TransferInv
<1>1. /\ UNCHANGED <<dataInBuffer, offset, eofSent, sentRanges, freshId>>
      /\ retransmitQueue # <<>> /\ r = Head(retransmitQueue) /\ r.Len <= room
      /\ retransmitQueue' = Tail(retransmitQueue)
  BY DEF Retransmit
<1>2. r \in ToSet(retransmitQueue) /\ ToSet(retransmitQueue') \subseteq ToSet(retransmitQueue)
  <2>1. retransmitQueue \in Seq(Ranges)
    BY DEF Inv, TypeOK, SendTypeOK
  <2>2. /\ Head(retransmitQueue) = retransmitQueue[1] /\ 1 \in DOMAIN retransmitQueue
        /\ DOMAIN Tail(retransmitQueue) = 1 .. Len(Tail(retransmitQueue))
        /\ \A i \in DOMAIN Tail(retransmitQueue) :
              i + 1 \in DOMAIN retransmitQueue /\ Tail(retransmitQueue)[i] = retransmitQueue[i + 1]
    BY <1>1, <2>1
  <2> QED BY <2>2, <1>1 DEF ToSet
<1>3. Held' \subseteq Held /\ r \in Held
  BY <1>1, <1>2, SendFacts DEF Held
<1>4. NumInv'
  <2>1. \A x \in Held' : x.id < freshId'
    BY <1>1, <1>3 DEF NumInv
  <2> QED BY <2>1, SendFacts
<1>5. ShapeInv' /\ WholeInv'
  <2>1. \A y \in Flying' : y \in Flying \/ \E x \in Held : y = Chunk(x)
    BY <1>3, SendFacts
  <2>2. room \in Nat /\ r.Len \in Nat
    BY <1>3, Extents
  <2>3. \A x \in sentRanges' \cap Sent' : x.Len > room => x \in sentRanges \cap Sent
    BY <2>2, <1>1, SendFacts
  <2> QED BY <2>1, <2>3, <1>1, <1>3, SendFacts, KeepsShape
<1>6. AckInv'
  BY <1>1, SendFacts, SendKeepsAcks DEF AckInv
<1> QED BY <1>4, <1>5, <1>6, SendFacts

\* New data lies above everything handed over before.
LEMMA SendNewAction ==
    ASSUME TransferInv, Inv', NEW r, SendPacket(r), SendNew(room, r)
    PROVE  TransferInv'
<1> USE DEF TransferInv
<1>1. /\ r = NewRange(freshId, offset, offset, ChunkLen(room), ChunkEof(room))
      /\ offset' = offset + r.Len
      /\ eofSent' = r.Eof /\ ~ eofSent
      /\ sentRanges' = sentRanges \cup {r}
      /\ freshId' = freshId + 1
      /\ UNCHANGED <<dataInBuffer, retransmitQueue>>
  BY DEF SendNew
<1>2. /\ dataInBuffer \in Nat /\ offset \in Nat /\ offset <= dataInBuffer
      /\ room \in Nat /\ room > 0
  BY Extents
<1>3. /\ ChunkLen(room) \in Nat /\ ChunkLen(room) <= room
      /\ offset + ChunkLen(room) <= dataInBuffer
      /\ ChunkEof(room) \in BOOLEAN
      /\ ChunkEof(room) => offset + ChunkLen(room) = dataInBuffer
  BY <1>2 DEF ChunkLen, ChunkEof
<1>4. /\ r.id = freshId /\ r.Offset = offset /\ r.Len \in Nat /\ r.Len <= room
      /\ r.Eof \in BOOLEAN /\ End(r) = offset + r.Len
      /\ End(r) <= dataInBuffer /\ (r.Eof => End(r) = dataInBuffer)
  BY <1>1, <1>3 DEF NewRange, End
<1>5. Held' = Held \cup {r}
  BY <1>1, SendFacts DEF Held
<1>6. \A x \in Held \cup Flying : /\ x.Offset \in Nat /\ End(x) \in Nat /\ End(x) <= offset
                                  /\ ~ x.Eof
  BY <1>1, Extents
<1>7. \A x \in Held \cup Flying : ~ Shares(x, r) /\ ~ Shares(r, x)
  BY <1>2, <1>4, <1>6 DEF Shares
<1>8. NumInv'
  <2>1. freshId \in Nat /\ \A x \in Held : x.id \in Nat /\ x.id < freshId
    <3>1. freshId \in Nat
      BY DEF Inv, TypeOK, SendTypeOK
    <3>2. Held \subseteq Ranges
      BY HeldRanges
    <3> QED BY <3>1, <3>2 DEF NumInv, Ranges
  <2>2. \A x \in Held' : x.id < freshId'
    BY <2>1, <1>1, <1>4, <1>5
  <2> QED BY <2>2, SendFacts
<1>9. r \notin Sent
  <2>1. ~ (freshId < freshId)
    BY DEF Inv, TypeOK, SendTypeOK
  <2> QED BY <2>1, <1>4 DEF NumInv, Held
<1>10. CutAlike(room, r, r)
  BY <1>2, <1>4, AlikeItself
<1>11. ShapeInv'
  <2>1. ASSUME NEW x \in Held \cup {r}, NEW y \in Held \cup {r} \cup Flying \cup {Chunk(r)}
        PROVE  CutAlike(room, x, y)
    <3>1. CASE x \in Held /\ y \in Held \cup Flying
      BY <3>1 DEF ShapeInv
    <3>2. CASE x \in Held /\ y \in {r, Chunk(r)}
      <4>1. CutAlike(room, x, r)
        BY <3>2, <1>7 DEF CutAlike
      <4> QED BY <3>2, <4>1, AlikeChunk
    <3>3. CASE x = r /\ y \in Held \cup Flying
      BY <3>3, <1>7 DEF CutAlike
    <3>4. CASE x = r /\ y \in {r, Chunk(r)}
      BY <3>4, <1>10, AlikeChunk
    <3> QED BY <3>1, <3>2, <3>3, <3>4
  <2>2. ASSUME roomChanges = 0
        PROVE  /\ \A x \in Held \cup {r} : x.Len <= room
               /\ \A x, y \in Held \cup {r} : Shares(x, y) => x = y
               /\ \A x \in Held \cup {r}, y \in Flying \cup {Chunk(r)} :
                     Shares(x, y) => SameExtent(x, y)
    <3>1. SameExtent(r, Chunk(r))
      BY ChunkExtent DEF SameExtent
    <3>2. \A x \in Held : ~ Shares(x, Chunk(r))
      BY <1>7, AlikeChunk
    <3> QED BY <2>2, <3>1, <3>2, <1>4, <1>7 DEF ShapeInv
  <2> QED BY <2>1, <2>2, <1>5, SendFacts DEF ShapeInv
<1>12. WholeInv'
  <2>1. \A o \in Here : o \in Nat /\ o < offset
    BY Extents
  <2>2. ASSUME NEW o \in r.Offset + 1 .. End(r) - 1 PROVE Joined(Here, o)
    <3>1. o \in Int /\ o - 1 \in Int /\ ~ (o < offset) /\ ~ (o - 1 < offset)
      BY <1>2, <1>4
    <3> QED BY <3>1, <2>1 DEF Joined
  <2>3. ASSUME NEW x \in (sentRanges \cup {r}) \cap (Sent \cup {r}), x.Len > room
        PROVE  /\ \A o \in x.Offset + 1 .. End(x) - 1 : Joined(Here, o)
               /\ \A y \in Held \cup {r} : Shares(x, y) => y = x
               /\ \A y \in Flying \cup {Chunk(r)} : Shares(x, y) => SameExtent(x, y)
    <3>1. x \in sentRanges \cap Sent /\ x \in Held
      <4>1. x # r
        BY <2>3, <1>2, <1>4
      <4> QED BY <4>1 DEF Held
    <3>2. ~ Shares(x, r) /\ ~ Shares(x, Chunk(r))
      BY <3>1, <1>7, AlikeChunk
    <3> QED BY <2>3, <3>1, <3>2 DEF WholeInv
  <2>4. ASSUME NEW x \in Held \cup {r}, x.Eof, x.Len > 0, dataInBuffer - 1 \in Here
        PROVE  FALSE
    <3>1. x = r
      BY <2>4, <1>6
    <3>2. dataInBuffer - 1 < offset
      BY <2>1, <2>4
    <3> QED BY <2>4, <3>1, <3>2, <1>2, <1>4
  <2>5. \A x \in Held \cup {r} : \A o \in x.Offset + 1 .. End(x) - 1 :
           roomChanges = 0 \/ ~ OnGrid(room, o, x.Offset) => Joined(Here, o)
    BY <2>2 DEF WholeInv
  <2> QED BY <2>3, <2>4, <2>5, <1>1, <1>5, SendFacts DEF WholeInv
<1>13. AckInv'
  <2>1. \A x \in Sent : x \in sentRanges' => x \in sentRanges
    BY <1>1, <1>9
  <2>2. \A q \in outstanding' : q.pn \in Recorded' /\ q.range \in sentRanges' => HasAll(q.range)'
    BY <2>1, SendKeepsAcks
  <2>3. eofSent' => \E x \in sentRanges' : x.Eof
    BY <1>1
  <2>4. ASSUME NEW o \in 0 .. offset' - 1
        PROVE  o \in Here \/ \E x \in sentRanges' : Covers(x, o)
    <3>1. CASE o < offset
      <4>1. o \in 0 .. offset - 1
        BY <3>1, <1>1, <1>2, <1>4
      <4> QED BY <4>1, <1>1 DEF AckInv
    <3>2. CASE o >= offset
      <4>1. Covers(r, o)
        BY <3>2, <1>1, <1>2, <1>4 DEF Covers
      <4> QED BY <4>1, <1>1
    <3> QED BY <3>1, <3>2, <1>2
  <2>5. recvEntry' \in {"removed", "recreated"} =>
           EofArrived' /\ \A o \in 0 .. dataInBuffer' - 1 : o \in Here'
    BY <1>1, SendFacts DEF AckInv
  <2> QED BY <2>2, <2>3, <2>4, <2>5, SendFacts DEF AckInv
<1> QED BY <1>8, <1>11, <1>12, <1>13, SendFacts

\* A range too long for the room is cut in two.  Head and tail lie within it, on its
\* grid, so that whatever was cut like it is cut like them; and no room was too small
\* before the first change of it.
LEMMA SplitAction ==
    ASSUME TransferInv, Inv', NEW r, SendPacket(r), SplitRetransmit(room, r)
    PROVE  TransferInv'
<1> USE DEF TransferInv
<1> DEFINE src == Head(retransmitQueue)
           t == SplitTail(src, room)
<1>1. /\ retransmitQueue # <<>> /\ src.Len > room
      /\ r = SplitHead(src, room)
      /\ retransmitQueue' = Append(Tail(retransmitQueue), t)
      /\ sentRanges' = (sentRanges \ {src}) \cup {r, t}
      /\ freshId' = freshId + 2
      /\ UNCHANGED <<dataInBuffer, offset, eofSent>>
  BY DEF SplitRetransmit
<1>2. /\ src \in ToSet(retransmitQueue)
      /\ ToSet(retransmitQueue') \subseteq ToSet(retransmitQueue) \cup {t}
  <2> DEFINE q == retransmitQueue
  <2>1. q \in Seq(Ranges) /\ retransmitQueue' \in Seq(Ranges)
    BY DEF Inv, TypeOK, SendTypeOK
  <2>2. /\ Head(q) = q[1] /\ 1 \in DOMAIN q
        /\ Tail(q) \in Seq(Ranges) /\ Len(Tail(q)) \in Nat
        /\ \A i \in 1 .. Len(Tail(q)) : i + 1 \in DOMAIN q /\ Tail(q)[i] = q[i + 1]
    BY <1>1, <2>1
  <2> HIDE DEF t
  <2>3. /\ DOMAIN retransmitQueue' = 1 .. Len(Tail(q)) + 1
        /\ \A i \in 1 .. Len(Tail(q)) : retransmitQueue'[i] = Tail(q)[i]
        /\ retransmitQueue'[Len(Tail(q)) + 1] = t
    BY <1>1, <2>2
  <2>4. ASSUME NEW x \in ToSet(retransmitQueue') PROVE x \in ToSet(q) \cup {t}
    <3>1. PICK i \in 1 .. Len(Tail(q)) + 1 : x = retransmitQueue'[i]
      BY <2>3 DEF ToSet
    <3>2. CASE i = Len(Tail(q)) + 1
      BY <3>1, <3>2, <2>3
    <3>3. CASE i # Len(Tail(q)) + 1
      <4>1. i \in 1 .. Len(Tail(q))
        BY <3>3, <2>2
      <4>2. x = q[i + 1] /\ i + 1 \in DOMAIN q
        BY <4>1, <3>1, <2>2, <2>3
      <4> QED BY <4>2 DEF ToSet
    <3> QED BY <3>2, <3>3
  <2>5. src \in ToSet(q)
    BY <2>2 DEF ToSet
  <2> QED BY <2>4, <2>5
<1>3. src \in Held
  BY <1>2 DEF Held
<1>4. /\ src.Offset \in Nat /\ src.Len \in Nat /\ End(src) = src.Offset + src.Len
      /\ src.Eof \in BOOLEAN /\ End(src) <= dataInBuffer /\ dataInBuffer \in Nat
      /\ room \in Nat /\ room > 0 /\ freshId \in Nat
  <2> HIDE DEF src, t
  <2>1. /\ src.Offset \in Nat /\ src.Len \in Nat /\ End(src) = src.Offset + src.Len
        /\ src.Eof \in BOOLEAN /\ End(src) <= offset
    BY <1>3, Extents
  <2>2. /\ offset \in Nat /\ dataInBuffer \in Nat /\ offset <= dataInBuffer
        /\ room \in Nat /\ room > 0
    BY Extents
  <2>3. End(src) <= dataInBuffer
    BY <2>1, <2>2
  <2>4. freshId \in Nat
    BY DEF Inv, TypeOK, SendTypeOK
  <2> QED BY <2>1, <2>2, <2>3, <2>4
<1>5. /\ r.id = freshId /\ r.Offset = src.Offset /\ r.Len = room /\ r.Eof = FALSE
      /\ End(r) = src.Offset + room
      /\ t.id = freshId + 1 /\ t.Offset = src.Offset + room /\ t.Len = src.Len - room
      /\ t.Eof = src.Eof /\ End(t) = End(src)
  <2>1. /\ r.id = freshId /\ r.Offset = src.Offset /\ r.Len = room /\ r.Eof = FALSE
    BY <1>1 DEF SplitHead, NewRange
  <2>2. /\ t.id = freshId + 1 /\ t.Offset = src.Offset + room /\ t.Len = src.Len - room
        /\ t.Eof = src.Eof
    BY <1>1 DEF SplitTail, NewRange
  <2>3. End(r) = src.Offset + room
    BY <2>1 DEF End
  <2>4. End(t) = End(src)
    <3> HIDE DEF src, t
    <3>1. End(t) = (src.Offset + room) + (src.Len - room)
      BY <2>2 DEF End
    <3> QED BY <3>1, <1>4
  <2> QED BY <2>1, <2>2, <2>3, <2>4
<1>6. roomChanges # 0
  BY <1>1, <1>3, <1>4 DEF ShapeInv
<1>7. Held' \subseteq Held \cup {r, t}
  BY <1>1, <1>2, SendFacts DEF Held
<1>8. \A x \in Held : x.id \in Nat /\ x.id < freshId
  BY HeldRanges DEF NumInv, Ranges
<1>9. r \notin Held /\ t \notin Held /\ r # t
  BY <1>4, <1>5, <1>8
<1> HIDE DEF src, t
<1>10. NumInv'
  <2>1. \A x \in Held' : x.id < freshId'
    BY <1>1, <1>4, <1>5, <1>7, <1>8
  <2> QED BY <2>1, SendFacts
<1>11. \A y \in Held \cup Flying :
          /\ y.Offset \in Nat /\ y.Len \in Nat /\ End(y) = y.Offset + y.Len
          /\ y.Eof \in BOOLEAN /\ (y.Eof => End(y) = dataInBuffer)
  BY Extents
<1>grid. OnGrid(room, t.Offset, src.Offset) /\ OnGrid(room, src.Offset, t.Offset)
  <2>1. src.Offset \in Int /\ t.Offset \in Int
    BY <1>4, <1>5
  <2>2. \A a \in Int : OnGrid(room, a + room, a)
    BY <1>4, GridFacts
  <2>3. OnGrid(room, src.Offset + room, src.Offset)
    BY <2>1, <2>2
  <2>4. OnGrid(room, t.Offset, src.Offset)
    BY <2>3, <1>5
  <2> QED BY <2>1, <2>4, <1>4, GridFacts
<1>12. ASSUME NEW y \in Held \cup Flying
       PROVE  CutAlike(room, r, y) /\ (Shares(r, y) => Shares(src, y))
  <2>1. CutAlike(room, src, y)
    BY <1>3 DEF ShapeInv
  <2>2. Shares(r, y) => Shares(src, y)
    BY <1>1, <1>4, <1>5, <1>11 DEF Shares
  <2> SUFFICES ASSUME Shares(r, y)
               PROVE  /\ OnGrid(room, r.Offset, y.Offset)
                      /\ End(r) < End(y) => r.Len = room
                      /\ End(y) < End(r) => y.Len = room
                      /\ End(r) = End(y) => r.Eof = y.Eof
    BY <2>2 DEF CutAlike
  <2>3. /\ OnGrid(room, src.Offset, y.Offset)
        /\ End(y) < End(src) => y.Len = room
    BY <2>1, <2>2 DEF CutAlike
  <2>4. End(r) < End(src)
    BY <1>1, <1>4, <1>5
  <2>5. End(y) <= End(r) => End(y) < End(src)
    BY <2>4, <1>4, <1>5, <1>11
  <2>6. End(r) = End(y) => r.Eof = y.Eof
    <3> SUFFICES ASSUME End(r) = End(y) PROVE r.Eof = y.Eof
      OBVIOUS
    <3>1. End(y) # dataInBuffer
      BY <2>4, <1>4, <1>5
    <3>2. ~ y.Eof
      BY <3>1, <1>11
    <3> QED BY <3>2, <1>5, <1>11, Zenon
  <2>7. End(y) < End(r) => y.Len = room
    BY <2>3, <2>5, <1>4, <1>5, <1>11
  <2> QED BY <2>3, <2>6, <2>7, <1>5
<1>13. ASSUME NEW y \in Held \cup Flying
       PROVE  CutAlike(room, t, y) /\ (Shares(t, y) => Shares(src, y))
  <2>1. CutAlike(room, src, y)
    BY <1>3 DEF ShapeInv
  <2>2. Shares(t, y) => Shares(src, y)
    BY <1>1, <1>4, <1>5, <1>11 DEF Shares
  <2> SUFFICES ASSUME Shares(t, y)
               PROVE  /\ OnGrid(room, t.Offset, y.Offset)
                      /\ End(t) < End(y) => t.Len = room
                      /\ End(y) < End(t) => y.Len = room
                      /\ End(t) = End(y) => t.Eof = y.Eof
    BY <2>2 DEF CutAlike
  <2>3. /\ OnGrid(room, src.Offset, y.Offset)
        /\ End(src) < End(y) => src.Len = room
        /\ End(y) < End(src) => y.Len = room
        /\ End(src) = End(y) => src.Eof = y.Eof
    BY <2>1, <2>2 DEF CutAlike
  <2>4. OnGrid(room, t.Offset, y.Offset)
    <3>1. src.Offset \in Int /\ y.Offset \in Int /\ t.Offset \in Int
      BY <1>4, <1>5, <1>11
    <3>2. OnGrid(room, t.Offset, src.Offset)
      BY <3>1, <1>grid
    <3> QED BY <3>1, <3>2, <2>3, <1>4, GridFacts
  <2> QED BY <2>3, <2>4, <1>1, <1>4, <1>5, <1>11
<1>14. CutAlike(room, r, r) /\ CutAlike(room, t, t)
  <2>1. r.Offset \in Nat /\ r.Len \in Nat /\ t.Offset \in Nat /\ t.Len \in Nat
    BY <1>1, <1>4, <1>5
  <2> QED BY <2>1, <1>4, AlikeItself
<1>15. ~ Shares(r, t) /\ ~ Shares(t, r)
  BY <1>4, <1>5 DEF Shares
<1>16. ShapeInv'
  <2>1. ASSUME NEW x \in Held \cup {r, t}, NEW y \in Held \cup {r, t} \cup Flying
        PROVE  CutAlike(room, x, y)
    <3>1. CASE x \in Held /\ y \in Held \cup Flying
      BY <3>1 DEF ShapeInv
    <3>2. CASE x \in {r, t} /\ y \in Held \cup Flying
      BY <3>2, <1>12, <1>13
    <3>3. CASE x \in Held /\ y \in {r, t}
      <4>1. CutAlike(room, y, x)
        BY <3>3, <1>12, <1>13
      <4>2. y.Offset \in Nat /\ x.Offset \in Nat
        BY <3>3, <1>4, <1>5, <1>11
      <4> QED BY <4>1, <4>2, <1>4, AlikeBothWays
    <3>4. CASE x \in {r, t} /\ y \in {r, t}
      BY <3>4, <1>14, <1>15 DEF CutAlike
    <3> QED BY <3>1, <3>2, <3>3, <3>4
  <2>2. ASSUME NEW x \in Held \cup {r, t} PROVE CutAlike(room, x, Chunk(r))
    BY <2>1, AlikeChunk
  <2> QED BY <2>1, <2>2, <1>6, <1>7, SendFacts DEF ShapeInv
<1>17. WholeInv'
  <2>1. \A o \in src.Offset + 1 .. End(src) - 1 :
           ~ OnGrid(room, o, src.Offset) => Joined(Here, o)
    BY <1>3 DEF WholeInv
  <2>2. ASSUME NEW o \in r.Offset + 1 .. End(r) - 1, ~ OnGrid(room, o, r.Offset)
        PROVE  Joined(Here, o)
    <3>1. o \in src.Offset + 1 .. End(src) - 1
      BY <1>1, <1>4, <1>5
    <3> QED BY <2>1, <2>2, <3>1, <1>5
  <2>3. ASSUME NEW o \in t.Offset + 1 .. End(t) - 1, ~ OnGrid(room, o, t.Offset)
        PROVE  Joined(Here, o)
    <3>1. o \in Int /\ src.Offset \in Int /\ t.Offset \in Int
      BY <1>4, <1>5
    <3>2. o \in src.Offset + 1 .. End(src) - 1
      <4>1. t.Offset + 1 <= o /\ o <= End(src) - 1
        BY <1>4, <1>5
      <4> QED BY <3>1, <4>1, <1>4, <1>5
    <3>3. ~ OnGrid(room, o, src.Offset)
      BY <2>3, <3>1, <1>grid, <1>4, GridFacts
    <3> QED BY <2>1, <3>2, <3>3
  <2>4. ASSUME NEW x \in sentRanges' \cap Sent', x.Len > room
        PROVE  /\ \A o \in x.Offset + 1 .. End(x) - 1 : Joined(Here, o)
               /\ \A y \in Held' : Shares(x, y) => y = x
               /\ \A y \in Flying' : Shares(x, y) => SameExtent(x, y)
    <3>1. x # r
      BY <2>4, <1>4, <1>5
    <3>2. x # t
      BY <3>1, <1>9, SendFacts DEF Held
    <3>3. x \in sentRanges \cap Sent /\ x # src /\ x \in Held
      BY <3>1, <3>2, <1>1, SendFacts DEF Held
    <3>4. /\ \A o \in x.Offset + 1 .. End(x) - 1 : Joined(Here, o)
          /\ \A y \in Held : Shares(x, y) => y = x
          /\ \A y \in Flying : Shares(x, y) => SameExtent(x, y)
      BY <2>4, <3>3 DEF WholeInv
    <3>5. ~ Shares(x, src)
      BY <3>3, <3>4, <1>3
    <3>6. ~ Shares(x, r) /\ ~ Shares(x, t)
      BY <3>3, <3>5, <1>12, <1>13 DEF Shares
    <3>7. ~ Shares(x, Chunk(r))
      BY <3>6, AlikeChunk
    <3> QED BY <3>4, <3>6, <3>7, <1>7, SendFacts
  <2>5. ASSUME NEW x \in Held \cup {r, t}, x.Eof, x.Len > 0, dataInBuffer - 1 \in Here
        PROVE  EofArrived
    <3>1. CASE x \in Held
      BY <2>5, <3>1 DEF WholeInv
    <3>2. CASE x = r
      BY <2>5, <3>2, <1>5
    <3>3. CASE x = t
      <4>1. src.Eof /\ src.Len > 0
        BY <2>5, <3>3, <1>1, <1>4, <1>5
      <4> QED BY <2>5, <4>1, <1>3 DEF WholeInv
    <3> QED BY <3>1, <3>2, <3>3
  <2>6. \A x \in Held' : \A o \in x.Offset + 1 .. End(x) - 1 :
           roomChanges = 0 \/ ~ OnGrid(room, o, x.Offset) => Joined(Here, o)
    BY <2>2, <2>3, <1>6, <1>7 DEF WholeInv
  <2> QED BY <2>4, <2>5, <2>6, <1>1, <1>7, SendFacts DEF WholeInv
<1>18. AckInv'
  <2>1. \A x \in Sent : x \in sentRanges' => x \in sentRanges
    BY <1>1, <1>9 DEF Held
  <2>2. \A q \in outstanding' : q.pn \in Recorded' /\ q.range \in sentRanges' => HasAll(q.range)'
    BY <2>1, SendKeepsAcks
  <2>3. eofSent => EofArrived \/ \E x \in sentRanges' : x.Eof
    BY <1>1, <1>5 DEF AckInv
  <2>4. ASSUME NEW o \in 0 .. offset - 1
        PROVE  o \in Here \/ \E x \in sentRanges' : Covers(x, o)
    <3>1. CASE o \in Here
      BY <3>1
    <3>2. CASE o \notin Here
      <4>1. PICK x \in sentRanges : Covers(x, o)
        BY <3>2 DEF AckInv
      <4>2. CASE x # src
        BY <4>1, <4>2, <1>1
      <4>3. CASE x = src
        <5>1. o \in Int
          BY Extents
        <5>2. Covers(r, o) \/ Covers(t, o)
          BY <5>1, <4>1, <4>3, <1>1, <1>4, <1>5 DEF Covers
        <5> QED BY <5>2, <1>1
      <4> QED BY <4>2, <4>3
    <3> QED BY <3>1, <3>2
  <2>5. recvEntry' \in {"removed", "recreated"} =>
           EofArrived' /\ \A o \in 0 .. dataInBuffer' - 1 : o \in Here'
    BY <1>1, SendFacts DEF AckInv
  <2> QED BY <2>2, <2>3, <2>4, <2>5, <1>1, SendFacts DEF AckInv
<1> QED BY <1>10, <1>16, <1>17, <1>18, SendFacts

-----------------------------------------------------------------------------
(* The transfer's invariant *)

LEMMA InitTransfer == Init => TransferInv
<1> SUFFICES ASSUME Init PROVE TransferInv
  OBVIOUS
<1>1. Inv
  BY InitInv
<1>2. /\ sentRanges = {} /\ retransmitQueue = <<>> /\ outstanding = {} /\ net = {}
      /\ acks = {} /\ unackedRanges = <<>> /\ queue = {}
      /\ offset = 0 /\ eofSent = FALSE /\ recvEntry \notin {"removed", "recreated"}
  BY DEF Init, SendInit, QueueInit
<1>3. Sent = {} /\ Flying = {} /\ ToSet(retransmitQueue) = {}
  BY <1>2 DEF Sent, Flying, ToSet
<1>4. Held = {}
  BY <1>2, <1>3 DEF Held
<1>5. Recorded = {} /\ Apart(unackedRanges)
  BY <1>2, EmptyIsApart DEF Recorded
<1>6. NumInv
  BY <1>2, <1>4, <1>5 DEF NumInv
<1>7. ShapeInv /\ WholeInv
  BY <1>2, <1>3, <1>4 DEF ShapeInv, WholeInv
<1>8. QueueInv
  BY <1>2 DEF QueueInv
<1>9. AckInv
  <2>1. 0 .. offset - 1 = {}
    BY <1>2
  <2> QED BY <2>1, <1>2 DEF AckInv
<1> QED BY <1>1, <1>6, <1>7, <1>8, <1>9 DEF TransferInv

LEMMA NextTransfer ==
    ASSUME LongGrace = TRUE, roomChanges' <= 1, TransferInv, [Next]_vars
    PROVE  TransferInv'
<1>1. Inv'
  BY NextInv DEF TransferInv
<1>2. CASE UNCHANGED vars
  BY <1>1, <1>2, QuietActions
<1>3. ASSUME NEW w \in Writes, AppWrite(w[1], w[2]) PROVE TransferInv'
  <2>1. w[1] \in Nat /\ w[2] \in BOOLEAN
    BY TransferAssumption
  <2> QED BY <1>1, <1>3, <2>1, AppWriteAction
<1>4. CASE AppClose \/ Unpark \/ OtherPacket
  BY <1>1, <1>4, QuietActions
<1>5. ASSUME NEW n \in ReadSizes, AppRead(n) PROVE TransferInv'
  BY <1>1, <1>5, AppReadAction, TransferAssumption
<1>6. CASE SendHalf
  <2>1. CASE ReapStream \/ ParkStream \/ SendNothing
    BY <1>1, <2>1, QuietActions
  <2>2. ASSUME NEW r, SendPacket(r) PROVE TransferInv'
    <3>1. TriggerPacket(room, r)
      BY <2>2 DEF SendPacket
    <3> QED BY <1>1, <2>2, <3>1, RetransmitAction, SplitAction, SendNewAction
            DEF TriggerPacket
  <2> QED BY <1>6, <2>1, <2>2 DEF SendHalf
<1>7. CASE Acking
  BY <1>1, <1>7, ReceiveACKAction, NetworkActions DEF Acking
<1>8. CASE Timers
  BY <1>1, <1>8, TimerActions
<1>9. ASSUME NEW r \in Rooms, ChangeRoom(r) PROVE TransferInv'
  BY <1>1, <1>9, ChangeRoomAction
<1>10. ASSUME NEW p \in net, LosePacket(p) \/ ReceivePacket(p) PROVE TransferInv'
  BY <1>1, <1>10, NetworkActions, ReceivePacketAction
<1>11. ASSUME NEW a \in acks, LoseAck(a) PROVE TransferInv'
  BY <1>1, <1>11, NetworkActions
<1>12. CASE RemoveRecvStream
  BY <1>1, <1>12, RemoveAction
<1>13. CASE SendAck
  BY <1>1, <1>13, SendAckAction
<1> QED
  BY <1>2, <1>3, <1>4, <1>5, <1>6, <1>7, <1>8, <1>9, <1>10, <1>11, <1>12, <1>13 DEF Next

\* What the receiver lacks is tracked, and a finished sender has been heard in full.
LEMMA TransferKept == TransferInv => UntrackedHasArrived /\ CompletedHasArrived
<1> SUFFICES ASSUME TransferInv PROVE UntrackedHasArrived /\ CompletedHasArrived
  OBVIOUS
<1>1. \A o \in Here : Arrived(o)
  BY DEF Here
<1>2. UntrackedHasArrived
  BY <1>1 DEF TransferInv, AckInv, UntrackedHasArrived
<1>3. ASSUME Completed PROVE EofArrived /\ \A o \in 0 .. dataInBuffer - 1 : Arrived(o)
  <2>1. eofSent /\ sentRanges = {} /\ offset = dataInBuffer
    BY <1>3 DEF Completed, TransferInv, Inv, SenderInv
  <2> QED BY <2>1, <1>1 DEF TransferInv, AckInv
<1> QED BY <1>2, <1>3 DEF CompletedHasArrived

-----------------------------------------------------------------------------
(* Work is never stranded *)

\* A stream that has sent nothing still owes its open marker, and no EOF.
OpenInv ==
    /\ freshId >= 1
    /\ freshId = 1 => ~ eofSent /\ (pendingOpen <=> OpenedHere)

\* Every verdict of the loss detector puts the stream back on the trigger.
LEMMA VerdictTriggers ==
    ASSUME Inv, Acking \/ Timers, ~ \E a \in acks : StaleACK(a)
    PROVE  sendTrigger' /\ UNCHANGED <<eofSent, pendingOpen, freshId>>
<1>1. ASSUME NEW retired, NEW lost \in SUBSET outstanding, Verdict(retired, lost),
             retired # {} \/ lost # {}
      PROVE  sendTrigger' /\ UNCHANGED <<eofSent, pendingOpen, freshId>>
  BY <1>1, VerdictQueues DEF Triggers
<1>2. ASSUME NEW a \in acks, NEW cut, ReceiveACK(a, cut)
      PROVE  sendTrigger' /\ UNCHANGED <<eofSent, pendingOpen, freshId>>
  <2> DEFINE retired == {p \in outstanding : p.pn \in a}
             top == CHOOSE n \in a : \A m \in a : m <= n
             largest == IF top > largestAcked THEN top ELSE largestAcked
             lost == LostUpTo(outstanding \ retired, largest, cut)
  <2>1. retired # {} /\ Verdict({p.range : p \in retired}, lost)
    BY <1>2 DEF ReceiveACK
  <2>2. lost \in SUBSET outstanding
    BY DEF LostUpTo
  <2>3. {p.range : p \in retired} # {}
    BY <2>1
  <2> QED BY <1>1, <2>1, <2>2, <2>3
<1>3. ASSUME NEW cut, LossTimer(cut)
      PROVE  sendTrigger' /\ UNCHANGED <<eofSent, pendingOpen, freshId>>
  <2> DEFINE lost == LostUpTo(outstanding, largestAcked, cut)
  <2>1. Verdict({}, lost) /\ \E p \in LossSuspects : p.pn = cut
    BY <1>3 DEF LossTimer
  <2>2. PICK p \in outstanding : p.pn <= largestAcked /\ p.pn = cut
    BY <2>1 DEF LossSuspects
  <2>3. p.pn <= p.pn
    BY DEF Inv, TypeOK, ConnTypeOK
  <2>4. lost # {} /\ lost \in SUBSET outstanding
    BY <2>2, <2>3 DEF LostUpTo
  <2> QED BY <1>1, <2>1, <2>4
<1>4. ASSUME PTO PROVE sendTrigger' /\ UNCHANGED <<eofSent, pendingOpen, freshId>>
  <2>1. PICK p \in outstanding : Verdict({}, {p})
    BY <1>4 DEF PTO
  <2> QED BY <1>1, <2>1
<1> QED BY <1>2, <1>3, <1>4 DEF Acking, Timers

\* triggerPacket finds nothing to send only when nothing is left.
LEMMA NothingIsLeft ==
    ASSUME Inv, OpenInv, NothingToSend(room)
    PROVE  /\ retransmitQueue' = <<>> /\ ~ (offset' < dataInBuffer')
           /\ ~ (signalEOF' /\ ~ eofSent') /\ ~ (OpenedHere /\ freshId' = 1)
<1>1. /\ retransmitQueue = <<>>
      /\ eofSent \/ ~ (ChunkLen(room) > 0 \/ ChunkEof(room) \/ pendingOpen)
      /\ UNCHANGED <<dataInBuffer, offset, signalEOF, eofSent, retransmitQueue, freshId>>
  BY DEF NothingToSend
<1>2. offset \in Nat /\ dataInBuffer \in Nat /\ offset <= dataInBuffer /\ room \in Nat /\ room > 0
  BY RoomType DEF Inv, TypeOK, SendTypeOK, SenderInv
<1>3. CASE eofSent
  <2>1. offset = dataInBuffer /\ freshId # 1
    BY <1>3 DEF Inv, SenderInv, OpenInv
  <2> QED BY <1>1, <1>2, <1>3, <2>1
<1>4. CASE ~ eofSent
  <2>1. ~ (ChunkLen(room) > 0) /\ ~ ChunkEof(room) /\ ~ pendingOpen
    BY <1>1, <1>4
  <2>2. offset = dataInBuffer
    BY <2>1, <1>2 DEF ChunkLen
  <2>3. dataInBuffer - offset <= room
    BY <2>2, <1>2
  <2>4. ~ signalEOF
    BY <2>1, <2>3 DEF ChunkEof
  <2>5. ~ (OpenedHere /\ freshId = 1)
    BY <2>1 DEF OpenInv
  <2> QED BY <1>1, <1>2, <2>2, <2>4, <2>5
<1> QED BY <1>3, <1>4

LEMMA NextStranded ==
    ASSUME Inv, OpenInv, NothingStranded, [Next]_vars PROVE OpenInv' /\ NothingStranded'
<1> DEFINE Kept == UNCHANGED <<dataInBuffer, offset, signalEOF, eofSent, pendingOpen,
                               sentRanges, retransmitQueue, freshId>>
<1>1. ASSUME Kept PROVE OpenInv'
  BY <1>1 DEF OpenInv
<1>2. ASSUME Kept, UNCHANGED <<sendTrigger, parked, outstanding>> PROVE NothingStranded'
  BY <1>2 DEF NothingStranded, Completed
<1>3. CASE \/ UNCHANGED vars \/ OtherPacket \/ RemoveRecvStream \/ SendAck
           \/ \E n \in ReadSizes : AppRead(n)
           \/ \E r \in Rooms : ChangeRoom(r)
           \/ \E p \in net : LosePacket(p) \/ ReceivePacket(p)
           \/ \E a \in acks : LoseAck(a) \/ StaleACK(a)
  <2>1. Kept /\ UNCHANGED <<sendTrigger, parked, outstanding>>
    BY <1>3 DEF vars, sendVars, connVars, OtherPacket, RemoveRecvStream, SendAck, AppRead,
                ChangeRoom, LosePacket, ReceivePacket, LoseAck, StaleACK
  <2> QED BY <1>1, <1>2, <2>1
<1>4. ASSUME NEW w \in Writes, AppWrite(w[1], w[2]) PROVE OpenInv' /\ NothingStranded'
  BY <1>4 DEF AppWrite, AppendData, OpenInv, NothingStranded
<1>5. CASE AppClose
  BY <1>5 DEF AppClose, Close, OpenInv, NothingStranded
<1>6. CASE Unpark
  BY <1>1, <1>6 DEF Unpark, NothingStranded
<1>7. CASE SendHalf
  <2>1. CASE ReapStream
    <3>1. Kept /\ Completed
      BY <2>1 DEF ReapStream
    <3>2. NothingStranded'
      BY <3>1 DEF NothingStranded, Completed
    <3> QED BY <1>1, <3>1, <3>2
  <2>2. CASE ParkStream
    <3>1. Kept /\ parked'
      BY <2>2 DEF ParkStream
    <3>2. NothingStranded'
      BY <3>1 DEF NothingStranded
    <3> QED BY <1>1, <3>1, <3>2
  <2>3. CASE SendNothing
    <3>1. CASE NothingToSend(room)
      <4>1. Kept
        BY <3>1 DEF NothingToSend
      <4>2. NothingStranded'
        BY <3>1, NothingIsLeft DEF NothingStranded
      <4> QED BY <1>1, <4>1, <4>2
    <3>2. CASE UNCHANGED sendVars
      <4>1. Kept /\ UNCHANGED <<sendTrigger, parked, outstanding>>
        BY <2>3, <3>2 DEF sendVars, SendNothing
      <4> QED BY <1>1, <1>2, <4>1
    <3> QED BY <2>3, <3>1, <3>2 DEF SendNothing
  <2>4. ASSUME NEW r, SendPacket(r) PROVE OpenInv' /\ NothingStranded'
    <3>1. outstanding' # {}
      BY <2>4 DEF SendPacket
    <3>2. NothingStranded'
      BY <3>1 DEF NothingStranded
    <3>3. freshId \in Nat /\ freshId >= 1
      BY DEF Inv, TypeOK, SendTypeOK, OpenInv
    <3>4. \/ freshId' > freshId
          \/ UNCHANGED <<eofSent, pendingOpen, freshId>>
      BY <2>4, <3>3 DEF SendPacket, TriggerPacket, Retransmit, SplitRetransmit, SendNew
    <3>5. freshId' \in Nat
      BY <2>4, <3>3 DEF SendPacket, TriggerPacket, Retransmit, SplitRetransmit, SendNew
    <3>6. CASE freshId' > freshId
      BY <3>2, <3>3, <3>5, <3>6 DEF OpenInv
    <3>7. CASE UNCHANGED <<eofSent, pendingOpen, freshId>>
      BY <3>2, <3>7 DEF OpenInv
    <3> QED BY <3>4, <3>6, <3>7
  <2> QED BY <1>7, <2>1, <2>2, <2>3, <2>4 DEF SendHalf
<1>8. CASE (Acking \/ Timers) /\ ~ \E a \in acks : StaleACK(a)
  BY <1>8, VerdictTriggers DEF OpenInv, NothingStranded
<1> QED BY <1>3, <1>4, <1>5, <1>6, <1>7, <1>8 DEF Next

\* The sender never strands work: a stream with queued retransmissions, unsent bytes,
\* an unsent EOF or an owed open marker is on the send trigger, parked by the congestion
\* gate, or has a packet outstanding whose verdict triggers it (conn.go: handleTrigger
\* and the congestionBlocked list; send_stream.go: OnACK, OnLost and requeueIfMore).
THEOREM NeverStranded == Spec => []NothingStranded
<1>1. Init => OpenInv /\ NothingStranded
  BY SendAssumption DEF Init, SendInit, OpenInv, NothingStranded
<1>2. Inv /\ OpenInv /\ NothingStranded /\ [Next]_vars => OpenInv' /\ NothingStranded'
  BY NextStranded
<1> QED
  BY <1>1, <1>2, Invariance, PTL DEF Spec

\* The count of room changes stops at two for good.
LEMMA ChangesCounted ==
    ASSUME Inv, [Next]_vars, roomChanges' <= 1
    PROVE  roomChanges <= 1
<1>1. roomChanges \in Nat
  BY TransferAssumption DEF Inv, TypeOK, ConnTypeOK
<1>2. CASE UNCHANGED roomChanges
  BY <1>2
<1>3. ASSUME NEW r \in Rooms, ChangeRoom(r) PROVE roomChanges <= 1
  BY <1>1, <1>3 DEF ChangeRoom, ChangesMet
<1> QED
  BY <1>2, <1>3 DEF Next, vars, connVars, SendHalf, Acking, Timers, AppWrite, AppClose, Unpark,
     OtherPacket, AppRead, ReapStream, ParkStream, SendNothing, SendPacket, ReceiveACK, StaleACK,
     LossTimer, PTO, LosePacket, LoseAck, ReceivePacket, RemoveRecvStream, SendAck

\* The sender forgets nothing: a byte it no longer tracks has arrived, a stream it
\* takes for finished has arrived in full, EOF included, and work is never stranded
\* (send_stream.go: splitSentRange, OnACK, IsCompleted; ordering.go: Push).  It holds
\* however often the MTU changes, as long as no range has met two changes between its
\* first packet and its acknowledgement: then ranges are cut on two grids, and the
\* receiver may drop a chunk it has a part of.  The grace period outlasts recovery.
THEOREM ForgetsNothing ==
    ASSUME LongGrace = TRUE
    PROVE  Spec => [](roomChanges <= 1 => NothingForgotten)
<1> DEFINE Kept == roomChanges <= 1 => TransferInv
<1>1. Inv /\ Kept /\ [Next]_vars => Kept'
  BY NextTransfer, ChangesCounted
<1>2. Init => Kept
  BY InitTransfer
<1>3. Kept /\ NothingStranded => (roomChanges <= 1 => NothingForgotten)
  BY TransferKept DEF NothingForgotten
<1> HIDE DEF Kept
<1> QED
  BY <1>1, <1>2, <1>3, Invariance, NeverStranded, PTL DEF Spec
=============================================================================
