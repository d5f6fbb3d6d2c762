------------------------------- MODULE RunLoop -------------------------------
(***************************************************************************)
(* A connection's run loop (trsf/conn.go: run, nextWakeDeadline,           *)
(* trySendDatagram) and the queues other goroutines put work on            *)
(* (trsf/queue.go).  The loop sleeps in a select on one-slot notification  *)
(* channels and a timer; the question is whether work can sit in a queue   *)
(* with nothing left that will wake the loop for it.                       *)
(*                                                                         *)
(* What a stream has to send is counted in packets.  Time is abstracted:   *)
(* an armed timer may expire at any moment.  The loss detector is reduced  *)
(* to the packets outstanding, in sending order; of a packet sent again    *)
(* only the last copy is kept.                                             *)
(***************************************************************************)
EXTENDS Integers, Sequences, FiniteSets, SequencesExt

CONSTANTS
    Streams,           \* stream ids, the same for sending and receiving halves
    none,              \* no stream: a nil pointer
    Cwnd,              \* congestion window, in packets
    DatagramQueue,     \* capacity of datagramSend (32)
    MaxData,           \* bound: packets' worth of data per stream, the last with EOF
    MaxDatagrams,      \* bound: datagrams the applications send
    MaxRequests,       \* bound: window updates, cancels, ack-eliciting packets
                       \* of the peer and datagrams, taken together
    MaxProbes,         \* bound: MTU probes; 0 for a transport with no path MTU
    MaxExpiries        \* bound: times packets are given up on

ASSUME LoopAssumption ==
    /\ none \notin Streams
    /\ Cwnd \in Nat \ {0} /\ DatagramQueue \in Nat \ {0} /\ MaxData \in Nat
    /\ MaxDatagrams \in Nat /\ MaxRequests \in Nat /\ MaxProbes \in Nat /\ MaxExpiries \in Nat

VARIABLES
    pc,               \* where the loop is
    expired, isPTO,   \* locals: the loss timer is found expired; it was a PTO
    sendTrigger, updateWindow, cancelTrigger,   \* withTriggerQueues of streams
    recv,             \* the withTriggerQueue of received packets
    datagramSend, datagramNote,                 \* channel and its trigger
    ackOwed, ptNote,  \* the packet number tracker holds ranges; its channel
    shNote,           \* the loss detector's trigger
    congestionBlocked,
    outstanding,      \* packets awaiting a verdict, oldest first
    pacing,           \* the pacer's budget is below one packet
    written, buffered, retransmit, unacked, removed,  \* the send streams
    recvEOF,          \* receive streams read to EOF
    overdue,          \* the MTU tracker's deadline has passed
    shared,           \* history: two datagrams have shared one notification
    windowAsks, cancels, datagrams, arrivals, probes, expiries   \* bounds

queues == <<sendTrigger, updateWindow, cancelTrigger>>
dgVars == <<datagramSend, datagramNote, datagrams, shared>>
mtuVars == <<probes, overdue>>
ackVars == <<ackOwed, ptNote, arrivals>>
streamVars == <<written, buffered, retransmit, unacked, removed>>
readVars == <<recvEOF, windowAsks, cancels>>
loopVars == <<pc, expired, expiries, mtuVars, isPTO, queues, recv, dgVars, ackVars, shNote, congestionBlocked,
          outstanding, pacing, streamVars, readVars>>

-----------------------------------------------------------------------------
(* withTriggerQueue *)

EmptyQueue == [queue |-> <<>>, note |-> FALSE]

\* An item already queued is not queued again, and notifies nobody.
Push(q, x) ==
    IF x \in ToSet(q.queue) THEN q ELSE [queue |-> Append(q.queue, x), note |-> TRUE]

\* Several items, in no particular order.
PushAll(q, xs) ==
    LET new == xs \ ToSet(q.queue)
    IN IF new = {} THEN q ELSE [queue |-> q.queue \o SetToSeq(new), note |-> TRUE]

\* Mutant of PushIf: what goes back on a queue notifies nobody.
PushIfQuietly(q, x, cond) ==
    IF cond /\ x \notin ToSet(q.queue) THEN [q EXCEPT !.queue = Append(@, x)] ELSE q

PushIf(q, x, cond) == IF cond THEN Push(q, x) ELSE q

\* Pop notifies again if items remain.
Pop(q) ==
    IF q.queue = <<>> THEN q
    ELSE [queue |-> Tail(q.queue), note |-> q.note \/ Len(q.queue) > 1]

First(q) == IF q.queue = <<>> THEN none ELSE Head(q.queue)

-----------------------------------------------------------------------------
LoopInit ==
    /\ pc = "top" /\ expired = FALSE /\ isPTO = FALSE
    /\ sendTrigger = EmptyQueue /\ updateWindow = EmptyQueue /\ cancelTrigger = EmptyQueue
    /\ recv = EmptyQueue
    /\ datagramSend = <<>> /\ datagramNote = FALSE
    /\ ackOwed = FALSE /\ ptNote = FALSE /\ shNote = FALSE
    /\ congestionBlocked = {} /\ outstanding = <<>> /\ pacing = FALSE
    /\ written = [s \in Streams |-> 0] /\ buffered = [s \in Streams |-> 0]
    /\ retransmit = [s \in Streams |-> {}] /\ unacked = [s \in Streams |-> {}]
    /\ removed = {} /\ recvEOF = {}
    /\ windowAsks = 0 /\ cancels = {} /\ datagrams = 0 /\ arrivals = 0
    /\ probes = 0 /\ expiries = 0 /\ overdue = FALSE /\ shared = FALSE

LoopPacket(kind, id, k) == [kind |-> kind, id |-> id, k |-> k]
Retransmittable(p) == p.kind \in {"data", "window", "cancel"}
CongestionExempt(p) == p.kind \in {"uncontrolled", "probe"}

CanSend == Cardinality({p \in ToSet(outstanding) : ~ CongestionExempt(p)}) < Cwnd

\* The packets of s that are not in S, oldest first.
Without(s, S) ==
    LET rest == {i \in DOMAIN s : s[i] \notin S}
        nth(n) == CHOOSE i \in rest : Cardinality({j \in rest : j <= i}) = n
    IN [n \in 1 .. Cardinality(rest) |-> s[nth(n)]]

\* OnSent; a controlled packet also moves the pacer's budget.
OnSent(p) ==
    /\ outstanding' = Append(Without(outstanding, {p}), p)
    /\ shNote' = TRUE
    /\ IF CongestionExempt(p) THEN UNCHANGED pacing ELSE pacing' \in BOOLEAN

EofSent(s) == written[s] = MaxData /\ buffered[s] = 0
Completed(s) == EofSent(s) /\ unacked[s] = {}

MayAsk == windowAsks + Cardinality(cancels) + datagrams + arrivals + probes < MaxRequests

-----------------------------------------------------------------------------
(* Other goroutines *)

AppendData(s) ==
    /\ written[s] < MaxData
    /\ written' = [written EXCEPT ![s] = @ + 1]
    /\ buffered' = [buffered EXCEPT ![s] = @ + 1]
    /\ sendTrigger' = Push(sendTrigger, s)
    /\ UNCHANGED <<mtuVars, pc, expired, expiries, isPTO, updateWindow, cancelTrigger, recv, dgVars, ackVars,
                   shNote, congestionBlocked, outstanding, pacing, retransmit, unacked,
                   removed, readVars>>

\* sendDatagram; a controlled one is refused while the window is closed, any one
\* while the queue is full.
SendDatagram(exempt) ==
    /\ MayAsk /\ datagrams < MaxDatagrams
    /\ exempt \/ CanSend
    /\ Len(datagramSend) < DatagramQueue
    /\ datagrams' = datagrams + 1
    /\ datagramSend' = Append(datagramSend,
                              LoopPacket(IF exempt THEN "uncontrolled" ELSE "datagram",
                                     none, datagrams'))
    /\ datagramNote' = TRUE
    /\ shared' = (shared \/ datagramNote \/ datagramSend # <<>>)
    /\ UNCHANGED <<mtuVars, pc, expired, expiries, isPTO, queues, recv, ackVars, shNote, congestionBlocked,
                   outstanding, pacing, streamVars, readVars>>

\* A reader has consumed half a window.
AskWindow(s) ==
    /\ MayAsk
    /\ s \notin recvEOF
    /\ windowAsks' = windowAsks + 1
    /\ updateWindow' = Push(updateWindow, s)
    /\ UNCHANGED <<mtuVars, pc, expired, expiries, isPTO, sendTrigger, cancelTrigger, recv, dgVars, ackVars,
                   shNote, congestionBlocked, outstanding, pacing, streamVars,
                   recvEOF, cancels>>

Cancel(s) ==
    /\ MayAsk
    /\ s \notin cancels
    /\ cancels' = cancels \cup {s}
    /\ cancelTrigger' = Push(cancelTrigger, s)
    /\ UNCHANGED <<mtuVars, pc, expired, expiries, isPTO, sendTrigger, updateWindow, recv, dgVars, ackVars,
                   shNote, congestionBlocked, outstanding, pacing, streamVars,
                   recvEOF, windowAsks>>

\* A reader comes to the EOF of a stream, which only matters to what it has asked
\* of the peer.
ReadEOF(s) ==
    /\ windowAsks > 0 \/ s \in cancels
    /\ s \notin recvEOF
    /\ recvEOF' = recvEOF \cup {s}
    /\ UNCHANGED <<mtuVars, pc, expired, expiries, isPTO, queues, recv, dgVars, ackVars, shNote,
                   congestionBlocked, outstanding, pacing, streamVars, windowAsks, cancels>>

\* The peer's packets: an ack-eliciting one, or the ACK of one of ours.
PeerData ==
    /\ MayAsk
    /\ arrivals' = arrivals + 1
    /\ recv' = Push(recv, LoopPacket("peer", none, arrivals'))
    /\ UNCHANGED <<mtuVars, pc, expired, expiries, isPTO, queues, dgVars, ackOwed, ptNote, shNote,
                   congestionBlocked, outstanding, pacing, streamVars, readVars>>

PeerACK(p) ==
    /\ p \in ToSet(outstanding)
    /\ p \notin ToSet(recv.queue)
    /\ recv' = Push(recv, p)
    /\ UNCHANGED <<mtuVars, pc, expired, expiries, isPTO, queues, dgVars, ackVars, shNote,
                   congestionBlocked, outstanding, pacing, streamVars, readVars>>

Others ==
    \/ \E s \in Streams : AppendData(s) \/ AskWindow(s) \/ Cancel(s) \/ ReadEOF(s)
    \/ \E exempt \in BOOLEAN : SendDatagram(exempt)
    \/ PeerData
    \/ \E p \in ToSet(outstanding) : PeerACK(p)

-----------------------------------------------------------------------------
(* The top of the loop *)

\* Congestion-blocked streams are revived once the window has reopened.
Revive(s) ==
    /\ pc = "top" /\ CanSend
    /\ s \in congestionBlocked
    /\ congestionBlocked' = congestionBlocked \ {s}
    /\ sendTrigger' = Push(sendTrigger, s)
    /\ UNCHANGED <<mtuVars, pc, expired, expiries, isPTO, updateWindow, cancelTrigger, recv, dgVars, ackVars,
                   shNote, outstanding, pacing, streamVars, readVars>>

\* Mutant of OnLosses: a range to send again does not put its stream on the trigger.
OnLossesQuietly(lost, acked) ==
    /\ retransmit' = [s \in Streams |->
                        retransmit[s] \cup {p.k : p \in {q \in lost : q.kind = "data" /\ q.id = s}}]
    /\ sendTrigger' = PushAll(sendTrigger, acked)
    /\ UNCHANGED <<mtuVars, updateWindow, cancelTrigger>>

\* OnLost of the packets in `lost', on top of OnACK of the streams in `acked'.
OnLosses(lost, acked) ==
    /\ retransmit' = [s \in Streams |->
                        retransmit[s] \cup {p.k : p \in {q \in lost : q.kind = "data" /\ q.id = s}}]
    /\ sendTrigger' = PushAll(sendTrigger, acked \cup {p.id : p \in {q \in lost : q.kind = "data"}})
    /\ updateWindow' = PushAll(updateWindow,
                               {p.id : p \in {q \in lost : q.kind = "window"}} \ recvEOF)
    /\ cancelTrigger' = PushAll(cancelTrigger,
                                {p.id : p \in {q \in lost : q.kind = "cancel"}} \ recvEOF)

\* A received packet is handled and the loop starts over.  An ACK may find older
\* packets past the loss threshold.
HandlePacket ==
    /\ pc = "top" /\ (congestionBlocked = {} \/ ~ CanSend)
    /\ recv.queue # <<>>
    /\ recv' = Pop(recv)
    /\ LET m == Head(recv.queue)
       IN \/ /\ m.kind = "peer"
             /\ ackOwed' = TRUE /\ ptNote' = TRUE
             /\ UNCHANGED <<expiries, shNote, outstanding, unacked, retransmit, queues>>
          \/ /\ m \in ToSet(outstanding)
             /\ \E n \in 0 .. Len(outstanding) :
                   LET lost == {outstanding[i] : i \in 1 .. n}
                   IN /\ m \notin lost
                      /\ n = 0 \/ expiries < MaxExpiries
                      /\ expiries' = IF n = 0 THEN expiries ELSE expiries + 1
                      /\ outstanding' = Without(outstanding, lost \cup {m})
                      /\ OnLosses(lost, IF m.kind = "data" THEN {m.id} ELSE {})
             /\ unacked' = IF m.kind = "data" THEN [unacked EXCEPT ![m.id] = @ \ {m.k}]
                                              ELSE unacked
             /\ shNote' = TRUE
             /\ UNCHANGED <<ackOwed, ptNote>>
          \/ /\ m.kind # "peer" /\ m \notin ToSet(outstanding)
             /\ UNCHANGED <<expiries, ackOwed, ptNote, shNote, outstanding, unacked, retransmit, queues>>
    /\ UNCHANGED <<mtuVars, pc, expired, isPTO, dgVars, arrivals, congestionBlocked, pacing,
                   written, buffered, removed, readVars>>

\* Nothing received: the loop parks in its select.
Park ==
    /\ pc = "top" /\ (congestionBlocked = {} \/ ~ CanSend)
    /\ recv.queue = <<>>
    /\ pc' = "select"
    /\ UNCHANGED <<mtuVars, expired, expiries, isPTO, queues, recv, dgVars, ackVars, shNote,
                   congestionBlocked, outstanding, pacing, streamVars, readVars>>

-----------------------------------------------------------------------------
(* The select *)

LossTimerArmed == outstanding # <<>>

ProbeOut == LoopPacket("probe", none, 0) \in ToSet(outstanding)
MTUTimerArmed == ~ ProbeOut /\ (overdue \/ (probes < MaxProbes /\ MayAsk))

\* nextWakeDeadline: the loss timer, the MTU tracker's, and the pacer's when
\* there is something to pace.  No probe is due while one is outstanding.
PacerArmed == pacing /\ CanSend /\ sendTrigger.queue # <<>>
OtherDeadline == MTUTimerArmed \/ PacerArmed
DeadlineArmed == LossTimerArmed \/ OtherDeadline

\* Time passes the deadline of a converged tracker, which from then on is "now".
\* Whether the tracker has converged is left open (MTUTracker models it); the probe
\* it asks for is counted here.
FallsDue ==
    /\ MTUTimerArmed /\ ~ overdue
    /\ overdue' = TRUE /\ probes' = probes + 1
    /\ UNCHANGED <<pc, expired, expiries, isPTO, queues, recv, dgVars, ackVars, shNote,
                   congestionBlocked, outstanding, pacing, streamVars, readVars>>

\* The loss timer is found expired, or not.
LossTimer(e) ==
    /\ e => LossTimerArmed /\ expiries < MaxExpiries
    /\ expired' = e
    /\ expiries' = IF e THEN expiries + 1 ELSE expiries

\* A wake that runs the send half finds the loss timer expired or not; one of the
\* notification channels is emptied, or the timer fires.
WakeToSend ==
    /\ pc = "select"
    /\ \/ /\ sendTrigger.note
          /\ sendTrigger' = [sendTrigger EXCEPT !.note = FALSE]
          /\ UNCHANGED <<datagramNote, updateWindow, cancelTrigger, ptNote>>
       \/ /\ datagramNote
          /\ datagramNote' = FALSE
          /\ UNCHANGED <<sendTrigger, updateWindow, cancelTrigger, ptNote>>
       \/ /\ updateWindow.note
          /\ updateWindow' = [updateWindow EXCEPT !.note = FALSE]
          /\ UNCHANGED <<sendTrigger, datagramNote, cancelTrigger, ptNote>>
       \/ /\ cancelTrigger.note
          /\ cancelTrigger' = [cancelTrigger EXCEPT !.note = FALSE]
          /\ UNCHANGED <<sendTrigger, datagramNote, updateWindow, ptNote>>
       \/ /\ ptNote
          /\ ptNote' = FALSE
          /\ UNCHANGED <<sendTrigger, datagramNote, updateWindow, cancelTrigger>>
    /\ pc' = "woken"
    /\ LossTimer(TRUE) \/ LossTimer(FALSE)
    /\ UNCHANGED <<mtuVars, isPTO, recv, datagramSend, datagrams, shared, ackOwed, arrivals, shNote,
                   congestionBlocked, outstanding, pacing, streamVars, readVars>>

Notified == sendTrigger.note \/ datagramNote \/ updateWindow.note \/ cancelTrigger.note
              \/ ptNote \/ recv.note \/ shNote

\* A deadline that is past competes with the channels that are ready; the MTU
\* tracker's, while it is still to come, only fires once none is.
WakeByTimer ==
    /\ pc = "select"
    /\ LossTimer(TRUE) \/ (OtherDeadline /\ LossTimer(FALSE))
    /\ Notified => expired' \/ overdue \/ PacerArmed
    /\ pc' = "woken"
    /\ UNCHANGED <<mtuVars, isPTO, queues, recv, dgVars, ackVars, shNote,
                   congestionBlocked, outstanding, pacing, streamVars, readVars>>

\* A received packet, or a reset timer, only starts the iteration over.
WakeToResume ==
    /\ pc = "select"
    /\ \/ recv.note /\ recv' = [recv EXCEPT !.note = FALSE] /\ UNCHANGED shNote
       \/ shNote /\ shNote' = FALSE /\ UNCHANGED recv
    /\ pc' = "top"
    /\ UNCHANGED <<mtuVars, expired, expiries, isPTO, queues, dgVars, ackVars,
                   congestionBlocked, outstanding, pacing, streamVars, readVars>>

-----------------------------------------------------------------------------
(* The send half *)

NotExpired ==
    /\ pc = "woken" /\ ~ expired
    /\ pc' = "half" /\ isPTO' = FALSE
    /\ UNCHANGED <<mtuVars, expired, expiries, queues, recv, dgVars, ackVars, shNote,
                   congestionBlocked, outstanding, pacing, streamVars, readVars>>

\* OnTimeout: the oldest packets are lost, or, on a PTO, what nothing re-sends is
\* lost and the oldest of the rest is sent again.
OnTimeout ==
    /\ pc = "woken" /\ expired
    /\ pc' = "half" /\ expired' = FALSE
    /\ shNote' = TRUE
    /\ \/ \E n \in 1 .. Len(outstanding) :
             /\ outstanding' = Without(outstanding, {outstanding[i] : i \in 1 .. n})
             /\ OnLosses({outstanding[i] : i \in 1 .. n}, {})
             /\ isPTO' = FALSE
       \/ LET rest == Without(outstanding,
                              {p \in ToSet(outstanding) : ~ Retransmittable(p)})
          IN /\ outstanding' = rest
             /\ OnLosses(IF rest = <<>> THEN {} ELSE {Head(rest)}, {})
             /\ isPTO' = (rest # <<>>)
    /\ UNCHANGED <<mtuVars, expiries, recv, dgVars, ackVars, congestionBlocked, pacing,
                   written, buffered, unacked, removed, readVars>>

\* The owed ACK is taken for the packet this pass sends.  Then at most one
\* datagram, which takes the rest of the iteration ...
DatagramPass ==
    /\ pc = "half"
    /\ datagramSend # <<>>
    /\ Head(datagramSend).kind = "uncontrolled" \/ CanSend
    /\ ackOwed' = FALSE
    /\ datagramSend' = Tail(datagramSend)
    /\ OnSent(Head(datagramSend))
    /\ pc' = "top"
    /\ UNCHANGED <<mtuVars, expired, expiries, isPTO, queues, recv, datagramNote, datagrams, shared, ptNote, arrivals,
                   congestionBlocked, streamVars, readVars>>

\* ... unless the window has closed on it, which drops it, or there is none.
DropDatagram ==
    /\ pc = "half"
    /\ datagramSend # <<>>
    /\ Head(datagramSend).kind = "datagram" /\ ~ CanSend
    /\ ackOwed' = FALSE
    /\ datagramSend' = Tail(datagramSend)
    /\ pc' = "pop"
    /\ UNCHANGED <<mtuVars, expired, expiries, isPTO, queues, recv, datagramNote, datagrams, shared, ptNote, arrivals,
                   shNote, congestionBlocked, outstanding, pacing, streamVars, readVars>>

NoDatagram ==
    /\ pc = "half"
    /\ datagramSend = <<>>
    /\ ackOwed' = FALSE
    /\ pc' = "pop"
    /\ UNCHANGED <<mtuVars, expired, expiries, isPTO, queues, recv, dgVars, ptNote, arrivals,
                   shNote, congestionBlocked, outstanding, pacing, streamVars, readVars>>

\* One item is popped from each queue; a completed stream is reaped.
Live(s) == s # none /\ s \notin recvEOF
Reaped == IF First(sendTrigger) # none /\ Completed(First(sendTrigger))
          THEN {First(sendTrigger)} ELSE {}
PoppedStream == IF Reaped # {} THEN none ELSE First(sendTrigger)

\* Mutant of Blocked: the stream is pushed again instead of parked, which wakes the
\* loop's own select.
BlockedRepushes ==
    /\ pc = "pop"
    /\ ~ CanSend /\ ~ isPTO
    /\ pc' = "top"
    /\ sendTrigger' = PushIf(Pop(sendTrigger), PoppedStream, PoppedStream # none)
    /\ removed' = removed \cup Reaped
    /\ cancelTrigger' = PushIf(Pop(cancelTrigger), First(cancelTrigger), Live(First(cancelTrigger)))
    /\ updateWindow' = PushIf(Pop(updateWindow), First(updateWindow), Live(First(updateWindow)))
    /\ UNCHANGED <<mtuVars, expired, expiries, isPTO, recv, dgVars, ackVars, shNote, outstanding, pacing,
                   congestionBlocked, written, buffered, retransmit, unacked, readVars>>

\* The congestion gate: window updates and cancels go back, the stream is parked.
Blocked ==
    /\ pc = "pop"
    /\ ~ CanSend /\ ~ isPTO
    /\ pc' = "top"
    /\ sendTrigger' = Pop(sendTrigger)
    /\ removed' = removed \cup Reaped
    /\ cancelTrigger' = PushIf(Pop(cancelTrigger), First(cancelTrigger), Live(First(cancelTrigger)))
    /\ updateWindow' = PushIf(Pop(updateWindow), First(updateWindow), Live(First(updateWindow)))
    /\ congestionBlocked' = congestionBlocked \cup ({PoppedStream} \ {none})
    /\ UNCHANGED <<mtuVars, expired, expiries, isPTO, recv, dgVars, ackVars, shNote, outstanding, pacing,
                   written, buffered, retransmit, unacked, readVars>>

SendCancel ==
    /\ pc = "pop"
    /\ CanSend \/ isPTO
    /\ Live(First(cancelTrigger))
    /\ pc' = "top"
    /\ OnSent(LoopPacket("cancel", First(cancelTrigger), 0))
    /\ cancelTrigger' = Pop(cancelTrigger)
    /\ removed' = removed \cup Reaped
    /\ sendTrigger' = PushIf(Pop(sendTrigger), PoppedStream, PoppedStream # none)
    /\ updateWindow' = PushIf(Pop(updateWindow), First(updateWindow), First(updateWindow) # none)
    /\ UNCHANGED <<mtuVars, expired, expiries, isPTO, recv, dgVars, ackVars, congestionBlocked,
                   written, buffered, retransmit, unacked, readVars>>

SendWindow ==
    /\ pc = "pop"
    /\ CanSend \/ isPTO
    /\ ~ Live(First(cancelTrigger)) /\ Live(First(updateWindow))
    /\ pc' = "top"
    /\ OnSent(LoopPacket("window", First(updateWindow), 0))
    /\ cancelTrigger' = Pop(cancelTrigger)
    /\ updateWindow' = Pop(updateWindow)
    /\ removed' = removed \cup Reaped
    /\ sendTrigger' = PushIf(Pop(sendTrigger), PoppedStream, PoppedStream # none)
    /\ UNCHANGED <<mtuVars, expired, expiries, isPTO, recv, dgVars, ackVars, congestionBlocked,
                   written, buffered, retransmit, unacked, readVars>>

\* The slot is the stream's: a queued retransmission, else new data; the stream
\* is queued again only for the latter (requeueIfMore).
StreamSlot ==
    /\ pc = "pop"
    /\ CanSend \/ isPTO
    /\ ~ Live(First(cancelTrigger)) /\ ~ Live(First(updateWindow))
    /\ cancelTrigger' = Pop(cancelTrigger)
    /\ updateWindow' = Pop(updateWindow)
    /\ removed' = removed \cup Reaped

SendRetransmission(k) ==
    /\ StreamSlot
    /\ PoppedStream # none
    /\ k \in retransmit[PoppedStream]
    /\ retransmit' = [retransmit EXCEPT ![PoppedStream] = @ \ {k}]
    /\ OnSent(LoopPacket("data", PoppedStream, k))
    /\ sendTrigger' = PushIf(Pop(sendTrigger), PoppedStream, buffered[PoppedStream] > 0)
    /\ pc' = "probe"
    /\ UNCHANGED <<mtuVars, expired, expiries, isPTO, recv, dgVars, ackVars, congestionBlocked,
                   written, buffered, unacked, readVars>>

SendNewData ==
    /\ StreamSlot
    /\ PoppedStream # none
    /\ LET s == PoppedStream
           k == written[s] - buffered[s] + 1
       IN /\ retransmit[s] = {}
          /\ buffered[s] > 0
          /\ buffered' = [buffered EXCEPT ![s] = @ - 1]
          /\ unacked' = [unacked EXCEPT ![s] = @ \cup {k}]
          /\ OnSent(LoopPacket("data", s, k))
          /\ sendTrigger' = PushIf(Pop(sendTrigger), s, buffered[s] > 1)
    /\ pc' = "probe"
    /\ UNCHANGED <<mtuVars, expired, expiries, isPTO, recv, dgVars, ackVars, congestionBlocked,
                   written, retransmit, readVars>>

SendNoStream ==
    /\ StreamSlot
    /\ \/ PoppedStream = none
       \/ PoppedStream # none /\ retransmit[PoppedStream] = {} /\ buffered[PoppedStream] = 0
    /\ sendTrigger' = Pop(sendTrigger)
    /\ pc' = "probe"
    /\ UNCHANGED <<mtuVars, expired, expiries, isPTO, recv, dgVars, ackVars, shNote, congestionBlocked,
                   outstanding, pacing, written, buffered, retransmit, unacked, readVars>>

\* The pass ends with an MTU probe if one is due, as it is all through the search
\* while none is outstanding.
SendProbe ==
    /\ pc = "probe"
    /\ pc' = "top"
    /\ IF MTUTimerArmed
       THEN /\ OnSent(LoopPacket("probe", none, 0))
            /\ probes' = IF overdue THEN probes ELSE probes + 1
            /\ overdue' = FALSE
       ELSE UNCHANGED <<outstanding, shNote, pacing, mtuVars>>
    /\ UNCHANGED <<expired, expiries, isPTO, queues, recv, dgVars, ackVars, congestionBlocked,
                   streamVars, readVars>>

SendHalf ==
    \/ NotExpired \/ OnTimeout
    \/ DatagramPass \/ DropDatagram \/ NoDatagram
    \/ Blocked \/ SendCancel \/ SendWindow
    \/ \E k \in 1 .. MaxData : SendRetransmission(k)
    \/ SendNewData \/ SendNoStream
    \/ SendProbe

Loop ==
    \/ \E s \in Streams : Revive(s)
    \/ HandlePacket \/ Park
    \/ WakeToSend \/ WakeByTimer \/ WakeToResume
    \/ SendHalf

LoopNext == Others \/ FallsDue \/ Loop

LoopSpec == LoopInit /\ [][LoopNext]_loopVars

\* The loop is a goroutine that is always scheduled, whichever of the channels that
\* are ready its select picks, and a deadline passes.
LoopFairness == WF_loopVars(Loop)

\* The peer answers; nothing in this process makes it.
PeerAnswers == WF_loopVars(\E p \in ToSet(outstanding) : PeerACK(p))

FairLoopSpec == LoopSpec /\ LoopFairness

-----------------------------------------------------------------------------
(* Properties *)

\* Queues hold what their Push may queue, each item once; notifications, flags
\* and packets in flight keep their types.
LoopTypeOK ==
    /\ pc \in {"top", "select", "woken", "half", "pop", "probe"}
    /\ expired \in BOOLEAN /\ isPTO \in BOOLEAN /\ pacing \in BOOLEAN
    /\ \A q \in {sendTrigger, updateWindow, cancelTrigger} :
          q.note \in BOOLEAN /\ ToSet(q.queue) \subseteq Streams /\ IsInjective(q.queue)
    /\ Len(datagramSend) <= DatagramQueue
    /\ IsInjective(outstanding)
    /\ congestionBlocked \subseteq Streams /\ removed \subseteq Streams

\* Nothing but another goroutine can wake the loop.
Asleep == pc = "select" /\ ~ Notified /\ ~ DeadlineArmed

QueuesEmpty ==
    sendTrigger.queue = <<>> /\ updateWindow.queue = <<>> /\ cancelTrigger.queue = <<>>

\* The loop never sleeps on work: no stream, window update, cancel, received
\* packet or owed ACK waits while nothing is left that will wake the loop for it
\* (conn.go:857: "so a datagram taking the iteration cannot strand a
\* stream/window/cancel").
SleepsOnNothing ==
    Asleep => QueuesEmpty /\ recv.queue = <<>> /\ congestionBlocked = {} /\ ~ ackOwed

\* What is true of that: all of it until two datagrams have shared a notification.
\* The second then takes the wake of the stream, window update or cancel queued
\* beside it, which is left behind; received packets, parked streams and owed ACKs
\* are not, whatever the datagrams do.
SleepsOnLittle ==
    Asleep => /\ shared \/ QueuesEmpty
              /\ recv.queue = <<>> /\ congestionBlocked = {} /\ ~ ackOwed

\* An ACK that is owed is never held back by a sleeping loop, whatever took the
\* iterations before.
AckIsPrompt == pc = "select" /\ ackOwed => ptNote

\* A stream with something to send is somewhere the loop will find it: on the
\* trigger, parked, or behind a packet whose verdict puts it back.
NothingOrphaned ==
    \A s \in Streams :
        /\ ~ Completed(s)
        /\ buffered[s] > 0 \/ retransmit[s] # {}
        => \/ s \in ToSet(sendTrigger.queue)
           \/ s \in congestionBlocked
           \/ \E p \in ToSet(outstanding) : p.kind = "data" /\ p.id = s

\* Nothing is stranded: queues are sound, and stream, request, packet or ACK, whatever
\* waits will be found, but for what a burst of datagrams leaves behind.
NothingStranded == LoopTypeOK /\ SleepsOnLittle /\ AckIsPrompt /\ NothingOrphaned

\* Liveness: with a peer that answers, every stream written to is sent, acknowledged
\* and reaped, unless a burst of datagrams has left it behind.
StreamsFinish ==
    PeerAnswers => \A s \in Streams : (written[s] = MaxData) ~> (s \in removed \/ shared)

\* Nothing wakes the loop at once: no notification, and no deadline that is past.
Resting == pc = "select" /\ ~ Notified /\ ~ overdue /\ ~ PacerArmed

\* The closed window holds back a request that the pass pushes again, waking its own
\* select (conn.go:880, a TODO).
PushesBack ==
    ~ CanSend /\ \E s \in ToSet(updateWindow.queue) \cup ToSet(cancelTrigger.queue) : Live(s)

\* The closed window holds back the probe that is due, and with it the deadline.
HoldsProbe == ~ CanSend /\ overdue

\* Liveness: the loop does not spin (conn.go:887), even if the peer never answers: it
\* comes to rest again and again, whatever stream the closed window holds back.  It
\* does spin over a window update or a cancel behind a closed window, and over a
\* probe due behind one (plpmtud.go:300 expects that "the wake that follows issues a
\* probe"), until an ACK opens it.
ComesToRest == []<>(Resting \/ PushesBack \/ HoldsProbe)
=============================================================================
