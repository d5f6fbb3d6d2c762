------------------------------ MODULE Transport ------------------------------
(***************************************************************************)
(* An endpoint over a stream leg (src/transport/stream.go, multileg.go and *)
(* the locks of src/objproto/objproto.go): the goroutines between an       *)
(* application that dials one peer and the streams its packets go out on.  *)
(*                                                                         *)
(*   app        dials, retransmits while it waits, then sends data         *)
(*   other      sends for the endpoint's other connections, to other peers *)
(*   closer     calls Close on the connection, once                        *)
(*   fan        fanOutByTransport: from pktQueue to the queue of the leg   *)
(*   loop       the leg's send loop                                        *)
(*   a stream   dials and then reads that stream                           *)
(*                                                                         *)
(* endpointLock is Go's RWMutex: a goroutine that waits to write keeps new *)
(* readers out.  A critical section that cannot block is one step.  The    *)
(* peer answers a hello on the stream it came on, each time with a         *)
(* connection of its own, so that the dialer's connection rides the stream *)
(* whose ack it was made from.                                             *)
(***************************************************************************)
EXTENDS MessageChannel

CONSTANTS
    QueueDepth, LegDepth,  \* pktQueue, the leg's channel
    Stream,       \* bound: the streams there can be
    MaxTicks, MaxDials, MaxData, MaxOther, MaxMsgs,  \* bounds, each on its own
    MaxWork,      \* bound: dials, ticks, packets and messages, taken together ...
    TickWork      \* ... a tick counting for so many

None == "none"
NoConn == 0

ASSUME TransportAssumption ==
    /\ QueueDepth \in Nat \ {0} /\ LegDepth \in Nat \ {0}
    /\ {MaxTicks, MaxDials, MaxData, MaxOther, MaxMsgs, MaxWork, TickWork} \subseteq Nat
    /\ Stream \cap {None, "app", "other", "closer", "fan", "loop"} = {}

VARIABLES
    pc,         \* where each goroutine is
    writer, readers,  \* endpointLock
    pktQueue, legQueue,
    pending,    \* a handshake waits for its ack
    active,     \* the connection in the table, by the dial that made it
    rides,      \* the stream it was made on
    hsDone,     \* what the dial's channel holds: "empty", "conn" or "closed"
    target,     \* the connection a goroutine means to close
    conns,      \* streamConns: the stream the address maps to
    stream,     \* "none", "dialing", "open", "broken" or "ended"
    inbox,      \* what the peer has written on each stream
    held,       \* the packet the send loop is at, and the stream it goes to
    doubled,    \* history: the peer was dialed while a dial to it was under way
    dialed, ticked, sent, others, got  \* how many dials, ticks, packets and messages

locks == <<writer, readers>>
queues == <<pktQueue, legQueue>>
tables == <<pending, active, rides, hsDone>>
streams == <<conns, stream, inbox, doubled>>
counters == <<dialed, ticked, sent, others, got>>
vars == <<pc, locks, queues, tables, target, streams, held, counters, mcVars>>

Goroutine == {"app", "other", "closer", "fan", "loop"} \cup Stream

NothingHeld == [kind |-> "none", on |-> None]

Init ==
    /\ pc = [g \in Goroutine |-> IF g \in Stream THEN "none" ELSE "idle"]
    /\ writer = None /\ readers = {}
    /\ pktQueue = <<>> /\ legQueue = <<>>
    /\ pending = FALSE /\ active = NoConn /\ rides = None /\ hsDone = "empty"
    /\ target = [g \in Goroutine |-> NoConn]
    /\ conns = None /\ stream = [s \in Stream |-> "none"]
    /\ inbox = [s \in Stream |-> <<>>]
    /\ held = NothingHeld
    /\ doubled = FALSE
    /\ dialed = 0 /\ ticked = 0 /\ sent = 0 /\ others = 0 /\ got = 0
    /\ NewMessageChannel

Goto(g, place) == pc' = [pc EXCEPT ![g] = place]
At(g, place) == pc[g] = place

\* Places where a goroutine waits in endpointLock.Lock.
Locking == {"lock", "lockAck", "lockFail", "lockEnd"}
MayRead == writer = None /\ \A g \in Goroutine : pc[g] \notin Locking
MayWrite == writer = None /\ readers = {}

MayWork == dialed + TickWork * ticked + sent + others + got < MaxWork

\* The connection's own lock is held while its packet waits for the queue.
MuFree == ~At("app", "putData")

\* Seeded fault: the queue is not waited for.
sendPacketOver(kind) == pktQueue' = Append(pktQueue, kind) /\ UNCHANGED legQueue

sendPacket(kind) ==
    /\ Len(pktQueue) < QueueDepth
    /\ pktQueue' = Append(pktQueue, kind)
    /\ UNCHANGED legQueue

-------------------------------------------------------------------------------
(* The application *)

SendHandshake ==
    /\ At("app", "idle") /\ active = NoConn /\ dialed < MaxDials /\ MayWork
    /\ Goto("app", "lock")
    /\ UNCHANGED <<locks, queues, tables, target, streams, held, counters, mcVars>>

\* sendHandshake enters the handshake, and keeps the lock while it queues it.
HandshakePending ==
    /\ At("app", "lock") /\ MayWrite
    /\ writer' = "app" /\ Goto("app", "put")
    /\ pending' = TRUE /\ hsDone' = "empty" /\ dialed' = dialed + 1
    /\ UNCHANGED <<readers, queues, active, rides, target, streams, held,
                   ticked, sent, others, got, mcVars>>

HandshakeQueued ==
    /\ At("app", "put") /\ sendPacket("hello")
    /\ writer' = None /\ Goto("app", "wait")
    /\ UNCHANGED <<readers, tables, target, streams, held, counters, mcVars>>

\* retransmitHandshake: a look at the table, then the queue, without the lock.
retransmitHandshake ==
    /\ At("app", "wait") /\ MayRead /\ pending /\ ticked < MaxTicks /\ MayWork
    /\ ticked' = ticked + 1 /\ Goto("app", "putAgain")
    /\ UNCHANGED <<locks, queues, tables, target, streams, held, dialed, sent, others, got,
                   mcVars>>

Retransmitted ==
    /\ At("app", "putAgain") /\ sendPacket("hello")
    /\ Goto("app", "wait")
    /\ UNCHANGED <<locks, tables, target, streams, held, counters, mcVars>>

WaitEnds ==
    /\ At("app", "wait") /\ hsDone # "empty"
    /\ Goto("app", IF hsDone = "conn" THEN "send" ELSE "idle")
    /\ UNCHANGED <<locks, queues, tables, target, streams, held, counters, mcVars>>

\* sendApplicationFrame: under the read lock, to the queue.
sendApplicationFrame ==
    /\ At("app", "send") /\ MayRead /\ sent < MaxData /\ MayWork
    /\ IF active = NoConn THEN Goto("app", "idle") /\ UNCHANGED readers
       ELSE Goto("app", "putData") /\ readers' = readers \cup {"app"}
    /\ UNCHANGED <<writer, queues, tables, target, streams, held, counters, mcVars>>

DataQueued ==
    /\ At("app", "putData") /\ sendPacket("data")
    /\ readers' = readers \ {"app"} /\ sent' = sent + 1 /\ Goto("app", "send")
    /\ UNCHANGED <<writer, tables, target, streams, held, dialed, ticked, others, got, mcVars>>

\* The same for another connection of the endpoint: a lock of its own, the same queue.
OtherSends ==
    /\ At("other", "idle") /\ MayRead /\ others < MaxOther /\ MayWork
    /\ Goto("other", "putData") /\ readers' = readers \cup {"other"}
    /\ UNCHANGED <<writer, queues, tables, target, streams, held, counters, mcVars>>

OtherQueued ==
    /\ At("other", "putData") /\ sendPacket("other")
    /\ readers' = readers \ {"other"} /\ others' = others + 1 /\ Goto("other", "idle")
    /\ UNCHANGED <<writer, tables, target, streams, held, dialed, ticked, sent, got, mcVars>>

Close ==
    /\ At("closer", "idle") /\ active # NoConn
    /\ target' = [target EXCEPT !["closer"] = active] /\ Goto("closer", "lock")
    /\ UNCHANGED <<locks, queues, tables, streams, held, counters, mcVars>>

-------------------------------------------------------------------------------
(* Closing a connection: out of the table, then CloseChannel, which waits for *)
(* the goroutines SendMessage left behind while the lock is held.             *)

\* Where a goroutine goes on once it has closed the connection, or not.
After(g) == CASE g = "closer" -> "done" [] g = "loop" -> "failed" [] OTHER -> "none"

\* The goroutine has the lock; whether there is something for it to close.
CloseOrNot(g, mine) ==
    IF active # NoConn /\ mine
    THEN /\ writer' = g /\ Goto(g, "closing") /\ active' = NoConn /\ CloseBegins
    ELSE /\ Goto(g, After(g)) /\ UNCHANGED <<writer, active, mcVars>>

\* closeConnection, from Close or from CloseConnectionsAt.
closeConnection(g) ==
    /\ pc[g] \in {"lock", "lockEnd"} /\ g \notin {"app", "loop"} /\ MayWrite
    /\ CloseOrNot(g, active = target[g])
    /\ UNCHANGED <<readers, queues, pending, rides, hsDone, target, streams, held,
                   counters>>

ConnectionClosed(g) ==
    /\ At(g, "closing") /\ CloseEnds
    /\ writer' = None /\ Goto(g, After(g))
    /\ UNCHANGED <<readers, queues, tables, target, streams, held, counters>>

-------------------------------------------------------------------------------
(* The send loop *)

fanOutByTransport ==
    /\ pktQueue # <<>> /\ Len(legQueue) < LegDepth
    /\ pktQueue' = Tail(pktQueue) /\ legQueue' = Append(legQueue, Head(pktQueue))
    /\ UNCHANGED <<pc, locks, tables, target, streams, held, counters, mcVars>>

Unused == {s \in Stream : stream[s] = "none"}

\* A handshake to a peer the leg has no stream to is dialed by a new goroutine.
LoopDials ==
    /\ At("loop", "idle") /\ legQueue # <<>> /\ conns = None
    /\ Head(legQueue) = "hello"
    /\ Unused # {}
    /\ LET s == CHOOSE t \in Unused : TRUE
       IN stream' = [stream EXCEPT ![s] = "dialing"] /\ Goto(s, "dial")
    /\ doubled' = (doubled \/ \E t \in Stream : stream[t] = "dialing")
    /\ legQueue' = Tail(legQueue)
    /\ UNCHANGED <<locks, pktQueue, tables, target, conns, inbox, held, counters,
                   mcVars>>

\* A packet of another connection goes to a stream of its own, which works.
LoopWritesOther ==
    /\ At("loop", "idle") /\ legQueue # <<>> /\ Head(legQueue) = "other"
    /\ legQueue' = Tail(legQueue)
    /\ UNCHANGED <<pc, locks, pktQueue, tables, target, streams, held, counters, mcVars>>

\* The write begins; it may wait for the peer to read, without a deadline.
LoopTakes ==
    /\ At("loop", "idle") /\ legQueue # <<>> /\ Head(legQueue) # "other" /\ conns # None
    /\ held' = [kind |-> Head(legQueue), on |-> conns]
    /\ legQueue' = Tail(legQueue) /\ Goto("loop", "write")
    /\ UNCHANGED <<locks, pktQueue, tables, target, streams, counters, mcVars>>

LoopWrites ==
    /\ At("loop", "write") /\ stream[held.on] = "open"
    /\ inbox' = [inbox EXCEPT ![held.on] = IF held.kind = "hello" THEN Append(@, "ack") ELSE @]
    /\ held' = NothingHeld /\ Goto("loop", "idle")
    /\ UNCHANGED <<locks, queues, tables, target, conns, stream, doubled, counters, mcVars>>

\* A write that fails, or no stream: CannotSend, called by the loop itself.
WriteFails ==
    /\ At("loop", "write") /\ stream[held.on] # "open"
    /\ Goto("loop", "lock")
    /\ UNCHANGED <<locks, queues, tables, target, streams, held, counters, mcVars>>

LoopReports ==
    /\ At("loop", "idle") /\ legQueue # <<>> /\ Head(legQueue) = "data" /\ conns = None
    /\ held' = [kind |-> Head(legQueue), on |-> None]
    /\ legQueue' = Tail(legQueue) /\ Goto("loop", "lock")
    /\ UNCHANGED <<locks, pktQueue, tables, target, streams, counters, mcVars>>

\* closeCannotSend: the pending handshake, or whatever connection is there.
closeCannotSend ==
    /\ At("loop", "lock") /\ MayWrite
    /\ IF held.kind = "hello"
       THEN /\ pending' = FALSE /\ hsDone' = IF pending THEN "closed" ELSE hsDone
            /\ Goto("loop", "failed") /\ UNCHANGED <<writer, active, mcVars>>
       ELSE CloseOrNot("loop", TRUE) /\ UNCHANGED <<pending, hsDone>>
    /\ UNCHANGED <<readers, queues, rides, target, streams, held, counters>>

\* Seeded fault: whatever stream the address maps to.
removeAny(s) == conns' = None

\* remove, only while the address still maps to the stream.
remove(s) == conns' = IF conns = s THEN None ELSE conns

LoopResumes ==
    /\ At("loop", "failed")
    /\ remove(held.on)
    /\ stream' = [s \in Stream |-> IF s = held.on /\ stream[s] = "open"
                                   THEN "broken" ELSE stream[s]]
    /\ held' = NothingHeld /\ Goto("loop", "idle")
    /\ UNCHANGED <<locks, queues, tables, target, inbox, doubled, counters, mcVars>>

-------------------------------------------------------------------------------
(* The streams *)

\* The hello is written before the stream is published.
DialSucceeds(s) ==
    /\ At(s, "dial")
    /\ stream' = [stream EXCEPT ![s] = "open"]
    /\ inbox' = [inbox EXCEPT ![s] = <<"ack">>]
    /\ conns' = s /\ Goto(s, "read")
    /\ UNCHANGED <<locks, queues, tables, target, doubled, held, counters, mcVars>>

DialFails(s) ==
    /\ At(s, "dial")
    /\ stream' = [stream EXCEPT ![s] = "ended"] /\ Goto(s, "lockFail")
    /\ UNCHANGED <<locks, queues, tables, target, conns, inbox, doubled, held, counters, mcVars>>

DialReported(s) ==
    /\ At(s, "lockFail") /\ MayWrite
    /\ pending' = FALSE /\ hsDone' = (IF pending THEN "closed" ELSE hsDone)
    /\ Goto(s, "none")
    /\ UNCHANGED <<locks, queues, active, rides, target, streams, held,
                   counters, mcVars>>

Break(s) ==
    /\ stream[s] = "open"
    /\ stream' = [stream EXCEPT ![s] = "broken"]
    /\ UNCHANGED <<pc, locks, queues, tables, target, conns, inbox, doubled, held, counters,
                   mcVars>>

PeerSends(s) ==
    /\ stream[s] = "open" /\ got < MaxMsgs /\ MayWork
    /\ inbox' = [inbox EXCEPT ![s] = Append(@, "data")] /\ got' = got + 1
    /\ UNCHANGED <<pc, locks, queues, tables, target, conns, stream, doubled, held, dialed,
                   ticked, sent, others, mcVars>>

ReadAck(s) ==
    /\ At(s, "read") /\ inbox[s] # <<>> /\ Head(inbox[s]) = "ack"
    /\ inbox' = [inbox EXCEPT ![s] = Tail(@)] /\ Goto(s, "lockAck")
    /\ UNCHANGED <<locks, queues, tables, target, conns, stream, doubled, held, counters, mcVars>>

\* receiveHandshakeAck: a new connection with a channel of its own.
receiveHandshakeAck(s) ==
    /\ At(s, "lockAck") /\ MayWrite
    /\ IF pending
       THEN /\ pending' = FALSE /\ hsDone' = "conn"
            /\ active' = dialed /\ rides' = s
            /\ messageChan' = <<>> /\ seqNum' = 0 /\ fallback' = {}
            /\ reorderBuf' = {} /\ recvSeqNum' = 0
            /\ cancelled' = FALSE /\ chanClosed' = FALSE /\ stopped' = FALSE
       ELSE UNCHANGED <<tables, mcVars>>
    /\ Goto(s, "read")
    /\ UNCHANGED <<locks, queues, target, streams, held, counters>>

\* receiveApplication: the read lock, then the connection's own.
ReadData(s) ==
    /\ At(s, "read") /\ inbox[s] # <<>> /\ Head(inbox[s]) = "data" /\ MayRead
    /\ inbox' = [inbox EXCEPT ![s] = Tail(@)]
    /\ readers' = readers \cup {s} /\ Goto(s, "mu")
    /\ UNCHANGED <<writer, queues, tables, target, conns, stream, doubled, held, counters, mcVars>>

receiveApplication(s) ==
    /\ At(s, "mu") /\ MuFree
    /\ IF active # NoConn /\ rides = s THEN SendMessage ELSE UNCHANGED mcVars
    /\ readers' = readers \ {s} /\ Goto(s, "read")
    /\ UNCHANGED <<writer, queues, tables, target, streams, held, counters>>

\* The stream ends; CloseConnectionsAt lists what is active at its address.
StreamEnds(s) ==
    /\ At(s, "read") /\ stream[s] = "broken"
    /\ stream' = [stream EXCEPT ![s] = "ended"] /\ remove(s) /\ Goto(s, "list")
    /\ UNCHANGED <<locks, queues, tables, target, inbox, doubled, held, counters, mcVars>>

CloseConnectionsAt(s) ==
    /\ At(s, "list") /\ MayRead
    /\ target' = [target EXCEPT ![s] = active]
    /\ Goto(s, IF active = NoConn THEN "none" ELSE "lockEnd")
    /\ UNCHANGED <<locks, queues, tables, streams, held, counters, mcVars>>

-------------------------------------------------------------------------------

\* The goroutines of the message channel and its reader.
Messages ==
    /\ FallbackSends \/ FallbackDrops \/ popFromReorderBuf \/ ReceiveMessage
       \/ ReceiveClosed
    /\ UNCHANGED <<pc, locks, queues, tables, target, streams, held, counters>>

App == \/ SendHandshake \/ HandshakePending \/ HandshakeQueued \/ retransmitHandshake
       \/ Retransmitted \/ WaitEnds \/ sendApplicationFrame \/ DataQueued
Other == OtherSends \/ OtherQueued
Loop == LoopDials \/ LoopTakes \/ LoopWritesOther \/ WriteFails \/ LoopReports
        \/ closeCannotSend \/ LoopResumes
Closing(g) == closeConnection(g) \/ ConnectionClosed(g)
Reader(s) == \/ DialSucceeds(s) \/ DialFails(s) \/ DialReported(s) \/ ReadAck(s)
             \/ receiveHandshakeAck(s) \/ ReadData(s) \/ receiveApplication(s)
             \/ StreamEnds(s) \/ CloseConnectionsAt(s)

Next == \/ App \/ Other \/ Close \/ fanOutByTransport \/ Loop \/ LoopWrites \/ Messages
        \/ \E g \in Goroutine : Closing(g)
        \/ \E s \in Stream : Reader(s) \/ Break(s) \/ PeerSends(s)

Spec == Init /\ [][Next]_vars

\* Every goroutine runs on: the application may stop calling, streams need not
\* break and the peer need neither send nor read, so that a write may last for ever.
FairSpec ==
    /\ Spec
    /\ WF_vars(HandshakePending \/ HandshakeQueued \/ Retransmitted \/ DataQueued)
    /\ WF_vars(OtherQueued)
    /\ WF_vars(fanOutByTransport) /\ WF_vars(Messages)
    /\ WF_vars(Loop \/ Closing("loop")) /\ WF_vars(Closing("closer"))
    /\ \A s \in Stream : WF_vars(Reader(s) \/ Closing(s))

-------------------------------------------------------------------------------
(* Properties *)

Kinds == {"hello", "data", "other"}

\* The variables have their types, and the queues keep to their depths.
TypeOK ==
    /\ writer \in {None} \cup Goroutine /\ readers \subseteq Goroutine
    /\ pktQueue \in Seq(Kinds) /\ Len(pktQueue) <= QueueDepth
    /\ legQueue \in Seq(Kinds) /\ Len(legQueue) <= LegDepth
    /\ Len(messageChan) <= MsgDepth
    /\ pending \in BOOLEAN /\ active \in 0..MaxDials
    /\ rides \in {None} \cup Stream /\ hsDone \in {"empty", "conn", "closed"}
    /\ conns \in {None} \cup Stream
    /\ reorderBuf \cup fallback \subseteq 0..MaxMsgs

\* close(messageChan) runs only when no goroutine could still send on it, which
\* would panic: SendMessage registers before it looks whether the channel is
\* cancelled a second time, and CloseChannel waits.
NoSendOnClosed == chanClosed => fallback = {}

\* The table never keeps a stream that has ended; and while a connection's stream
\* works, the send loop finds that very stream: a stream that ends late does not take
\* the entry of the one that replaced it (stream.go:99), and data never goes out where
\* another connection's keys would have to open it.  The latter holds as long as no
\* hello has been dialed beside a dial that was not done yet, as a retransmitted one
\* is when a dial outlasts the retransmission delay: the second of the two streams
\* then takes the entry.
RidesPublished ==
    /\ conns # None => stream[conns] \in {"open", "broken"}
    /\ (~doubled /\ active # NoConn /\ stream[rides] = "open") => conns = rides

\* The end of a stream closes no connection that rides another one, published and
\* working (underlay_close.go:33: "anything else sharing the address rode the same
\* dead socket").
ClosesOnlyTheDead ==
    [][\A s \in Stream : (closeConnection(s) /\ active' # active)
          => ~(rides # s /\ conns = rides /\ stream[rides] = "open")]_vars

\* Whatever arrives for a connection that stays open reaches the application,
\* however the fast path and the goroutines interleave.
MessagesArrive ==
    []<>(recvSeqNum = seqNum \/ cancelled)

\* The send loop waits for endpointLock in CannotSend, and who has it waits for room
\* in queues that only the send loop empties.
Jammed ==
    /\ At("loop", "lock")
    /\ Len(pktQueue) = QueueDepth /\ Len(legQueue) = LegDepth
    /\ writer = "app" \/ readers \cap {"app", "other"} # {}

\* The send loop waits for a peer that does not read.
Stalled == At("loop", "write") /\ stream[held.on] = "open"

\* Nobody waits for endpointLock for ever: the dials, the data, the messages and
\* the streams run out, and then no goroutine is left in it.  There are two ways to
\* wait for ever, both with the queues of the sending side full: a write that never
\* returns, and a send loop that reports a failed write while somebody holds the
\* lock to queue a packet.
LocksGranted ==
    \/ []<>(\A g \in Goroutine : pc[g] \notin Locking \cup {"closing"})
    \/ <>[](Stalled \/ Jammed)

===============================================================================
