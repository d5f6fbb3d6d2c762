--------------------------- MODULE Transport_proofs ---------------------------
(***************************************************************************)
(* Proofs about Transport, for every depth of its queues, every number of  *)
(* streams and every bound.                                                *)
(***************************************************************************)
EXTENDS Transport, SequenceTheorems, FiniteSetTheorems, TLAPS

-------------------------------------------------------------------------------
(* The inductive invariant *)

Places == {"idle", "none", "lock", "put", "wait", "putAgain", "send", "putData", "closing",
           "done", "failed", "write", "dial", "read", "lockAck", "lockFail", "mu", "list", "lockEnd"}

StreamStates == {"none", "dialing", "open", "broken", "ended"}

\* Where the goroutines are, and endpointLock.
LockInv ==
    /\ pc \in [Goroutine -> Places]
    /\ writer \in {None} \cup Goroutine /\ readers \subseteq Goroutine

\* The two queues, within their depths.
QueueInv ==
    /\ pktQueue \in Seq(Kinds) /\ Len(pktQueue) <= QueueDepth
    /\ legQueue \in Seq(Kinds) /\ Len(legQueue) <= LegDepth

\* The tables; the application comes to the lock only with a dial left.
TableInv ==
    /\ pending \in BOOLEAN /\ hsDone \in {"empty", "conn", "closed"}
    /\ active \in 0 .. MaxDials /\ dialed \in 0 .. MaxDials
    /\ pending => dialed # 0
    /\ pc["app"] = "lock" => dialed < MaxDials
    /\ rides \in {None} \cup Stream
    /\ active # NoConn => rides \in Stream

StreamInv ==
    /\ conns \in {None} \cup Stream
    /\ stream \in [Stream -> StreamStates]
    /\ inbox \in [Stream -> Seq({"ack", "data"})]

\* Every message in the channel, with a goroutine or put aside has been numbered,
\* and a closed channel is one nobody holds a message for.
ChanInv ==
    /\ seqNum \in Nat /\ recvSeqNum \in Nat
    /\ messageChan \in Seq(0 .. seqNum - 1) /\ Len(messageChan) <= MsgDepth
    /\ fallback \subseteq 0 .. seqNum - 1 /\ reorderBuf \subseteq 0 .. seqNum - 1
    /\ chanClosed => cancelled /\ fallback = {}

\* What the peer sent on a stream and the endpoint has not handed on yet.
DataIn(q) == Cardinality({i \in 1 .. Len(q) : q[i] = "data"})
InHand(s) == IF pc[s] = "mu" THEN DataIn(inbox[s]) + 1 ELSE DataIn(inbox[s])

\* A connection's messages come from its own stream, so that no number is taken
\* that the peer has not sent a message for.
NumberInv ==
    /\ got \in 0 .. MaxMsgs
    /\ \A s \in Stream : InHand(s) <= got /\ (rides = s => seqNum + InHand(s) <= got)
    /\ rides = None => seqNum = 0

Inv == LockInv /\ QueueInv /\ TableInv /\ StreamInv /\ ChanInv /\ NumberInv

-------------------------------------------------------------------------------
(* Counting the messages in an inbox *)

\* A message appended is one more, an answer is not.
LEMMA CountAppend ==
    ASSUME NEW q \in Seq({"ack", "data"}), NEW m \in {"ack", "data"}
    PROVE  /\ DataIn(q) \in Nat
           /\ DataIn(Append(q, m)) = IF m = "data" THEN DataIn(q) + 1 ELSE DataIn(q)
<1> DEFINE D == {i \in 1 .. Len(q) : q[i] = "data"}
           a == Append(q, m)
           E == {i \in 1 .. Len(a) : a[i] = "data"}
<1>1. /\ Len(q) \in Nat /\ Len(a) = Len(q) + 1 /\ a[Len(q) + 1] = m
      /\ \A i \in 1 .. Len(q) : a[i] = q[i]
  OBVIOUS
<1>2. IsFiniteSet(D) /\ Cardinality(D) \in Nat
  <2>1. IsFiniteSet(1 .. Len(q))
    BY <1>1, FS_Interval
  <2> QED BY <2>1, FS_Subset, FS_CardinalityType
<1>3. E = IF m = "data" THEN D \cup {Len(q) + 1} ELSE D
  BY <1>1
<1>4. Len(q) + 1 \notin D
  BY <1>1
<1>5. DataIn(q) = Cardinality(D) /\ DataIn(a) = Cardinality(E)
  BY DEF DataIn
<1> HIDE DEF D, E
<1>6. Cardinality(D \cup {Len(q) + 1}) = Cardinality(D) + 1
  BY <1>2, <1>4, FS_AddElement
<1> QED BY <1>2, <1>3, <1>5, <1>6

\* The message at the head is the one taken away.
LEMMA CountTail ==
    ASSUME NEW q \in Seq({"ack", "data"}), q # <<>>
    PROVE  /\ DataIn(q) \in Nat /\ DataIn(Tail(q)) \in Nat
           /\ DataIn(q) = IF Head(q) = "data" THEN DataIn(Tail(q)) + 1 ELSE DataIn(Tail(q))
<1> DEFINE t == Tail(q)
           D == {i \in 1 .. Len(q) : q[i] = "data"}
           E == {i \in 1 .. Len(t) : t[i] = "data"}
           F == {i \in 2 .. Len(q) : q[i] = "data"}
           f == [i \in E |-> i + 1]
<1>1. /\ Len(q) \in Nat /\ Len(q) >= 1 /\ Len(t) = Len(q) - 1 /\ Head(q) = q[1]
      /\ \A i \in 1 .. Len(t) : t[i] = q[i + 1]
  OBVIOUS
<1>2. IsFiniteSet(E) /\ Cardinality(E) \in Nat
  <2>1. IsFiniteSet(1 .. Len(t))
    BY <1>1, FS_Interval
  <2> QED BY <2>1, FS_Subset, FS_CardinalityType
<1>3. f \in Bijection(E, F)
  <2>1. f \in [E -> F]
    BY <1>1
  <2>2. \A i, j \in E : f[i] = f[j] => i = j
    BY <1>1
  <2>3. \A k \in F : \E i \in E : f[i] = k
    <3> SUFFICES ASSUME NEW k \in F PROVE k - 1 \in E /\ f[k - 1] = k
      OBVIOUS
    <3>1. k - 1 \in 1 .. Len(t) /\ t[k - 1] = q[k]
      BY <1>1
    <3> QED BY <3>1, <1>1
  <2> HIDE DEF E, F, f
  <2> QED BY <2>1, <2>2, <2>3 DEF Bijection, Injection, Surjection, IsInjective
<1>4. IsFiniteSet(F) /\ Cardinality(F) = Cardinality(E)
  <2> HIDE DEF E, F, f
  <2> QED BY <1>2, <1>3, FS_Bijection DEF ExistsBijection
<1>5. D = IF Head(q) = "data" THEN F \cup {1} ELSE F
  BY <1>1
<1>6. 1 \notin F
  BY <1>1
<1>7. DataIn(q) = Cardinality(D) /\ DataIn(t) = Cardinality(E)
  BY DEF DataIn
<1> HIDE DEF D, E, F, f
<1>8. Cardinality(F \cup {1}) = Cardinality(F) + 1
  BY <1>4, <1>6, FS_AddElement
<1> QED BY <1>2, <1>4, <1>5, <1>7, <1>8

-------------------------------------------------------------------------------
(* Steps *)

LEMMA GoroutineFacts ==
    /\ {"app", "other", "closer", "fan", "loop"} \subseteq Goroutine /\ Stream \subseteq Goroutine
    /\ \A s \in Stream : s # "app" /\ s # "other" /\ s # "closer" /\ s # "loop" /\ s # None
    /\ MaxDials \in Nat /\ MaxMsgs \in Nat /\ QueueDepth \in Nat \ {0} /\ LegDepth \in Nat \ {0}
  BY TransportAssumption DEF Goroutine

LEMMA InitInv == Init => Inv
<1> SUFFICES ASSUME Init PROVE Inv
  OBVIOUS
<1> USE GoroutineFacts
<1>1. LockInv
  BY DEF Init, LockInv, Places, None
<1>6. TableInv
  <2>1. pc["app"] # "lock" /\ 0 \in 0 .. MaxDials
    BY DEF Init
  <2>2. pending \in BOOLEAN
    BY DEF Init
  <2> QED BY <2>1, <2>2 DEF Init, TableInv, NoConn
<1>2. QueueInv
  BY DEF Init, QueueInv
<1>3. StreamInv
  BY DEF Init, StreamInv, StreamStates
<1>4. ChanInv
  <2>1. <<>> \in Seq(0 .. 0 - 1) /\ Len(<<>>) <= MsgDepth
    BY MsgDepthAssumption
  <2> QED BY <2>1 DEF Init, ChanInv, NewMessageChannel
<1>5. NumberInv
  <2>1. {i \in 1 .. Len(<<>>) : <<>>[i] = "data"} = {}
    OBVIOUS
  <2>2. DataIn(<<>>) = 0
    BY <2>1, FS_EmptySet DEF DataIn
  <2>3. \A s \in Stream : pc[s] = "none" /\ inbox[s] = <<>>
    BY DEF Init, Goroutine
  <2>4. \A s \in Stream : InHand(s) = 0
    BY <2>2, <2>3 DEF InHand
  <2> QED BY <2>4 DEF Init, NumberInv, NewMessageChannel
<1> QED BY <1>1, <1>2, <1>3, <1>4, <1>5, <1>6 DEF Inv

\* A step that neither takes up nor sends a message, and hands none on.
LEMMA NumberFrame ==
    ASSUME Inv, UNCHANGED <<inbox, rides, got, seqNum>>,
           \A s \in Stream : (pc'[s] = "mu") = (pc[s] = "mu")
    PROVE  NumberInv'
<1>1. \A s \in Stream : InHand(s)' = InHand(s)
  BY DEF InHand
<1> QED BY <1>1 DEF Inv, NumberInv

\* A step of one goroutine to another place, with the lock.
LEMMA GotoFacts ==
    ASSUME Inv, NEW g \in Goroutine, NEW place \in Places, Goto(g, place)
    PROVE  /\ pc' \in [Goroutine -> Places]
           /\ pc'[g] = place /\ \A h \in Goroutine : h # g => pc'[h] = pc[h]
  BY DEF Inv, LockInv, Goto

\* A goroutine goes on to another place, and no message moves.
LEMMA Moved ==
    ASSUME Inv, NEW g \in Goroutine, NEW place \in Places \ {"mu"}, pc[g] # "mu",
           Goto(g, place), UNCHANGED <<inbox, rides, got, mcVars>>,
           writer' \in {None} \cup Goroutine, readers' \subseteq Goroutine,
           QueueInv', TableInv', StreamInv'
    PROVE  Inv'
<1>1. /\ pc' \in [Goroutine -> Places]
      /\ pc'[g] # "mu" /\ \A h \in Goroutine : h # g => pc'[h] = pc[h]
  BY GotoFacts
<1>2. LockInv'
  BY <1>1 DEF LockInv
<1>3. ChanInv'
  BY DEF Inv, ChanInv, mcVars
<1>4. NumberInv'
  BY <1>1, GoroutineFacts, NumberFrame DEF mcVars
<1> QED BY <1>2, <1>3, <1>4 DEF Inv

LEMMA SendHandshakeInv == ASSUME Inv, SendHandshake PROVE Inv'
<1> USE GoroutineFacts DEF SendHandshake, At
<1> DEFINE place == "lock"
<1>1. Goto("app", place) /\ place \in Places \ {"mu"} /\ pc["app"] # "mu"
  BY DEF Places
<1>2. TableInv'
  BY <1>1, GotoFacts DEF Inv, TableInv, tables, counters
<1>3. QueueInv' /\ StreamInv'
  BY DEF Inv, QueueInv, StreamInv, StreamStates, queues, streams
<1> QED BY <1>1, <1>2, <1>3, Moved DEF Inv, LockInv, locks, tables, streams, counters

LEMMA HandshakePendingInv == ASSUME Inv, HandshakePending PROVE Inv'
<1> USE GoroutineFacts DEF HandshakePending, At
<1> DEFINE place == "put"
<1>1. Goto("app", place) /\ place \in Places \ {"mu"} /\ pc["app"] # "mu"
  BY DEF Places
<1>2. TableInv'
  BY <1>1, GotoFacts DEF Inv, TableInv
<1>3. QueueInv' /\ StreamInv'
  BY DEF Inv, QueueInv, StreamInv, StreamStates, queues, streams
<1> QED BY <1>1, <1>2, <1>3, Moved DEF Inv, LockInv, streams

LEMMA HandshakeQueuedInv == ASSUME Inv, HandshakeQueued PROVE Inv'
<1> USE GoroutineFacts DEF HandshakeQueued, At
<1> DEFINE place == "wait"
<1>1. Goto("app", place) /\ place \in Places \ {"mu"} /\ pc["app"] # "mu"
  BY DEF Places
<1>2. TableInv'
  BY <1>1, GotoFacts DEF Inv, TableInv, tables, counters
<1>3. QueueInv' /\ StreamInv'
  BY DEF Inv, QueueInv, StreamInv, StreamStates, streams, sendPacket, Kinds
<1> QED BY <1>1, <1>2, <1>3, Moved DEF Inv, LockInv, tables, streams, counters

LEMMA retransmitHandshakeInv == ASSUME Inv, retransmitHandshake PROVE Inv'
<1> USE GoroutineFacts DEF retransmitHandshake, At
<1> DEFINE place == "putAgain"
<1>1. Goto("app", place) /\ place \in Places \ {"mu"} /\ pc["app"] # "mu"
  BY DEF Places
<1>2. TableInv'
  BY <1>1, GotoFacts DEF Inv, TableInv, tables
<1>3. QueueInv' /\ StreamInv'
  BY DEF Inv, QueueInv, StreamInv, StreamStates, queues, streams
<1> QED BY <1>1, <1>2, <1>3, Moved DEF Inv, LockInv, locks, tables, streams

LEMMA RetransmittedInv == ASSUME Inv, Retransmitted PROVE Inv'
<1> USE GoroutineFacts DEF Retransmitted, At
<1> DEFINE place == "wait"
<1>1. Goto("app", place) /\ place \in Places \ {"mu"} /\ pc["app"] # "mu"
  BY DEF Places
<1>2. TableInv'
  BY <1>1, GotoFacts DEF Inv, TableInv, tables, counters
<1>3. QueueInv' /\ StreamInv'
  BY DEF Inv, QueueInv, StreamInv, StreamStates, streams, sendPacket, Kinds
<1> QED BY <1>1, <1>2, <1>3, Moved DEF Inv, LockInv, locks, tables, streams, counters

LEMMA WaitEndsInv == ASSUME Inv, WaitEnds PROVE Inv'
<1> USE GoroutineFacts DEF WaitEnds, At
<1> DEFINE place == IF hsDone = "conn" THEN "send" ELSE "idle"
<1>1. Goto("app", place) /\ place \in Places \ {"mu"} /\ pc["app"] # "mu"
  BY DEF Places
<1>2. TableInv'
  BY <1>1, GotoFacts DEF Inv, TableInv, tables, counters
<1>3. QueueInv' /\ StreamInv'
  BY DEF Inv, QueueInv, StreamInv, StreamStates, queues, streams
<1> QED BY <1>1, <1>2, <1>3, Moved DEF Inv, LockInv, locks, tables, streams, counters

LEMMA sendApplicationFrameInv == ASSUME Inv, sendApplicationFrame PROVE Inv'
<1> USE GoroutineFacts DEF sendApplicationFrame, At
<1> DEFINE place == IF active = NoConn THEN "idle" ELSE "putData"
<1>1. Goto("app", place) /\ place \in Places \ {"mu"} /\ pc["app"] # "mu"
  BY DEF Places
<1>2. TableInv'
  BY <1>1, GotoFacts DEF Inv, TableInv, tables, counters
<1>3. QueueInv' /\ StreamInv'
  BY DEF Inv, QueueInv, StreamInv, StreamStates, queues, streams
<1> QED BY <1>1, <1>2, <1>3, Moved DEF Inv, LockInv, tables, streams, counters

LEMMA DataQueuedInv == ASSUME Inv, DataQueued PROVE Inv'
<1> USE GoroutineFacts DEF DataQueued, At
<1> DEFINE place == "send"
<1>1. Goto("app", place) /\ place \in Places \ {"mu"} /\ pc["app"] # "mu"
  BY DEF Places
<1>2. TableInv'
  BY <1>1, GotoFacts DEF Inv, TableInv, tables
<1>3. QueueInv' /\ StreamInv'
  BY DEF Inv, QueueInv, StreamInv, StreamStates, streams, sendPacket, Kinds
<1> QED BY <1>1, <1>2, <1>3, Moved DEF Inv, LockInv, tables, streams

LEMMA OtherSendsInv == ASSUME Inv, OtherSends PROVE Inv'
<1> USE GoroutineFacts DEF OtherSends, At
<1> DEFINE place == "putData"
<1>1. Goto("other", place) /\ place \in Places \ {"mu"} /\ pc["other"] # "mu"
  BY DEF Places
<1>2. TableInv'
  BY <1>1, GotoFacts DEF Inv, TableInv, tables, counters
<1>3. QueueInv' /\ StreamInv'
  BY DEF Inv, QueueInv, StreamInv, StreamStates, queues, streams
<1> QED BY <1>1, <1>2, <1>3, Moved DEF Inv, LockInv, tables, streams, counters

LEMMA OtherQueuedInv == ASSUME Inv, OtherQueued PROVE Inv'
<1> USE GoroutineFacts DEF OtherQueued, At
<1> DEFINE place == "idle"
<1>1. Goto("other", place) /\ place \in Places \ {"mu"} /\ pc["other"] # "mu"
  BY DEF Places
<1>2. TableInv'
  BY <1>1, GotoFacts DEF Inv, TableInv, tables
<1>3. QueueInv' /\ StreamInv'
  BY DEF Inv, QueueInv, StreamInv, StreamStates, streams, sendPacket, Kinds
<1> QED BY <1>1, <1>2, <1>3, Moved DEF Inv, LockInv, tables, streams

LEMMA CloseInv == ASSUME Inv, Close PROVE Inv'
<1> USE GoroutineFacts DEF Close, At
<1> DEFINE place == "lock"
<1>1. Goto("closer", place) /\ place \in Places \ {"mu"} /\ pc["closer"] # "mu"
  BY DEF Places
<1>2. TableInv'
  BY <1>1, GotoFacts DEF Inv, TableInv, tables, counters
<1>3. QueueInv' /\ StreamInv'
  BY DEF Inv, QueueInv, StreamInv, StreamStates, queues, streams
<1> QED BY <1>1, <1>2, <1>3, Moved DEF Inv, LockInv, locks, tables, streams, counters

LEMMA LoopReportsInv == ASSUME Inv, LoopReports PROVE Inv'
<1> USE GoroutineFacts DEF LoopReports, At
<1> DEFINE place == "lock"
<1>1. Goto("loop", place) /\ place \in Places \ {"mu"} /\ pc["loop"] # "mu"
  BY DEF Places
<1>2. TableInv'
  BY <1>1, GotoFacts DEF Inv, TableInv, tables, counters
<1>3. QueueInv' /\ StreamInv'
  BY DEF Inv, QueueInv, StreamInv, StreamStates, streams
<1> QED BY <1>1, <1>2, <1>3, Moved DEF Inv, LockInv, locks, tables, streams, counters

LEMMA LoopTakesInv == ASSUME Inv, LoopTakes PROVE Inv'
<1> USE GoroutineFacts DEF LoopTakes, At
<1> DEFINE place == "write"
<1>1. Goto("loop", place) /\ place \in Places \ {"mu"} /\ pc["loop"] # "mu"
  BY DEF Places
<1>2. TableInv'
  BY <1>1, GotoFacts DEF Inv, TableInv, tables, counters
<1>3. QueueInv' /\ StreamInv'
  BY DEF Inv, QueueInv, StreamInv, StreamStates, streams
<1> QED BY <1>1, <1>2, <1>3, Moved DEF Inv, LockInv, locks, tables, streams, counters

LEMMA WriteFailsInv == ASSUME Inv, WriteFails PROVE Inv'
<1> USE GoroutineFacts DEF WriteFails, At
<1> DEFINE place == "lock"
<1>1. Goto("loop", place) /\ place \in Places \ {"mu"} /\ pc["loop"] # "mu"
  BY DEF Places
<1>2. TableInv'
  BY <1>1, GotoFacts DEF Inv, TableInv, tables, counters
<1>3. QueueInv' /\ StreamInv'
  BY DEF Inv, QueueInv, StreamInv, StreamStates, queues, streams
<1> QED BY <1>1, <1>2, <1>3, Moved DEF Inv, LockInv, locks, tables, streams, counters

LEMMA LoopResumesInv == ASSUME Inv, LoopResumes PROVE Inv'
<1> USE GoroutineFacts DEF LoopResumes, At
<1> DEFINE place == "idle"
<1>1. Goto("loop", place) /\ place \in Places \ {"mu"} /\ pc["loop"] # "mu"
  BY DEF Places
<1>2. TableInv'
  BY <1>1, GotoFacts DEF Inv, TableInv, tables, counters
<1>3. QueueInv' /\ StreamInv'
  BY DEF Inv, QueueInv, StreamInv, StreamStates, queues, remove
<1> QED BY <1>1, <1>2, <1>3, Moved DEF Inv, LockInv, locks, tables, counters

LEMMA DialFailsInv == ASSUME NEW s \in Stream, Inv, DialFails(s) PROVE Inv'
<1> USE GoroutineFacts DEF DialFails, At
<1> DEFINE place == "lockFail"
<1>1. Goto(s, place) /\ place \in Places \ {"mu"} /\ pc[s] # "mu"
  BY DEF Places
<1>2. TableInv'
  BY <1>1, GotoFacts DEF Inv, TableInv, tables, counters
<1>3. QueueInv' /\ StreamInv'
  BY DEF Inv, QueueInv, StreamInv, StreamStates, queues
<1> QED BY <1>1, <1>2, <1>3, Moved DEF Inv, LockInv, locks, tables, counters

LEMMA DialReportedInv == ASSUME NEW s \in Stream, Inv, DialReported(s) PROVE Inv'
<1> USE GoroutineFacts DEF DialReported, At
<1> DEFINE place == "none"
<1>1. Goto(s, place) /\ place \in Places \ {"mu"} /\ pc[s] # "mu"
  BY DEF Places
<1>2. TableInv'
  BY <1>1, GotoFacts DEF Inv, TableInv, counters
<1>3. QueueInv' /\ StreamInv'
  BY DEF Inv, QueueInv, StreamInv, StreamStates, queues, streams
<1> QED BY <1>1, <1>2, <1>3, Moved DEF Inv, LockInv, locks, streams, counters

LEMMA StreamEndsInv == ASSUME NEW s \in Stream, Inv, StreamEnds(s) PROVE Inv'
<1> USE GoroutineFacts DEF StreamEnds, At
<1> DEFINE place == "list"
<1>1. Goto(s, place) /\ place \in Places \ {"mu"} /\ pc[s] # "mu"
  BY DEF Places
<1>2. TableInv'
  BY <1>1, GotoFacts DEF Inv, TableInv, tables, counters
<1>3. QueueInv' /\ StreamInv'
  BY DEF Inv, QueueInv, StreamInv, StreamStates, queues, remove
<1> QED BY <1>1, <1>2, <1>3, Moved DEF Inv, LockInv, locks, tables, counters

LEMMA CloseConnectionsAtInv == ASSUME NEW s \in Stream, Inv, CloseConnectionsAt(s) PROVE Inv'
<1> USE GoroutineFacts DEF CloseConnectionsAt, At
<1> DEFINE place == IF active = NoConn THEN "none" ELSE "lockEnd"
<1>1. Goto(s, place) /\ place \in Places \ {"mu"} /\ pc[s] # "mu"
  BY DEF Places
<1>2. TableInv'
  BY <1>1, GotoFacts DEF Inv, TableInv, tables, counters
<1>3. QueueInv' /\ StreamInv'
  BY DEF Inv, QueueInv, StreamInv, StreamStates, queues, streams
<1> QED BY <1>1, <1>2, <1>3, Moved DEF Inv, LockInv, locks, tables, streams, counters

LEMMA fanOutByTransportInv == ASSUME Inv, fanOutByTransport PROVE Inv'
<1> USE DEF fanOutByTransport
<1>1. QueueInv'
  <2>1. pktQueue \in Seq(Kinds) /\ pktQueue # <<>> /\ legQueue \in Seq(Kinds)
    BY DEF Inv, QueueInv
  <2>2. Tail(pktQueue) \in Seq(Kinds) /\ Len(Tail(pktQueue)) = Len(pktQueue) - 1
    BY <2>1
  <2>3. /\ Append(legQueue, Head(pktQueue)) \in Seq(Kinds)
        /\ Len(Append(legQueue, Head(pktQueue))) = Len(legQueue) + 1
    BY <2>1
  <2>4. Len(pktQueue) \in Nat /\ Len(legQueue) \in Nat
    BY <2>1
  <2> QED BY <2>2, <2>3, <2>4, GoroutineFacts DEF Inv, QueueInv
<1>2. LockInv' /\ TableInv' /\ StreamInv' /\ ChanInv'
  BY DEF Inv, LockInv, TableInv, StreamInv, ChanInv, locks, tables, counters, streams, mcVars
<1>3. NumberInv'
  BY NumberFrame DEF tables, counters, streams, mcVars
<1> QED BY <1>1, <1>2, <1>3 DEF Inv

LEMMA LoopDialsInv == ASSUME Inv, LoopDials PROVE Inv'
<1> USE GoroutineFacts DEF LoopDials, At
<1>1. PICK s \in Stream : /\ stream[s] = "none" /\ Goto(s, "dial")
                          /\ stream' = [stream EXCEPT ![s] = "dialing"]
  BY DEF Unused
<1>2. StreamInv'
  BY <1>1 DEF Inv, StreamInv, StreamStates
<1>3. QueueInv'
  BY DEF Inv, QueueInv
<1>4. /\ pc' \in [Goroutine -> Places]
      /\ pc'[s] = "dial" /\ \A h \in Goroutine : h # s => pc'[h] = pc[h]
  BY <1>1, GotoFacts DEF Places
<1>5. LockInv' /\ TableInv' /\ ChanInv'
  BY <1>4 DEF Inv, LockInv, TableInv, ChanInv, locks, tables, counters, mcVars
<1>6. NumberInv'
  <2>1. UNCHANGED <<inbox, rides, got, seqNum>>
    BY DEF tables, counters, mcVars
  <2>2. \A t \in Stream : DataIn(inbox[t]) \in Nat
    BY CountAppend DEF Inv, StreamInv
  <2>3. \A t \in Stream : InHand(t) \in Nat /\ InHand(t)' \in Nat /\ InHand(t)' <= InHand(t)
    BY <1>4, <2>1, <2>2 DEF InHand
  <2> QED BY <2>1, <2>3 DEF Inv, NumberInv, ChanInv
<1> QED BY <1>2, <1>3, <1>5, <1>6 DEF Inv

LEMMA LoopWritesOtherInv == ASSUME Inv, LoopWritesOther PROVE Inv'
<1> USE GoroutineFacts DEF LoopWritesOther
<1>1. QueueInv'
  <2>1. legQueue \in Seq(Kinds) /\ legQueue # <<>> /\ Len(legQueue) <= LegDepth
    BY DEF Inv, QueueInv
  <2>2. Tail(legQueue) \in Seq(Kinds) /\ Len(Tail(legQueue)) = Len(legQueue) - 1
    BY <2>1
  <2>3. legQueue' \in Seq(Kinds) /\ Len(legQueue') <= LegDepth
    BY <2>1, <2>2 DEF TransportAssumption
  <2> QED BY <2>3 DEF Inv, QueueInv
<1>2. LockInv' /\ TableInv' /\ StreamInv' /\ ChanInv'
  BY DEF Inv, LockInv, TableInv, StreamInv, ChanInv, locks, tables, counters, streams, mcVars
<1>3. NumberInv'
  BY NumberFrame DEF tables, counters, streams, mcVars
<1> QED BY <1>1, <1>2, <1>3 DEF Inv

LEMMA LoopWritesInv == ASSUME Inv, LoopWrites PROVE Inv'
<1> USE GoroutineFacts DEF LoopWrites, At
<1>1. /\ pc' \in [Goroutine -> Places]
      /\ pc'["loop"] = "idle" /\ \A h \in Goroutine : h # "loop" => pc'[h] = pc[h]
  BY GotoFacts DEF Places
<1>2. inbox \in [Stream -> Seq({"ack", "data"})]
  BY DEF Inv, StreamInv
<1>3. /\ inbox' \in [Stream -> Seq({"ack", "data"})]
      /\ \A s \in Stream : inbox'[s] = inbox[s] \/ inbox'[s] = Append(inbox[s], "ack")
  <2>1. CASE held.on \in Stream
    BY <1>2, <2>1
  <2>2. CASE held.on \notin Stream
    BY <1>2, <2>2
  <2> QED BY <2>1, <2>2
<1>4. LockInv' /\ TableInv' /\ ChanInv' /\ StreamInv' /\ QueueInv'
  BY <1>1, <1>3 DEF Inv, LockInv, TableInv, ChanInv, StreamInv, QueueInv, locks, tables, counters,
                    queues, mcVars
<1>5. NumberInv'
  <2>1. UNCHANGED <<rides, got, seqNum>> /\ \A s \in Stream : pc'[s] = pc[s]
    BY <1>1 DEF tables, counters, mcVars
  <2>2. \A s \in Stream : DataIn(inbox'[s]) = DataIn(inbox[s])
    BY <1>2, <1>3, CountAppend
  <2>3. \A s \in Stream : InHand(s)' = InHand(s)
    BY <2>1, <2>2 DEF InHand
  <2> QED BY <2>1, <2>3 DEF Inv, NumberInv
<1> QED BY <1>4, <1>5 DEF Inv

\* closeCannotSend, closeConnection: the goroutine closes the connection or goes on.
LEMMA CloseOrNotInv ==
    ASSUME Inv, NEW g \in Goroutine, pc[g] # "mu", pc[g] # "closing", NEW mine,
           CloseOrNot(g, mine), readers' = readers, QueueInv', StreamInv',
           pending' \in BOOLEAN, pending' => pending, g # "app",
           hsDone' \in {"empty", "conn", "closed"},
           UNCHANGED <<inbox, rides, dialed, got>>
    PROVE  Inv'
<1> USE GoroutineFacts
<1>1. After(g) \in Places \ {"mu"} /\ "closing" \in Places \ {"mu"}
  BY DEF After, Places
<1>2. PICK place \in Places \ {"mu"} : Goto(g, place)
  BY <1>1 DEF CloseOrNot
<1>3. /\ pc' \in [Goroutine -> Places]
      /\ pc'[g] # "mu" /\ \A h \in Goroutine : h # g => pc'[h] = pc[h]
  BY <1>2, GotoFacts
<1>4. LockInv'
  BY <1>3 DEF Inv, LockInv, CloseOrNot
<1>5. active' \in {active, NoConn}
  BY DEF CloseOrNot
<1>6. TableInv'
  BY <1>3, <1>5 DEF Inv, TableInv, NoConn
<1>7. ChanInv' /\ seqNum' = seqNum
  BY DEF Inv, ChanInv, CloseOrNot, CloseBegins, mcVars
<1>8. NumberInv'
  BY <1>3, <1>7, NumberFrame
<1> QED BY <1>4, <1>6, <1>7, <1>8 DEF Inv

LEMMA closeConnectionInv ==
    ASSUME NEW g \in Goroutine, Inv, closeConnection(g) PROVE Inv'
<1> USE DEF closeConnection
<1>1. QueueInv' /\ StreamInv'
  BY DEF Inv, QueueInv, StreamInv, queues, streams
<1>2. pending' \in BOOLEAN /\ (pending' => pending) /\ hsDone' \in {"empty", "conn", "closed"}
  BY DEF Inv, TableInv
<1> QED BY <1>1, <1>2, CloseOrNotInv DEF streams, counters

LEMMA ConnectionClosedInv ==
    ASSUME NEW g \in Goroutine, Inv, ConnectionClosed(g) PROVE Inv'
<1> USE GoroutineFacts DEF ConnectionClosed, At
<1>1. Goto(g, After(g)) /\ After(g) \in Places \ {"mu"} /\ After(g) # "lock"
  BY DEF After, Places
<1>2. /\ pc' \in [Goroutine -> Places]
      /\ pc'[g] = After(g) /\ \A h \in Goroutine : h # g => pc'[h] = pc[h]
  BY <1>1, GotoFacts
<1>3. LockInv' /\ TableInv'
  BY <1>1, <1>2 DEF Inv, LockInv, TableInv, tables, counters
<1>4. QueueInv' /\ StreamInv'
  BY DEF Inv, QueueInv, StreamInv, queues, streams
<1>5. ChanInv' /\ seqNum' = seqNum
  BY DEF Inv, ChanInv, CloseEnds
<1>6. NumberInv'
  BY <1>1, <1>2, <1>5, NumberFrame DEF tables, counters, streams
<1> QED BY <1>3, <1>4, <1>5, <1>6 DEF Inv

LEMMA closeCannotSendInv == ASSUME Inv, closeCannotSend PROVE Inv'
<1> USE GoroutineFacts DEF closeCannotSend, At
<1>1. QueueInv' /\ StreamInv'
  BY DEF Inv, QueueInv, StreamInv, queues, streams
<1>2. UNCHANGED <<readers, inbox, rides, dialed, got>>
  BY DEF streams, counters
<1>3. CASE held.kind = "hello"
  <2>1. Goto("loop", "failed") /\ "failed" \in Places \ {"mu"}
    BY <1>3 DEF Places
  <2>2. UNCHANGED <<writer, active, mcVars>>
    BY <1>3
  <2>3. TableInv'
    BY <1>2, <1>3, <2>1, <2>2, GotoFacts DEF Inv, TableInv
  <2> QED BY <1>1, <1>2, <2>1, <2>2, <2>3, Moved DEF Inv, LockInv
<1>4. CASE held.kind # "hello"
  <2>1. CloseOrNot("loop", TRUE) /\ UNCHANGED <<pending, hsDone>>
    BY <1>4
  <2>2. pending' \in BOOLEAN /\ (pending' => pending) /\ hsDone' \in {"empty", "conn", "closed"}
    BY <2>1 DEF Inv, TableInv
  <2> QED BY <1>1, <1>2, <2>1, <2>2, CloseOrNotInv
<1> QED BY <1>3, <1>4

-------------------------------------------------------------------------------
(* The streams: what is read is handed on, and only then numbered. *)

LEMMA DialSucceedsInv == ASSUME NEW s \in Stream, Inv, DialSucceeds(s) PROVE Inv'
<1> USE GoroutineFacts DEF DialSucceeds, At
<1>1. /\ pc' \in [Goroutine -> Places]
      /\ pc'[s] = "read" /\ \A h \in Goroutine : h # s => pc'[h] = pc[h]
  BY GotoFacts DEF Places
<1>2. LockInv' /\ TableInv' /\ QueueInv' /\ ChanInv'
  BY <1>1 DEF Inv, LockInv, TableInv, QueueInv, ChanInv, locks, tables, counters, queues, mcVars
<1>3. StreamInv'
  BY DEF Inv, StreamInv, StreamStates
<1>4. NumberInv'
  <2>1. UNCHANGED <<rides, got, seqNum>>
    BY DEF tables, counters, mcVars
  <2>2. \A t \in Stream : t # s => InHand(t)' = InHand(t)
    BY <1>1 DEF Inv, StreamInv, InHand
  <2>3. InHand(s)' = 0
    <3>1. inbox'[s] = Append(<<>>, "ack")
      BY DEF Inv, StreamInv
    <3>2. DataIn(<<>>) = 0
      <4>1. {i \in 1 .. Len(<<>>) : <<>>[i] = "data"} = {}
        OBVIOUS
      <4> QED BY <4>1, FS_EmptySet DEF DataIn
    <3>3. <<>> \in Seq({"ack", "data"})
      OBVIOUS
    <3>4. DataIn(Append(<<>>, "ack")) = 0
      BY <3>2, <3>3, CountAppend
    <3> QED BY <1>1, <3>1, <3>4 DEF InHand
  <2>4. DataIn(inbox[s]) \in Nat /\ InHand(s) \in Nat
    BY CountAppend DEF Inv, StreamInv, InHand
  <2> QED BY <2>1, <2>2, <2>3, <2>4 DEF Inv, NumberInv, ChanInv
<1> QED BY <1>2, <1>3, <1>4 DEF Inv

LEMMA BreakInv == ASSUME NEW s \in Stream, Inv, Break(s) PROVE Inv'
<1> USE DEF Break
<1>1. StreamInv'
  BY DEF Inv, StreamInv, StreamStates
<1>2. LockInv' /\ TableInv' /\ QueueInv' /\ ChanInv'
  BY DEF Inv, LockInv, TableInv, QueueInv, ChanInv, locks, tables, counters, queues, mcVars
<1>3. NumberInv'
  BY NumberFrame DEF tables, counters, mcVars
<1> QED BY <1>1, <1>2, <1>3 DEF Inv

LEMMA PeerSendsInv == ASSUME NEW s \in Stream, Inv, PeerSends(s) PROVE Inv'
<1> USE GoroutineFacts DEF PeerSends
<1>1. /\ inbox \in [Stream -> Seq({"ack", "data"})]
      /\ inbox' \in [Stream -> Seq({"ack", "data"})]
      /\ inbox'[s] = Append(inbox[s], "data")
      /\ \A t \in Stream : t # s => inbox'[t] = inbox[t]
  BY DEF Inv, StreamInv
<1>2. LockInv' /\ TableInv' /\ QueueInv' /\ ChanInv' /\ StreamInv'
  BY <1>1 DEF Inv, LockInv, TableInv, QueueInv, ChanInv, StreamInv, locks, tables, queues, mcVars
<1>3. NumberInv'
  <2>1. UNCHANGED <<pc, rides, seqNum>> /\ got' = got + 1 /\ got < MaxMsgs
    BY DEF tables, mcVars
  <2>2. DataIn(inbox[s]) \in Nat /\ DataIn(inbox'[s]) = DataIn(inbox[s]) + 1
    BY <1>1, CountAppend
  <2>3. InHand(s) \in Nat /\ InHand(s)' = InHand(s) + 1
    BY <2>1, <2>2 DEF InHand
  <2>4. \A t \in Stream : t # s => InHand(t)' = InHand(t)
    BY <1>1, <2>1 DEF InHand
  <2>5. \A t \in Stream : InHand(t) \in Nat
    BY <1>1, CountAppend DEF InHand
  <2>6. got \in Nat /\ seqNum \in Nat /\ got' \in 0 .. MaxMsgs
    BY <2>1 DEF Inv, NumberInv, ChanInv
  <2>7. ASSUME NEW t \in Stream
        PROVE  InHand(t)' <= got' /\ (rides' = t => seqNum' + InHand(t)' <= got')
    <3>1. InHand(t) <= got /\ (rides = t => seqNum + InHand(t) <= got)
      BY DEF Inv, NumberInv
    <3>2. InHand(t)' = InHand(t) \/ InHand(t)' = InHand(t) + 1
      BY <2>3, <2>4
    <3> QED BY <3>1, <3>2, <2>1, <2>5, <2>6
  <2>8. rides' = None => seqNum' = 0
    BY <2>1 DEF Inv, NumberInv
  <2> QED BY <2>6, <2>7, <2>8 DEF NumberInv
<1> QED BY <1>2, <1>3 DEF Inv

LEMMA ReadAckInv == ASSUME NEW s \in Stream, Inv, ReadAck(s) PROVE Inv'
<1> USE GoroutineFacts DEF ReadAck, At
<1>1. /\ inbox \in [Stream -> Seq({"ack", "data"})] /\ inbox[s] # <<>> /\ Head(inbox[s]) = "ack"
      /\ inbox' \in [Stream -> Seq({"ack", "data"})]
      /\ inbox'[s] = Tail(inbox[s])
      /\ \A t \in Stream : t # s => inbox'[t] = inbox[t]
  BY DEF Inv, StreamInv
<1>2. /\ pc' \in [Goroutine -> Places]
      /\ pc'[s] = "lockAck" /\ \A h \in Goroutine : h # s => pc'[h] = pc[h]
  BY GotoFacts DEF Places
<1>3. LockInv' /\ TableInv' /\ QueueInv' /\ ChanInv' /\ StreamInv'
  BY <1>1, <1>2 DEF Inv, LockInv, TableInv, QueueInv, ChanInv, StreamInv, locks, tables, counters,
                    queues, mcVars
<1>4. NumberInv'
  <2>1. UNCHANGED <<rides, seqNum, got>>
    BY DEF tables, counters, mcVars
  <2>2. DataIn(inbox[s]) = DataIn(inbox'[s])
    BY <1>1, CountTail
  <2>3. \A t \in Stream : InHand(t)' = InHand(t)
    BY <1>1, <1>2, <2>2 DEF InHand
  <2> QED BY <2>1, <2>3 DEF Inv, NumberInv
<1> QED BY <1>3, <1>4 DEF Inv

LEMMA ReadDataInv == ASSUME NEW s \in Stream, Inv, ReadData(s) PROVE Inv'
<1> USE GoroutineFacts DEF ReadData, At
<1>1. /\ inbox \in [Stream -> Seq({"ack", "data"})] /\ inbox[s] # <<>> /\ Head(inbox[s]) = "data"
      /\ inbox' \in [Stream -> Seq({"ack", "data"})]
      /\ inbox'[s] = Tail(inbox[s])
      /\ \A t \in Stream : t # s => inbox'[t] = inbox[t]
  BY DEF Inv, StreamInv
<1>2. /\ pc' \in [Goroutine -> Places]
      /\ pc'[s] = "mu" /\ \A h \in Goroutine : h # s => pc'[h] = pc[h]
  BY GotoFacts DEF Places
<1>3. LockInv' /\ TableInv' /\ QueueInv' /\ ChanInv' /\ StreamInv'
  BY <1>1, <1>2 DEF Inv, LockInv, TableInv, QueueInv, ChanInv, StreamInv, tables, counters,
                    queues, mcVars
<1>4. NumberInv'
  <2>1. UNCHANGED <<rides, seqNum, got>>
    BY DEF tables, counters, mcVars
  <2>2. DataIn(inbox[s]) = DataIn(inbox'[s]) + 1
    BY <1>1, CountTail
  <2>3. \A t \in Stream : InHand(t)' = InHand(t)
    BY <1>1, <1>2, <2>2 DEF InHand
  <2> QED BY <2>1, <2>3 DEF Inv, NumberInv
<1> QED BY <1>3, <1>4 DEF Inv

LEMMA receiveHandshakeAckInv ==
    ASSUME NEW s \in Stream, Inv, receiveHandshakeAck(s) PROVE Inv'
<1> USE GoroutineFacts DEF receiveHandshakeAck, At
<1>1. /\ pc' \in [Goroutine -> Places] /\ pc[s] = "lockAck"
      /\ pc'[s] = "read" /\ \A h \in Goroutine : h # s => pc'[h] = pc[h]
  BY GotoFacts DEF Places
<1>2. LockInv' /\ QueueInv' /\ StreamInv'
  BY <1>1 DEF Inv, LockInv, QueueInv, StreamInv, locks, queues, streams
<1>3. UNCHANGED <<inbox, dialed, got>>
  BY DEF streams, counters
<1>4. \A t \in Stream : InHand(t)' = InHand(t)
  BY <1>1, <1>3 DEF InHand
<1>5. CASE pending
  <2>1. TableInv'
    BY <1>1, <1>3, <1>5 DEF Inv, TableInv
  <2>2. ChanInv'
    <3>1. <<>> \in Seq(0 .. 0 - 1) /\ Len(<<>>) <= MsgDepth
      BY MsgDepthAssumption
    <3> QED BY <1>5, <3>1 DEF ChanInv
  <2>3. NumberInv'
    <3>1. \A t \in Stream : InHand(t) \in Nat
      BY CountAppend DEF Inv, StreamInv, InHand
    <3> QED BY <1>3, <1>4, <1>5, <3>1 DEF Inv, NumberInv
  <2> QED BY <1>2, <2>1, <2>2, <2>3 DEF Inv
<1>6. CASE ~ pending
  <2>1. UNCHANGED <<tables, mcVars>>
    BY <1>6
  <2>2. TableInv' /\ ChanInv'
    BY <1>1, <1>3, <2>1 DEF Inv, TableInv, ChanInv, tables, mcVars
  <2>3. NumberInv'
    BY <1>3, <1>4, <2>1 DEF Inv, NumberInv, tables, mcVars
  <2> QED BY <1>2, <2>2, <2>3 DEF Inv
<1> QED BY <1>5, <1>6

\* A message that is numbered leaves the ones before it numbered.
LEMMA SendMessageChan == ASSUME Inv, SendMessage PROVE ChanInv'
<1> USE DEF SendMessage
<1>1. CASE cancelled
  BY <1>1 DEF Inv, ChanInv
<1>2. CASE ~ cancelled
  <2>1. seqNum \in Nat /\ seqNum' = seqNum + 1 /\ UNCHANGED <<reorderBuf, recvSeqNum, chanClosed>>
    BY <1>2 DEF Inv, ChanInv
  <2>2. 0 .. seqNum - 1 \subseteq 0 .. seqNum' - 1 /\ seqNum \in 0 .. seqNum' - 1
    BY <2>1
  <2>3. ~ chanClosed
    BY <1>2 DEF Inv, ChanInv
  <2>4. messageChan \in Seq(0 .. seqNum' - 1) /\ Len(messageChan) \in Nat
    BY <2>2 DEF Inv, ChanInv
  <2>5. /\ Append(messageChan, seqNum) \in Seq(0 .. seqNum' - 1)
        /\ Len(Append(messageChan, seqNum)) = Len(messageChan) + 1
    BY <2>2, <2>4
  <2>6. /\ messageChan' \in Seq(0 .. seqNum' - 1) /\ Len(messageChan') <= MsgDepth
        /\ fallback' \subseteq 0 .. seqNum' - 1
    <3>1. /\ Len(messageChan) <= MsgDepth /\ fallback \subseteq 0 .. seqNum - 1
          /\ MsgDepth \in Nat
      BY MsgDepthAssumption DEF Inv, ChanInv
    <3>2. CASE Len(messageChan) < MsgDepth
      <4>1. messageChan' = Append(messageChan, seqNum) /\ fallback' = fallback
        BY <1>2, <3>2
      <4> QED BY <3>1, <3>2, <4>1, <2>2, <2>4, <2>5
    <3>3. CASE ~ (Len(messageChan) < MsgDepth)
      <4>1. messageChan' = messageChan /\ fallback' = fallback \cup {seqNum}
        BY <1>2, <3>3
      <4> QED BY <3>1, <4>1, <2>2, <2>4
    <3> QED BY <3>2, <3>3
  <2> QED BY <2>1, <2>2, <2>3, <2>6 DEF Inv, ChanInv
<1> QED BY <1>1, <1>2

LEMMA receiveApplicationInv ==
    ASSUME NEW s \in Stream, Inv, receiveApplication(s) PROVE Inv'
<1> USE GoroutineFacts DEF receiveApplication, At
<1>1. /\ pc' \in [Goroutine -> Places] /\ pc[s] = "mu"
      /\ pc'[s] = "read" /\ \A h \in Goroutine : h # s => pc'[h] = pc[h]
  BY GotoFacts DEF Places
<1>2. LockInv' /\ TableInv' /\ QueueInv' /\ StreamInv'
  BY <1>1 DEF Inv, LockInv, TableInv, QueueInv, StreamInv, tables, counters, queues, streams
<1>3. UNCHANGED <<inbox, rides, got>>
  BY DEF streams, tables, counters
<1>4. /\ DataIn(inbox[s]) \in Nat
      /\ InHand(s) = DataIn(inbox[s]) + 1 /\ InHand(s)' = DataIn(inbox[s])
      /\ \A t \in Stream : t # s => InHand(t)' = InHand(t)
  BY <1>1, <1>3, CountAppend DEF InHand, Inv, StreamInv
<1>5. ChanInv'
  BY SendMessageChan DEF Inv, ChanInv, mcVars
<1>6. seqNum \in Nat /\ (seqNum' = seqNum \/ (seqNum' = seqNum + 1 /\ rides = s))
  BY DEF Inv, ChanInv, SendMessage, mcVars
<1>7. NumberInv'
  BY <1>3, <1>4, <1>6 DEF Inv, NumberInv
<1> QED BY <1>2, <1>5, <1>7 DEF Inv

\* The goroutines of the channel and its reader take numbers from one place to another.
LEMMA MessagesInv == ASSUME Inv, Messages PROVE Inv'
<1> USE DEF Messages
<1>1. LockInv' /\ TableInv' /\ QueueInv' /\ StreamInv'
  BY DEF Inv, LockInv, TableInv, QueueInv, StreamInv, locks, tables, counters, queues, streams
<1>2. /\ seqNum \in Nat /\ messageChan \in Seq(0 .. seqNum - 1) /\ Len(messageChan) \in Nat
      /\ fallback \subseteq 0 .. seqNum - 1 /\ reorderBuf \subseteq 0 .. seqNum - 1
  BY DEF Inv, ChanInv
<1>3. seqNum' = seqNum
  BY DEF FallbackSends, FallbackDrops, popFromReorderBuf, ReceiveMessage, ReceiveClosed
<1>4. ChanInv'
  <2>1. CASE FallbackSends
    <3>1. PICK n \in fallback : /\ fallback' = fallback \ {n} /\ Len(messageChan) < MsgDepth
                                /\ messageChan' = Append(messageChan, n)
      BY <2>1 DEF FallbackSends
    <3>2. messageChan' \in Seq(0 .. seqNum - 1) /\ Len(messageChan') = Len(messageChan) + 1
      BY <3>1, <1>2
    <3> QED BY <2>1, <1>2, <3>1, <3>2, MsgDepthAssumption DEF FallbackSends, Inv, ChanInv
  <2>2. CASE FallbackDrops
    BY <2>2 DEF FallbackDrops, Inv, ChanInv
  <2>3. CASE popFromReorderBuf
    BY <2>3 DEF popFromReorderBuf, Inv, ChanInv
  <2>4. CASE ReceiveMessage
    <3>1. /\ messageChan # <<>> /\ messageChan' = Tail(messageChan)
          /\ UNCHANGED <<seqNum, fallback, cancelled, chanClosed>>
      BY <2>4 DEF ReceiveMessage
    <3>2. /\ messageChan' \in Seq(0 .. seqNum - 1) /\ Len(messageChan') = Len(messageChan) - 1
          /\ Head(messageChan) \in 0 .. seqNum - 1
      BY <3>1, <1>2
    <3>3. recvSeqNum' \in Nat /\ reorderBuf' \subseteq 0 .. seqNum - 1
      <4>1. recvSeqNum \in Nat
        BY DEF Inv, ChanInv
      <4>2. \/ recvSeqNum' = recvSeqNum + 1 /\ reorderBuf' = reorderBuf
            \/ reorderBuf' = reorderBuf \cup {Head(messageChan)} /\ recvSeqNum' = recvSeqNum
        BY <2>4 DEF ReceiveMessage
      <4>3. recvSeqNum' \in Nat
        BY <4>1, <4>2
      <4>4. reorderBuf' \subseteq 0 .. seqNum - 1
        BY <4>2, <3>2, <1>2, Zenon
      <4> QED BY <4>3, <4>4
    <3>4. Len(messageChan') <= MsgDepth
      BY <1>2, <3>2, MsgDepthAssumption DEF Inv, ChanInv
    <3> QED BY <3>1, <3>2, <3>3, <3>4 DEF Inv, ChanInv
  <2>5. CASE ReceiveClosed
    BY <2>5 DEF ReceiveClosed, Inv, ChanInv
  <2> QED BY <2>1, <2>2, <2>3, <2>4, <2>5
<1>5. NumberInv'
  BY <1>3, NumberFrame DEF tables, counters, streams
<1> QED BY <1>1, <1>4, <1>5 DEF Inv

LEMMA NextInv == Inv /\ [Next]_vars => Inv'
<1> SUFFICES ASSUME Inv, [Next]_vars PROVE Inv'
  OBVIOUS
<1>1. CASE App
  BY <1>1, SendHandshakeInv, HandshakePendingInv, HandshakeQueuedInv, retransmitHandshakeInv,
     RetransmittedInv, WaitEndsInv, sendApplicationFrameInv, DataQueuedInv DEF App
<1>2. CASE Loop \/ LoopWrites
  BY <1>2, LoopDialsInv, LoopTakesInv, LoopWritesOtherInv, LoopWritesInv, WriteFailsInv,
     LoopReportsInv, closeCannotSendInv, LoopResumesInv DEF Loop
<1>3. CASE Other \/ Close \/ fanOutByTransport \/ Messages
  BY <1>3, OtherSendsInv, OtherQueuedInv, CloseInv, fanOutByTransportInv, MessagesInv DEF Other
<1>4. CASE \E g \in Goroutine : Closing(g)
  BY <1>4, closeConnectionInv, ConnectionClosedInv DEF Closing
<1>5. ASSUME NEW s \in Stream, Reader(s) PROVE Inv'
  BY <1>5, DialSucceedsInv, DialFailsInv, DialReportedInv, ReadAckInv, receiveHandshakeAckInv,
     ReadDataInv, receiveApplicationInv, StreamEndsInv, CloseConnectionsAtInv DEF Reader
<1>6. ASSUME NEW s \in Stream, Break(s) \/ PeerSends(s) PROVE Inv'
  BY <1>6, BreakInv, PeerSendsInv
<1>7. CASE UNCHANGED vars
  <2>1. LockInv' /\ TableInv' /\ QueueInv' /\ StreamInv' /\ ChanInv'
    BY <1>7 DEF vars, Inv, LockInv, TableInv, QueueInv, StreamInv, ChanInv, locks, tables,
                counters, queues, streams, mcVars
  <2>2. NumberInv'
    BY <1>7, NumberFrame DEF vars, tables, counters, streams, mcVars
  <2> QED BY <2>1, <2>2 DEF Inv
<1> QED BY <1>1, <1>2, <1>3, <1>4, <1>5, <1>6, <1>7 DEF Next

\* The inductive invariant: the queues keep to their depths, the tables to the dials,
\* and every message number to a message the peer sent.
THEOREM Invariance == Spec => []Inv
<1> QED BY InitInv, NextInv, PTL DEF Spec

\* The types, with the depths of pktQueue, the leg's channel and the message channel,
\* and no message number that the peer sent no message for.
THEOREM TypeCorrect == Spec => []TypeOK
<1>1. Inv => TypeOK
  <2> SUFFICES ASSUME Inv PROVE TypeOK
    OBVIOUS
  <2>1. seqNum \in Nat /\ seqNum <= MaxMsgs
    <3>1. CASE rides = None
      BY <3>1, GoroutineFacts DEF Inv, NumberInv
    <3>2. CASE rides # None
      <4>1. rides \in Stream /\ InHand(rides) \in Nat
        BY <3>2, CountAppend DEF Inv, TableInv, StreamInv, InHand
      <4> QED BY <4>1, GoroutineFacts DEF Inv, NumberInv, ChanInv
    <3> QED BY <3>1, <3>2
  <2>2. reorderBuf \cup fallback \subseteq 0 .. MaxMsgs
    BY <2>1, GoroutineFacts DEF Inv, ChanInv
  <2> QED BY <2>2 DEF TypeOK, Inv, LockInv, QueueInv, TableInv, StreamInv, ChanInv
<1> QED BY <1>1, Invariance, PTL

\* CloseChannel closes messageChan only once no goroutine SendMessage left behind holds
\* a message, and none is left behind afterwards.
THEOREM NeverSendsOnClosed == Spec => []NoSendOnClosed
<1>1. Inv => NoSendOnClosed
  BY DEF Inv, ChanInv, NoSendOnClosed
<1> QED BY <1>1, Invariance, PTL

-------------------------------------------------------------------------------
(* The table of streams.  An entry goes with its own stream only; and as long as no    *)
(* dial has begun beside another, a stream that is open is the published one, and none *)
(* is open while one is dialed.                                                        *)

Published ==
    /\ \A s \in Stream : pc[s] = "dial" => stream[s] = "dialing"
    /\ conns # None => stream[conns] \in {"open", "broken"}
    /\ ~doubled =>
          /\ \A s \in Stream : stream[s] = "open" => conns = s
          /\ \A s, t \in Stream :
                stream[s] = "dialing" /\ stream[t] \in {"dialing", "open"} => t = s

PubInv == Inv /\ Published

\* A step that leaves the streams and their table alone, and dials none.
LEMMA QuietStep ==
    ASSUME PubInv, UNCHANGED <<conns, stream, doubled>>,
           \A s \in Stream : pc'[s] = "dial" => pc[s] = "dial"
    PROVE  Published'
  BY DEF PubInv, Published

\* A goroutine that goes anywhere but to a dial.
LEMMA QuietGoto ==
    ASSUME PubInv, UNCHANGED streams, NEW g \in Goroutine,
           NEW place \in Places \ {"dial"}, Goto(g, place)
    PROVE  Published'
<1>1. pc'[g] = place /\ \A h \in Goroutine : h # g => pc'[h] = pc[h]
  BY GotoFacts DEF PubInv
<1>2. \A s \in Stream : pc'[s] = "dial" => pc[s] = "dial"
  BY <1>1, GoroutineFacts
<1> QED BY <1>2, QuietStep DEF streams

LEMMA QuietApp == ASSUME PubInv, App \/ Other \/ Close PROVE Published'
<1> USE GoroutineFacts
<1>1. UNCHANGED streams
  BY DEF App, SendHandshake, HandshakePending, HandshakeQueued, retransmitHandshake, Retransmitted,
         WaitEnds, sendApplicationFrame, DataQueued, Other, OtherSends, OtherQueued, Close
<1>2. \E g \in {"app", "other", "closer"}, place \in Places \ {"dial"} : Goto(g, place)
  <2>1. {"lock", "put", "wait", "putAgain", "send", "idle", "putData"} \subseteq Places \ {"dial"}
    BY DEF Places
  <2>2. CASE App
    <3>1. \E place \in Places \ {"dial"} : Goto("app", place)
      BY <2>1, <2>2 DEF App, SendHandshake, HandshakePending, HandshakeQueued, retransmitHandshake,
                        Retransmitted, WaitEnds, sendApplicationFrame, DataQueued
    <3> QED BY <3>1
  <2>3. CASE Other
    <3>1. \E place \in Places \ {"dial"} : Goto("other", place)
      BY <2>1, <2>3 DEF Other, OtherSends, OtherQueued
    <3> QED BY <3>1
  <2>4. CASE Close
    BY <2>1, <2>4 DEF Close
  <2> QED BY <2>2, <2>3, <2>4
<1> QED BY <1>1, <1>2, QuietGoto

LEMMA QuietLoop ==
    ASSUME PubInv, \/ fanOutByTransport \/ LoopTakes \/ LoopWritesOther \/ LoopWrites \/ WriteFails
                   \/ LoopReports \/ closeCannotSend \/ Messages
    PROVE  Published'
<1> USE GoroutineFacts
<1>1. UNCHANGED <<conns, stream, doubled>>
  BY DEF fanOutByTransport, LoopTakes, LoopWritesOther, LoopWrites, WriteFails, LoopReports,
         closeCannotSend, Messages, streams
<1>2. pc' = pc \/ \E place \in Places : Goto("loop", place)
  <2>1. {"write", "idle", "lock", "failed", "closing"} \subseteq Places /\ After("loop") \in Places
    BY DEF Places, After
  <2> QED BY <2>1 DEF fanOutByTransport, LoopTakes, LoopWritesOther, LoopWrites, WriteFails,
                      LoopReports, closeCannotSend, CloseOrNot, Messages
<1>3. \A s \in Stream : pc'[s] = pc[s]
  BY <1>2, GotoFacts DEF PubInv
<1> QED BY <1>1, <1>3, QuietStep

LEMMA QuietReader ==
    ASSUME PubInv, \/ \E g \in Goroutine : Closing(g)
                   \/ \E s \in Stream : \/ DialReported(s) \/ ReadAck(s) \/ receiveHandshakeAck(s)
                                        \/ ReadData(s) \/ receiveApplication(s)
                                        \/ CloseConnectionsAt(s) \/ PeerSends(s)
    PROVE  Published'
<1> USE GoroutineFacts
<1>1. \A g \in Goroutine : After(g) \in Places \ {"dial"} /\ "closing" \in Places \ {"dial"}
  BY DEF After, Places
<1>2. ASSUME NEW g \in Goroutine, Closing(g) PROVE Published'
  <2>1. \E place \in Places \ {"dial"} : Goto(g, place)
    BY <1>1, <1>2 DEF Closing, closeConnection, ConnectionClosed, CloseOrNot
  <2> QED BY <1>2, <2>1, QuietGoto DEF Closing, closeConnection, ConnectionClosed
<1>3. ASSUME NEW s \in Stream,
             \/ DialReported(s) \/ ReadAck(s) \/ receiveHandshakeAck(s)
             \/ ReadData(s) \/ receiveApplication(s) \/ CloseConnectionsAt(s)
      PROVE  Published'
  <2>1. \E place \in Places \ {"dial"} : Goto(s, place)
    BY <1>3 DEF DialReported, ReadAck, receiveHandshakeAck, ReadData, receiveApplication,
                CloseConnectionsAt, Places
  <2>2. UNCHANGED <<conns, stream, doubled>>
    BY <1>3 DEF DialReported, ReadAck, receiveHandshakeAck, ReadData, receiveApplication,
                CloseConnectionsAt, streams
  <2>3. \A t \in Stream : pc'[t] = "dial" => pc[t] = "dial"
    BY <2>1, GotoFacts DEF PubInv
  <2> QED BY <2>2, <2>3, QuietStep
<1>4. ASSUME NEW s \in Stream, PeerSends(s) PROVE Published'
  BY <1>4, QuietStep DEF PeerSends
<1> QED BY <1>2, <1>3, <1>4

\* A dial begins: no stream is published, so that none is open, and the one dialed is
\* the only one unless this dial is the second of two.
LEMMA BeginsDial == ASSUME PubInv, LoopDials PROVE Published'
<1> USE GoroutineFacts DEF LoopDials
<1>1. Inv /\ Published
  BY DEF PubInv
<1>2. PICK s \in Stream : /\ stream[s] = "none" /\ Goto(s, "dial")
                          /\ stream' = [stream EXCEPT ![s] = "dialing"]
  BY DEF Unused
<1>3. \A t \in Stream : t # s => pc'[t] = pc[t]
  BY <1>1, <1>2, GotoFacts DEF Places
<1>4. conns' = None /\ conns = None
  OBVIOUS
<1>5. stream'[s] = "dialing" /\ \A t \in Stream : t # s => stream'[t] = stream[t]
  BY <1>1, <1>2 DEF Inv, StreamInv
<1>6. ASSUME ~doubled' PROVE ~doubled /\ \A t \in Stream : stream[t] \notin {"dialing", "open"}
  BY <1>1, <1>4, <1>6 DEF Published
<1> QED BY <1>1, <1>3, <1>4, <1>5, <1>6 DEF Published

\* The dial ends, and its stream is published unless it failed.
LEMMA EndsDial ==
    ASSUME PubInv, NEW s \in Stream, DialSucceeds(s) \/ DialFails(s)
    PROVE  Published'
<1> USE GoroutineFacts
<1>1. Inv /\ Published
  BY DEF PubInv
<1>2. stream[s] = "dialing" /\ doubled' = doubled
  BY <1>1 DEF DialSucceeds, DialFails, At, Published
<1>3. pc'[s] # "dial" /\ \A t \in Stream : t # s => pc'[t] = pc[t]
  <2>1. \E place \in Places \ {"dial"} : Goto(s, place)
    BY DEF DialSucceeds, DialFails, Places
  <2> QED BY <1>1, <2>1, GotoFacts
<1>4. \A t \in Stream : t # s => stream'[t] = stream[t]
  BY <1>1 DEF DialSucceeds, DialFails, Inv, StreamInv
<1>5. \/ stream'[s] = "open" /\ conns' = s
      \/ stream'[s] = "ended" /\ conns' = conns /\ conns # s
  BY <1>1, <1>2 DEF DialSucceeds, DialFails, Inv, StreamInv, Published
<1>6. conns' # None => conns' \in Stream /\ stream'[conns'] \in {"open", "broken"}
  BY <1>1, <1>4, <1>5 DEF Inv, StreamInv, Published
<1>7. ASSUME ~doubled PROVE \A t \in Stream : t # s => stream'[t] \notin {"dialing", "open"}
  BY <1>1, <1>2, <1>4, <1>7 DEF Published
<1> QED BY <1>1, <1>2, <1>3, <1>4, <1>5, <1>6, <1>7 DEF Published

\* A stream breaks or ends, and only its own entry goes.
LEMMA EndsStream ==
    ASSUME PubInv, LoopResumes \/ \E s \in Stream : Break(s) \/ StreamEnds(s)
    PROVE  Published'
<1> USE GoroutineFacts
<1>1. Inv /\ Published
  BY DEF PubInv
<1>2. doubled' = doubled
  BY DEF LoopResumes, Break, StreamEnds
<1>3. \A t \in Stream : pc'[t] = "dial" => pc[t] = "dial"
  <2>1. pc' = pc \/ \E g \in Goroutine, place \in Places \ {"dial"} : Goto(g, place)
    BY DEF LoopResumes, Break, StreamEnds, Places
  <2> QED BY <1>1, <2>1, GotoFacts
<1>4. \A t \in Stream : /\ stream'[t] = "dialing" <=> stream[t] = "dialing"
                        /\ stream'[t] = "open" => stream[t] = "open"
  BY <1>1 DEF LoopResumes, Break, StreamEnds, Inv, StreamInv
<1>5. /\ conns' \in {None, conns}
      /\ \A t \in Stream : stream'[t] = "open" /\ conns = t => conns' = t
  BY <1>1 DEF LoopResumes, Break, StreamEnds, remove, Inv, StreamInv
<1>6. conns' # None => conns' \in Stream /\ stream'[conns'] \in {"open", "broken"}
  BY <1>1 DEF LoopResumes, Break, StreamEnds, remove, Inv, StreamInv, Published
<1> QED BY <1>1, <1>2, <1>3, <1>4, <1>5, <1>6 DEF Published

\* The entry of streamConns goes with its own stream, never with one that ends late; and
\* as long as the peer has not been dialed beside a dial under way, a connection whose
\* stream works is found on that very stream.  For any number of dials, retransmissions
\* and streams, and dials that last as long as they like.
THEOREM RidesThePublished == Spec => []RidesPublished
<1>1. Init => PubInv
  <2> SUFFICES ASSUME Init PROVE Published
    BY InitInv DEF PubInv
  <2>1. \A s \in Stream : stream[s] = "none" /\ pc[s] # "dial"
    BY DEF Init, Goroutine
  <2> QED BY <2>1 DEF Init, Published
<1>2. PubInv /\ [Next]_vars => PubInv'
  <2> SUFFICES ASSUME PubInv, [Next]_vars PROVE Published'
    BY NextInv DEF PubInv
  <2>1. CASE App \/ Other \/ Close
    BY <2>1, QuietApp
  <2>2. CASE Loop \/ LoopWrites \/ fanOutByTransport \/ Messages
    BY <2>2, QuietLoop, BeginsDial, EndsStream DEF Loop
  <2>3. CASE \E g \in Goroutine : Closing(g)
    BY <2>3, QuietReader
  <2>4. ASSUME NEW s \in Stream, Reader(s) \/ Break(s) \/ PeerSends(s)
        PROVE  Published'
    BY <2>4, QuietReader, EndsDial, EndsStream DEF Reader
  <2>5. CASE UNCHANGED vars
    BY <2>5, QuietStep DEF vars, streams
  <2> QED BY <2>1, <2>2, <2>3, <2>4, <2>5 DEF Next
<1>3. PubInv => RidesPublished
  BY DEF PubInv, Inv, TableInv, Published, RidesPublished
<1> QED BY <1>1, <1>2, <1>3, PTL DEF Spec

===============================================================================
