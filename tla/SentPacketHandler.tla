-------------------------- MODULE SentPacketHandler --------------------------
(***************************************************************************)
(* The loss detector of a connection (trsf/ack_handler.go): the packets    *)
(* awaiting a verdict, the three incremental counters that decide whether  *)
(* anything is worth waking for, the loss and PTO timer, and the account   *)
(* of spurious losses.                                                     *)
(*                                                                         *)
(* All calls come from the connection's run loop, under the handler's      *)
(* lock, so an operation is one step.  Time is an integer, 0 standing for  *)
(* the zero time.Time.  `rtt' stands for the smoothed estimate both delays *)
(* are computed from; a new sample moves it anywhere in RTTs.              *)
(***************************************************************************)
EXTENDS Integers, Sequences, FiniteSets, FiniteSetsExt, SequencesExt

CONSTANTS
    Sizes,                   \* packet sizes
    RTTs,                    \* round trip estimates
    maxDeclaredLostTracked,  \* length of the declaredLost ring (256)
    MaxSent,                 \* bound: packets sent
    MaxTime                  \* bound: the clock

ASSUME HandlerAssumption ==
    /\ Sizes \subseteq Nat \ {0} /\ RTTs \subseteq Nat \ {0} /\ RTTs # {}
    /\ maxDeclaredLostTracked \in Nat \ {0} /\ MaxSent \in Nat /\ MaxTime \in Nat \ {0}
ASSUME BackoffAssumption == \A n \in 0 .. MaxTime : 2^n \in Nat \ {0}

VARIABLES
    now,
    largestSent, largestAcked,
    bytesInFlight, mtuProbesOutstanding, exemptOutstanding,
    sentRanges,       \* the packets awaiting a verdict
    rtt, ptoCount,
    lossTime,         \* earliest time a suspect is lost, 0 for none
    multiModalTimer,  \* when the run loop calls OnTimeout, 0 for never
    loss,             \* LossStats
    declaredLost,     \* packet numbers given up on, for the spurious check
    cong,             \* history: bytes RecordSend, RecordACK, RecordLoss were told
    verdicts          \* history: what each packet's callbacks were told, in order

handlerVars == <<largestSent, largestAcked, bytesInFlight, mtuProbesOutstanding,
                 exemptOutstanding, sentRanges, rtt, ptoCount, lossTime,
                 multiModalTimer, loss, declaredLost, cong, verdicts>>
detectorVars == <<now, handlerVars>>

\* The combinations of properties the run loop registers packets with: stream
\* data, window updates and cancels; datagrams in and out of congestion control;
\* MTU probes.
Kinds == {"stream", "datagram", "uncontrolled", "probe"}

CongestionExempt(p) == p.Kind \in {"uncontrolled", "probe"}
PathEvidence(p)     == p.Kind # "probe"
Retransmittable(p)  == p.Kind = "stream"
IsMTUProbe(p)       == p.Kind = "probe"

HandlerInit ==
    /\ now = 1
    /\ largestSent = 0 /\ largestAcked = 0
    /\ bytesInFlight = 0 /\ mtuProbesOutstanding = 0 /\ exemptOutstanding = 0
    /\ sentRanges = {}
    /\ rtt \in RTTs /\ ptoCount = 0
    /\ lossTime = 0 /\ multiModalTimer = 0
    /\ loss = [Events |-> 0, Packets |-> 0, Spurious |-> 0]
    /\ declaredLost = <<>>
    /\ cong = [sent |-> 0, acked |-> 0, lost |-> 0]
    /\ verdicts = [n \in 1 .. MaxSent |-> <<>>]

-----------------------------------------------------------------------------
(* Helpers *)

Size(ps) == MapThenSumSet(LAMBDA p : p.PacketSize, ps)
Controlled(ps) == {p \in ps : ~ CongestionExempt(p)}
Exempt(ps) == {p \in ps : CongestionExempt(p)}
Probes(ps) == {p \in ps : IsMTUProbe(p)}
Numbers(ps) == {p.PacketNumber : p \in ps}

Told(ps, what) ==
    [n \in 1 .. MaxSent |->
        IF n \in Numbers(ps) THEN Append(verdicts[n], what) ELSE verdicts[n]]

\* What a lost packet says of the path; a lost MTU probe says only that it was big.
Evidence(lost) == {p \in lost : PathEvidence(p)}

\* The window pays once for everything a pass declares lost.
LossEvent(lost) == IF Controlled(lost) # {} THEN 1 ELSE 0

\* The ring is full: the oldest number makes room.
rememberDeclaredLost(ring, n) ==
    Append(IF Len(ring) >= maxDeclaredLostTracked THEN Tail(ring) ELSE ring, n)

\* Once per lost packet, in the order they were sent.
Remember(ring, lost) ==
    LET declared == Numbers(Evidence(lost))
        after[n \in 0 .. MaxSent] ==
            IF n = 0 THEN ring
            ELSE IF n \in declared THEN rememberDeclaredLost(after[n - 1], n)
            ELSE after[n - 1]
    IN after[MaxSent]

\* Mutant of Uncount: the probe counter is forgotten.
UncountNoProbe(gone) ==
    /\ bytesInFlight' = bytesInFlight - Size(Controlled(gone))
    /\ exemptOutstanding' = exemptOutstanding - Cardinality(Exempt(gone))
    /\ UNCHANGED mtuProbesOutstanding

\* The counters let go of the packets that leave.
Uncount(gone) ==
    /\ bytesInFlight' = bytesInFlight - Size(Controlled(gone))
    /\ exemptOutstanding' = exemptOutstanding - Cardinality(Exempt(gone))
    /\ mtuProbesOutstanding' = mtuProbesOutstanding - Cardinality(Probes(gone))

lossDelay(r) == r

PTO(n) == rtt' + 2^n

\* Mutant of setLossDetectionTimer: exempt packets arm nothing.
setLossDetectionTimerControlled(time) ==
    multiModalTimer' =
        CASE lossTime' # 0 -> lossTime'
          [] lossTime' = 0 /\ bytesInFlight' = 0 /\ mtuProbesOutstanding' = 0 -> 0
          [] OTHER -> time + PTO(ptoCount')

setLossDetectionTimer(time) ==
    multiModalTimer' =
        CASE lossTime' # 0 -> lossTime'
          [] /\ lossTime' = 0
             /\ bytesInFlight' = 0 /\ mtuProbesOutstanding' = 0 /\ exemptOutstanding' = 0 -> 0
          [] OTHER -> time + PTO(ptoCount')

-----------------------------------------------------------------------------
OnSent(kind, size) ==
    /\ largestSent < MaxSent
    /\ LET p == [PacketNumber |-> largestSent + 1, PacketSize |-> size,
                 SentTime |-> now, Kind |-> kind]
       IN /\ sentRanges' = sentRanges \cup {p}
          /\ largestSent' = p.PacketNumber
          /\ IF CongestionExempt(p)
             THEN /\ exemptOutstanding' = exemptOutstanding + 1
                  /\ UNCHANGED <<bytesInFlight, cong>>
             ELSE /\ bytesInFlight' = bytesInFlight + size
                  /\ cong' = [cong EXCEPT !.sent = @ + size]
                  /\ UNCHANGED exemptOutstanding
          /\ mtuProbesOutstanding' = mtuProbesOutstanding + (IF IsMTUProbe(p) THEN 1 ELSE 0)
    /\ UNCHANGED <<now, largestAcked, rtt, ptoCount, lossTime, loss, declaredLost, verdicts>>
    /\ setLossDetectionTimer(now)

\* The packets detectLost gives up on: not above the largest acknowledged number
\* and sent a loss delay ago or more.
LostNow(ps, largest, delay) ==
    {p \in ps : p.PacketNumber <= largest /\ p.SentTime <= now - delay}

\* The loss timer is set from the FIRST suspect left behind, in sending order.
LossTimeOf(ps, largest, delay) ==
    LET suspects == {p \in ps : p.PacketNumber <= largest}
        first == CHOOSE p \in suspects : \A q \in suspects : p.PacketNumber <= q.PacketNumber
    IN IF suspects = {} THEN 0 ELSE first.SentTime + delay

\* detectLost, on what the ACK left outstanding (`rest'), after `acked' packets
\* were retired; an OnTimeout passes no acknowledged packet.
Retire(acked, rest, ring) ==
    LET lost == LostNow(rest, largestAcked', lossDelay(rtt'))
    IN /\ sentRanges' = rest \ lost
       /\ lossTime' = LossTimeOf(rest \ lost, largestAcked', lossDelay(rtt'))
       /\ Uncount(acked \cup lost)
       /\ declaredLost' = Remember(ring, lost)
       /\ loss' = [loss EXCEPT
                     !.Events = @ + LossEvent(lost),
                     !.Packets = @ + Cardinality(Evidence(lost)),
                     !.Spurious = @ + Len(declaredLost) - Len(ring)]
       /\ cong' = [cong EXCEPT !.acked = @ + Size(Controlled(acked)),
                               !.lost = @ + Size(Controlled(lost))]
       /\ verdicts' = [n \in 1 .. MaxSent |->
                         IF n \in Numbers(acked) THEN Append(verdicts[n], "acked")
                                                 ELSE Told(lost, "lost")[n]]

\* noteSpuriousLoss: a declared-lost number the ACK covers was never lost.
Vindicated(ack) ==
    LET remain[i \in 0 .. Len(declaredLost)] ==
            IF i = 0 THEN <<>>
            ELSE IF declaredLost[i] \in ack THEN remain[i - 1]
            ELSE Append(remain[i - 1], declaredLost[i])
    IN remain[Len(declaredLost)]

\* An ACK of packets actually sent; `sample' is the estimate after it.
ReceiveACK(ack, sample) ==
    LET acked == {p \in sentRanges : p.PacketNumber \in ack}
        largest == Max(ack)
    IN /\ largest <= largestSent
       /\ acked # {}
       /\ largest \notin Numbers(acked) => sample = rtt
       /\ rtt' = sample
       /\ largestAcked' = Max({largestAcked, largest})
       /\ ptoCount' = 0
       /\ Retire(acked, sentRanges \ acked, Vindicated(ack))
       /\ setLossDetectionTimer(now)
       /\ UNCHANGED <<now, largestSent>>

\* An ACK that retires nothing only settles the spurious account.
ReceiveStaleACK(ack) ==
    /\ Max(ack) <= largestSent
    /\ ack \cap Numbers(sentRanges) = {}
    /\ declaredLost' = Vindicated(ack)
    /\ loss' = [loss EXCEPT !.Spurious = @ + Len(declaredLost) - Len(declaredLost')]
    /\ UNCHANGED <<now, largestSent, largestAcked, bytesInFlight, mtuProbesOutstanding,
                   exemptOutstanding, sentRanges, rtt, ptoCount, lossTime,
                   multiModalTimer, cong, verdicts>>

TimerFired == multiModalTimer # 0 /\ now > multiModalTimer

\* OnTimeout with the loss timer armed.
OnLossTimeout ==
    /\ TimerFired
    /\ lossTime # 0
    /\ UNCHANGED <<now, largestSent, largestAcked, rtt, ptoCount>>
    /\ Retire({}, sentRanges, declaredLost)
    /\ setLossDetectionTimer(now)

\* declareLostUnretransmittable.
Unretransmittable == {p \in sentRanges : ~ Retransmittable(p)}

\* Mutant of PTOTarget: chosen before the list was rebuilt.
PTOTargetStale(rest) ==
    {p \in sentRanges : \A q \in sentRanges : p.PacketNumber <= q.PacketNumber}

\* The packet a PTO sends again: the oldest one left.
PTOTarget(rest) == {p \in rest : \A q \in rest : p.PacketNumber <= q.PacketNumber}

\* OnTimeout without it.  What nothing will send again is lost now; then, if
\* bytes are still in flight, the oldest packet is sent again and stays.
OnPTO ==
    LET lost == Unretransmittable
        rest == sentRanges \ lost
        first == PTOTarget(rest)
    IN /\ TimerFired
       /\ lossTime = 0
       /\ sentRanges' = rest
       /\ Uncount(lost)
       /\ declaredLost' = Remember(declaredLost, lost)
       /\ loss' = [loss EXCEPT !.Events = @ + LossEvent(lost),
                               !.Packets = @ + Cardinality(Evidence(lost))]
       /\ cong' = [cong EXCEPT !.lost = @ + Size(Controlled(lost))]
       /\ ptoCount' = IF bytesInFlight' # 0 /\ rest # {} THEN ptoCount + 1 ELSE ptoCount
       /\ verdicts' = [n \in 1 .. MaxSent |->
                         IF bytesInFlight' # 0 /\ n \in Numbers(first)
                         THEN Append(verdicts[n], "pto")
                         ELSE Told(lost, "lost")[n]]
       /\ UNCHANGED <<now, largestSent, largestAcked, rtt, lossTime>>
       /\ setLossDetectionTimer(now)

\* Time passes; a timer may be served late.
Tick ==
    /\ now < MaxTime
    /\ now' = now + 1
    /\ UNCHANGED handlerVars

HandlerNext ==
    \/ \E kind \in Kinds, size \in Sizes : OnSent(kind, size)
    \/ \E ack \in (SUBSET (1 .. largestSent)) \ {{}} :
          \/ \E sample \in RTTs : ReceiveACK(ack, sample)
          \/ ReceiveStaleACK(ack)
    \/ OnLossTimeout
    \/ OnPTO
    \/ Tick

HandlerSpec == HandlerInit /\ [][HandlerNext]_detectorVars

-----------------------------------------------------------------------------
(* Properties *)

HandlerTypeOK ==
    /\ now \in 1 .. MaxTime
    /\ largestSent \in 0 .. MaxSent /\ largestAcked \in 0 .. largestSent
    /\ bytesInFlight \in Nat /\ mtuProbesOutstanding \in Nat /\ exemptOutstanding \in Nat
    /\ sentRanges \subseteq [PacketNumber : 1 .. largestSent, PacketSize : Sizes,
                             SentTime : 1 .. now, Kind : Kinds]
    /\ rtt \in RTTs /\ ptoCount \in Nat
    /\ lossTime \in Nat /\ multiModalTimer \in Nat
    /\ loss \in [Events : Nat, Packets : Nat, Spurious : Nat]
    /\ declaredLost \in Seq(1 .. largestSent)
    /\ Len(declaredLost) <= maxDeclaredLostTracked

\* The incremental counters agree with the packets they count, whichever of the
\* four ways a packet leaves (auditBytesInFlight checks the first one, in debug
\* builds only).
CountersExact ==
    /\ bytesInFlight = Size(Controlled(sentRanges))
    /\ exemptOutstanding = Cardinality(Exempt(sentRanges))
    /\ mtuProbesOutstanding = Cardinality(Probes(sentRanges))

\* The congestion controller is told of every controlled byte once on the way in
\* and once on the way out, and of no exempt byte at all.
WindowConserved == cong.sent = cong.acked + cong.lost + bytesInFlight

\* The timer is the only thing that will ever declare an outstanding packet lost:
\* it is armed exactly while one is outstanding.
TimerCoversOutstanding == sentRanges # {} <=> multiModalTimer # 0

\* The loss timer is armed for the EARLIEST suspect, and only while there is one:
\* taking the first in sending order is taking the earliest.
LossTimeIsEarliest ==
    LET suspects == {p \in sentRanges : p.PacketNumber <= largestAcked}
    IN IF suspects = {}
       THEN lossTime = 0
       ELSE lossTime = Min({p.SentTime + lossDelay(rtt) : p \in suspects})

\* OnTimeout never reports "BUG: no packets in flight".
TimeoutHasWork ==
    TimerFired /\ lossTime = 0 => bytesInFlight # 0 \/ Unretransmittable # {}

\* Every packet gets one verdict, acknowledged or lost, which is the last it hears
\* of, and until then is outstanding; only one that will be sent again hears of a
\* PTO before.
OneVerdict ==
    \A n \in 1 .. largestSent :
        LET told == verdicts[n]
            final == {i \in DOMAIN told : told[i] # "pto"}
        IN /\ final \subseteq {Len(told)}
           /\ final = {} <=> n \in Numbers(sentRanges)
           /\ final = {} => told = <<>> \/ \E p \in sentRanges :
                                              p.PacketNumber = n /\ Retransmittable(p)

\* A loss is called spurious at most once, and only after it was counted.
SpuriousWasCounted == loss.Spurious + Len(declaredLost) <= loss.Packets

\* The handler's books balance: its counters, the congestion controller's and the
\* statistics all agree with the packets.
BooksBalance == HandlerTypeOK /\ CountersExact /\ WindowConserved /\ SpuriousWasCounted

\* The timer is armed while it is needed, for the right moment, and finds something to
\* do when it fires.
TimerSound == TimerCoversOutstanding /\ LossTimeIsEarliest /\ TimeoutHasWork
=============================================================================
