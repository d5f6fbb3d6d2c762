------------------------------- MODULE Endpoint -------------------------------
(***************************************************************************)
(* The tables of the endpoints of src/objproto/objproto.go: handshakes     *)
(* sent, active connections and proxy settings, over a network that loses, *)
(* repeats and reorders packets.                                           *)
(*                                                                         *)
(* A side is one endpoint's view of one connection id.  Far[s] is the side *)
(* a packet sent from s arrives at; Beside[s] is, on a relay, the other    *)
(* side its proxy setting may forward to, and s itself elsewhere.          *)
(*                                                                         *)
(* A hello stands for the ephemeral key it carries.  The ack of a          *)
(* responder is known by the connection made with it, and the keys of a    *)
(* connection by the pair of the two: the keys of two connections are the  *)
(* same exactly when both pairs are.                                       *)
(***************************************************************************)
EXTENDS Naturals

CONSTANTS
    Side, Far, Beside,
    Dialers,         \* sides whose endpoint is not in server mode
    Responders,      \* sides whose endpoint is not in client mode
    MaxHellos, MaxConns, MaxTicks, MaxExchanges, MaxFaults  \* bounds

None == 0
NoKey == <<None, None>>
Hello == 1..MaxHellos
Conn == 1..MaxConns

ASSUME SidesAssumption ==
    /\ Far \in [Side -> Side] /\ Beside \in [Side -> Side]
    /\ \A s \in Side : Far[Far[s]] = s /\ Far[s] # s /\ Beside[Beside[s]] = s
    /\ Dialers \subseteq Side /\ Responders \subseteq Side
ASSUME EndpointBounds ==
    /\ MaxHellos \in Nat /\ MaxConns \in Nat /\ MaxTicks \in Nat
    /\ MaxExchanges \in Nat /\ MaxFaults \in Nat

VARIABLES
    active,      \* activeConnections, by side
    pending,     \* sentHandshake: the hello that waits for an ack
    parked,      \* its proxyConnection
    forward,     \* sides with a proxy setting
    exchanging,  \* calls of receiveHandshake between their two looks at the table
    key,         \* the keys of the active connection
    recent,      \* sides whose active connection received something lately
    reack,       \* sides whose active connection is inside the re-ack window
    made,        \* connections made so far
    closes,      \* how often a connection's closed channel was closed
    hellos,      \* hellos made so far
    answers,     \* how often a hello's hsDone was closed or given a connection
    ticks,       \* retransmissions of a hello
    refused, expired,  \* history: hellos turned away, hellos given up
    net, faults

tables == <<active, pending, parked, forward, exchanging>>
objects == <<made, key, recent, reack, closes>>
dials == <<hellos, answers, ticks, refused, expired>>
vars == <<tables, objects, dials, net, faults>>

hello(s, h) == [kind |-> "hello", to |-> Far[s], key |-> <<h, None>>]
ack(s, k)   == [kind |-> "ack", to |-> Far[s], key |-> k]

\* A channel that is closed once more, of each of a set.
Again(count, S) == [x \in DOMAIN count |-> IF x \in S THEN count[x] + 1 ELSE count[x]]

-------------------------------------------------------------------------------

\* NewEndpoint, for every endpoint.
Init ==
    /\ active = [s \in Side |-> None] /\ pending = [s \in Side |-> None]
    /\ parked = [s \in Side |-> None]
    /\ forward = {} /\ exchanging = [s \in Side |-> [h \in Hello |-> 0]]
    /\ made = 0 /\ key = [s \in Side |-> NoKey]
    /\ recent = {} /\ reack = {} /\ closes = [c \in Conn |-> 0]
    /\ hellos = 0 /\ answers = [h \in Hello |-> 0] /\ ticks = [h \in Hello |-> 0]
    /\ refused = {} /\ expired = {}
    /\ net = {} /\ faults = 0

\* A pending handshake for the same connection id is given up for the new one.
sendHandshake(s, conn) ==
    /\ hellos < MaxHellos
    /\ hellos' = hellos + 1
    /\ pending' = [pending EXCEPT ![s] = hellos + 1]
    /\ parked' = [parked EXCEPT ![s] = conn]
    /\ answers' = Again(answers, {pending[s]})
    /\ closes' = Again(closes, {parked[s]})
    /\ net' = net \cup {hello(s, hellos + 1)}

SendHandshake(s) ==
    /\ s \in Dialers
    /\ active[s] = None
    /\ sendHandshake(s, None)
    /\ UNCHANGED <<active, forward, exchanging, made, key, recent, reack,
                   ticks, refused, expired, faults>>

LeavesTable(s) ==
    /\ active' = [active EXCEPT ![s] = None]
    /\ key' = [key EXCEPT ![s] = NoKey]
    /\ recent' = recent \ {s} /\ reack' = reack \ {s}

\* Seeded fault: the connection stays in the table meanwhile.
rehandshakeInTable(s) ==
    /\ active[s] # None
    /\ sendHandshake(s, active[s])
    /\ UNCHANGED <<active, key, recent, reack, forward, exchanging, made, ticks, refused,
                   expired, faults>>

\* The connection leaves the table until the ack brings it back.  Until then
\* Close finds no entry for it and does nothing.
sendRehandshakeForProxy(s) ==
    /\ active[s] # None
    /\ LeavesTable(s)
    /\ sendHandshake(s, active[s])
    /\ UNCHANGED <<forward, exchanging, made, ticks, refused, expired, faults>>

\* A hello is on its way, is being answered, or its ack is on its way.
InPlay(h) == \/ \E p \in net : p.key[1] = h
             \/ \E s \in Side : exchanging[s][h] > 0

\* The wait of a dial: the same datagram again.  The code counts no retransmissions
\* and sends them by the clock; MaxTicks, and the wait for what is in play, bound the
\* exploration.  A hello that meets an answer under way is the network's repetition.
retransmitHandshake(s) ==
    /\ pending[s] # None /\ ~InPlay(pending[s])
    /\ ticks[pending[s]] < MaxTicks
    /\ ticks' = [ticks EXCEPT ![pending[s]] = @ + 1]
    /\ net' = net \cup {hello(s, pending[s])}
    /\ UNCHANGED <<tables, objects, hellos, answers, refused, expired, faults>>

\* DeleteHandshakeBefore and DeleteInactiveConnectionsBefore, closeCannotSend:
\* the entry goes and what waits on it is told.
dropHandshake(s) ==
    /\ answers' = Again(answers, {pending[s]})
    /\ closes' = Again(closes, {parked[s]})
    /\ pending' = [pending EXCEPT ![s] = None]
    /\ parked' = [parked EXCEPT ![s] = None]

dropConnection(s) ==
    /\ closes' = Again(closes, {active[s]})
    /\ LeavesTable(s)

closeConnection(s) ==
    /\ active[s] # None
    /\ dropConnection(s)
    /\ UNCHANGED <<pending, parked, forward, exchanging, made, dials, net, faults>>

\* The collector's limit is longer than the retransmissions and their answers.
DeleteHandshakeBefore(s) ==
    /\ pending[s] # None
    /\ ticks[pending[s]] = MaxTicks /\ ~InPlay(pending[s])
    /\ expired' = expired \cup {pending[s]}
    /\ dropHandshake(s)
    /\ UNCHANGED <<active, forward, exchanging, made, key, recent, reack,
                   hellos, ticks, refused, net, faults>>

DeleteInactiveConnectionsBefore(s) ==
    /\ active[s] # None /\ s \notin recent
    /\ dropConnection(s)
    /\ UNCHANGED <<pending, parked, forward, exchanging, made, dials, net, faults>>

\* Time passes for a connection: nothing was received lately.
Idle(s) ==
    /\ s \in recent
    /\ recent' = recent \ {s}
    /\ UNCHANGED <<tables, key, reack, made, closes, dials, net, faults>>

\* The re-ack window covers a dialer's retransmissions.
ReackWindowEnds(s) ==
    /\ s \in reack /\ ~InPlay(key[s][1])
    /\ \A t \in Side : pending[t] # key[s][1]
    /\ reack' = reack \ {s}
    /\ UNCHANGED <<tables, key, recent, made, closes, dials, net, faults>>

-------------------------------------------------------------------------------
(* Proxying *)

Pair(s) == {s, Beside[s]}

SetProxy(s) ==
    /\ Beside[s] # s /\ active[Beside[s]] = None
    /\ forward' = forward \cup Pair(s)
    /\ UNCHANGED <<active, pending, parked, exchanging, objects, dials, net, faults>>

\* DeleteProxy, and DeleteProxyBefore at any time: when a setting was last used
\* is left open.
DeleteProxy(s) ==
    /\ s \in forward
    /\ forward' = forward \ Pair(s)
    /\ UNCHANGED <<active, pending, parked, exchanging, objects, dials, net, faults>>

-------------------------------------------------------------------------------
(* The network: each handler is given what is left of the network once the  *)
(* packet it handles has been taken.                                        *)

\* A hello comes to nothing while its dialer still waits.
TurnedAway(h) == refused \cup ({h} \cap {pending[t] : t \in Side})

\* The endpoint whose connection a hello made does not turn it away.
Refused(s, h) == IF key[s][1] = h THEN refused ELSE TurnedAway(h)

\* receive, where a proxy setting matches: before anything else is looked at.
receiveForward(p, rest) ==
    /\ p.to \in forward
    /\ net' = rest \cup {[p EXCEPT !.to = Far[Beside[p.to]]]}
    /\ UNCHANGED <<active, pending, parked, forward, exchanging, objects, dials>>

\* Seeded fault: a repeated hello is not told from a different one.
SameHelloNever(s, h) == FALSE

\* storedAckFor: the connection was made by this very hello, not long ago.
SameHello(s, h) == key[s][1] = h /\ s \in reack

\* receiveHandshake up to the key exchange, which is done without the lock.
receiveHandshake(p, rest) ==
    LET h == p.key[1]  s == p.to
    IN /\ p.kind = "hello" /\ s \notin forward /\ s \in Responders
       /\ IF active[s] = None
          THEN /\ exchanging[s][h] < MaxExchanges
               /\ exchanging' = [exchanging EXCEPT ![s][h] = @ + 1]
               /\ net' = rest /\ UNCHANGED refused
          ELSE IF SameHello(s, h)
          THEN net' = rest \cup {ack(s, key[s])}
               /\ UNCHANGED <<exchanging, refused>>
          ELSE net' = rest /\ refused' = Refused(s, h) /\ UNCHANGED exchanging
       /\ UNCHANGED <<active, pending, parked, forward, objects, hellos,
                      answers, ticks, expired>>

\* Seeded fault: the second look at the table is left out.
answerHandshakeBlind(s, h) ==
    /\ exchanging[s][h] > 0
    /\ exchanging' = [exchanging EXCEPT ![s][h] = @ - 1]
    /\ made < MaxConns
    /\ made' = made + 1
    /\ key' = [key EXCEPT ![s] = <<h, made + 1>>]
    /\ recent' = recent \cup {s} /\ reack' = reack \cup {s}
    /\ active' = [active EXCEPT ![s] = made + 1]
    /\ net' = net \cup {ack(s, <<h, made + 1>>)}
    /\ UNCHANGED refused
    /\ UNCHANGED <<pending, parked, forward, closes, hellos, answers, ticks,
                   expired, faults>>

\* receiveHandshake from its lock on: the table is looked at once more.
answerHandshake(s, h) ==
    /\ exchanging[s][h] > 0
    /\ exchanging' = [exchanging EXCEPT ![s][h] = @ - 1]
    /\ IF active[s] # None
       THEN refused' = Refused(s, h)
            /\ UNCHANGED <<active, made, key, recent, reack, net>>
       ELSE /\ made < MaxConns
            /\ made' = made + 1
            /\ key' = [key EXCEPT ![s] = <<h, made + 1>>]
            /\ recent' = recent \cup {s} /\ reack' = reack \cup {s}
            /\ active' = [active EXCEPT ![s] = made + 1]
            /\ net' = net \cup {ack(s, <<h, made + 1>>)}
            /\ UNCHANGED refused
    /\ UNCHANGED <<pending, parked, forward, closes, hellos, answers, ticks,
                   expired, faults>>

\* addActiveConnection for the dialer: the parked connection, with new keys, or
\* a new one; an active connection of that id is not looked at.
Established(s, c, k) ==
    /\ key' = [key EXCEPT ![s] = k]
    /\ recent' = recent \cup {s} /\ reack' = reack \cup {s}
    /\ active' = [active EXCEPT ![s] = c]
    /\ pending' = [pending EXCEPT ![s] = None]
    /\ parked' = [parked EXCEPT ![s] = None]
    /\ answers' = Again(answers, {pending[s]})

\* The ack is combined with the hello that is pending, whichever it answers: it
\* is lost to the dial it was meant for.
receiveHandshakeAck(p, rest) ==
    LET s == p.to
        k == <<pending[s], p.key[2]>>
    IN /\ p.kind = "ack" /\ s \notin forward /\ s \in Dialers
       /\ pending[s] # None
       /\ IF parked[s] # None
          THEN Established(s, parked[s], k) /\ UNCHANGED made
          ELSE /\ made < MaxConns
               /\ made' = made + 1
               /\ Established(s, made + 1, k)
       /\ net' = rest
       /\ refused' = IF p.key[1] = pending[s] THEN refused ELSE TurnedAway(p.key[1])
       /\ UNCHANGED <<forward, exchanging, closes, hellos, ticks, expired>>

\* No handler wants the packet.
receiveIgnored(p, rest) ==
    /\ p.to \notin forward
    /\ ~(\/ p.kind = "hello" /\ p.to \in Responders
         \/ p.kind = "ack" /\ p.to \in Dialers /\ pending[p.to] # None)
    /\ net' = rest
    /\ refused' = TurnedAway(p.key[1])
    /\ UNCHANGED <<tables, objects, hellos, answers, ticks, expired>>

\* A packet is delivered, and may be delivered again.
Deliver(p) ==
    /\ p \in net
    /\ \E rest \in {net \ {p}, net} :
        /\ rest = net => faults < MaxFaults
        /\ faults' = IF rest = net THEN faults + 1 ELSE faults
        /\ \/ receiveForward(p, rest) \/ receiveHandshake(p, rest)
           \/ receiveHandshakeAck(p, rest) \/ receiveIgnored(p, rest)

Lose(p) ==
    /\ p \in net /\ faults < MaxFaults
    /\ net' = net \ {p} /\ faults' = faults + 1
    /\ UNCHANGED <<tables, objects, dials>>

\* closeCannotSend, for a handshake packet that was dropped, an ack, or data.
closeCannotSend(s, kind) ==
    /\ faults < MaxFaults /\ faults' = faults + 1
    /\ \/ kind = "app" /\ (active[s] # None \/ s \in forward) /\ UNCHANGED net
       \/ \E p \in net : p.kind = kind /\ p.to = Far[s] /\ net' = net \ {p}
    /\ IF s \in forward
       THEN /\ forward' = forward \ Pair(s)
            /\ UNCHANGED <<active, key, recent, reack, pending, parked, answers, closes>>
       ELSE /\ UNCHANGED forward
            /\ IF kind = "hello"
               THEN dropHandshake(s) /\ UNCHANGED <<active, key, recent, reack>>
               ELSE dropConnection(s) /\ UNCHANGED <<pending, parked, answers>>
    /\ UNCHANGED <<exchanging, made, hellos, ticks, refused, expired>>

\* Where a packet that side s sends ends up.
Route(s) == IF Far[s] \in forward THEN Far[Beside[Far[s]]] ELSE Far[s]

\* Seeded fault: a packet counts before it has been opened.
receiveUnopened(s) ==
    /\ active[s] # None /\ active[Route(s)] # None
    /\ recent' = recent \cup {Route(s)}
    /\ UNCHANGED <<tables, key, reack, made, closes, dials, net, faults>>

\* sendApplication at one end and receiveApplication at the other: only a packet
\* sealed with the receiver's own keys counts as activity.
receiveApplication(s) ==
    /\ active[s] # None /\ active[Route(s)] # None /\ key[s] = key[Route(s)]
    /\ recent' = recent \cup {Route(s)}
    /\ UNCHANGED <<tables, key, reack, made, closes, dials, net, faults>>

Next ==
    \/ \E s \in Side :
        \/ SendHandshake(s) \/ sendRehandshakeForProxy(s) \/ retransmitHandshake(s)
        \/ closeConnection(s) \/ DeleteHandshakeBefore(s)
        \/ DeleteInactiveConnectionsBefore(s) \/ receiveApplication(s)
        \/ SetProxy(s) \/ DeleteProxy(s) \/ Idle(s) \/ ReackWindowEnds(s)
        \/ \E kind \in {"hello", "ack", "app"} : closeCannotSend(s, kind)
    \/ \E s \in Side, h \in Hello : answerHandshake(s, h)
    \/ \E p \in net : Deliver(p) \/ Lose(p)

Spec == Init /\ [][Next]_vars

\* AutoGarbageCollect never stops, and time passes.
FairSpec ==
    /\ Spec
    /\ \A s \in Side : WF_vars(Idle(s) \/ DeleteInactiveConnectionsBefore(s))

-------------------------------------------------------------------------------
(* Properties *)

Packet == [kind : {"hello", "ack"}, to : Side,
           key : (0..MaxHellos) \X (0..MaxConns)]

Types ==
    /\ active \in [Side -> Conn \cup {None}] /\ parked \in [Side -> Conn \cup {None}]
    /\ pending \in [Side -> Hello \cup {None}]
    /\ forward \subseteq Side
    /\ exchanging \in [Side -> [Hello -> Nat]]
    /\ made \in 0..MaxConns /\ key \in [Side -> (0..MaxHellos) \X (0..MaxConns)]
    /\ recent \subseteq Side /\ reack \subseteq Side /\ closes \in [Conn -> Nat]
    /\ hellos \in 0..MaxHellos /\ answers \in [Hello -> Nat]
    /\ ticks \in [Hello -> 0..MaxTicks]
    /\ refused \subseteq Hello /\ expired \subseteq Hello
    /\ net \subseteq Packet /\ faults \in 0..MaxFaults

\* The tables, the connections and the packets have their types, and a connection is in
\* one place: of one side, and in its table or parked with its rehandshake.
TypeOK ==
    /\ Types
    /\ \A s, t \in Side : active[s] # None =>
          active[s] # parked[t] /\ (s # t => active[s] # active[t])
    /\ \A s, t \in Side : parked[s] # None /\ s # t => parked[s] # parked[t]

\* No channel is closed twice, nor used once closed, either of which panics:
\* not a connection's, whether the table, the collector, a failed send or a
\* replaced rehandshake ends it, and not the hsDone of a dial.
NeverClosedTwice ==
    /\ \A c \in Conn : closes[c] <= 1
    /\ \A h \in Hello : answers[h] <= 1

\* Nothing is lost: a connection that was not closed is in the table or waits
\* for the ack of its rehandshake, so that Close, CannotSend or the collector
\* can still end it, and whoever dialed a hello is answered or still pending.
\* Holds where no side both dials and responds.
NothingLost ==
    /\ \A c \in 1..made : closes[c] = 0 => \E s \in Side : c \in {active[s], parked[s]}
    /\ \A h \in 1..hellos : answers[h] = 0 => \E s \in Side : pending[s] = h

\* A connection, and a dial, comes to its end at most once and can always be brought
\* to it, whoever does (Close, CannotSend, the collectors, a replacement).
EndsOnce == NeverClosedTwice /\ NothingLost

\* "One dropped datagram used to cost the whole dial": a dial that retransmits
\* as often as the network fails is given up only when an endpoint that held
\* another connection, or was no party to it, turned it away or took its ack.
ExpiresOnlyRefused == expired \subseteq refused

\* The connection at a side has a partner: the same keys, in another table.
Partnered(s) == \E t \in Side \ {s} : active[t] # None /\ key[t] = key[s]

\* A connection whose partner is gone, or never had its keys (a late ack, a
\* repeated hello), is collected, whatever packets keep arriving for it.
GhostsCollected ==
    \A s \in Side : []<>(active[s] = None \/ Partnered(s))

===============================================================================
