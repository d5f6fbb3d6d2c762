----------------------------- MODULE Endpoint_proofs -----------------------------
(***************************************************************************)
(* The endpoint tables for every topology of sides, every number of        *)
(* dials, connections and network faults: no channel is closed twice, no   *)
(* connection and no dial is lost, and a dial is given up only when it was *)
(* turned away.                                                            *)
(***************************************************************************)
EXTENDS Endpoint, TLAPS

----------------------------------------------------------------------------------
(* Types *)

LEMMA AgainType ==
    ASSUME NEW D, NEW count \in [D -> Nat], NEW S
    PROVE  /\ Again(count, S) \in [D -> Nat]
           /\ \A x \in D : Again(count, S)[x] = IF x \in S THEN count[x] + 1 ELSE count[x]
BY DEF Again

\* One cell of a table by side and hello.
LEMMA Cell ==
    ASSUME NEW f \in [Side -> [Hello -> Nat]], NEW s \in Side, NEW h \in Hello, NEW n \in Nat,
           NEW g, g = [f EXCEPT ![s][h] = n]
    PROVE  /\ g \in [Side -> [Hello -> Nat]]
           /\ g[s][h] = n
           /\ \A t \in Side, i \in Hello : t # s \/ i # h => g[t][i] = f[t][i]
<1> DEFINE row == [f[s] EXCEPT ![h] = n]
<1>1. row \in [Hello -> Nat] /\ row[h] = n /\ \A i \in Hello : i # h => row[i] = f[s][i]
  OBVIOUS
<1>2. g = [f EXCEPT ![s] = row]
  OBVIOUS
<1> HIDE DEF row
<1>3. g \in [Side -> [Hello -> Nat]] /\ g[s] = row /\ \A t \in Side : t # s => g[t] = f[t]
  BY <1>1, <1>2
<1> QED BY <1>1, <1>3

LEMMA HelloType ==
    ASSUME NEW s \in Side, NEW h \in Hello
    PROVE  hello(s, h) \in Packet
BY SidesAssumption, EndpointBounds DEF hello, Packet, Hello, None

LEMMA SendType ==
    ASSUME Types, NEW s \in Side, NEW conn \in Conn \cup {None}, sendHandshake(s, conn)
    PROVE  /\ hellos' \in 0 .. MaxHellos /\ pending' \in [Side -> Hello \cup {None}]
           /\ parked' \in [Side -> Conn \cup {None}] /\ answers' \in [Hello -> Nat]
           /\ closes' \in [Conn -> Nat] /\ net' \subseteq Packet
<1>1. hellos + 1 \in Hello /\ hellos + 1 \in 0 .. MaxHellos
  BY EndpointBounds DEF Types, sendHandshake, Hello
<1>2. answers' \in [Hello -> Nat] /\ closes' \in [Conn -> Nat]
  <2>1. /\ answers' = Again(answers, {pending[s]}) /\ answers \in [Hello -> Nat]
        /\ closes' = Again(closes, {parked[s]}) /\ closes \in [Conn -> Nat]
    BY DEF Types, sendHandshake
  <2> QED BY <2>1, AgainType
<1>3. net' \subseteq Packet
  BY <1>1, HelloType DEF Types, sendHandshake
<1> QED BY <1>1, <1>2, <1>3 DEF Types, sendHandshake

LEMMA DropHandshakeType ==
    ASSUME Types, NEW s \in Side, dropHandshake(s)
    PROVE  /\ pending' \in [Side -> Hello \cup {None}] /\ parked' \in [Side -> Conn \cup {None}]
           /\ answers' \in [Hello -> Nat] /\ closes' \in [Conn -> Nat]
<1>1. answers' \in [Hello -> Nat] /\ closes' \in [Conn -> Nat]
  <2>1. /\ answers' = Again(answers, {pending[s]}) /\ answers \in [Hello -> Nat]
        /\ closes' = Again(closes, {parked[s]}) /\ closes \in [Conn -> Nat]
    BY DEF Types, dropHandshake
  <2> QED BY <2>1, AgainType
<1> QED BY <1>1 DEF Types, dropHandshake

LEMMA LeavesType ==
    ASSUME Types, NEW s \in Side, LeavesTable(s)
    PROVE  /\ active' \in [Side -> Conn \cup {None}]
           /\ key' \in [Side -> (0..MaxHellos) \X (0..MaxConns)]
           /\ recent' \subseteq Side /\ reack' \subseteq Side
<1>1. NoKey \in (0..MaxHellos) \X (0..MaxConns)
  BY EndpointBounds DEF NoKey, None
<1> QED BY <1>1 DEF Types, LeavesTable

LEMMA DropConnectionType ==
    ASSUME Types, NEW s \in Side, dropConnection(s)
    PROVE  /\ active' \in [Side -> Conn \cup {None}]
           /\ key' \in [Side -> (0..MaxHellos) \X (0..MaxConns)]
           /\ recent' \subseteq Side /\ reack' \subseteq Side /\ closes' \in [Conn -> Nat]
<1>1. LeavesTable(s) /\ closes' = Again(closes, {active[s]}) /\ closes \in [Conn -> Nat]
  BY DEF Types, dropConnection
<1>2. closes' \in [Conn -> Nat]
  BY <1>1, AgainType
<1> QED BY <1>1, <1>2, LeavesType

LEMMA TurnedAwayType ==
    ASSUME Types, NEW h \in Hello
    PROVE  TurnedAway(h) \subseteq Hello /\ \A s \in Side : Refused(s, h) \subseteq Hello
BY DEF Types, TurnedAway, Refused

\* Every packet in the network carries the number of a hello that was sent.
PacketsOfHellos == \A p \in net : p.key[1] \in 1 .. hellos

\* One of the handlers takes the packet.
Handled(p, rest) ==
    \/ receiveForward(p, rest) \/ receiveHandshake(p, rest)
    \/ receiveHandshakeAck(p, rest) \/ receiveIgnored(p, rest)

LEMMA HandlersType ==
    ASSUME Types, PacketsOfHellos, NEW p \in net, NEW rest \in SUBSET net, Handled(p, rest),
           faults' \in 0 .. MaxFaults
    PROVE  Types'
<1>1. /\ p \in Packet /\ p.to \in Side /\ p.key[1] \in Hello /\ p.key[2] \in 0 .. MaxConns
      /\ p = [kind |-> p.kind, to |-> p.to, key |-> p.key] /\ rest \subseteq Packet
  <2>1. p \in Packet /\ rest \subseteq Packet
    BY DEF Types
  <2>2. p.to \in Side /\ p.key \in (0..MaxHellos) \X (0..MaxConns)
    BY <2>1 DEF Packet
  <2>3. p = [kind |-> p.kind, to |-> p.to, key |-> p.key]
    BY <2>1 DEF Packet
  <2>4. p.key[1] \in Hello
    BY EndpointBounds DEF PacketsOfHellos, Types, Hello
  <2> QED BY <2>1, <2>2, <2>3, <2>4
<1>2. CASE receiveForward(p, rest)
  <2>1. [p EXCEPT !.to = Far[Beside[p.to]]] \in Packet
    BY <1>1, SidesAssumption DEF Packet
  <2> QED BY <1>1, <1>2, <2>1 DEF receiveForward, objects, dials, Types
<1>3. CASE receiveHandshake(p, rest)
  <2>1. ack(p.to, key[p.to]) \in Packet
    BY <1>1, SidesAssumption DEF Packet, ack, Types
  <2>2. Refused(p.to, p.key[1]) \subseteq Hello
    BY <1>1, TurnedAwayType
  <2>3. net' \subseteq Packet /\ refused' \subseteq Hello
    BY <1>1, <1>3, <2>1, <2>2 DEF receiveHandshake, Types
  <2>4. exchanging' \in [Side -> [Hello -> Nat]]
    <3> DEFINE n == exchanging[p.to][p.key[1]] + 1
    <3>1. exchanging' = exchanging \/ exchanging' = [exchanging EXCEPT ![p.to][p.key[1]] = n]
      BY <1>3 DEF receiveHandshake
    <3>2. exchanging \in [Side -> [Hello -> Nat]] /\ n \in Nat
      BY <1>1 DEF Types
    <3> HIDE DEF n
    <3>3. \A s \in Side, h \in Hello :
             exchanging' = [exchanging EXCEPT ![s][h] = n] => exchanging' \in [Side -> [Hello -> Nat]]
      BY <3>2, Cell
    <3> QED BY <1>1, <3>1, <3>2, <3>3
  <2> QED BY <1>3, <2>3, <2>4 DEF receiveHandshake, objects, Types
<1>4. CASE receiveHandshakeAck(p, rest)
  <2> DEFINE s == p.to
             k == <<pending[s], p.key[2]>>
  <2>1. PICK c \in Conn : Established(s, c, k) /\ made' \in 0 .. MaxConns
    <3>1. CASE parked[s] # None
      <4>1. parked[s] \in Conn
        BY <1>1, <3>1 DEF Types
      <4> QED BY <1>4, <3>1, <4>1 DEF receiveHandshakeAck, Types
    <3>2. CASE parked[s] = None
      <4>1. made + 1 \in Conn /\ made' = made + 1 /\ Established(s, made + 1, k)
        BY <1>4, <3>2, EndpointBounds DEF receiveHandshakeAck, Types, Conn
      <4>2. made' \in 0 .. MaxConns
        BY <4>1, EndpointBounds DEF Conn
      <4> QED BY <4>1, <4>2
    <3> QED BY <3>1, <3>2
  <2>2. k \in (0..MaxHellos) \X (0..MaxConns)
    <3>1. pending[s] \in Hello \cup {None}
      BY <1>1 DEF Types
    <3>2. pending[s] \in 0 .. MaxHellos
      BY <3>1, EndpointBounds DEF Hello, None
    <3> QED BY <1>1, <3>2
  <2>3. answers' \in [Hello -> Nat]
    <3>1. answers' = Again(answers, {pending[s]}) /\ answers \in [Hello -> Nat]
      BY <2>1 DEF Established, Types
    <3> QED BY <3>1, AgainType
  <2>4. refused' \subseteq Hello
    BY <1>1, <1>4, TurnedAwayType DEF receiveHandshakeAck, Types
  <2>5. /\ active' \in [Side -> Conn \cup {None}] /\ parked' \in [Side -> Conn \cup {None}]
        /\ pending' \in [Side -> Hello \cup {None}]
        /\ key' \in [Side -> (0..MaxHellos) \X (0..MaxConns)]
        /\ recent' \subseteq Side /\ reack' \subseteq Side
    BY <1>1, <2>1, <2>2 DEF Established, Types
  <2> QED BY <1>1, <1>4, <2>1, <2>3, <2>4, <2>5 DEF receiveHandshakeAck, Types
<1>5. CASE receiveIgnored(p, rest)
  BY <1>1, <1>5, TurnedAwayType DEF receiveIgnored, tables, objects, Types
<1> QED BY <1>2, <1>3, <1>4, <1>5 DEF Handled

\* What the hellos are known by is never ahead of the hellos sent.
Fresh ==
    /\ PacketsOfHellos
    /\ \A s \in Side, h \in Hello : exchanging[s][h] > 0 => h <= hellos
    /\ \A s \in Side : key[s][1] <= hellos /\ pending[s] <= hellos
    /\ \A h \in Hello : h > hellos => ticks[h] = 0

LEMMA AnswerType ==
    ASSUME Types, NEW s \in Side, NEW h \in Hello, answerHandshake(s, h)
    PROVE  Types'
<1>1. exchanging' \in [Side -> [Hello -> Nat]]
  <2> DEFINE n == exchanging[s][h] - 1
  <2>1. exchanging \in [Side -> [Hello -> Nat]] /\ n \in Nat
    BY DEF Types, answerHandshake
  <2>2. exchanging' = [exchanging EXCEPT ![s][h] = n]
    BY DEF answerHandshake
  <2> HIDE DEF n
  <2> QED BY <2>1, <2>2, Cell
<1>2. CASE active[s] # None
  <2>1. refused' \subseteq Hello
    BY <1>2, TurnedAwayType DEF answerHandshake
  <2> QED BY <1>1, <1>2, <2>1 DEF answerHandshake, Types
<1>3. CASE active[s] = None
  <2>1. /\ made < MaxConns /\ made' = made + 1 /\ key' = [key EXCEPT ![s] = <<h, made + 1>>]
        /\ recent' = recent \cup {s} /\ reack' = reack \cup {s}
        /\ active' = [active EXCEPT ![s] = made + 1]
        /\ net' = net \cup {ack(s, <<h, made + 1>>)} /\ refused' = refused
    BY <1>3 DEF answerHandshake
  <2>2. made + 1 \in Conn /\ made + 1 \in 0 .. MaxConns
    BY <2>1, EndpointBounds DEF Types, Conn
  <2>3. <<h, made + 1>> \in (0..MaxHellos) \X (0..MaxConns)
    BY <2>2, EndpointBounds DEF Hello
  <2>4. ack(s, <<h, made + 1>>) \in Packet
    BY <2>3, SidesAssumption DEF ack, Packet
  <2>5. /\ active' \in [Side -> Conn \cup {None}] /\ key' \in [Side -> (0..MaxHellos) \X (0..MaxConns)]
        /\ recent' \subseteq Side /\ reack' \subseteq Side /\ net' \subseteq Packet
        /\ made' \in 0 .. MaxConns
    BY <2>1, <2>2, <2>3, <2>4 DEF Types
  <2> QED BY <1>1, <2>1, <2>5 DEF answerHandshake, Types
<1> QED BY <1>2, <1>3

LEMMA CannotSendType ==
    ASSUME Types, NEW s \in Side, NEW kind, closeCannotSend(s, kind)
    PROVE  Types'
<1>1. faults' \in 0 .. MaxFaults /\ net' \subseteq Packet
  BY EndpointBounds DEF closeCannotSend, Types
<1>2. CASE s \in forward
  <2>1. forward' \subseteq Side
    BY <1>2 DEF closeCannotSend, Types
  <2> QED BY <1>1, <1>2, <2>1 DEF closeCannotSend, Types
<1>3. CASE s \notin forward /\ kind = "hello"
  <2>1. dropHandshake(s)
    BY <1>3 DEF closeCannotSend
  <2>2. /\ pending' \in [Side -> Hello \cup {None}] /\ parked' \in [Side -> Conn \cup {None}]
        /\ answers' \in [Hello -> Nat] /\ closes' \in [Conn -> Nat]
    BY <2>1, DropHandshakeType
  <2> QED BY <1>1, <1>3, <2>2 DEF closeCannotSend, Types
<1>4. CASE s \notin forward /\ kind # "hello"
  <2>1. dropConnection(s)
    BY <1>4 DEF closeCannotSend
  <2>2. /\ active' \in [Side -> Conn \cup {None}]
        /\ key' \in [Side -> (0..MaxHellos) \X (0..MaxConns)]
        /\ recent' \subseteq Side /\ reack' \subseteq Side /\ closes' \in [Conn -> Nat]
    BY <2>1, DropConnectionType
  <2> QED BY <1>1, <1>4, <2>2 DEF closeCannotSend, Types
<1> QED BY <1>2, <1>3, <1>4

\* A step of a side that neither answers nor fails to send.
LEMMA SideType ==
    ASSUME Types, NEW s \in Side,
           \/ SendHandshake(s) \/ sendRehandshakeForProxy(s) \/ retransmitHandshake(s)
           \/ closeConnection(s) \/ DeleteHandshakeBefore(s)
           \/ DeleteInactiveConnectionsBefore(s) \/ receiveApplication(s)
           \/ SetProxy(s) \/ DeleteProxy(s) \/ Idle(s) \/ ReackWindowEnds(s)
    PROVE  Types'
<1>1. CASE SendHandshake(s)
  <2>1. sendHandshake(s, None) /\ None \in Conn \cup {None}
    BY <1>1 DEF SendHandshake
  <2> QED BY <1>1, <2>1, SendType DEF SendHandshake, Types
<1>2. CASE sendRehandshakeForProxy(s)
  <2>1. sendHandshake(s, active[s]) /\ active[s] \in Conn \cup {None} /\ LeavesTable(s)
    BY <1>2 DEF sendRehandshakeForProxy, Types
  <2>2. /\ hellos' \in 0 .. MaxHellos /\ pending' \in [Side -> Hello \cup {None}]
        /\ parked' \in [Side -> Conn \cup {None}] /\ answers' \in [Hello -> Nat]
        /\ closes' \in [Conn -> Nat] /\ net' \subseteq Packet
    BY <2>1, SendType
  <2>3. /\ active' \in [Side -> Conn \cup {None}]
        /\ key' \in [Side -> (0..MaxHellos) \X (0..MaxConns)]
        /\ recent' \subseteq Side /\ reack' \subseteq Side
    BY <2>1, LeavesType
  <2> QED BY <1>2, <2>2, <2>3 DEF sendRehandshakeForProxy, Types
<1>3. CASE retransmitHandshake(s)
  <2>1. pending[s] \in Hello
    BY <1>3 DEF retransmitHandshake, Types
  <2>2. ticks' \in [Hello -> 0 .. MaxTicks]
    BY <1>3, <2>1, EndpointBounds DEF retransmitHandshake, Types
  <2>3. net' \subseteq Packet
    BY <1>3, <2>1, HelloType DEF retransmitHandshake, Types
  <2> QED BY <1>3, <2>2, <2>3 DEF retransmitHandshake, tables, objects, Types
<1>4. CASE closeConnection(s)
  <2>1. dropConnection(s)
    BY <1>4 DEF closeConnection
  <2> QED BY <1>4, <2>1, DropConnectionType DEF closeConnection, dials, Types
<1>5. CASE DeleteHandshakeBefore(s)
  <2>1. dropHandshake(s) /\ pending[s] \in Hello
    BY <1>5 DEF DeleteHandshakeBefore, Types
  <2>2. expired' \subseteq Hello
    BY <1>5, <2>1 DEF DeleteHandshakeBefore, Types
  <2>3. /\ pending' \in [Side -> Hello \cup {None}] /\ parked' \in [Side -> Conn \cup {None}]
        /\ answers' \in [Hello -> Nat] /\ closes' \in [Conn -> Nat]
    BY <2>1, DropHandshakeType
  <2> QED BY <1>5, <2>2, <2>3 DEF DeleteHandshakeBefore, Types
<1>6. CASE DeleteInactiveConnectionsBefore(s)
  <2>1. dropConnection(s)
    BY <1>6 DEF DeleteInactiveConnectionsBefore
  <2> QED BY <1>6, <2>1, DropConnectionType DEF DeleteInactiveConnectionsBefore, dials, Types
<1>7. CASE receiveApplication(s)
  <2>1. Route(s) \in Side
    BY SidesAssumption DEF Route
  <2> QED BY <1>7, <2>1 DEF receiveApplication, tables, dials, Types
<1>8. CASE SetProxy(s) \/ DeleteProxy(s)
  <2>1. Pair(s) \subseteq Side
    BY SidesAssumption DEF Pair
  <2> QED BY <1>8, <2>1 DEF SetProxy, DeleteProxy, objects, dials, Types
<1>9. CASE Idle(s) \/ ReackWindowEnds(s)
  BY <1>9 DEF Idle, ReackWindowEnds, tables, dials, Types
<1> QED BY <1>1, <1>2, <1>3, <1>4, <1>5, <1>6, <1>7, <1>8, <1>9

LEMMA FreshHandled ==
    ASSUME Types, Fresh, NEW p \in net, NEW rest \in SUBSET net, Handled(p, rest)
    PROVE  Fresh'
<1>1. /\ p.to \in Side /\ p.key[1] \in Hello /\ p.key[1] \in 1 .. hellos /\ hellos \in Nat
      /\ p = [kind |-> p.kind, to |-> p.to, key |-> p.key] /\ hellos' = hellos /\ ticks' = ticks
  <2>1. p \in Packet
    BY DEF Types
  <2>2. p.to \in Side /\ p = [kind |-> p.kind, to |-> p.to, key |-> p.key]
    BY <2>1 DEF Packet
  <2>3. p.key[1] \in 1 .. hellos /\ p.key[1] \in Hello /\ hellos \in Nat
    BY EndpointBounds DEF Fresh, PacketsOfHellos, Types, Hello
  <2>4. hellos' = hellos /\ ticks' = ticks
    BY DEF Handled, receiveForward, receiveHandshake, receiveHandshakeAck, receiveIgnored, dials
  <2> QED BY <2>2, <2>3, <2>4
<1>2. CASE receiveForward(p, rest)
  <2>1. [p EXCEPT !.to = Far[Beside[p.to]]].key = p.key
    BY <1>1
  <2>2. PacketsOfHellos'
    BY <1>1, <1>2, <2>1 DEF receiveForward, Fresh, PacketsOfHellos
  <2> QED BY <1>1, <1>2, <2>2 DEF receiveForward, objects, Fresh
<1>3. CASE receiveHandshake(p, rest)
  <2>1. PacketsOfHellos'
    <3>1. CASE net' = rest
      BY <1>1, <3>1 DEF Fresh, PacketsOfHellos
    <3>2. CASE net' = rest \cup {ack(p.to, key[p.to])} /\ SameHello(p.to, p.key[1])
      <4>1. ack(p.to, key[p.to]).key[1] = p.key[1]
        BY <3>2 DEF ack, SameHello
      <4> QED BY <1>1, <3>2, <4>1 DEF Fresh, PacketsOfHellos
    <3> QED BY <1>3, <3>1, <3>2 DEF receiveHandshake
  <2>2. \A s \in Side, h \in Hello : exchanging'[s][h] > 0 => h <= hellos
    <3> DEFINE n == exchanging[p.to][p.key[1]] + 1
    <3>1. exchanging' = exchanging \/ exchanging' = [exchanging EXCEPT ![p.to][p.key[1]] = n]
      BY <1>3 DEF receiveHandshake
    <3>2. exchanging \in [Side -> [Hello -> Nat]] /\ n \in Nat
      BY <1>1 DEF Types
    <3> HIDE DEF n
    <3>3. \A s, t \in Side, h, i \in Hello :
             exchanging' = [exchanging EXCEPT ![s][h] = n] /\ (t # s \/ i # h)
                => exchanging'[t][i] = exchanging[t][i]
      BY <3>2, Cell
    <3>4. SUFFICES ASSUME NEW s \in Side, NEW h \in Hello, exchanging'[s][h] > 0
                   PROVE  h <= hellos
      OBVIOUS
    <3>5. h = p.key[1] \/ exchanging'[s][h] = exchanging[s][h]
      BY <1>1, <3>1, <3>3
    <3> QED BY <1>1, <3>4, <3>5 DEF Fresh
  <2> QED BY <1>1, <1>3, <2>1, <2>2 DEF receiveHandshake, objects, Fresh
<1>4. CASE receiveHandshakeAck(p, rest)
  <2> DEFINE s == p.to
             k == <<pending[s], p.key[2]>>
  <2>1. PICK c : Established(s, c, k)
    BY <1>4 DEF receiveHandshakeAck
  <2>2. k[1] <= hellos /\ None <= hellos
    BY <1>1 DEF Fresh, None
  <2>3. \A t \in Side : key'[t][1] <= hellos /\ pending'[t] <= hellos
    BY <1>1, <2>1, <2>2 DEF Established, Fresh, Types
  <2> QED BY <1>1, <1>4, <2>3 DEF receiveHandshakeAck, Fresh, PacketsOfHellos
<1>5. CASE receiveIgnored(p, rest)
  BY <1>1, <1>5 DEF receiveIgnored, tables, objects, Fresh, PacketsOfHellos
<1> QED BY <1>2, <1>3, <1>4, <1>5 DEF Handled

LEMMA FreshAnswer ==
    ASSUME Types, Fresh, NEW s \in Side, NEW h \in Hello, answerHandshake(s, h)
    PROVE  Fresh'
<1>1. h \in 1 .. hellos /\ hellos' = hellos /\ ticks' = ticks /\ pending' = pending /\ hellos \in Nat
  <2>1. exchanging[s][h] > 0 /\ hellos' = hellos /\ ticks' = ticks /\ pending' = pending
    BY DEF answerHandshake
  <2>2. h <= hellos
    BY <2>1 DEF Fresh
  <2>3. h \in 1 .. MaxHellos /\ hellos \in Nat
    BY EndpointBounds DEF Hello, Types
  <2> QED BY <2>1, <2>2, <2>3, EndpointBounds
<1>2. \A t \in Side, i \in Hello : exchanging'[t][i] > 0 => i <= hellos
  <2> DEFINE n == exchanging[s][h] - 1
  <2>1. exchanging \in [Side -> [Hello -> Nat]] /\ n \in Nat
    BY DEF Types, answerHandshake
  <2>2. exchanging' = [exchanging EXCEPT ![s][h] = n]
    BY DEF answerHandshake
  <2> HIDE DEF n
  <2>3. \A t \in Side, i \in Hello : t # s \/ i # h => exchanging'[t][i] = exchanging[t][i]
    BY <2>1, <2>2, Cell
  <2>4. \A t \in Side, i \in Hello : i # h /\ exchanging'[t][i] > 0 => i <= hellos
    BY <2>3 DEF Fresh
  <2>5. h <= hellos
    BY <1>1
  <2> QED BY <2>4, <2>5
<1>3. PacketsOfHellos' /\ \A t \in Side : key'[t][1] <= hellos
  <2>1. CASE active[s] # None
    BY <1>1, <2>1 DEF answerHandshake, Fresh, PacketsOfHellos
  <2>2. CASE active[s] = None
    <3>1. /\ key' = [key EXCEPT ![s] = <<h, made + 1>>]
          /\ net' = net \cup {ack(s, <<h, made + 1>>)}
      BY <2>2 DEF answerHandshake
    <3>2. ack(s, <<h, made + 1>>).key[1] = h
      BY DEF ack
    <3>3. PacketsOfHellos'
      BY <1>1, <3>1, <3>2 DEF Fresh, PacketsOfHellos
    <3>4. \A t \in Side : key'[t][1] <= hellos
      BY <1>1, <3>1 DEF Fresh, Types
    <3> QED BY <3>3, <3>4
  <2> QED BY <2>1, <2>2
<1> QED BY <1>1, <1>2, <1>3 DEF Fresh

LEMMA FreshSend ==
    ASSUME Types, Fresh, NEW s \in Side, NEW conn, sendHandshake(s, conn),
           UNCHANGED <<exchanging, ticks>>, \A t \in Side : key'[t] = key[t] \/ key'[t] = NoKey
    PROVE  Fresh'
<1>1. hellos \in Nat /\ hellos' = hellos + 1 /\ hello(s, hellos + 1).key[1] = hellos + 1
  BY DEF Types, sendHandshake, hello
<1>2. PacketsOfHellos'
  BY <1>1 DEF sendHandshake, Fresh, PacketsOfHellos
<1>3. \A t \in Side : key'[t][1] <= hellos'
  <2> SUFFICES ASSUME NEW t \in Side PROVE key'[t][1] <= hellos'
    OBVIOUS
  <2>1. key'[t][1] = key[t][1] \/ key'[t][1] = 0
    BY DEF NoKey, None
  <2>2. key[t][1] <= hellos /\ key[t][1] \in Nat
    BY EndpointBounds DEF Fresh, Types
  <2> QED BY <1>1, <2>1, <2>2
<1>4. \A t \in Side : pending'[t] <= hellos'
  <2> SUFFICES ASSUME NEW t \in Side PROVE pending'[t] <= hellos'
    OBVIOUS
  <2>1. pending'[t] = pending[t] \/ pending'[t] = hellos + 1
    BY DEF sendHandshake, Types
  <2>2. pending[t] <= hellos /\ pending[t] \in Nat
    BY EndpointBounds DEF Fresh, Types, Hello, None
  <2> QED BY <1>1, <2>1, <2>2
<1>5. \A h \in Hello : h > hellos' => ticks'[h] = 0
  BY <1>1 DEF Fresh, Hello
<1>6. \A t \in Side, h \in Hello : exchanging'[t][h] > 0 => h <= hellos'
  BY <1>1 DEF Fresh, Hello
<1> QED BY <1>2, <1>3, <1>4, <1>5, <1>6 DEF Fresh

LEMMA FreshSide ==
    ASSUME Types, Fresh, NEW s \in Side,
           \/ SendHandshake(s) \/ sendRehandshakeForProxy(s) \/ retransmitHandshake(s)
           \/ closeConnection(s) \/ DeleteHandshakeBefore(s)
           \/ DeleteInactiveConnectionsBefore(s) \/ receiveApplication(s)
           \/ SetProxy(s) \/ DeleteProxy(s) \/ Idle(s) \/ ReackWindowEnds(s)
           \/ \E kind \in {"hello", "ack", "app"} : closeCannotSend(s, kind)
    PROVE  Fresh'
<1>1. CASE SendHandshake(s)
  BY <1>1, FreshSend DEF SendHandshake
<1>2. CASE sendRehandshakeForProxy(s)
  <2>1. \A t \in Side : key'[t] = key[t] \/ key'[t] = NoKey
    BY <1>2 DEF sendRehandshakeForProxy, LeavesTable, Types
  <2> QED BY <1>2, <2>1, FreshSend DEF sendRehandshakeForProxy
<1>3. CASE retransmitHandshake(s)
  <2>1. pending[s] \in Hello /\ pending[s] \in 1 .. hellos /\ hello(s, pending[s]).key[1] = pending[s]
    BY <1>3, EndpointBounds DEF retransmitHandshake, Types, Fresh, hello, Hello, None
  <2>2. PacketsOfHellos'
    BY <1>3, <2>1 DEF retransmitHandshake, Fresh, PacketsOfHellos
  <2>3. \A h \in Hello : h > hellos => ticks'[h] = 0
    BY <1>3, <2>1 DEF retransmitHandshake, Fresh, Types, Hello
  <2> QED BY <1>3, <2>2, <2>3 DEF retransmitHandshake, tables, objects, Fresh
<1>4. ASSUME /\ \A t \in Side : key'[t] = key[t] \/ key'[t] = NoKey
             /\ \A t \in Side : pending'[t] = pending[t] \/ pending'[t] = None
             /\ net' \subseteq net /\ UNCHANGED <<exchanging, hellos, ticks>>
      PROVE  Fresh'
  <2>1. hellos \in Nat /\ NoKey[1] = 0 /\ None = 0
    BY DEF Types, NoKey, None
  <2>2. \A t \in Side : key'[t][1] <= hellos' /\ pending'[t] <= hellos'
    BY <1>4, <2>1 DEF Fresh
  <2> QED BY <1>4, <2>2 DEF Fresh, PacketsOfHellos
<1>5. CASE dropConnection(s) /\ UNCHANGED <<pending, exchanging, hellos, ticks>> /\ net' \subseteq net
  <2>1. \A t \in Side : key'[t] = key[t] \/ key'[t] = NoKey
    BY <1>5 DEF dropConnection, LeavesTable, Types
  <2> QED BY <1>4, <1>5, <2>1
<1>6. CASE dropHandshake(s) /\ UNCHANGED <<key, exchanging, hellos, ticks>> /\ net' \subseteq net
  <2>1. \A t \in Side : pending'[t] = pending[t] \/ pending'[t] = None
    BY <1>6 DEF dropHandshake, Types
  <2> QED BY <1>4, <1>6, <2>1
<1>7. CASE closeConnection(s) \/ DeleteInactiveConnectionsBefore(s)
  BY <1>5, <1>7 DEF closeConnection, DeleteInactiveConnectionsBefore, dials
<1>8. CASE DeleteHandshakeBefore(s)
  BY <1>6, <1>8 DEF DeleteHandshakeBefore
<1>9. CASE receiveApplication(s) \/ SetProxy(s) \/ DeleteProxy(s) \/ Idle(s) \/ ReackWindowEnds(s)
  BY <1>4, <1>9
     DEF receiveApplication, SetProxy, DeleteProxy, Idle, ReackWindowEnds, tables, objects, dials
<1>10. ASSUME NEW kind, closeCannotSend(s, kind)
       PROVE  Fresh'
  <2>1. net' \subseteq net /\ UNCHANGED <<exchanging, hellos, ticks>>
    BY <1>10 DEF closeCannotSend
  <2>2. CASE s \in forward
    BY <1>4, <1>10, <2>1, <2>2 DEF closeCannotSend
  <2>3. CASE s \notin forward
    BY <1>5, <1>6, <1>10, <2>1, <2>3 DEF closeCannotSend
  <2> QED BY <2>2, <2>3
<1> QED BY <1>1, <1>2, <1>3, <1>7, <1>8, <1>9, <1>10

\* Types and freshness carry over from step to step.
LEMMA BaseStep ==
    ASSUME Types, Fresh, [Next]_vars
    PROVE  Types' /\ Fresh'
<1>1. ASSUME NEW p \in net, Deliver(p)
      PROVE  Types' /\ Fresh'
  <2>1. PICK rest \in SUBSET net :
          Handled(p, rest) /\ faults' = (IF rest = net THEN faults + 1 ELSE faults)
            /\ (rest = net => faults < MaxFaults)
    <3>1. PICK rest \in {net \ {p}, net} :
            /\ rest = net => faults < MaxFaults
            /\ faults' = IF rest = net THEN faults + 1 ELSE faults
            /\ Handled(p, rest)
      BY <1>1 DEF Deliver, Handled
    <3> QED BY <3>1
  <2>2. faults' \in 0 .. MaxFaults
    BY <2>1, EndpointBounds DEF Types
  <2> QED BY <2>1, <2>2, HandlersType, FreshHandled DEF Fresh
<1>2. ASSUME NEW p \in net, Lose(p)
      PROVE  Types' /\ Fresh'
  BY <1>2, EndpointBounds DEF Lose, tables, objects, dials, Types, Fresh, PacketsOfHellos
<1>3. ASSUME NEW s \in Side, NEW h \in Hello, answerHandshake(s, h)
      PROVE  Types' /\ Fresh'
  BY <1>3, AnswerType, FreshAnswer
<1>4. CASE UNCHANGED vars
  BY <1>4 DEF vars, tables, objects, dials, Types, Fresh, PacketsOfHellos
<1>5. ASSUME NEW s \in Side, NEW kind \in {"hello", "ack", "app"}, closeCannotSend(s, kind)
      PROVE  Types' /\ Fresh'
  BY <1>5, CannotSendType, FreshSide
<1>6. ASSUME NEW s \in Side,
             \/ SendHandshake(s) \/ sendRehandshakeForProxy(s) \/ retransmitHandshake(s)
             \/ closeConnection(s) \/ DeleteHandshakeBefore(s)
             \/ DeleteInactiveConnectionsBefore(s) \/ receiveApplication(s)
             \/ SetProxy(s) \/ DeleteProxy(s) \/ Idle(s) \/ ReackWindowEnds(s)
      PROVE  Types' /\ Fresh'
  BY <1>6, SideType, FreshSide
<1> QED BY <1>1, <1>2, <1>3, <1>4, <1>5, <1>6 DEF Next

LEMMA BaseInit == Init => Types /\ Fresh
<1> SUFFICES ASSUME Init PROVE Types /\ Fresh
  OBVIOUS
<1>1. NoKey \in (0..MaxHellos) \X (0..MaxConns) /\ NoKey[1] = 0 /\ None = 0
  BY EndpointBounds DEF NoKey, None
<1>2. Types
  BY <1>1, EndpointBounds DEF Init, Types
<1>3. Fresh
  BY <1>1 DEF Init, Fresh, PacketsOfHellos
<1> QED BY <1>2, <1>3

----------------------------------------------------------------------------------
(* No channel is closed twice, no connection and no dial is lost.             *)
(*                                                                            *)
(* A step does one of six things to the connections, and one of three to the  *)
(* dials.  The invariant is stated, and carried over, for these.              *)

KeepsConns == UNCHANGED <<active, parked, made, closes>>

Closes(s) ==
    /\ active' = [active EXCEPT ![s] = None] /\ closes' = Again(closes, {active[s]})
    /\ UNCHANGED <<parked, made>>

Abandons(s) ==
    /\ parked' = [parked EXCEPT ![s] = None] /\ closes' = Again(closes, {parked[s]})
    /\ UNCHANGED <<active, made>>

Parks(s) ==
    /\ parked' = [parked EXCEPT ![s] = active[s]] /\ closes' = Again(closes, {parked[s]})
    /\ active' = [active EXCEPT ![s] = None] /\ active[s] # None /\ UNCHANGED made

Makes(s) ==
    /\ made < MaxConns /\ made' = made + 1 /\ active' = [active EXCEPT ![s] = made + 1]
    /\ UNCHANGED <<parked, closes>>

Resumes(s) ==
    /\ parked[s] # None /\ active' = [active EXCEPT ![s] = parked[s]]
    /\ parked' = [parked EXCEPT ![s] = None] /\ UNCHANGED <<made, closes>>

KeepsDials == UNCHANGED <<hellos, pending, answers>>

Answers(s) ==
    /\ pending' = [pending EXCEPT ![s] = None] /\ answers' = Again(answers, {pending[s]})
    /\ UNCHANGED hellos

Dials(s) ==
    /\ hellos < MaxHellos /\ hellos' = hellos + 1
    /\ pending' = [pending EXCEPT ![s] = hellos + 1] /\ answers' = Again(answers, {pending[s]})

\* A dialer's ack arrives.
AckFor(s) == s \in Dialers /\ pending[s] # None

Effect(s) ==
    \/ KeepsConns /\ KeepsDials
    \/ Closes(s) /\ KeepsDials
    \/ Abandons(s) /\ Answers(s)
    \/ Abandons(s) /\ Dials(s) /\ active[s] = None
    \/ Parks(s) /\ Dials(s)
    \/ Makes(s) /\ KeepsDials /\ active[s] = None /\ \E h \in Hello : exchanging[s][h] > 0
    \/ Makes(s) /\ Answers(s) /\ AckFor(s)
    \/ Resumes(s) /\ Answers(s) /\ AckFor(s)

LEMMA EffectOfStep ==
    ASSUME Types, Next
    PROVE  \E s \in Side : Effect(s)
<1>1. ASSUME NEW s \in Side, SendHandshake(s)
      PROVE  Effect(s)
  BY <1>1 DEF SendHandshake, sendHandshake, Abandons, Dials, Effect
<1>2. ASSUME NEW s \in Side, sendRehandshakeForProxy(s)
      PROVE  Effect(s)
  BY <1>2 DEF sendRehandshakeForProxy, sendHandshake, LeavesTable, Parks, Dials, Effect
<1>3. ASSUME NEW s \in Side, closeConnection(s) \/ DeleteInactiveConnectionsBefore(s)
      PROVE  Effect(s)
  BY <1>3 DEF closeConnection, DeleteInactiveConnectionsBefore, dropConnection, LeavesTable,
              dials, Closes, KeepsDials, Effect
<1>4. ASSUME NEW s \in Side, DeleteHandshakeBefore(s)
      PROVE  Effect(s)
  BY <1>4 DEF DeleteHandshakeBefore, dropHandshake, Abandons, Answers, Effect
<1>5. ASSUME NEW s \in Side, \/ retransmitHandshake(s) \/ receiveApplication(s) \/ SetProxy(s)
                             \/ DeleteProxy(s) \/ Idle(s) \/ ReackWindowEnds(s)
      PROVE  Effect(s)
  <2>1. KeepsConns /\ KeepsDials
    BY <1>5 DEF retransmitHandshake, receiveApplication, SetProxy, DeleteProxy, Idle,
                ReackWindowEnds, tables, objects, dials, KeepsConns, KeepsDials
  <2> QED BY <2>1 DEF Effect
<1>6. ASSUME NEW s \in Side, NEW kind, closeCannotSend(s, kind)
      PROVE  Effect(s)
  <2>1. CASE s \in forward
    BY <1>6, <2>1 DEF closeCannotSend, KeepsConns, KeepsDials, Effect
  <2>2. CASE s \notin forward /\ kind = "hello"
    BY <1>6, <2>2 DEF closeCannotSend, dropHandshake, Abandons, Answers, Effect
  <2>3. CASE s \notin forward /\ kind # "hello"
    BY <1>6, <2>3 DEF closeCannotSend, dropConnection, LeavesTable, Closes, KeepsDials, Effect
  <2> QED BY <2>1, <2>2, <2>3
<1>7. ASSUME NEW s \in Side, NEW h \in Hello, answerHandshake(s, h)
      PROVE  Effect(s)
  <2>1. CASE active[s] # None
    BY <1>7, <2>1 DEF answerHandshake, KeepsConns, KeepsDials, Effect
  <2>2. CASE active[s] = None
    BY <1>7, <2>2 DEF answerHandshake, Makes, KeepsDials, Effect
  <2> QED BY <2>1, <2>2
<1>8. ASSUME NEW p \in net, NEW rest, Handled(p, rest)
      PROVE  p.to \in Side /\ Effect(p.to)
  <2>1. p.to \in Side
    BY DEF Types, Packet
  <2>2. CASE receiveForward(p, rest) \/ receiveHandshake(p, rest) \/ receiveIgnored(p, rest)
    <3>1. KeepsConns /\ KeepsDials
      BY <2>2 DEF receiveForward, receiveHandshake, receiveIgnored, tables, objects, dials,
                  KeepsConns, KeepsDials
    <3> QED BY <2>1, <3>1 DEF Effect
  <2>3. CASE receiveHandshakeAck(p, rest)
    <3>1. AckFor(p.to)
      BY <2>3 DEF receiveHandshakeAck, AckFor
    <3>2. CASE parked[p.to] # None
      BY <2>1, <2>3, <3>1, <3>2 DEF receiveHandshakeAck, Established, Resumes, Answers, Effect
    <3>3. CASE parked[p.to] = None
      <4>1. parked' = parked
        BY <2>1, <2>3, <3>3 DEF receiveHandshakeAck, Established, Types
      <4> QED BY <2>1, <2>3, <3>1, <3>3, <4>1 DEF receiveHandshakeAck, Established, Makes, Answers, Effect
    <3> QED BY <3>2, <3>3
  <2> QED BY <1>8, <2>1, <2>2, <2>3 DEF Handled
<1>9. ASSUME NEW p \in net, Deliver(p)
      PROVE  p.to \in Side /\ Effect(p.to)
  <2>1. PICK rest : Handled(p, rest)
    BY <1>9 DEF Deliver, Handled
  <2> QED BY <1>8, <2>1
<1>10. ASSUME NEW p \in net, Lose(p)
       PROVE  p.to \in Side /\ Effect(p.to)
  <2>1. p.to \in Side
    BY DEF Types, Packet
  <2> QED BY <1>10, <2>1 DEF Lose, tables, objects, dials, KeepsConns, KeepsDials, Effect
<1> QED BY <1>1, <1>2, <1>3, <1>4, <1>5, <1>6, <1>7, <1>9, <1>10 DEF Next

\* Connections and hellos are numbered from one.
LEMMA Numbers ==
    ASSUME Types
    PROVE  /\ active \in [Side -> Nat] /\ parked \in [Side -> Nat] /\ made \in Nat
           /\ closes \in [Conn -> Nat]
           /\ pending \in [Side -> Nat] /\ hellos \in Nat /\ answers \in [Hello -> Nat]
           /\ \A c \in Conn : c \in Nat /\ c # None
           /\ \A c \in 1..made : c \in Conn /\ c # None
           /\ \A h \in Hello : h \in Nat /\ h # None /\ h > 0
<1>1. /\ \A c \in Conn : c \in Nat /\ c # None
      /\ \A h \in Hello : h \in Nat /\ h # None /\ h > 0
  BY EndpointBounds DEF Conn, Hello, None
<1>2. Conn \cup {None} \subseteq Nat /\ Hello \cup {None} \subseteq Nat
  BY <1>1 DEF None
<1>3. active \in [Side -> Nat] /\ parked \in [Side -> Nat] /\ pending \in [Side -> Nat]
  BY <1>2 DEF Types
<1>4. /\ made \in Nat /\ hellos \in Nat /\ closes \in [Conn -> Nat] /\ answers \in [Hello -> Nat]
      /\ made \in 0 .. MaxConns
  BY EndpointBounds DEF Types
<1>5. \A c \in 1..made : c \in Conn
  BY <1>4, EndpointBounds DEF Conn
<1> QED BY <1>1, <1>3, <1>4, <1>5

\* A connection is held by one side at most, in one place, and only while its
\* channel is open.
ConnsHeld ==
    /\ \A s \in Side : active[s] <= made /\ parked[s] <= made
    /\ \A s, t \in Side : active[s] # None => active[s] # parked[t] /\ (s # t => active[s] # active[t])
    /\ \A s, t \in Side : parked[s] # None /\ s # t => parked[s] # parked[t]
    /\ \A c \in Conn : /\ closes[c] <= 1
                       /\ c > made => closes[c] = 0
                       /\ \A s \in Side : c = active[s] \/ c = parked[s] => closes[c] = 0

\* A hello is pending at one side at most, and exactly until it is answered.
HellosPending ==
    /\ \A s, t \in Side : pending[s] # None /\ s # t => pending[s] # pending[t]
    /\ \A h \in Hello : /\ answers[h] <= 1
                        /\ h > hellos => answers[h] = 0
                        /\ \A s \in Side : pending[s] = h => answers[h] = 0
                        /\ h <= hellos /\ answers[h] = 0 => \E s \in Side : pending[s] = h

LEMMA ConnsHeldStep ==
    ASSUME Types, ConnsHeld, NEW s \in Side, Effect(s)
    PROVE  ConnsHeld'
<1>1. /\ active \in [Side -> Nat] /\ parked \in [Side -> Nat] /\ made \in Nat
      /\ closes \in [Conn -> Nat] /\ \A c \in Conn : c \in Nat /\ c # None
  BY Numbers
<1>2. ASSUME NEW S
      PROVE  \A c \in Conn : Again(closes, S)[c] = IF c \in S THEN closes[c] + 1 ELSE closes[c]
  BY <1>1, AgainType
<1>3. CASE KeepsConns
  BY <1>3 DEF KeepsConns, ConnsHeld
<1>4. CASE Closes(s)
  <2>1. \A c \in Conn : closes'[c] = IF c = active[s] THEN closes[c] + 1 ELSE closes[c]
    BY <1>2, <1>4 DEF Closes
  <2>2. /\ active'[s] = None /\ \A t \in Side : t # s => active'[t] = active[t]
        /\ parked' = parked /\ made' = made
    BY <1>1, <1>4 DEF Closes
  <2>3. /\ \A t \in Side : active'[t] <= made' /\ parked'[t] <= made'
        /\ \A t, u \in Side : active'[t] # None => active'[t] # parked'[u] /\ (t # u => active'[t] # active'[u])
        /\ \A t, u \in Side : parked'[t] # None /\ t # u => parked'[t] # parked'[u]
    BY <1>1, <2>2 DEF ConnsHeld, None
  <2>4. ASSUME NEW c \in Conn
        PROVE  /\ closes'[c] <= 1 /\ (c > made' => closes'[c] = 0)
               /\ \A t \in Side : c = active'[t] \/ c = parked'[t] => closes'[c] = 0
    <3>1. CASE c = active[s]
      <4>1. closes[c] = 0 /\ c <= made /\ closes'[c] = 1
        BY <1>1, <2>1, <3>1 DEF ConnsHeld
      <4>2. \A t \in Side : c # active'[t] /\ c # parked'[t]
        BY <1>1, <2>2, <3>1 DEF ConnsHeld
      <4> QED BY <1>1, <2>2, <4>1, <4>2
    <3>2. CASE c # active[s]
      <4>1. closes'[c] = closes[c] /\ \A t \in Side : c = active'[t] => c = active[t]
        BY <1>1, <2>1, <2>2, <3>2
      <4> QED BY <2>2, <4>1 DEF ConnsHeld
    <3> QED BY <3>1, <3>2
  <2> QED BY <2>3, <2>4 DEF ConnsHeld
<1>5. CASE Abandons(s)
  <2>1. \A c \in Conn : closes'[c] = IF c = parked[s] THEN closes[c] + 1 ELSE closes[c]
    BY <1>2, <1>5 DEF Abandons
  <2>2. /\ parked'[s] = None /\ \A t \in Side : t # s => parked'[t] = parked[t]
        /\ active' = active /\ made' = made
    BY <1>1, <1>5 DEF Abandons
  <2>3. /\ \A t \in Side : active'[t] <= made' /\ parked'[t] <= made'
        /\ \A t, u \in Side : active'[t] # None => active'[t] # parked'[u] /\ (t # u => active'[t] # active'[u])
        /\ \A t, u \in Side : parked'[t] # None /\ t # u => parked'[t] # parked'[u]
    BY <1>1, <2>2 DEF ConnsHeld, None
  <2>4. ASSUME NEW c \in Conn
        PROVE  /\ closes'[c] <= 1 /\ (c > made' => closes'[c] = 0)
               /\ \A t \in Side : c = active'[t] \/ c = parked'[t] => closes'[c] = 0
    <3>1. CASE c = parked[s]
      <4>1. closes[c] = 0 /\ c <= made /\ closes'[c] = 1
        BY <1>1, <2>1, <3>1 DEF ConnsHeld
      <4>2. \A t \in Side : c # active'[t] /\ c # parked'[t]
        BY <1>1, <2>2, <3>1 DEF ConnsHeld
      <4> QED BY <1>1, <2>2, <4>1, <4>2
    <3>2. CASE c # parked[s]
      <4>1. closes'[c] = closes[c] /\ \A t \in Side : c = parked'[t] => c = parked[t]
        BY <1>1, <2>1, <2>2, <3>2
      <4> QED BY <2>2, <4>1 DEF ConnsHeld
    <3> QED BY <3>1, <3>2
  <2> QED BY <2>3, <2>4 DEF ConnsHeld
<1>6. CASE Parks(s)
  <2>1. \A c \in Conn : closes'[c] = IF c = parked[s] THEN closes[c] + 1 ELSE closes[c]
    BY <1>2, <1>6 DEF Parks
  <2>2. /\ active'[s] = None /\ \A t \in Side : t # s => active'[t] = active[t]
        /\ parked'[s] = active[s] /\ \A t \in Side : t # s => parked'[t] = parked[t]
        /\ made' = made /\ active[s] # None
    BY <1>1, <1>6 DEF Parks
  <2>3. /\ \A t \in Side : active'[t] <= made' /\ parked'[t] <= made'
        /\ \A t, u \in Side : active'[t] # None => active'[t] # parked'[u] /\ (t # u => active'[t] # active'[u])
        /\ \A t, u \in Side : parked'[t] # None /\ t # u => parked'[t] # parked'[u]
    BY <1>1, <2>2 DEF ConnsHeld, None
  <2>4. ASSUME NEW c \in Conn
        PROVE  /\ closes'[c] <= 1 /\ (c > made' => closes'[c] = 0)
               /\ \A t \in Side : c = active'[t] \/ c = parked'[t] => closes'[c] = 0
    <3>1. CASE c = parked[s]
      <4>1. closes[c] = 0 /\ c <= made /\ closes'[c] = 1
        BY <1>1, <2>1, <3>1 DEF ConnsHeld
      <4>2. \A t \in Side : c # active'[t] /\ c # parked'[t]
        BY <1>1, <2>2, <3>1 DEF ConnsHeld
      <4> QED BY <1>1, <2>2, <4>1, <4>2
    <3>2. CASE c # parked[s]
      <4>1. /\ closes'[c] = closes[c]
            /\ \A t \in Side : c = active'[t] => c = active[t]
            /\ \A t \in Side : c = parked'[t] => c = parked[t] \/ c = active[t]
        BY <1>1, <2>1, <2>2, <3>2
      <4> QED BY <2>2, <4>1 DEF ConnsHeld
    <3> QED BY <3>1, <3>2
  <2> QED BY <2>3, <2>4 DEF ConnsHeld
<1>7. CASE Makes(s)
  <2>1. /\ active'[s] = made + 1 /\ \A t \in Side : t # s => active'[t] = active[t]
        /\ parked' = parked /\ made' = made + 1 /\ closes' = closes /\ made + 1 \in Conn
    BY <1>1, <1>7, EndpointBounds DEF Makes, Conn
  <2>2. \A t \in Side : active[t] # made + 1 /\ parked[t] # made + 1
    BY <1>1 DEF ConnsHeld
  <2>3. /\ \A t \in Side : active'[t] <= made' /\ parked'[t] <= made'
        /\ \A t, u \in Side : active'[t] # None => active'[t] # parked'[u] /\ (t # u => active'[t] # active'[u])
        /\ \A t, u \in Side : parked'[t] # None /\ t # u => parked'[t] # parked'[u]
    BY <1>1, <2>1, <2>2 DEF ConnsHeld, None
  <2>4. ASSUME NEW c \in Conn
        PROVE  /\ closes'[c] <= 1 /\ (c > made' => closes'[c] = 0)
               /\ \A t \in Side : c = active'[t] \/ c = parked'[t] => closes'[c] = 0
    <3>1. \A t \in Side : c = active'[t] => c = active[t] \/ c = made + 1
      BY <2>1
    <3>2. c >= made + 1 => closes[c] = 0
      BY <1>1 DEF ConnsHeld
    <3> QED BY <1>1, <2>1, <3>1, <3>2 DEF ConnsHeld
  <2> QED BY <2>3, <2>4 DEF ConnsHeld
<1>8. CASE Resumes(s)
  <2>1. /\ active'[s] = parked[s] /\ \A t \in Side : t # s => active'[t] = active[t]
        /\ parked'[s] = None /\ \A t \in Side : t # s => parked'[t] = parked[t]
        /\ made' = made /\ closes' = closes /\ parked[s] # None
    BY <1>1, <1>8 DEF Resumes
  <2>2. /\ \A t \in Side : active'[t] <= made' /\ parked'[t] <= made'
        /\ \A t, u \in Side : active'[t] # None => active'[t] # parked'[u] /\ (t # u => active'[t] # active'[u])
        /\ \A t, u \in Side : parked'[t] # None /\ t # u => parked'[t] # parked'[u]
    BY <1>1, <2>1 DEF ConnsHeld, None
  <2>3. ASSUME NEW c \in Conn
        PROVE  /\ closes'[c] <= 1 /\ (c > made' => closes'[c] = 0)
               /\ \A t \in Side : c = active'[t] \/ c = parked'[t] => closes'[c] = 0
    <3>1. /\ \A t \in Side : c = active'[t] => c = active[t] \/ c = parked[t]
          /\ \A t \in Side : c = parked'[t] => c = parked[t]
      BY <1>1, <2>1
    <3> QED BY <2>1, <3>1 DEF ConnsHeld
  <2> QED BY <2>2, <2>3 DEF ConnsHeld
<1> QED BY <1>3, <1>4, <1>5, <1>6, <1>7, <1>8 DEF Effect

LEMMA HellosPendingStep ==
    ASSUME Types, Fresh, HellosPending, NEW s \in Side, Effect(s)
    PROVE  HellosPending'
<1>1. /\ pending \in [Side -> Nat] /\ hellos \in Nat /\ answers \in [Hello -> Nat]
      /\ \A h \in Hello : h \in Nat /\ h # None /\ h > 0
      /\ \A t \in Side : pending[t] <= hellos
  BY Numbers DEF Fresh
<1>2. CASE KeepsDials
  BY <1>2 DEF KeepsDials, HellosPending
<1>3. ASSUME answers' = Again(answers, {pending[s]})
      PROVE  \A h \in Hello : answers'[h] = IF h = pending[s] THEN answers[h] + 1 ELSE answers[h]
  BY <1>1, <1>3, AgainType
<1>4. CASE Answers(s)
  <2>1. /\ \A h \in Hello : answers'[h] = IF h = pending[s] THEN answers[h] + 1 ELSE answers[h]
        /\ pending'[s] = None /\ \A t \in Side : t # s => pending'[t] = pending[t]
        /\ hellos' = hellos
    BY <1>1, <1>3, <1>4 DEF Answers
  <2>2. \A t, u \in Side : pending'[t] # None /\ t # u => pending'[t] # pending'[u]
    BY <1>1, <2>1 DEF HellosPending
  <2>3. ASSUME NEW h \in Hello
        PROVE  /\ answers'[h] <= 1
               /\ h > hellos' => answers'[h] = 0
               /\ \A t \in Side : pending'[t] = h => answers'[h] = 0
               /\ h <= hellos' /\ answers'[h] = 0 => \E t \in Side : pending'[t] = h
    <3>1. CASE h = pending[s]
      <4>1. answers[h] = 0 /\ answers'[h] = 1 /\ h <= hellos
        BY <1>1, <2>1, <3>1 DEF HellosPending
      <4>2. \A t \in Side : pending'[t] # h
        BY <1>1, <2>1, <3>1 DEF HellosPending
      <4> QED BY <1>1, <2>1, <4>1, <4>2
    <3>2. CASE h # pending[s]
      <4>1. answers'[h] = answers[h] /\ \A t \in Side : pending'[t] = h <=> pending[t] = h
        BY <1>1, <2>1, <3>2
      <4> QED BY <2>1, <4>1 DEF HellosPending
    <3> QED BY <3>1, <3>2
  <2> QED BY <2>2, <2>3 DEF HellosPending
<1>5. CASE Dials(s)
  <2>1. /\ \A h \in Hello : answers'[h] = IF h = pending[s] THEN answers[h] + 1 ELSE answers[h]
        /\ pending'[s] = hellos + 1 /\ \A t \in Side : t # s => pending'[t] = pending[t]
        /\ hellos' = hellos + 1
    BY <1>1, <1>3, <1>5 DEF Dials
  <2>2. \A t \in Side : pending[t] # hellos + 1
    <3> SUFFICES ASSUME NEW t \in Side PROVE pending[t] # hellos + 1
      OBVIOUS
    <3>1. pending[t] \in Nat /\ hellos \in Nat /\ pending[t] <= hellos
      BY <1>1
    <3> QED BY <3>1
  <2>3. \A t, u \in Side : pending'[t] # None /\ t # u => pending'[t] # pending'[u]
    BY <1>1, <2>1, <2>2 DEF HellosPending
  <2>4. ASSUME NEW h \in Hello
        PROVE  /\ answers'[h] <= 1
               /\ h > hellos' => answers'[h] = 0
               /\ \A t \in Side : pending'[t] = h => answers'[h] = 0
               /\ h <= hellos' /\ answers'[h] = 0 => \E t \in Side : pending'[t] = h
    <3>1. CASE h = pending[s]
      <4>1. answers[h] = 0 /\ answers'[h] = 1 /\ h <= hellos
        BY <1>1, <2>1, <3>1 DEF HellosPending
      <4>2. \A t \in Side : pending'[t] # h
        BY <1>1, <2>1, <2>2, <3>1 DEF HellosPending
      <4> QED BY <1>1, <2>1, <4>1, <4>2
    <3>2. CASE h = hellos + 1
      <4>1. answers[h] = 0 /\ answers'[h] = 0 /\ pending'[s] = h
        BY <1>1, <2>1, <2>2, <3>2 DEF HellosPending
      <4> QED BY <4>1
    <3>3. CASE h # pending[s] /\ h # hellos + 1
      <4>1. /\ answers'[h] = answers[h] /\ \A t \in Side : pending'[t] = h <=> pending[t] = h
            /\ h <= hellos' => h <= hellos
            /\ h > hellos' => h > hellos
        BY <1>1, <2>1, <3>3
      <4> QED BY <4>1 DEF HellosPending
    <3> QED BY <3>1, <3>2, <3>3
  <2> QED BY <2>3, <2>4 DEF HellosPending
<1> QED BY <1>2, <1>4, <1>5 DEF Effect

LEMMA HeldInit == Init => ConnsHeld /\ HellosPending
<1> SUFFICES ASSUME Init PROVE ConnsHeld /\ HellosPending
  OBVIOUS
<1>1. ConnsHeld
  BY DEF Init, ConnsHeld, None, Conn
<1>2. HellosPending
  BY EndpointBounds DEF Init, HellosPending, None, Hello
<1> QED BY <1>1, <1>2

LEMMA HeldStep ==
    ASSUME Types, Fresh, ConnsHeld, HellosPending, [Next]_vars
    PROVE  ConnsHeld' /\ HellosPending'
<1>1. CASE Next
  BY <1>1, EffectOfStep, ConnsHeldStep, HellosPendingStep
<1>2. CASE UNCHANGED vars
  BY <1>2 DEF vars, tables, objects, dials, ConnsHeld, HellosPending
<1> QED BY <1>1, <1>2

\* The types of the endpoints' tables, for every topology and every bound; and whoever
\* dials, responds and relays, no connection is in two places at once.
THEOREM EndpointTypeCorrect == Spec => []TypeOK
<1> DEFINE I == Types /\ Fresh /\ ConnsHeld /\ HellosPending
<1>1. Init => I
  BY BaseInit, HeldInit
<1>2. I /\ [Next]_vars => I'
  BY BaseStep, HeldStep
<1>3. I => TypeOK
  BY DEF ConnsHeld, TypeOK
<1> QED BY <1>1, <1>2, <1>3, PTL DEF Spec

\* No connection's closed channel and no dial's hsDone is closed twice, whoever
\* dials, responds and relays.
THEOREM EndpointNeverClosedTwice == Spec => []NeverClosedTwice
<1> DEFINE I == Types /\ Fresh /\ ConnsHeld /\ HellosPending
<1>1. Init => I
  BY BaseInit, HeldInit
<1>2. I /\ [Next]_vars => I'
  BY BaseStep, HeldStep
<1>3. I => NeverClosedTwice
  BY DEF ConnsHeld, HellosPending, NeverClosedTwice
<1> QED BY <1>1, <1>2, <1>3, PTL DEF Spec

\* An exchange is under way only where hellos are answered, and a dialer that
\* waits for an ack has no connection that the ack could push out of the table.
Roles ==
    /\ \A s \in Side, h \in Hello : exchanging[s][h] > 0 => s \in Responders
    /\ \A s \in Dialers : pending[s] = None \/ active[s] = None

LEMMA ExchangesStep ==
    ASSUME Types, Fresh, Next
    PROVE  \A s \in Side, h \in Hello : exchanging'[s][h] > 0 => exchanging[s][h] > 0 \/ s \in Responders
<1> SUFFICES ASSUME NEW s \in Side, NEW h \in Hello, s \notin Responders, exchanging'[s][h] > 0
             PROVE  exchanging[s][h] > 0
  OBVIOUS
<1>1. ASSUME NEW t \in Side, NEW i \in Hello, answerHandshake(t, i)
      PROVE  exchanging[s][h] > 0
  <2> DEFINE n == exchanging[t][i] - 1
  <2>1. exchanging \in [Side -> [Hello -> Nat]] /\ n \in Nat /\ exchanging[t][i] > 0
    BY <1>1 DEF Types, answerHandshake
  <2>2. exchanging' = [exchanging EXCEPT ![t][i] = n]
    BY <1>1 DEF answerHandshake
  <2> HIDE DEF n
  <2>3. s # t \/ h # i => exchanging'[s][h] = exchanging[s][h]
    BY <2>1, <2>2, Cell
  <2> QED BY <2>1, <2>3
<1>2. ASSUME NEW p \in net, NEW rest, receiveHandshake(p, rest)
      PROVE  exchanging[s][h] > 0
  <2> DEFINE n == exchanging[p.to][p.key[1]] + 1
  <2>1. p.to \in Side /\ p.key[1] \in Hello /\ p.to # s
    <3>1. p.to \in Side
      BY DEF Types, Packet
    <3>2. p.key[1] \in Hello
      BY EndpointBounds DEF Fresh, PacketsOfHellos, Types, Hello
    <3> QED BY <1>2, <3>1, <3>2 DEF receiveHandshake
  <2>2. exchanging' = exchanging \/ exchanging' = [exchanging EXCEPT ![p.to][p.key[1]] = n]
    BY <1>2 DEF receiveHandshake
  <2>3. exchanging \in [Side -> [Hello -> Nat]] /\ n \in Nat
    BY <2>1 DEF Types
  <2> HIDE DEF n
  <2>4. \A t \in Side, i \in Hello :
           exchanging' = [exchanging EXCEPT ![t][i] = n] /\ s # t => exchanging'[s][h] = exchanging[s][h]
    BY <2>3, Cell
  <2> QED BY <2>1, <2>2, <2>4
<1>3. ASSUME NEW t \in Side,
             \/ SendHandshake(t) \/ sendRehandshakeForProxy(t) \/ retransmitHandshake(t)
             \/ closeConnection(t) \/ DeleteHandshakeBefore(t)
             \/ DeleteInactiveConnectionsBefore(t) \/ receiveApplication(t)
             \/ SetProxy(t) \/ DeleteProxy(t) \/ Idle(t) \/ ReackWindowEnds(t)
      PROVE  exchanging' = exchanging
  BY <1>3 DEF SendHandshake, sendRehandshakeForProxy, retransmitHandshake, closeConnection,
              DeleteHandshakeBefore, DeleteInactiveConnectionsBefore, receiveApplication,
              SetProxy, DeleteProxy, Idle, ReackWindowEnds, tables
<1>4. ASSUME NEW t, NEW kind, closeCannotSend(t, kind)
      PROVE  exchanging' = exchanging
  BY <1>4 DEF closeCannotSend
<1>5. ASSUME NEW p \in net, Deliver(p)
      PROVE  exchanging[s][h] > 0
  <2>1. PICK rest : \/ receiveForward(p, rest) \/ receiveHandshake(p, rest)
                    \/ receiveHandshakeAck(p, rest) \/ receiveIgnored(p, rest)
    BY <1>5 DEF Deliver
  <2>2. receiveHandshake(p, rest) \/ exchanging' = exchanging
    BY <2>1 DEF receiveForward, receiveHandshakeAck, receiveIgnored, tables
  <2> QED BY <1>2, <2>2
<1>6. ASSUME NEW p \in net, Lose(p)
      PROVE  exchanging' = exchanging
  BY <1>6 DEF Lose, tables
<1> QED BY <1>1, <1>3, <1>4, <1>5, <1>6 DEF Next

LEMMA RolesStep ==
    ASSUME Dialers \cap Responders = {}, Types, Fresh, Roles, Next
    PROVE  Roles'
<1>1. \A s \in Side, h \in Hello : exchanging'[s][h] > 0 => s \in Responders
  BY ExchangesStep DEF Roles
<1>2. PICK s \in Side : Effect(s)
  BY EffectOfStep
<1>3. \A t \in Dialers : pending'[t] = None \/ active'[t] = None
  <2> SUFFICES ASSUME NEW t \in Dialers PROVE pending'[t] = None \/ active'[t] = None
    OBVIOUS
  <2>1. t \in Side /\ (pending[t] = None \/ active[t] = None)
    BY SidesAssumption DEF Roles
  <2>2. CASE t # s
    <3>1. pending'[t] = pending[t]
      BY <1>2, <2>1, <2>2 DEF Effect, KeepsDials, Answers, Dials, Types
    <3>2. active'[t] = active[t]
      BY <1>2, <2>1, <2>2 DEF Effect, KeepsConns, Closes, Abandons, Parks, Makes, Resumes, Types
    <3> QED BY <2>1, <3>1, <3>2
  <2>3. CASE t = s
    <3>1. CASE KeepsConns /\ KeepsDials
      BY <2>1, <3>1 DEF KeepsConns, KeepsDials
    <3>2. CASE Closes(s) \/ Parks(s)
      BY <2>1, <2>3, <3>2 DEF Closes, Parks, Types
    <3>3. CASE Answers(s)
      BY <2>1, <2>3, <3>3 DEF Answers, Types
    <3>4. CASE Abandons(s) /\ active[s] = None
      BY <2>1, <2>3, <3>4 DEF Abandons, Types
    <3>5. ASSUME \E h \in Hello : exchanging[s][h] > 0
          PROVE  FALSE
      BY <2>3, <3>5 DEF Roles
    <3> QED BY <1>2, <3>1, <3>2, <3>3, <3>4, <3>5 DEF Effect
  <2> QED BY <2>2, <2>3
<1> QED BY <1>1, <1>3 DEF Roles

\* Every connection made and not closed is in one of the tables.
ConnsKept == \A c \in 1..made : closes[c] = 0 => \E s \in Side : c = active[s] \/ c = parked[s]

LEMMA ConnsKeptStep ==
    ASSUME Dialers \cap Responders = {}, Types, Roles, ConnsHeld, ConnsKept, Next
    PROVE  ConnsKept'
<1>1. PICK s \in Side : Effect(s)
  BY EffectOfStep
<1>2. /\ active \in [Side -> Nat] /\ parked \in [Side -> Nat] /\ made \in Nat
      /\ closes \in [Conn -> Nat] /\ \A c \in Conn : c \in Nat /\ c # None
      /\ \A c \in 1..made : c \in Conn /\ c # None
  BY Numbers
<1>3. ASSUME NEW S
      PROVE  \A c \in Conn : Again(closes, S)[c] = IF c \in S THEN closes[c] + 1 ELSE closes[c]
  BY <1>2, AgainType
<1>4. ASSUME Makes(s) \/ Resumes(s)
      PROVE  active[s] = None
  <2>1. s \in Responders => s \notin Dialers
    OBVIOUS
  <2>2. AckFor(s) => active[s] = None
    BY DEF AckFor, Roles
  <2>3. CASE Makes(s)
    <3>1. made' # made
      BY <1>2, <2>3 DEF Makes
    <3> QED BY <1>1, <2>2, <3>1 DEF Effect, KeepsConns, Closes, Abandons, Parks, Resumes
  <2>4. CASE Resumes(s)
    <3>1. made' = made /\ parked'[s] = None /\ active' = [active EXCEPT ![s] = parked[s]]
          /\ parked[s] # None /\ parked'[s] # parked[s] /\ active'[s] # None
          /\ parked' # parked
      BY <1>2, <2>4 DEF Resumes
    <3>2. AckFor(s) \/ Abandons(s) \/ Parks(s)
      BY <1>1, <1>2, <3>1 DEF Effect, KeepsConns, Closes, Makes
    <3>3. ~Parks(s)
      BY <1>2, <3>1 DEF Parks
    <3>4. ~Abandons(s) \/ active[s] = parked[s]
      BY <1>2, <3>1 DEF Abandons
    <3>5. active[s] # None => active[s] # parked[s]
      BY DEF ConnsHeld
    <3> QED BY <2>2, <3>2, <3>3, <3>4, <3>5
  <2> QED BY <1>4, <2>3, <2>4
<1>5. CASE KeepsConns
  BY <1>5 DEF KeepsConns, ConnsKept
<1> SUFFICES ASSUME ~KeepsConns, NEW c \in 1 .. made', closes'[c] = 0
             PROVE  \E t \in Side : c = active'[t] \/ c = parked'[t]
  BY <1>5 DEF ConnsKept
<1>6. CASE Closes(s)
  <2>1. c \in Conn /\ c # active[s] /\ closes[c] = 0 /\ c \in 1 .. made
    BY <1>2, <1>3, <1>6 DEF Closes
  <2>2. PICK t \in Side : c = active[t] \/ c = parked[t]
    BY <2>1 DEF ConnsKept
  <2>3. c = active'[t] \/ c = parked'[t]
    BY <1>2, <1>6, <2>1, <2>2 DEF Closes
  <2> QED BY <2>3
<1>7. CASE Abandons(s)
  <2>1. c \in Conn /\ c # parked[s] /\ closes[c] = 0 /\ c \in 1 .. made
    BY <1>2, <1>3, <1>7 DEF Abandons
  <2>2. PICK t \in Side : c = active[t] \/ c = parked[t]
    BY <2>1 DEF ConnsKept
  <2>3. c = active'[t] \/ c = parked'[t]
    BY <1>2, <1>7, <2>1, <2>2 DEF Abandons
  <2> QED BY <2>3
<1>8. CASE Parks(s)
  <2>1. c \in Conn /\ c # parked[s] /\ closes[c] = 0 /\ c \in 1 .. made
    BY <1>2, <1>3, <1>8 DEF Parks
  <2>2. PICK t \in Side : c = active[t] \/ c = parked[t]
    BY <2>1 DEF ConnsKept
  <2>3. c = active'[t] \/ c = parked'[t]
    BY <1>2, <1>8, <2>1, <2>2 DEF Parks
  <2> QED BY <2>3
<1>9. CASE Makes(s)
  <2>1. /\ closes[c] = 0 /\ (c = made + 1 \/ c \in 1 .. made) /\ active'[s] = made + 1
        /\ parked' = parked /\ \A t \in Side : t # s => active'[t] = active[t]
    BY <1>2, <1>9 DEF Makes
  <2>2. CASE c \in 1 .. made
    <3>1. PICK t \in Side : c = active[t] \/ c = parked[t]
      BY <2>1, <2>2 DEF ConnsKept
    <3>2. c # None
      BY <1>2, <2>2
    <3> QED BY <1>4, <1>9, <2>1, <3>1, <3>2
  <2> QED BY <2>1, <2>2
<1>10. CASE Resumes(s)
  <2>1. /\ closes[c] = 0 /\ c \in 1 .. made /\ active'[s] = parked[s]
        /\ \A t \in Side : t # s => active'[t] = active[t] /\ parked'[t] = parked[t]
    BY <1>2, <1>10 DEF Resumes
  <2>2. PICK t \in Side : c = active[t] \/ c = parked[t]
    BY <2>1 DEF ConnsKept
  <2>3. c # None
    BY <1>2, <2>1
  <2> QED BY <1>4, <1>10, <2>1, <2>2, <2>3
<1> QED BY <1>1, <1>6, <1>7, <1>8, <1>9, <1>10 DEF Effect

\* Where no side both dials and responds, a connection, and a dial, ends at most
\* once and can always be brought to its end.
THEOREM EndpointEndsOnce ==
    ASSUME Dialers \cap Responders = {}
    PROVE  Spec => []EndsOnce
<1> DEFINE I == Types /\ Fresh /\ ConnsHeld /\ HellosPending /\ Roles /\ ConnsKept
<1>1. Init => I
  <2>1. Init => Roles /\ ConnsKept
    BY SidesAssumption DEF Init, Roles, ConnsKept
  <2> QED BY <2>1, BaseInit, HeldInit
<1>2. I /\ [Next]_vars => I'
  <2> SUFFICES ASSUME I, [Next]_vars PROVE I'
    OBVIOUS
  <2>1. Types' /\ Fresh' /\ ConnsHeld' /\ HellosPending'
    BY BaseStep, HeldStep
  <2>2. Roles' /\ ConnsKept'
    <3>1. CASE Next
      BY <3>1, RolesStep, ConnsKeptStep
    <3>2. CASE UNCHANGED vars
      BY <3>2 DEF vars, tables, objects, dials, Roles, ConnsKept
    <3> QED BY <3>1, <3>2
  <2> QED BY <2>1, <2>2
<1>3. I => EndsOnce
  <2> SUFFICES ASSUME I PROVE EndsOnce
    OBVIOUS
  <2>1. NeverClosedTwice
    BY DEF ConnsHeld, HellosPending, NeverClosedTwice
  <2>2. \A c \in 1..made : closes[c] = 0 => \E s \in Side : c \in {active[s], parked[s]}
    BY DEF ConnsKept
  <2>3. \A h \in 1..hellos : answers[h] = 0 => \E s \in Side : pending[s] = h
    <3>1. \A h \in 1..hellos : h \in Hello /\ h <= hellos
      BY EndpointBounds DEF Types, Hello
    <3> QED BY <3>1 DEF HellosPending
  <2> QED BY <2>1, <2>2, <2>3 DEF EndsOnce, NothingLost
<1> QED BY <1>1, <1>2, <1>3, PTL DEF Spec

----------------------------------------------------------------------------------
(* A dial is given up only when it was turned away.                           *)
(*                                                                            *)
(* While a hello waits and was not turned away, one token of it is on its     *)
(* way: the hello, an exchange or the ack.  Only a fault of the network makes *)
(* it vanish or doubles it, and a retransmission replaces a vanished one, so  *)
(* that the retransmissions never outnumber the faults.                       *)

Waits(h) == h \notin refused /\ \E t \in Side : pending[t] = h

OnePacket(h) ==
    /\ \E p \in net : p.key[1] = h /\ \A q \in net : q.key[1] = h => q = p
    /\ \A s \in Side : exchanging[s][h] = 0

OneExchange(h) ==
    /\ \A q \in net : q.key[1] # h
    /\ \E s \in Side : exchanging[s][h] = 1 /\ \A t \in Side : t # s => exchanging[t][h] = 0

\* The retransmissions of a hello are paid for by faults, and the faults outnumber
\* them unless the hello has exactly one token.  They do outnumber them where a
\* connection was made with a hello and another exchange of it is under way.
Accounted(h) ==
    /\ ticks[h] < faults \/ (ticks[h] <= faults /\ (OnePacket(h) \/ OneExchange(h)))
    /\ \A s \in Side : exchanging[s][h] > 0 /\ key[s][1] = h => ticks[h] < faults

\* A side without a connection has no keys, and the connection made with a hello
\* that waits still answers it.
KeysAcked ==
    /\ \A s \in Side : active[s] = None => key[s] = NoKey
    /\ \A s, t \in Side : key[s][1] # None /\ pending[t] = key[s][1] => s \in reack

AllAccounted == \A h \in Hello : Waits(h) => Accounted(h)

\* The step leaves the tokens of a hello alone.
SameTokens(h) ==
    /\ \A p \in net' : p.key[1] = h => p \in net
    /\ \A p \in net : p.key[1] = h => p \in net'
    /\ \A s \in Side : exchanging'[s][h] = exchanging[s][h]

LEMMA AccountNumbers ==
    ASSUME Types
    PROVE  /\ faults \in Nat /\ \A h \in Hello : ticks[h] \in Nat
           /\ \A s \in Side, h \in Hello : exchanging[s][h] \in Nat
BY EndpointBounds DEF Types

LEMMA FaultPays ==
    ASSUME Types, NEW h \in Hello, Accounted(h), faults' = faults + 1, ticks'[h] = ticks[h]
    PROVE  Accounted(h)'
<1>1. faults \in Nat /\ ticks[h] \in Nat /\ ticks[h] <= faults
  BY AccountNumbers DEF Accounted
<1>2. ticks'[h] < faults'
  BY <1>1
<1> QED BY <1>2 DEF Accounted

LEMMA TokensKept ==
    ASSUME Types, NEW h \in Hello, Accounted(h), faults' = faults, ticks'[h] = ticks[h],
           SameTokens(h), \A s \in Side : key'[s][1] = h => key[s][1] = h
    PROVE  Accounted(h)'
<1>1. OnePacket(h) => OnePacket(h)'
  BY DEF OnePacket, SameTokens
<1>2. OneExchange(h) => OneExchange(h)'
  BY DEF OneExchange, SameTokens
<1>3. \A s \in Side : exchanging'[s][h] > 0 /\ key'[s][1] = h => exchanging[s][h] > 0 /\ key[s][1] = h
  BY DEF SameTokens
<1> QED BY <1>1, <1>2, <1>3 DEF Accounted

\* A hello that waits after a step waited before it, unless the step sent it.
LEMMA WaitsOn ==
    ASSUME NEW h \in Hello, Waits(h)', refused \subseteq refused',
           \A t \in Side : pending'[t] = h => pending[t] = h
    PROVE  Waits(h)
BY DEF Waits

LEMMA SendAccounted ==
    ASSUME Types, Fresh, AllAccounted, NEW s \in Side, NEW conn, sendHandshake(s, conn),
           UNCHANGED <<exchanging, ticks, refused, faults>>,
           \A t \in Side : key'[t] = key[t] \/ key'[t] = NoKey
    PROVE  AllAccounted'
<1> SUFFICES ASSUME NEW h \in Hello, Waits(h)'
             PROVE  Accounted(h)'
  BY DEF AllAccounted
<1>1. /\ hello(s, hellos + 1).key[1] = hellos + 1 /\ hellos \in Nat /\ h \in Nat /\ h # None
      /\ net' = net \cup {hello(s, hellos + 1)}
  BY Numbers DEF hello, sendHandshake
<1>2. CASE h # hellos + 1
  <2>1. Waits(h)
    <3>1. \A t \in Side : pending'[t] = h => pending[t] = h
      BY <1>2 DEF sendHandshake, Types
    <3> QED BY <3>1, WaitsOn
  <2>2. SameTokens(h)
    BY <1>1, <1>2 DEF SameTokens
  <2>3. \A t \in Side : key'[t][1] = h => key[t][1] = h
    BY <1>1 DEF NoKey
  <2> QED BY <2>1, <2>2, <2>3, TokensKept DEF AllAccounted
<1>3. CASE h = hellos + 1
  <2>1. \A q \in net : q.key[1] # h
    BY <1>1, <1>3 DEF Fresh, PacketsOfHellos
  <2>2. \A t \in Side : exchanging[t][h] = 0
    <3>1. h > hellos
      BY <1>1, <1>3
    <3>2. \A t \in Side : exchanging[t][h] \in Nat /\ ~(exchanging[t][h] > 0)
      BY <1>1, <3>1, AccountNumbers DEF Fresh
    <3> QED BY <3>2
  <2>3. ticks[h] = 0 /\ faults \in Nat
    BY <1>1, <1>3, AccountNumbers DEF Fresh
  <2>4. OnePacket(h)'
    BY <1>1, <1>3, <2>1, <2>2 DEF OnePacket
  <2>5. \A t \in Side : ~(exchanging'[t][h] > 0)
    BY <2>2
  <2> QED BY <2>3, <2>4, <2>5 DEF Accounted
<1> QED BY <1>2, <1>3

LEMMA RetransmitAccounted ==
    ASSUME Types, AllAccounted, NEW s \in Side, retransmitHandshake(s)
    PROVE  AllAccounted'
<1> SUFFICES ASSUME NEW h \in Hello, Waits(h)'
             PROVE  Accounted(h)'
  BY DEF AllAccounted
<1> DEFINE g == pending[s]
<1>1. /\ g \in Hello /\ ticks' = [ticks EXCEPT ![g] = @ + 1] /\ net' = net \cup {hello(s, g)}
      /\ hello(s, g).key[1] = g /\ ~InPlay(g)
      /\ UNCHANGED <<pending, exchanging, key, refused, faults>>
  BY DEF retransmitHandshake, Types, tables, objects, hello
<1>2. Waits(h) /\ Accounted(h)
  BY <1>1 DEF Waits, AllAccounted
<1> HIDE DEF g
<1>3. CASE h # g
  <2>1. SameTokens(h)
    BY <1>1, <1>3 DEF SameTokens
  <2>2. ticks'[h] = ticks[h]
    BY <1>1, <1>3 DEF Types
  <2> QED BY <1>1, <1>2, <2>1, <2>2, TokensKept
<1>4. CASE h = g
  <2>1. (\A q \in net : q.key[1] # h) /\ \A t \in Side : ~(exchanging[t][h] > 0)
    BY <1>1, <1>4 DEF InPlay
  <2>2. \A t \in Side : exchanging[t][h] = 0
    BY <2>1, AccountNumbers
  <2>3. ~OnePacket(h) /\ ~OneExchange(h)
    BY <2>1, <2>2 DEF OnePacket, OneExchange
  <2>4. ticks[h] < faults /\ ticks'[h] = ticks[h] + 1 /\ ticks[h] \in Nat /\ faults \in Nat
    BY <1>1, <1>2, <1>4, <2>3, AccountNumbers DEF Accounted, Types
  <2>5. OnePacket(h)'
    BY <1>1, <1>4, <2>1, <2>2 DEF OnePacket
  <2>6. ticks'[h] <= faults' /\ \A t \in Side : ~(exchanging'[t][h] > 0)
    BY <1>1, <2>1, <2>4
  <2> QED BY <2>5, <2>6 DEF Accounted
<1> QED BY <1>3, <1>4

LEMMA AnswerAccounted ==
    ASSUME Types, KeysAcked, AllAccounted, NEW s \in Side, NEW g \in Hello, answerHandshake(s, g)
    PROVE  AllAccounted'
<1> SUFFICES ASSUME NEW h \in Hello, Waits(h)'
             PROVE  Accounted(h)'
  BY DEF AllAccounted
<1>1. UNCHANGED <<pending, ticks, faults>> /\ refused \subseteq refused' /\ exchanging[s][g] > 0
  BY DEF answerHandshake, Refused, TurnedAway
<1>2. Waits(h) /\ Accounted(h)
  BY <1>1, WaitsOn DEF AllAccounted
<1>3. /\ exchanging'[s][g] = exchanging[s][g] - 1
      /\ \A t \in Side, i \in Hello : t # s \/ i # g => exchanging'[t][i] = exchanging[t][i]
  <2> DEFINE n == exchanging[s][g] - 1
  <2>1. exchanging \in [Side -> [Hello -> Nat]] /\ n \in Nat
    BY DEF Types, answerHandshake
  <2>2. exchanging' = [exchanging EXCEPT ![s][g] = n]
    BY DEF answerHandshake
  <2> HIDE DEF n
  <2>3. /\ exchanging'[s][g] = n
        /\ \A t \in Side, i \in Hello : t # s \/ i # g => exchanging'[t][i] = exchanging[t][i]
    BY <2>1, <2>2, Cell
  <2> QED BY <2>3 DEF n
<1>4. CASE active[s] # None
  <2>1. refused' = Refused(s, g) /\ UNCHANGED <<key, net>>
    BY <1>4 DEF answerHandshake
  <2>2. CASE h # g
    <3>1. SameTokens(h)
      BY <1>3, <2>1, <2>2 DEF SameTokens
    <3> QED BY <1>1, <1>2, <2>1, <3>1, TokensKept
  <2>3. CASE h = g
    <3>1. key[s][1] = h
      BY <1>1, <2>1, <2>3 DEF Waits, Refused, TurnedAway
    <3>2. ticks[h] < faults
      BY <1>1, <1>2, <2>3, <3>1 DEF Accounted
    <3> QED BY <1>1, <3>2 DEF Accounted
  <2> QED BY <2>2, <2>3
<1>5. CASE active[s] = None
  <2>1. /\ key' = [key EXCEPT ![s] = <<g, made + 1>>] /\ net' = net \cup {ack(s, <<g, made + 1>>)}
        /\ ack(s, <<g, made + 1>>).key[1] = g
    BY <1>5 DEF answerHandshake, ack
  <2>2. \A t \in Side : key'[t][1] = IF t = s THEN g ELSE key[t][1]
    BY <2>1 DEF Types
  <2>3. CASE h # g
    <3>1. SameTokens(h)
      BY <1>3, <2>1, <2>3 DEF SameTokens
    <3>2. \A t \in Side : key'[t][1] = h => key[t][1] = h
      BY <2>2, <2>3
    <3> QED BY <1>1, <1>2, <3>1, <3>2, TokensKept
  <2>4. CASE h = g /\ ticks[h] < faults
    BY <1>1, <2>4 DEF Accounted
  <2>5. CASE h = g /\ ~(ticks[h] < faults)
    <3>1. OneExchange(h) /\ ticks[h] <= faults
      BY <1>1, <1>2, <2>5 DEF Accounted, OnePacket
    <3>2. exchanging[s][h] = 1 /\ \A t \in Side : t # s => exchanging[t][h] = 0
      BY <1>1, <2>5, <3>1 DEF OneExchange
    <3>3. \A t \in Side : exchanging'[t][h] = 0
      BY <1>3, <2>5, <3>2
    <3>4. \A q \in net : q.key[1] # h
      BY <3>1 DEF OneExchange
    <3>5. OnePacket(h)'
      BY <2>1, <2>5, <3>3, <3>4 DEF OnePacket
    <3>6. ticks'[h] <= faults' /\ \A t \in Side : ~(exchanging'[t][h] > 0)
      BY <1>1, <3>1, <3>3
    <3> QED BY <3>5, <3>6 DEF Accounted
  <2> QED BY <2>3, <2>4, <2>5
<1> QED BY <1>4, <1>5

\* A packet is taken from the network, and not left there for a second time.
LEMMA HandledAccounted ==
    ASSUME Types, Fresh, HellosPending, KeysAcked, AllAccounted,
           NEW p \in net, Handled(p, net \ {p}), faults' = faults
    PROVE  AllAccounted'
<1> SUFFICES ASSUME NEW h \in Hello, Waits(h)'
             PROVE  Accounted(h)'
  BY DEF AllAccounted
<1> DEFINE s == p.to
           g == p.key[1]
           rest == net \ {p}
<1>1. s \in Side /\ g \in Hello /\ p = [kind |-> p.kind, to |-> p.to, key |-> p.key]
  <2>1. p \in Packet
    BY DEF Types
  <2>2. g \in Hello
    BY EndpointBounds DEF Fresh, PacketsOfHellos, Types, Hello
  <2> QED BY <2>1, <2>2 DEF Packet
<1>2. /\ ticks' = ticks /\ refused \subseteq refused'
      /\ \A t \in Side : pending'[t] = pending[t] \/ pending'[t] = None
  <2>1. ticks' = ticks
    BY DEF Handled, receiveForward, receiveHandshake, receiveHandshakeAck, receiveIgnored, dials
  <2>2. refused \subseteq refused'
    BY DEF Handled, receiveForward, receiveHandshake, receiveHandshakeAck, receiveIgnored, dials,
           Refused, TurnedAway
  <2>3. pending' = pending \/ pending' = [pending EXCEPT ![s] = None]
    BY DEF Handled, receiveForward, receiveHandshake, receiveHandshakeAck, receiveIgnored, tables,
           Established
  <2> QED BY <1>1, <2>1, <2>2, <2>3 DEF Types
<1>3. Waits(h) /\ Accounted(h)
  <2>1. h # None
    BY Numbers
  <2> QED BY <1>2, <2>1, WaitsOn DEF AllAccounted
<1>4. ASSUME OnePacket(h), h = g
      PROVE  (\A q \in rest : q.key[1] # h) /\ \A t \in Side : exchanging[t][h] = 0
  BY <1>4 DEF OnePacket
<1>5. h = g => ~OneExchange(h)
  BY DEF OneExchange
<1>6. CASE receiveForward(p, rest)
  <2> DEFINE q == [p EXCEPT !.to = Far[Beside[s]]]
  <2>1. /\ q.key[1] = g /\ net' = rest \cup {q} /\ UNCHANGED <<exchanging, key>>
    BY <1>1, <1>6 DEF receiveForward, objects
  <2> HIDE DEF q
  <2>2. CASE h # g
    <3>1. SameTokens(h)
      BY <2>1, <2>2 DEF SameTokens
    <3> QED BY <1>2, <1>3, <2>1, <3>1, TokensKept
  <2>3. CASE h = g
    <3>1. OnePacket(h) => OnePacket(h)'
      BY <1>4, <2>1, <2>3 DEF OnePacket
    <3> QED BY <1>2, <1>3, <1>5, <2>1, <2>3, <3>1 DEF Accounted
  <2> QED BY <2>2, <2>3
<1>7. CASE receiveHandshake(p, rest)
  <2>1. UNCHANGED <<pending, key, reack>>
    BY <1>7 DEF receiveHandshake, objects
  <2>2. CASE active[s] = None
    <3> DEFINE n == exchanging[s][g] + 1
    <3>1. exchanging' = [exchanging EXCEPT ![s][g] = n] /\ net' = rest
      BY <1>7, <2>2 DEF receiveHandshake
    <3>2. exchanging \in [Side -> [Hello -> Nat]] /\ n \in Nat
      BY <1>1 DEF Types
    <3> HIDE DEF s, g, n
    <3>3. /\ exchanging'[s][g] = n
          /\ \A t \in Side, i \in Hello : t # s \/ i # g => exchanging'[t][i] = exchanging[t][i]
      BY <1>1, <3>1, <3>2, Cell
    <3>4. CASE h # g
      <4>1. SameTokens(h)
        BY <3>1, <3>3, <3>4 DEF SameTokens, g
      <4> QED BY <1>2, <1>3, <2>1, <4>1, TokensKept
    <3>5. CASE h = g
      <4>1. key'[s][1] # h
        <5>1. key[s] = NoKey /\ h # None
          BY <1>1, <2>2, Numbers DEF KeysAcked
        <5> QED BY <2>1, <5>1 DEF NoKey, None
      <4>2. OnePacket(h) => OneExchange(h)'
        <5> SUFFICES ASSUME OnePacket(h) PROVE OneExchange(h)'
          OBVIOUS
        <5>1. (\A q \in rest : q.key[1] # h) /\ \A t \in Side : exchanging[t][h] = 0
          BY <1>4, <3>5
        <5>2. exchanging'[s][h] = 1
          BY <1>1, <3>3, <3>5, <5>1 DEF n
        <5>3. \A t \in Side : t # s => exchanging'[t][h] = 0
          BY <3>3, <5>1
        <5> QED BY <1>1, <3>1, <5>1, <5>2, <5>3 DEF OneExchange
      <4>3. \A t \in Side : exchanging'[t][h] > 0 /\ key'[t][1] = h => exchanging[t][h] > 0 /\ key[t][1] = h
        BY <2>1, <3>3, <4>1
      <4> QED BY <1>2, <1>3, <1>5, <3>5, <4>2, <4>3 DEF Accounted
    <3> QED BY <3>4, <3>5
  <2>3. CASE active[s] # None /\ SameHello(s, g)
    <3>1. net' = rest \cup {ack(s, key[s])} /\ exchanging' = exchanging /\ ack(s, key[s]).key[1] = g
      BY <1>7, <2>3 DEF receiveHandshake, ack, SameHello
    <3>2. CASE h # g
      <4>1. SameTokens(h)
        BY <3>1, <3>2 DEF SameTokens
      <4> QED BY <1>2, <1>3, <2>1, <4>1, TokensKept
    <3>3. CASE h = g
      <4>1. OnePacket(h) => OnePacket(h)'
        BY <1>4, <3>1, <3>3 DEF OnePacket
      <4> QED BY <1>2, <1>3, <1>5, <2>1, <3>1, <3>3, <4>1 DEF Accounted
    <3> QED BY <3>2, <3>3
  <2>4. CASE active[s] # None /\ ~SameHello(s, g)
    <3>1. net' = rest /\ exchanging' = exchanging /\ refused' = Refused(s, g)
      BY <1>7, <2>4 DEF receiveHandshake
    <3>2. h # g
      <4> SUFFICES ASSUME h = g PROVE FALSE
        OBVIOUS
      <4>1. PICK t \in Side : pending[t] = h /\ h # None
        BY <1>3, Numbers DEF Waits
      <4>2. key[s][1] # h
        BY <1>1, <2>4, <4>1 DEF KeysAcked, SameHello
      <4>3. h \in refused'
        BY <3>1, <4>1, <4>2 DEF Refused, TurnedAway
      <4> QED BY <4>3 DEF Waits
    <3>3. SameTokens(h)
      BY <3>1, <3>2 DEF SameTokens
    <3> QED BY <1>2, <1>3, <2>1, <3>3, TokensKept
  <2> QED BY <2>2, <2>3, <2>4
<1>8. CASE receiveHandshakeAck(p, rest)
  <2> DEFINE k == <<pending[s], p.key[2]>>
  <2>1. PICK c : Established(s, c, k)
    BY <1>8 DEF receiveHandshakeAck
  <2>2. /\ net' = rest /\ exchanging' = exchanging
        /\ refused' = IF g = pending[s] THEN refused ELSE TurnedAway(g)
    BY <1>8 DEF receiveHandshakeAck
  <2>3. PICK t \in Side : pending'[t] = h /\ h # None
    BY Numbers DEF Waits
  <2>4. t # s /\ pending[t] = h
    BY <1>1, <2>1, <2>3 DEF Established, Types
  <2>5. pending[s] # h
    BY <1>1, <2>3, <2>4 DEF HellosPending
  <2>6. h # g
    BY <2>2, <2>4, <2>5 DEF TurnedAway, Waits
  <2>7. SameTokens(h)
    BY <2>2, <2>6 DEF SameTokens
  <2>8. \A u \in Side : key'[u][1] = h => key[u][1] = h
    <3>1. key' = [key EXCEPT ![s] = k]
      BY <2>1 DEF Established
    <3>2. k[1] # h
      BY <2>5
    <3> HIDE DEF k
    <3> QED BY <3>1, <3>2 DEF Types
  <2> QED BY <1>2, <1>3, <2>7, <2>8, TokensKept
<1>9. CASE receiveIgnored(p, rest)
  <2>1. net' = rest /\ UNCHANGED <<exchanging, key, pending>> /\ refused' = TurnedAway(g)
    BY <1>9 DEF receiveIgnored, tables, objects
  <2>2. h # g
    BY <1>3, <2>1 DEF Waits, TurnedAway
  <2>3. SameTokens(h)
    BY <2>1, <2>2 DEF SameTokens
  <2> QED BY <1>2, <1>3, <2>1, <2>3, TokensKept
<1> QED BY <1>6, <1>7, <1>8, <1>9 DEF Handled

LEMMA AccountedStep ==
    ASSUME Types, Fresh, HellosPending, KeysAcked, AllAccounted, Next
    PROVE  AllAccounted'
<1>1. ASSUME NEW s \in Side, SendHandshake(s)
      PROVE  AllAccounted'
  BY <1>1, SendAccounted DEF SendHandshake
<1>2. ASSUME NEW s \in Side, sendRehandshakeForProxy(s)
      PROVE  AllAccounted'
  <2>1. \A t \in Side : key'[t] = key[t] \/ key'[t] = NoKey
    BY <1>2 DEF sendRehandshakeForProxy, LeavesTable, Types
  <2> QED BY <1>2, <2>1, SendAccounted DEF sendRehandshakeForProxy
<1>3. ASSUME /\ UNCHANGED <<exchanging, ticks, refused, net, faults>>
             /\ \A t \in Side : key'[t] = key[t] \/ key'[t] = NoKey
             /\ \A t \in Side : pending'[t] = pending[t] \/ pending'[t] = None
      PROVE  AllAccounted'
  <2> SUFFICES ASSUME NEW h \in Hello, Waits(h)' PROVE Accounted(h)'
    BY DEF AllAccounted
  <2>1. h # None
    BY Numbers
  <2>2. Waits(h)
    BY <1>3, <2>1, WaitsOn
  <2>3. SameTokens(h) /\ \A t \in Side : key'[t][1] = h => key[t][1] = h
    BY <1>3, <2>1 DEF SameTokens, NoKey
  <2> QED BY <1>3, <2>2, <2>3, TokensKept DEF AllAccounted
<1>4. ASSUME NEW s \in Side, closeConnection(s) \/ DeleteInactiveConnectionsBefore(s)
      PROVE  AllAccounted'
  <2>1. \A t \in Side : key'[t] = key[t] \/ key'[t] = NoKey
    BY <1>4 DEF closeConnection, DeleteInactiveConnectionsBefore, dropConnection, LeavesTable, Types
  <2>2. UNCHANGED <<exchanging, ticks, refused, net, faults, pending>>
    BY <1>4 DEF closeConnection, DeleteInactiveConnectionsBefore, dials
  <2> QED BY <1>3, <2>1, <2>2
<1>5. ASSUME NEW s \in Side, DeleteHandshakeBefore(s)
      PROVE  AllAccounted'
  <2>1. \A t \in Side : pending'[t] = pending[t] \/ pending'[t] = None
    BY <1>5 DEF DeleteHandshakeBefore, dropHandshake, Types
  <2>2. UNCHANGED <<exchanging, ticks, refused, net, faults, key>>
    BY <1>5 DEF DeleteHandshakeBefore
  <2> QED BY <1>3, <2>1, <2>2
<1>6. ASSUME NEW s \in Side, \/ receiveApplication(s) \/ SetProxy(s) \/ DeleteProxy(s)
                             \/ Idle(s) \/ ReackWindowEnds(s)
      PROVE  AllAccounted'
  <2>1. UNCHANGED <<exchanging, ticks, refused, net, faults, key, pending>>
    BY <1>6 DEF receiveApplication, SetProxy, DeleteProxy, Idle, ReackWindowEnds, tables, objects, dials
  <2> QED BY <1>3, <2>1
<1>7. ASSUME faults' = faults + 1, ticks' = ticks, refused \subseteq refused',
             \A t \in Side : pending'[t] = pending[t] \/ pending'[t] = None
      PROVE  AllAccounted'
  <2> SUFFICES ASSUME NEW h \in Hello, Waits(h)' PROVE Accounted(h)'
    BY DEF AllAccounted
  <2>1. h # None
    BY Numbers
  <2>2. Waits(h)
    BY <1>7, <2>1, WaitsOn
  <2> QED BY <1>7, <2>2, FaultPays DEF AllAccounted
<1>8. ASSUME NEW s \in Side, NEW kind, closeCannotSend(s, kind)
      PROVE  AllAccounted'
  <2>1. faults' = faults + 1 /\ ticks' = ticks /\ refused' = refused
    BY <1>8 DEF closeCannotSend
  <2>2. \A t \in Side : pending'[t] = pending[t] \/ pending'[t] = None
    BY <1>8 DEF closeCannotSend, dropHandshake, Types
  <2> QED BY <1>7, <2>1, <2>2
<1>9. ASSUME NEW p \in net, Lose(p)
      PROVE  AllAccounted'
  BY <1>7, <1>9 DEF Lose, tables, dials
<1>10. ASSUME NEW p \in net, Deliver(p)
       PROVE  AllAccounted'
  <2>1. PICK rest \in {net \ {p}, net} :
          faults' = (IF rest = net THEN faults + 1 ELSE faults) /\ Handled(p, rest)
    BY <1>10 DEF Deliver, Handled
  <2>2. CASE rest = net
    <3>1. faults' = faults + 1
      BY <2>1, <2>2
    <3>2. ticks' = ticks
      BY <2>1 DEF Handled, receiveForward, receiveHandshake, receiveHandshakeAck, receiveIgnored, dials
    <3>3. refused \subseteq refused'
      BY <2>1 DEF Handled, receiveForward, receiveHandshake, receiveHandshakeAck, receiveIgnored,
                  dials, Refused, TurnedAway
    <3>4. pending' = pending \/ pending' = [pending EXCEPT ![p.to] = None]
      BY <2>1 DEF Handled, receiveForward, receiveHandshake, receiveHandshakeAck, receiveIgnored,
                  tables, Established
    <3>5. \A t \in Side : pending'[t] = pending[t] \/ pending'[t] = None
      BY <3>4 DEF Types
    <3> QED BY <1>7, <3>1, <3>2, <3>3, <3>5
  <2>3. CASE rest # net
    BY <2>1, <2>3, HandledAccounted
  <2> QED BY <2>2, <2>3
<1> QED BY <1>1, <1>2, <1>4, <1>5, <1>6, <1>8, <1>9, <1>10,
           RetransmitAccounted, AnswerAccounted DEF Next

LEMMA KeysAckedStep ==
    ASSUME Types, Fresh, KeysAcked, Next
    PROVE  KeysAcked'
<1>1. /\ hellos \in Nat /\ \A t \in Side : key[t][1] <= hellos /\ key[t][1] \in Nat
      /\ NoKey[1] = None
  <2>1. hellos \in Nat /\ \A t \in Side : key[t][1] \in Nat
    BY EndpointBounds DEF Types
  <2> QED BY <2>1 DEF Fresh, NoKey
<1> DEFINE NoneOrNew == \A t \in Side : pending'[t] \in {pending[t], None, hellos + 1}
<1>2. ASSUME NoneOrNew, NEW t \in Side, NEW u \in Side,
             key[t][1] # None, pending'[u] = key[t][1]
      PROVE  t \in reack
  <2>1. key[t][1] # hellos + 1
    BY <1>1
  <2>2. pending[u] = key[t][1]
    BY <1>2, <2>1
  <2> QED BY <1>2, <2>2 DEF KeysAcked
<1> HIDE DEF NoneOrNew
<1>3. ASSUME NoneOrNew, UNCHANGED <<active, key, reack>>
      PROVE  KeysAcked'
  BY <1>2, <1>3 DEF KeysAcked
<1>4. ASSUME NoneOrNew, NEW s \in Side, LeavesTable(s)
      PROVE  KeysAcked'
  <2>1. /\ key'[s] = NoKey
        /\ \A t \in Side : t # s => key'[t] = key[t] /\ active'[t] = active[t] /\ (t \in reack => t \in reack')
    BY <1>4 DEF LeavesTable, Types
  <2>2. \A t \in Side : active'[t] = None => key'[t] = NoKey
    BY <2>1 DEF KeysAcked
  <2>3. ASSUME NEW t \in Side, NEW u \in Side, key'[t][1] # None, pending'[u] = key'[t][1]
        PROVE  t \in reack'
    <3>1. t # s
      BY <1>1, <2>1, <2>3
    <3> QED BY <1>2, <1>4, <2>1, <2>3, <3>1
  <2> QED BY <2>2, <2>3 DEF KeysAcked
<1>5. ASSUME NoneOrNew, NEW s \in Side, NEW c, c # None, NEW k,
             active' = [active EXCEPT ![s] = c], key' = [key EXCEPT ![s] = k], reack' = reack \cup {s}
      PROVE  KeysAcked'
  <2>1. /\ active'[s] = c /\ s \in reack'
        /\ \A t \in Side : t # s => key'[t] = key[t] /\ active'[t] = active[t] /\ (t \in reack => t \in reack')
    BY <1>5 DEF Types
  <2>2. \A t \in Side : active'[t] = None => key'[t] = NoKey
    BY <1>5, <2>1 DEF KeysAcked
  <2>3. ASSUME NEW t \in Side, NEW u \in Side, key'[t][1] # None, pending'[u] = key'[t][1], t # s
        PROVE  t \in reack'
    BY <1>2, <1>5, <2>1, <2>3
  <2> QED BY <2>1, <2>2, <2>3 DEF KeysAcked
<1>6. ASSUME UNCHANGED pending
      PROVE  NoneOrNew
  BY <1>6 DEF NoneOrNew
<1>7. ASSUME NEW s \in Side, pending' = [pending EXCEPT ![s] = None] \/ pending' = [pending EXCEPT ![s] = hellos + 1]
      PROVE  NoneOrNew
  BY <1>7 DEF NoneOrNew, Types
<1>8. ASSUME NEW s \in Side, SendHandshake(s)
      PROVE  KeysAcked'
  BY <1>3, <1>7, <1>8 DEF SendHandshake, sendHandshake
<1>9. ASSUME NEW s \in Side, sendRehandshakeForProxy(s)
      PROVE  KeysAcked'
  BY <1>4, <1>7, <1>9 DEF sendRehandshakeForProxy, sendHandshake
<1>10. ASSUME NEW s \in Side, closeConnection(s) \/ DeleteInactiveConnectionsBefore(s)
       PROVE  KeysAcked'
  BY <1>4, <1>6, <1>10 DEF closeConnection, DeleteInactiveConnectionsBefore, dropConnection
<1>11. ASSUME NEW s \in Side, DeleteHandshakeBefore(s)
       PROVE  KeysAcked'
  BY <1>3, <1>7, <1>11 DEF DeleteHandshakeBefore, dropHandshake
<1>12. ASSUME NEW s \in Side, \/ retransmitHandshake(s) \/ receiveApplication(s) \/ SetProxy(s)
                              \/ DeleteProxy(s) \/ Idle(s)
       PROVE  KeysAcked'
  <2>1. UNCHANGED <<active, key, reack, pending>>
    BY <1>12 DEF retransmitHandshake, receiveApplication, SetProxy, DeleteProxy, Idle, tables, objects
  <2> QED BY <1>3, <1>6, <2>1
<1>13. ASSUME NEW s \in Side, ReackWindowEnds(s)
       PROVE  KeysAcked'
  BY <1>13 DEF ReackWindowEnds, tables, KeysAcked
<1>14. ASSUME NEW s \in Side, NEW kind, closeCannotSend(s, kind)
       PROVE  KeysAcked'
  <2>1. CASE s \in forward
    <3>1. UNCHANGED <<active, key, reack, pending>>
      BY <1>14, <2>1 DEF closeCannotSend
    <3> QED BY <1>3, <1>6, <3>1
  <2>2. CASE s \notin forward /\ kind = "hello"
    <3>1. UNCHANGED <<active, key, reack>> /\ pending' = [pending EXCEPT ![s] = None]
      BY <1>14, <2>2 DEF closeCannotSend, dropHandshake
    <3> QED BY <1>3, <1>7, <3>1
  <2>3. CASE s \notin forward /\ kind # "hello"
    <3>1. LeavesTable(s) /\ UNCHANGED pending
      BY <1>14, <2>3 DEF closeCannotSend, dropConnection
    <3> QED BY <1>4, <1>6, <3>1
  <2> QED BY <2>1, <2>2, <2>3
<1>15. ASSUME NEW s \in Side, NEW h \in Hello, answerHandshake(s, h)
       PROVE  KeysAcked'
  <2>1. UNCHANGED pending
    BY <1>15 DEF answerHandshake
  <2>2. CASE active[s] # None
    <3>1. UNCHANGED <<active, key, reack>>
      BY <1>15, <2>2 DEF answerHandshake
    <3> QED BY <1>3, <1>6, <2>1, <3>1
  <2>3. CASE active[s] = None
    <3>1. /\ active' = [active EXCEPT ![s] = made + 1] /\ key' = [key EXCEPT ![s] = <<h, made + 1>>]
          /\ reack' = reack \cup {s}
      BY <1>15, <2>3 DEF answerHandshake
    <3>2. made + 1 # None
      BY Numbers DEF None
    <3> QED BY <1>5, <1>6, <2>1, <3>1, <3>2
  <2> QED BY <2>2, <2>3
<1>16. ASSUME NEW p \in net, Deliver(p)
       PROVE  KeysAcked'
  <2>1. PICK rest : Handled(p, rest)
    BY <1>16 DEF Deliver, Handled
  <2>2. p.to \in Side
    BY DEF Types, Packet
  <2>3. CASE receiveHandshakeAck(p, rest)
    <3> DEFINE k == <<pending[p.to], p.key[2]>>
    <3>1. PICK c : Established(p.to, c, k) /\ c # None
      <4>1. made + 1 # None
        BY Numbers DEF None
      <4> QED BY <2>3, <4>1 DEF receiveHandshakeAck
    <3>2. /\ active' = [active EXCEPT ![p.to] = c] /\ key' = [key EXCEPT ![p.to] = k]
          /\ reack' = reack \cup {p.to} /\ pending' = [pending EXCEPT ![p.to] = None]
      BY <3>1 DEF Established
    <3>3. NoneOrNew
      BY <1>7, <2>2, <3>2
    <3> HIDE DEF k
    <3> QED BY <1>5, <2>2, <3>1, <3>2, <3>3
  <2>4. CASE ~receiveHandshakeAck(p, rest)
    <3>1. UNCHANGED <<active, key, reack, pending>>
      BY <2>1, <2>4 DEF Handled, receiveForward, receiveHandshake, receiveIgnored, tables, objects
    <3> QED BY <1>3, <1>6, <3>1
  <2> QED BY <2>3, <2>4
<1>17. ASSUME NEW p \in net, Lose(p)
       PROVE  KeysAcked'
  <2>1. UNCHANGED <<active, key, reack, pending>>
    BY <1>17 DEF Lose, tables, objects
  <2> QED BY <1>3, <1>6, <2>1
<1> QED BY <1>8, <1>9, <1>10, <1>11, <1>12, <1>13, <1>14, <1>15, <1>16, <1>17 DEF Next

\* A dial expires only with more retransmissions behind it than the network has faults.
LEMMA ExpiresStep ==
    ASSUME MaxFaults <= MaxTicks, Types, AllAccounted, ExpiresOnlyRefused, Next
    PROVE  ExpiresOnlyRefused'
<1>1. ASSUME expired' = expired
      PROVE  ExpiresOnlyRefused'
  <2>1. refused \subseteq refused'
    <3>1. ASSUME NEW s \in Side,
                 \/ SendHandshake(s) \/ sendRehandshakeForProxy(s) \/ retransmitHandshake(s)
                 \/ closeConnection(s) \/ DeleteHandshakeBefore(s)
                 \/ DeleteInactiveConnectionsBefore(s) \/ receiveApplication(s)
                 \/ SetProxy(s) \/ DeleteProxy(s) \/ Idle(s) \/ ReackWindowEnds(s)
          PROVE  refused' = refused
      BY <3>1 DEF SendHandshake, sendRehandshakeForProxy, retransmitHandshake, closeConnection,
                  DeleteHandshakeBefore, DeleteInactiveConnectionsBefore, receiveApplication,
                  SetProxy, DeleteProxy, Idle, ReackWindowEnds, dials
    <3>2. ASSUME NEW s, NEW kind, closeCannotSend(s, kind)
          PROVE  refused' = refused
      BY <3>2 DEF closeCannotSend
    <3>3. ASSUME NEW s, NEW h, answerHandshake(s, h)
          PROVE  refused \subseteq refused'
      BY <3>3 DEF answerHandshake, Refused, TurnedAway
    <3>4. ASSUME NEW p, Deliver(p)
          PROVE  refused \subseteq refused'
      <4>1. PICK rest : Handled(p, rest)
        BY <3>4 DEF Deliver, Handled
      <4> QED BY <4>1 DEF Handled, receiveForward, receiveHandshake, receiveHandshakeAck,
                          receiveIgnored, dials, Refused, TurnedAway
    <3>5. ASSUME NEW p, Lose(p)
          PROVE  refused' = refused
      BY <3>5 DEF Lose, dials
    <3> QED BY <3>1, <3>2, <3>3, <3>4, <3>5 DEF Next
  <2> QED BY <1>1, <2>1 DEF ExpiresOnlyRefused
<1>2. ASSUME NEW s \in Side, DeleteHandshakeBefore(s)
      PROVE  ExpiresOnlyRefused'
  <2> DEFINE h == pending[s]
  <2>1. /\ h \in Hello /\ ticks[h] = MaxTicks /\ ~InPlay(h)
        /\ expired' = expired \cup {h} /\ refused' = refused
    BY <1>2 DEF DeleteHandshakeBefore, Types
  <2> HIDE DEF h
  <2>2. h \in refused
    <3> SUFFICES ASSUME h \notin refused PROVE FALSE
      OBVIOUS
    <3>1. Accounted(h)
      BY <2>1 DEF AllAccounted, Waits, h
    <3>2. (\A q \in net : q.key[1] # h) /\ \A t \in Side : exchanging[t][h] # 1
      BY <2>1 DEF InPlay
    <3>3. ~OnePacket(h) /\ ~OneExchange(h)
      BY <3>2 DEF OnePacket, OneExchange
    <3>4. MaxTicks < faults
      BY <2>1, <3>1, <3>3 DEF Accounted
    <3>5. faults <= MaxFaults /\ faults \in Nat
      BY EndpointBounds DEF Types
    <3> QED BY <3>4, <3>5, EndpointBounds
  <2> QED BY <2>1, <2>2 DEF ExpiresOnlyRefused
<1>3. ASSUME NEW s \in Side,
             \/ SendHandshake(s) \/ sendRehandshakeForProxy(s) \/ retransmitHandshake(s)
             \/ closeConnection(s) \/ DeleteInactiveConnectionsBefore(s) \/ receiveApplication(s)
             \/ SetProxy(s) \/ DeleteProxy(s) \/ Idle(s) \/ ReackWindowEnds(s)
      PROVE  expired' = expired
  BY <1>3 DEF SendHandshake, sendRehandshakeForProxy, retransmitHandshake, closeConnection,
              DeleteInactiveConnectionsBefore, receiveApplication, SetProxy, DeleteProxy, Idle,
              ReackWindowEnds, dials
<1>4. ASSUME NEW s, NEW kind, closeCannotSend(s, kind)
      PROVE  expired' = expired
  BY <1>4 DEF closeCannotSend
<1>5. ASSUME NEW s, NEW h, answerHandshake(s, h)
      PROVE  expired' = expired
  BY <1>5 DEF answerHandshake
<1>6. ASSUME NEW p, Deliver(p) \/ Lose(p)
      PROVE  expired' = expired
  BY <1>6 DEF Deliver, Lose, receiveForward, receiveHandshake, receiveHandshakeAck, receiveIgnored, dials
<1> QED BY <1>1, <1>2, <1>3, <1>4, <1>5, <1>6 DEF Next

\* A dial that retransmits at least as often as the network fails is given up only
\* when it was turned away, or when its ack was taken for another dial's, whoever
\* dials, responds and relays.
THEOREM EndpointExpiresOnlyRefused ==
    ASSUME MaxFaults <= MaxTicks
    PROVE  Spec => []ExpiresOnlyRefused
<1> DEFINE I == /\ Types /\ Fresh /\ ConnsHeld /\ HellosPending /\ KeysAcked /\ AllAccounted
                /\ ExpiresOnlyRefused
<1>1. Init => I
  <2> SUFFICES ASSUME Init PROVE I
    OBVIOUS
  <2>1. KeysAcked
    BY DEF Init, KeysAcked, NoKey, None
  <2>2. AllAccounted
    BY Numbers, BaseInit DEF Init, AllAccounted, Waits
  <2>3. ExpiresOnlyRefused
    BY DEF Init, ExpiresOnlyRefused
  <2> QED BY <2>1, <2>2, <2>3, BaseInit, HeldInit
<1>2. I /\ [Next]_vars => I'
  <2> SUFFICES ASSUME I, [Next]_vars PROVE I'
    OBVIOUS
  <2>1. Types' /\ Fresh' /\ ConnsHeld' /\ HellosPending'
    BY BaseStep, HeldStep
  <2>2. KeysAcked' /\ AllAccounted' /\ ExpiresOnlyRefused'
    <3>1. CASE Next
      BY <3>1, KeysAckedStep, AccountedStep, ExpiresStep
    <3>2. CASE UNCHANGED vars
      BY <3>2 DEF vars, tables, objects, dials, KeysAcked, AllAccounted, Waits, Accounted, OnePacket,
                  OneExchange, ExpiresOnlyRefused
    <3> QED BY <3>1, <3>2
  <2> QED BY <2>1, <2>2
<1> QED BY <1>1, <1>2, PTL DEF Spec

==================================================================================
