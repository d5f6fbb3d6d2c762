----------------------------- MODULE SecureChannel -----------------------------
(***************************************************************************)
(* One direction of a connection (src/objproto/objproto.go): a sender that *)
(* numbers and seals packets under a key phase it advances on its own, a   *)
(* network that loses, repeats and reorders them, and a receiver that      *)
(* refuses replays and follows the phase from one bit of the header.       *)
(*                                                                         *)
(* A packet is known by its number, sealedAs records the phase it was      *)
(* sealed under; the header carries that phase's lowest bit, and opening   *)
(* a packet under another phase's key fails.                               *)
(***************************************************************************)
EXTENDS NonceTracker, FiniteSets

CONSTANTS
    KeyUpdatePackets,          \* numbers after which sending advances the phase
    MinPacketsBetweenUpdates,  \* and the floor below which nothing does
    CounterWidth,              \* bits of an unsigned integer
    ReorderWindow,             \* how many numbers a packet may overtake
    MaxPN, MaxReserved, MaxLosses, MaxRepeats  \* bounds

ASSUME PolicyAssumption ==
    /\ MinPacketsBetweenUpdates \in Nat \ {0}
    /\ KeyUpdatePackets \in Nat /\ KeyUpdatePackets > MinPacketsBetweenUpdates
ASSUME NetworkAssumption ==
    /\ ReorderWindow \in Nat /\ MaxLosses \in Nat
    /\ ReorderWindow + MaxLosses < MinPacketsBetweenUpdates
    /\ MaxRepeats \in Nat /\ MaxReserved \in Nat /\ MaxPN \in Nat /\ MaxPN < 2^CounterWidth
ASSUME CounterAssumption == 2^CounterWidth \in Nat

VARIABLES
    sentCounter, sendPhase, sendPhaseFrom,
    sendPhaseAged,   \* minTimeBetweenUpdates has passed in this phase
    reserved,        \* numbers consumed, not sealed yet
    pings,           \* key updates whose control packet is still to be sent
    sealedAs,        \* phase each number was sealed under, or -1
    net,             \* packets in the network
    recvTracker, recvPhase, recvPhaseFrom,
    prevKey,         \* the previous phase's key: "none", "kept" or "expired"
    accepted,        \* history: how often each number was accepted
    tidy,            \* history: no phase ended over numbers still unsealed
    losses, repeats

sender == <<sentCounter, sendPhase, sendPhaseFrom, sendPhaseAged, reserved,
            pings, sealedAs, tidy>>
receiver == <<recvTracker, recvPhase, recvPhaseFrom, prevKey, accepted>>
network == <<net, losses, repeats>>
vars == <<sender, receiver, network>>

Nonces == 1..MaxPN
Unsealed == -1

-------------------------------------------------------------------------------

Init == /\ sentCounter = 0 /\ sendPhase = 0 /\ sendPhaseFrom = 0
        /\ sendPhaseAged = FALSE /\ reserved = {} /\ pings = 0
        /\ sealedAs = [n \in Nonces |-> Unsealed]
        /\ net = {} /\ losses = 0 /\ repeats = 0
        /\ recvTracker = FreshTracker /\ recvPhase = 0 /\ recvPhaseFrom = 0
        /\ prevKey = "none" /\ accepted = [n \in Nonces |-> 0] /\ tidy = TRUE

\* trsf takes the number of a packet before the packet is sealed.
ConsumePacketNumber ==
    /\ sentCounter < MaxPN /\ Cardinality(reserved) < MaxReserved
    /\ sentCounter' = sentCounter + 1
    /\ reserved' = reserved \cup {sentCounter'}
    /\ UNCHANGED <<sendPhase, sendPhaseFrom, sendPhaseAged, pings, sealedAs,
                   tidy, receiver, network>>

\* Seeded fault: the floor of numbers is not kept.
AgedUpdate(counter) == sendPhaseAged

canUpdateLocked(counter) ==
    /\ counter >= sendPhaseFrom + MinPacketsBetweenUpdates
    /\ sendPhaseAged

ratchetSendLocked(counter) ==
    /\ sendPhase' = sendPhase + 1
    /\ sendPhaseFrom' = counter
    /\ sendPhaseAged' = FALSE

\* sendApplicationFrame once it holds the connection's lock: the phase is
\* advanced before the packet is sealed, never after.
Seal(n, counter) ==
    /\ \/ /\ (n - sendPhaseFrom) % 2^CounterWidth >= KeyUpdatePackets
          /\ canUpdateLocked(counter)
          /\ ratchetSendLocked(counter)
          /\ tidy' = (tidy /\ reserved \subseteq {n} /\ pings = 0)
       \/ /\ ~(/\ (n - sendPhaseFrom) % 2^CounterWidth >= KeyUpdatePackets
               /\ canUpdateLocked(counter))
          /\ UNCHANGED <<sendPhase, sendPhaseFrom, sendPhaseAged, tidy>>
    /\ sealedAs' = [sealedAs EXCEPT ![n] = sendPhase']
    /\ net' = net \cup {n}
    /\ UNCHANGED <<losses, repeats>>

\* SendMessage takes the next number itself.
SendMessage ==
    /\ sentCounter < MaxPN
    /\ sentCounter' = sentCounter + 1
    /\ Seal(sentCounter', sentCounter')
    /\ UNCHANGED <<reserved, pings, receiver>>

SendMessageWithPacketNumber(n) ==
    /\ n \in reserved
    /\ reserved' = reserved \ {n}
    /\ Seal(n, sentCounter)
    /\ UNCHANGED <<sentCounter, pings, receiver>>

\* UpdateKey gives up the lock before it sends the control packet that carries
\* the new phase; the first update of a connection has no floor.
UpdateKey ==
    /\ sendPhase > 0 => canUpdateLocked(sentCounter)
    /\ sentCounter < MaxPN  \* bound: the control packet has a number left
    /\ ratchetSendLocked(sentCounter)
    /\ tidy' = (tidy /\ reserved = {} /\ pings = 0)
    /\ pings' = pings + 1
    /\ UNCHANGED <<sentCounter, reserved, sealedAs, receiver, network>>

sendControl ==
    /\ pings > 0 /\ sentCounter < MaxPN
    /\ pings' = pings - 1
    /\ sentCounter' = sentCounter + 1
    /\ Seal(sentCounter', sentCounter')
    /\ UNCHANGED <<reserved, receiver>>

-------------------------------------------------------------------------------

\* Seeded fault: a number that predates the phase is not looked at.
KeyByBitAlone(n) ==
    IF sealedAs[n] % 2 = recvPhase % 2 THEN recvPhase ELSE recvPhase + 1

\* The phase whose key the receiver opens a packet with.
KeyFor(n) ==
    CASE sealedAs[n] % 2 = recvPhase % 2 -> recvPhase
      [] sealedAs[n] % 2 # recvPhase % 2 /\ n < recvPhaseFrom /\ prevKey = "kept"
            -> recvPhase - 1
      [] OTHER -> recvPhase + 1

Opens(n) == KeyFor(n) = sealedAs[n]

commitRecvPhaseLocked(n) ==
    /\ recvPhase' = recvPhase + 1
    /\ recvPhaseFrom' = n
    /\ prevKey' = "kept"

\* receiveApplication for a packet that is fresh and opens; the number is
\* entered only then.
receiveApplication(n) ==
    /\ Usable(recvTracker, n) /\ Opens(n)
    /\ IF KeyFor(n) = recvPhase + 1 THEN commitRecvPhaseLocked(n)
       ELSE UNCHANGED <<recvPhase, recvPhaseFrom, prevKey>>
    /\ recvTracker' = InsertNonce(recvTracker, n)
    /\ accepted' = [accepted EXCEPT ![n] = @ + 1]

\* A replay, or a packet no key at hand opens, is dropped.
receiveDropped(n) ==
    /\ ~(Usable(recvTracker, n) /\ Opens(n))
    /\ UNCHANGED receiver

\* The network delivers a packet, perhaps not for the last time, once it has
\* delivered or lost those it may not overtake.
Deliver(n) ==
    /\ n \in net
    /\ \A m \in net : accepted[m] = 0 => n - m <= ReorderWindow
    /\ \/ net' = net \ {n} /\ UNCHANGED repeats
       \/ repeats < MaxRepeats /\ repeats' = repeats + 1 /\ UNCHANGED net
    /\ receiveApplication(n) \/ receiveDropped(n)
    /\ UNCHANGED <<sender, losses>>

Lose(n) ==
    /\ n \in net /\ losses < MaxLosses
    /\ losses' = losses + 1 /\ net' = net \ {n}
    /\ UNCHANGED <<sender, receiver, repeats>>

\* Time: the sender's floor passes, the receiver's retention ends.
PhaseAges == /\ ~sendPhaseAged /\ sendPhaseAged' = TRUE
             /\ UNCHANGED <<sentCounter, sendPhase, sendPhaseFrom, reserved,
                            pings, sealedAs, tidy, receiver, network>>

PrevKeyExpires == /\ prevKey = "kept" /\ prevKey' = "expired"
                  /\ UNCHANGED <<sender, recvTracker, recvPhase, recvPhaseFrom,
                                 accepted, network>>

Next == \/ ConsumePacketNumber \/ SendMessage \/ UpdateKey \/ sendControl
        \/ \E n \in Nonces : SendMessageWithPacketNumber(n) \/ Deliver(n) \/ Lose(n)
        \/ PhaseAges \/ PrevKeyExpires

Spec == Init /\ [][Next]_vars

-------------------------------------------------------------------------------
(* Properties *)

Phases == 0..MaxPN + 1

\* The channel's variables have their types.
TypeOK ==
    /\ sentCounter \in 0..MaxPN /\ sendPhase \in Phases /\ sendPhaseFrom \in 0..MaxPN
    /\ sendPhaseAged \in BOOLEAN /\ reserved \in SUBSET Nonces /\ pings \in Nat
    /\ sealedAs \in [Nonces -> Phases \cup {Unsealed}] /\ net \in SUBSET Nonces
    /\ recvPhase \in Phases /\ recvPhaseFrom \in 0..MaxPN
    /\ prevKey \in {"none", "kept", "expired"} /\ tidy \in BOOLEAN
    /\ losses \in 0..MaxLosses /\ repeats \in 0..MaxRepeats

\* However often the network repeats it and in whatever order, a packet is
\* accepted at most once.
AcceptedOnce == \A n \in Nonces : accepted[n] <= 1

\* The replay filter refuses nothing fresh: its unused ranges are exactly the
\* numbers below the largest that were never accepted, ascending, apart.
TrackerExact ==
    LET u == recvTracker.unused
    IN /\ UNION {u[i].start .. u[i].end : i \in DOMAIN u}
             = {n \in 1..recvTracker.largest : accepted[n] = 0}
       /\ \A i \in DOMAIN u : u[i].start <= u[i].end
       /\ \A i \in 1..Len(u) - 1 : u[i].end + 1 < u[i + 1].start

\* The replay filter, for every order of arrival: each packet once, and no fresh one
\* refused (InsertNonce).
ReplayFilterExact == TypeOK /\ AcceptedOnce /\ TrackerExact

\* Packets were sealed in the order of their numbers, as far as phases go.
SealedInOrder == \A m, n \in Nonces :
    (m < n /\ sealedAs[m] # Unsealed /\ sealedAs[n] # Unsealed)
        => sealedAs[m] <= sealedAs[n]

\* One bit and the number tell the three keys apart: a packet of the current
\* phase, of the next, or of the previous while its key is kept, is opened
\* with its own key ("an out-of-phase packet is a late one from the previous
\* phase if its packet number predates this phase, and otherwise is the peer
\* advancing into the next"), provided numbers were sealed in order.
KeyChosenRight ==
    SealedInOrder =>
        \A n \in {m \in net : accepted[m] = 0} :
            (\/ sealedAs[n] \in {recvPhase, recvPhase + 1}
             \/ sealedAs[n] = recvPhase - 1 /\ prevKey = "kept") => Opens(n)

\* The sender's floors keep the receiver from being stranded: if the sender is
\* two phases ahead, a packet of the phase in between is still on its way.
\* The network loses and reorders fewer packets than the floor together, and
\* no phase ended over numbers consumed but not sealed.
NotStranded ==
    (tidy /\ sendPhase > recvPhase + 1)
        => \E n \in net : sealedAs[n] = recvPhase + 1 /\ accepted[n] = 0

===============================================================================
