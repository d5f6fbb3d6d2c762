------------------------------ MODULE MTUTracker ------------------------------
(***************************************************************************)
(* Path MTU discovery (src/trsf/mtu/plpmtud.go) against a path that may    *)
(* change, lose probes by congestion, and answer them in any order.  The   *)
(* tracker searches the range low..high for the largest size that crosses, *)
(* re-proves the size in use once converged, and falls back to the base    *)
(* when the path stops carrying it.                                        *)
(*                                                                         *)
(* Instants are abstracted to what the code compares them for: whether an  *)
(* interval that starts at them has passed.                                *)
(***************************************************************************)
EXTENDS Integers, Sequences, FiniteSets, SequencesExt

CONSTANTS MinMTU, MaxMTU,  \* the base and the ceiling of the search
          MaxFlight,       \* bound on packets in flight
          MaxLosses,       \* bound on packets lost though they would fit
          MaxChanges       \* bound on changes of the path

ASSUME SizesAssumption == /\ MinMTU \in Nat /\ MaxMTU \in Nat
                          /\ 0 < MinMTU /\ MinMTU < MaxMTU
ASSUME BoundsAssumption == /\ MaxFlight \in Nat /\ MaxLosses \in Nat
                           /\ MaxChanges \in Nat

VARIABLES
    mtu, low, high,      \* the estimate and the range still searched
    lastProbe,           \* the size of the latest probe
    probeSent,           \* a probe is believed outstanding
    validating,          \* ... and asks about the estimate itself
    searchLossCount, validationLossCount,
    lastProbeConverged,  \* when the search ended
    lastValidation,      \* when the estimate was last re-proved
    lastLargeACK, lastAnyACK, largeLostSeen, \* the black-hole detector
    path,                \* the largest size the path carries now
    flight,              \* packets whose fate is not known yet
    losses, changes

search == <<mtu, low, high, lastProbe, probeSent, validating>>
counts == <<searchLossCount, validationLossCount>>
timers == <<lastProbeConverged, lastValidation>>
detector == <<lastLargeACK, lastAnyACK, largeLostSeen>>
environment == <<path, flight, losses, changes>>
vars == <<search, counts, timers, detector, environment>>

Sizes == MinMTU..MaxMTU

\* An instant: never, within the interval it starts, or past it.
Instant == {"zero", "fresh", "past"}
Packet == [probe : BOOLEAN, size : Nat, crosses : BOOLEAN]

-------------------------------------------------------------------------------

Init == /\ mtu = MinMTU /\ low = MinMTU + 1 /\ high = MaxMTU
        /\ lastProbe = 0
        /\ probeSent = FALSE /\ validating = FALSE
        /\ searchLossCount = 0 /\ validationLossCount = 0
        /\ lastProbeConverged = "zero" /\ lastValidation = "zero"
        /\ lastLargeACK = "zero" /\ lastAnyACK = "zero"
        /\ largeLostSeen = FALSE
        /\ path \in Sizes
        /\ flight = <<>> /\ losses = 0 /\ changes = 0

\* A packet enters the network, where it crosses if it fits, or is lost.
Send(probe, size) ==
    /\ Len(flight) < MaxFlight
    /\ \E crosses \in BOOLEAN :
        /\ crosses => size <= path
        /\ (size <= path /\ ~crosses) => losses < MaxLosses
        /\ losses' = IF size <= path /\ ~crosses THEN losses + 1 ELSE losses
        /\ flight' = Append(flight, [probe |-> probe, size |-> size,
                                     crosses |-> crosses])
    /\ UNCHANGED <<path, changes>>

\* An interval has passed.  A zero instant lies before every interval.
Passed(t) == t # "fresh"

\* Converged, and due to re-prove the size in use.
ProbeValidate ==
    /\ ~probeSent /\ low > high
    /\ Passed(lastValidation)
    /\ Send(TRUE, mtu)
    /\ probeSent' = TRUE /\ validating' = TRUE
    /\ lastProbe' = mtu
    /\ lastValidation' = "fresh"
    /\ UNCHANGED <<mtu, low, high, counts, lastProbeConverged, detector>>

\* Converged below the ceiling, and due to search upward again.
ProbeReopen ==
    /\ ~probeSent /\ low > high
    /\ ~Passed(lastValidation)
    /\ Passed(lastProbeConverged) /\ mtu < MaxMTU
    /\ low' = mtu + 1 /\ high' = MaxMTU
    /\ lastProbe' = (low' + high' + 1) \div 2
    /\ Send(TRUE, lastProbe')
    /\ probeSent' = TRUE /\ validating' = FALSE
    /\ lastProbeConverged' = "zero"
    /\ searchLossCount' = 0
    /\ UNCHANGED <<mtu, validationLossCount, lastValidation, detector>>

\* Searching: the middle of the range, again after a loss below the threshold.
ProbeSearch ==
    /\ ~probeSent /\ low <= high
    /\ lastProbe' = (low + high + 1) \div 2
    /\ Send(TRUE, lastProbe')
    /\ probeSent' = TRUE /\ validating' = FALSE
    /\ UNCHANGED <<mtu, low, high, counts, timers, detector>>

Probe == ProbeValidate \/ ProbeReopen \/ ProbeSearch

-------------------------------------------------------------------------------

\* The end of the search is noted once: the range is l..h after the step.
mayDetectConverged(l, h) ==
    /\ lastProbeConverged' = IF l > h /\ lastProbeConverged = "zero"
                             THEN "fresh" ELSE lastProbeConverged
    /\ lastValidation' = IF l > h /\ lastValidation = "zero"
                         THEN "fresh" ELSE lastValidation

\* A seeded fault: a fallback does not reopen the range below the size it gives up.
ForgetfulFallBack ==
    /\ mtu' = MinMTU /\ low' = low /\ high' = MaxMTU
    /\ lastProbe' = MinMTU
    /\ probeSent' = FALSE /\ validating' = FALSE
    /\ searchLossCount' = 0 /\ validationLossCount' = 0
    /\ lastProbeConverged' = "zero" /\ lastValidation' = "zero"
    /\ largeLostSeen' = FALSE /\ lastLargeACK' = "zero"

\* The only place where the estimate decreases.
fallBackToBase ==
    /\ mtu' = MinMTU /\ low' = MinMTU + 1 /\ high' = MaxMTU
    /\ lastProbe' = MinMTU
    /\ probeSent' = FALSE /\ validating' = FALSE
    /\ searchLossCount' = 0 /\ validationLossCount' = 0
    /\ lastProbeConverged' = "zero" /\ lastValidation' = "zero"
    /\ largeLostSeen' = FALSE /\ lastLargeACK' = "zero"

\* A seeded fault: an answered validation returns before the flags are cleared.
OnACKEarly ==
    /\ \/ /\ validating
          /\ validationLossCount' = 0
          /\ UNCHANGED <<search, searchLossCount, timers>>
       \/ /\ ~validating
          /\ probeSent' = FALSE /\ validating' = FALSE
          /\ searchLossCount' = 0
          /\ mtu' = IF lastProbe > mtu THEN lastProbe ELSE mtu
          /\ low' = lastProbe + 1
          /\ mayDetectConverged(lastProbe + 1, high)
          /\ UNCHANGED <<high, lastProbe, validationLossCount>>
    /\ UNCHANGED detector

\* A seeded fault: the estimate is set to the next size to search.
OnACKAbove ==
    /\ probeSent' = FALSE /\ validating' = FALSE
    /\ \/ /\ validating
          /\ validationLossCount' = 0
          /\ UNCHANGED <<mtu, low, high, lastProbe, searchLossCount, timers>>
       \/ /\ ~validating
          /\ searchLossCount' = 0
          /\ mtu' = IF lastProbe > mtu THEN lastProbe + 1 ELSE mtu
          /\ low' = lastProbe + 1
          /\ mayDetectConverged(lastProbe + 1, high)
          /\ UNCHANGED <<high, lastProbe, validationLossCount>>
    /\ UNCHANGED detector

\* OnACK for a validation probe, and for a search probe.
OnACK ==
    /\ probeSent' = FALSE /\ validating' = FALSE
    /\ \/ /\ validating
          /\ validationLossCount' = 0
          /\ UNCHANGED <<mtu, low, high, lastProbe, searchLossCount, timers>>
       \/ /\ ~validating
          /\ searchLossCount' = 0
          /\ mtu' = IF lastProbe > mtu THEN lastProbe ELSE mtu
          /\ low' = lastProbe + 1
          /\ mayDetectConverged(lastProbe + 1, high)
          /\ UNCHANGED <<high, lastProbe, validationLossCount>>
    /\ UNCHANGED detector

\* A seeded fault: lost validations are counted and condemn nothing.
OnLostValidatingIdly ==
    /\ validating
    /\ validationLossCount' = (validationLossCount + 1) % 3
    /\ probeSent' = FALSE /\ validating' = FALSE
    /\ UNCHANGED <<mtu, low, high, lastProbe, searchLossCount, timers, detector>>

\* A lost validation probe: the third in a row condemns the estimate.
OnLostValidating ==
    /\ validating
    /\ \/ /\ validationLossCount + 1 < 3
          /\ validationLossCount' = validationLossCount + 1
          /\ probeSent' = FALSE /\ validating' = FALSE
          /\ UNCHANGED <<mtu, low, high, lastProbe, searchLossCount, timers,
                         detector>>
       \/ /\ validationLossCount + 1 >= 3
          /\ mtu <= MinMTU  \* the base itself does not cross: only counted
          /\ validationLossCount' = 0
          /\ probeSent' = FALSE /\ validating' = FALSE
          /\ UNCHANGED <<mtu, low, high, lastProbe, searchLossCount, timers,
                         detector>>
       \/ /\ validationLossCount + 1 >= 3
          /\ mtu > MinMTU
          /\ fallBackToBase
          /\ UNCHANGED lastAnyACK

\* A lost search probe: the third in a row lowers the upper end.
OnLostSearching ==
    /\ ~validating
    /\ probeSent' = FALSE /\ validating' = FALSE
    /\ \/ /\ lastProbe <= mtu  \* not evidence about the search
          /\ UNCHANGED <<high, counts, timers>>
       \/ /\ lastProbe > mtu /\ searchLossCount + 1 < 3
          /\ searchLossCount' = searchLossCount + 1
          /\ UNCHANGED <<high, validationLossCount, timers>>
       \/ /\ lastProbe > mtu /\ searchLossCount + 1 >= 3
          /\ high' = lastProbe - 1
          /\ searchLossCount' = 0
          /\ mayDetectConverged(low, lastProbe - 1)
          /\ UNCHANGED validationLossCount
    /\ UNCHANGED <<mtu, low, lastProbe, detector>>

OnLost == OnLostValidating \/ OnLostSearching

\* An ordinary packet larger than the base was acknowledged.
OnLargePacketACKed ==
    /\ lastAnyACK' = "fresh" /\ lastLargeACK' = "fresh"
    /\ largeLostSeen' = FALSE
    /\ UNCHANGED <<search, counts, timers>>

\* The verdict: large packets are lost, none has crossed for the timeout, and
\* the peer is heard from.
BlackHole == /\ mtu > MinMTU
             /\ lastLargeACK = "past"
             /\ lastAnyACK = "fresh"

\* An ordinary packet larger than the base was lost.
OnLargePacketLost ==
    \/ /\ BlackHole
       /\ fallBackToBase
       /\ UNCHANGED lastAnyACK
    \/ /\ ~BlackHole
       /\ largeLostSeen' = TRUE
       /\ UNCHANGED <<search, counts, timers, lastLargeACK, lastAnyACK>>

-------------------------------------------------------------------------------

\* The fate of a packet in flight becomes known, in any order.
Resolve(i) ==
    /\ i \in DOMAIN flight
    /\ flight' = RemoveAt(flight, i)
    /\ \/ flight[i].probe /\ flight[i].crosses /\ OnACK
       \/ flight[i].probe /\ ~flight[i].crosses /\ OnLost
       \/ ~flight[i].probe /\ flight[i].crosses /\ OnLargePacketACKed
       \/ ~flight[i].probe /\ ~flight[i].crosses /\ OnLargePacketLost
    /\ UNCHANGED <<path, losses, changes>>

Probing == \E i \in DOMAIN flight : flight[i].probe

\* A stream packet larger than the base, no larger than the estimate; one at
\* a time is enough to feed the detector.
SendLarge ==
    /\ \A i \in DOMAIN flight : flight[i].probe
    /\ \E size \in MinMTU + 1 .. mtu : Send(FALSE, size)
    /\ UNCHANGED <<search, counts, timers, detector>>

\* Something arrived from the peer.
OnPeerActivity ==
    /\ lastAnyACK' = "fresh"
    /\ UNCHANGED <<search, counts, timers, lastLargeACK, largeLostSeen,
                   environment>>

\* The re-validation and re-probe periods, of 60 s and at least 30 s, outlast
\* the probes in flight, which the loss detector answers for within a few
\* round trips, and a search that is due, which the run loop wakes for at once.
ValidationDue ==
    /\ ~Probing
    /\ ~(low > high /\ lastProbeConverged = "past" /\ mtu < MaxMTU)
    /\ lastValidation = "fresh" /\ lastValidation' = "past"
    /\ UNCHANGED <<search, counts, lastProbeConverged, detector, environment>>

ReprobeDue ==
    /\ ~Probing
    /\ lastProbeConverged = "fresh" /\ lastProbeConverged' = "past"
    /\ UNCHANGED <<search, counts, lastValidation, detector, environment>>

\* The black-hole timeout passes since the last large acknowledgement, and
\* since the last packet of any kind, which is never the older of the two.
LargeIsPast ==
    /\ lastLargeACK = "fresh" /\ lastLargeACK' = "past"
    /\ UNCHANGED <<search, counts, timers, lastAnyACK, largeLostSeen, environment>>

AnyIsPast ==
    /\ lastAnyACK = "fresh" /\ lastLargeACK # "fresh" /\ lastAnyACK' = "past"
    /\ UNCHANGED <<search, counts, timers, lastLargeACK, largeLostSeen, environment>>

\* The route changes; it may even stop carrying the base.
PathChanges ==
    /\ changes < MaxChanges /\ changes' = changes + 1
    /\ path' \in (MinMTU - 1 .. MaxMTU) \ {path}
    /\ UNCHANGED <<search, counts, timers, detector, flight, losses>>

Next == \/ Probe \/ SendLarge \/ OnPeerActivity
        \/ \E i \in 1..MaxFlight : Resolve(i)
        \/ ValidationDue \/ ReprobeDue \/ LargeIsPast \/ AnyIsPast
        \/ PathChanges

Spec == Init /\ [][Next]_vars

\* The run loop arms a timer for NextDeadline whenever no probe is
\* outstanding, and the loss detector answers for every packet.  The clock
\* runs on whatever else happens: a period that keeps finding a moment to end
\* does end.
Fairness == /\ WF_vars(Probe) /\ WF_vars(Resolve(1))
            /\ SF_vars(ValidationDue) /\ SF_vars(ReprobeDue)

FairSpec == Spec /\ Fairness

-------------------------------------------------------------------------------
(* Properties *)

\* The tracker's variables have their types.
TypeOK == /\ mtu \in Sizes /\ low \in Nat /\ high \in Nat /\ lastProbe \in Nat
          /\ probeSent \in BOOLEAN /\ validating \in BOOLEAN
          /\ searchLossCount \in 0..2 /\ validationLossCount \in 0..2
          /\ lastProbeConverged \in Instant /\ lastValidation \in Instant
          /\ lastLargeACK \in Instant /\ lastAnyACK \in Instant
          /\ largeLostSeen \in BOOLEAN
          /\ path \in Nat /\ flight \in Seq(Packet)
          /\ losses \in 0..MaxLosses /\ changes \in 0..MaxChanges

\* However acknowledgements, losses, fallbacks and re-probes interleave
\* (OnACK, OnLost, fallBackToBase), the search starts right above the estimate
\* and never above the ceiling, and the range closes without losing more than
\* the size just probed: it is never left inverted.
SearchRangeSound == /\ low = mtu + 1
                    /\ high \in mtu - 1 .. MaxMTU
                    /\ lastProbe <= MaxMTU
                    /\ lastProbe <= high + 1

\* A tracker that waits for an answer has a probe the answer can come from;
\* otherwise Probe returns -1 for good and NextDeadline arms nothing.
WaitsForAProbe == probeSent => Probing

\* A search that has ended has both of its periods running, so that Probe
\* neither validates at once nor reopens the search at once.
ConvergedIsTimed == low > high => /\ lastProbeConverged # "zero"
                                  /\ lastValidation # "zero"

\* The tracker never stops looking at the path, on an idle connection either: it is
\* silent only while a probe is out, and rests only until a deadline (NextDeadline).
KeepsProbing == WaitsForAProbe /\ ConvergedIsTimed

\* A probe is in flight that the tracker no longer waits for: a fallback has
\* forgotten it, and its answer will be taken for that of a later probe.
Forgotten == Cardinality({i \in DOMAIN flight : flight[i].probe})
                > IF probeSent THEN 1 ELSE 0

\* The estimate rises only to the size of the probe whose acknowledgement has just
\* come, unless a forgotten probe is about: its late answer is taken for the later
\* probe's (fallBackToBase: "so neither needs an epoch counter").
RisesToProvenSize ==
    [][mtu' > mtu /\ ~ Forgotten =>
            \E i \in DOMAIN flight : /\ flight[i].probe /\ flight[i].crosses
                                     /\ flight[i].size = mtu'
                                     /\ flight' = RemoveAt(flight, i)]_vars

\* Once the path is stable and congestion stops taking probes, the estimate
\* settles on the largest size the path carries, from above as well as from
\* below, or on the base: unless fallbacks keep leaving probes behind.
SettlesOnPath ==
    <>[]~Forgotten => <>[](mtu = IF path < MinMTU THEN MinMTU ELSE path)

===============================================================================
