-------------------------- MODULE PacketNumTracker --------------------------
(***************************************************************************)
(* The receiver's packet number tracker (trsf/pn_track.go): arrivals are   *)
(* recorded, and each pass of the run loop's send half takes the record    *)
(* and turns it into an ACK.                                               *)
(*                                                                         *)
(* The packet numbers that arrive are chosen by the environment: any       *)
(* order, with gaps, each at most once (objproto's nonce tracker refuses a *)
(* replay before a packet gets here).                                      *)
(***************************************************************************)
EXTENDS AckRanges

CONSTANT MaxNumber   \* packet numbers are 0..MaxNumber

ASSUME PNAssumption == MaxNumber \in Nat

VARIABLES
    largestPN,      \* {} , or {the largest packet number inserted} (haveLargest)
    recvAdded,      \* the one-slot notification channel the run loop selects on
    arrived,        \* history: every packet number handed to InsertUnacked
    taken,          \* the ranges the last GenerateACK took
    decoded         \* history: packet numbers the peer decoded from an ACK

trackerVars == <<unackedRanges, largestPN, recvAdded, arrived, taken, decoded>>

PN == 0..MaxNumber

-----------------------------------------------------------------------------
TrackerInit ==
    /\ unackedRanges = <<>>
    /\ largestPN = {}
    /\ recvAdded = FALSE
    /\ arrived = {}
    /\ taken = <<>>
    /\ decoded = {}

\* Mutant of InsertUnacked: the first packet of an ACK wakes nobody.
InsertUnackedQuietly(n) ==
    /\ n \notin arrived
    /\ arrived' = arrived \cup {n}
    /\ largestPN' = IF \A m \in largestPN : n > m THEN {n} ELSE largestPN
    /\ unackedRanges' = InsertInto(unackedRanges, n)
    /\ recvAdded' = (recvAdded \/ unackedRanges # <<>>)
    /\ UNCHANGED <<taken, decoded>>

\* handlePacket records an ack-eliciting packet before it looks at its content.
InsertUnacked(n) ==
    /\ n \notin arrived
    /\ arrived' = arrived \cup {n}
    /\ largestPN' = IF \A m \in largestPN : n > m THEN {n} ELSE largestPN
    /\ unackedRanges' = InsertInto(unackedRanges, n)
    /\ recvAdded' = (recvAdded \/ InsertInto(unackedRanges, n) # unackedRanges)
    /\ UNCHANGED <<taken, decoded>>

\* One pass of the run loop's send half: the pending ranges are taken and
\* cleared, and the ACK is encoded, sent and decoded by the peer if TransferACK
\* can express it.  The pass was woken by recvAdded or by another channel, in
\* which case the token stays behind.
GenerateACK ==
    /\ recvAdded' \in {recvAdded, FALSE}
    /\ taken' = unackedRanges
    /\ unackedRanges' = <<>>
    /\ largestPN' = {}
    /\ decoded' = IF TransferACKFails(unackedRanges)
                  THEN decoded
                  ELSE decoded \cup Covered(decodeRanges(TransferACK(unackedRanges)))
    /\ UNCHANGED arrived

TrackerNext ==
    \/ \E n \in PN : InsertUnacked(n)
    \/ GenerateACK

TrackerSpec == TrackerInit /\ [][TrackerNext]_trackerVars

-----------------------------------------------------------------------------
PNRange == [Begin : PN, End : 1 .. MaxNumber + 1]

\* Shape of the tracker's state.
TrackerTypeOK ==
    /\ unackedRanges \in Seq(PNRange) /\ Len(unackedRanges) <= MaxNumber + 1
    /\ largestPN \in SUBSET PN /\ Cardinality(largestPN) <= 1
    /\ recvAdded \in BOOLEAN
    /\ arrived \in SUBSET PN
    /\ decoded \in SUBSET Int

\* The range list stays in the normal form that both the insertion loop and
\* TransferACK take for granted: non-empty ranges, ascending, and never two
\* that touch (InsertUnacked merges them).
RangesNormal ==
    /\ TrackerTypeOK
    /\ \A i \in DOMAIN unackedRanges : unackedRanges[i].Begin < unackedRanges[i].End
    /\ \A i \in 1 .. Len(unackedRanges) - 1 :
          unackedRanges[i].End < unackedRanges[i + 1].Begin

\* The peer never decodes an acknowledgement of a packet that did not arrive:
\* neither the merging of ranges nor the offset arithmetic of the wire form
\* invents a packet number, even where a subtraction wraps.
NeverAcksUnreceived == decoded \subseteq arrived

\* Whatever ACK can be encoded decodes, at the peer, to exactly the ranges that
\* GenerateACK took and cleared.
EncodedAckIsExact ==
    ~ TransferACKFails(taken) => decodeRanges(TransferACK(taken)) = taken

\* An ACK says what arrived, no more and no less than was taken for it.
AcksExact == NeverAcksUnreceived /\ EncodedAckIsExact

\* No lost wake-up: while an ACK is owed the run loop has a token to wake on,
\* however passes woken by other channels interleave with arrivals.
OwedAckWakesLoop == unackedRanges # <<>> => recvAdded
=============================================================================
