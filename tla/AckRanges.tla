------------------------------ MODULE AckRanges ------------------------------
(***************************************************************************)
(* The range list a receiver keeps of packet numbers it owes an ACK for    *)
(* (trsf/pn_track.go), and the wire form that list is sent in              *)
(* (trsf/wire.go: TransferACK at the sender of the ACK, decodeRanges at    *)
(* its receiver).  ack_delay is left out: it is a measurement.             *)
(*                                                                         *)
(* Unsigned arithmetic keeps its width (Width, 64 in the code) because an  *)
(* ACK offset is computed with a subtraction that can pass below zero.     *)
(***************************************************************************)
EXTENDS Integers, Sequences, FiniteSets, SequencesExt

CONSTANT Width   \* bits of an unsigned integer; a varint carries Width - 2

ASSUME WidthAssumption == Width \in Nat /\ Width > 2

\* Arithmetic of powers, which the provers do not know.
ASSUME PowersAssumption == 2^(Width - 2) \in Nat /\ 2^Width = 4 * 2^(Width - 2)

VARIABLE unackedRanges   \* sequence of [Begin, End): received, not yet acknowledged

(* The tracker *)

Covered(ranges) == UNION {r.Begin .. (r.End - 1) : r \in ToSet(ranges)}

\* Mutant of ExtendUp: touching ranges are left apart.
ExtendUpUnmerged(ranges, i) == [ranges EXCEPT ![i].End = @ + 1]
ExtendUp(ranges, i) ==
    LET grown == [ranges EXCEPT ![i].End = @ + 1]
    IN IF i + 1 <= Len(ranges) /\ grown[i].End = ranges[i + 1].Begin
       THEN RemoveAt([grown EXCEPT ![i].End = ranges[i + 1].End], i + 1)
       ELSE grown

ExtendDown(ranges, i) ==
    LET grown == [ranges EXCEPT ![i].Begin = @ - 1]
    IN IF i > 1 /\ ranges[i - 1].End = grown[i].Begin
       THEN RemoveAt([grown EXCEPT ![i - 1].End = ranges[i].End], i)
       ELSE grown

\* The loop acts on the first range some branch of it matches; a number above
\* the last range's End matches none, and the loop ends without recording it.
InsertInto(ranges, n) ==
    LET matching == {i \in DOMAIN ranges : n <= ranges[i].End}
        i == CHOOSE j \in matching : \A k \in matching : j <= k
    IN CASE ranges = <<>> -> << [Begin |-> n, End |-> n + 1] >>
         [] ranges # <<>> /\ matching = {} -> ranges
         [] OTHER ->
              CASE n = ranges[i].End       -> ExtendUp(ranges, i)
                [] n + 1 = ranges[i].Begin -> ExtendDown(ranges, i)
                [] n < ranges[i].Begin - 1 ->
                     InsertAt(ranges, i, [Begin |-> n, End |-> n + 1])
                [] OTHER                   -> ranges

-----------------------------------------------------------------------------
(* The wire form *)

Wrap(n) == n % 2^Width

EncodeVarintOK(n) == n < 2^(Width - 2)

\* Mutant of AckOffset: the two ends disagree about the constant.
AckOffsetShort(ranges, j) == Wrap(ranges[j + 1].Begin - ranges[j].End - 1)

\* Ranges go out highest first; each lower one as its distance from the range
\* above it and its length, both less the constants below.
AckOffset(ranges, j) == Wrap(ranges[j + 1].Begin - ranges[j].End - 2)

TransferACKFails(ranges) ==
    \/ ranges = <<>>
    \/ \E j \in DOMAIN ranges : ranges[j].End <= ranges[j].Begin
    \/ \E j \in 1 .. Len(ranges) - 1 :
          \/ ranges[j + 1].Begin <= ranges[j].End
          \/ ~ EncodeVarintOK(AckOffset(ranges, j))
          \/ ~ EncodeVarintOK(ranges[j].End - ranges[j].Begin - 1)
    \/ ~ EncodeVarintOK(ranges[Len(ranges)].End)

TransferACK(ranges) ==
    LET top == ranges[Len(ranges)]
    IN [LargestAck |-> top.End,
        FirstDelta |-> top.End - top.Begin - 1,
        Ranges     |-> [i \in 1 .. Len(ranges) - 1 |->
                          LET j == Len(ranges) - i
                          IN [Offset |-> AckOffset(ranges, j),
                              Delta  |-> ranges[j].End - ranges[j].Begin - 1]]]

decodeRanges(pkt) ==
    LET k == Len(pkt.Ranges)
        begin[i \in 0 .. k] ==
            IF i = 0
            THEN Wrap(pkt.LargestAck - pkt.FirstDelta - 1)
            ELSE Wrap(begin[i - 1] - pkt.Ranges[i].Offset - 2
                                   - pkt.Ranges[i].Delta - 1)
        end(i) == IF i = 0
                  THEN pkt.LargestAck
                  ELSE Wrap(begin[i - 1] - pkt.Ranges[i].Offset - 2)
    IN Reverse([i \in 1 .. k + 1 |-> [Begin |-> begin[i - 1], End |-> end(i - 1)]])
=============================================================================
