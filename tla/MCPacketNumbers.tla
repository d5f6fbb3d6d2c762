--------------------------- MODULE MCPacketNumbers ---------------------------
(***************************************************************************)
(* The three books kept of packet numbers, for TLC: the channel's, which   *)
(* numbers were sealed and accepted; the receiver's, which of them it owes *)
(* an ACK for; and the sender's, which of its own await one.               *)
(*                                                                         *)
(* No two of them share a variable, so a behaviour of all three is three   *)
(* behaviours side by side and an invariant of one is decided by its own:  *)
(* a behaviour of this module keeps one book and leaves the others shut, on *)
(* a first page that is always the same.                                   *)
(***************************************************************************)
EXTENDS SecureChannel, PacketNumTracker, SentPacketHandler

VARIABLE book   \* the one that is kept

BooksInit ==
    /\ book \in {"channel", "tracker", "handler"}
    /\ Init /\ TrackerInit /\ HandlerInit
    /\ book # "handler" => rtt = Min(RTTs)

BooksNext ==
    /\ \/ /\ book = "channel" /\ Next
          /\ UNCHANGED <<trackerVars, detectorVars>>
       \/ /\ book = "tracker" /\ TrackerNext
          /\ UNCHANGED <<vars, detectorVars>>
       \/ /\ book = "handler" /\ HandlerNext
          /\ UNCHANGED <<vars, trackerVars>>
    /\ UNCHANGED book

BooksSpec == BooksInit /\ [][BooksNext]_<<book, vars, trackerVars, detectorVars>>
=============================================================================
