-------------------------- MODULE MCStreamTransfer --------------------------
(* Instances of StreamTransfer for TLC: what the application writes. *)
EXTENDS StreamTransfer

OneClosedWrite == {<<4, TRUE>>}
=============================================================================
