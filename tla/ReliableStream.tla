--------------------------- MODULE ReliableStream ---------------------------
(***************************************************************************)
(* What trsf promises the two applications at the ends of a stream,        *)
(* whatever the packets underneath go through (trsf/api.go: SendStream,    *)
(* ReceiveStream): the reader gets the bytes that were written, in the     *)
(* order they were written, each of them once, and is told EOF after the   *)
(* last one.                                                               *)
(***************************************************************************)
EXTENDS Integers, Sequences

VARIABLES
    written,  \* number of bytes the writer has handed over
    closed,   \* the writer has closed the stream
    got,      \* the bytes the reader has been given: written byte k is k
    ended     \* the reader has been told EOF

vars == <<written, closed, got, ended>>

Prefix(n) == [i \in 1 .. n |-> i - 1]

Init ==
    /\ written = 0
    /\ closed = FALSE
    /\ got = Prefix(0)
    /\ ended = FALSE

Write ==
    /\ ~ closed
    /\ written' \in Nat /\ written' >= written
    /\ closed' \in BOOLEAN
    /\ UNCHANGED <<got, ended>>

Read ==
    /\ ~ ended
    /\ \E n \in Len(got) .. written : got' = Prefix(n)
    /\ ended' \in BOOLEAN
    /\ ended' => closed /\ got' = Prefix(written)
    /\ UNCHANGED <<written, closed>>

Next == Write \/ Read

Spec == Init /\ [][Next]_vars

\* Everything written is read, and a closed stream is read to its end.
FairSpec ==
    /\ Spec
    /\ WF_vars(Read /\ got' # got)
    /\ WF_vars(Read /\ ended' # ended)
=============================================================================
