---------------------------- MODULE OrderingQueue ----------------------------
(***************************************************************************)
(* The reassembly queue of a receive stream (trsf/ordering.go), with the   *)
(* recvStream methods that wrap it (trsf/recv_stream.go).                  *)
(*                                                                         *)
(* A chunk is [Offset, Data, Len, Eof].  Payload bytes are abstracted to   *)
(* their identity: byte k of everything the peer's application wrote, so   *)
(* Data is the position the chunk's first byte has in the written stream.  *)
(* In a correct transfer it equals Offset; the receiver never looks at it, *)
(* it only copies it to `delivered', where the properties compare the two. *)
(*                                                                         *)
(* The code keeps the chunks in a slice sorted by offset, one chunk per    *)
(* offset; a set of chunks is the same thing, "the next chunk" being the   *)
(* one with the least greater offset.                                      *)
(***************************************************************************)
EXTENDS Integers, FiniteSets

VARIABLES
    queue,       \* the chunks waiting to be read
    nextOffset,  \* offset of the next byte to hand to the reader
    eofReached,  \* the READER has consumed the EOF chunk
    delivered    \* history: delivered[i] is the byte the reader got i-th

queueVars == <<queue, nextOffset, eofReached, delivered>>

QueueInit ==
    /\ queue = {}
    /\ nextOffset = 0
    /\ eofReached = FALSE
    /\ delivered = <<>>

End(c) == c.Offset + c.Len

Above(c) == {d \in queue : d.Offset > c.Offset}
Below(c) == {d \in queue : d.Offset < c.Offset}

-----------------------------------------------------------------------------
(* Push *)

\* Silently accepted and not stored: a zero-length open marker, bytes below the
\* read position, and a chunk at the offset of a stored one, WHATEVER its length.
IgnoredChunk(c) ==
    \/ c.Len = 0 /\ ~ c.Eof
    \/ nextOffset > c.Offset
    \/ \E d \in queue : d.Offset = c.Offset

Overlapping(c) ==
    \/ \E d \in Above(c) : End(c) > d.Offset
    \/ \E d \in Below(c) : End(d) > c.Offset

\* Only a chunk that would be appended last is compared with the EOF.
AfterEof(c) ==
    /\ Above(c) = {}
    /\ \/ \E d \in queue : d.Eof /\ \A e \in queue : e.Offset <= d.Offset
       \/ eofReached

\* recvStream.ProcessChunk: data after a consumed EOF is dropped, an error from
\* Push is logged by the caller; neither leaves a trace.
ProcessChunk(c) ==
    /\ queue' = IF eofReached \/ IgnoredChunk(c) \/ Overlapping(c) \/ AfterEof(c)
                THEN queue
                ELSE queue \cup {c}
    /\ UNCHANGED <<nextOffset, eofReached, delivered>>

-----------------------------------------------------------------------------
(* ReadDirect *)

HasData == \E c \in queue : c.Offset = nextOffset

Covers(c, o) == c.Offset <= o /\ o < End(c)

\* Where the read of up to n bytes stops: at n, or at the first byte missing.
IsReadEnd(end, n) ==
    /\ \A o \in nextOffset .. end - 1 : \E c \in queue : Covers(c, o)
    /\ end = nextOffset + n \/ ~ \E c \in queue : Covers(c, end)

\* Chunks read to their last byte.  A zero-length EOF chunk is consumed only if
\* the reader still had room when the loop came to it.
Consumed(end, n) == {c \in queue : End(c) <= end /\ c.Offset < nextOffset + n}

Trimmed(c, end) ==
    [Offset |-> end, Data |-> c.Data + (end - c.Offset), Len |-> End(c) - end, Eof |-> c.Eof]

ByteAt(o) ==
    LET c == CHOOSE d \in queue : Covers(d, o) IN c.Data + (o - c.Offset)

\* A reader with room for n bytes, n > 0.  Without HasData nothing changes: the
\* reader gets EOF again, or waits.
ReadDirect(n) ==
    /\ ~ eofReached
    /\ HasData
    /\ \E end \in nextOffset .. nextOffset + n :
          LET partial == {c \in queue : c.Offset < end /\ end < End(c)}
          IN /\ IsReadEnd(end, n)
             /\ queue' = (queue \ (Consumed(end, n) \cup partial))
                           \cup {Trimmed(c, end) : c \in partial}
             /\ nextOffset' = end
             /\ eofReached' = \E c \in Consumed(end, n) :
                                 /\ c.Eof
                                 /\ \A d \in Consumed(end, n) : d.Offset <= c.Offset
             /\ delivered' = [i \in 1 .. end |-> IF i <= nextOffset
                                                 THEN delivered[i]
                                                 ELSE ByteAt(i - 1)]
=============================================================================
