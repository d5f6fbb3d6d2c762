---------------------------- MODULE MessageChannel ----------------------------
(***************************************************************************)
(* The channel between the goroutine that reads a socket and the           *)
(* application (src/objproto/message.go).  Its messages are known by the   *)
(* sequence numbers they are stamped with.  SendMessage never blocks: when *)
(* the channel is full a goroutine is left behind with the message, and    *)
(* the reader puts what comes late back into order.                        *)
(***************************************************************************)
EXTENDS Naturals, Sequences

CONSTANT MsgDepth  \* messageChannelDepth
ASSUME MsgDepthAssumption == MsgDepth \in Nat \ {0}

VARIABLES
    messageChan, seqNum,
    fallback,    \* messages held by goroutines that SendMessage left behind
    reorderBuf, recvSeqNum,
    cancelled,   \* ctx is done
    chanClosed,  \* close(messageChan) has run
    stopped      \* the reader has been told that the channel is closed

mcVars == <<messageChan, seqNum, fallback, reorderBuf, recvSeqNum, cancelled,
            chanClosed, stopped>>

NewMessageChannel ==
    /\ messageChan = <<>> /\ seqNum = 0 /\ fallback = {}
    /\ reorderBuf = {} /\ recvSeqNum = 0
    /\ cancelled = FALSE /\ chanClosed = FALSE /\ stopped = FALSE

\* The number is taken first; then the channel is tried, and a goroutine left.
SendMessage ==
    /\ IF cancelled THEN UNCHANGED <<messageChan, seqNum, fallback>>
       ELSE /\ seqNum' = seqNum + 1
            /\ IF Len(messageChan) < MsgDepth
               THEN messageChan' = Append(messageChan, seqNum) /\ UNCHANGED fallback
               ELSE fallback' = fallback \cup {seqNum} /\ UNCHANGED messageChan
    /\ UNCHANGED <<reorderBuf, recvSeqNum, cancelled, chanClosed, stopped>>

\* The goroutine sends when there is room, or drops its message once cancelled.
FallbackSends ==
    /\ \E n \in fallback :
        /\ fallback' = fallback \ {n}
        /\ Len(messageChan) < MsgDepth /\ messageChan' = Append(messageChan, n)
    /\ UNCHANGED <<seqNum, reorderBuf, recvSeqNum, cancelled, chanClosed, stopped>>

\* Seeded fault: the goroutine does not look at ctx.
FallbackHolds == FALSE /\ UNCHANGED mcVars

FallbackDrops ==
    /\ cancelled
    /\ \E n \in fallback : fallback' = fallback \ {n}
    /\ UNCHANGED <<messageChan, seqNum, reorderBuf, recvSeqNum, cancelled, chanClosed,
                   stopped>>

\* CloseChannel up to its wait, and from there on; a second call does nothing.
CloseBegins ==
    /\ cancelled' = TRUE
    /\ UNCHANGED <<messageChan, seqNum, fallback, reorderBuf, recvSeqNum, chanClosed,
                   stopped>>

\* Seeded fault: nobody waits for the goroutines.
CloseAtOnce ==
    /\ cancelled
    /\ chanClosed' = TRUE
    /\ UNCHANGED <<messageChan, seqNum, fallback, reorderBuf, recvSeqNum, cancelled,
                   stopped>>

CloseEnds ==
    /\ cancelled /\ fallback = {}
    /\ chanClosed' = TRUE
    /\ UNCHANGED <<messageChan, seqNum, fallback, reorderBuf, recvSeqNum, cancelled,
                   stopped>>

\* Seeded fault: what was put aside is forgotten.
popNothing == FALSE /\ UNCHANGED mcVars

popFromReorderBuf ==
    /\ recvSeqNum \in reorderBuf
    /\ reorderBuf' = reorderBuf \ {recvSeqNum}
    /\ recvSeqNum' = recvSeqNum + 1
    /\ UNCHANGED <<messageChan, seqNum, fallback, cancelled, chanClosed, stopped>>

\* ReceiveMessage and ReceiveMessageContext: the buffer first, then the channel.
ReceiveMessage ==
    /\ ~stopped /\ recvSeqNum \notin reorderBuf
    /\ messageChan # <<>> /\ messageChan' = Tail(messageChan)
    /\ IF Head(messageChan) = recvSeqNum
       THEN recvSeqNum' = recvSeqNum + 1 /\ UNCHANGED reorderBuf
       ELSE reorderBuf' = reorderBuf \cup {Head(messageChan)} /\ UNCHANGED recvSeqNum
    /\ UNCHANGED <<seqNum, fallback, cancelled, chanClosed, stopped>>

\* The reader is told: at once when it waits on ctx, or once the channel that
\* is ranged over has been closed and is empty.
ReceiveClosed ==
    /\ ~stopped /\ cancelled /\ recvSeqNum \notin reorderBuf
    /\ stopped' = TRUE
    /\ UNCHANGED <<messageChan, seqNum, fallback, reorderBuf, recvSeqNum, cancelled,
                   chanClosed>>

===============================================================================
