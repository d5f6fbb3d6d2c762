----------------------------- MODULE NonceTracker -----------------------------
(***************************************************************************)
(* The replay filter of a connection (src/objproto/objproto.go,            *)
(* receiveNonceTracker): the largest number accepted, and the ranges below *)
(* it that have not been used, in ascending order.  A tracker is a record, *)
(* and InsertNonce the tracker it becomes.  The times kept with the ranges *)
(* are never read.                                                         *)
(***************************************************************************)
EXTENDS Integers, Sequences, SequencesExt

FreshTracker == [largest |-> 0, unused |-> <<>>]

\* The range that holds a number, if there is one.
Holding(t, nonce) ==
    {i \in DOMAIN t.unused : nonce \in t.unused[i].start .. t.unused[i].end}

\* The dry run: whether the number may still be used.
Usable(t, nonce) == nonce > t.largest \/ Holding(t, nonce) # {}

\* A seeded fault: a split range loses its upper part.
TakeFromAll(unused, i, nonce) ==
    LET r == unused[i]
    IN IF r.start = nonce THEN RemoveAt(unused, i)
       ELSE [unused EXCEPT ![i] = [start |-> r.start, end |-> nonce - 1]]

\* The number leaves its range, which disappears, shrinks or is split.
TakeFrom(unused, i, nonce) ==
    LET r == unused[i]
        lower == [start |-> r.start, end |-> nonce - 1]
        upper == [start |-> nonce + 1, end |-> r.end]
    IN CASE r.start = nonce /\ r.end = nonce -> RemoveAt(unused, i)
         [] r.start = nonce /\ r.end # nonce -> [unused EXCEPT ![i] = upper]
         [] r.start # nonce /\ r.end = nonce -> [unused EXCEPT ![i] = lower]
         [] OTHER -> InsertAt([unused EXCEPT ![i] = lower], i + 1, upper)

\* Adjacent ranges are joined, from the left; joined[i] is the list after the first
\* i ranges were looked at.
Joined(unused) ==
    LET joined[i \in 0 .. Len(unused)] ==
            IF i = 0 THEN <<>>
            ELSE LET acc == joined[i - 1]
                     r == unused[i]
                 IN IF acc # <<>> /\ acc[Len(acc)].end + 1 = r.start
                    THEN [acc EXCEPT ![Len(acc)].end = r.end]
                    ELSE Append(acc, r)
    IN joined[Len(unused)]

\* A number above the largest leaves a gap behind; one below it is taken out
\* of the range that holds it.  Used only where Usable holds.
InsertNonce(t, nonce) ==
    IF nonce > t.largest
    THEN [largest |-> nonce,
          unused  |-> IF nonce > t.largest + 1
                      THEN Append(t.unused, [start |-> t.largest + 1,
                                             end   |-> nonce - 1])
                      ELSE t.unused]
    ELSE [t EXCEPT !.unused =
            Joined(TakeFrom(@, CHOOSE i \in Holding(t, nonce) : TRUE, nonce))]

===============================================================================
