----------------------------- MODULE ByteQueue -----------------------------
(***************************************************************************)
(* What ringBuffer (buffer.go) promises: an unbounded first-in first-out   *)
(* queue of bytes.                                                         *)
(***************************************************************************)
EXTENDS Integers, Sequences

CONSTANTS Bytes,    \* the byte values
          MaxWrite, \* the most bytes of one Write
          MaxRead   \* the most bytes asked for by one Read or TrySlice

VARIABLES queue,    \* the bytes that were written and not consumed
          out       \* what the last operation returned

Init == queue = <<>> /\ out = <<>>

Payloads == UNION {[1 .. n -> Bytes] : n \in 1 .. MaxWrite}

Put(p) == queue' = queue \o p /\ out' = <<>>

\* Up to n bytes leave the queue, in the order in which they came; an empty
\* queue returns none.
Take(n) ==
    LET k == IF n < Len(queue) THEN n ELSE Len(queue) IN
    /\ out' = SubSeq(queue, 1, k)
    /\ queue' = SubSeq(queue, k + 1, Len(queue))

Clear == queue' = <<>> /\ out' = <<>>

Next == \/ \E p \in Payloads : Put(p)
        \/ \E n \in 0 .. MaxRead : Take(n)
        \/ Clear

Spec == Init /\ [][Next]_<<queue, out>>
============================================================================
