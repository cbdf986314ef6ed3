----------------------------- MODULE RingBuffer -----------------------------
(***************************************************************************)
(* ringBuffer (buffer.go): the circular buffer in which messageDecoder     *)
(* collects the headers of a message, chunk by chunk as the connection     *)
(* delivers them, and from which it slices them for Headers.Decode.        *)
(***************************************************************************)
EXTENDS Integers, Sequences

CONSTANTS Bytes,     \* the byte values
          Zero,      \* a byte that nobody wrote
          InitCaps,  \* capacities that newRingBuffer is called with
          MaxWrite,  \* the most bytes of one Write
          MaxRead,   \* the most bytes asked for by one Read or TrySlice
          MaxCap     \* bound on the growth of the buffer

ASSUME BufferAssumption ==
    /\ InitCaps \subseteq Nat /\ MaxWrite \in Nat /\ MaxRead \in Nat /\ MaxCap \in Nat
    /\ Zero \notin Bytes

VARIABLES start, size, buf,  \* the fields of ringBuffer
          out,               \* what the last operation returned
          panicked           \* an operation panicked

vars == <<start, size, buf, out, panicked>>

Capacity == Len(buf)
Least(a, b) == IF a < b THEN a ELSE b

\* newRingBuffer
Init == /\ start = 0 /\ size = 0
        /\ buf \in {[i \in 1 .. c |-> Zero] : c \in InitCaps}
        /\ out = <<>> /\ panicked = FALSE

\* io.CopyN writes no empty chunks.
Payloads == UNION {[1 .. n -> Bytes] : n \in 1 .. MaxWrite}

\* Go's b.buf[from:to]
Slice(from, to) == SubSeq(buf, from + 1, to)

\* read: the first n bytes, from one piece or from two.  Mutant: the second
\* piece is forgotten.
Contents_OnePiece(n) == SubSeq(Slice(start, Least(start + size, Capacity)), 1,
                               Least(n, Least(start + size, Capacity) - start))

Contents(n) ==
    LET pieces == IF start + size <= Capacity
                  THEN Slice(start, start + size)
                  ELSE Slice(start, Capacity)
                       \o Slice(0, (start + size) % Capacity)
    IN SubSeq(pieces, 1, Least(n, Len(pieces)))

\* start after n bytes were consumed.  Mutant: it does not wrap around.
Advanced_NoWrap(n) == start + n

Advanced(n) == (start + n) % Capacity

\* Consume: n bytes leave the buffer.
Consume(n) ==
    /\ start' = Advanced(n)
    /\ size' = size - n
    /\ UNCHANGED buf

\* Read; an empty buffer returns io.EOF and stays as it is.
Read(n) ==
    /\ ~panicked
    /\ IF size = 0
       THEN out' = <<>> /\ UNCHANGED <<start, size, buf>>
       ELSE out' = Contents(n) /\ Consume(Len(Contents(n)))
    /\ UNCHANGED panicked

\* trySlice never returns more than there is.
Sliced(n) == IF size = 0 THEN <<>> ELSE Contents(Least(n, size))

\* TrySlice: of a buffer without capacity it divides by zero.
TrySlice(n) ==
    /\ ~panicked
    /\ IF Capacity = 0
       THEN panicked' = TRUE /\ UNCHANGED <<start, size, buf, out>>
       ELSE /\ out' = Sliced(n)
            /\ Consume(Len(Sliced(n)))
            /\ UNCHANGED panicked

Reset ==
    /\ ~panicked
    /\ start' = 0 /\ size' = 0
    /\ out' = <<>>
    /\ UNCHANGED <<buf, panicked>>

\* p does not fit: a new buffer with what there is and p, exactly.
Grows(p) == size + Len(p) > Capacity

\* The two copies of write: up to the end of buf, then from its beginning.
Written(p) ==
    [i \in 1 .. Capacity |->
        LET end == start + size
            n == Least(Capacity - end, Len(p))
        IN CASE i > end /\ i <= end + n -> p[i - end]
             [] i <= Len(p) - n -> p[n + i]
             [] OTHER -> buf[i]]

Write(p) ==
    /\ ~panicked
    /\ ~Grows(p)
    /\ start + size <= Capacity
    /\ buf' = Written(p)
    /\ size' = size + Len(p)
    /\ out' = <<>>
    /\ UNCHANGED <<start, panicked>>

WriteGrow(p) ==
    /\ ~panicked
    /\ Grows(p)
    /\ size + Len(p) <= MaxCap
    /\ buf' = Sliced(size) \o p
    /\ start' = 0
    /\ size' = size + Len(p)
    /\ out' = <<>>
    /\ UNCHANGED panicked

\* The data already wraps around: b.buf[b.start+b.size:] is out of range.
WritePanic(p) ==
    /\ ~panicked
    /\ ~Grows(p)
    /\ start + size > Capacity
    /\ panicked' = TRUE
    /\ UNCHANGED <<start, size, buf, out>>

Next == \/ \E n \in 0 .. MaxRead : Read(n) \/ TrySlice(n)
        \/ \E p \in Payloads : Write(p) \/ WriteGrow(p) \/ WritePanic(p)
        \/ Reset

Spec == Init /\ [][Next]_vars

-----------------------------------------------------------------------------
\* The indices stay within the buffer: no slice expression of read, trySlice
\* and Consume is out of range.
TypeOK ==
    /\ start \in Nat /\ size \in 0 .. Capacity
    /\ start < Capacity \/ start = 0
    /\ buf \in Seq(Bytes \cup {Zero})
    /\ out \in Seq(Bytes)
    /\ panicked \in BOOLEAN

\* The content of the buffer, oldest byte first.
Queue == [i \in 1 .. size |-> buf[((start + i - 1) % Capacity) + 1]]

Q == INSTANCE ByteQueue WITH queue <- Queue

\* ringBuffer is a first-in first-out queue of bytes: across wrap-around,
\* growth, partial reads and slices nothing is lost, repeated or reordered.
ImplementsByteQueue == Q!Spec
=============================================================================
