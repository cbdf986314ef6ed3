-------------------------- MODULE RingBufferProofs --------------------------
(***************************************************************************)
(* Proofs about RingBuffer, for every initial capacity and every length of *)
(* the pieces that are written and read.                                   *)
(***************************************************************************)
EXTENDS RingBuffer, SequenceTheorems, TLAPS

-----------------------------------------------------------------------------
(* Where the bytes are.                                                     *)

\* The position in buf of the i-th byte of the queue.
Place(i) == IF start + i <= Capacity THEN start + i ELSE start + i - Capacity

\* One wrap-around at most.
LEMMA Modulo ==
    ASSUME NEW a \in Nat, NEW c \in Nat, a < c + c
    PROVE  a % c = IF a < c THEN a ELSE a - c
<1>1. CASE a < c
  BY <1>1
<1>2. CASE ~(a < c)
  BY <1>2
<1> QED
  BY <1>1, <1>2

\* In a buffer that starts at 0 nothing wraps around.
LEMMA UnwrappedIndex ==
    ASSUME NEW c \in Nat, NEW i \in 1 .. c, NEW s, s = 0
    PROVE  ((s + i - 1) % c) + 1 = i
<1>1. PICK a \in Nat : a = s + i - 1 /\ a < c /\ a < c + c /\ a + 1 = i
  OBVIOUS
<1>2. a % c = a
  BY <1>1, Modulo
<1> QED
  BY <1>1, <1>2

\* A function on 1 .. n is a sequence.
LEMMA FunctionSeq ==
    ASSUME NEW S, NEW n \in Nat, NEW f \in [1 .. n -> S]
    PROVE  f \in Seq(S) /\ Len(f) = n
OBVIOUS

\* The i-th byte of the queue lies inside the buffer, i places after start.
LEMMA PlaceOf ==
    ASSUME TypeOK, NEW i \in 1 .. size
    PROVE  /\ Place(i) \in 1 .. Capacity
           /\ Place(i) = ((start + i - 1) % Capacity) + 1
<1>1. /\ start \in Nat /\ size \in Nat /\ Capacity \in Nat /\ size <= Capacity
      /\ start < Capacity
  BY DEF TypeOK, Capacity
<1> DEFINE a == start + i - 1
<1>2. a \in Nat /\ a < Capacity + Capacity
  BY <1>1
<1> HIDE DEF a
<1>3. a % Capacity = IF a < Capacity THEN a ELSE a - Capacity
  BY <1>1, <1>2, Modulo
<1>4. Place(i) = (IF a < Capacity THEN a ELSE a - Capacity) + 1
  BY <1>1 DEF Place, a
<1>5. Place(i) \in 1 .. Capacity
  BY <1>1 DEF Place
<1> QED
  BY <1>3, <1>4, <1>5 DEF a

\* The queue has size elements, read off the buffer at their places.
LEMMA QueueType ==
    ASSUME TypeOK
    PROVE  /\ Queue \in Seq(Bytes \cup {Zero}) /\ Len(Queue) = size
           /\ \A i \in 1 .. size : Queue[i] = buf[Place(i)]
<1>1. size \in Nat
  BY DEF TypeOK, Capacity
<1>2. \A i \in 1 .. size : Queue[i] = buf[Place(i)] /\ Queue[i] \in Bytes \cup {Zero}
  <2> SUFFICES ASSUME NEW i \in 1 .. size
               PROVE  Queue[i] = buf[Place(i)] /\ Queue[i] \in Bytes \cup {Zero}
    OBVIOUS
  <2>1. Queue[i] = buf[((start + i - 1) % Capacity) + 1]
    BY DEF Queue
  <2>2. buf[Place(i)] \in Bytes \cup {Zero}
    BY PlaceOf DEF TypeOK, Capacity
  <2> QED
    BY <2>1, <2>2, PlaceOf
<1>3. Queue \in [1 .. size -> Bytes \cup {Zero}]
  BY <1>2 DEF Queue
<1> QED
  BY <1>1, <1>2, <1>3

-----------------------------------------------------------------------------
(* The operations.                                                          *)

\* What nobody wrote is never in the queue.
IInv == TypeOK /\ Queue \in Seq(Bytes)

\* The two pieces of read.
Pieces == IF start + size <= Capacity
          THEN Slice(start, start + size)
          ELSE Slice(start, Capacity) \o Slice(0, (start + size) % Capacity)

\* A Go slice buf[from:to]: its length and its elements.
LEMMA SliceOf ==
    ASSUME NEW B, buf \in Seq(B), NEW from \in Nat, NEW to \in Nat, from <= to, to <= Capacity
    PROVE  /\ Slice(from, to) \in Seq(B) /\ Len(Slice(from, to)) = to - from
           /\ \A i \in 1 .. to - from : Slice(from, to)[i] = buf[from + i]
BY DEF Slice, Capacity

\* Together they are the queue.
LEMMA PiecesAreQueue ==
    ASSUME TypeOK, size > 0
    PROVE  Pieces = Queue
<1> DEFINE B == Bytes \cup {Zero}
<1>0. Queue \in Seq(B) /\ Len(Queue) = size /\ \A i \in 1 .. size : Queue[i] = buf[Place(i)]
  BY QueueType
<1>1. /\ start \in Nat /\ size \in Nat /\ Capacity \in Nat /\ size <= Capacity
      /\ start < Capacity /\ buf \in Seq(B) /\ Len(buf) = Capacity
  BY DEF TypeOK, Capacity
<1> HIDE DEF B
<1>3. CASE start + size <= Capacity
  <2>1. PICK to \in Nat : to = start + size
    BY <1>1
  <2>2. Pieces = Slice(start, to)
    BY <1>3, <2>1 DEF Pieces
  <2>3. /\ Pieces \in Seq(B) /\ Len(Pieces) = to - start
        /\ \A i \in 1 .. to - start : Pieces[i] = buf[start + i]
    <3>1. buf \in Seq(B) /\ start \in Nat /\ start <= to /\ to <= Capacity
      BY <1>1, <1>3, <2>1
    <3> QED
      BY <2>2, <3>1, SliceOf
  <2>4. to - start = size /\ \A i \in 1 .. size : Place(i) = start + i
    BY <1>1, <1>3, <2>1 DEF Place
  <2> QED
    BY <1>0, <2>3, <2>4, SeqEqual
<1>4. CASE start + size > Capacity
  <2>1. PICK a \in Nat, n \in Nat, rest \in Nat :
           /\ a = start + size /\ n = Capacity - start /\ rest = a - Capacity
           /\ ~(a < Capacity) /\ a < Capacity + Capacity /\ n + rest = size
           /\ rest <= Capacity
    <3>1. start + size \in Nat /\ Capacity - start \in Nat /\ start + size - Capacity \in Nat
      BY <1>1, <1>4
    <3> QED
      BY <1>1, <1>4, <3>1
  <2>2. a % Capacity = rest
    BY <1>1, <2>1, Modulo
  <2>3. Pieces = Slice(start, Capacity) \o Slice(0, rest)
    BY <1>1, <1>4, <2>1, <2>2 DEF Pieces
  <2>4. PICK s \in Seq(B) : /\ s = Slice(start, Capacity) /\ Len(s) = n
                            /\ \A i \in 1 .. n : s[i] = buf[start + i]
    <3>1. /\ buf \in Seq(B) /\ start \in Nat /\ Capacity \in Nat
          /\ start <= Capacity /\ Capacity <= Capacity /\ Capacity - start = n
      BY <1>1, <2>1
    <3>2. /\ Slice(start, Capacity) \in Seq(B) /\ Len(Slice(start, Capacity)) = Capacity - start
          /\ \A i \in 1 .. Capacity - start : Slice(start, Capacity)[i] = buf[start + i]
      BY <3>1, SliceOf
    <3> QED
      BY <3>1, <3>2
  <2>5. PICK t \in Seq(B) : /\ t = Slice(0, rest) /\ Len(t) = rest
                            /\ \A i \in 1 .. rest : t[i] = buf[i]
    <3>1. /\ Slice(0, rest) \in Seq(B) /\ Len(Slice(0, rest)) = rest - 0
          /\ \A i \in 1 .. rest - 0 : Slice(0, rest)[i] = buf[0 + i]
      <4>1. buf \in Seq(B) /\ 0 \in Nat /\ 0 <= rest /\ rest <= Capacity
        BY <1>1, <2>1
      <4> QED
        BY <4>1, SliceOf
    <3> QED
      BY <3>1
  <2>6. /\ Pieces \in Seq(B) /\ Len(Pieces) = size
        /\ \A i \in 1 .. size : Pieces[i] = IF i <= n THEN s[i] ELSE t[i - n]
    BY <2>1, <2>3, <2>4, <2>5, ConcatProperties
  <2>7. ASSUME NEW i \in 1 .. size
        PROVE  Pieces[i] = buf[Place(i)]
    <3>1. CASE i <= n
      <4>1. i \in 1 .. n /\ Place(i) = start + i
        BY <1>1, <2>1, <3>1 DEF Place
      <4> QED
        BY <2>4, <2>6, <3>1, <4>1
    <3>2. CASE ~(i <= n)
      <4>1. i - n \in 1 .. rest /\ Place(i) = i - n
        BY <1>1, <2>1, <3>2 DEF Place
      <4> QED
        BY <2>5, <2>6, <3>2, <4>1
    <3> QED
      BY <3>1, <3>2
  <2> QED
    BY <1>0, <2>6, <2>7, SeqEqual
<1> QED
  BY <1>1, <1>3, <1>4

\* read returns the oldest bytes.
LEMMA ContentsOf ==
    ASSUME IInv, size > 0, NEW n \in Nat
    PROVE  LET k == Least(n, size) IN
           /\ k \in 0 .. size
           /\ Contents(n) = SubSeq(Queue, 1, k)
           /\ Contents(n) \in Seq(Bytes) /\ Len(Contents(n)) = k
<1>1. TypeOK /\ Queue \in Seq(Bytes) /\ Len(Queue) = size /\ size \in Nat
  BY QueueType DEF IInv, TypeOK, Capacity
<1>2. Contents(n) = SubSeq(Queue, 1, Least(n, size))
  BY <1>1, PiecesAreQueue DEF Contents, Pieces
<1>3. Least(n, size) \in 0 .. size
  BY <1>1 DEF Least
<1> QED
  BY <1>1, <1>2, <1>3

\* Consume drops the oldest bytes.
LEMMA ConsumeOf ==
    ASSUME IInv, Capacity > 0, NEW n \in 0 .. size, Consume(n)
    PROVE  /\ start' \in Nat /\ start' < Capacity' /\ size' \in 0 .. Capacity'
           /\ buf' \in Seq(Bytes \cup {Zero})
           /\ Queue' = SubSeq(Queue, n + 1, Len(Queue)) /\ Queue' \in Seq(Bytes)
<1>1. /\ TypeOK /\ start \in Nat /\ size \in Nat /\ Capacity \in Nat /\ size <= Capacity
      /\ start < Capacity /\ Queue \in Seq(Bytes) /\ Len(Queue) = size
  BY QueueType DEF IInv, TypeOK, Capacity
<1>2. /\ buf' = buf /\ Capacity' = Capacity /\ size' = size - n
      /\ start' = IF start + n < Capacity THEN start + n ELSE start + n - Capacity
  <2>1. PICK a \in Nat : a = start + n /\ a < Capacity + Capacity
    BY <1>1
  <2>2. start' = a % Capacity /\ buf' = buf /\ Capacity' = Capacity /\ size' = size - n
    BY <2>1 DEF Consume, Advanced, Capacity
  <2>3. a % Capacity = IF a < Capacity THEN a ELSE a - Capacity
    BY <1>1, <2>1, Modulo
  <2> QED
    BY <1>1, <2>1, <2>2, <2>3
<1>3. start' \in Nat /\ start' < Capacity /\ size' \in 0 .. Capacity
  BY <1>1, <1>2
<1>4. Queue' = [i \in 1 .. size' |-> buf[((start' + i - 1) % Capacity) + 1]]
  BY <1>2 DEF Queue
<1>5. ASSUME NEW i \in 1 .. size'
      PROVE  Queue'[i] = Queue[n + i]
  <2> DEFINE a == start' + i - 1
  <2>1. a \in Nat /\ a < Capacity + Capacity /\ n + i \in 1 .. size
    BY <1>1, <1>2, <1>3
  <2>2. (IF a < Capacity THEN a ELSE a - Capacity) + 1 = Place(n + i)
    BY <1>1, <1>2, <1>3, <2>1 DEF Place
  <2>3. Queue'[i] = buf[(a % Capacity) + 1]
    BY <1>4
  <2> HIDE DEF a
  <2>4. a % Capacity = IF a < Capacity THEN a ELSE a - Capacity
    BY <1>1, <2>1, Modulo
  <2> QED
    BY <1>1, <2>1, <2>2, <2>3, <2>4, QueueType
<1>6. /\ SubSeq(Queue, n + 1, size) \in Seq(Bytes) /\ Len(SubSeq(Queue, n + 1, size)) = size'
      /\ \A i \in 1 .. size' : SubSeq(Queue, n + 1, size)[i] = Queue[n + i]
  BY <1>1, <1>2
<1>7. Queue' \in Seq(Bytes) /\ Len(Queue') = size'
  <2>1. \A i \in 1 .. size' : Queue[n + i] \in Bytes
    BY <1>1, <1>2
  <2>2. Queue' \in [1 .. size' -> Bytes]
    BY <1>4, <1>5, <2>1
  <2> QED
    BY <1>3, <2>2
<1>8. Queue' = SubSeq(Queue, n + 1, size)
  BY <1>5, <1>6, <1>7, SeqEqual
<1> QED
  BY <1>1, <1>2, <1>3, <1>7, <1>8 DEF TypeOK

\* A step of the buffer is one of the queue, and what it returns are bytes.
Refines == /\ TypeOK' /\ Queue' \in Seq(Bytes)
           /\ Q!Next \/ UNCHANGED <<Queue, out>>

\* What is written is a nonempty sequence of bytes of bounded length.
LEMMA PayloadType ==
    ASSUME NEW p \in Payloads
    PROVE  p \in Seq(Bytes) /\ Len(p) \in 1 .. MaxWrite
<1>1. PICK n \in 1 .. MaxWrite : p \in [1 .. n -> Bytes]
  BY DEF Payloads
<1>2. n \in Nat
  BY <1>1, BufferAssumption
<1> QED
  BY <1>1, <1>2

\* Read and TrySlice take the oldest bytes.
LEMMA TakeStep ==
    ASSUME IInv, NEW n \in 0 .. MaxRead, Read(n) \/ TrySlice(n)
    PROVE  Refines
<1>0. /\ TypeOK /\ Queue \in Seq(Bytes) /\ Len(Queue) = size /\ size \in Nat /\ n \in Nat
      /\ Capacity \in Nat /\ size <= Capacity
  BY QueueType, BufferAssumption DEF IInv, TypeOK, Capacity
<1>1. CASE Capacity = 0 /\ TrySlice(n)
  <2>1. UNCHANGED <<start, size, buf, out>> /\ panicked' = TRUE
    BY <1>1 DEF TrySlice
  <2>2. TypeOK' /\ UNCHANGED <<Queue, out>>
    BY <1>0, <2>1 DEF TypeOK, Queue, Capacity
  <2> QED
    BY <1>0, <2>2 DEF Refines
<1>2. CASE size = 0 /\ Read(n)
  <2>1. UNCHANGED <<start, size, buf, panicked>> /\ out' = <<>>
    BY <1>2 DEF Read
  <2>2. TypeOK' /\ Queue' = Queue /\ Queue = <<>>
    BY <1>0, <1>2, <2>1 DEF TypeOK, Queue, Capacity
  <2>3. Q!Take(n)
    BY <1>0, <1>2, <2>1, <2>2 DEF Q!Take
  <2> QED
    BY <1>0, <2>2, <2>3 DEF Refines, Q!Next
<1>3. CASE ~(Capacity = 0 /\ TrySlice(n)) /\ ~(size = 0 /\ Read(n))
  <2>1. PICK k \in 0 .. size :
           /\ k = (IF n < size THEN n ELSE size) /\ Capacity > 0
           /\ out' = SubSeq(Queue, 1, k) /\ out' \in Seq(Bytes) /\ Consume(k)
    <3>1. CASE Read(n)
      <4>1. size > 0 /\ Capacity > 0
        BY <1>0, <1>3, <3>1
      <4>2. out' = Contents(n) /\ Consume(Len(Contents(n)))
        BY <1>3, <3>1 DEF Read
      <4> QED
        BY <1>0, <4>1, <4>2, ContentsOf DEF Least
    <3>2. CASE TrySlice(n) /\ size = 0
      <4>1. out' = <<>> /\ Consume(0) /\ Capacity > 0
        BY <1>0, <1>3, <3>2 DEF TrySlice, Sliced
      <4> QED
        BY <1>0, <3>2, <4>1
    <3>3. CASE TrySlice(n) /\ size > 0
      <4>1. PICK j \in Nat : j = Least(n, size) /\ Least(j, size) = IF n < size THEN n ELSE size
        BY <1>0 DEF Least
      <4>2. out' = Contents(j) /\ Consume(Len(Contents(j))) /\ Capacity > 0
        BY <1>0, <1>3, <3>3, <4>1 DEF TrySlice, Sliced
      <4> QED
        BY <1>0, <3>3, <4>1, <4>2, ContentsOf
    <3> QED
      BY <1>0, <3>1, <3>2, <3>3
  <2>2. /\ start' \in Nat /\ start' < Capacity' /\ size' \in 0 .. Capacity'
        /\ buf' \in Seq(Bytes \cup {Zero})
        /\ Queue' = SubSeq(Queue, k + 1, Len(Queue)) /\ Queue' \in Seq(Bytes)
    BY <2>1, ConsumeOf
  <2>3. panicked' = panicked
    BY <1>3 DEF Read, TrySlice
  <2>4. TypeOK'
    BY <1>0, <2>1, <2>2, <2>3 DEF TypeOK
  <2>5. Q!Take(n)
    BY <1>0, <2>1, <2>2 DEF Q!Take
  <2> QED
    BY <2>2, <2>4, <2>5 DEF Refines, Q!Next
<1> QED
  BY <1>1, <1>2, <1>3

\* Reset empties the queue.
LEMMA ResetStep ==
    ASSUME IInv, Reset
    PROVE  Refines
<1>1. TypeOK /\ Capacity' = Capacity /\ Capacity \in Nat
  BY DEF IInv, Reset, TypeOK, Capacity
<1>2. Queue' = <<>>
  BY DEF Reset, Queue
<1>3. TypeOK'
  BY <1>1 DEF Reset, TypeOK
<1> QED
  BY <1>2, <1>3 DEF Refines, Reset, Q!Next, Q!Clear

\* A sequence that is what the queue was, and then p.
LEMMA QueueAppended ==
    ASSUME IInv, NEW p \in Seq(Bytes), size' = size + Len(p),
           \A i \in 1 .. size : Queue'[i] = Queue[i],
           \A j \in 1 .. Len(p) : Queue'[size + j] = p[j]
    PROVE  Queue' = Queue \o p /\ Queue' \in Seq(Bytes)
<1>1. /\ Queue \in Seq(Bytes) /\ Len(Queue) = size /\ size \in Nat
      /\ Len(p) \in Nat /\ size' \in Nat
  BY QueueType DEF IInv, TypeOK, Capacity
<1>2. PICK s \in Seq(Bytes) :
         /\ s = Queue \o p /\ Len(s) = size'
         /\ \A i \in 1 .. size' : s[i] = IF i <= size THEN Queue[i] ELSE p[i - size]
  <2>1. /\ Queue \o p \in Seq(Bytes) /\ Len(Queue \o p) = Len(Queue) + Len(p)
        /\ \A i \in 1 .. Len(Queue) + Len(p) :
              (Queue \o p)[i] = IF i <= Len(Queue) THEN Queue[i] ELSE p[i - Len(Queue)]
    BY <1>1, ConcatProperties
  <2> QED
    BY <1>1, <2>1
<1>3. \A i \in 1 .. size' : Queue'[i] = s[i]
  <2> SUFFICES ASSUME NEW i \in 1 .. size'
               PROVE  Queue'[i] = s[i]
    OBVIOUS
  <2>1. CASE i <= size
    BY <1>1, <1>2, <2>1
  <2>2. CASE ~(i <= size)
    <3>1. i - size \in 1 .. Len(p) /\ size + (i - size) = i
      BY <1>1, <2>2
    <3>2. Queue'[size + (i - size)] = p[i - size]
      BY <3>1
    <3> QED
      BY <1>2, <2>2, <3>1, <3>2
  <2> QED
    BY <2>1, <2>2
<1>4. Queue' \in [1 .. size' -> Bytes]
  <2>1. \A i \in 1 .. size' : s[i] \in Bytes
    BY <1>2
  <2>2. Queue' = [i \in 1 .. size' |-> buf'[((start' + i - 1) % Capacity') + 1]]
    BY DEF Queue
  <2> QED
    BY <1>3, <2>1, <2>2
<1>5. Queue' \in Seq(Bytes) /\ Len(Queue') = size'
  <2>1. size' \in Nat
    BY <1>1
  <2> QED
    BY <1>4, <2>1, FunctionSeq
<1> QED
  BY <1>2, <1>3, <1>5, SeqEqual

\* write copies p behind the data, around the end of buf if it must.
LEMMA WriteStep ==
    ASSUME IInv, NEW p \in Payloads, Write(p)
    PROVE  Refines
<1>0. /\ TypeOK /\ Queue \in Seq(Bytes) /\ buf \in Seq(Bytes \cup {Zero})
      /\ start \in Nat /\ size \in Nat /\ Capacity \in Nat /\ size <= Capacity
      /\ p \in Seq(Bytes) /\ Len(p) \in Nat \ {0}
      /\ start + size <= Capacity /\ size + Len(p) <= Capacity /\ start < Capacity
      /\ \A i \in 1 .. Capacity : buf[i] \in Bytes \cup {Zero}
  <2>1. p \in Seq(Bytes) /\ Len(p) \in Nat \ {0}
    BY PayloadType, BufferAssumption
  <2>2. start \in Nat /\ size \in Nat /\ Capacity \in Nat /\ (start < Capacity \/ start = 0)
    BY DEF IInv, TypeOK, Capacity
  <2>3. start + size <= Capacity /\ size + Len(p) <= Capacity
    BY <2>1, <2>2 DEF Write, Grows
  <2>4. \A i \in 1 .. Capacity : buf[i] \in Bytes \cup {Zero}
    BY DEF IInv, TypeOK, Capacity
  <2> QED
    BY <2>1, <2>2, <2>3, <2>4 DEF IInv, TypeOK
<1>1. PICK end \in Nat : end = start + size
  BY <1>0
<1>2. PICK n \in Nat : n = Least(Capacity - end, Len(p))
  BY <1>0, <1>1 DEF Least
<1>3. /\ n <= Len(p) /\ n <= Capacity - end /\ Len(p) - n <= start
      /\ n < Len(p) => n = Capacity - end
  BY <1>0, <1>1, <1>2 DEF Least
<1>4. buf' = [i \in 1 .. Capacity |->
                CASE i > end /\ i <= end + n -> p[i - end]
                  [] i <= Len(p) - n -> p[n + i]
                  [] OTHER -> buf[i]]
  BY <1>1, <1>2 DEF Write, Written
<1>5. \A i \in 1 .. Capacity : i > start /\ i <= end => buf'[i] = buf[i]
  BY <1>0, <1>1, <1>2, <1>3, <1>4
<1>6. \A j \in 1 .. n : buf'[end + j] = p[j]
  <2> SUFFICES ASSUME NEW j \in 1 .. n
               PROVE  buf'[end + j] = p[j]
    OBVIOUS
  <2>1. /\ end + j \in 1 .. Capacity /\ end + j > end /\ end + j <= end + n
        /\ (end + j) - end = j
    BY <1>0, <1>1, <1>2, <1>3
  <2>2. ~(end + j <= Len(p) - n)
    BY <1>0, <1>1, <1>2, <1>3
  <2> QED
    BY <1>4, <2>1, <2>2
<1>7. \A i \in 1 .. Len(p) - n : buf'[i] = p[n + i]
  <2> SUFFICES ASSUME NEW i \in 1 .. Len(p) - n
               PROVE  buf'[i] = p[n + i]
    OBVIOUS
  <2>1. i \in 1 .. Capacity /\ ~(i > end) /\ i <= Len(p) - n
    BY <1>0, <1>1, <1>2, <1>3
  <2> QED
    BY <1>4, <2>1
<1>8. buf' \in Seq(Bytes \cup {Zero}) /\ Capacity' = Capacity
  <2>1. ASSUME NEW i \in 1 .. Capacity
        PROVE  buf'[i] \in Bytes \cup {Zero}
    <3>1. CASE i > end /\ i <= end + n
      <4>1. PICK j \in 1 .. n : i = end + j
        BY <1>0, <1>1, <1>2, <1>3, <3>1
      <4>2. j \in 1 .. Len(p)
        BY <1>0, <1>1, <1>2, <1>3
      <4> QED
        BY <1>0, <1>6, <4>1, <4>2, SMTT(30)
    <3>2. CASE i <= Len(p) - n
      <4>1. i \in 1 .. Len(p) - n /\ n + i \in 1 .. Len(p)
        BY <1>0, <1>1, <1>2, <1>3, <3>2
      <4> QED
        BY <1>0, <1>7, <4>1
    <3>3. CASE ~(i > end /\ i <= end + n) /\ ~(i <= Len(p) - n)
      BY <1>0, <1>4, <3>3
    <3> QED
      BY <3>1, <3>2, <3>3
  <2>2. buf' \in [1 .. Capacity -> Bytes \cup {Zero}]
    BY <1>4, <2>1
  <2> QED
    BY <1>0, <2>2 DEF Capacity
<1>9. size' = size + Len(p) /\ start' = start /\ out' = <<>> /\ panicked' = panicked
  BY DEF Write
<1>10. TypeOK'
  BY <1>0, <1>8, <1>9 DEF TypeOK
<1>11. \A i \in 1 .. size' :
         Queue'[i] = buf'[IF start + i <= Capacity THEN start + i ELSE start + i - Capacity]
  <2> SUFFICES ASSUME NEW i \in 1 .. size'
               PROVE  Queue'[i] = buf'[IF start + i <= Capacity THEN start + i
                                       ELSE start + i - Capacity]
    OBVIOUS
  <2>1. Queue'[i] = buf'[((start + i - 1) % Capacity) + 1]
    BY <1>8, <1>9 DEF Queue
  <2>2. PICK a \in Nat : a = start + i - 1 /\ a < Capacity + Capacity
    BY <1>0, <1>9
  <2>3. a % Capacity = IF a < Capacity THEN a ELSE a - Capacity
    BY <1>0, <2>2, Modulo
  <2>4. (IF a < Capacity THEN a ELSE a - Capacity) + 1
           = IF start + i <= Capacity THEN start + i ELSE start + i - Capacity
    BY <1>0, <2>2
  <2> QED
    BY <1>0, <2>1, <2>2, <2>3, <2>4
<1>12. ASSUME NEW i \in 1 .. size
       PROVE  Queue'[i] = Queue[i]
  <2>1. i \in 1 .. size' /\ start + i <= Capacity /\ start + i \in 1 .. Capacity
        /\ start + i > start /\ start + i <= end
    BY <1>0, <1>1, <1>2, <1>3, <1>9
  <2>2. Queue[i] = buf[start + i]
    BY <1>0, <2>1, QueueType DEF Place
  <2>3. Queue'[i] = buf'[start + i]
    BY <1>11, <2>1
  <2> QED
    BY <1>5, <2>1, <2>2, <2>3
<1>13. ASSUME NEW j \in 1 .. Len(p)
       PROVE  Queue'[size + j] = p[j]
  <2>1. PICK h \in 1 .. size' : h = size + j /\ start + h = end + j
    <3>1. size + j \in 1 .. size' /\ start + (size + j) = end + j
      BY <1>0, <1>1, <1>2, <1>3, <1>9
    <3> QED
      BY <3>1
  <2>2. Queue'[size + j] = buf'[IF end + j <= Capacity THEN end + j ELSE end + j - Capacity]
    <3>1. Queue'[h] = buf'[IF start + h <= Capacity THEN start + h ELSE start + h - Capacity]
      BY <1>11
    <3> QED
      BY <1>0, <1>1, <2>1, <3>1
  <2>3. CASE end + j <= Capacity
    <3>1. j \in 1 .. n
      BY <1>0, <1>1, <1>2, <1>3, <2>3
    <3> QED
      BY <1>6, <2>2, <2>3, <3>1
  <2>4. CASE ~(end + j <= Capacity)
    <3>1. PICK i \in 1 .. Len(p) - n : i = end + j - Capacity /\ n + i = j
      BY <1>0, <1>1, <1>2, <1>3, <2>4
    <3> QED
      BY <1>7, <2>2, <2>4, <3>1
  <2> QED
    BY <2>3, <2>4
<1>14. Queue' = Queue \o p /\ Queue' \in Seq(Bytes)
  BY <1>0, <1>9, <1>12, <1>13, QueueAppended
<1>15. Q!Put(p) /\ p \in Q!Payloads
  BY <1>9, <1>14 DEF Q!Put, Q!Payloads, Payloads
<1> QED
  BY <1>10, <1>14, <1>15 DEF Refines, Q!Next

\* A write that does not fit, or that meets data which wraps around.
LEMMA WriteGrowStep ==
    ASSUME IInv, NEW p \in Payloads, WriteGrow(p) \/ WritePanic(p)
    PROVE  Refines
<1>0. /\ TypeOK /\ Queue \in Seq(Bytes) /\ Len(Queue) = size /\ size \in Nat
      /\ p \in Seq(Bytes) /\ Len(p) \in Nat \ {0}
  BY QueueType, PayloadType, BufferAssumption DEF IInv, TypeOK, Capacity
<1>1. CASE WritePanic(p)
  <2>1. UNCHANGED <<start, size, buf, out>> /\ panicked' = TRUE
    BY <1>1 DEF WritePanic
  <2>2. TypeOK' /\ UNCHANGED <<Queue, out>>
    BY <1>0, <2>1 DEF TypeOK, Queue, Capacity
  <2> QED
    BY <1>0, <2>2 DEF Refines
<1>2. CASE WriteGrow(p)
  <2>1. Sliced(size) = Queue
    <3>1. CASE size = 0
      BY <1>0, <3>1 DEF Sliced, Queue
    <3>2. CASE size > 0
      <4>1. Sliced(size) = Contents(size) /\ Least(size, size) = size
        BY <1>0, <3>2 DEF Sliced, Least
      <4>2. Contents(size) = SubSeq(Queue, 1, size)
        BY <1>0, <3>2, <4>1, ContentsOf
      <4> QED
        BY <1>0, <4>1, <4>2, SubSeqFull
    <3> QED
      BY <1>0, <3>1, <3>2
  <2>2. /\ buf' = Queue \o p /\ start' = 0 /\ size' = size + Len(p) /\ out' = <<>>
        /\ panicked' = panicked
    BY <1>2, <2>1 DEF WriteGrow
  <2>3. /\ Queue \o p \in Seq(Bytes) /\ Len(Queue \o p) = size'
        /\ Queue \o p \in Seq(Bytes \cup {Zero}) /\ size' \in Nat \ {0}
    <3>1. Queue \o p \in Seq(Bytes) /\ Len(Queue \o p) = Len(Queue) + Len(p)
      BY <1>0, ConcatProperties
    <3>2. Queue \o p \in Seq(Bytes \cup {Zero})
      BY <3>1, SeqMonotonic
    <3> QED
      BY <1>0, <2>2, <3>1, <3>2
  <2>4. Capacity' = size'
    BY <2>2, <2>3 DEF Capacity
  <2>5. TypeOK'
    BY <1>0, <2>2, <2>3, <2>4 DEF TypeOK
  <2>6. ASSUME NEW i \in 1 .. size'
        PROVE  Queue'[i] = buf'[i]
    <3>0. Queue'[i] = buf'[((start' + i - 1) % Capacity') + 1]
      BY DEF Queue
    <3>1. PICK c \in Nat : c = Capacity' /\ i \in 1 .. c
      BY <2>3, <2>4
    <3>2. ((start' + i - 1) % c) + 1 = i
      BY <2>2, <3>1, UnwrappedIndex
    <3> QED
      BY <3>0, <3>1, <3>2
  <2>7. Queue' = Queue \o p
    <3>1. Queue' \in [1 .. size' -> Bytes]
      <4>1. \A i \in 1 .. size' : buf'[i] \in Bytes
        BY <2>2, <2>3
      <4> QED
        BY <2>6, <4>1 DEF Queue
    <3>2. Queue' \in Seq(Bytes) /\ Len(Queue') = size'
      BY <2>3, <3>1
    <3> QED
      BY <2>2, <2>3, <2>6, <3>2, SeqEqual
  <2>8. Q!Put(p) /\ p \in Q!Payloads
    BY <2>2, <2>7 DEF Q!Put, Q!Payloads, Payloads
  <2> QED
    BY <2>3, <2>5, <2>7, <2>8 DEF Refines, Q!Next
<1> QED
  BY <1>1, <1>2

-----------------------------------------------------------------------------
(* What follows.                                                            *)

\* A new buffer, of any initial capacity, is an empty queue.
LEMMA InitStep == Init => IInv /\ Q!Init
<1> SUFFICES ASSUME Init PROVE IInv /\ Q!Init
  OBVIOUS
<1>1. PICK c \in InitCaps : buf = [i \in 1 .. c |-> Zero]
  BY DEF Init
<1>2. c \in Nat
  BY BufferAssumption
<1>3. buf \in Seq(Bytes \cup {Zero}) /\ Capacity \in Nat
  <2>1. buf \in [1 .. c -> Bytes \cup {Zero}]
    BY <1>1
  <2> QED
    BY <1>2, <2>1 DEF Capacity
<1>4. TypeOK
  <2>1. start = 0 /\ size = 0 /\ out = <<>> /\ panicked = FALSE
    BY DEF Init
  <2>2. size \in 0 .. Capacity /\ start \in Nat /\ out \in Seq(Bytes)
    BY <1>3, <2>1
  <2> QED
    BY <1>3, <2>1, <2>2 DEF TypeOK
<1>5. Queue = <<>>
  BY DEF Init, Queue
<1> QED
  BY <1>4, <1>5 DEF IInv, Q!Init, Init

\* Every step keeps the invariant and is a step of ByteQueue or a stutter.
LEMMA NextStep ==
    ASSUME IInv, [Next]_vars
    PROVE  IInv' /\ [Q!Next]_<<Queue, out>>
<1>1. CASE UNCHANGED vars
  <2>1. TypeOK' /\ UNCHANGED <<Queue, out>>
    BY <1>1 DEF IInv, TypeOK, Queue, Capacity, vars
  <2> QED
    BY <2>1 DEF IInv
<1>2. CASE Next
  <2>1. Refines
    BY <1>2, TakeStep, ResetStep, WriteStep, WriteGrowStep DEF Next
  <2> QED
    BY <2>1 DEF Refines, IInv
<1> QED
  BY <1>1, <1>2

\* No index of ringBuffer leaves the buffer, and what Read and TrySlice return
\* are bytes that somebody wrote, never those that a new buffer starts with.
THEOREM BufferTypes == Spec => []TypeOK
<1>1. IInv => TypeOK
  BY DEF IInv
<1> QED
  BY <1>1, InitStep, NextStep, PTL DEF Spec

\* ringBuffer is a first-in first-out queue of bytes.
THEOREM BufferIsQueue == Spec => ImplementsByteQueue
<1>1. Q!Spec <=> Q!Init /\ [][Q!Next]_<<Queue, out>>
  BY DEF Q!Spec
<1> QED
  BY <1>1, InitStep, NextStep, PTL DEF Spec, ImplementsByteQueue
=============================================================================
