------------------------ MODULE MessageStreamProofs ------------------------
(***************************************************************************)
(* The stream of MessageCodec: what the encoder writes is what the decoder *)
(* reads, unit by unit, however headers were buffered and bodies spliced,  *)
(* copied or passed on.  So the decoder keeps the message boundaries, the  *)
(* messages arrive in order and with their own bodies, and both ends count *)
(* the same, unless one of the two things of Misframed has happened: a     *)
(* body without a Reader was announced, or a load failed within a body.    *)
(*                                                                         *)
(* The invariant speaks of a tape, which is no variable of the model: all  *)
(* messages that the encoder was given, laid out one after the other.      *)
(***************************************************************************)
EXTENDS MessageCodecProofs

-----------------------------------------------------------------------------
(* The inductive invariant.                                                 *)

\* Sequence s stands on tape X from position a on.
Laid(X, s, a) == \A j \in 1 .. Len(s) : s[j] = X[a + j - 1]

\* Sequence s is of the body of m, from the byte after the first n.
Bytes(s, m, n) == \A j \in 1 .. Len(s) : s[j] = Unit(Root(m), "body", n + j)

\* The values of F are positions or places.
Numbers(F) == \A i \in Nat : F[i] \in Nat

\* The units of m's headers.
HeadLen(m) == Len(Header(m))

\* The tape has the messages that the encoder was given, one after the other: message
\* i from position A[i] on, its headers before its body, and the body from place P[i].
Tape(A, P, X) ==
    /\ \A i \in 1 .. Len(taken) :
          /\ A[i + 1] = A[i] + HeadLen(taken[i]) + Size[taken[i]]
          /\ Laid(X, Header(taken[i]), A[i])
          /\ \A k \in 1 .. Size[taken[i]] :
                X[A[i] + HeadLen(taken[i]) + k - 1] = Unit(Root(taken[i]), "body", P[i] + k)
    /\ \A i, j \in 1 .. Len(taken) + 1 : i < j => A[i] < A[j]

\* The places are those that a reader can have been at.
Placed(P) == \A i \in 1 .. Len(taken) : P[i] \in Places(taken[i])

\* How far the encoder has come on the tape, and the decoder.
EncAt(A) == IF enc.pc \in {"idle", "dead"} THEN A[Len(taken) + 1]
            ELSE A[Len(taken)] + HeadLen(Current) + enc.n
DecAt(A) == IF dec.pc = "head" /\ dec.todo # <<>> THEN A[Len(delivered) + 1] + 1
            ELSE IF dec.pc \in {"head", "grow", "load", "copy"}
                 THEN A[Len(delivered) + 1] + HeadLen(dec.m) + dec.n
                 ELSE A[Len(delivered) + 1]

\* There may be more to read.
Live == conn = "open" \/ (conn = "eof" /\ wire # <<>>)

\* Between the decoder and the encoder the tape is on the wire and in the buffer.
Travel(A, X) ==
    /\ Live => Laid(X, wire, DecAt(A)) /\ DecAt(A) + Len(wire) <= EncAt(A)
    /\ conn = "open" => /\ Laid(X, buf, DecAt(A) + Len(wire))
                        /\ DecAt(A) + Len(wire) + Len(buf) = EncAt(A)

\* The encoder: what it has of the current message.
EncShape ==
    /\ enc.pc # "idle" => buf = <<>>
    /\ enc.pc = "dead" => conn # "open"
    /\ enc.pc \notin {"idle", "dead"} => enc.n <= Size[Current]
    /\ enc.pc \in {"body", "grow", "load"} => enc.n = 0
    /\ enc.pc = "close" /\ enc.ok => enc.n = Size[Current]

\* The decoder: it reads the message after those that it delivered.
DecShape ==
    /\ dec.pc # "garbled"
    /\ dec.pc = "done" => conn = "reset"
    /\ Len(delivered) <= Len(taken)
    /\ \A i \in DOMAIN delivered : delivered[i].m = taken[i]
    /\ dec.pc \in {"head", "grow", "load", "copy"} =>
          /\ Len(delivered) < Len(taken) /\ dec.m = taken[Len(delivered) + 1]
          /\ dec.n <= Size[dec.m]
    /\ dec.pc \in {"head", "grow"} => dec.n = 0
    /\ dec.pc \in {"head", "grow", "load"} => dec.data = <<>>
    /\ dec.pc = "head" => dec.todo \in {Rest(dec.m), <<>>}

\* The bytes that the decoder has of the body that it reads.
DecBytes(P) ==
    /\ dec.pc \in {"grow", "load"} => /\ Len(pair[dec.pair].data) = dec.n
                                      /\ Bytes(pair[dec.pair].data, dec.m, P[Len(delivered) + 1])
    /\ dec.pc = "copy" => /\ Len(dec.data) = dec.n
                          /\ Bytes(dec.data, dec.m, P[Len(delivered) + 1])

\* The bytes of delivered body i: all, unless the connection ended or they are gone.
Whole(i, P) == LET d == delivered[i] IN
    /\ Len(BodyOf(d)) <= Size[d.m]
    /\ Bytes(BodyOf(d), d.m, P[i])
    /\ d.st = "open" /\ (conn = "open" \/ d.pair = NoPair) => Len(BodyOf(d)) = Size[d.m]

Bodies(P) == \A i \in DOMAIN delivered : Whole(i, P)

\* The bytes that the encoder is going to send.
EncBytes(P) ==
    /\ enc.pc = "write" \/ (enc.pc \in {"body", "copy"} /\ Kind[Current] = "pipe") =>
          Bytes(pair[enc.pair].data, Current, P[Len(taken)] + enc.n)
    /\ enc.pc \in {"body", "grow", "load"} /\ Kind[Current] # "pipe" => P[Len(taken)] = 0
    /\ enc.pc \in {"body", "grow"} => enc.pos = 0
    /\ enc.pc \in {"grow", "load"} => /\ Len(pair[enc.pair].data) = enc.pos
                                      /\ Bytes(pair[enc.pair].data, Current, 0)
    /\ enc.pc = "load" /\ Kind[Current] # "conn" => enc.pos = 0
    /\ enc.pc = "copy" /\ Kind[Current] # "pipe" => enc.pos = P[Len(taken)] + enc.n

\* Before the encoder has sent a byte of a body, nobody has one.
Unsent == enc.pc \in {"body", "grow", "load"} =>
    /\ \A i \in DOMAIN delivered : i = Len(taken) => BodyOf(delivered[i]) = <<>>
    /\ Len(delivered) + 1 = Len(taken) /\ dec.pc \in {"load", "copy"} => dec.n = 0

\* All of it, for a tape; without the bytes that are not sent yet, and with them.
Base(A, P, X) ==
    /\ EncShape /\ DecShape /\ Unsent
    /\ Numbers(A) /\ Numbers(P)
    /\ Tape(A, P, X) /\ Travel(A, X)
    /\ DecBytes(P) /\ Bodies(P)

Good(A, P, X) == Base(A, P, X) /\ EncBytes(P)

StreamInv == ~Misframed => \E A, P, X : Good(A, P, X) /\ Placed(P)

-----------------------------------------------------------------------------
(* Sequences on the tape.                                                   *)

\* What is read first, and what is left.
LEMMA LaidTail ==
    ASSUME NEW X, NEW s \in Seq(Units), s # <<>>, NEW a \in Int, Laid(X, s, a)
    PROVE  /\ Head(s) = X[a] /\ Laid(X, Tail(s), a + 1) /\ Len(Tail(s)) = Len(s) - 1
           /\ Tail(s) \in Seq(Units) /\ Len(s) >= 1
<1>1. Len(s) \in Nat /\ Len(s) >= 1 /\ Head(s) = s[1]
  OBVIOUS
<1>2. Tail(s) \in Seq(Units) /\ Len(Tail(s)) = Len(s) - 1
  BY <1>1
<1>3. \A j \in 1 .. Len(s) - 1 : Tail(s)[j] = s[j + 1]
  BY <1>1
<1>4. s[1] = X[a + 1 - 1] /\ a + 1 - 1 = a
  BY <1>1 DEF Laid
<1>5. ASSUME NEW j \in 1 .. Len(s) - 1 PROVE Tail(s)[j] = X[(a + 1) + j - 1]
  <2>1. s[j + 1] = X[a + (j + 1) - 1] /\ a + (j + 1) - 1 = (a + 1) + j - 1
    BY <1>1 DEF Laid
  <2> QED
    BY <1>3, <2>1
<1> QED
  BY <1>1, <1>2, <1>4, <1>5 DEF Laid

\* One more unit behind a sequence, or a sequence.
LEMMA LaidAppend ==
    ASSUME NEW X, NEW s \in Seq(Units), NEW a \in Int, Laid(X, s, a), NEW e \in Units,
           e = X[a + Len(s)]
    PROVE  Laid(X, Append(s, e), a) /\ Len(Append(s, e)) = Len(s) + 1
<1>1. Len(Append(s, e)) = Len(s) + 1 /\ Len(s) \in Nat
  OBVIOUS
<1>2. ASSUME NEW j \in 1 .. Len(s) + 1 PROVE Append(s, e)[j] = X[a + j - 1]
  <2>1. CASE j <= Len(s)
    BY <1>1, <2>1 DEF Laid
  <2>2. CASE j = Len(s) + 1
    <3>1. Append(s, e)[j] = e /\ a + j - 1 = a + Len(s)
      BY <1>1, <2>2
    <3> QED
      BY <3>1
  <2> QED
    BY <1>1, <2>1, <2>2
<1> QED
  BY <1>1, <1>2 DEF Laid

\* A sequence behind a sequence.
LEMMA LaidConcat ==
    ASSUME NEW X, NEW s \in Seq(Units), NEW t \in Seq(Units), NEW a \in Int,
           Laid(X, s, a), Laid(X, t, a + Len(s))
    PROVE  Laid(X, s \o t, a) /\ Len(s \o t) = Len(s) + Len(t)
<1>1. Len(s \o t) = Len(s) + Len(t) /\ Len(s) \in Nat /\ Len(t) \in Nat
  OBVIOUS
<1>2. ASSUME NEW j \in 1 .. Len(s) + Len(t) PROVE (s \o t)[j] = X[a + j - 1]
  <2>1. CASE j <= Len(s)
    BY <1>1, <2>1 DEF Laid
  <2>2. CASE j > Len(s)
    <3>1. (s \o t)[j] = t[j - Len(s)] /\ j - Len(s) \in 1 .. Len(t)
      BY <1>1, <2>2
    <3>2. t[j - Len(s)] = X[(a + Len(s)) + (j - Len(s)) - 1]
      BY <3>1 DEF Laid
    <3>3. (a + Len(s)) + (j - Len(s)) - 1 = a + j - 1
      BY <1>1
    <3> QED
      BY <3>1, <3>2, <3>3
  <2> QED
    BY <1>1, <2>1, <2>2
<1> QED
  BY <1>1, <1>2 DEF Laid

\* The beginning of a sequence.
LEMMA LaidPart ==
    ASSUME NEW X, NEW s \in Seq(Units), NEW a \in Int, Laid(X, s, a), NEW k \in 0 .. Len(s)
    PROVE  /\ Laid(X, SubSeq(s, 1, k), a) /\ Len(SubSeq(s, 1, k)) = k
           /\ SubSeq(s, 1, k) \in Seq(Units)
<1>1. k \in Nat /\ k <= Len(s) /\ Len(s) \in Nat
  OBVIOUS
<1>2. /\ SubSeq(s, 1, k) \in Seq(Units) /\ Len(SubSeq(s, 1, k)) = k
      /\ \A j \in 1 .. k : SubSeq(s, 1, k)[j] = s[j]
  BY <1>1, PartOf, 0 \in Nat
<1> QED
  BY <1>1, <1>2 DEF Laid

\* Two tapes that agree below a position.
LEMMA LaidAgree ==
    ASSUME NEW X, NEW Y, NEW s \in Seq(Units), NEW a \in Nat, NEW b \in Nat,
           Laid(X, s, a), a + Len(s) <= b, \A n \in Nat : n < b => Y[n] = X[n]
    PROVE  Laid(Y, s, a)
<1>1. ASSUME NEW j \in 1 .. Len(s) PROVE s[j] = Y[a + j - 1]
  <2>1. a + j - 1 \in Nat /\ a + j - 1 < b
    OBVIOUS
  <2> QED
    BY <2>1 DEF Laid
<1> QED
  BY <1>1 DEF Laid

\* Bytes of a body: one more, and one less.
LEMMA BytesAppend ==
    ASSUME NEW s \in Seq(Units), NEW m, NEW n \in Nat, Bytes(s, m, n), NEW e \in Units,
           e = Unit(Root(m), "body", n + Len(s) + 1)
    PROVE  Bytes(Append(s, e), m, n) /\ Len(Append(s, e)) = Len(s) + 1
<1>1. Len(Append(s, e)) = Len(s) + 1 /\ Len(s) \in Nat
  OBVIOUS
<1>2. ASSUME NEW j \in 1 .. Len(s) + 1
      PROVE  Append(s, e)[j] = Unit(Root(m), "body", n + j)
  <2>1. CASE j <= Len(s)
    BY <1>1, <2>1 DEF Bytes
  <2>2. CASE j = Len(s) + 1
    <3>1. Append(s, e)[j] = e /\ n + Len(s) + 1 = n + j
      BY <1>1, <2>2
    <3> QED
      BY <3>1
  <2> QED
    BY <1>1, <2>1, <2>2
<1> QED
  BY <1>1, <1>2 DEF Bytes

\* The first byte, and the others.
LEMMA BytesTail ==
    ASSUME NEW s \in Seq(Units), s # <<>>, NEW m, NEW n \in Nat, Bytes(s, m, n)
    PROVE  /\ Head(s) = Unit(Root(m), "body", n + 1) /\ Head(s) \in Units
           /\ Bytes(SubSeq(s, 1 + 1, Len(s)), m, n + 1)
<1>1. Len(s) \in Nat /\ 1 <= Len(s) /\ 1 \in Nat /\ Head(s) = s[1] /\ s[1] \in Units
  OBVIOUS
<1>3. /\ Len(SubSeq(s, 1 + 1, Len(s))) = Len(s) - 1
      /\ \A i \in 1 .. Len(s) - 1 : SubSeq(s, 1 + 1, Len(s))[i] = s[i + 1]
  BY <1>1, SuffixOf
<1>4. ASSUME NEW j \in 1 .. Len(s) - 1
      PROVE  SubSeq(s, 1 + 1, Len(s))[j] = Unit(Root(m), "body", (n + 1) + j)
  <2>1. j + 1 \in 1 .. Len(s) /\ n + (j + 1) = (n + 1) + j
    BY <1>1
  <2>2. s[j + 1] = Unit(Root(m), "body", n + (j + 1))
    BY <2>1 DEF Bytes
  <2> QED
    BY <1>3, <2>1, <2>2
<1> QED
  BY <1>1, <1>3, <1>4 DEF Bytes

-----------------------------------------------------------------------------
(* Messages.                                                                *)

\* One or two units of a header, joined to parts that are not there.
LEMMA Joined ==
    ASSUME NEW S, NEW a \in S, NEW b \in S
    PROVE  /\ LET s == (<<a>> \o <<b>>) \o <<>> IN Len(s) = 2 /\ s[1] = a /\ s[2] = b
           /\ LET s == (<<a>> \o <<>>) \o <<b>> IN Len(s) = 2 /\ s[1] = a /\ s[2] = b
           /\ LET s == (<<a>> \o <<>>) \o <<>> IN Len(s) = 1 /\ s[1] = a
           /\ <<>> \o <<a>> = <<a>> /\ <<a>> \o <<>> = <<a>>
<1>1. /\ <<a>> \in Seq(S) /\ <<b>> \in Seq(S) /\ <<>> \in Seq(S)
      /\ Len(<<a>>) = 1 /\ Len(<<b>>) = 1 /\ <<a>>[1] = a /\ <<b>>[1] = b
  OBVIOUS
<1>2. \A s \in Seq(S) : s \o <<>> = s /\ <<>> \o s = s
  OBVIOUS
<1>3. <<a>> \o <<b>> \in Seq(S) /\ Len(<<a>> \o <<b>>) = 2
      /\ (<<a>> \o <<b>>)[1] = a /\ (<<a>> \o <<b>>)[2] = b
  BY <1>1
<1> QED
  BY <1>1, <1>2, <1>3

\* The headers that are sent are those that are read: the start line and, of the
\* error and the headers, at most one.
LEMMA HeaderIs ==
    ASSUME NEW m \in Msgs
    PROVE  /\ Header(m)[1] = Unit(m, "start", 0)
           /\ Rest(m) = <<>> => HeadLen(m) = 1
           /\ Rest(m) # <<>> => /\ HeadLen(m) = 2
                                /\ Header(m)[2] = Unit(m, Head(Rest(m)), 0)
                                /\ Tail(Rest(m)) = <<>>
<1>1. ~(m \in HasErr /\ m \in HasHead)
  BY CodecAssumption
<1>2. /\ Unit(m, "start", 0) \in Units /\ Unit(m, "head", 0) \in Units
      /\ Unit(m, "err", 0) \in Units
  BY DEF Unit, Units
<1>3. <<>> \o <<"head">> = <<"head">> /\ <<"err">> \o <<>> = <<"err">> /\ <<>> \o <<>> = <<>>
  BY Joined, "head" \in {"head", "err"}, "err" \in {"head", "err"}
<1>4. /\ Len(<<"head">>) = 1 /\ Head(<<"head">>) = "head" /\ Tail(<<"head">>) = <<>>
      /\ Len(<<"err">>) = 1 /\ Head(<<"err">>) = "err" /\ Tail(<<"err">>) = <<>>
  OBVIOUS
<1>5. CASE m \in HasHead
  <2>1. Header(m) = (<<Unit(m, "start", 0)>> \o <<Unit(m, "head", 0)>>) \o <<>>
    BY <1>1, <1>5 DEF Header
  <2>2. Rest(m) = <<"head">>
    BY <1>1, <1>3, <1>5 DEF Rest
  <2>3. Len(Header(m)) = 2 /\ Header(m)[1] = Unit(m, "start", 0)
        /\ Header(m)[2] = Unit(m, "head", 0)
    BY <1>2, <2>1, Joined
  <2> QED
    BY <1>4, <2>2, <2>3 DEF HeadLen
<1>6. CASE m \in HasErr
  <2>1. Header(m) = (<<Unit(m, "start", 0)>> \o <<>>) \o <<Unit(m, "err", 0)>>
    BY <1>1, <1>6 DEF Header
  <2>2. Rest(m) = <<"err">>
    BY <1>1, <1>3, <1>6 DEF Rest
  <2>3. Len(Header(m)) = 2 /\ Header(m)[1] = Unit(m, "start", 0)
        /\ Header(m)[2] = Unit(m, "err", 0)
    BY <1>2, <2>1, Joined
  <2> QED
    BY <1>4, <2>2, <2>3 DEF HeadLen
<1>7. CASE m \notin HasHead /\ m \notin HasErr
  <2>1. Header(m) = (<<Unit(m, "start", 0)>> \o <<>>) \o <<>>
    BY <1>7 DEF Header
  <2>2. Rest(m) = <<>>
    BY <1>3, <1>7 DEF Rest
  <2>3. Len(Header(m)) = 1 /\ Header(m)[1] = Unit(m, "start", 0)
    BY <1>2, <2>1, Joined
  <2> QED
    BY <2>2, <2>3 DEF HeadLen
<1> QED
  BY <1>5, <1>6, <1>7

\* A message has a size and comes from a reader.
LEMMA MsgType ==
    ASSUME NEW m \in Msgs
    PROVE  /\ Size[m] \in Nat /\ Offset[m] \in Nat /\ SrcLen[m] \in Nat
           /\ HeadLen(m) \in Nat /\ HeadLen(m) >= 1 /\ Header(m) \in Seq(Units)
           /\ Root(m) \in Msgs /\ Places(m) \subseteq Nat /\ 0 \in Places(m)
           /\ \A k \in Nat : Unit(Root(m), "body", k) \in Units
<1>1. Size[m] \in Nat /\ Offset[m] \in Nat /\ SrcLen[m] \in Nat /\ Root(m) \in Msgs
  BY CodecAssumption DEF Root
<1>2. Places(m) \subseteq Nat /\ 0 \in Places(m)
  <2>1. Offset[Root(m)] \in Nat /\ 0 .. Size[m] \subseteq Nat
    BY <1>1, CodecAssumption
  <2> QED
    BY <2>1 DEF Places
<1>3. HeadLen(m) \in Nat /\ HeadLen(m) >= 1
  BY HeaderIs
<1>4. \A k \in Nat : Unit(Root(m), "body", k) \in Units
  BY <1>1 DEF Unit, Units
<1> QED
  BY <1>1, <1>2, <1>3, <1>4, HeaderType

\* The messages that were taken, and the one at work.
LEMMA TakenIs ==
    ASSUME Types
    PROVE  /\ Len(taken) \in Nat /\ Len(delivered) \in Nat
           /\ DOMAIN delivered = 1 .. Len(delivered)
           /\ \A i \in 1 .. Len(taken) : taken[i] \in Msgs
           /\ taken # <<>> => Len(taken) >= 1 /\ Current = taken[Len(taken)] /\ Current \in Msgs
<1>1. taken \in Seq(Msgs) /\ delivered \in Seq(Body)
  BY DEF Types
<1>2. taken # <<>> => Len(taken) >= 1 /\ Current = taken[Len(taken)]
  BY <1>1, FrontOf DEF Current
<1> QED
  BY <1>1, <1>2

\* The positions of the two ends.
LEMMA AtType ==
    ASSUME IInv, NEW A, Numbers(A), DecShape
    PROVE  /\ EncAt(A) \in Nat
           /\ DecAt(A) \in Nat
           /\ A[Len(delivered) + 1] \in Nat /\ A[Len(taken) + 1] \in Nat
<1> USE DEF IInv
<1>1. /\ Len(delivered) \in Nat /\ Len(taken) \in Nat
      /\ A[Len(delivered) + 1] \in Nat /\ A[Len(taken) + 1] \in Nat /\ A[Len(taken)] \in Nat
  BY TakenIs DEF Numbers
<1>2. EncAt(A) \in Nat
  <2>1. CASE enc.pc \in {"idle", "dead"}
    BY <1>1, <2>1 DEF EncAt
  <2>2. CASE enc.pc \notin {"idle", "dead"}
    <3>1. HeadLen(Current) \in Nat
      BY <2>2, TakenIs, MsgType DEF EncInv
    <3>2. enc.n \in Nat
      BY DEF Types, EncState
    <3> QED
      BY <1>1, <2>2, <3>1, <3>2 DEF EncAt
  <2> QED
    BY <2>1, <2>2
<1>3. DecAt(A) \in Nat
  <2>1. dec.n \in Nat
    BY DEF Types, DecState
  <2>2. CASE dec.pc = "head" /\ dec.todo # <<>>
    BY <1>1, <2>2 DEF DecAt
  <2>3. CASE dec.pc \in {"head", "grow", "load", "copy"} /\ ~(dec.pc = "head" /\ dec.todo # <<>>)
    <3>1. HeadLen(dec.m) \in Nat
      BY <2>3, MsgType DEF DecInv
    <3> QED
      BY <1>1, <2>1, <2>3, <3>1 DEF DecAt
  <2>4. CASE dec.pc \notin {"head", "grow", "load", "copy"}
    BY <1>1, <2>4 DEF DecAt
  <2> QED
    BY <2>2, <2>3, <2>4
<1> QED
  BY <1>1, <1>2, <1>3

-----------------------------------------------------------------------------
(* What a step leaves alone.                                                *)

\* A pair keeps its contents.
Same(p) == p # NoPair => pair'[p].data = pair[p].data

\* A pair that changes is in one hand only, so those of the others keep theirs.
LEMMA OthersSame ==
    ASSUME IInv, NEW p, OthersKept(p)
    PROVE  /\ enc.pair # p => Same(enc.pair)
           /\ dec.pair # p => Same(dec.pair)
           /\ ~Bodied(p) => \A i \in DOMAIN delivered : Same(delivered[i].pair)
           /\ \A i \in DOMAIN delivered : delivered[i].pair # p => Same(delivered[i].pair)
BY DEF IInv, EncInv, DecInv, BodyInv, OthersKept, Same, Bodied

\* No pair changes.
LEMMA AllSame ==
    ASSUME UNCHANGED pair
    PROVE  \A p : Same(p)
BY DEF Same

\* The hands of others.
LEMMA InOneHand ==
    ASSUME IInv
    PROVE  /\ enc.pair # NoPair => /\ enc.pair \in DOMAIN pair /\ ~Pooled(enc.pair)
                                   /\ dec.pair # enc.pair /\ ~Bodied(enc.pair)
           /\ dec.pair # NoPair => /\ dec.pair \in DOMAIN pair /\ ~Pooled(dec.pair)
                                   /\ enc.pair # dec.pair /\ ~Bodied(dec.pair)
           /\ \A i \in DOMAIN delivered : delivered[i].pair # NoPair =>
                 /\ delivered[i].pair \in DOMAIN pair /\ ~Pooled(delivered[i].pair)
                 /\ enc.pair # delivered[i].pair /\ dec.pair # delivered[i].pair
<1> USE DEF IInv, OwnInv, Lone
<1>1. enc.pair # NoPair => enc.pair \in DOMAIN pair
  BY DEF EncInv
<1>2. dec.pair # NoPair => dec.pair \in DOMAIN pair
  BY DEF DecInv
<1>3. \A i \in DOMAIN delivered : delivered[i].pair # NoPair =>
         delivered[i].pair \in DOMAIN pair /\ Bodied(delivered[i].pair)
  BY DEF BodyInv, Bodied
<1> QED
  BY <1>1, <1>2, <1>3

\* A decoder or a body that has the pair of a new get had none.
LEMMA GetSame ==
    ASSUME IInv, NEW p \in Pairs, get(p)
    PROVE  /\ Same(enc.pair) /\ Same(dec.pair)
           /\ \A i \in DOMAIN delivered : Same(delivered[i].pair)
           /\ pair'[p].data = <<>>
<1>1. OthersKept(p) /\ pair'[p].data = <<>> /\ (p \in DOMAIN pair => Pooled(p))
  BY GetPair DEF IInv
<1>2. /\ enc.pair # NoPair => enc.pair # p
      /\ dec.pair # NoPair => dec.pair # p
      /\ \A i \in DOMAIN delivered : delivered[i].pair # NoPair => delivered[i].pair # p
  BY <1>1, InOneHand
<1> QED
  BY <1>1, <1>2, OthersSame DEF Same

\* An encoder that does not move, and whose pair nobody else touches.
LEMMA EncFrame ==
    ASSUME NEW P, EncShape, EncBytes(P), UNCHANGED <<enc, taken, buf>>, Same(enc.pair),
           IInv, conn' = "open" => conn = "open"
    PROVE  EncShape' /\ EncBytes(P)'
<1>1. Current' = Current
  BY DEF Current
<1>2. EncShape'
  BY <1>1 DEF EncShape
<1>3. EncBytes(P)'
  <2>1. enc.pc = "write" \/ (enc.pc \in {"body", "copy"} /\ Kind[Current] = "pipe")
        \/ enc.pc \in {"grow", "load"} => enc.pair # NoPair
    BY DEF IInv, EncInv
  <2>2. enc.pair # NoPair => pair'[enc.pair].data = pair[enc.pair].data
    BY DEF Same
  <2> QED
    BY <1>1, <2>1, <2>2 DEF EncBytes, Bytes
<1> QED
  BY <1>2, <1>3

\* A decoder that does not move, while the encoder may take more messages.
LEMMA DecFrame ==
    ASSUME NEW P, NEW Q, DecShape, DecBytes(P), IInv, UNCHANGED dec, Same(dec.pair),
           conn = "reset" => conn' = "reset",
           Len(delivered') = Len(delivered), DOMAIN delivered' = DOMAIN delivered,
           \A i \in DOMAIN delivered : delivered'[i].m = delivered[i].m,
           Len(taken') \in Nat, Len(taken) <= Len(taken'),
           \A i \in 1 .. Len(taken) : taken'[i] = taken[i] /\ Q[i] = P[i]
    PROVE  DecShape' /\ DecBytes(Q)'
<1>1. /\ Len(taken) \in Nat /\ Len(delivered) \in Nat /\ DOMAIN delivered = 1 .. Len(delivered)
  BY TakenIs DEF IInv
<1>2. Len(delivered) <= Len(taken)
  BY DEF DecShape
<1>3. \A i \in DOMAIN delivered : i \in 1 .. Len(taken)
  BY <1>1, <1>2
<1>4. dec.pc \in {"head", "grow", "load", "copy"} =>
         Len(delivered) < Len(taken) /\ Len(delivered) + 1 \in 1 .. Len(taken)
  BY <1>1 DEF DecShape
<1>5. DecShape'
  <2>1. \A i \in DOMAIN delivered' : delivered'[i].m = taken'[i]
    BY <1>3 DEF DecShape
  <2>2. Len(delivered') <= Len(taken')
    BY <1>1, <1>2
  <2>3. dec'.pc \in {"head", "grow", "load", "copy"} =>
           /\ Len(delivered') < Len(taken') /\ dec'.m = taken'[Len(delivered') + 1]
           /\ dec'.n <= Size[dec'.m]
    BY <1>1, <1>4 DEF DecShape
  <2> QED
    BY <2>1, <2>2, <2>3 DEF DecShape
<1>6. DecBytes(Q)'
  <2>1. dec.pc \in {"grow", "load"} => pair'[dec.pair].data = pair[dec.pair].data
    BY DEF IInv, DecInv, Same
  <2>2. dec.pc \in {"grow", "load", "copy"} => Q[Len(delivered) + 1] = P[Len(delivered) + 1]
    BY <1>4
  <2> QED
    BY <2>1, <2>2 DEF DecBytes, Bytes
<1> QED
  BY <1>5, <1>6

\* A delivered body that nobody touches.
LEMMA BodyFrame ==
    ASSUME NEW P, NEW Q, NEW i \in DOMAIN delivered, Whole(i, P), Q[i] = P[i],
           delivered'[i] = delivered[i], Same(delivered[i].pair),
           conn' = "open" => conn = "open"
    PROVE  Whole(i, Q)' /\ BodyOf(delivered[i])' = BodyOf(delivered[i])
<1>1. BodyOf(delivered[i])' = BodyOf(delivered[i])
  BY DEF BodyOf, Same
<1> QED
  BY <1>1 DEF Whole, Bytes

\* No delivered body is touched.
LEMMA BodiesFrame ==
    ASSUME NEW P, NEW Q, Bodies(P), UNCHANGED delivered,
           \A i \in DOMAIN delivered : Same(delivered[i].pair) /\ Q[i] = P[i],
           conn' = "open" => conn = "open"
    PROVE  /\ Bodies(Q)'
           /\ \A i \in DOMAIN delivered : BodyOf(delivered[i])' = BodyOf(delivered[i])
<1>1. ASSUME NEW i \in DOMAIN delivered
      PROVE  Whole(i, Q)' /\ BodyOf(delivered[i])' = BodyOf(delivered[i])
  BY BodyFrame DEF Bodies
<1> QED
  BY <1>1 DEF Bodies

\* A tape stays one as long as no message is taken.
LEMMA TapeFrame ==
    ASSUME NEW A, NEW P, NEW X, Tape(A, P, X), UNCHANGED taken
    PROVE  Tape(A, P, X)'
BY DEF Tape

\* The two ends stay where they are, and what is between them.
LEMMA TravelFrame ==
    ASSUME NEW A, NEW X, Travel(A, X), UNCHANGED <<wire, conn, buf>>,
           DecAt(A)' = DecAt(A), EncAt(A)' = EncAt(A)
    PROVE  Travel(A, X)'
BY DEF Travel, Live

\* Where a goroutine stands depends on its own state.
LEMMA DecAtFrame ==
    ASSUME NEW A, UNCHANGED dec, Len(delivered') = Len(delivered)
    PROVE  DecAt(A)' = DecAt(A)
BY DEF DecAt

\* The same of the encoder.
LEMMA EncAtFrame ==
    ASSUME NEW A, UNCHANGED <<enc, taken>>
    PROVE  EncAt(A)' = EncAt(A)
BY DEF EncAt, Current

\* Nothing is sent, and nobody reads.
LEMMA UnsentFrame ==
    ASSUME Unsent, UNCHANGED <<taken, dec, delivered>>,
           enc'.pc \in {"body", "grow", "load"} => enc.pc \in {"body", "grow", "load"},
           \A i \in DOMAIN delivered : BodyOf(delivered[i])' = BodyOf(delivered[i])
    PROVE  Unsent'
BY DEF Unsent

\* The encoder works, with its own pair or with none: the decoder and the bodies are
\* left alone.
LEMMA EncoderFrame ==
    ASSUME NEW A, NEW P, NEW X, IInv, Base(A, P, X), UNCHANGED <<taken, dec, delivered>>,
           Same(dec.pair), \A i \in DOMAIN delivered : Same(delivered[i].pair),
           conn' = "open" => conn = "open", conn = "reset" => conn' = "reset"
    PROVE  /\ DecShape' /\ DecBytes(P)' /\ Bodies(P)' /\ Tape(A, P, X)'
           /\ DecAt(A)' = DecAt(A) /\ Current' = Current
           /\ Numbers(A)' /\ Numbers(P)'
           /\ (enc'.pc \in {"body", "grow", "load"} => enc.pc \in {"body", "grow", "load"})
                 => Unsent'
<1> USE DEF Base
<1>1. Len(taken) \in Nat /\ Len(taken) <= Len(taken')
  BY TakenIs DEF IInv
<1>2. DecShape' /\ DecBytes(P)'
  BY <1>1, DecFrame
<1>3. Bodies(P)' /\ \A i \in DOMAIN delivered : BodyOf(delivered[i])' = BodyOf(delivered[i])
  BY BodiesFrame
<1>4. Tape(A, P, X)' /\ DecAt(A)' = DecAt(A)
  BY TapeFrame, DecAtFrame
<1>5. Current' = Current
  BY DEF Current
<1>6. (enc'.pc \in {"body", "grow", "load"} => enc.pc \in {"body", "grow", "load"}) => Unsent'
  BY <1>3, UnsentFrame
<1> QED
  BY <1>2, <1>3, <1>4, <1>5, <1>6 DEF Numbers

\* The pair of the encoder is its own.
LEMMA EncoderOwns ==
    ASSUME IInv, enc.pair # NoPair, OthersKept(enc.pair)
    PROVE  Same(dec.pair) /\ \A i \in DOMAIN delivered : Same(delivered[i].pair)
BY InOneHand, OthersSame

\* So is that of the decoder.
LEMMA DecoderOwns ==
    ASSUME IInv, dec.pair # NoPair, OthersKept(dec.pair)
    PROVE  Same(enc.pair) /\ \A i \in DOMAIN delivered : Same(delivered[i].pair)
BY InOneHand, OthersSame

-----------------------------------------------------------------------------
(* The encoder's steps.                                                     *)

\* The encoder goes on with the body at the unit where it is, and writes nothing.
LEMMA EncoderPauses ==
    ASSUME NEW A, NEW P, NEW X, IInv, Base(A, P, X), EncoderOnly, UNCHANGED <<wire, conn>>,
           Same(dec.pair), \A i \in DOMAIN delivered : Same(delivered[i].pair),
           enc.pc \notin {"idle", "dead"}, enc'.pc \notin {"idle", "dead"}, enc'.n = enc.n,
           enc'.pc \in {"body", "grow", "load"} => enc.pc \in {"body", "grow", "load"},
           enc'.pc = "close" /\ enc'.ok => enc.n = Size[Current],
           EncBytes(P)'
    PROVE  Good(A, P, X)'
<1>1. UNCHANGED <<taken, dec, delivered, buf>>
  BY DEF EncoderOnly, decVars
<1>2. /\ DecShape' /\ DecBytes(P)' /\ Bodies(P)' /\ Tape(A, P, X)' /\ Unsent'
      /\ DecAt(A)' = DecAt(A) /\ Current' = Current /\ Numbers(A)' /\ Numbers(P)'
  BY <1>1, EncoderFrame
<1>3. EncAt(A)' = EncAt(A)
  BY <1>1, <1>2 DEF EncAt
<1>4. Travel(A, X)'
  BY <1>1, <1>2, <1>3, TravelFrame DEF Base
<1>5. EncShape'
  BY <1>1, <1>2 DEF EncShape, Base
<1> QED
  BY <1>2, <1>4, <1>5 DEF Base, Good

\* An empty pair has bytes of any body.
LEMMA NoBytes ==
    ASSUME NEW m, NEW n
    PROVE  Bytes(<<>>, m, n) /\ Len(<<>>) = 0
BY DEF Bytes

\* The encoder's record.
LEMMA EncIs ==
    ASSUME IInv
    PROVE  /\ enc \in EncState /\ enc.n \in Nat /\ enc.pos \in Nat
           /\ enc.pc \notin {"idle", "dead"} => taken # <<>> /\ Current \in Msgs
           /\ Len(taken) \in Nat /\ Len(delivered) \in Nat /\ Len(wire) \in Nat /\ Len(buf) \in Nat
BY TakenIs DEF IInv, Types, EncState, EncInv

\* The reader of the body is chosen.
LEMMA EncodeBodyGood ==
    ASSUME NEW A, NEW P, NEW X, IInv, Good(A, P, X), EncodeBody
    PROVE  Good(A, P, X)'
<1>1. /\ enc.pc = "body" /\ EncoderOnly /\ UNCHANGED <<wire, conn>>
      /\ enc.n = 0 /\ enc.pos = 0 /\ EncBytes(P) /\ enc \in EncState
      /\ (Kind[Current] # "pipe" => P[Len(taken)] = 0)
  BY EncIs DEF EncodeBody, Good, Base, EncShape, EncBytes
<1>2. Current' = Current /\ UNCHANGED taken
  BY <1>1 DEF EncoderOnly, Current
<1>3. CASE enc' = [enc EXCEPT !.pc = "copy"] /\ UNCHANGED pair
  <2>1. enc'.pc = "copy" /\ enc'.n = enc.n /\ enc'.pos = enc.pos /\ enc'.pair = enc.pair
    BY <1>1, <1>3 DEF EncState
  <2>2. EncBytes(P)'
    BY <1>1, <1>2, <1>3, <2>1 DEF EncBytes, Bytes
  <2> QED
    BY <1>1, <1>3, <2>1, <2>2, AllSame, EncoderPauses DEF Good
<1>4. CASE Kind[Current] = "pipe" /\ enc' = [enc EXCEPT !.pc = "write"] /\ UNCHANGED pair
  <2>1. enc'.pc = "write" /\ enc'.n = enc.n /\ enc'.pos = enc.pos /\ enc'.pair = enc.pair
    BY <1>1, <1>4 DEF EncState
  <2>2. EncBytes(P)'
    BY <1>1, <1>2, <1>4, <2>1 DEF EncBytes, Bytes
  <2> QED
    BY <1>1, <1>4, <2>1, <2>2, AllSame, EncoderPauses DEF Good
<1>5. ASSUME NEW p \in Pairs, get(p), enc' = [enc EXCEPT !.pc = "grow", !.pair = p],
             Kind[Current] \in {"file", "conn", "buffer"}
      PROVE  Good(A, P, X)'
  <2>1. enc'.pc = "grow" /\ enc'.n = enc.n /\ enc'.pos = enc.pos /\ enc'.pair = p
    BY <1>1, <1>5 DEF EncState
  <2>2. pair'[p].data = <<>> /\ Same(dec.pair)
        /\ \A i \in DOMAIN delivered : Same(delivered[i].pair)
    BY <1>5, GetSame
  <2>3. EncBytes(P)'
    BY <1>1, <1>2, <1>5, <2>1, <2>2, NoBytes DEF EncBytes, Bytes
  <2> QED
    BY <1>1, <2>1, <2>2, <2>3, EncoderPauses DEF Good
<1> QED
  BY <1>3, <1>4, <1>5 DEF EncodeBody, NoPairMade, getFails, poolVars

\* A failed Grow or load falls back to the copy.
LEMMA AbandonGood ==
    ASSUME NEW A, NEW P, NEW X, IInv, Good(A, P, X), Abandon, enc.pc \in {"grow", "load"},
           Kind[Current] # "conn" \/ enc.pc = "grow",
           EncoderOnly, UNCHANGED <<wire, conn>>, UNCHANGED poolVars
    PROVE  Good(A, P, X)'
<1>1. /\ enc.n = 0 /\ enc.pos = 0 /\ enc \in EncState /\ Kind[Current] # "pipe"
      /\ P[Len(taken)] = 0
  BY EncIs DEF Good, Base, EncShape, EncBytes, IInv, EncInv
<1>2. Current' = Current /\ UNCHANGED <<taken, pair>>
  BY DEF EncoderOnly, Current, poolVars
<1>3. enc'.pc = "copy" /\ enc'.n = enc.n /\ enc'.pos = enc.pos
  BY <1>1 DEF EncState, Abandon
<1>4. EncBytes(P)'
  BY <1>1, <1>2, <1>3 DEF EncBytes
<1> QED
  BY <1>2, <1>3, <1>4, AllSame, EncoderPauses DEF Good

\* Places that were possible still are, as long as no message is taken.
LEMMA PlacedKept ==
    ASSUME NEW P, Placed(P), UNCHANGED taken, shifted \subseteq shifted'
    PROVE  Placed(P)'
<1>1. ASSUME NEW m PROVE Places(m) \subseteq Places(m)'
  BY DEF Places, Root
<1> QED
  BY <1>1 DEF Placed

\* A pair that is replaced by another in the encoder's hands.
LEMMA EncoderChanges ==
    ASSUME IInv, enc.pair # NoPair, NEW x \in Pipe, pair' = [pair EXCEPT ![enc.pair] = x],
           UNCHANGED <<unused, usedCount>>
    PROVE  /\ pair'[enc.pair] = x /\ Same(dec.pair)
           /\ \A i \in DOMAIN delivered : Same(delivered[i].pair)
<1>1. enc.pair \in DOMAIN pair /\ ~Pooled(enc.pair)
  BY InOneHand
<1>2. OthersKept(enc.pair) /\ pair'[enc.pair] = x
  BY <1>1, ChangePair DEF IInv
<1> QED
  BY <1>2, EncoderOwns

\* Grow leaves what is in the pipe, which is nothing.
LEMMA EncodeGrowGood ==
    ASSUME NEW A, NEW P, NEW X, IInv, Good(A, P, X), EncodeGrow
    PROVE  Good(A, P, X)'
<1>1. /\ enc.pc = "grow" /\ EncoderOnly /\ UNCHANGED <<wire, conn>> /\ enc.pair # NoPair
      /\ Kind[Current] # "pipe" /\ enc \in EncState /\ Current \in Msgs
      /\ enc.pos = 0 /\ P[Len(taken)] = 0
  BY EncIs DEF EncodeGrow, Good, EncBytes, IInv, EncInv
<1>2. Current' = Current /\ UNCHANGED taken
  BY <1>1 DEF EncoderOnly, Current
<1>3. CASE Grow(enc.pair, alignSize(Size[Current]) * 2) /\ enc' = [enc EXCEPT !.pc = "load"]
  <2>1. enc'.pc = "load" /\ enc'.n = enc.n /\ enc'.pos = enc.pos /\ enc'.pair = enc.pair
    BY <1>1, <1>3 DEF EncState
  <2>2. alignSize(Size[Current]) * 2 \in Nat
    <3>1. Size[Current] \in Nat
      BY <1>1, MsgType
    <3>2. alignSize(Size[Current]) \in Nat
      BY <3>1, AlignType
    <3> QED
      BY <3>2
  <2>3. PICK x \in Pipe : x.data = pair[enc.pair].data /\ pair' = [pair EXCEPT ![enc.pair] = x]
                          /\ UNCHANGED <<unused, usedCount>>
    BY <1>1, <1>3, <2>2, GrowIs, InOneHand DEF IInv
  <2>4. /\ pair'[enc.pair].data = pair[enc.pair].data /\ Same(dec.pair)
        /\ \A i \in DOMAIN delivered : Same(delivered[i].pair)
    BY <1>1, <2>3, EncoderChanges
  <2>5. EncBytes(P)'
    BY <1>1, <1>2, <2>1, <2>4 DEF EncBytes, Bytes, Good
  <2> QED
    BY <1>1, <2>1, <2>4, <2>5, EncoderPauses DEF Good
<1>4. CASE Abandon /\ UNCHANGED poolVars
  BY <1>1, <1>4, AbandonGood
<1> QED
  BY <1>3, <1>4 DEF EncodeGrow

\* A byte of a body lies before the message that follows it.
LEMMA Below ==
    ASSUME NEW a \in Nat, NEW h \in Nat, NEW s \in Nat, NEW k \in 1 .. s, NEW next \in Nat,
           a + h + s <= next
    PROVE  a + h + k - 1 \in Nat /\ a + h + k - 1 < next
OBVIOUS

\* Before a byte of the body was sent, the tape may have it from another place.
LEMMA NewPlace ==
    ASSUME NEW A, NEW P, NEW X, IInv, Base(A, P, X), enc.pc \in {"body", "grow", "load"},
           NEW place \in Nat
    PROVE  \E Q, Y : /\ Base(A, Q, Y) /\ Q[Len(taken)] = place
                     /\ \A i \in Nat : i # Len(taken) => Q[i] = P[i]
<1> DEFINE last == Len(taken)
           b == A[last] + HeadLen(Current)
           Q == [i \in Nat |-> IF i = last THEN place ELSE P[i]]
           Y == [n \in Nat |-> IF n < b THEN X[n]
                               ELSE Unit(Root(Current), "body", place + (n - b + 1))]
<1>1. /\ taken # <<>> /\ Current \in Msgs /\ Current = taken[last] /\ last \in Nat /\ last >= 1
      /\ Len(delivered) \in Nat /\ DOMAIN delivered = 1 .. Len(delivered)
      /\ \A i \in 1 .. last : taken[i] \in Msgs
  BY EncIs, TakenIs DEF IInv
<1>2. /\ HeadLen(Current) \in Nat /\ HeadLen(Current) >= 1 /\ Size[Current] \in Nat /\ place \in Nat
      /\ A[last] \in Nat /\ b \in Nat /\ A[last] < b
  <2>1. HeadLen(Current) \in Nat /\ HeadLen(Current) >= 1 /\ Size[Current] \in Nat /\ place \in Nat
    BY <1>1, MsgType
  <2>2. A[last] \in Nat
    BY <1>1 DEF Base, Numbers
  <2> QED
    BY <2>1, <2>2
<1>3. Q[last] = place /\ \A i \in Nat : i # last => Q[i] = P[i]
  BY <1>1
<1>4. \A n \in Nat : n < b => Y[n] = X[n]
  OBVIOUS
<1>5. \A n \in Nat : n >= b => Y[n] = Unit(Root(Current), "body", place + (n - b + 1))
  BY <1>2
<1> HIDE DEF Q, Y
<1>6. Numbers(Q)
  BY <1>1, <1>2, <1>3 DEF Numbers, Base
<1>7. Tape(A, Q, Y)
  <2>1. Tape(A, P, X) /\ Numbers(A)
    BY DEF Base
  <2>2. ASSUME NEW i \in 1 .. last, i # last
        PROVE  /\ Q[i] = P[i] /\ A[i] \in Nat
               /\ A[i] + HeadLen(taken[i]) + Size[taken[i]] <= A[last]
               /\ HeadLen(taken[i]) \in Nat /\ Size[taken[i]] \in Nat
               /\ Header(taken[i]) \in Seq(Units)
    <3>1. A[i] \in Nat /\ A[i + 1] \in Nat /\ i \in Nat /\ i + 1 \in 1 .. last
      BY <1>1, <2>1, <2>2 DEF Numbers
    <3>2. A[i + 1] <= A[last]
      <4>1. i + 1 = last \/ i + 1 < last
        BY <1>1, <3>1
      <4>2. i + 1 < last => A[i + 1] < A[last]
        BY <1>1, <2>1, <3>1 DEF Tape
      <4> QED
        BY <1>2, <3>1, <4>1, <4>2
    <3>3. A[i + 1] = A[i] + HeadLen(taken[i]) + Size[taken[i]]
      BY <2>1 DEF Tape
    <3> QED
      BY <1>1, <1>3, <2>2, <3>1, <3>2, <3>3, MsgType
  <2>3. ASSUME NEW i \in 1 .. last
        PROVE  /\ A[i + 1] = A[i] + HeadLen(taken[i]) + Size[taken[i]]
               /\ Laid(Y, Header(taken[i]), A[i])
               /\ \A k \in 1 .. Size[taken[i]] :
                     Y[A[i] + HeadLen(taken[i]) + k - 1] = Unit(Root(taken[i]), "body", Q[i] + k)
    <3>1. /\ A[i + 1] = A[i] + HeadLen(taken[i]) + Size[taken[i]]
          /\ Laid(X, Header(taken[i]), A[i])
          /\ \A k \in 1 .. Size[taken[i]] :
                X[A[i] + HeadLen(taken[i]) + k - 1] = Unit(Root(taken[i]), "body", P[i] + k)
      BY <2>1 DEF Tape
    <3>2. CASE i = last
      <4>1. Header(Current) \in Seq(Units) /\ Len(Header(Current)) = HeadLen(Current)
        BY <1>1, MsgType DEF HeadLen
      <4>2. Laid(Y, Header(Current), A[last])
        <5>1. Laid(X, Header(Current), A[last]) /\ A[last] + Len(Header(Current)) <= b
          BY <1>1, <1>2, <3>1, <3>2, <4>1
        <5> QED
          BY <1>2, <1>4, <4>1, <5>1, LaidAgree
      <4>3. ASSUME NEW k \in 1 .. Size[Current]
            PROVE  Y[b + k - 1] = Unit(Root(Current), "body", Q[last] + k)
        <5>1. b + k - 1 \in Nat /\ b + k - 1 >= b /\ (b + k - 1) - b + 1 = k
          <6>1. k \in Nat /\ k >= 1
            BY <1>2
          <6>2. \A c \in Nat : c + k - 1 \in Nat /\ c + k - 1 >= c /\ (c + k - 1) - c + 1 = k
            BY <6>1
          <6> QED
            BY <1>2, <6>2
        <5> QED
          BY <1>3, <1>5, <5>1
      <4> QED
        BY <1>1, <1>3, <3>1, <3>2, <4>2, <4>3
    <3>3. CASE i # last
      <4>1. /\ Q[i] = P[i] /\ A[i] \in Nat
            /\ A[i] + HeadLen(taken[i]) + Size[taken[i]] <= A[last]
            /\ HeadLen(taken[i]) \in Nat /\ Size[taken[i]] \in Nat
            /\ Header(taken[i]) \in Seq(Units)
        BY <2>2, <3>3
      <4>2. Laid(Y, Header(taken[i]), A[i])
        <5>1. A[i] + Len(Header(taken[i])) <= b
          BY <1>2, <4>1 DEF HeadLen
        <5> QED
          BY <1>2, <1>4, <3>1, <4>1, <5>1, LaidAgree
      <4>3. ASSUME NEW k \in 1 .. Size[taken[i]]
            PROVE  Y[A[i] + HeadLen(taken[i]) + k - 1] = Unit(Root(taken[i]), "body", Q[i] + k)
        <5>1. A[i] + HeadLen(taken[i]) + k - 1 \in Nat /\ A[i] + HeadLen(taken[i]) + k - 1 < b
          <6>1. /\ A[i] + HeadLen(taken[i]) + k - 1 \in Nat
                /\ A[i] + HeadLen(taken[i]) + k - 1 < A[last]
            BY <1>2, <4>1, Below
          <6> QED
            BY <1>2, <6>1
        <5>2. Y[A[i] + HeadLen(taken[i]) + k - 1] = X[A[i] + HeadLen(taken[i]) + k - 1]
          BY <1>4, <5>1
        <5> QED
          BY <3>1, <4>1, <5>2
      <4> QED
        BY <3>1, <4>1, <4>2, <4>3
    <3> QED
      BY <3>2, <3>3
  <2>4. \A i, j \in 1 .. last + 1 : i < j => A[i] < A[j]
    BY <2>1 DEF Tape
  <2> QED
    BY <2>3, <2>4 DEF Tape
<1>8. Travel(A, Y)
  <2>1. EncAt(A) = b /\ buf = <<>>
    <3>1. enc.n = 0 /\ buf = <<>>
      BY DEF Base, EncShape
    <3>2. EncAt(A) = b + 0
      BY <3>1 DEF EncAt
    <3> QED
      BY <1>2, <3>1, <3>2
  <2>2. DecAt(A) \in Nat /\ wire \in Seq(Units) /\ Len(wire) \in Nat
    BY AtType DEF Base, IInv, Types
  <2>3. Live => Laid(Y, wire, DecAt(A)) /\ DecAt(A) + Len(wire) <= EncAt(A)
    BY <1>2, <1>4, <2>1, <2>2, LaidAgree DEF Travel, Base
  <2>4. Laid(Y, buf, DecAt(A) + Len(wire))
    BY <2>1 DEF Laid
  <2> QED
    BY <2>3, <2>4 DEF Travel, Base
<1>9. DecBytes(Q)
  <2>1. DecBytes(P) /\ DecShape /\ Unsent
    BY DEF Base
  <2>2. CASE Len(delivered) + 1 # last
    BY <1>1, <1>3, <2>1, <2>2 DEF DecBytes
  <2>3. CASE Len(delivered) + 1 = last
    <3>1. dec.pc \in {"grow", "load", "copy"} => dec.n = 0
      BY <2>1, <2>3 DEF Unsent, DecShape
    <3> QED
      BY <2>1, <3>1 DEF DecBytes, Bytes
  <2> QED
    BY <2>2, <2>3
<1>10. Bodies(Q)
  <2>1. ASSUME NEW i \in DOMAIN delivered PROVE Whole(i, Q)
    <3>1. Whole(i, P) /\ i \in Nat
      BY <1>1 DEF Base, Bodies
    <3>2. CASE i # last
      BY <1>3, <3>1, <3>2 DEF Whole
    <3>3. CASE i = last
      <4>1. BodyOf(delivered[i]) = <<>>
        BY <3>3 DEF Base, Unsent
      <4>2. Bytes(BodyOf(delivered[i]), delivered[i].m, Q[i])
        BY <4>1, NoBytes
      <4> QED
        BY <3>1, <4>2 DEF Whole
    <3> QED
      BY <3>2, <3>3
  <2> QED
    BY <2>1 DEF Bodies
<1> QED
  BY <1>3, <1>6, <1>7, <1>8, <1>9, <1>10 DEF Base

\* The place of the current message is another.
LEMMA MovedIsPlaced ==
    ASSUME NEW P, NEW Q, IInv, Placed(P), taken # <<>>, Q[Len(taken)] \in Places(Current),
           \A i \in Nat : i # Len(taken) => Q[i] = P[i]
    PROVE  Placed(Q)
<1>1. Current = taken[Len(taken)] /\ Len(taken) \in Nat
  BY TakenIs DEF IInv
<1> QED
  BY <1>1 DEF Placed

\* PipeFile loads the bytes from Offset on, PipeBuffer those of the whole buffer.
LEMMA LoadedBytes ==
    ASSUME NEW m \in Msgs, Kind[m] # "pipe"
    PROVE  /\ Root(m) = m /\ Bytes(Source(m), m, 0)
           /\ Bytes(SubSeq(Source(m), Offset[m] + 1, Min({Offset[m] + Size[m], SrcLen[m]})),
                    m, Offset[m])
<1>1. /\ Size[m] \in Nat /\ Offset[m] \in Nat /\ SrcLen[m] \in Nat /\ Root(m) = m
      /\ Source(m) \in Seq(Units) /\ Len(Source(m)) = SrcLen[m]
      /\ \A i \in 1 .. SrcLen[m] : Source(m)[i] = Unit(m, "body", i)
  BY MsgType, SourceType DEF Root
<1>2. Bytes(Source(m), m, 0)
  BY <1>1 DEF Bytes
<1>3. PICK to : to = Min({Offset[m] + Size[m], SrcLen[m]})
  OBVIOUS
<1>4. to \in Nat /\ to <= SrcLen[m]
  <2>1. \E x \in {Offset[m] + Size[m], SrcLen[m]} :
           \A y \in {Offset[m] + Size[m], SrcLen[m]} : x <= y
    BY <1>1
  <2>2. /\ to \in {Offset[m] + Size[m], SrcLen[m]}
        /\ \A y \in {Offset[m] + Size[m], SrcLen[m]} : to <= y
    BY <1>3, <2>1 DEF Min
  <2> QED
    BY <1>1, <2>2
<1>5. PICK part : part = SubSeq(Source(m), Offset[m] + 1, to)
  OBVIOUS
<1>6. /\ Len(part) = IF to > Offset[m] THEN to - Offset[m] ELSE 0
      /\ \A i \in 1 .. to - Offset[m] : part[i] = Source(m)[Offset[m] + i]
  <2>1. PICK s \in Seq(Units), o \in Nat : s = Source(m) /\ o = Offset[m] /\ to <= Len(s)
    BY <1>1, <1>4
  <2>2. LET r == SubSeq(s, o + 1, to) IN
        /\ Len(r) = IF to > o THEN to - o ELSE 0
        /\ \A i \in 1 .. to - o : r[i] = s[o + i]
    BY <1>4, <2>1, PartOf, SMTT(30)
  <2> QED
    BY <1>5, <2>1, <2>2
<1>7. ASSUME NEW j \in 1 .. Len(part) PROVE part[j] = Unit(m, "body", Offset[m] + j)
  <2>1. j \in 1 .. to - Offset[m] /\ Offset[m] + j \in 1 .. SrcLen[m]
    BY <1>1, <1>4, <1>6
  <2> QED
    BY <1>1, <1>6, <2>1
<1> QED
  BY <1>1, <1>2, <1>3, <1>5, <1>7 DEF Bytes

\* Bytes that enter the encoder's empty pair are all that it has.
LEMMA EncoderLoads ==
    ASSUME IInv, enc.pair # NoPair, NEW bytes \in Seq(Units), Load(enc.pair, bytes)
    PROVE  /\ pair'[enc.pair].data = pair[enc.pair].data \o bytes
           /\ pair[enc.pair].data = <<>> => pair'[enc.pair].data = bytes
           /\ pair[enc.pair].data \in Seq(Units)
           /\ Same(dec.pair) /\ \A i \in DOMAIN delivered : Same(delivered[i].pair)
<1>1. enc.pair \in DOMAIN pair /\ PoolInv
  BY InOneHand DEF IInv
<1>2. PICK x \in Pipe : /\ x.data = pair[enc.pair].data \o bytes
                        /\ pair' = [pair EXCEPT ![enc.pair] = x]
                        /\ UNCHANGED <<unused, usedCount>>
  BY <1>1, LoadIs, ZenonT(60)
<1>3. pair[enc.pair].data \in Seq(Units)
  BY <1>1, PairWith DEF PoolInv
<1>4. <<>> \o bytes = bytes
  OBVIOUS
<1>5. /\ pair'[enc.pair].data = pair[enc.pair].data \o bytes
      /\ Same(dec.pair) /\ \A i \in DOMAIN delivered : Same(delivered[i].pair)
  BY <1>2, EncoderChanges
<1> QED
  BY <1>3, <1>4, <1>5

\* A file is sent from Offset if its pipe was loaded, a buffer from its beginning.
LEMMA EncodeLoadGood ==
    ASSUME NEW A, NEW P, NEW X, IInv, Good(A, P, X), Placed(P), EncodeLoad
    PROVE  \E Q, Y : Good(A, Q, Y)' /\ Placed(Q)'
<1>1. /\ enc.pc = "load" /\ EncoderOnly /\ UNCHANGED <<wire, conn>> /\ enc.pair # NoPair
      /\ Kind[Current] \in {"file", "buffer"} /\ enc \in EncState /\ Current \in Msgs
      /\ enc.pos = 0 /\ enc.n = 0 /\ P[Len(taken)] = 0 /\ Len(pair[enc.pair].data) = 0
      /\ Len(taken) \in Nat /\ UNCHANGED shifted
  BY EncIs DEF EncodeLoad, Good, Base, EncShape, EncBytes, IInv, EncInv, history
<1>2. Current' = Current /\ UNCHANGED taken
  BY <1>1 DEF EncoderOnly, Current
<1>3. PICK all \in Seq(Units) :
         all = IF Kind[Current] = "buffer" THEN Source(Current)
               ELSE SubSeq(Source(Current), Offset[Current] + 1,
                           Min({Offset[Current] + Size[Current], SrcLen[Current]}))
  BY <1>1, FilePart, SourceType
<1>4. CASE Load(enc.pair, all) /\ enc' = [enc EXCEPT !.pc = "write"]
  <2>1. enc'.pc = "write" /\ enc'.n = enc.n /\ enc'.pair = enc.pair
    BY <1>1, <1>4 DEF EncState
  <2>2. /\ pair'[enc.pair].data = all
        /\ Same(dec.pair) /\ \A i \in DOMAIN delivered : Same(delivered[i].pair)
    BY <1>1, <1>4, EncoderLoads
  <2>3. PICK place \in Places(Current) : Bytes(all, Current, place + 0) /\ place \in Nat
    <3>1. Root(Current) = Current
      BY <1>1, LoadedBytes
    <3>2. Offset[Current] \in Places(Current) /\ 0 \in Places(Current)
      BY <3>1 DEF Places
    <3>3. Bytes(all, Current, Offset[Current]) \/ Bytes(all, Current, 0)
      BY <1>1, <1>3, LoadedBytes
    <3>4. Offset[Current] \in Nat
      BY <1>1, MsgType
    <3> QED
      BY <3>2, <3>3, <3>4
  <2>4. PICK Q, Y : /\ Base(A, Q, Y) /\ Q[Len(taken)] = place
                    /\ \A i \in Nat : i # Len(taken) => Q[i] = P[i]
    BY <1>1, <2>3, NewPlace DEF Good
  <2>5. EncBytes(Q)'
    BY <1>1, <1>2, <2>1, <2>2, <2>3, <2>4 DEF EncBytes
  <2>6. Placed(Q)
    BY <1>1, <2>3, <2>4, EncIs, MovedIsPlaced
  <2> QED
    BY <1>1, <1>2, <2>1, <2>2, <2>4, <2>5, <2>6, EncoderPauses, PlacedKept
<1>5. CASE Abandon /\ UNCHANGED poolVars
  BY <1>1, <1>2, <1>5, AbandonGood, PlacedKept
<1> QED
  BY <1>3, <1>4, <1>5 DEF EncodeLoad

\* A connection's bytes are loaded in order, from the first.
LEMMA EncodeLoadConnGood ==
    ASSUME NEW A, NEW P, NEW X, IInv, Good(A, P, X), EncodeLoadConn
    PROVE  Good(A, P, X)'
<1>1. /\ enc.pc = "load" /\ EncoderOnly /\ UNCHANGED <<wire, conn>> /\ enc.pair # NoPair
      /\ Kind[Current] = "conn" /\ enc \in EncState /\ Current \in Msgs
      /\ enc.n = 0 /\ P[Len(taken)] = 0 /\ Len(pair[enc.pair].data) = enc.pos
      /\ Bytes(pair[enc.pair].data, Current, 0) /\ enc.pos \in Nat /\ SrcLen[Current] \in Nat
      /\ Size[Current] \in Nat
  BY EncIs, MsgType DEF EncodeLoadConn, Good, Base, EncShape, EncBytes, IInv, EncInv
<1>2. Current' = Current /\ UNCHANGED taken
  BY <1>1 DEF EncoderOnly, Current
<1>3. CASE /\ enc.pos < Size[Current] /\ enc.pos < SrcLen[Current]
           /\ Load(enc.pair, <<Source(Current)[enc.pos + 1]>>)
           /\ enc' = [enc EXCEPT !.pos = @ + 1]
  <2>1. enc'.pc = "load" /\ enc'.n = enc.n /\ enc'.pair = enc.pair /\ enc'.pos = enc.pos + 1
    BY <1>1, <1>3 DEF EncState
  <2>2. PICK u \in Units : u = Source(Current)[enc.pos + 1] /\ u = Unit(Current, "body", enc.pos + 1)
    <3>1. enc.pos + 1 \in 1 .. SrcLen[Current]
      BY <1>1, <1>3
    <3>2. Source(Current)[enc.pos + 1] = Unit(Current, "body", enc.pos + 1)
      BY <1>1, <3>1, SourceType
    <3> QED
      BY <1>1, <3>1, <3>2 DEF Unit, Units
  <2>3. <<u>> \in Seq(Units) /\ Load(enc.pair, <<u>>)
    BY <1>3, <2>2
  <2>4. /\ pair'[enc.pair].data = pair[enc.pair].data \o <<u>>
        /\ pair[enc.pair].data \in Seq(Units)
        /\ Same(dec.pair) /\ \A i \in DOMAIN delivered : Same(delivered[i].pair)
    BY <1>1, <2>3, EncoderLoads
  <2>5. pair'[enc.pair].data = Append(pair[enc.pair].data, u)
    BY <2>4, \A s \in Seq(Units) : s \o <<u>> = Append(s, u)
  <2>6. Root(Current) = Current
    BY <1>1 DEF Root
  <2>7. Bytes(Append(pair[enc.pair].data, u), Current, 0)
        /\ Len(Append(pair[enc.pair].data, u)) = enc.pos + 1
    <3>1. u = Unit(Root(Current), "body", 0 + Len(pair[enc.pair].data) + 1)
      BY <1>1, <2>2, <2>6
    <3> QED
      BY <1>1, <2>4, <3>1, BytesAppend
  <2>8. EncBytes(P)'
    BY <1>1, <1>2, <2>1, <2>5, <2>7 DEF EncBytes
  <2> QED
    BY <1>1, <2>1, <2>4, <2>8, EncoderPauses DEF Good
<1>4. CASE enc' = [enc EXCEPT !.pc = "write"] /\ UNCHANGED poolVars
  <2>1. enc'.pc = "write" /\ enc'.n = enc.n /\ enc'.pair = enc.pair /\ UNCHANGED pair
    BY <1>1, <1>4 DEF EncState, poolVars
  <2>2. EncBytes(P)'
    BY <1>1, <1>2, <2>1 DEF EncBytes, Bytes
  <2> QED
    BY <1>1, <2>1, <2>2, AllSame, EncoderPauses DEF Good
<1> QED
  BY <1>3, <1>4 DEF EncodeLoadConn

\* A load that fails: the body is not sent, or copied from where the reader stands.
LEMMA EncodeLoadConnFailGood ==
    ASSUME NEW A, NEW P, NEW X, IInv, Good(A, P, X), Placed(P), EncodeLoadConnFail
    PROVE  \E Q, Y : Good(A, Q, Y)' /\ Placed(Q)'
<1>1. /\ enc.pc = "load" /\ EncoderOnly /\ UNCHANGED <<wire, conn>>
      /\ Kind[Current] = "conn" /\ enc \in EncState /\ Current \in Msgs /\ taken # <<>>
      /\ enc.n = 0 /\ enc.pos \in Nat /\ enc.pos < Size[Current] /\ Size[Current] \in Nat
  BY EncIs, MsgType DEF EncodeLoadConnFail, Good, Base, EncShape
<1>2. Current' = Current /\ UNCHANGED <<taken, pair>>
  BY <1>1 DEF EncodeLoadConnFail, EncoderOnly, Current, poolVars
<1>3. CASE enc' = [enc EXCEPT !.pc = "close", !.pair = NoPair, !.ok = FALSE] /\ UNCHANGED shifted
  <2>1. enc'.pc = "close" /\ enc'.n = enc.n /\ ~enc'.ok
    BY <1>1, <1>3 DEF EncState
  <2>2. EncBytes(P)'
    BY <2>1 DEF EncBytes
  <2>3. Good(A, P, X)'
    BY <1>1, <1>2, <2>1, <2>2, AllSame, EncoderPauses DEF Good
  <2> QED
    BY <1>2, <1>3, <2>3, PlacedKept
<1>4. CASE Abandon /\ shifted' = shifted \cup {Current}
  <2>1. enc'.pc = "copy" /\ enc'.n = enc.n /\ enc'.pos = enc.pos
    BY <1>1, <1>4 DEF EncState, Abandon
  <2>2. PICK Q, Y : /\ Base(A, Q, Y) /\ Q[Len(taken)] = enc.pos
                    /\ \A i \in Nat : i # Len(taken) => Q[i] = P[i]
    <3>1. PICK place \in Nat : place = enc.pos
      BY <1>1
    <3>2. Base(A, P, X) /\ enc.pc \in {"body", "grow", "load"}
      BY <1>1 DEF Good
    <3>3. \E Q, Y : /\ Base(A, Q, Y) /\ Q[Len(taken)] = place
                    /\ \A i \in Nat : i # Len(taken) => Q[i] = P[i]
      BY <3>2, NewPlace
    <3> QED
      BY <3>1, <3>3
  <2>3. EncBytes(Q)'
    BY <1>1, <1>2, <2>1, <2>2 DEF EncBytes
  <2>4. Good(A, Q, Y)'
    BY <1>1, <1>2, <2>1, <2>2, <2>3, AllSame, EncoderPauses
  <2>5. Placed(Q)'
    <3>1. Placed(P)'
      BY <1>2, <1>4, PlacedKept
    <3>2. enc.pos \in Places(Current)'
      BY <1>1, <1>2, <1>4 DEF Places, Root
    <3>3. Current = taken[Len(taken)] /\ Len(taken) \in Nat
      BY <1>1, TakenIs DEF IInv
    <3>4. ASSUME NEW i \in 1 .. Len(taken) PROVE Q[i] \in Places(taken[i])'
      <4>1. CASE i = Len(taken)
        BY <1>2, <2>2, <3>2, <3>3, <4>1
      <4>2. CASE i # Len(taken)
        BY <1>2, <2>2, <3>1, <3>3, <4>2 DEF Placed
      <4> QED
        BY <4>1, <4>2
    <3> QED
      BY <1>2, <3>4 DEF Placed
  <2> QED
    BY <2>4, <2>5
<1> QED
  BY <1>3, <1>4 DEF EncodeLoadConnFail

\* What the tape has of a message: its start line, what follows it, and its body.
LEMMA OnTape ==
    ASSUME NEW A, NEW P, NEW X, Types, Numbers(A), Numbers(P), Tape(A, P, X),
           NEW i \in 1 .. Len(taken)
    PROVE  /\ X[A[i]] = Unit(taken[i], "start", 0)
           /\ Rest(taken[i]) # <<>> => X[A[i] + 1] = Unit(taken[i], Head(Rest(taken[i])), 0)
           /\ \A n \in Nat : n < Size[taken[i]] =>
                 X[A[i] + HeadLen(taken[i]) + n] = Unit(Root(taken[i]), "body", P[i] + n + 1)
<1>1. PICK m \in Msgs : m = taken[i]
  BY TakenIs
<1>2. /\ i \in Nat /\ Size[m] \in Nat /\ HeadLen(m) \in Nat /\ HeadLen(m) >= 1
  BY TakenIs, MsgType
<1>3. PICK a, p \in Nat : a = A[i] /\ p = P[i]
  BY <1>2 DEF Numbers
<1>4. /\ \A j \in 1 .. HeadLen(m) : Header(m)[j] = X[a + j - 1]
      /\ \A k \in 1 .. Size[m] : X[a + HeadLen(m) + k - 1] = Unit(Root(m), "body", p + k)
  BY <1>1, <1>3 DEF Tape, Laid, HeadLen
<1>5. Header(m)[1] = Unit(m, "start", 0)
      /\ (Rest(m) # <<>> => HeadLen(m) = 2 /\ Header(m)[2] = Unit(m, Head(Rest(m)), 0))
  BY HeaderIs
<1>6. X[a] = Unit(m, "start", 0)
  <2>1. 1 \in 1 .. HeadLen(m) /\ a + 1 - 1 = a
    BY <1>2
  <2> QED
    BY <1>4, <1>5, <2>1
<1>7. Rest(m) # <<>> => X[a + 1] = Unit(m, Head(Rest(m)), 0)
  <2>1. a + 2 - 1 = a + 1
    OBVIOUS
  <2>2. HeadLen(m) = 2 => 2 \in 1 .. HeadLen(m)
    OBVIOUS
  <2> QED
    BY <1>4, <1>5, <2>1, <2>2
<1>8. ASSUME NEW n \in Nat, n < Size[m]
      PROVE  X[a + HeadLen(m) + n] = Unit(Root(m), "body", p + n + 1)
  <2>1. PICK h \in Nat : h = HeadLen(m)
    BY <1>2
  <2>2. n + 1 \in 1 .. Size[m]
    BY <1>2, <1>8
  <2>3. a + h + (n + 1) - 1 = a + h + n /\ p + (n + 1) = p + n + 1
    OBVIOUS
  <2>4. X[a + h + (n + 1) - 1] = Unit(Root(m), "body", p + (n + 1))
    BY <1>4, <2>1, <2>2
  <2> QED
    BY <2>1, <2>3, <2>4
<1> QED
  BY <1>1, <1>3, <1>6, <1>7, <1>8

\* The encoder writes the next byte of the body.
LEMMA UnitGoes ==
    ASSUME NEW A, NEW P, NEW X, IInv, Base(A, P, X), EncoderOnly, UNCHANGED conn, conn = "open",
           Same(dec.pair), \A i \in DOMAIN delivered : Same(delivered[i].pair),
           enc.pc \in {"write", "copy"}, enc.n < Size[Current],
           wire' = Append(wire, Unit(Root(Current), "body", P[Len(taken)] + enc.n + 1)),
           enc'.pc = enc.pc, enc'.n = enc.n + 1, EncBytes(P)'
    PROVE  Good(A, P, X)'
<1>1. UNCHANGED <<taken, dec, delivered, buf>>
  BY DEF EncoderOnly, decVars
<1>2. /\ DecShape' /\ DecBytes(P)' /\ Bodies(P)' /\ Tape(A, P, X)' /\ Unsent'
      /\ DecAt(A)' = DecAt(A) /\ Current' = Current /\ Numbers(A)' /\ Numbers(P)'
  BY <1>1, EncoderFrame
<1>3. /\ enc.n \in Nat /\ Current \in Msgs /\ Len(taken) \in Nat /\ Len(taken) >= 1
      /\ Current = taken[Len(taken)] /\ wire \in Seq(Units) /\ Len(wire) \in Nat
      /\ HeadLen(Current) \in Nat /\ Size[Current] \in Nat
      /\ A[Len(taken)] \in Nat /\ P[Len(taken)] \in Nat /\ DecAt(A) \in Nat
  BY EncIs, TakenIs, MsgType, AtType DEF Base, Numbers, IInv, Types
<1>4. PICK u \in Units : u = Unit(Root(Current), "body", P[Len(taken)] + enc.n + 1)
  BY <1>3, MsgType
<1>5. buf = <<>> /\ Len(buf) = 0
  BY DEF Base, EncShape
<1>6. PICK a, h \in Nat : a = A[Len(taken)] /\ h = HeadLen(Current)
  BY <1>3
<1>7. EncAt(A) = a + h + enc.n
  BY <1>6 DEF EncAt
<1>8. EncAt(A)' = a + h + (enc.n + 1)
  BY <1>1, <1>2, <1>6 DEF EncAt
<1>9. DecAt(A) + Len(wire) = EncAt(A) /\ Laid(X, wire, DecAt(A))
  <2>1. DecAt(A) + Len(wire) + 0 = EncAt(A) /\ Laid(X, wire, DecAt(A))
    BY <1>5 DEF Base, Travel, Live
  <2> QED
    BY <1>3, <2>1
<1>10. u = X[DecAt(A) + Len(wire)]
  <2>1. X[a + h + enc.n] = u
    <3>1. Len(taken) \in 1 .. Len(taken)
      BY <1>3
    <3>2. \A n \in Nat : n < Size[Current] =>
             X[a + h + n] = Unit(Root(Current), "body", P[Len(taken)] + n + 1)
      <4>1. Types /\ Numbers(A) /\ Numbers(P) /\ Tape(A, P, X)
        BY DEF Base, IInv
      <4>2. \A n \in Nat : n < Size[taken[Len(taken)]] =>
               X[A[Len(taken)] + HeadLen(taken[Len(taken)]) + n]
                  = Unit(Root(taken[Len(taken)]), "body", P[Len(taken)] + n + 1)
        BY <3>1, <4>1, OnTape
      <4>3. Current = taken[Len(taken)]
        BY <1>3
      <4> QED
        BY <1>6, <4>2, <4>3
    <3>3. enc.n \in Nat
      BY <1>3
    <3> QED
      BY <1>4, <3>2, <3>3
  <2> QED
    BY <1>7, <1>9, <2>1
<1>11. Laid(X, wire', DecAt(A)) /\ Len(wire') = Len(wire) + 1
  <2>1. PICK d \in Int : d = DecAt(A)
    BY <1>3
  <2>2. Laid(X, wire, d) /\ u = X[d + Len(wire)] /\ wire' = Append(wire, u)
    BY <1>4, <1>9, <1>10, <2>1
  <2> QED
    BY <1>3, <2>1, <2>2, LaidAppend, ZenonT(60)
<1>12. DecAt(A) + Len(wire') = EncAt(A)'
  <2>1. PICK d, w \in Nat : d = DecAt(A) /\ w = Len(wire)
    BY <1>3
  <2>2. d + w = a + h + enc.n
    BY <1>7, <1>9, <2>1
  <2>3. d + (w + 1) = a + h + (enc.n + 1)
    <3>1. PICK n \in Nat : n = enc.n
      BY <1>3
    <3>2. d + w = a + h + n
      BY <2>2, <3>1
    <3>3. d + (w + 1) = a + h + (n + 1)
      BY <3>2
    <3> QED
      BY <3>1, <3>3
  <2> QED
    BY <1>8, <1>11, <2>1, <2>3
<1>13. EncAt(A)' \in Nat
  <2>1. PICK n \in Nat : n = enc.n
    BY <1>3
  <2>2. a + h + (n + 1) \in Nat
    BY <1>6
  <2> QED
    BY <1>8, <2>1, <2>2
<1>14. Travel(A, X)'
  <2>1. Laid(X, buf', DecAt(A)' + Len(wire')) /\ Len(buf') = 0
    BY <1>1, <1>5 DEF Laid
  <2>2. DecAt(A)' + Len(wire') <= EncAt(A)' /\ DecAt(A)' + Len(wire') + Len(buf') = EncAt(A)'
    BY <1>2, <1>12, <1>13, <2>1
  <2> QED
    BY <1>2, <1>11, <2>1, <2>2 DEF Travel
<1>15. EncShape'
  BY <1>1, <1>2, <1>3 DEF EncShape, Base
<1> QED
  BY <1>2, <1>14, <1>15 DEF Base, Good

\* The encoder takes one byte out of its pair and writes it.
LEMMA PairGoes ==
    ASSUME NEW A, NEW P, NEW X, IInv, Good(A, P, X), EncoderOnly, UNCHANGED conn, conn = "open",
           enc.pc = "write" \/ (enc.pc = "copy" /\ Kind[Current] = "pipe"), enc.n < Size[Current],
           pair[enc.pair].data # <<>>,
           wire' = Append(wire, Head(pair[enc.pair].data)), Drain(enc.pair, 1),
           enc'.pc = enc.pc, enc'.n = enc.n + 1, enc'.pair = enc.pair
    PROVE  Good(A, P, X)'
<1>1. /\ enc.pair # NoPair /\ enc.pair \in DOMAIN pair /\ PoolInv
      /\ pair[enc.pair].data \in Seq(Units)
  BY InOneHand, PairWith DEF IInv, EncInv, PoolInv
<1>2. Current' = Current /\ UNCHANGED taken
  BY DEF EncoderOnly, Current
<1>3. Bytes(pair[enc.pair].data, Current, P[Len(taken)] + enc.n)
  BY DEF Good, EncBytes
<1>4. enc.n \in Nat /\ P[Len(taken)] \in Nat /\ P[Len(taken)] + enc.n \in Nat
  BY EncIs DEF Good, Base, Numbers
<1>5. /\ Head(pair[enc.pair].data) = Unit(Root(Current), "body", P[Len(taken)] + enc.n + 1)
      /\ Bytes(SubSeq(pair[enc.pair].data, 1 + 1, Len(pair[enc.pair].data)), Current,
               P[Len(taken)] + enc.n + 1)
  BY <1>1, <1>3, <1>4, BytesTail
<1>6. 1 \in Nat /\ 1 <= Len(pair[enc.pair].data)
  BY <1>1
<1>7. PICK x \in Pipe :
         /\ x.data = SubSeq(pair[enc.pair].data, 1 + 1, Len(pair[enc.pair].data))
         /\ pair' = [pair EXCEPT ![enc.pair] = x] /\ UNCHANGED <<unused, usedCount>>
  BY <1>1, <1>6, DrainIs
<1>8. /\ pair'[enc.pair] = x /\ Same(dec.pair)
      /\ \A i \in DOMAIN delivered : Same(delivered[i].pair)
  BY <1>1, <1>7, EncoderChanges
<1>9. Bytes(pair'[enc.pair].data, Current, P[Len(taken)] + (enc.n + 1))
  <2>1. P[Len(taken)] + (enc.n + 1) = P[Len(taken)] + enc.n + 1
    BY <1>4
  <2> QED
    BY <1>5, <1>7, <1>8, <2>1
<1>10. EncBytes(P)'
  BY <1>2, <1>9 DEF EncBytes
<1> QED
  BY <1>5, <1>8, <1>10, UnitGoes DEF Good

\* The encoder has written all that it will, and goes on to close.
LEMMA EncoderStops ==
    ASSUME NEW A, NEW P, NEW X, IInv, Good(A, P, X), EncoderOnly, UNCHANGED <<wire, conn, pair>>,
           enc.pc \in {"write", "copy"}, NEW t,
           enc' = [enc EXCEPT !.pc = "close", !.ok = (enc.n = Size[Current]), !.todo = t]
    PROVE  Good(A, P, X)'
<1>1. enc'.pc = "close" /\ enc'.n = enc.n /\ enc'.ok = (enc.n = Size[Current])
  BY EncIs DEF EncState
<1>2. EncBytes(P)'
  BY <1>1 DEF EncBytes
<1> QED
  BY <1>1, <1>2, AllSame, EncoderPauses DEF Good

\* Splicing out of the pair
LEMMA EncodeWriteGood ==
    ASSUME NEW A, NEW P, NEW X, IInv, Good(A, P, X), EncodeWrite
    PROVE  Good(A, P, X)'
<1>1. enc.pc = "write" /\ EncoderOnly /\ UNCHANGED conn /\ enc \in EncState
  BY EncIs DEF EncodeWrite
<1>2. CASE /\ enc.n < Size[Current] /\ conn = "open" /\ pair[enc.pair].data # <<>>
           /\ wire' = Append(wire, Head(pair[enc.pair].data))
           /\ Drain(enc.pair, 1) /\ enc' = [enc EXCEPT !.n = @ + 1]
  <2>1. enc'.pc = enc.pc /\ enc'.n = enc.n + 1 /\ enc'.pair = enc.pair
    BY <1>1, <1>2 DEF EncState
  <2> QED
    BY <1>1, <1>2, <2>1, PairGoes
<1>3. CASE /\ enc' = [enc EXCEPT !.pc = "close", !.ok = (enc.n = Size[Current]),
                                 !.todo = Closes(Current, TRUE)]
           /\ UNCHANGED <<wire, poolVars>>
  BY <1>1, <1>3, EncoderStops DEF poolVars
<1> QED
  BY <1>2, <1>3 DEF EncodeWrite

\* Copying, out of the pair of a body that is passed on or from the reader.
LEMMA EncodeCopyGood ==
    ASSUME NEW A, NEW P, NEW X, IInv, Good(A, P, X), EncodeCopy
    PROVE  Good(A, P, X)'
<1>1. /\ enc.pc = "copy" /\ EncoderOnly /\ UNCHANGED conn /\ enc \in EncState
      /\ Current \in Msgs /\ enc.n \in Nat /\ enc.pos \in Nat
  BY EncIs DEF EncodeCopy
<1>2. Current' = Current /\ UNCHANGED taken
  BY <1>1 DEF EncoderOnly, Current
<1>3. CASE /\ enc.n < Size[Current] /\ conn = "open" /\ Copied # <<>>
           /\ wire' = Append(wire, Head(Copied))
           /\ enc' = [enc EXCEPT !.n = @ + 1,
                                 !.pos = @ + IF Kind[Current] = "pipe" THEN 0 ELSE 1]
           /\ IF Kind[Current] = "pipe" THEN Drain(enc.pair, 1) ELSE UNCHANGED poolVars
  <2>1. /\ enc'.pc = enc.pc /\ enc'.n = enc.n + 1 /\ enc'.pair = enc.pair
        /\ Kind[Current] # "pipe" => enc'.pos = enc.pos + 1
    BY <1>1, <1>3 DEF EncState
  <2>2. CASE Kind[Current] = "pipe"
    BY <1>1, <1>3, <2>1, <2>2, PairGoes DEF Copied
  <2>3. CASE Kind[Current] # "pipe"
    <3>1. /\ enc.pos = P[Len(taken)] + enc.n /\ P[Len(taken)] \in Nat
          /\ Root(Current) = Current
      BY <1>1, <2>3, EncIs DEF Good, Base, Numbers, EncBytes, Root
    <3>2. /\ Source(Current) \in Seq(Units) /\ Len(Source(Current)) = SrcLen[Current]
          /\ SrcLen[Current] \in Nat
          /\ \A i \in 1 .. SrcLen[Current] : Source(Current)[i] = Unit(Current, "body", i)
      BY <1>1, SourceType
    <3>3. PICK s \in Seq(Units), o \in Nat, to \in Nat :
             s = Source(Current) /\ o = enc.pos /\ to = SrcLen[Current] /\ to = Len(s)
      BY <1>1, <3>2
    <3>4. Copied = SubSeq(s, o + 1, to)
      BY <2>3, <3>3 DEF Copied
    <3>5. /\ Copied \in Seq(Units) /\ Len(Copied) = IF to > o THEN to - o ELSE 0
          /\ \A i \in 1 .. to - o : Copied[i] = s[o + i]
      <4>1. to <= Len(s)
        BY <3>3
      <4>2. LET r == SubSeq(s, o + 1, to) IN
            /\ r \in Seq(Units) /\ Len(r) = IF to > o THEN to - o ELSE 0
            /\ \A i \in 1 .. to - o : r[i] = s[o + i]
        BY <4>1, PartOf
      <4> QED
        BY <3>4, <4>2
    <3>6. Len(Copied) >= 1 /\ Head(Copied) = Copied[1]
      BY <1>3, <3>5
    <3>7. to > o /\ 1 \in 1 .. to - o /\ o + 1 \in 1 .. to
      BY <3>3, <3>5, <3>6
    <3>8. Head(Copied) = Unit(Current, "body", enc.pos + 1)
      BY <3>1, <3>2, <3>3, <3>5, <3>6, <3>7
    <3>9. Head(Copied) = Unit(Root(Current), "body", P[Len(taken)] + enc.n + 1)
      BY <1>1, <3>1, <3>8
    <3>10. UNCHANGED pair
      BY <1>3, <2>3 DEF poolVars
    <3>11. EncBytes(P)'
      BY <1>1, <1>2, <2>1, <2>3, <3>1 DEF EncBytes
    <3> QED
      BY <1>1, <1>3, <2>1, <3>9, <3>10, <3>11, AllSame, UnitGoes DEF Good
  <2> QED
    BY <2>2, <2>3
<1>4. CASE /\ enc' = [enc EXCEPT !.pc = "close", !.ok = (enc.n = Size[Current]),
                                 !.todo = Closes(Current, FALSE)]
           /\ UNCHANGED <<wire, poolVars>>
  BY <1>1, <1>4, EncoderStops DEF poolVars
<1> QED
  BY <1>3, <1>4 DEF EncodeCopy

\* The deferred Close gives the pair back.
LEMMA EncodeCloseGood ==
    ASSUME NEW A, NEW P, NEW X, IInv, Good(A, P, X), EncodeClose
    PROVE  Good(A, P, X)'
<1>1. /\ enc.pc = "close" /\ EncoderOnly /\ UNCHANGED <<wire, conn>> /\ enc \in EncState
      /\ enc.pair # NoPair /\ Head(enc.todo) = enc.pair /\ done(enc.pair)
  <2>1. enc.todo = <<enc.pair>> /\ enc.pair # NoPair
    BY DEF EncodeClose, IInv, EncInv
  <2>2. Head(enc.todo) = enc.pair
    BY <2>1
  <2> QED
    BY <2>1, <2>2, EncIs DEF EncodeClose
<1>2. enc'.pc = "close" /\ enc'.n = enc.n /\ enc'.ok = enc.ok
  BY <1>1 DEF EncState, EncodeClose
<1>3. OthersKept(enc.pair)
  BY <1>1, InOneHand, DonePair DEF IInv
<1>4. EncBytes(P)'
  BY <1>2 DEF EncBytes
<1>5. enc'.pc = "close" /\ enc'.ok => enc.n = Size[Current]
  BY <1>1, <1>2 DEF Good, Base, EncShape
<1> QED
  BY <1>1, <1>2, <1>3, <1>4, <1>5, EncoderOwns, EncoderPauses DEF Good

\* The writer ends: its connection is not open any more, and what is on the way stays.
LEMMA WriterDies ==
    ASSUME NEW A, NEW P, NEW X, IInv, Good(A, P, X), WriterEnds, enc'.pc = "dead",
           UNCHANGED <<taken, wire, dec, delivered, pair>>, enc.pc \in {"idle", "close"}
    PROVE  Good(A, P, X)'
<1>1. /\ buf' = <<>> /\ conn' # "open" /\ (conn' = "eof" => conn \in {"open", "eof"})
      /\ (conn = "reset" => conn' = "reset")
  BY DEF WriterEnds, IInv, Types
<1>2. /\ DecShape' /\ DecBytes(P)' /\ Bodies(P)' /\ Tape(A, P, X)' /\ Unsent'
      /\ DecAt(A)' = DecAt(A) /\ Current' = Current /\ Numbers(A)' /\ Numbers(P)'
  BY <1>1, AllSame, EncoderFrame DEF Good
<1>3. EncAt(A)' = A[Len(taken) + 1]
  BY DEF EncAt
<1>4. /\ Len(taken) \in Nat /\ A[Len(taken) + 1] \in Nat /\ EncAt(A) \in Nat /\ DecAt(A) \in Nat
      /\ Len(wire) \in Nat
  BY EncIs, AtType DEF Good, Base
<1>5. EncAt(A) <= A[Len(taken) + 1]
  <2>1. CASE enc.pc = "idle"
    BY <1>4, <2>1 DEF EncAt
  <2>2. CASE enc.pc = "close"
    <3>1. /\ Current \in Msgs /\ Current = taken[Len(taken)] /\ Len(taken) \in 1 .. Len(taken)
      BY <2>2, EncIs, TakenIs DEF IInv
    <3>2. A[Len(taken) + 1] = A[Len(taken)] + HeadLen(Current) + Size[Current]
      BY <3>1 DEF Good, Base, Tape
    <3>3. enc.n <= Size[Current] /\ enc.n \in Nat
      BY <2>2, EncIs DEF Good, Base, EncShape
    <3>4. PICK a, h, z \in Nat : a = A[Len(taken)] /\ h = HeadLen(Current) /\ z = Size[Current]
      BY <1>4, <3>1, MsgType DEF Good, Base, Numbers
    <3>5. EncAt(A) = a + h + enc.n /\ A[Len(taken) + 1] = a + h + z
      BY <2>2, <3>2, <3>4 DEF EncAt
    <3>6. a + h + enc.n <= a + h + z
      BY <3>3, <3>4
    <3> QED
      BY <3>5, <3>6
  <2> QED
    BY <2>1, <2>2
<1>6. Travel(A, X)'
  <2>1. ASSUME Live' PROVE Laid(X, wire, DecAt(A)) /\ DecAt(A) + Len(wire) <= EncAt(A)
    BY <1>1, <2>1 DEF Live, Good, Base, Travel
  <2>2. Live' => DecAt(A) + Len(wire) <= A[Len(taken) + 1]
    <3>1. PICK d, w, e, f \in Nat : d = DecAt(A) /\ w = Len(wire) /\ e = EncAt(A)
                                    /\ f = A[Len(taken) + 1]
      BY <1>4
    <3> QED
      BY <1>5, <2>1, <3>1
  <2> QED
    BY <1>1, <1>2, <1>3, <2>1, <2>2 DEF Travel
<1>7. EncShape'
  BY <1>1 DEF EncShape
<1>8. EncBytes(P)'
  BY DEF EncBytes
<1> QED
  BY <1>2, <1>6, <1>7, <1>8 DEF Base, Good

\* encode returns: all of the body was sent, or the connection ends.
LEMMA EncodeReturnGood ==
    ASSUME NEW A, NEW P, NEW X, IInv, Good(A, P, X), EncodeReturn
    PROVE  Good(A, P, X)'
<1>1. /\ enc.pc = "close" /\ UNCHANGED <<taken, wire, dec, delivered, pair>>
  BY DEF EncodeReturn, decVars, poolVars
<1>2. CASE enc.ok /\ enc' = Idle /\ UNCHANGED <<buf, conn>>
  <2>1. enc'.pc = "idle"
    BY <1>2 DEF Idle
  <2>2. /\ DecShape' /\ DecBytes(P)' /\ Bodies(P)' /\ Tape(A, P, X)' /\ Unsent'
        /\ DecAt(A)' = DecAt(A) /\ Current' = Current /\ Numbers(A)' /\ Numbers(P)'
    BY <1>1, <1>2, <2>1, AllSame, EncoderFrame DEF Good
  <2>3. EncAt(A)' = EncAt(A)
    <3>1. Current = taken[Len(taken)] /\ Len(taken) \in 1 .. Len(taken)
      BY <1>1, EncIs, TakenIs DEF IInv
    <3>2. A[Len(taken) + 1] = A[Len(taken)] + HeadLen(Current) + Size[Current]
      BY <3>1 DEF Good, Base, Tape
    <3>3. enc.n = Size[Current]
      BY <1>1, <1>2 DEF Good, Base, EncShape
    <3> QED
      BY <1>1, <2>1, <3>2, <3>3 DEF EncAt
  <2>4. Travel(A, X)'
    BY <1>1, <1>2, <2>2, <2>3, TravelFrame DEF Good, Base
  <2>5. EncShape' /\ EncBytes(P)'
    BY <2>1 DEF EncShape, EncBytes
  <2> QED
    BY <2>2, <2>4, <2>5 DEF Good, Base
<1>3. CASE enc' = [Idle EXCEPT !.pc = "dead", !.ok = FALSE] /\ WriterEnds
  <2>1. enc'.pc = "dead"
    BY <1>3 DEF Idle
  <2> QED
    BY <1>1, <1>3, <2>1, WriterDies
<1> QED
  BY <1>2, <1>3 DEF EncodeReturn

\* Flush moves what is buffered onto the wire.
LEMMA FlushGood ==
    ASSUME NEW A, NEW P, NEW X, IInv, Good(A, P, X), Flush
    PROVE  Good(A, P, X)'
<1>1. /\ enc.pc = "idle" /\ UNCHANGED <<taken, dec, delivered, pair>>
  BY DEF Flush, decVars, poolVars
<1>2. CASE conn = "open" /\ wire' = wire \o buf /\ buf' = <<>> /\ UNCHANGED <<enc, conn>>
  <2>1. /\ DecShape' /\ DecBytes(P)' /\ Bodies(P)' /\ Tape(A, P, X)' /\ Unsent'
        /\ DecAt(A)' = DecAt(A) /\ Current' = Current /\ Numbers(A)' /\ Numbers(P)'
    BY <1>1, <1>2, AllSame, EncoderFrame DEF Good
  <2>2. EncAt(A)' = EncAt(A)
    BY <1>1, <1>2, EncAtFrame
  <2>3. /\ Laid(X, wire, DecAt(A)) /\ Laid(X, buf, DecAt(A) + Len(wire))
        /\ DecAt(A) + Len(wire) + Len(buf) = EncAt(A)
    BY <1>2 DEF Good, Base, Travel, Live
  <2>4. DecAt(A) \in Nat /\ EncAt(A) \in Nat /\ wire \in Seq(Units) /\ buf \in Seq(Units)
    BY AtType DEF Good, Base, IInv, Types
  <2>5. PICK d, e \in Nat : d = DecAt(A) /\ e = EncAt(A)
    BY <2>4
  <2>6. Laid(X, wire', d) /\ Len(wire') = Len(wire) + Len(buf)
    BY <1>2, <2>3, <2>4, <2>5, LaidConcat
  <2>7. d + Len(wire') = e
    BY <2>3, <2>4, <2>5, <2>6
  <2>8. Laid(X, buf', d + Len(wire')) /\ Len(buf') = 0
    BY <1>2 DEF Laid
  <2>9. Travel(A, X)'
    BY <2>1, <2>2, <2>5, <2>6, <2>7, <2>8 DEF Travel
  <2>10. EncShape' /\ EncBytes(P)'
    BY <1>1, <1>2 DEF EncShape, EncBytes
  <2> QED
    BY <2>1, <2>9, <2>10 DEF Good, Base
<1>3. CASE WriterEnds /\ enc' = [Idle EXCEPT !.pc = "dead", !.ok = FALSE] /\ UNCHANGED wire
  <2>1. enc'.pc = "dead"
    BY <1>3 DEF Idle
  <2> QED
    BY <1>1, <1>3, <2>1, WriterDies
<1> QED
  BY <1>2, <1>3 DEF Flush

-----------------------------------------------------------------------------
(* A message more.                                                          *)

\* Tape B, Q, Y is tape A, P, X with message m behind it, its body from a place.
Longer(A, P, X, B, Q, Y, m, place) ==
    /\ Numbers(B) /\ Numbers(Q)
    /\ \A i \in 1 .. Len(taken) + 1 : B[i] = A[i]
    /\ B[Len(taken) + 2] = A[Len(taken) + 1] + HeadLen(m) + Size[m]
    /\ \A i \in 1 .. Len(taken) : Q[i] = P[i]
    /\ Q[Len(taken) + 1] = place
    /\ \A n \in Nat : n < A[Len(taken) + 1] => Y[n] = X[n]
    /\ Laid(Y, Header(m), A[Len(taken) + 1])
    /\ \A k \in 1 .. Size[m] :
          Y[A[Len(taken) + 1] + HeadLen(m) + k - 1] = Unit(Root(m), "body", place + k)

\* Every tape can be made longer.
LEMMA LongerTape ==
    ASSUME NEW A, NEW P, NEW X, Types, Numbers(A), Numbers(P), NEW m \in Msgs,
           NEW place \in Nat
    PROVE  \E B, Q, Y : Longer(A, P, X, B, Q, Y, m, place)
<1>1. PICK L \in Nat : L = Len(taken)
  BY TakenIs
<1>2. PICK a, h, z, p \in Nat : a = A[L + 1] /\ h = HeadLen(m) /\ z = Size[m] /\ p = place
  <2>1. L + 1 \in Nat /\ HeadLen(m) \in Nat /\ Size[m] \in Nat
    BY <1>1, MsgType
  <2>2. A[L + 1] \in Nat /\ place \in Nat
    BY <2>1 DEF Numbers
  <2> QED
    BY <2>1, <2>2
<1>3. h >= 1 /\ Header(m) \in Seq(Units) /\ Len(Header(m)) = h
  BY <1>2, MsgType DEF HeadLen
<1> DEFINE B == [i \in Nat |-> IF i = L + 2 THEN a + h + z ELSE A[i]]
           Q == [i \in Nat |-> IF i = L + 1 THEN p ELSE P[i]]
           Y == [n \in Nat |-> IF n < a THEN X[n]
                               ELSE IF n < a + h THEN Header(m)[n - a + 1]
                               ELSE Unit(Root(m), "body", p + (n - (a + h) + 1))]
<1>4. B[L + 2] = a + h + z /\ \A i \in Nat : i # L + 2 => B[i] = A[i]
  OBVIOUS
<1>5. Q[L + 1] = p /\ \A i \in Nat : i # L + 1 => Q[i] = P[i]
  OBVIOUS
<1>6. \A n \in Nat : n < a => Y[n] = X[n]
  OBVIOUS
<1>7. \A j \in 1 .. h : Y[a + j - 1] = Header(m)[j]
  <2>1. ASSUME NEW j \in 1 .. h PROVE Y[a + j - 1] = Header(m)[j]
    <3>1. /\ a + j - 1 \in Nat /\ ~(a + j - 1 < a) /\ a + j - 1 < a + h /\ (a + j - 1) - a + 1 = j
      OBVIOUS
    <3> QED
      BY <3>1
  <2> QED
    BY <2>1
<1>8. \A k \in 1 .. z : Y[a + h + k - 1] = Unit(Root(m), "body", p + k)
  <2>1. ASSUME NEW k \in 1 .. z PROVE Y[a + h + k - 1] = Unit(Root(m), "body", p + k)
    <3>1. /\ a + h + k - 1 \in Nat /\ ~(a + h + k - 1 < a) /\ ~(a + h + k - 1 < a + h)
          /\ (a + h + k - 1) - (a + h) + 1 = k
      OBVIOUS
    <3> QED
      BY <3>1
  <2> QED
    BY <2>1
<1> HIDE DEF B, Q, Y
<1>9. Numbers(B)
  <2>1. a + h + z \in Nat
    OBVIOUS
  <2> QED
    BY <1>4, <2>1 DEF Numbers
<1>10. Numbers(Q)
  BY <1>5 DEF Numbers
<1>11. \A i \in 1 .. L + 1 : B[i] = A[i]
  BY <1>4
<1>12. \A i \in 1 .. L : Q[i] = P[i]
  BY <1>5
<1>13. Laid(Y, Header(m), a)
  BY <1>3, <1>7 DEF Laid
<1>14. Longer(A, P, X, B, Q, Y, m, place)
  <2>1. /\ \A i \in 1 .. Len(taken) + 1 : B[i] = A[i]
        /\ \A i \in 1 .. Len(taken) : Q[i] = P[i]
        /\ Q[Len(taken) + 1] = place
    BY <1>1, <1>2, <1>5, <1>11, <1>12
  <2>2. B[Len(taken) + 2] = A[Len(taken) + 1] + HeadLen(m) + Size[m]
    BY <1>1, <1>2, <1>4
  <2>3. /\ \A n \in Nat : n < A[Len(taken) + 1] => Y[n] = X[n]
        /\ Laid(Y, Header(m), A[Len(taken) + 1])
    BY <1>1, <1>2, <1>6, <1>13
  <2>4. \A k \in 1 .. Size[m] :
           Y[A[Len(taken) + 1] + HeadLen(m) + k - 1] = Unit(Root(m), "body", place + k)
    BY <1>1, <1>2, <1>8
  <2> QED
    BY <1>9, <1>10, <2>1, <2>2, <2>3, <2>4 DEF Longer
<1> QED
  BY <1>14

\* Once m is taken, the longer tape has what was taken.
LEMMA LongerIsTape ==
    ASSUME NEW A, NEW P, NEW X, NEW B, NEW Q, NEW Y, Types, Numbers(A), Numbers(P), Tape(A, P, X),
           NEW m \in Msgs, NEW place \in Nat, Longer(A, P, X, B, Q, Y, m, place),
           taken' = Append(taken, m)
    PROVE  Tape(B, Q, Y)'
<1>1. PICK L \in Nat : L = Len(taken)
  BY TakenIs
<1>2. PICK a, h, z, p \in Nat : a = A[L + 1] /\ h = HeadLen(m) /\ z = Size[m] /\ p = place
  <2>1. A[L + 1] \in Nat
    BY DEF Numbers
  <2>2. HeadLen(m) \in Nat /\ Size[m] \in Nat /\ place \in Nat
    BY MsgType
  <2> QED
    BY <2>1, <2>2
<1>3. h >= 1 /\ Header(m) \in Seq(Units)
  BY <1>2, MsgType DEF HeadLen
<1>4. /\ \A i \in 1 .. L + 1 : B[i] = A[i]
      /\ B[L + 2] = a + h + z
      /\ \A i \in 1 .. L : Q[i] = P[i]
      /\ Q[L + 1] = p
      /\ \A n \in Nat : n < a => Y[n] = X[n]
      /\ Laid(Y, Header(m), a)
      /\ \A k \in 1 .. z : Y[a + h + k - 1] = Unit(Root(m), "body", p + k)
  BY <1>1, <1>2 DEF Longer
<1>5. /\ Len(taken') = L + 1 /\ taken'[L + 1] = m
      /\ \A i \in 1 .. L : taken'[i] = taken[i] /\ taken[i] \in Msgs
  BY <1>1, TakenIs DEF Types
<1>6. \A i, j \in 1 .. L + 1 : i < j => A[i] < A[j]
  BY <1>1 DEF Tape
<1>7. ASSUME NEW i \in 1 .. L + 1
      PROVE  /\ B[i + 1] = B[i] + HeadLen(taken'[i]) + Size[taken'[i]]
             /\ Laid(Y, Header(taken'[i]), B[i])
             /\ \A k \in 1 .. Size[taken'[i]] :
                   Y[B[i] + HeadLen(taken'[i]) + k - 1] = Unit(Root(taken'[i]), "body", Q[i] + k)
  <2>1. CASE i = L + 1
    <3>1. B[i] = a /\ i + 1 = L + 2 /\ taken'[i] = m /\ Q[i] = p
      BY <1>2, <1>4, <1>5, <2>1
    <3> QED
      BY <1>2, <1>4, <3>1
  <2>2. CASE i # L + 1
    <3>1. i \in 1 .. L /\ i + 1 \in 1 .. L + 1
      BY <2>2
    <3>2. PICK t \in Msgs : t = taken[i] /\ t = taken'[i]
      BY <1>5, <3>1
    <3>3. /\ B[i] = A[i] /\ B[i + 1] = A[i + 1] /\ Q[i] = P[i]
      BY <1>4, <3>1
    <3>4. /\ A[i + 1] = A[i] + HeadLen(t) + Size[t]
          /\ Laid(X, Header(t), A[i])
          /\ \A k \in 1 .. Size[t] : X[A[i] + HeadLen(t) + k - 1] = Unit(Root(t), "body", P[i] + k)
      BY <1>1, <3>1, <3>2 DEF Tape
    <3>5. PICK b, g, s \in Nat : b = A[i] /\ g = HeadLen(t) /\ s = Size[t]
      <4>1. A[i] \in Nat
        BY DEF Numbers
      <4>2. HeadLen(t) \in Nat /\ Size[t] \in Nat
        BY MsgType
      <4> QED
        BY <4>1, <4>2
    <3>6. b + g + s <= a
      <4>1. i + 1 = L + 1 \/ i + 1 < L + 1
        BY <3>1
      <4>2. i + 1 < L + 1 => A[i + 1] < A[L + 1]
        BY <1>6, <3>1
      <4>3. A[i + 1] = b + g + s
        BY <3>4, <3>5
      <4>4. b + g + s = a \/ b + g + s < a
        BY <1>2, <4>1, <4>2, <4>3
      <4> QED
        BY <4>4
    <3>7. Laid(Y, Header(t), b)
      <4>1. Header(t) \in Seq(Units) /\ Len(Header(t)) = g
        BY <3>5, MsgType DEF HeadLen
      <4>2. b + Len(Header(t)) <= a
        BY <3>6, <4>1
      <4> QED
        BY <1>4, <3>4, <3>5, <4>1, <4>2, LaidAgree, ZenonT(60)
    <3>8. ASSUME NEW k \in 1 .. s PROVE Y[b + g + k - 1] = Unit(Root(t), "body", P[i] + k)
      <4>1. b + g + k - 1 \in Nat /\ b + g + k - 1 < a
        BY <3>6, Below
      <4> QED
        BY <1>4, <3>4, <3>5, <4>1
    <3> QED
      BY <3>2, <3>3, <3>4, <3>5, <3>7, <3>8
  <2> QED
    BY <2>1, <2>2
<1>8. ASSUME NEW i \in 1 .. L + 2, NEW j \in 1 .. L + 2, i < j PROVE B[i] < B[j]
  <2>1. CASE j # L + 2
    <3>1. i \in 1 .. L + 1 /\ j \in 1 .. L + 1
      BY <1>8, <2>1
    <3> QED
      BY <1>4, <1>6, <1>8, <3>1
  <2>2. CASE j = L + 2
    <3>1. i \in 1 .. L + 1 /\ i \in Nat /\ (i = L + 1 \/ i < L + 1)
      BY <1>8, <2>2
    <3>2. B[i] = A[i] /\ A[i] \in Nat
      BY <1>4, <3>1 DEF Numbers
    <3>3. A[i] <= a
      BY <1>2, <1>6, <3>1, <3>2
    <3>4. a < a + h + z
      BY <1>3
    <3> QED
      BY <1>4, <2>2, <3>2, <3>3, <3>4
  <2> QED
    BY <2>1, <2>2
<1>9. Len(taken') + 1 = L + 2
  BY <1>5
<1> QED
  BY <1>5, <1>7, <1>8, <1>9 DEF Tape

\* A body that leaves the application: closed, or passed on.
LEMMA BodyLeaves ==
    ASSUME IInv, NEW i \in DOMAIN delivered, NEW s \in {"closed", "forwarded"},
           delivered' = [delivered EXCEPT ![i].st = s, ![i].pair = NoPair]
    PROVE  /\ Len(delivered') = Len(delivered) /\ DOMAIN delivered' = DOMAIN delivered
           /\ \A j \in DOMAIN delivered : j # i => delivered'[j] = delivered[j]
           /\ \A j \in DOMAIN delivered : delivered'[j].m = delivered[j].m
           /\ delivered'[i].data = delivered[i].data /\ delivered'[i].st = s
           /\ delivered'[i].pair = NoPair
<1>1. delivered \in Seq(Body) /\ delivered[i] \in Body
  BY DEF IInv, Types
<1>2. PICK d : d = [delivered[i] EXCEPT !.st = s, !.pair = NoPair]
  OBVIOUS
<1>3. /\ d \in Body /\ d.m = delivered[i].m /\ d.data = delivered[i].data /\ d.st = s
      /\ d.pair = NoPair
  BY <1>1, <1>2 DEF Body
<1>4. delivered' = [delivered EXCEPT ![i] = d]
  BY <1>2
<1>5. /\ Len(delivered') = Len(delivered) /\ DOMAIN delivered' = DOMAIN delivered
      /\ delivered'[i] = d /\ \A j \in DOMAIN delivered : j # i => delivered'[j] = delivered[j]
  BY <1>1, <1>3, <1>4, Updated
<1> QED
  BY <1>3, <1>5

\* Its bytes that were read are a beginning of those that it had.
LEMMA LeftIsWhole ==
    ASSUME NEW P, NEW Q, IInv, NEW i \in DOMAIN delivered, Whole(i, P), Q[i] = P[i],
           delivered'[i].m = delivered[i].m, delivered'[i].data = delivered[i].data,
           delivered'[i].st # "open", delivered'[i].pair = NoPair
    PROVE  /\ Whole(i, Q)' /\ BodyOf(delivered[i])' = delivered[i].data
           /\ BodyOf(delivered[i]) = <<>> => BodyOf(delivered[i])' = <<>>
<1>1. delivered[i] \in Body /\ delivered[i].data \in Seq(Units) /\ delivered[i].m \in Msgs
  <2>1. delivered[i] \in Body
    BY DEF IInv, Types
  <2> QED
    BY <2>1 DEF Body
<1>2. BodyOf(delivered[i])' = delivered[i].data
  BY <1>1, \A s \in Seq(Units) : s \o <<>> = s DEF BodyOf
<1>3. PICK r \in Seq(Units) : BodyOf(delivered[i]) = delivered[i].data \o r
  <2>1. delivered[i].pair # NoPair => pair[delivered[i].pair].data \in Seq(Units)
    BY PairWith DEF IInv, BodyInv, PoolInv
  <2> QED
    BY <2>1, <<>> \in Seq(Units) DEF BodyOf
<1>4. /\ Len(delivered[i].data \o r) = Len(delivered[i].data) + Len(r)
      /\ Len(r) \in Nat /\ Len(delivered[i].data) \in Nat
      /\ \A j \in 1 .. Len(delivered[i].data) : (delivered[i].data \o r)[j] = delivered[i].data[j]
  BY <1>1
<1>5. Size[delivered[i].m] \in Nat
  BY <1>1, MsgType
<1>6. Len(delivered[i].data) <= Size[delivered[i].m]
  BY <1>3, <1>4, <1>5 DEF Whole
<1>7. Bytes(delivered[i].data, delivered[i].m, Q[i])
  <2>1. Bytes(delivered[i].data \o r, delivered[i].m, Q[i])
    BY <1>3 DEF Whole
  <2>2. ASSUME NEW j \in 1 .. Len(delivered[i].data)
        PROVE  delivered[i].data[j] = Unit(Root(delivered[i].m), "body", Q[i] + j)
    <3>1. j \in 1 .. Len(delivered[i].data \o r)
      BY <1>4
    <3>2. (delivered[i].data \o r)[j] = Unit(Root(delivered[i].m), "body", Q[i] + j)
      BY <2>1, <3>1 DEF Bytes
    <3> QED
      BY <1>4, <3>2
  <2> QED
    BY <2>2 DEF Bytes
<1>8. Whole(i, Q)'
  BY <1>2, <1>6, <1>7 DEF Whole
<1>9. BodyOf(delivered[i]) = <<>> => delivered[i].data = <<>>
  <2>1. BodyOf(delivered[i]) = <<>> => Len(delivered[i].data) = 0
    BY <1>3, <1>4
  <2> QED
    BY <1>1, <2>1
<1> QED
  BY <1>2, <1>8, <1>9

\* The body of the message that is taken comes from a reader or from the application.
PassesOn ==
    \/ UNCHANGED delivered
    \/ \E i \in DOMAIN delivered :
          delivered' = [delivered EXCEPT ![i].st = "forwarded", ![i].pair = NoPair]

\* What taking a message means to the decoder and to the bodies.
LEMMA MessageTaken ==
    ASSUME NEW A, NEW P, NEW X, NEW B, NEW Q, NEW Y, IInv, Good(A, P, X), enc.pc = "idle",
           NEW m \in Msgs, NEW place \in Nat, Longer(A, P, X, B, Q, Y, m, place),
           taken' = Append(taken, m), UNCHANGED <<dec, pair>>, PassesOn,
           conn' = "open" => conn = "open", conn = "reset" => conn' = "reset"
    PROVE  /\ DecShape' /\ DecBytes(Q)' /\ Bodies(Q)' /\ Unsent' /\ Tape(B, Q, Y)'
           /\ Numbers(B)' /\ Numbers(Q)'
           /\ DecAt(B)' = DecAt(A) /\ Current' = m /\ Len(taken') = Len(taken) + 1
<1>1. Base(A, P, X) /\ Types
  BY DEF Good, IInv
<1>2. Tape(B, Q, Y)'
  BY <1>1, LongerIsTape DEF Base
<1>3. PICK L, D \in Nat : L = Len(taken) /\ D = Len(delivered) /\ DOMAIN delivered = 1 .. D
  BY <1>1, TakenIs
<1>4. /\ Len(taken') = L + 1 /\ \A i \in 1 .. L : taken'[i] = taken[i]
      /\ Current' = m
  BY <1>1, <1>3, TakenType DEF Types
<1>5. D <= L /\ (dec.pc \in {"head", "grow", "load", "copy"} => D < L)
  BY <1>1, <1>3 DEF Base, DecShape
<1>6. /\ \A i \in 1 .. L + 1 : B[i] = A[i]
      /\ \A i \in 1 .. L : Q[i] = P[i]
  BY <1>3 DEF Longer
<1>7. /\ Len(delivered') = D /\ DOMAIN delivered' = DOMAIN delivered
      /\ \A i \in DOMAIN delivered : delivered'[i].m = delivered[i].m
  BY <1>3, BodyLeaves DEF PassesOn
<1>8. DecShape' /\ DecBytes(Q)'
  <2>1. Same(dec.pair)
    BY AllSame
  <2>2. Len(taken) <= Len(taken') /\ Len(taken') \in Nat
    BY <1>3, <1>4
  <2> QED
    BY <1>1, <1>3, <1>4, <1>6, <1>7, <2>1, <2>2, DecFrame DEF Base
<1>9. DecAt(B)' = DecAt(A)
  <2>1. B[D + 1] = A[D + 1]
    BY <1>5, <1>6
  <2> QED
    BY <1>3, <1>7, <2>1 DEF DecAt
<1>10. ASSUME NEW i \in DOMAIN delivered PROVE Whole(i, Q)'
  <2>1. Whole(i, P) /\ Q[i] = P[i] /\ Same(delivered[i].pair)
    BY <1>1, <1>3, <1>5, <1>6, AllSame DEF Base, Bodies
  <2>2. CASE delivered'[i] = delivered[i]
    BY <2>1, <2>2, BodyFrame
  <2>3. CASE delivered'[i] # delivered[i]
    <3>1. /\ delivered'[i].m = delivered[i].m /\ delivered'[i].data = delivered[i].data
          /\ delivered'[i].st # "open" /\ delivered'[i].pair = NoPair
      BY <2>3, BodyLeaves DEF PassesOn
    <3> QED
      BY <2>1, <3>1, LeftIsWhole
  <2> QED
    BY <2>2, <2>3
<1>11. Bodies(Q)'
  BY <1>7, <1>10 DEF Bodies
<1>12. Unsent'
  <2>1. \A i \in DOMAIN delivered' : i # Len(taken')
    BY <1>3, <1>4, <1>5, <1>7
  <2>2. dec'.pc \in {"load", "copy"} => Len(delivered') + 1 # Len(taken')
    BY <1>4, <1>5, <1>7
  <2> QED
    BY <2>1, <2>2 DEF Unsent
<1>13. Numbers(B)' /\ Numbers(Q)'
  BY DEF Longer, Numbers
<1> QED
  BY <1>2, <1>3, <1>4, <1>8, <1>9, <1>11, <1>12, <1>13

\* The headers go out, or into the buffer, and the message's body is next.
LEMMA HeadersGo ==
    ASSUME NEW A, NEW P, NEW X, NEW B, NEW Q, NEW Y, IInv, Good(A, P, X), enc.pc = "idle",
           NEW m \in Msgs, NEW place \in Nat, Longer(A, P, X, B, Q, Y, m, place),
           taken' = Append(taken, m), UNCHANGED conn, MustFlush(m) => conn = "open",
           wire' = IF MustFlush(m) THEN wire \o buf \o Header(m) ELSE wire,
           buf' = IF MustFlush(m) THEN <<>> ELSE buf \o Header(m),
           enc'.pc = IF HasBody(m) THEN "body" ELSE "idle", enc'.n = 0, Current' = m,
           HasBody(m) <=> Size[m] > 0,
           Len(taken') = Len(taken) + 1, DecAt(B)' = DecAt(A)
    PROVE  Travel(B, Y)' /\ EncShape'
<1>1. PICK L \in Nat : L = Len(taken)
  BY EncIs
<1>2. PICK a, h, z, d, w, u \in Nat :
         /\ a = A[L + 1] /\ h = HeadLen(m) /\ z = Size[m] /\ d = DecAt(A) /\ w = Len(wire)
         /\ u = Len(buf)
  <2>1. A[L + 1] \in Nat /\ DecAt(A) \in Nat
    BY <1>1, AtType DEF Good, Base
  <2>2. HeadLen(m) \in Nat /\ Size[m] \in Nat /\ Len(wire) \in Nat /\ Len(buf) \in Nat
    BY MsgType, EncIs
  <2> QED
    BY <2>1, <2>2
<1>3. /\ wire \in Seq(Units) /\ buf \in Seq(Units) /\ Header(m) \in Seq(Units)
      /\ Len(Header(m)) = h
  BY <1>2, MsgType DEF HeadLen, IInv, Types
<1>4. EncAt(A) = a
  BY <1>1, <1>2 DEF EncAt
<1>5. EncAt(B)' = a + h
  <2>1. B[L + 1] = a /\ B[L + 2] = a + h + z
    BY <1>1, <1>2 DEF Longer
  <2>2. CASE z > 0
    <3>1. EncAt(B)' = B[L + 1] + HeadLen(m) + 0
      BY <1>1, <1>2, <2>2 DEF EncAt
    <3> QED
      BY <1>2, <2>1, <3>1
  <2>3. CASE z = 0
    <3>1. enc'.pc = "idle" /\ Len(taken') + 1 = L + 2
      BY <1>1, <1>2, <2>3
    <3>2. EncAt(B)' = B[L + 2]
      BY <3>1 DEF EncAt
    <3> QED
      BY <2>1, <2>3, <3>2
  <2> QED
    BY <2>2, <2>3
<1>6. /\ Live => Laid(X, wire, d) /\ d + w <= a
      /\ conn = "open" => Laid(X, buf, d + w) /\ d + w + u = a
  BY <1>2, <1>4 DEF Good, Base, Travel
<1>7. /\ \A n \in Nat : n < a => Y[n] = X[n]
      /\ Laid(Y, Header(m), a)
  BY <1>1, <1>2 DEF Longer
<1>8. Live => Laid(Y, wire, d)
  BY <1>2, <1>3, <1>6, <1>7, LaidAgree
<1>9. conn = "open" => Laid(Y, buf, d + w)
  <2>1. conn = "open" => (d + w) + Len(buf) <= a
    BY <1>2, <1>6
  <2>2. d + w \in Nat
    OBVIOUS
  <2> QED
    BY <1>3, <1>6, <1>7, <2>1, <2>2, LaidAgree
<1>10. CASE MustFlush(m)
  <2>1. conn = "open" /\ Live /\ wire' = (wire \o buf) \o Header(m) /\ buf' = <<>>
    BY <1>10 DEF Live
  <2>2. Laid(Y, wire \o buf, d) /\ Len(wire \o buf) = w + u /\ wire \o buf \in Seq(Units)
    <3>1. d \in Int /\ Laid(Y, buf, d + Len(wire))
      BY <1>2, <1>9, <2>1
    <3>2. Laid(Y, wire \o buf, d) /\ Len(wire \o buf) = Len(wire) + Len(buf)
      BY <1>3, <1>8, <2>1, <3>1, LaidConcat
    <3> QED
      BY <1>2, <1>3, <3>2
  <2>3. Laid(Y, wire', d) /\ Len(wire') = w + u + h
    <3>1. d + Len(wire \o buf) = a /\ d \in Int
      BY <1>6, <2>1, <2>2
    <3>2. PICK s, t \in Seq(Units) : s = wire \o buf /\ t = Header(m)
      BY <1>3, <2>2
    <3>3. Laid(Y, s, d) /\ Laid(Y, t, d + Len(s))
      BY <1>7, <2>2, <3>1, <3>2
    <3>4. Laid(Y, s \o t, d) /\ Len(s \o t) = Len(s) + Len(t)
      BY <3>1, <3>3, LaidConcat
    <3> QED
      BY <1>3, <2>1, <2>2, <3>2, <3>4
  <2>4. d + Len(wire') = a + h
    <3>1. d + w + u = a
      BY <1>6, <2>1
    <3>2. d + (w + u + h) = a + h
      BY <3>1
    <3> QED
      BY <2>3, <3>2
  <2>5. Laid(Y, buf', d + Len(wire')) /\ Len(buf') = 0
    BY <2>1 DEF Laid
  <2>6. DecAt(B)' = d
    BY <1>2
  <2>7. Travel(B, Y)'
    BY <1>5, <2>3, <2>4, <2>5, <2>6 DEF Travel
  <2>8. EncShape'
    BY <1>2, <2>1 DEF EncShape
  <2> QED
    BY <2>7, <2>8
<1>11. CASE ~MustFlush(m)
  <2>1. wire' = wire /\ buf' = buf \o Header(m) /\ z = 0
    BY <1>2, <1>11, SMTT(30) DEF MustFlush
  <2>2. DecAt(B)' = d /\ Live' = Live
    BY <1>2, <2>1 DEF Live
  <2>3. conn = "open" => Laid(Y, buf', d + w) /\ Len(buf') = u + h
    <3>1. conn = "open" => (d + w) + Len(buf) = a
      BY <1>2, <1>6
    <3>2. d + w \in Int
      OBVIOUS
    <3>3. conn = "open" => /\ Laid(Y, buf \o Header(m), d + w)
                           /\ Len(buf \o Header(m)) = Len(buf) + Len(Header(m))
      BY <1>3, <1>7, <1>9, <3>1, <3>2, LaidConcat, ZenonT(60)
    <3> QED
      BY <1>2, <1>3, <2>1, <3>3
  <2>4. Live => d + w <= a + h
    BY <1>6
  <2>5. conn = "open" => d + w + Len(buf') = a + h
    <3>1. d + w + u = a => d + w + (u + h) = a + h
      OBVIOUS
    <3> QED
      BY <1>6, <2>3, <3>1
  <2>6. Travel(B, Y)'
    BY <1>2, <1>5, <1>8, <2>1, <2>2, <2>3, <2>4, <2>5 DEF Travel
  <2>7. EncShape'
    BY <1>2, <2>1 DEF EncShape
  <2> QED
    BY <2>6, <2>7
<1> QED
  BY <1>10, <1>11

\* The unread body that the application passes on is all of it.
LEMMA ForwardedBody ==
    ASSUME NEW A, NEW P, NEW X, IInv, Good(A, P, X), Placed(P), NEW m \in Msgs,
           Kind[m] = "pipe", NEW i \in DOMAIN delivered, Forwardable(m, i)
    PROVE  P[i] \in Places(m) /\ Bytes(pair[delivered[i].pair].data, m, P[i])
<1>1. /\ From[m] \in Msgs /\ Kind[From[m]] # "pipe"
      /\ Root(m) = From[m] /\ Root(From[m]) = From[m] /\ Size[From[m]] = Size[m]
  BY CodecAssumption DEF Root
<1>2. /\ delivered[i].m = From[m] /\ delivered[i].pair # NoPair /\ delivered[i].data = <<>>
  BY DEF Forwardable
<1>3. pair[delivered[i].pair].data \in Seq(Units)
  BY <1>2, PairWith DEF IInv, BodyInv, PoolInv
<1>4. BodyOf(delivered[i]) = pair[delivered[i].pair].data
  BY <1>2, <1>3, \A s \in Seq(Units) : <<>> \o s = s DEF BodyOf
<1>5. Bytes(BodyOf(delivered[i]), delivered[i].m, P[i])
  BY DEF Good, Base, Bodies, Whole
<1>6. P[i] \in Places(From[m])
  <2>1. /\ Len(taken) \in Nat /\ Len(delivered) \in Nat /\ DOMAIN delivered = 1 .. Len(delivered)
        /\ Len(delivered) <= Len(taken) /\ delivered[i].m = taken[i]
    BY TakenIs DEF IInv, Good, Base, DecShape
  <2>2. i \in 1 .. Len(taken)
    BY <2>1
  <2> QED
    BY <1>2, <2>1, <2>2 DEF Placed
<1>7. Places(From[m]) = Places(m)
  BY <1>1 DEF Places
<1> QED
  BY <1>1, <1>2, <1>4, <1>5, <1>6, <1>7 DEF Bytes

\* If the boundaries are kept, a message that announces a body has one.
LEMMA FramedHasBody ==
    ASSUME IInv, ~Misframed', NEW m \in Msgs, taken' = Append(taken, m)
    PROVE  HasBody(m) <=> Size[m] > 0
<1>1. taken \in Seq(Msgs)
  BY DEF IInv, Types
<1>2. Len(taken') \in DOMAIN taken' /\ taken'[Len(taken')] = m
  BY <1>1
<1>3. m \in ToSet(taken')
  BY <1>2 DEF ToSet
<1> QED
  BY <1>3 DEF Misframed, HasBody

\* The places of the longer tape.
LEMMA LongerIsPlaced ==
    ASSUME NEW A, NEW P, NEW X, NEW B, NEW Q, NEW Y, IInv, Placed(P), NEW m \in Msgs,
           NEW place \in Places(m), Longer(A, P, X, B, Q, Y, m, place),
           taken' = Append(taken, m), UNCHANGED shifted
    PROVE  Placed(Q)'
<1>1. PICK L \in Nat : L = Len(taken)
  BY TakenIs DEF IInv
<1>2. /\ Len(taken') = L + 1 /\ taken'[L + 1] = m
      /\ \A i \in 1 .. L : taken'[i] = taken[i]
  BY <1>1 DEF IInv, Types
<1>3. /\ \A i \in 1 .. L : Q[i] = P[i] /\ P[i] \in Places(taken[i])
      /\ Q[L + 1] = place
  BY <1>1 DEF Longer, Placed
<1>4. \A t : Places(t)' = Places(t)
  BY DEF Places, Root
<1>5. ASSUME NEW i \in 1 .. L + 1 PROVE Q[i] \in Places(taken'[i])
  <2>1. CASE i = L + 1
    BY <1>2, <1>3, <2>1
  <2>2. CASE i # L + 1
    <3>1. i \in 1 .. L
      BY <2>2
    <3> QED
      BY <1>2, <1>3, <3>1
  <2> QED
    BY <2>1, <2>2
<1> QED
  BY <1>2, <1>4, <1>5 DEF Placed

\* A message is taken and its headers are written.
LEMMA EncodeHeadersGood ==
    ASSUME NEW A, NEW P, NEW X, IInv, Good(A, P, X), Placed(P), ~Misframed', NEW m \in Msgs,
           EncodeHeaders(m)
    PROVE  \E B, Q, Y : Good(B, Q, Y)' /\ Placed(Q)'
<1>1. /\ enc.pc = "idle" /\ taken' = Append(taken, m) /\ UNCHANGED <<conn, dec, pair>>
      /\ MustFlush(m) => conn = "open"
      /\ wire' = IF MustFlush(m) THEN wire \o buf \o Header(m) ELSE wire
      /\ buf' = IF MustFlush(m) THEN <<>> ELSE buf \o Header(m)
      /\ Given(m) /\ UNCHANGED shifted
  BY DEF EncodeHeaders, poolVars, history
<1>0. HasBody(m) <=> Size[m] > 0
  BY <1>1, FramedHasBody
<1>2. PICK place \in Places(m) :
         /\ PassesOn
         /\ enc'.pc = IF HasBody(m) THEN "body" ELSE "idle"
         /\ enc'.n = 0 /\ enc'.pos = 0
         /\ Kind[m] # "pipe" => place = 0
         /\ Kind[m] = "pipe" => Bytes(pair[enc'.pair].data, m, place)
  <2>1. CASE /\ Kind[m] # "pipe" /\ UNCHANGED delivered
             /\ enc' = [Idle EXCEPT !.pc = IF HasBody(m) THEN "body" ELSE "idle"]
    BY <2>1, MsgType DEF Idle, PassesOn
  <2>2. ASSUME NEW i \in DOMAIN delivered, Kind[m] = "pipe", Forwardable(m, i),
               delivered' = [delivered EXCEPT ![i].st = "forwarded", ![i].pair = NoPair],
               enc' = [Idle EXCEPT !.pc = "body", !.pair = delivered[i].pair]
        PROVE  /\ PassesOn /\ P[i] \in Places(m) /\ enc'.n = 0 /\ enc'.pos = 0
               /\ enc'.pc = IF HasBody(m) THEN "body" ELSE "idle"
               /\ Bytes(pair[enc'.pair].data, m, P[i])
    <3>1. HasBody(m)
      BY <1>0, <2>2, CodecAssumption
    <3>2. P[i] \in Places(m) /\ Bytes(pair[delivered[i].pair].data, m, P[i])
      BY <2>2, ForwardedBody
    <3>3. enc'.n = 0 /\ enc'.pos = 0 /\ enc'.pc = "body" /\ enc'.pair = delivered[i].pair
      BY <2>2 DEF Idle
    <3> QED
      BY <2>2, <3>1, <3>2, <3>3 DEF PassesOn
  <2> QED
    BY <1>1, <2>1, <2>2 DEF Given
<1>8. place \in Nat
  BY MsgType
<1>3. PICK B, Q, Y : Longer(A, P, X, B, Q, Y, m, place)
  BY <1>8, LongerTape DEF Good, Base, IInv
<1>4. /\ DecShape' /\ DecBytes(Q)' /\ Bodies(Q)' /\ Unsent' /\ Tape(B, Q, Y)'
      /\ Numbers(B)' /\ Numbers(Q)'
      /\ DecAt(B)' = DecAt(A) /\ Current' = m /\ Len(taken') = Len(taken) + 1
  BY <1>1, <1>2, <1>3, <1>8, MessageTaken
<1>5. Travel(B, Y)' /\ EncShape'
  BY <1>0, <1>1, <1>2, <1>3, <1>4, <1>8, HeadersGo
<1>6. EncBytes(Q)'
  <2>1. Q[Len(taken')] = place /\ place \in Nat /\ place + 0 = place
    <3>1. Q[Len(taken) + 1] = place
      BY <1>3 DEF Longer
    <3> QED
      BY <1>4, <1>8, <3>1
  <2>2. enc'.pc \in {"body", "idle"}
    BY <1>2
  <2>3. Kind[m] = "pipe" => Bytes(pair'[enc'.pair].data, m, Q[Len(taken')] + enc'.n)
    BY <1>1, <1>2, <2>1
  <2> QED
    BY <1>2, <1>4, <2>1, <2>2, <2>3 DEF EncBytes
<1>7. Good(B, Q, Y)'
  BY <1>4, <1>5, <1>6 DEF Good, Base
<1>9. Placed(Q)'
  BY <1>1, <1>3, LongerIsPlaced
<1> QED
  BY <1>7, <1>9

\* The headers cannot be written: the message is taken and the connection ends.
LEMMA EncodeHeadersFailGood ==
    ASSUME NEW A, NEW P, NEW X, IInv, Good(A, P, X), Placed(P), NEW m \in Msgs,
           EncodeHeadersFail(m)
    PROVE  \E B, Q, Y : Good(B, Q, Y)' /\ Placed(Q)'
<1>1. /\ enc.pc = "idle" /\ taken' = Append(taken, m) /\ UNCHANGED <<wire, dec, pair>>
      /\ PassesOn /\ WriterEnds /\ enc'.pc = "dead" /\ UNCHANGED shifted
  BY DEF EncodeHeadersFail, poolVars, PassesOn, Idle, history
<1>2. /\ buf' = <<>> /\ conn' # "open" /\ (conn' = "eof" => conn \in {"open", "eof"})
      /\ (conn = "reset" => conn' = "reset")
  BY <1>1 DEF WriterEnds, IInv, Types
<1>3. PICK place \in Places(m) : place \in Nat
  BY MsgType
<1>4. PICK B, Q, Y : Longer(A, P, X, B, Q, Y, m, place)
  BY <1>3, LongerTape DEF Good, Base, IInv
<1>5. /\ DecShape' /\ DecBytes(Q)' /\ Bodies(Q)' /\ Unsent' /\ Tape(B, Q, Y)'
      /\ Numbers(B)' /\ Numbers(Q)'
      /\ DecAt(B)' = DecAt(A) /\ Current' = m /\ Len(taken') = Len(taken) + 1
  BY <1>1, <1>2, <1>3, <1>4, MessageTaken
<1>6. PICK a, h, z, d, w \in Nat :
         /\ a = A[Len(taken) + 1] /\ h = HeadLen(m) /\ z = Size[m] /\ d = DecAt(A) /\ w = Len(wire)
  <2>1. A[Len(taken) + 1] \in Nat /\ DecAt(A) \in Nat
    BY AtType DEF Good, Base
  <2>2. HeadLen(m) \in Nat /\ Size[m] \in Nat /\ Len(wire) \in Nat
    BY MsgType, EncIs
  <2> QED
    BY <2>1, <2>2
<1>7. EncAt(B)' = a + h + z
  <2>1. Len(taken) \in Nat
    BY EncIs
  <2>2. Len(taken') + 1 = Len(taken) + 2
    BY <1>5, <2>1
  <2>3. B[Len(taken) + 2] = a + h + z
    BY <1>4, <1>6 DEF Longer
  <2> QED
    BY <1>1, <2>2, <2>3 DEF EncAt
<1>8. Live' => Laid(X, wire, d) /\ d + w <= a
  BY <1>1, <1>2, <1>6 DEF Live, Good, Base, Travel, EncAt
<1>9. Live' => Laid(Y, wire, d)
  <2>1. \A n \in Nat : n < a => Y[n] = X[n]
    BY <1>4, <1>6 DEF Longer
  <2>2. wire \in Seq(Units)
    BY DEF IInv, Types
  <2> QED
    BY <1>6, <1>8, <2>1, <2>2, LaidAgree
<1>10. Live' => d + w <= a + h + z
  BY <1>8
<1>11. Travel(B, Y)'
  BY <1>1, <1>2, <1>5, <1>6, <1>7, <1>9, <1>10 DEF Travel
<1>12. EncShape' /\ EncBytes(Q)'
  BY <1>1, <1>2 DEF EncShape, EncBytes
<1>13. Good(B, Q, Y)'
  BY <1>5, <1>11, <1>12 DEF Good, Base
<1>14. Placed(Q)'
  BY <1>1, <1>3, <1>4, LongerIsPlaced
<1> QED
  BY <1>13, <1>14

-----------------------------------------------------------------------------
(* The decoder's steps.                                                     *)

\* The decoder works, with its own pair or with none: the encoder is left alone.
LEMMA DecoderFrame ==
    ASSUME NEW A, NEW P, NEW X, IInv, Good(A, P, X), DecoderOnly, Same(enc.pair),
           conn' = "open" => conn = "open"
    PROVE  /\ UNCHANGED <<enc, taken, buf>> /\ EncShape' /\ EncBytes(P)' /\ Tape(A, P, X)'
           /\ EncAt(A)' = EncAt(A) /\ Numbers(A)' /\ Numbers(P)'
<1>1. UNCHANGED <<enc, taken, buf>>
  BY DEF DecoderOnly, encVars
<1>2. EncShape' /\ EncBytes(P)'
  BY <1>1, EncFrame DEF Good, Base
<1>3. Tape(A, P, X)' /\ EncAt(A)' = EncAt(A)
  BY <1>1, TapeFrame, EncAtFrame DEF Good, Base
<1> QED
  BY <1>1, <1>2, <1>3 DEF Good, Base, Numbers

\* The encoder has come no further than the message that it was given.
LEMMA EncAtMost ==
    ASSUME NEW A, NEW P, NEW X, IInv, Good(A, P, X)
    PROVE  EncAt(A) <= A[Len(taken) + 1]
<1>1. Len(taken) \in Nat /\ A[Len(taken) + 1] \in Nat
  BY EncIs, AtType DEF Good, Base
<1>2. CASE enc.pc \in {"idle", "dead"}
  BY <1>1, <1>2 DEF EncAt
<1>3. CASE enc.pc \notin {"idle", "dead"}
  <2>1. /\ Current \in Msgs /\ Current = taken[Len(taken)] /\ Len(taken) \in 1 .. Len(taken)
    BY <1>3, EncIs, TakenIs DEF IInv
  <2>2. A[Len(taken) + 1] = A[Len(taken)] + HeadLen(Current) + Size[Current]
    BY <2>1 DEF Good, Base, Tape
  <2>3. enc.n <= Size[Current] /\ enc.n \in Nat
    BY <1>3, EncIs DEF Good, Base, EncShape
  <2>4. PICK a, h, z \in Nat : a = A[Len(taken)] /\ h = HeadLen(Current) /\ z = Size[Current]
    BY <1>1, <2>1, MsgType DEF Good, Base, Numbers
  <2>5. EncAt(A) = a + h + enc.n /\ A[Len(taken) + 1] = a + h + z
    BY <1>3, <2>2, <2>4 DEF EncAt
  <2>6. a + h + enc.n <= a + h + z
    BY <2>3, <2>4
  <2> QED
    BY <2>5, <2>6
<1> QED
  BY <1>2, <1>3

\* The unit that the decoder reads is the next one of the tape.
LEMMA NextUnit ==
    ASSUME NEW A, NEW P, NEW X, IInv, Good(A, P, X), Readable
    PROVE  /\ Head(wire) = X[DecAt(A)] /\ DecAt(A) + 1 <= EncAt(A)
           /\ (/\ wire' = Tail(wire) /\ UNCHANGED <<conn, buf>> /\ EncAt(A)' = EncAt(A)
               /\ DecAt(A)' = DecAt(A) + 1)
              => Travel(A, X)'
<1>1. PICK d, e \in Nat : d = DecAt(A) /\ e = EncAt(A)
  BY AtType DEF Good, Base
<1>2. wire \in Seq(Units) /\ wire # <<>> /\ conn # "reset" /\ conn \in {"open", "eof", "reset"}
      /\ buf \in Seq(Units) /\ Len(buf) \in Nat
  BY DEF Readable, IInv, Types
<1>3. /\ Laid(X, wire, d) /\ d + Len(wire) <= e
      /\ conn = "open" => Laid(X, buf, d + Len(wire)) /\ d + Len(wire) + Len(buf) = e
  BY <1>1, <1>2 DEF Good, Base, Travel, Live
<1>4. /\ Head(wire) = X[d] /\ Laid(X, Tail(wire), d + 1) /\ Len(Tail(wire)) = Len(wire) - 1
      /\ Len(wire) >= 1 /\ Len(wire) \in Nat
  BY <1>2, <1>3, LaidTail
<1>5. d + 1 <= e
  BY <1>3, <1>4
<1>6. (d + 1) + (Len(wire) - 1) = d + Len(wire)
  BY <1>4
<1>7. /\ Laid(X, Tail(wire), d + 1) /\ (d + 1) + Len(Tail(wire)) <= e
      /\ conn = "open" => /\ Laid(X, buf, (d + 1) + Len(Tail(wire)))
                          /\ (d + 1) + Len(Tail(wire)) + Len(buf) = e
  BY <1>3, <1>4, <1>6
<1>8. ASSUME wire' = Tail(wire), UNCHANGED <<conn, buf>>, EncAt(A)' = EncAt(A),
             DecAt(A)' = DecAt(A) + 1
      PROVE  Travel(A, X)'
  BY <1>1, <1>7, <1>8 DEF Travel
<1> QED
  BY <1>1, <1>4, <1>5, <1>8

\* The decoder's record.
LEMMA DecIs ==
    ASSUME NEW A, NEW P, NEW X, IInv, Good(A, P, X)
    PROVE  /\ dec \in DecState /\ dec.n \in Nat /\ dec.data \in Seq(Units)
           /\ Len(delivered) \in Nat /\ Len(taken) \in Nat /\ DOMAIN delivered = 1 .. Len(delivered)
           /\ Len(delivered) <= Len(taken)
           /\ A[Len(delivered) + 1] \in Nat /\ P[Len(delivered) + 1] \in Nat
           /\ dec.pc \in {"head", "grow", "load", "copy"} =>
                 /\ dec.m \in Msgs /\ dec.m = taken[Len(delivered) + 1]
                 /\ Len(delivered) + 1 \in 1 .. Len(taken)
                 /\ HeadLen(dec.m) \in Nat /\ Size[dec.m] \in Nat
<1>1. dec \in DecState /\ dec.n \in Nat /\ dec.data \in Seq(Units)
  BY DEF IInv, Types, DecState
<1>2. Len(delivered) \in Nat /\ Len(taken) \in Nat /\ DOMAIN delivered = 1 .. Len(delivered)
  BY TakenIs DEF IInv
<1>3. A[Len(delivered) + 1] \in Nat /\ P[Len(delivered) + 1] \in Nat
  BY <1>2 DEF Good, Base, Numbers
<1>4. Len(delivered) <= Len(taken)
  BY DEF Good, Base, DecShape
<1>5. dec.pc \in {"head", "grow", "load", "copy"} =>
         /\ dec.m \in Msgs /\ dec.m = taken[Len(delivered) + 1] /\ Len(delivered) < Len(taken)
  BY DEF IInv, DecInv, Good, Base, DecShape
<1> QED
  BY <1>1, <1>2, <1>3, <1>4, <1>5, MsgType

\* The start line that is read is that of the next message.
LEMMA DecodeStartGood ==
    ASSUME NEW A, NEW P, NEW X, IInv, Good(A, P, X), DecodeStart
    PROVE  Good(A, P, X)'
<1>1. /\ dec.pc = "start" /\ Readable /\ wire' = Tail(wire) /\ DecoderOnly
      /\ UNCHANGED <<pair, conn, delivered>>
  BY DEF DecodeStart, poolVars
<1>2. /\ UNCHANGED <<enc, taken, buf>> /\ EncShape' /\ EncBytes(P)' /\ Tape(A, P, X)'
      /\ EncAt(A)' = EncAt(A) /\ Numbers(A)' /\ Numbers(P)'
  BY <1>1, AllSame, DecoderFrame
<1>3. PICK D, L \in Nat : D = Len(delivered) /\ L = Len(taken) /\ D <= L
  BY DecIs
<1>4. PICK a, b, e \in Nat : a = A[D + 1] /\ b = A[L + 1] /\ e = EncAt(A)
  BY <1>3, AtType DEF Good, Base
<1>5. DecAt(A) = a
  BY <1>1, <1>3, <1>4 DEF DecAt
<1>6. Head(wire) = X[a] /\ a + 1 <= e /\ e <= b
  BY <1>1, <1>3, <1>4, <1>5, NextUnit, EncAtMost
<1>7. D < L /\ D + 1 \in 1 .. L
  <2>1. D # L
    BY <1>4, <1>6
  <2> QED
    BY <1>3, <2>1
<1>8. PICK m \in Msgs : m = taken[D + 1]
  BY <1>3, <1>7, TakenIs DEF IInv
<1>9. Head(wire) = Unit(m, "start", 0)
  BY <1>3, <1>4, <1>6, <1>7, <1>8, OnTape DEF IInv, Good, Base
<1>10. Head(wire).part = "start" /\ Head(wire).m = m
  BY <1>9 DEF Unit
<1>11. dec' = [Waiting EXCEPT !.pc = "head", !.m = m, !.todo = Rest(m)]
  BY <1>10 DEF DecodeStart
<1>12. dec'.pc = "head" /\ dec'.m = m /\ dec'.todo = Rest(m) /\ dec'.n = 0 /\ dec'.data = <<>>
  BY <1>11 DEF Waiting
<1>13. HeadLen(m) \in Nat /\ Size[m] \in Nat /\ (Rest(m) = <<>> => HeadLen(m) = 1)
  BY MsgType, HeaderIs
<1>14. DecAt(A)' = DecAt(A) + 1
  <2>1. CASE Rest(m) # <<>>
    BY <1>1, <1>3, <1>4, <1>5, <1>12, <2>1 DEF DecAt
  <2>2. CASE Rest(m) = <<>>
    <3>1. DecAt(A)' = a + 1 + 0
      BY <1>1, <1>3, <1>4, <1>12, <1>13, <2>2 DEF DecAt
    <3> QED
      BY <1>5, <3>1
  <2> QED
    BY <2>1, <2>2
<1>15. Travel(A, X)'
  BY <1>1, <1>2, <1>14, NextUnit
<1>16. DecShape'
  BY <1>1, <1>2, <1>3, <1>7, <1>8, <1>12, <1>13 DEF DecShape, Good, Base
<1>17. DecBytes(P)'
  BY <1>12 DEF DecBytes
<1>18. Bodies(P)' /\ \A i \in DOMAIN delivered : BodyOf(delivered[i])' = BodyOf(delivered[i])
  BY <1>1, AllSame, BodiesFrame DEF Good, Base
<1>19. Unsent'
  BY <1>1, <1>2, <1>12, <1>18 DEF Unsent, Good, Base
<1> QED
  BY <1>2, <1>15, <1>16, <1>17, <1>18, <1>19 DEF Good, Base

\* So is what follows it.
LEMMA DecodeHeadGood ==
    ASSUME NEW A, NEW P, NEW X, IInv, Good(A, P, X), DecodeHead
    PROVE  Good(A, P, X)'
<1>1. /\ dec.pc = "head" /\ dec.todo # <<>> /\ Readable /\ wire' = Tail(wire) /\ DecoderOnly
      /\ UNCHANGED <<pair, conn, delivered>>
  BY DEF DecodeHead, poolVars
<1>2. /\ UNCHANGED <<enc, taken, buf>> /\ EncShape' /\ EncBytes(P)' /\ Tape(A, P, X)'
      /\ EncAt(A)' = EncAt(A) /\ Numbers(A)' /\ Numbers(P)'
  BY <1>1, AllSame, DecoderFrame
<1>3. PICK D \in Nat, m \in Msgs :
         /\ D = Len(delivered) /\ m = dec.m /\ m = taken[D + 1] /\ D + 1 \in 1 .. Len(taken)
  BY <1>1, DecIs
<1>4. PICK a \in Nat : a = A[D + 1]
  BY <1>3, DecIs
<1>5. dec.todo = Rest(m) /\ dec.n = 0 /\ dec.data = <<>>
  BY <1>1, <1>3 DEF Good, Base, DecShape
<1>6. DecAt(A) = a + 1
  BY <1>1, <1>3, <1>4 DEF DecAt
<1>7. HeadLen(m) = 2 /\ Tail(Rest(m)) = <<>>
  BY <1>1, <1>5, HeaderIs
<1>8. Head(wire) = Unit(m, Head(Rest(m)), 0)
  <2>1. X[a + 1] = Unit(m, Head(Rest(m)), 0)
    BY <1>1, <1>3, <1>4, <1>5, OnTape DEF IInv, Good, Base
  <2> QED
    BY <1>1, <1>6, <2>1, NextUnit
<1>9. dec' = [dec EXCEPT !.todo = Tail(@)]
  BY <1>3, <1>5, <1>8 DEF DecodeHead
<1>10. dec'.pc = "head" /\ dec'.m = m /\ dec'.todo = <<>> /\ dec'.n = 0 /\ dec'.data = <<>>
  BY <1>1, <1>3, <1>5, <1>7, <1>9, DecIs DEF DecState
<1>11. DecAt(A)' = DecAt(A) + 1
  <2>1. DecAt(A)' = a + 2 + 0
    BY <1>1, <1>3, <1>4, <1>7, <1>10 DEF DecAt
  <2> QED
    BY <1>6, <2>1
<1>12. Travel(A, X)'
  BY <1>1, <1>2, <1>11, NextUnit
<1>13. DecShape'
  BY <1>1, <1>2, <1>3, <1>5, <1>10 DEF DecShape, Good, Base
<1>14. DecBytes(P)'
  BY <1>10 DEF DecBytes
<1>15. Bodies(P)' /\ \A i \in DOMAIN delivered : BodyOf(delivered[i])' = BodyOf(delivered[i])
  BY <1>1, AllSame, BodiesFrame DEF Good, Base
<1>16. Unsent'
  BY <1>1, <1>2, <1>10, <1>15 DEF Unsent, Good, Base
<1> QED
  BY <1>2, <1>12, <1>13, <1>14, <1>15, <1>16 DEF Good, Base

\* The decoder chooses how to read the body, and reads nothing.
LEMMA DecoderTurns ==
    ASSUME NEW A, NEW P, NEW X, IInv, Good(A, P, X), DecoderOnly,
           UNCHANGED <<wire, conn, delivered>>,
           Same(enc.pair), \A i \in DOMAIN delivered : Same(delivered[i].pair),
           \/ dec.pc = "grow" \/ (dec.pc = "head" /\ dec.todo = <<>>)
           \/ dec.pc = "load" /\ dec.n = 0,
           dec'.pc \in {"grow", "load", "copy"}, dec'.m = dec.m, dec'.n = dec.n,
           dec'.data = dec.data, DecBytes(P)'
    PROVE  Good(A, P, X)'
<1>1. /\ UNCHANGED <<enc, taken, buf>> /\ EncShape' /\ EncBytes(P)' /\ Tape(A, P, X)'
      /\ EncAt(A)' = EncAt(A) /\ Numbers(A)' /\ Numbers(P)'
  BY DecoderFrame
<1>2. dec.n = 0 /\ dec.data = <<>>
  BY DEF Good, Base, DecShape
<1>3. DecAt(A)' = DecAt(A)
  BY DEF DecAt
<1>4. Travel(A, X)'
  BY <1>1, <1>3, TravelFrame DEF Good, Base
<1>5. DecShape'
  BY <1>1, <1>2 DEF DecShape, Good, Base
<1>6. Bodies(P)' /\ \A i \in DOMAIN delivered : BodyOf(delivered[i])' = BodyOf(delivered[i])
  BY BodiesFrame DEF Good, Base
<1>7. Unsent'
  BY <1>1, <1>2, <1>6 DEF Unsent, Good, Base
<1> QED
  BY <1>1, <1>4, <1>5, <1>6, <1>7 DEF Good, Base

\* A pair that is replaced by another in the decoder's hands.
LEMMA DecoderChanges ==
    ASSUME IInv, dec.pair # NoPair, NEW x \in Pipe, pair' = [pair EXCEPT ![dec.pair] = x],
           UNCHANGED <<unused, usedCount>>
    PROVE  /\ pair'[dec.pair] = x /\ Same(enc.pair)
           /\ \A i \in DOMAIN delivered : Same(delivered[i].pair)
<1>1. dec.pair \in DOMAIN pair /\ ~Pooled(dec.pair)
  BY InOneHand
<1>2. OthersKept(dec.pair) /\ pair'[dec.pair] = x
  BY <1>1, ChangePair DEF IInv
<1> QED
  BY <1>2, DecoderOwns

\* Grow leaves the empty pair as it is, or the decoder copies.
LEMMA DecodeGrowGood ==
    ASSUME NEW A, NEW P, NEW X, IInv, Good(A, P, X), DecodeGrow
    PROVE  Good(A, P, X)'
<1>1. /\ dec.pc = "grow" /\ DecoderOnly /\ UNCHANGED <<wire, conn, delivered>>
      /\ dec.pair # NoPair /\ dec \in DecState /\ dec.m \in Msgs /\ dec.n = 0 /\ dec.data = <<>>
      /\ Size[dec.m] \in Nat
  BY DecIs DEF DecodeGrow, IInv, DecInv, Good, Base, DecShape
<1>2. CASE Grow(dec.pair, alignSize(Size[dec.m]) * 2) /\ dec' = [dec EXCEPT !.pc = "load"]
  <2>1. /\ dec'.pc = "load" /\ dec'.m = dec.m /\ dec'.n = dec.n /\ dec'.pair = dec.pair
        /\ dec'.data = dec.data
    BY <1>1, <1>2 DEF DecState
  <2>2. alignSize(Size[dec.m]) * 2 \in Nat
    <3>1. alignSize(Size[dec.m]) \in Nat
      BY <1>1, AlignType
    <3> QED
      BY <3>1
  <2>3. PICK x \in Pipe : x.data = pair[dec.pair].data /\ pair' = [pair EXCEPT ![dec.pair] = x]
                          /\ UNCHANGED <<unused, usedCount>>
    BY <1>1, <1>2, <2>2, GrowIs, InOneHand DEF IInv
  <2>4. /\ pair'[dec.pair].data = pair[dec.pair].data /\ Same(enc.pair)
        /\ \A i \in DOMAIN delivered : Same(delivered[i].pair)
    BY <1>1, <2>3, DecoderChanges
  <2>5. DecBytes(P)'
    BY <1>1, <2>1, <2>4 DEF DecBytes, Bytes, Good, Base
  <2> QED
    BY <1>1, <2>1, <2>4, <2>5, DecoderTurns
<1>3. CASE dec' = [dec EXCEPT !.pc = "copy", !.pair = NoPair] /\ UNCHANGED poolVars
  <2>1. /\ dec'.pc = "copy" /\ dec'.m = dec.m /\ dec'.n = dec.n /\ dec'.data = dec.data
    BY <1>1, <1>3 DEF DecState
  <2>2. UNCHANGED pair
    BY <1>3 DEF poolVars
  <2>3. DecBytes(P)'
    BY <1>1, <2>1, NoBytes DEF DecBytes
  <2> QED
    BY <1>1, <2>1, <2>2, <2>3, AllSame, DecoderTurns
<1> QED
  BY <1>2, <1>3 DEF DecodeGrow

\* While it reads a body, the next unit is the next byte of it, which the encoder has
\* written.
LEMMA NextByte ==
    ASSUME NEW A, NEW P, NEW X, IInv, Good(A, P, X), Readable, dec.pc \in {"load", "copy"},
           dec.n < Size[dec.m]
    PROVE  /\ Head(wire) = Unit(Root(dec.m), "body", P[Len(delivered) + 1] + dec.n + 1)
           /\ ~(enc.pc \in {"body", "grow", "load"} /\ Len(delivered) + 1 = Len(taken))
<1>1. PICK D, L \in Nat, m \in Msgs :
         /\ D = Len(delivered) /\ L = Len(taken) /\ m = dec.m /\ m = taken[D + 1]
         /\ D + 1 \in 1 .. L
  BY DecIs
<1>2. PICK a, p, h, n \in Nat : a = A[D + 1] /\ p = P[D + 1] /\ h = HeadLen(m) /\ n = dec.n
  BY <1>1, DecIs
<1>3. DecAt(A) = a + h + n
  BY <1>1, <1>2 DEF DecAt
<1>4. Head(wire) = X[a + h + n] /\ a + h + n + 1 <= EncAt(A)
  BY <1>3, NextUnit
<1>5. X[a + h + n] = Unit(Root(m), "body", p + n + 1)
  <2>1. \A k \in Nat : k < Size[m] => X[a + h + k] = Unit(Root(m), "body", p + k + 1)
    <3>1. Types /\ Numbers(A) /\ Numbers(P) /\ Tape(A, P, X) /\ D + 1 \in 1 .. Len(taken)
      BY <1>1 DEF Good, Base, IInv
    <3>2. \A k \in Nat : k < Size[taken[D + 1]] =>
             X[A[D + 1] + HeadLen(taken[D + 1]) + k]
                = Unit(Root(taken[D + 1]), "body", P[D + 1] + k + 1)
      BY <3>1, OnTape
    <3> QED
      BY <1>1, <1>2, <3>2
  <2> QED
    BY <1>1, <1>2, <2>1
<1>6. ASSUME enc.pc \in {"body", "grow", "load"}, D + 1 = L
      PROVE  FALSE
  <2>1. Current = m /\ enc.n = 0
    BY <1>1, <1>6, TakenIs, EncIs DEF Good, Base, EncShape, IInv
  <2>2. EncAt(A) = a + h + 0
    BY <1>1, <1>2, <1>6, <2>1 DEF EncAt
  <2> QED
    BY <1>4, <2>2
<1> QED
  BY <1>1, <1>2, <1>4, <1>5, <1>6

\* The decoder reads a byte of the body.
LEMMA DecoderReads ==
    ASSUME NEW A, NEW P, NEW X, IInv, Good(A, P, X), DecoderOnly, Readable, wire' = Tail(wire),
           UNCHANGED <<conn, delivered>>,
           Same(enc.pair), \A i \in DOMAIN delivered : Same(delivered[i].pair),
           dec.pc \in {"load", "copy"}, dec.n < Size[dec.m],
           dec'.pc = dec.pc, dec'.m = dec.m, dec'.n = dec.n + 1, DecBytes(P)',
           dec.pc = "load" => dec'.data = dec.data
    PROVE  Good(A, P, X)'
<1>1. /\ UNCHANGED <<enc, taken, buf>> /\ EncShape' /\ EncBytes(P)' /\ Tape(A, P, X)'
      /\ EncAt(A)' = EncAt(A) /\ Numbers(A)' /\ Numbers(P)'
  BY DecoderFrame
<1>2. PICK a, h, n, z \in Nat :
         a = A[Len(delivered) + 1] /\ h = HeadLen(dec.m) /\ n = dec.n /\ z = Size[dec.m]
  BY DecIs
<1>3. DecAt(A)' = DecAt(A) + 1
  <2>1. DecAt(A) = a + h + n
    BY <1>2 DEF DecAt
  <2>2. DecAt(A)' = a + h + (n + 1)
    BY <1>2 DEF DecAt
  <2> QED
    BY <2>1, <2>2
<1>4. Travel(A, X)'
  BY <1>1, <1>3, NextUnit
<1>5. DecShape'
  <2>1. n + 1 <= z
    BY <1>2
  <2> QED
    BY <1>1, <1>2, <2>1 DEF DecShape, Good, Base
<1>6. Bodies(P)' /\ \A i \in DOMAIN delivered : BodyOf(delivered[i])' = BodyOf(delivered[i])
  BY BodiesFrame DEF Good, Base
<1>7. Unsent'
  <2>1. ~(enc.pc \in {"body", "grow", "load"} /\ Len(delivered) + 1 = Len(taken))
    BY NextByte
  <2> QED
    BY <1>1, <1>6, <2>1 DEF Unsent, Good, Base
<1> QED
  BY <1>1, <1>4, <1>5, <1>6, <1>7 DEF Good, Base

\* A byte is spliced from the connection into the pair.
LEMMA DecodeLoadGood ==
    ASSUME NEW A, NEW P, NEW X, IInv, Good(A, P, X), DecodeLoad
    PROVE  Good(A, P, X)'
<1>1. /\ dec.pc = "load" /\ dec.n < Size[dec.m] /\ Readable /\ DecoderOnly
      /\ wire' = Tail(wire) /\ UNCHANGED <<conn, delivered>>
      /\ dec.pair # NoPair /\ dec \in DecState /\ dec.m \in Msgs /\ dec.n \in Nat
      /\ dec' = [dec EXCEPT !.n = @ + 1]
  BY DecIs DEF DecodeLoad, IInv, DecInv
<1>2. /\ dec'.pc = "load" /\ dec'.m = dec.m /\ dec'.n = dec.n + 1 /\ dec'.pair = dec.pair
      /\ dec'.data = dec.data
  BY <1>1 DEF DecState
<1>3. PICK q \in Nat : q = P[Len(delivered) + 1]
  BY DecIs
<1>4. PICK u \in Units : u = Head(wire) /\ u = Unit(Root(dec.m), "body", q + dec.n + 1)
  <2>1. wire \in Seq(Units) /\ wire # <<>>
    BY <1>1 DEF Readable, IInv, Types
  <2>2. Head(wire) \in Units
    BY <2>1
  <2> QED
    BY <1>1, <1>3, <2>2, NextByte
<1>5. PICK s \in Seq(Units) : s = pair[dec.pair].data
  BY <1>1, InOneHand, PairWith DEF IInv, PoolInv
<1>6. Len(s) = dec.n /\ Bytes(s, dec.m, q)
  BY <1>1, <1>3, <1>5 DEF Good, Base, DecBytes
<1>7. PICK x \in Pipe : /\ x.data = s \o <<u>> /\ pair' = [pair EXCEPT ![dec.pair] = x]
                        /\ UNCHANGED <<unused, usedCount>>
  <2>1. PICK t \in Seq(Units) : t = <<u>>
    BY <<u>> \in Seq(Units)
  <2>2. Load(dec.pair, t) /\ PoolInv /\ dec.pair \in DOMAIN pair
    BY <1>1, <1>4, <2>1, InOneHand DEF DecodeLoad, IInv
  <2>3. /\ UNCHANGED <<unused, usedCount>>
        /\ \E x \in Pipe : x.data = s \o t /\ pair' = [pair EXCEPT ![dec.pair] = x]
    BY <1>5, <2>2, LoadIs
  <2> QED
    BY <2>1, <2>3
<1>8. /\ pair'[dec.pair].data = Append(s, u) /\ Same(enc.pair)
      /\ \A i \in DOMAIN delivered : Same(delivered[i].pair)
  <2>1. s \o <<u>> = Append(s, u)
    OBVIOUS
  <2> QED
    BY <1>1, <1>7, <2>1, DecoderChanges
<1>9. Bytes(Append(s, u), dec.m, q) /\ Len(Append(s, u)) = dec.n + 1
  BY <1>4, <1>6, BytesAppend
<1>10. DecBytes(P)'
  BY <1>1, <1>2, <1>3, <1>8, <1>9 DEF DecBytes, Bytes
<1> QED
  BY <1>1, <1>2, <1>8, <1>10, DecoderReads

\* What the application gets of a message: all that was read of the body, unless the
\* body is closed at once.
LEMMA BodyMade ==
    ASSUME IInv, NEW p, p = dec.pair, NEW data \in Seq(Units), NEW b \in Seq(Units),
           p = NoPair => data = b, p # NoPair => data = <<>> /\ b = pair[p].data,
           Deliver(p, data)
    PROVE  /\ Same(enc.pair) /\ \A i \in DOMAIN delivered : Same(delivered[i].pair)
           /\ \E e, c : /\ delivered' = Append(delivered, e) /\ e.m = dec.m /\ BodyOf(e)' = c
                        /\ c \in {b, <<>>}
                        /\ e.st = "open" => c = b /\ e.pair = p
<1>1. PICK e : e = [m |-> dec.m, data |-> data,
                    st |-> IF opt.closeBody THEN "closed" ELSE "open",
                    pair |-> IF opt.closeBody THEN NoPair ELSE p]
  OBVIOUS
<1>2. delivered' = Append(delivered, e)
  BY <1>1 DEF Deliver
<1>3. \A s \in Seq(Units) : s \o <<>> = s /\ <<>> \o s = s
  OBVIOUS
<1>4. CASE opt.closeBody
  <2>1. e.m = dec.m /\ e.data = data /\ e.st = "closed" /\ e.pair = NoPair
    BY <1>1, <1>4
  <2>2. BodyOf(e)' = data /\ data \in {b, <<>>}
    BY <1>3, <2>1 DEF BodyOf
  <2>3. Same(enc.pair) /\ \A i \in DOMAIN delivered : Same(delivered[i].pair)
    <3>1. CASE p = NoPair
      BY <3>1, AllSame DEF Deliver, poolVars
    <3>2. CASE p # NoPair
      <4>1. done(p) /\ p \in DOMAIN pair /\ ~Pooled(p) /\ PoolInv
        BY <1>4, <3>2, InOneHand DEF Deliver, IInv
      <4>2. OthersKept(p)
        BY <4>1, DonePair
      <4> QED
        BY <3>2, <4>2, DecoderOwns
    <3> QED
      BY <3>1, <3>2
  <2> QED
    BY <1>2, <2>1, <2>2, <2>3
<1>5. CASE ~opt.closeBody
  <2>1. e.m = dec.m /\ e.data = data /\ e.st = "open" /\ e.pair = p
    BY <1>1, <1>5
  <2>2. UNCHANGED pair
    BY <1>5 DEF Deliver, poolVars
  <2>3. BodyOf(e)' = b
    <3>1. CASE p = NoPair
      BY <1>3, <2>1, <3>1 DEF BodyOf
    <3>2. CASE p # NoPair
      BY <1>3, <2>1, <2>2, <3>2 DEF BodyOf
    <3> QED
      BY <3>1, <3>2
  <2>4. Same(enc.pair) /\ \A i \in DOMAIN delivered : Same(delivered[i].pair)
    BY <2>2, AllSame
  <2> QED
    BY <1>2, <2>1, <2>3, <2>4
<1> QED
  BY <1>4, <1>5

\* A message is delivered when its body is complete, or spliced and cut off by the end
\* of the connection.
LEMMA DeliverGood ==
    ASSUME NEW A, NEW P, NEW X, IInv, Good(A, P, X), DecoderOnly, UNCHANGED <<wire, conn>>,
           NEW p, p = dec.pair, NEW data \in Seq(Units), NEW b \in Seq(Units),
           p = NoPair => data = b, p # NoPair => data = <<>> /\ b = pair[p].data,
           dec.pc \in {"head", "load", "copy"}, dec.pc = "head" => dec.todo = <<>>,
           Len(b) = dec.n, Bytes(b, dec.m, P[Len(delivered) + 1]),
           dec.n = Size[dec.m] \/ (conn = "eof" /\ wire = <<>> /\ p # NoPair),
           Deliver(p, data)
    PROVE  Good(A, P, X)'
<1>1. PICK e, c : /\ delivered' = Append(delivered, e) /\ e.m = dec.m /\ BodyOf(e)' = c
                  /\ c \in {b, <<>>}
                  /\ e.st = "open" => c = b /\ e.pair = p
  BY BodyMade
<1>2. Same(enc.pair) /\ \A i \in DOMAIN delivered : Same(delivered[i].pair)
  BY BodyMade
<1>3. /\ UNCHANGED <<enc, taken, buf>> /\ EncShape' /\ EncBytes(P)' /\ Tape(A, P, X)'
      /\ EncAt(A)' = EncAt(A) /\ Numbers(A)' /\ Numbers(P)'
  BY <1>2, DecoderFrame
<1>4. PICK D, L, n, z, h, a, q \in Nat, m \in Msgs :
         /\ D = Len(delivered) /\ L = Len(taken) /\ m = dec.m /\ m = taken[D + 1]
         /\ D + 1 \in 1 .. L /\ n = dec.n /\ z = Size[m] /\ h = HeadLen(m) /\ a = A[D + 1]
         /\ q = P[D + 1] /\ n <= z /\ dec.n \in Nat
  <2>1. PICK D, L \in Nat, m \in Msgs :
           D = Len(delivered) /\ L = Len(taken) /\ m = dec.m /\ m = taken[D + 1] /\ D + 1 \in 1 .. L
    BY DecIs
  <2>2. /\ dec.n \in Nat /\ Size[m] \in Nat /\ HeadLen(m) \in Nat /\ A[D + 1] \in Nat
        /\ P[D + 1] \in Nat
    BY <2>1, DecIs
  <2>3. dec.n <= Size[m]
    BY <2>1 DEF Good, Base, DecShape
  <2> QED
    BY <2>1, <2>2, <2>3
<1>5. /\ Len(delivered') = D + 1 /\ DOMAIN delivered' = 1 .. D + 1 /\ DOMAIN delivered = 1 .. D
      /\ delivered'[D + 1] = e /\ \A i \in 1 .. D : delivered'[i] = delivered[i]
  <2>1. delivered \in Seq(Body)
    BY DEF IInv, Types
  <2> QED
    BY <1>1, <1>4, <2>1
<1>6. dec'.pc = "start"
  BY DEF Deliver, Waiting
<1>7. Whole(D + 1, P)'
  <2>1. Len(b) = n /\ Bytes(b, m, q) /\ Bytes(<<>>, m, q) /\ Len(<<>>) = 0
    BY <1>4, NoBytes
  <2>2. BodyOf(delivered[D + 1])' = c /\ delivered'[D + 1].m = m
    BY <1>1, <1>4, <1>5
  <2>3. Len(c) <= z /\ Bytes(c, m, q)
    BY <1>1, <1>4, <2>1
  <2>4. e.st = "open" /\ (conn = "open" \/ e.pair = NoPair) => Len(c) = z
    BY <1>1, <1>4, <2>1
  <2> QED
    BY <1>4, <1>5, <2>2, <2>3, <2>4 DEF Whole
<1>8. ASSUME NEW i \in 1 .. D
      PROVE  Whole(i, P)'
  BY <1>2, <1>5, BodyFrame DEF Good, Base, Bodies
<1>9. Bodies(P)'
  <2>1. ASSUME NEW i \in 1 .. D + 1 PROVE Whole(i, P)'
    <3>1. i \in 1 .. D \/ i = D + 1
      BY <1>4
    <3> QED
      BY <1>7, <1>8, <3>1
  <2> QED
    BY <1>5, <2>1 DEF Bodies
<1>10. Travel(A, X)'
  <2>1. CASE dec.n = Size[dec.m]
    <3>1. DecAt(A) = a + h + n
      BY <1>4 DEF DecAt
    <3>2. A[(D + 1) + 1] = a + h + z
      BY <1>4 DEF Good, Base, Tape
    <3>3. DecAt(A)' = A[(D + 1) + 1]
      BY <1>5, <1>6 DEF DecAt
    <3>4. DecAt(A)' = DecAt(A)
      BY <1>4, <2>1, <3>1, <3>2, <3>3
    <3> QED
      BY <1>3, <3>4, TravelFrame DEF Good, Base
  <2>2. CASE conn = "eof" /\ wire = <<>>
    BY <2>2 DEF Travel, Live
  <2> QED
    BY <2>1, <2>2
<1>11. DecShape'
  <2>1. ASSUME NEW i \in 1 .. D + 1 PROVE delivered'[i].m = taken[i]
    <3>1. i \in 1 .. D \/ i = D + 1
      BY <1>4
    <3>2. i \in 1 .. D => delivered[i].m = taken[i]
      BY <1>5 DEF Good, Base, DecShape
    <3> QED
      BY <1>1, <1>4, <1>5, <3>1, <3>2
  <2>2. Len(delivered') <= Len(taken')
    BY <1>3, <1>4, <1>5
  <2> QED
    BY <1>3, <1>5, <1>6, <2>1, <2>2 DEF DecShape
<1>12. DecBytes(P)'
  BY <1>6 DEF DecBytes
<1>13. Unsent'
  <2>1. ASSUME enc.pc \in {"body", "grow", "load"}, NEW i \in 1 .. D + 1, i = L
        PROVE  BodyOf(delivered[i])' = <<>>
    <3>1. i = D + 1 /\ D + 1 = L
      BY <1>4, <2>1
    <3>2. dec.n = 0
      BY <1>4, <2>1, <3>1 DEF Good, Base, Unsent, DecShape
    <3>3. b = <<>>
      BY <3>2
    <3> QED
      BY <1>1, <1>5, <3>1, <3>3
  <2> QED
    BY <1>3, <1>4, <1>5, <1>6, <2>1 DEF Unsent
<1> QED
  BY <1>3, <1>9, <1>10, <1>11, <1>12, <1>13 DEF Good, Base

\* A message without a body is delivered; another gets a pair or is copied.
LEMMA DecodeBodyGood ==
    ASSUME NEW A, NEW P, NEW X, IInv, Good(A, P, X), DecodeBody
    PROVE  Good(A, P, X)'
<1>1. /\ dec.pc = "head" /\ dec.todo = <<>> /\ DecoderOnly /\ UNCHANGED <<wire, conn>>
      /\ dec.pair = NoPair /\ dec \in DecState /\ dec.n = 0 /\ dec.data = <<>>
  BY DecIs DEF DecodeBody, IInv, DecInv, Good, Base, DecShape
<1>2. CASE Size[dec.m] = 0 /\ Deliver(NoPair, <<>>)
  <2>1. PICK b \in Seq(Units) : b = <<>>
    BY <<>> \in Seq(Units)
  <2>2. Len(b) = dec.n /\ Bytes(b, dec.m, P[Len(delivered) + 1])
    BY <1>1, <2>1, NoBytes
  <2> QED
    BY <1>1, <1>2, <2>1, <2>2, DeliverGood
<1>3. CASE dec' = [dec EXCEPT !.pc = "copy"] /\ UNCHANGED <<pair, delivered>>
  <2>1. dec'.pc = "copy" /\ dec'.m = dec.m /\ dec'.n = dec.n /\ dec'.data = dec.data
    BY <1>1, <1>3 DEF DecState
  <2>2. DecBytes(P)'
    BY <1>1, <2>1, NoBytes DEF DecBytes
  <2> QED
    BY <1>1, <1>3, <2>1, <2>2, AllSame, DecoderTurns
<1>4. ASSUME NEW p \in Pairs, get(p), dec' = [dec EXCEPT !.pc = "grow", !.pair = p],
             UNCHANGED delivered
      PROVE  Good(A, P, X)'
  <2>1. /\ dec'.pc = "grow" /\ dec'.m = dec.m /\ dec'.n = dec.n /\ dec'.data = dec.data
        /\ dec'.pair = p
    BY <1>1, <1>4 DEF DecState
  <2>2. pair'[p].data = <<>> /\ Same(enc.pair)
        /\ \A i \in DOMAIN delivered : Same(delivered[i].pair)
    BY <1>4, GetSame
  <2>3. DecBytes(P)'
    BY <1>1, <2>1, <2>2, NoBytes DEF DecBytes
  <2> QED
    BY <1>1, <1>4, <2>1, <2>2, <2>3, DecoderTurns
<1> QED
  BY <1>2, <1>3, <1>4 DEF DecodeBody, NoPairMade, getFails, poolVars

\* LoadFrom fails before it has a byte of the body, which is then copied.
LEMMA DecodeLoadFailGood ==
    ASSUME NEW A, NEW P, NEW X, IInv, Good(A, P, X), ~Misframed', DecodeLoadFail
    PROVE  Good(A, P, X)'
<1>1. /\ dec.pc = "load" /\ DecoderOnly /\ UNCHANGED <<wire, conn, delivered, pair>>
      /\ dec \in DecState /\ dec.n \in Nat
      /\ dec' = [dec EXCEPT !.pc = "copy", !.pair = NoPair, !.n = 0]
      /\ torn' = IF dec.n > 0 THEN torn \cup {dec.m} ELSE torn
  BY DecIs DEF DecodeLoadFail, poolVars
<1>2. dec.n = 0
  <2>1. torn' = {}
    BY DEF Misframed
  <2> QED
    BY <1>1, <2>1
<1>3. dec.data = <<>>
  BY <1>1 DEF Good, Base, DecShape
<1>4. dec'.pc = "copy" /\ dec'.m = dec.m /\ dec'.n = dec.n /\ dec'.data = dec.data
  BY <1>1, <1>2 DEF DecState
<1>5. DecBytes(P)'
  BY <1>2, <1>3, <1>4, NoBytes DEF DecBytes
<1> QED
  BY <1>1, <1>2, <1>4, <1>5, AllSame, DecoderTurns

\* The loop over LoadFrom ends, and the pair goes to the application.
LEMMA DecodeLoadedGood ==
    ASSUME NEW A, NEW P, NEW X, IInv, Good(A, P, X), DecodeLoaded
    PROVE  Good(A, P, X)'
<1>1. /\ dec.pc = "load" /\ LoadEnded /\ DecoderOnly /\ UNCHANGED <<wire, conn>>
      /\ dec.pair # NoPair /\ Deliver(dec.pair, <<>>)
  BY DEF DecodeLoaded, IInv, DecInv
<1>2. PICK b, data \in Seq(Units) : b = pair[dec.pair].data /\ data = <<>>
  BY <1>1, InOneHand, PairWith, <<>> \in Seq(Units) DEF IInv, PoolInv
<1>3. Len(b) = dec.n /\ Bytes(b, dec.m, P[Len(delivered) + 1])
  BY <1>1, <1>2 DEF Good, Base, DecBytes
<1>4. dec.n = Size[dec.m] \/ (conn = "eof" /\ wire = <<>> /\ dec.pair # NoPair)
  BY <1>1 DEF LoadEnded
<1> QED
  BY <1>1, <1>2, <1>3, <1>4, DeliverGood

\* A byte is copied, or the copy is complete.
LEMMA DecodeCopyGood ==
    ASSUME NEW A, NEW P, NEW X, IInv, Good(A, P, X), DecodeCopy
    PROVE  Good(A, P, X)'
<1>1. /\ dec.pc = "copy" /\ DecoderOnly /\ UNCHANGED conn /\ dec.pair = NoPair
      /\ dec \in DecState /\ dec.n \in Nat /\ dec.data \in Seq(Units) /\ dec.m \in Msgs
      /\ Len(dec.data) = dec.n /\ Bytes(dec.data, dec.m, P[Len(delivered) + 1])
  BY DecIs DEF DecodeCopy, IInv, DecInv, Good, Base, DecBytes
<1>2. CASE /\ dec.n < Size[dec.m] /\ Readable /\ wire' = Tail(wire)
           /\ dec' = [dec EXCEPT !.n = @ + 1, !.data = Append(@, Head(wire))]
           /\ UNCHANGED <<poolVars, delivered>>
  <2>1. /\ dec'.pc = "copy" /\ dec'.m = dec.m /\ dec'.n = dec.n + 1
        /\ dec'.data = Append(dec.data, Head(wire))
    BY <1>1, <1>2 DEF DecState
  <2>2. UNCHANGED pair
    BY <1>2 DEF poolVars
  <2>3. PICK q \in Nat : q = P[Len(delivered) + 1]
    BY DecIs
  <2>4. PICK u \in Units : u = Head(wire) /\ u = Unit(Root(dec.m), "body", q + dec.n + 1)
    <3>1. wire \in Seq(Units) /\ wire # <<>>
      BY <1>2 DEF Readable, IInv, Types
    <3>2. Head(wire) \in Units
      BY <3>1
    <3> QED
      BY <1>1, <1>2, <2>3, <3>2, NextByte
  <2>5. Bytes(Append(dec.data, u), dec.m, q) /\ Len(Append(dec.data, u)) = dec.n + 1
    BY <1>1, <2>3, <2>4, BytesAppend, SMTT(30)
  <2>6. DecBytes(P)'
    BY <1>2, <2>1, <2>3, <2>4, <2>5 DEF DecBytes
  <2> QED
    BY <1>1, <1>2, <2>1, <2>2, <2>6, AllSame, DecoderReads
<1>3. CASE dec.n = Size[dec.m] /\ Deliver(NoPair, dec.data) /\ UNCHANGED wire
  BY <1>1, <1>3, DeliverGood
<1> QED
  BY <1>2, <1>3 DEF DecodeCopy

\* The reader gives up, and the connection with it.
LEMMA DecodeFailGood ==
    ASSUME NEW A, NEW P, NEW X, IInv, Good(A, P, X), DecodeFail
    PROVE  Good(A, P, X)'
<1>1. /\ DecoderOnly /\ UNCHANGED <<pair, wire, delivered>> /\ conn' = "reset"
      /\ dec'.pc = "done"
  BY DEF DecodeFail, poolVars, Waiting
<1>2. /\ UNCHANGED <<enc, taken, buf>> /\ EncShape' /\ EncBytes(P)' /\ Tape(A, P, X)'
      /\ EncAt(A)' = EncAt(A) /\ Numbers(A)' /\ Numbers(P)'
  BY <1>1, AllSame, DecoderFrame
<1>3. Bodies(P)' /\ \A i \in DOMAIN delivered : BodyOf(delivered[i])' = BodyOf(delivered[i])
  BY <1>1, AllSame, BodiesFrame DEF Good, Base
<1>4. Travel(A, X)' /\ DecBytes(P)'
  BY <1>1 DEF Travel, Live, DecBytes
<1>5. DecShape' /\ Unsent'
  BY <1>1, <1>2, <1>3 DEF DecShape, Unsent, Good, Base
<1> QED
  BY <1>2, <1>3, <1>4, <1>5 DEF Good, Base

-----------------------------------------------------------------------------
(* The application and the connection.                                      *)

\* What concerns neither goroutine: the bodies change and nothing else.
LEMMA ApplicationFrame ==
    ASSUME NEW A, NEW P, NEW X, IInv, Good(A, P, X),
           UNCHANGED <<taken, buf, enc, wire, conn, dec>>, Same(enc.pair), Same(dec.pair),
           Len(delivered') = Len(delivered), DOMAIN delivered' = DOMAIN delivered,
           \A j \in DOMAIN delivered : delivered'[j].m = delivered[j].m,
           \A j \in DOMAIN delivered :
              Whole(j, P)' /\ (BodyOf(delivered[j]) = <<>> => BodyOf(delivered[j])' = <<>>)
    PROVE  Good(A, P, X)'
<1>1. EncShape' /\ EncBytes(P)'
  BY EncFrame DEF Good, Base
<1>2. DecShape' /\ DecBytes(P)'
  <2>1. Len(taken) \in Nat
    BY EncIs
  <2> QED
    BY <2>1, DecFrame DEF Good, Base
<1>3. Tape(A, P, X)' /\ DecAt(A)' = DecAt(A) /\ EncAt(A)' = EncAt(A)
  BY TapeFrame, DecAtFrame, EncAtFrame DEF Good, Base
<1>4. Travel(A, X)'
  BY <1>3, TravelFrame DEF Good, Base
<1>5. Bodies(P)'
  BY DEF Bodies
<1>6. Unsent'
  BY DEF Unsent, Good, Base
<1> QED
  BY <1>1, <1>2, <1>3, <1>4, <1>5, <1>6 DEF Good, Base, Numbers

\* The application reads: bytes move from the pair to what it has read.
LEMMA ReadGood ==
    ASSUME NEW A, NEW P, NEW X, IInv, Good(A, P, X), NEW i \in DOMAIN delivered, Read(i)
    PROVE  Good(A, P, X)'
<1>1. /\ UNCHANGED <<taken, buf, enc, wire, conn, dec>> /\ delivered[i].pair # NoPair
      /\ delivered \in Seq(Body) /\ delivered[i] \in Body
  BY DEF Read, encVars, IInv, Types
<1>2. PICK p \in DOMAIN pair : p = delivered[i].pair /\ ~Pooled(p) /\ enc.pair # p /\ dec.pair # p
  BY <1>1, InOneHand
<1>3. PICK s, t \in Seq(Units) : s = delivered[i].data /\ t = pair[p].data
  <2>1. pair[p].data \in Seq(Units)
    BY PairWith DEF IInv, PoolInv
  <2> QED
    BY <1>1, <2>1 DEF Body
<1>4. PICK both \in Seq(Units) : both = s \o t
  BY s \o t \in Seq(Units)
<1>5. PICK e : e = [delivered[i] EXCEPT !.data = both]
  OBVIOUS
<1>6. /\ e \in Body /\ e.m = delivered[i].m /\ e.data = both /\ e.st = delivered[i].st
      /\ e.pair = p
  BY <1>1, <1>2, <1>5 DEF Body
<1>7. delivered' = [delivered EXCEPT ![i] = e]
  BY <1>2, <1>3, <1>4, <1>5 DEF Read
<1>8. /\ Len(delivered') = Len(delivered) /\ DOMAIN delivered' = DOMAIN delivered
      /\ delivered'[i] = e /\ \A j \in DOMAIN delivered : j # i => delivered'[j] = delivered[j]
  BY <1>1, <1>6, <1>7, Updated
<1>9. pair'[p].data = <<>> /\ OthersKept(p)
  <2>1. Drain(p, Len(t)) /\ Len(t) \in Nat /\ Len(t) <= Len(pair[p].data) /\ PoolInv
    BY <1>2, <1>3 DEF Read, IInv
  <2>2. PICK x \in Pipe : /\ Len(x.data) = Len(t) - Len(t) /\ pair' = [pair EXCEPT ![p] = x]
                          /\ UNCHANGED <<unused, usedCount>>
    BY <1>3, <2>1, DrainIs
  <2>3. x.data = <<>>
    <3>1. x.data \in Seq(Units)
      BY DEF Pipe
    <3>2. Len(x.data) = 0
      BY <2>1, <2>2
    <3> QED
      BY <3>1, <3>2
  <2> QED
    BY <1>2, <2>1, <2>2, <2>3, ChangePair
<1>10. /\ Same(enc.pair) /\ Same(dec.pair)
       /\ \A j \in DOMAIN delivered : j # i => Same(delivered[j].pair)
  <2>1. \A j \in DOMAIN delivered : j # i /\ delivered[j].pair # NoPair => delivered[j].pair # p
    BY <1>1, <1>2 DEF IInv, BodyInv
  <2> QED
    BY <1>2, <1>9, <2>1, OthersSame DEF Same
<1>11. BodyOf(delivered[i]) = both /\ BodyOf(delivered[i])' = both
  <2>1. BodyOf(delivered[i]) = both
    BY <1>1, <1>2, <1>3, <1>4 DEF BodyOf
  <2>2. BodyOf(delivered[i])' = both \o <<>>
    BY <1>1, <1>2, <1>6, <1>8, <1>9 DEF BodyOf
  <2> QED
    BY <2>1, <2>2, \A r \in Seq(Units) : r \o <<>> = r
<1>12. Whole(i, P)'
  <2>1. Whole(i, P)
    BY DEF Good, Base, Bodies
  <2> QED
    BY <1>1, <1>2, <1>6, <1>8, <1>11, <2>1 DEF Whole, Bytes
<1>13. ASSUME NEW j \in DOMAIN delivered
       PROVE  Whole(j, P)' /\ (BodyOf(delivered[j]) = <<>> => BodyOf(delivered[j])' = <<>>)
  <2>1. CASE j = i
    BY <1>11, <1>12, <2>1
  <2>2. CASE j # i
    BY <1>1, <1>8, <1>10, <2>2, BodyFrame DEF Good, Base, Bodies
  <2> QED
    BY <2>1, <2>2
<1>14. \A j \in DOMAIN delivered : delivered'[j].m = delivered[j].m
  BY <1>6, <1>8
<1> QED
  BY <1>1, <1>8, <1>10, <1>13, <1>14, ApplicationFrame

\* The application closes a body, and its pair goes to the pool.
LEMMA CloseGood ==
    ASSUME NEW A, NEW P, NEW X, IInv, Good(A, P, X), NEW i \in DOMAIN delivered, Close(i)
    PROVE  Good(A, P, X)'
<1>1. /\ UNCHANGED <<taken, buf, enc, wire, conn, dec>>
      /\ delivered' = [delivered EXCEPT ![i].st = "closed", ![i].pair = NoPair]
  BY DEF Close, encVars
<1>2. /\ Len(delivered') = Len(delivered) /\ DOMAIN delivered' = DOMAIN delivered
      /\ \A j \in DOMAIN delivered : j # i => delivered'[j] = delivered[j]
      /\ \A j \in DOMAIN delivered : delivered'[j].m = delivered[j].m
      /\ delivered'[i].data = delivered[i].data /\ delivered'[i].st = "closed"
      /\ delivered'[i].pair = NoPair
  BY <1>1, BodyLeaves, "closed" \in {"closed", "forwarded"}
<1>3. /\ Same(enc.pair) /\ Same(dec.pair)
      /\ \A j \in DOMAIN delivered : j # i => Same(delivered[j].pair)
  <2>1. CASE delivered[i].pair = NoPair
    BY <2>1, AllSame DEF Close, poolVars
  <2>2. CASE delivered[i].pair # NoPair
    <3>1. PICK p \in DOMAIN pair :
             p = delivered[i].pair /\ ~Pooled(p) /\ enc.pair # p /\ dec.pair # p
      BY <2>2, InOneHand
    <3>2. done(p) /\ PoolInv
      BY <2>2, <3>1 DEF Close, IInv
    <3>3. OthersKept(p)
      BY <3>1, <3>2, DonePair
    <3>4. \A j \in DOMAIN delivered : j # i /\ delivered[j].pair # NoPair => delivered[j].pair # p
      BY <3>1 DEF IInv, BodyInv
    <3> QED
      BY <3>1, <3>3, <3>4, OthersSame DEF Same
  <2> QED
    BY <2>1, <2>2
<1>4. ASSUME NEW j \in DOMAIN delivered
      PROVE  Whole(j, P)' /\ (BodyOf(delivered[j]) = <<>> => BodyOf(delivered[j])' = <<>>)
  <2>1. Whole(j, P)
    BY DEF Good, Base, Bodies
  <2>2. CASE j = i
    BY <1>2, <2>1, <2>2, LeftIsWhole, "closed" # "open"
  <2>3. CASE j # i
    BY <1>1, <1>2, <1>3, <2>1, <2>3, BodyFrame
  <2> QED
    BY <2>2, <2>3
<1> QED
  BY <1>1, <1>2, <1>3, <1>4, ApplicationFrame

\* The connection ends, and only a beginning of what is on the way arrives.
LEMMA ConnEndGood ==
    ASSUME NEW A, NEW P, NEW X, IInv, Good(A, P, X), ConnEnd
    PROVE  Good(A, P, X)'
<1>1. /\ UNCHANGED <<pair, taken, buf, enc, dec, delivered>> /\ conn = "open"
      /\ conn' \in {"eof", "reset"}
  BY DEF ConnEnd, poolVars, encVars, decVars
<1>2. PICK k \in 0 .. Len(wire) : wire' = SubSeq(wire, 1, k)
  BY DEF ConnEnd
<1>3. wire \in Seq(Units) /\ Len(wire) \in Nat /\ conn' # "open"
  BY <1>1 DEF IInv, Types
<1>4. PICK d, e \in Nat : d = DecAt(A) /\ e = EncAt(A)
  BY AtType DEF Good, Base
<1>5. Laid(X, wire, d) /\ d + Len(wire) <= e
  BY <1>1, <1>4 DEF Good, Base, Travel, Live
<1>6. Laid(X, wire', d) /\ Len(wire') = k
  BY <1>2, <1>3, <1>5, LaidPart
<1>7. d + k <= e
  BY <1>3, <1>5
<1>8. EncShape' /\ EncBytes(P)'
  BY <1>1, <1>3, AllSame, EncFrame DEF Good, Base
<1>9. DecShape' /\ DecBytes(P)'
  <2>1. Len(taken) \in Nat
    BY EncIs
  <2> QED
    BY <1>1, <2>1, AllSame, DecFrame DEF Good, Base
<1>10. Tape(A, P, X)' /\ DecAt(A)' = d /\ EncAt(A)' = e
  BY <1>1, <1>4, TapeFrame, DecAtFrame, EncAtFrame DEF Good, Base
<1>11. Travel(A, X)'
  BY <1>3, <1>6, <1>7, <1>10 DEF Travel
<1>12. Bodies(P)' /\ \A i \in DOMAIN delivered : BodyOf(delivered[i])' = BodyOf(delivered[i])
  BY <1>1, <1>3, AllSame, BodiesFrame DEF Good, Base
<1>13. Unsent'
  BY <1>1, <1>12, UnsentFrame DEF Good, Base
<1> QED
  BY <1>8, <1>9, <1>10, <1>11, <1>12, <1>13 DEF Good, Base, Numbers

\* A step of nobody.
LEMMA StutterGood ==
    ASSUME NEW A, NEW P, NEW X, IInv, Good(A, P, X), UNCHANGED vars
    PROVE  Good(A, P, X)'
<1>1. UNCHANGED <<pair, taken, buf, enc, wire, conn, dec, delivered>>
  BY DEF vars
<1>2. ASSUME NEW j \in DOMAIN delivered
      PROVE  Whole(j, P)' /\ (BodyOf(delivered[j]) = <<>> => BodyOf(delivered[j])' = <<>>)
  BY <1>1, AllSame, BodyFrame DEF Good, Base, Bodies
<1> QED
  BY <1>1, <1>2, AllSame, ApplicationFrame

-----------------------------------------------------------------------------
(* The theorems.                                                            *)

\* Before anything is sent the tape is empty.
LEMMA InitStream == Init => StreamInv
<1> SUFFICES ASSUME Init PROVE StreamInv
  OBVIOUS
<1>1. PICK A : A = [i \in Nat |-> 0]
  OBVIOUS
<1>2. \A i \in Nat : A[i] = 0 /\ A[i] \in Nat
  BY <1>1
<1>3. /\ taken = <<>> /\ buf = <<>> /\ wire = <<>> /\ delivered = <<>>
      /\ Len(taken) = 0 /\ Len(buf) = 0 /\ Len(wire) = 0 /\ Len(delivered) = 0
      /\ DOMAIN delivered = {} /\ 1 .. Len(taken) = {} /\ 1 .. Len(buf) = {} /\ 1 .. Len(wire) = {}
      /\ enc.pc = "idle" /\ dec.pc = "start"
  BY DEF Init, Idle, Waiting
<1>4. EncShape /\ EncBytes(A) /\ DecBytes(A) /\ Unsent
  BY <1>3 DEF EncShape, EncBytes, DecBytes, Unsent
<1>5. DecShape /\ Bodies(A)
  BY <1>3 DEF DecShape, Bodies
<1>6. Tape(A, A, A)
  <2>1. \A i, j \in 1 .. Len(taken) + 1 : ~(i < j)
    BY <1>3
  <2> QED
    BY <1>3, <2>1 DEF Tape
<1>7. Travel(A, A)
  <2>1. EncAt(A) = 0 /\ DecAt(A) = 0
    BY <1>2, <1>3 DEF EncAt, DecAt
  <2> QED
    BY <1>3, <2>1 DEF Travel, Laid
<1>8. Good(A, A, A)
  BY <1>2, <1>4, <1>5, <1>6, <1>7 DEF Good, Base, Numbers
<1>9. Placed(A)
  BY <1>3 DEF Placed
<1> QED
  BY <1>8, <1>9 DEF StreamInv

\* The history grows, and only EncodeHeaders takes a message.
LEMMA HistoryGrows ==
    ASSUME Encoder \/ Decoder \/ Application \/ ConnEnd \/ UNCHANGED vars
    PROVE  UNCHANGED taken /\ torn \subseteq torn' /\ shifted \subseteq shifted'
<1>1. CASE Flush \/ EncodeBody \/ EncodeGrow \/ EncodeLoad \/ EncodeLoadConn
  BY <1>1 DEF Flush, EncodeBody, EncodeGrow, EncodeLoad, EncodeLoadConn, EncoderOnly, history
<1>2. CASE EncodeLoadConnFail \/ EncodeWrite \/ EncodeCopy \/ EncodeClose \/ EncodeReturn
  BY <1>2 DEF EncodeLoadConnFail, EncodeWrite, EncodeCopy, EncodeClose, EncodeReturn, EncoderOnly,
              history
<1>3. CASE DecodeStart \/ DecodeHead \/ DecodeBody \/ DecodeGrow \/ DecodeLoad
  BY <1>3 DEF DecodeStart, DecodeHead, DecodeBody, DecodeGrow, DecodeLoad, DecoderOnly, encVars,
              history
<1>4. CASE DecodeLoadFail \/ DecodeLoaded \/ DecodeCopy \/ DecodeFail
  BY <1>4 DEF DecodeLoadFail, DecodeLoaded, DecodeCopy, DecodeFail, DecoderOnly, encVars, history
<1>5. CASE Application \/ ConnEnd \/ UNCHANGED vars
  BY <1>5 DEF Application, Read, Close, ConnEnd, vars, encVars, history
<1> QED
  BY <1>1, <1>2, <1>3, <1>4, <1>5 DEF Encoder, Decoder

\* Boundaries that were lost are not found again.
LEMMA FramedBefore ==
    ASSUME IInv, [Next]_vars, ~Misframed'
    PROVE  ~Misframed
<1>1. torn \subseteq torn' /\ ToSet(taken) \subseteq ToSet(taken')
  <2>1. ASSUME NEW m \in Msgs, EncodeHeaders(m) \/ EncodeHeadersFail(m)
        PROVE  torn \subseteq torn' /\ ToSet(taken) \subseteq ToSet(taken')
    <3>1. UNCHANGED torn /\ taken' = Append(taken, m) /\ taken \in Seq(Msgs)
      BY <2>1 DEF EncodeHeaders, EncodeHeadersFail, history, IInv, Types
    <3>2. \A i \in DOMAIN taken : i \in DOMAIN taken' /\ taken'[i] = taken[i]
      BY <3>1
    <3> QED
      BY <3>1, <3>2 DEF ToSet
  <2> QED
    BY <2>1, HistoryGrows DEF Next
<1> QED
  BY <1>1 DEF Misframed

\* Every step keeps the tape or makes it longer, until the boundaries are lost.
LEMMA NextStream ==
    ASSUME PassedOnKept, IInv, StreamInv, [Next]_vars
    PROVE  StreamInv'
<1> SUFFICES ASSUME ~Misframed'
             PROVE  \E B, Q, Y : Good(B, Q, Y)' /\ Placed(Q)'
  BY DEF StreamInv
<1>1. PICK A, P, X : Good(A, P, X) /\ Placed(P)
  BY FramedBefore DEF StreamInv
<1>2. ASSUME NEW m \in Msgs, EncodeHeaders(m) \/ EncodeHeadersFail(m)
      PROVE  \E B, Q, Y : Good(B, Q, Y)' /\ Placed(Q)'
  BY <1>1, <1>2, EncodeHeadersGood, EncodeHeadersFailGood
<1>7. ASSUME Encoder \/ Decoder \/ Application \/ ConnEnd \/ UNCHANGED vars
      PROVE  Placed(P)'
  BY <1>1, <1>7, HistoryGrows, PlacedKept
<1>3. ASSUME Encoder
      PROVE  Good(A, P, X)' \/ \E B, Q, Y : Good(B, Q, Y)' /\ Placed(Q)'
  <2>1. CASE EncodeLoad \/ EncodeLoadConnFail
    BY <1>1, <2>1, EncodeLoadGood, EncodeLoadConnFailGood
  <2>2. CASE Flush \/ EncodeBody \/ EncodeGrow \/ EncodeLoadConn
    BY <1>1, <2>2, FlushGood, EncodeBodyGood, EncodeGrowGood, EncodeLoadConnGood
  <2>3. CASE EncodeWrite \/ EncodeCopy \/ EncodeClose \/ EncodeReturn
    BY <1>1, <2>3, EncodeWriteGood, EncodeCopyGood, EncodeCloseGood, EncodeReturnGood
  <2> QED
    BY <1>3, <2>1, <2>2, <2>3 DEF Encoder
<1>4. ASSUME Decoder
      PROVE  Good(A, P, X)'
  <2>1. CASE DecodeStart \/ DecodeHead \/ DecodeBody \/ DecodeGrow
    BY <1>1, <2>1, DecodeStartGood, DecodeHeadGood, DecodeBodyGood, DecodeGrowGood
  <2>2. CASE DecodeLoad \/ DecodeLoadFail \/ DecodeLoaded \/ DecodeCopy \/ DecodeFail
    BY <1>1, <2>2, DecodeLoadGood, DecodeLoadFailGood, DecodeLoadedGood, DecodeCopyGood,
       DecodeFailGood
  <2> QED
    BY <1>4, <2>1, <2>2 DEF Decoder
<1>5. ASSUME Application \/ ConnEnd \/ UNCHANGED vars
      PROVE  Good(A, P, X)'
  BY <1>1, <1>5, ReadGood, CloseGood, ConnEndGood, StutterGood DEF Application
<1> QED
  BY <1>1, <1>2, <1>3, <1>4, <1>5, <1>7 DEF Next

\* In every reachable state there is a tape.
LEMMA StreamInductive ==
    ASSUME PassedOnKept
    PROVE  Spec => [](IInv /\ StreamInv)
<1>1. (IInv /\ StreamInv) /\ [Next]_vars => (IInv /\ StreamInv)'
  BY NextIInv, NextStream
<1>2. Init => IInv /\ StreamInv
  BY InitIInv, InitStream
<1> QED
  BY <1>1, <1>2, PTL DEF Spec

\* The decoder takes the bytes of one part of a message for another only after a body
\* without a Reader was announced or a load failed in the middle of a body: for any
\* messages, buffer and other faults, whatever is buffered, spliced, copied, cut off or
\* passed on, every unit that it reads is the one that it expects.
THEOREM SyncCorrect ==
    ASSUME PassedOnKept
    PROVE  Spec => []InSync
<1>1. StreamInv => InSync
  BY DEF StreamInv, Good, Base, DecShape, InSync
<1> QED
  BY <1>1, StreamInductive, PTL

\* A sequence that agrees with a longer one as far as it goes.
LEMMA PrefixIs ==
    ASSUME NEW S, NEW s \in Seq(S), NEW t \in Seq(S), Len(s) <= Len(t),
           \A j \in 1 .. Len(s) : s[j] = t[j]
    PROVE  IsPrefix(s, t) /\ (Len(s) = Len(t) => s = t)
<1>1. PICK n \in Nat : n = Len(s)
  OBVIOUS
<1>2. PICK u, v : u = SubSeq(s, 0 + 1, n) /\ v = SubSeq(t, 0 + 1, n)
  OBVIOUS
<1>3. u \in Seq(S) /\ Len(u) = n /\ \A j \in 1 .. n : u[j] = s[j]
  BY <1>1, <1>2, PartOf, 0 \in Nat
<1>4. v \in Seq(S) /\ Len(v) = n /\ \A j \in 1 .. n : v[j] = t[j]
  BY <1>1, <1>2, PartOf, 0 \in Nat
<1>5. u = v
  BY <1>1, <1>3, <1>4
<1>6. IsPrefix(s, t)
  BY <1>1, <1>2, <1>5 DEF IsPrefix
<1> QED
  BY <1>6

\* The body that a message names is a sequence of its bytes.
LEMMA NamedIs ==
    ASSUME NEW m \in Msgs, NEW place \in Nat
    PROVE  /\ Named(m, place) \in Seq(Units) /\ Len(Named(m, place)) = Size[m]
           /\ \A j \in 1 .. Size[m] : Named(m, place)[j] = Unit(Root(m), "body", place + j)
<1>1. Size[m] \in Nat /\ \A k \in Nat : Unit(Root(m), "body", k) \in Units
  BY MsgType
<1>2. \A j \in 1 .. Size[m] : place + j \in Nat
  BY <1>1
<1>3. Named(m, place) \in [1 .. Size[m] -> Units]
  BY <1>1, <1>2 DEF Named
<1> QED
  BY <1>1, <1>3 DEF Named

\* A delivered body has bytes of its message from one place.
LEMMA BodyNamed ==
    ASSUME NEW A, NEW P, NEW X, IInv, Good(A, P, X), Placed(P), NEW i \in DOMAIN delivered
    PROVE  LET d == delivered[i] IN
           \E place \in Places(d.m) :
              /\ IsPrefix(BodyOf(d), Named(d.m, place))
              /\ d.st = "open" /\ (conn = "open" \/ d.pair = NoPair)
                 => BodyOf(d) = Named(d.m, place)
<1>1. delivered[i] \in Body /\ delivered[i].m \in Msgs /\ delivered[i].data \in Seq(Units)
  <2>1. delivered[i] \in Body
    BY DEF IInv, Types
  <2> QED
    BY <2>1 DEF Body
<1>2. PICK m \in Msgs : m = delivered[i].m
  BY <1>1
<1>3. PICK b \in Seq(Units) : b = BodyOf(delivered[i])
  <2>1. delivered[i].pair # NoPair => pair[delivered[i].pair].data \in Seq(Units)
    BY PairWith DEF IInv, BodyInv, PoolInv
  <2>2. PICK r \in Seq(Units) : BodyOf(delivered[i]) = delivered[i].data \o r
    BY <2>1, <<>> \in Seq(Units) DEF BodyOf
  <2>3. PICK s \in Seq(Units) : s = delivered[i].data
    BY <1>1
  <2>4. s \o r \in Seq(Units)
    OBVIOUS
  <2> QED
    BY <2>2, <2>3, <2>4
<1>4. PICK place \in Places(m) : place = P[i] /\ place \in Nat
  <2>1. i \in 1 .. Len(taken) /\ m = taken[i]
    BY <1>2, DecIs DEF Good, Base, DecShape
  <2>2. P[i] \in Places(m)
    BY <2>1 DEF Placed
  <2> QED
    BY <2>2, MsgType
<1>5. /\ Len(b) <= Size[m] /\ Bytes(b, m, place)
      /\ delivered[i].st = "open" /\ (conn = "open" \/ delivered[i].pair = NoPair)
         => Len(b) = Size[m]
  BY <1>2, <1>3, <1>4 DEF Good, Base, Bodies, Whole
<1>6. PICK t \in Seq(Units) : /\ t = Named(m, place) /\ Len(t) = Size[m]
                              /\ \A j \in 1 .. Size[m] : t[j] = Unit(Root(m), "body", place + j)
  BY <1>4, NamedIs
<1>7. \A j \in 1 .. Len(b) : b[j] = t[j]
  <2>1. Size[m] \in Nat /\ Len(b) \in Nat
    BY MsgType
  <2>2. \A j \in 1 .. Len(b) : j \in 1 .. Size[m]
    BY <1>5, <2>1
  <2> QED
    BY <1>5, <1>6, <2>2 DEF Bytes
<1>8. IsPrefix(b, t) /\ (Len(b) = Len(t) => b = t)
  BY <1>5, <1>6, <1>7, PrefixIs
<1> QED
  BY <1>2, <1>3, <1>4, <1>5, <1>6, <1>8

\* As long as the boundaries are kept, messages arrive in the order in which they were
\* encoded, each with bytes of its own body and from one place, and with all of them
\* unless the connection ended while the body was spliced.  The place is the beginning of
\* the reader, Offset, or, if a load of that reader had failed, where it then stood.
THEOREM OrderCorrect ==
    ASSUME PassedOnKept
    PROVE  Spec => []DeliveredInOrder
<1>1. ASSUME IInv, StreamInv, ~Misframed PROVE DeliveredInOrder
  <2>1. PICK A, P, X : Good(A, P, X) /\ Placed(P)
    BY <1>1 DEF StreamInv
  <2>2. \A i \in DOMAIN delivered : LET d == delivered[i] IN
           \E place \in Places(d.m) :
              /\ IsPrefix(BodyOf(d), Named(d.m, place))
              /\ d.st = "open" /\ (conn = "open" \/ d.pair = NoPair)
                 => BodyOf(d) = Named(d.m, place)
    BY <1>1, <2>1, BodyNamed
  <2>3. IsPrefix([i \in DOMAIN delivered |-> delivered[i].m], taken)
    <3>1. PICK s : s = [i \in DOMAIN delivered |-> delivered[i].m]
      OBVIOUS
    <3>2. /\ Len(delivered) \in Nat /\ DOMAIN delivered = 1 .. Len(delivered)
          /\ Len(delivered) <= Len(taken) /\ taken \in Seq(Msgs)
      BY <1>1, <2>1, DecIs DEF IInv, Types
    <3>3. \A i \in DOMAIN delivered : delivered[i].m \in Msgs /\ delivered[i].m = taken[i]
      BY <1>1, <2>1 DEF IInv, Types, Body, Good, Base, DecShape
    <3>4. s \in [1 .. Len(delivered) -> Msgs]
      BY <3>1, <3>2, <3>3
    <3>5. s \in Seq(Msgs) /\ Len(s) = Len(delivered)
      BY <3>2, <3>4
    <3>6. \A i \in 1 .. Len(s) : s[i] = taken[i]
      BY <3>1, <3>2, <3>3, <3>5
    <3>7. IsPrefix(s, taken)
      BY <3>2, <3>5, <3>6, PrefixIs
    <3> QED
      BY <3>1, <3>7
  <2> QED
    BY <2>2, <2>3 DEF DeliveredInOrder
<1>2. IInv /\ StreamInv => DeliveredInOrder
  BY <1>1 DEF DeliveredInOrder
<1> QED
  BY <1>2, StreamInductive, PTL

-----------------------------------------------------------------------------
(* What both ends count.                                                    *)

\* G and T are the units of headers and of bodies before each message.
Sums(G, T) ==
    /\ Numbers(G) /\ Numbers(T)
    /\ \A i \in 1 .. Len(taken) : /\ G[i + 1] = G[i] + HeadLen(taken[i])
                                  /\ T[i + 1] = T[i] + Size[taken[i]]

\* The first message that the encoder has not finished, and what the decoder has of the
\* headers of the message that it reads.
Unfinished == IF enc.pc = "idle" THEN Len(taken) + 1 ELSE Len(taken)
HeadIn == IF dec.pc = "head" /\ dec.todo # <<>> THEN 1
          ELSE IF dec.pc \in {"head", "grow", "load", "copy"} THEN HeadLen(dec.m) ELSE 0

WriteTally(G, T) ==
    /\ stat["HeadWritten"] + Len(buf) = G[Len(taken) + 1]
    /\ stat["BodyWritten"] = T[Unfinished]
    /\ stat["WriteCalls"] + 1 = Unfinished

ReadTally(G, T) ==
    /\ stat["HeadRead"] = G[Len(delivered) + 1] + HeadIn
    /\ stat["BodyRead"] = T[Len(delivered) + 1]
    /\ stat["ReadCalls"] = Len(delivered)

\* As long as the connection is open, ConnStats has these sums.
Tally(G, T) == Sums(G, T) /\ (conn = "open" => WriteTally(G, T) /\ ReadTally(G, T))

TallyInv == ~Misframed => \E G, T : Tally(G, T)

WriteFields == {"HeadWritten", "BodyWritten", "WriteCalls"}
ReadFields == {"HeadRead", "BodyRead", "ReadCalls"}

\* Counting changes one field.
LEMMA CountIs ==
    ASSUME NEW s \in [ConnStats -> Nat], NEW f \in ConnStats, NEW n \in Nat
    PROVE  /\ Count(s, f, n) \in [ConnStats -> Nat]
           /\ Count(s, f, n)[f] = s[f] + n
           /\ \A g \in ConnStats : g # f => Count(s, f, n)[g] = s[g]
BY DEF Count

\* Counting in two fields.
LEMMA CountTwo ==
    ASSUME stat \in [ConnStats -> Nat], NEW f \in ConnStats, NEW g \in ConnStats, f # g,
           NEW n \in Nat, NEW k \in Nat, stat' = Count(Count(stat, f, n), g, k)
    PROVE  /\ stat'[f] = stat[f] + n /\ stat'[g] = stat[g] + k
           /\ \A c \in ConnStats : c # f /\ c # g => stat'[c] = stat[c]
<1>1. PICK s \in [ConnStats -> Nat] :
         /\ s = Count(stat, f, n) /\ s[f] = stat[f] + n
         /\ \A c \in ConnStats : c # f => s[c] = stat[c]
  BY CountIs
<1>2. stat' = Count(s, g, k)
  BY <1>1
<1>3. stat'[g] = s[g] + k /\ \A c \in ConnStats : c # g => stat'[c] = s[c]
  <2>1. /\ Count(s, g, k)[g] = s[g] + k
        /\ \A c \in ConnStats : c # g => Count(s, g, k)[c] = s[c]
    BY <1>1, CountIs
  <2> QED
    BY <1>2, <2>1
<1> QED
  BY <1>1, <1>3

\* No message is taken.
LEMMA SumsKept ==
    ASSUME NEW G, NEW T, Sums(G, T), UNCHANGED taken
    PROVE  Sums(G, T)'
BY DEF Sums, Numbers

\* The encoder neither writes headers nor ends a message.
LEMMA WriteKept ==
    ASSUME NEW G, NEW T, WriteTally(G, T), UNCHANGED <<taken, buf>>,
           enc'.pc = "idle" <=> enc.pc = "idle", \A f \in WriteFields : stat'[f] = stat[f]
    PROVE  WriteTally(G, T)'
BY DEF WriteTally, Unfinished, WriteFields

\* The decoder neither reads headers nor ends a message.
LEMMA ReadKept ==
    ASSUME NEW G, NEW T, ReadTally(G, T), HeadIn' = HeadIn, Len(delivered') = Len(delivered),
           \A f \in ReadFields : stat'[f] = stat[f]
    PROVE  ReadTally(G, T)'
BY DEF ReadTally, ReadFields

\* An error of the writer is counted, or nothing is.
LEMMA ErrorCounted ==
    ASSUME IInv, NEW n \in Nat, stat' = Count(stat, "WriteErrors", n) \/ UNCHANGED stat
    PROVE  \A f \in WriteFields \cup ReadFields : stat'[f] = stat[f]
<1>1. /\ stat \in [ConnStats -> Nat] /\ "WriteErrors" \in ConnStats
      /\ \A f \in WriteFields \cup ReadFields : f \in ConnStats /\ f # "WriteErrors"
  BY DEF IInv, Types, ConnStats, WriteFields, ReadFields
<1> QED
  BY <1>1, CountIs

\* The steps between the headers of a body and its end.
LEMMA EncoderTally ==
    ASSUME NEW G, NEW T, IInv, Tally(G, T),
           \/ EncodeBody \/ EncodeGrow \/ EncodeLoad \/ EncodeLoadConn
           \/ EncodeLoadConnFail \/ EncodeWrite \/ EncodeCopy \/ EncodeClose
    PROVE  Tally(G, T)'
<1>1. enc \in EncState
  BY EncIs
<1>2. /\ EncoderOnly /\ UNCHANGED conn /\ enc.pc # "idle"
  BY DEF EncodeBody, EncodeGrow, EncodeLoad, EncodeLoadConn, EncodeLoadConnFail, EncodeWrite,
         EncodeCopy, EncodeClose
<1>3. enc'.pc # "idle"
  <2>1. CASE EncodeBody \/ EncodeGrow \/ EncodeLoad
    BY <1>1, <2>1 DEF EncodeBody, EncodeGrow, EncodeLoad, Abandon, EncState
  <2>2. CASE EncodeLoadConn \/ EncodeLoadConnFail \/ EncodeWrite
    BY <1>1, <2>2 DEF EncodeLoadConn, EncodeLoadConnFail, Abandon, EncodeWrite, EncState
  <2>3. CASE EncodeCopy \/ EncodeClose
    BY <1>1, <2>3 DEF EncodeCopy, EncodeClose, EncState
  <2> QED
    BY <2>1, <2>2, <2>3
<1>4. \E n \in Nat : stat' = Count(stat, "WriteErrors", n) \/ UNCHANGED stat
  <2>1. 0 \in Nat /\ 1 \in Nat
    OBVIOUS
  <2> QED
    BY <2>1 DEF EncodeBody, EncodeGrow, EncodeLoad, EncodeLoadConn, EncodeLoadConnFail,
                EncodeWrite, EncodeCopy, EncodeClose
<1>5. \A f \in WriteFields \cup ReadFields : stat'[f] = stat[f]
  BY <1>4, ErrorCounted
<1>6. UNCHANGED <<taken, buf, dec, delivered>>
  BY <1>2 DEF EncoderOnly, decVars
<1>7. HeadIn' = HeadIn
  BY <1>6 DEF HeadIn
<1> QED
  BY <1>2, <1>3, <1>5, <1>6, <1>7, SumsKept, WriteKept, ReadKept DEF Tally

\* The connection has ended, and only the sums remain.
LEMMA EndedTally ==
    ASSUME NEW G, NEW T, Tally(G, T), UNCHANGED taken, conn' # "open"
    PROVE  Tally(G, T)'
BY SumsKept DEF Tally

\* A body is counted when it was written.
LEMMA EncodeReturnTally ==
    ASSUME NEW G, NEW T, IInv, Tally(G, T), EncodeReturn
    PROVE  Tally(G, T)'
<1>1. enc.pc = "close" /\ UNCHANGED <<taken, dec, delivered>>
  BY DEF EncodeReturn, decVars
<1>2. CASE ~enc.ok
  BY <1>1, <1>2, EndedTally DEF EncodeReturn, WriterEnds, IInv, Types
<1>3. CASE enc.ok
  <2>1. enc' = Idle /\ stat' = CountBody /\ UNCHANGED <<buf, conn>>
    BY <1>3 DEF EncodeReturn
  <2>2. enc'.pc = "idle"
    BY <2>1 DEF Idle
  <2>3. PICK L \in Nat : L = Len(taken) /\ Current \in Msgs /\ L \in 1 .. L /\ Current = taken[L]
    BY <1>1, EncIs, TakenIs DEF IInv
  <2>4. PICK z \in Nat : z = Size[Current]
    BY <2>3, MsgType
  <2>5. stat \in [ConnStats -> Nat] /\ "BodyWritten" \in ConnStats /\ "WriteCalls" \in ConnStats
    BY DEF IInv, Types, ConnStats
  <2>6. stat' = Count(Count(stat, "BodyWritten", z), "WriteCalls", 1)
    BY <2>1, <2>4 DEF CountBody
  <2>7. /\ stat'["WriteCalls"] = stat["WriteCalls"] + 1
        /\ stat'["BodyWritten"] = stat["BodyWritten"] + z
        /\ \A c \in ConnStats : c # "BodyWritten" /\ c # "WriteCalls" => stat'[c] = stat[c]
    BY <2>5, <2>6, CountTwo, 1 \in Nat
  <2>8. /\ stat'["HeadWritten"] = stat["HeadWritten"]
        /\ \A f \in ReadFields : stat'[f] = stat[f]
    BY <2>7 DEF ConnStats, ReadFields
  <2>9. HeadIn' = HeadIn
    BY <1>1 DEF HeadIn
  <2>10. Sums(G, T) /\ T[L + 1] = T[L] + z
    BY <2>3, <2>4 DEF Tally, Sums
  <2>11. ASSUME WriteTally(G, T) PROVE WriteTally(G, T)'
    <3>1. Unfinished = L /\ Unfinished' = L + 1
      BY <1>1, <2>2, <2>3 DEF Unfinished
    <3>2. stat["WriteCalls"] + 1 = L /\ stat["BodyWritten"] = T[L]
      BY <2>11, <3>1 DEF WriteTally
    <3> QED
      BY <1>1, <2>1, <2>3, <2>7, <2>8, <2>10, <2>11, <3>1, <3>2 DEF WriteTally
  <2> QED
    BY <1>1, <2>1, <2>8, <2>9, <2>11, SumsKept, ReadKept DEF Tally
<1> QED
  BY <1>2, <1>3

\* The buffered headers are counted when they are written.
LEMMA FlushTally ==
    ASSUME NEW G, NEW T, IInv, Tally(G, T), Flush
    PROVE  Tally(G, T)'
<1>1. enc.pc = "idle" /\ UNCHANGED <<taken, dec, delivered>>
  BY DEF Flush, decVars
<1>2. CASE conn # "open"
  BY <1>1, <1>2, EndedTally DEF Flush, WriterEnds
<1>3. CASE conn = "open"
  <2>1. buf' = <<>> /\ stat' = Count(stat, "HeadWritten", Len(buf)) /\ UNCHANGED <<enc, conn>>
    BY <1>3 DEF Flush
  <2>2. Len(buf) \in Nat /\ stat \in [ConnStats -> Nat] /\ "HeadWritten" \in ConnStats
    BY DEF IInv, Types, ConnStats
  <2>3. /\ stat'["HeadWritten"] = stat["HeadWritten"] + Len(buf)
        /\ \A g \in ConnStats : g # "HeadWritten" => stat'[g] = stat[g]
    BY <2>1, <2>2, CountIs
  <2>4. /\ stat'["WriteCalls"] = stat["WriteCalls"] /\ stat'["BodyWritten"] = stat["BodyWritten"]
        /\ \A f \in ReadFields : stat'[f] = stat[f]
    BY <2>3 DEF ConnStats, ReadFields
  <2>5. HeadIn' = HeadIn /\ Unfinished' = Unfinished
    BY <1>1, <2>1 DEF HeadIn, Unfinished
  <2>6. ASSUME WriteTally(G, T) PROVE WriteTally(G, T)'
    <3>1. PICK w, b \in Nat : w = stat["HeadWritten"] /\ b = Len(buf)
      BY <2>2
    <3>2. stat'["HeadWritten"] = w + b /\ Len(buf') = 0
      BY <2>1, <2>3, <3>1
    <3> QED
      BY <1>1, <2>4, <2>5, <2>6, <3>1, <3>2 DEF WriteTally
  <2> QED
    BY <1>1, <2>1, <2>4, <2>5, <2>6, SumsKept, ReadKept DEF Tally
<1> QED
  BY <1>2, <1>3

\* The sums go on behind a message that is taken.
LEMMA LongerSums ==
    ASSUME NEW G, NEW T, Types, Sums(G, T), NEW m \in Msgs, taken' = Append(taken, m)
    PROVE  \E H, U : /\ Sums(H, U)' /\ Len(taken') = Len(taken) + 1
                     /\ \A i \in 1 .. Len(taken) + 1 : H[i] = G[i] /\ U[i] = T[i]
                     /\ H[Len(taken) + 2] = G[Len(taken) + 1] + HeadLen(m)
                     /\ U[Len(taken) + 2] = T[Len(taken) + 1] + Size[m]
<1>1. PICK L \in Nat : L = Len(taken)
  BY TakenIs
<1>2. PICK g, t, h, z \in Nat : g = G[L + 1] /\ t = T[L + 1] /\ h = HeadLen(m) /\ z = Size[m]
  <2>1. G[L + 1] \in Nat /\ T[L + 1] \in Nat
    BY DEF Sums, Numbers
  <2> QED
    BY <2>1, MsgType
<1> DEFINE H == [i \in Nat |-> IF i = L + 2 THEN g + h ELSE G[i]]
           U == [i \in Nat |-> IF i = L + 2 THEN t + z ELSE T[i]]
<1>3. H[L + 2] = g + h /\ \A i \in Nat : i # L + 2 => H[i] = G[i]
  OBVIOUS
<1>4. U[L + 2] = t + z /\ \A i \in Nat : i # L + 2 => U[i] = T[i]
  OBVIOUS
<1> HIDE DEF H, U
<1>5. Numbers(H)
  <2>1. g + h \in Nat /\ Numbers(G)
    BY DEF Sums
  <2> QED
    BY <1>3, <2>1 DEF Numbers
<1>6. Numbers(U)
  <2>1. t + z \in Nat /\ Numbers(T)
    BY DEF Sums
  <2> QED
    BY <1>4, <2>1 DEF Numbers
<1>7. /\ Len(taken') = L + 1 /\ taken'[L + 1] = m /\ \A i \in 1 .. L : taken'[i] = taken[i]
  <2>1. taken \in Seq(Msgs)
    BY DEF Types
  <2> QED
    BY <1>1, <2>1
<1>8. ASSUME NEW i \in 1 .. L + 1
      PROVE  H[i + 1] = H[i] + HeadLen(taken'[i]) /\ U[i + 1] = U[i] + Size[taken'[i]]
  <2>1. CASE i = L + 1
    <3>1. i + 1 = L + 2 /\ i # L + 2 /\ i \in Nat
      BY <2>1
    <3> QED
      BY <1>2, <1>3, <1>4, <1>7, <2>1, <3>1
  <2>2. CASE i # L + 1
    <3>1. i \in 1 .. L /\ i \in Nat /\ i + 1 \in Nat /\ i # L + 2 /\ i + 1 # L + 2
      BY <2>2
    <3>2. G[i + 1] = G[i] + HeadLen(taken[i]) /\ T[i + 1] = T[i] + Size[taken[i]]
      BY <1>1, <3>1 DEF Sums
    <3> QED
      BY <1>3, <1>4, <1>7, <3>1, <3>2
  <2> QED
    BY <2>1, <2>2
<1>9. Sums(H, U)'
  BY <1>5, <1>6, <1>7, <1>8 DEF Sums, Numbers
<1>10. \A i \in 1 .. L + 1 : H[i] = G[i] /\ U[i] = T[i]
  BY <1>3, <1>4
<1> QED
  BY <1>1, <1>2, <1>3, <1>4, <1>7, <1>9, <1>10

\* The headers of a message are counted, or buffered and not counted yet.
LEMMA EncodeHeadersTally ==
    ASSUME NEW G, NEW T, IInv, DecShape, ~Misframed', Tally(G, T), NEW m \in Msgs,
           EncodeHeaders(m)
    PROVE  \E H, U : Tally(H, U)'
<1>1. PICK H, U : /\ Sums(H, U)' /\ Len(taken') = Len(taken) + 1
                  /\ \A i \in 1 .. Len(taken) + 1 : H[i] = G[i] /\ U[i] = T[i]
                  /\ H[Len(taken) + 2] = G[Len(taken) + 1] + HeadLen(m)
                  /\ U[Len(taken) + 2] = T[Len(taken) + 1] + Size[m]
  BY LongerSums DEF EncodeHeaders, IInv, Tally
<1>2. enc.pc = "idle" /\ UNCHANGED <<conn, dec>> /\ Given(m) /\ Size[m] \in Nat
  BY MsgType DEF EncodeHeaders
<1>14. HasBody(m) <=> Size[m] > 0
  BY FramedHasBody DEF EncodeHeaders
<1>3. PICK L, D, b, h, z, w, c \in Nat :
         /\ L = Len(taken) /\ D = Len(delivered) /\ b = Len(buf) /\ h = HeadLen(m) /\ z = Size[m]
         /\ w = stat["HeadWritten"] /\ c = stat["WriteCalls"] /\ D <= L
  <2>1. Len(taken) \in Nat /\ Len(delivered) \in Nat /\ Len(buf) \in Nat /\ HeadLen(m) \in Nat
        /\ Size[m] \in Nat /\ Len(delivered) <= Len(taken)
    BY EncIs, MsgType DEF DecShape
  <2>2. stat["HeadWritten"] \in Nat /\ stat["WriteCalls"] \in Nat
    BY DEF IInv, Types, ConnStats
  <2> QED
    BY <2>1, <2>2
<1>4. Len(buf \o Header(m)) = b + h
  <2>1. buf \in Seq(Units) /\ Header(m) \in Seq(Units) /\ Len(Header(m)) = h
    BY <1>3, MsgType DEF IInv, Types, HeadLen
  <2> QED
    BY <1>3, <2>1
<1>5. PICK heads, calls \in Nat :
         /\ heads = IF MustFlush(m) THEN b + h ELSE 0
         /\ calls = IF Size[m] > 0 THEN 0 ELSE 1
         /\ stat' = Count(Count(stat, "HeadWritten", heads), "WriteCalls", calls)
  <2>1. b + h \in Nat /\ 0 \in Nat /\ 1 \in Nat
    OBVIOUS
  <2>2. PICK heads \in Nat : heads = IF MustFlush(m) THEN b + h ELSE 0
    BY <2>1
  <2>3. PICK calls \in Nat : calls = IF Size[m] > 0 THEN 0 ELSE 1
    BY <2>1
  <2> QED
    BY <1>4, <1>14, <2>2, <2>3 DEF EncodeHeaders
<1>6. /\ stat'["HeadWritten"] = w + heads /\ stat'["WriteCalls"] = c + calls
      /\ \A f \in ConnStats : f # "HeadWritten" /\ f # "WriteCalls" => stat'[f] = stat[f]
  <2>1. stat \in [ConnStats -> Nat] /\ "HeadWritten" \in ConnStats /\ "WriteCalls" \in ConnStats
    BY DEF IInv, Types, ConnStats
  <2> QED
    BY <1>3, <1>5, <2>1, CountTwo, SMTT(30)
<1>7. stat'["BodyWritten"] = stat["BodyWritten"] /\ \A f \in ReadFields : stat'[f] = stat[f]
  BY <1>6 DEF ConnStats, ReadFields
<1>8. Len(buf') = b + h - heads
  <2>1. CASE MustFlush(m)
    BY <1>5, <2>1 DEF EncodeHeaders
  <2>2. CASE ~MustFlush(m)
    BY <1>4, <1>5, <2>2 DEF EncodeHeaders
  <2> QED
    BY <2>1, <2>2
<1>9. enc'.pc = "idle" <=> ~(Size[m] > 0)
  <2>1. Kind[m] = "pipe" => Size[m] > 0
    BY CodecAssumption
  <2> QED
    BY <1>2, <1>14, <2>1 DEF Given, Idle
<1>10. Len(delivered') = D
  <2>1. PassesOn
    BY <1>2 DEF Given, PassesOn
  <2> QED
    BY <1>3, <2>1, BodyLeaves, "forwarded" \in {"closed", "forwarded"} DEF PassesOn
<1>11. ASSUME WriteTally(G, T) PROVE WriteTally(H, U)'
  <2>1. w + b = G[L + 1] /\ stat["BodyWritten"] = T[L + 1] /\ c + 1 = L + 1
    BY <1>2, <1>3, <1>11 DEF WriteTally, Unfinished
  <2>2. Unfinished' = L + 1 + calls /\ Len(taken') + 1 = L + 2
    BY <1>1, <1>3, <1>5, <1>9 DEF Unfinished
  <2>3. H[L + 2] = (w + b) + h
    BY <1>1, <1>3, <2>1
  <2>4. (w + heads) + (b + h - heads) = (w + b) + h
    OBVIOUS
  <2>5. U[L + 1 + calls] = T[L + 1]
    <3>1. CASE Size[m] > 0
      <4>1. L + 1 + calls = L + 1 /\ L + 1 \in 1 .. L + 1
        BY <1>5, <3>1
      <4> QED
        BY <1>1, <1>3, <4>1
    <3>2. CASE ~(Size[m] > 0)
      <4>1. L + 1 + calls = L + 2 /\ z = 0
        BY <1>3, <1>5, <3>2
      <4>2. PICK t \in Nat : t = T[L + 1]
        BY DEF Tally, Sums, Numbers
      <4> QED
        BY <1>1, <1>3, <4>1, <4>2
    <3> QED
      BY <3>1, <3>2
  <2>6. (c + calls) + 1 = L + 1 + calls
    BY <2>1
  <2> QED
    BY <1>6, <1>7, <1>8, <2>1, <2>2, <2>3, <2>4, <2>5, <2>6 DEF WriteTally
<1>12. ASSUME ReadTally(G, T) PROVE ReadTally(H, U)'
  <2>1. D + 1 \in 1 .. L + 1
    BY <1>3
  <2>2. H[D + 1] = G[D + 1] /\ U[D + 1] = T[D + 1] /\ HeadIn' = HeadIn
    BY <1>1, <1>2, <1>3, <2>1 DEF HeadIn
  <2>3. /\ stat'["HeadRead"] = stat["HeadRead"] /\ stat'["BodyRead"] = stat["BodyRead"]
        /\ stat'["ReadCalls"] = stat["ReadCalls"]
    BY <1>7 DEF ReadFields
  <2> QED
    BY <1>3, <1>10, <1>12, <2>2, <2>3 DEF ReadTally
<1>13. Tally(H, U)'
  BY <1>1, <1>2, <1>11, <1>12 DEF Tally
<1> QED
  BY <1>13

\* A message that fails ends the connection.
LEMMA EncodeHeadersFailTally ==
    ASSUME NEW G, NEW T, IInv, Tally(G, T), NEW m \in Msgs, EncodeHeadersFail(m)
    PROVE  \E H, U : Tally(H, U)'
<1>1. PICK H, U : Sums(H, U)'
  BY LongerSums DEF EncodeHeadersFail, IInv, Tally
<1>2. conn' # "open"
  BY DEF EncodeHeadersFail, WriterEnds
<1>3. Tally(H, U)'
  BY <1>1, <1>2 DEF Tally
<1> QED
  BY <1>3

\* The decoder is at work: what the encoder counts stays.
LEMMA DecoderTally ==
    ASSUME NEW G, NEW T, Tally(G, T), DecoderOnly, UNCHANGED conn,
           \A f \in WriteFields : stat'[f] = stat[f],
           Sums(G, T) /\ ReadTally(G, T) => ReadTally(G, T)'
    PROVE  Tally(G, T)'
<1>1. UNCHANGED <<enc, taken, buf>>
  BY DEF DecoderOnly, encVars
<1> QED
  BY <1>1, SumsKept, WriteKept DEF Tally

\* A unit of headers is counted when it is read.
LEMMA HeadCounted ==
    ASSUME IInv, stat' = Count(stat, "HeadRead", 1)
    PROVE  /\ stat'["HeadRead"] = stat["HeadRead"] + 1
           /\ stat'["BodyRead"] = stat["BodyRead"] /\ stat'["ReadCalls"] = stat["ReadCalls"]
           /\ \A f \in WriteFields : stat'[f] = stat[f]
<1>1. stat \in [ConnStats -> Nat] /\ "HeadRead" \in ConnStats
  BY DEF IInv, Types, ConnStats
<1>2. /\ stat'["HeadRead"] = stat["HeadRead"] + 1
      /\ \A g \in ConnStats : g # "HeadRead" => stat'[g] = stat[g]
  BY <1>1, CountIs, 1 \in Nat
<1> QED
  BY <1>2 DEF ConnStats, WriteFields

\* The start line is the first unit of the headers, and the last if nothing follows.
LEMMA DecodeStartTally ==
    ASSUME NEW G, NEW T, IInv, DecShape', Tally(G, T), DecodeStart
    PROVE  Tally(G, T)'
<1>1. /\ dec.pc = "start" /\ Readable /\ DecoderOnly /\ UNCHANGED <<conn, delivered>>
      /\ stat' = Count(stat, "HeadRead", 1)
  BY DEF DecodeStart
<1>2. PICK u \in Units : u = Head(wire)
  <2>1. wire \in Seq(Units) /\ wire # <<>>
    BY <1>1 DEF Readable, IInv, Types
  <2>2. Head(wire) \in Units
    BY <2>1
  <2> QED
    BY <2>2
<1>3. PICK m \in Msgs : m = u.m
  BY DEF Units
<1>4. dec' = [Waiting EXCEPT !.pc = "head", !.m = m, !.todo = Rest(m)]
  <2>1. [Waiting EXCEPT !.pc = "garbled"].pc = "garbled"
    BY DEF Waiting
  <2>2. dec'.pc # "garbled"
    BY DEF DecShape
  <2> QED
    BY <1>2, <1>3, <2>1, <2>2 DEF DecodeStart
<1>5. dec'.pc = "head" /\ dec'.m = m /\ dec'.todo = Rest(m)
  BY <1>4 DEF Waiting
<1>6. HeadIn = 0 /\ HeadIn' = 1
  <2>1. HeadIn' = IF Rest(m) # <<>> THEN 1 ELSE HeadLen(m)
    BY <1>5 DEF HeadIn
  <2> QED
    BY <1>1, <2>1, HeaderIs DEF HeadIn
<1>7. ASSUME Sums(G, T), ReadTally(G, T) PROVE ReadTally(G, T)'
  <2>1. PICK g \in Nat : g = G[Len(delivered) + 1]
    BY <1>7, EncIs DEF Sums, Numbers
  <2>2. stat["HeadRead"] = g
    BY <1>6, <1>7, <2>1 DEF ReadTally
  <2> QED
    BY <1>1, <1>6, <1>7, <2>1, <2>2, HeadCounted DEF ReadTally
<1> QED
  BY <1>1, <1>7, HeadCounted, DecoderTally

\* The unit behind it is the second and last.
LEMMA DecodeHeadTally ==
    ASSUME NEW G, NEW T, IInv, DecShape, DecShape', Tally(G, T), DecodeHead
    PROVE  Tally(G, T)'
<1>1. /\ dec.pc = "head" /\ dec.todo # <<>> /\ DecoderOnly /\ UNCHANGED <<conn, delivered>>
      /\ stat' = Count(stat, "HeadRead", 1) /\ dec \in DecState
  BY DEF DecodeHead, IInv, Types
<1>2. PICK m \in Msgs : m = dec.m /\ dec.todo = Rest(m)
  BY <1>1 DEF IInv, DecInv, DecShape
<1>3. HeadLen(m) = 2 /\ Tail(Rest(m)) = <<>>
  BY <1>1, <1>2, HeaderIs
<1>4. dec' = [dec EXCEPT !.todo = Tail(@)]
  <2>1. [Waiting EXCEPT !.pc = "garbled"].pc = "garbled"
    BY DEF Waiting
  <2>2. dec'.pc # "garbled"
    BY DEF DecShape
  <2> QED
    BY <2>1, <2>2 DEF DecodeHead
<1>5. dec'.pc = "head" /\ dec'.m = m /\ dec'.todo = <<>>
  BY <1>1, <1>2, <1>3, <1>4 DEF DecState
<1>6. HeadIn = 1 /\ HeadIn' = 2
  BY <1>1, <1>3, <1>5 DEF HeadIn
<1>7. ASSUME Sums(G, T), ReadTally(G, T) PROVE ReadTally(G, T)'
  <2>1. PICK g \in Nat : g = G[Len(delivered) + 1]
    BY <1>7, EncIs DEF Sums, Numbers
  <2>2. stat["HeadRead"] = g + 1
    BY <1>6, <1>7, <2>1 DEF ReadTally
  <2> QED
    BY <1>1, <1>6, <1>7, <2>1, <2>2, HeadCounted DEF ReadTally
<1> QED
  BY <1>1, <1>7, HeadCounted, DecoderTally

\* A message is counted when it is delivered.
LEMMA DeliverTally ==
    ASSUME NEW G, NEW T, IInv, DecShape, Tally(G, T), DecoderOnly, UNCHANGED conn,
           dec.pc \in {"head", "load", "copy"}, dec.pc = "head" => dec.todo = <<>>,
           NEW p, NEW data, Deliver(p, data)
    PROVE  Tally(G, T)'
<1>1. PICK D, L \in Nat, m \in Msgs :
         /\ D = Len(delivered) /\ L = Len(taken) /\ m = dec.m /\ m = taken[D + 1]
         /\ D + 1 \in 1 .. L
  <2>1. /\ Len(delivered) \in Nat /\ Len(taken) \in Nat /\ Len(delivered) < Len(taken)
        /\ dec.m \in Msgs /\ dec.m = taken[Len(delivered) + 1]
    BY EncIs DEF DecShape, IInv, DecInv
  <2> QED
    BY <2>1
<1>2. PICK h, z \in Nat : h = HeadLen(m) /\ z = Size[m]
  BY MsgType
<1>3. HeadIn = h /\ HeadIn' = 0
  <2>1. dec'.pc = "start"
    BY DEF Deliver, Waiting
  <2> QED
    BY <1>1, <1>2, <2>1 DEF HeadIn
<1>4. Len(delivered') = D + 1
  <2>1. delivered \in Seq(Body)
    BY DEF IInv, Types
  <2>2. PICK e : delivered' = Append(delivered, e)
    BY DEF Deliver
  <2> QED
    BY <1>1, <2>1, <2>2
<1>5. /\ stat'["BodyRead"] = stat["BodyRead"] + z /\ stat'["ReadCalls"] = stat["ReadCalls"] + 1
      /\ \A c \in ConnStats : c # "BodyRead" /\ c # "ReadCalls" => stat'[c] = stat[c]
  <2>1. stat \in [ConnStats -> Nat] /\ "BodyRead" \in ConnStats /\ "ReadCalls" \in ConnStats
    BY DEF IInv, Types, ConnStats
  <2>2. stat' = Count(Count(stat, "BodyRead", z), "ReadCalls", 1)
    BY <1>1, <1>2 DEF Deliver
  <2> QED
    BY <2>1, <2>2, CountTwo, 1 \in Nat
<1>6. stat'["HeadRead"] = stat["HeadRead"] /\ \A f \in WriteFields : stat'[f] = stat[f]
  BY <1>5 DEF ConnStats, WriteFields
<1>7. ASSUME Sums(G, T), ReadTally(G, T) PROVE ReadTally(G, T)'
  <2>1. PICK g, t \in Nat : g = G[D + 1] /\ t = T[D + 1]
    BY <1>7, SMTT(30) DEF Sums, Numbers
  <2>2. G[(D + 1) + 1] = g + h /\ T[(D + 1) + 1] = t + z
    BY <1>1, <1>2, <1>7, <2>1 DEF Sums
  <2>3. stat["HeadRead"] = g + h /\ stat["BodyRead"] = t /\ stat["ReadCalls"] = D
    BY <1>1, <1>3, <1>7, <2>1 DEF ReadTally
  <2>4. stat'["HeadRead"] = (g + h) + 0 /\ stat'["BodyRead"] = t + z /\ stat'["ReadCalls"] = D + 1
    BY <1>5, <1>6, <2>3
  <2> QED
    BY <1>3, <1>4, <2>2, <2>4 DEF ReadTally
<1> QED
  BY <1>6, <1>7, DecoderTally

\* The steps between the headers of a message and its end.
LEMMA DecoderWaits ==
    ASSUME NEW G, NEW T, IInv, Tally(G, T), DecoderOnly, UNCHANGED <<conn, delivered, stat>>,
           dec.pc \in {"head", "grow", "load", "copy"}, dec.pc = "head" => dec.todo = <<>>,
           dec'.pc \in {"grow", "load", "copy"}, dec'.m = dec.m
    PROVE  Tally(G, T)'
<1>1. HeadIn' = HeadIn
  BY DEF HeadIn
<1> QED
  BY <1>1, ReadKept, DecoderTally

\* The steps of the decoder on a body.
LEMMA DecodeBodyTally ==
    ASSUME NEW G, NEW T, IInv, DecShape, Tally(G, T),
           \/ DecodeBody \/ DecodeGrow \/ DecodeLoad \/ DecodeLoadFail
           \/ DecodeLoaded \/ DecodeCopy
    PROVE  Tally(G, T)'
<1>1. dec \in DecState
  BY DEF IInv, Types
<1>2. DecoderOnly /\ UNCHANGED conn
  BY DEF DecodeBody, DecodeGrow, DecodeLoad, DecodeLoadFail, DecodeLoaded, DecodeCopy
<1>3. CASE DecodeBody
  <2>1. dec.pc = "head" /\ dec.todo = <<>>
    BY <1>3 DEF DecodeBody
  <2>2. CASE Deliver(NoPair, <<>>)
    BY <1>2, <2>1, <2>2, DeliverTally
  <2>3. CASE ~Deliver(NoPair, <<>>)
    <3>1. UNCHANGED <<delivered, stat>> /\ dec'.pc \in {"grow", "copy"} /\ dec'.m = dec.m
      BY <1>1, <1>3, <2>3 DEF DecodeBody, DecState
    <3> QED
      BY <1>2, <2>1, <3>1, DecoderWaits
  <2> QED
    BY <2>2, <2>3
<1>4. CASE DecodeGrow
  <2>1. /\ dec.pc = "grow" /\ UNCHANGED <<delivered, stat>> /\ dec'.pc \in {"load", "copy"}
        /\ dec'.m = dec.m
    BY <1>1, <1>4 DEF DecodeGrow, DecState
  <2> QED
    BY <1>2, <2>1, DecoderWaits
<1>5. CASE DecodeLoad
  <2>1. dec.pc = "load" /\ UNCHANGED <<delivered, stat>> /\ dec'.pc = "load" /\ dec'.m = dec.m
    BY <1>1, <1>5 DEF DecodeLoad, DecState
  <2> QED
    BY <1>2, <2>1, DecoderWaits
<1>8. CASE DecodeLoadFail
  <2>1. dec.pc = "load" /\ UNCHANGED <<delivered, stat>> /\ dec'.pc = "copy" /\ dec'.m = dec.m
    BY <1>1, <1>8 DEF DecodeLoadFail, DecState
  <2> QED
    BY <1>2, <2>1, DecoderWaits
<1>6. CASE DecodeLoaded
  BY <1>2, <1>6, DeliverTally DEF DecodeLoaded
<1>7. CASE DecodeCopy
  <2>1. dec.pc = "copy"
    BY <1>7 DEF DecodeCopy
  <2>2. CASE Deliver(NoPair, dec.data)
    BY <1>2, <2>1, <2>2, DeliverTally
  <2>3. CASE ~Deliver(NoPair, dec.data)
    <3>1. UNCHANGED <<delivered, stat>> /\ dec'.pc = "copy" /\ dec'.m = dec.m
      BY <1>1, <1>7, <2>1, <2>3 DEF DecodeCopy, DecState
    <3> QED
      BY <1>2, <2>1, <3>1, DecoderWaits
  <2> QED
    BY <2>2, <2>3
<1> QED
  BY <1>3, <1>4, <1>5, <1>6, <1>7, <1>8

\* The application counts nothing.
LEMMA ApplicationTally ==
    ASSUME NEW G, NEW T, IInv, Tally(G, T), Application \/ UNCHANGED vars
    PROVE  Tally(G, T)'
<1>1. UNCHANGED <<taken, buf, enc, conn, dec, stat>>
  BY DEF Application, Read, Close, encVars, vars
<1>2. Len(delivered') = Len(delivered)
  <2>1. CASE UNCHANGED vars
    BY <2>1 DEF vars
  <2>2. ASSUME NEW i \in DOMAIN delivered, Close(i) PROVE Len(delivered') = Len(delivered)
    BY <2>2, BodyLeaves, "closed" \in {"closed", "forwarded"} DEF Close
  <2>3. ASSUME NEW i \in DOMAIN delivered, Read(i) PROVE Len(delivered') = Len(delivered)
    <3>1. delivered \in Seq(Body)
      BY DEF IInv, Types
    <3>2. PICK e : delivered' = [delivered EXCEPT ![i] = e]
      BY <2>3 DEF Read
    <3> QED
      BY <3>1, <3>2
  <2> QED
    BY <2>1, <2>2, <2>3 DEF Application
<1>3. HeadIn' = HeadIn
  BY <1>1 DEF HeadIn
<1> QED
  BY <1>1, <1>2, <1>3, SumsKept, WriteKept, ReadKept DEF Tally

\* Before anything is sent all counts are zero.
LEMMA InitTally == Init => TallyInv
<1> SUFFICES ASSUME Init PROVE TallyInv
  OBVIOUS
<1>1. PICK G : G = [i \in Nat |-> 0]
  OBVIOUS
<1>2. \A i \in Nat : G[i] = 0 /\ G[i] \in Nat
  BY <1>1
<1>3. /\ taken = <<>> /\ buf = <<>> /\ delivered = <<>>
      /\ Len(taken) = 0 /\ Len(buf) = 0 /\ Len(delivered) = 0 /\ 1 .. Len(taken) = {}
      /\ enc.pc = "idle" /\ dec.pc = "start" /\ \A f \in ConnStats : stat[f] = 0
  BY DEF Init, Idle, Waiting
<1>4. Unfinished = 1 /\ HeadIn = 0 /\ G[1] = 0
  BY <1>2, <1>3 DEF Unfinished, HeadIn
<1>5. WriteTally(G, G) /\ ReadTally(G, G)
  BY <1>3, <1>4 DEF WriteTally, ReadTally, ConnStats
<1>6. Sums(G, G)
  BY <1>2, <1>3 DEF Sums, Numbers
<1> QED
  BY <1>5, <1>6 DEF Tally, TallyInv

\* Every step keeps the tally, until the boundaries are lost.
LEMMA NextTally ==
    ASSUME PassedOnKept, IInv, StreamInv, TallyInv, [Next]_vars
    PROVE  TallyInv'
<1> SUFFICES ASSUME ~Misframed'
             PROVE  \E H, U : Tally(H, U)'
  BY DEF TallyInv
<1>9. ~Misframed
  BY FramedBefore
<1>1. PICK G, T : Tally(G, T)
  BY <1>9 DEF TallyInv
<1>2. DecShape /\ DecShape'
  <2>1. StreamInv'
    BY NextStream
  <2> QED
    BY <1>9, <2>1 DEF StreamInv, Good, Base
<1>3. ASSUME NEW m \in Msgs, EncodeHeaders(m) \/ EncodeHeadersFail(m)
      PROVE  \E H, U : Tally(H, U)'
  BY <1>1, <1>2, <1>3, EncodeHeadersTally, EncodeHeadersFailTally
<1>4. ASSUME Encoder PROVE Tally(G, T)'
  BY <1>1, <1>4, FlushTally, EncoderTally, EncodeReturnTally DEF Encoder
<1>5. ASSUME Decoder PROVE Tally(G, T)'
  <2>1. CASE DecodeFail
    BY <1>1, <2>1, EndedTally DEF DecodeFail, DecoderOnly, encVars
  <2>2. CASE DecodeStart \/ DecodeHead
    BY <1>1, <1>2, <2>2, DecodeStartTally, DecodeHeadTally
  <2>3. CASE \/ DecodeBody \/ DecodeGrow \/ DecodeLoad \/ DecodeLoadFail
             \/ DecodeLoaded \/ DecodeCopy
    BY <1>1, <1>2, <2>3, DecodeBodyTally
  <2> QED
    BY <1>5, <2>1, <2>2, <2>3 DEF Decoder
<1>6. ASSUME ConnEnd PROVE Tally(G, T)'
  BY <1>1, <1>6, EndedTally DEF ConnEnd, encVars
<1>7. ASSUME Application \/ UNCHANGED vars PROVE Tally(G, T)'
  BY <1>1, <1>7, ApplicationTally
<1> QED
  BY <1>3, <1>4, <1>5, <1>6, <1>7 DEF Next

\* As long as the boundaries are kept, writer and reader have counted the same headers,
\* bodies and messages whenever nothing is on the way, and all messages that were taken.
THEOREM StatsCorrect ==
    ASSUME PassedOnKept
    PROVE  Spec => []StatsAgree
<1>1. ASSUME IInv, StreamInv, TallyInv, ~Misframed PROVE StatsAgree
  <2>1. PICK A, P, X : Good(A, P, X)
    BY <1>1 DEF StreamInv
  <2>2. PICK G, T : Tally(G, T)
    BY <1>1 DEF TallyInv
  <2>3. SUFFICES ASSUME enc.pc = "idle", buf = <<>>, wire = <<>>, conn = "open", dec.pc = "start"
                 PROVE  /\ stat["HeadRead"] = stat["HeadWritten"]
                        /\ stat["BodyRead"] = stat["BodyWritten"]
                        /\ stat["ReadCalls"] = stat["WriteCalls"]
                        /\ stat["WriteCalls"] = Len(taken)
    BY DEF StatsAgree
  <2>4. PICK D, L \in Nat : D = Len(delivered) /\ L = Len(taken) /\ D <= L
    BY <1>1, <2>1, DecIs
  <2>5. PICK a, b \in Nat : a = A[D + 1] /\ b = A[L + 1]
    BY <2>1 DEF Good, Base, Numbers
  <2>6. a = b
    <3>1. DecAt(A) = a /\ EncAt(A) = b /\ Len(wire) = 0 /\ Len(buf) = 0
      BY <2>3, <2>4, <2>5 DEF DecAt, EncAt
    <3>2. a + 0 + 0 = b
      BY <2>1, <2>3, <3>1 DEF Good, Base, Travel
    <3> QED
      BY <3>2
  <2>7. D = L
    <3>1. D + 1 < L + 1 => a < b
      <4>1. D + 1 \in 1 .. L + 1 /\ L + 1 \in 1 .. L + 1
        BY <2>4
      <4> QED
        BY <2>1, <2>4, <2>5, <4>1 DEF Good, Base, Tape
    <3> QED
      BY <2>4, <2>6, <3>1
  <2>8. PICK g, w, c \in Nat : /\ g = G[L + 1] /\ w = stat["HeadWritten"] /\ c = stat["WriteCalls"]
    <3>1. G[L + 1] \in Nat
      BY <2>2 DEF Tally, Sums, Numbers
    <3>2. stat["HeadWritten"] \in Nat /\ stat["WriteCalls"] \in Nat
      BY <1>1 DEF IInv, Types, ConnStats
    <3> QED
      BY <3>1, <3>2
  <2>9. Unfinished = L + 1 /\ HeadIn = 0 /\ Len(buf) = 0
    BY <2>3, <2>4 DEF Unfinished, HeadIn
  <2>10. WriteTally(G, T) /\ ReadTally(G, T)
    BY <2>2, <2>3 DEF Tally
  <2>11. w + 0 = g /\ stat["BodyWritten"] = T[L + 1] /\ c + 1 = L + 1
    BY <2>4, <2>8, <2>9, <2>10 DEF WriteTally
  <2>12. stat["HeadRead"] = g + 0 /\ stat["BodyRead"] = T[L + 1] /\ stat["ReadCalls"] = L
    BY <2>4, <2>7, <2>8, <2>9, <2>10 DEF ReadTally
  <2> QED
    BY <2>4, <2>8, <2>11, <2>12
<1>2. (IInv /\ StreamInv /\ TallyInv) /\ [Next]_vars => (IInv /\ StreamInv /\ TallyInv)'
  BY NextIInv, NextStream, NextTally
<1>3. Init => IInv /\ StreamInv /\ TallyInv
  BY InitIInv, InitStream, InitTally
<1>4. IInv /\ StreamInv /\ TallyInv => StatsAgree
  BY <1>1 DEF StatsAgree
<1> QED
  BY <1>2, <1>3, <1>4, PTL DEF Spec
=============================================================================
