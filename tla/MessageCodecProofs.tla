------------------------- MODULE MessageCodecProofs -------------------------
(***************************************************************************)
(* The pipe pairs of MessageCodec: in every instance in which bodies that  *)
(* are passed on are marked NotClose, each pair is in one hand, the pool   *)
(* holds only empty pairs and counts the others.                           *)
(***************************************************************************)
EXTENDS MessageCodec, FiniteSetTheorems, TLAPS

\* The discipline of a proxy: a body that is passed on as an IsPipe is closed by
\* spliceTo and must not be closed by encode once more (Body.NotClose).  Without
\* it body_closed_twice shows the pair in two hands.
PassedOnKept == \A m \in Msgs : Kind[m] = "pipe" => m \in NotClose

-----------------------------------------------------------------------------
(* The inductive invariant.                                                 *)

EncState ==
    [pc: {"idle", "body", "grow", "load", "write", "copy", "close", "dead"},
     pair: Pairs \cup {NoPair}, pos: Nat, n: Nat, ok: BOOLEAN, todo: Seq(Pairs)]
DecState ==
    [pc: {"start", "head", "grow", "load", "copy", "done", "garbled"},
     m: Msgs \cup {NoMsg}, pair: Pairs \cup {NoPair}, n: Nat,
     todo: Seq({"err", "head"}), data: Seq(Units)]
Pipe == [size: Nat, data: Seq(Units)]
Body == [m: Msgs, data: Seq(Units), pair: Pairs \cup {NoPair},
         st: {"open", "closed", "forwarded"}]

\* The pool: it has pairs that were made, none of them twice, all of them empty.
PoolInv ==
    /\ unused \in Seq(Pairs) /\ usedCount \in Int
    /\ pair \in Seq(Pipe) /\ Len(pair) <= MaxPairs
    /\ \A i \in DOMAIN unused : unused[i] \in DOMAIN pair
    /\ \A i, j \in DOMAIN unused : unused[i] = unused[j] => i = j
    /\ UnusedIsEmpty

\* The types of what is not in the pool.
Types ==
    /\ opt \in [writer: BOOLEAN, reader: BOOLEAN, closeBody: BOOLEAN]
    /\ taken \in Seq(Msgs) /\ script \in Scripts /\ buf \in Seq(Units) /\ wire \in Seq(Units)
    /\ enc \in EncState
    /\ conn \in {"open", "eof", "reset"}
    /\ dec \in DecState
    /\ delivered \in Seq(Body)
    /\ stat \in [ConnStats -> Nat] /\ faults \in 0 .. MaxFaults

\* The encoder has a pair from get, or from the body that is passed on, until it is
\* closed or lost; it is going to be closed at most once.
EncInv ==
    /\ enc.pair # NoPair => enc.pair \in DOMAIN pair
    /\ enc.pc \in {"idle", "dead"} => enc.pair = NoPair
    /\ enc.pc \notin {"idle", "dead"} => taken # <<>>
    /\ enc.pc \in {"grow", "load", "write"} => enc.pair # NoPair
    /\ enc.pc \in {"grow", "load"} => Kind[Current] # "pipe"
    /\ enc.pc \in {"body", "copy"} => (enc.pair # NoPair <=> Kind[Current] = "pipe")
    /\ enc.todo # <<>> => enc.pc = "close" /\ enc.pair # NoPair /\ enc.todo = <<enc.pair>>

\* The decoder has a pair while it fills it, for a message that it knows.
DecInv ==
    /\ dec.pair # NoPair <=> dec.pc \in {"grow", "load"}
    /\ dec.pair # NoPair => dec.pair \in DOMAIN pair
    /\ dec.pc \in {"head", "grow", "load", "copy"} => dec.m \in Msgs

\* A body that has a pair is open, and no two have the same.
BodyInv ==
    /\ \A i \in DOMAIN delivered : delivered[i].pair # NoPair =>
          delivered[i].pair \in DOMAIN pair /\ delivered[i].st = "open"
    /\ \A i, j \in DOMAIN delivered :
          delivered[i].pair = delivered[j].pair /\ delivered[i].pair # NoPair => i = j

Pooled(p) == \E i \in DOMAIN unused : unused[i] = p
Bodied(p) == \E i \in DOMAIN delivered : delivered[i].pair = p

\* A pair that was made is somewhere, and in one place only.
Lone(p) ==
    /\ Pooled(p) \/ enc.pair = p \/ dec.pair = p \/ Bodied(p) \/ p \in leaked
    /\ Pooled(p) => enc.pair # p /\ dec.pair # p /\ ~Bodied(p) /\ p \notin leaked
    /\ enc.pair = p => dec.pair # p /\ ~Bodied(p) /\ p \notin leaked
    /\ dec.pair = p => ~Bodied(p) /\ p \notin leaked
    /\ Bodied(p) => p \notin leaked

OwnInv ==
    /\ leaked \subseteq DOMAIN pair
    /\ \A p \in DOMAIN pair : Lone(p)

IInv == PoolInv /\ Types /\ EncInv /\ DecInv /\ BodyInv /\ OwnInv

\* Before anything is sent there is no pair.
LEMMA InitIInv == Init => IInv
<1> SUFFICES ASSUME Init PROVE IInv
  OBVIOUS
<1> USE DEF Init, PoolInit, Idle, Waiting, NoPair
<1>1. Types
  <2>1. stat \in [ConnStats -> Nat]
    OBVIOUS
  <2>2. faults \in 0 .. MaxFaults
    BY CodecAssumption
  <2> QED
    BY <2>1, <2>2, PoolAssumption DEF Types, EncState, DecState
<1>2. EncInv /\ DecInv /\ BodyInv
  BY DEF EncInv, DecInv, BodyInv
<1>3. OwnInv
  BY DEF OwnInv
<1>4. PoolInv
  BY PoolAssumption DEF PoolInv, UnusedIsEmpty
<1> QED
  BY <1>1, <1>2, <1>3, <1>4 DEF IInv

-----------------------------------------------------------------------------
(* The calls of SplicePool.                                                 *)

\* The pairs that were made stay what they are, but for pair p.
OthersKept(p) ==
    /\ Len(pair) <= Len(pair')
    /\ \A q \in DOMAIN pair : q # p => pair'[q] = pair[q]

\* The stack without its last element.
LEMMA FrontOf ==
    ASSUME NEW S, NEW s \in Seq(S), s # <<>>
    PROVE  /\ Len(s) \in Nat /\ Len(s) >= 1 /\ DOMAIN s = 1 .. Len(s) /\ Last(s) = s[Len(s)]
           /\ Front(s) \in Seq(S) /\ Len(Front(s)) = Len(s) - 1
           /\ DOMAIN Front(s) = 1 .. Len(s) - 1
           /\ \A i \in 1 .. Len(s) - 1 : Front(s)[i] = s[i]
<1>1. Len(s) \in Nat /\ Len(s) >= 1 /\ DOMAIN s = 1 .. Len(s)
  OBVIOUS
<1>2. /\ SubSeq(s, 1, Len(s) - 1) \in Seq(S) /\ Len(SubSeq(s, 1, Len(s) - 1)) = Len(s) - 1
      /\ \A i \in 1 .. Len(s) - 1 : SubSeq(s, 1, Len(s) - 1)[i] = s[i]
  BY <1>1
<1>3. DOMAIN SubSeq(s, 1, Len(s) - 1) = 1 .. Len(s) - 1
  BY <1>2
<1> QED
  BY <1>1, <1>2, <1>3 DEF Front, Last

\* A sequence with one element replaced.
LEMMA Updated ==
    ASSUME NEW S, NEW s \in Seq(S), NEW i \in DOMAIN s, NEW e \in S
    PROVE  LET t == [s EXCEPT ![i] = e] IN
           /\ t \in Seq(S) /\ Len(t) = Len(s) /\ DOMAIN t = DOMAIN s
           /\ t[i] = e /\ \A j \in DOMAIN s : j # i => t[j] = s[j]
OBVIOUS

\* The elements a + 1 to b of a sequence.
LEMMA PartOf ==
    ASSUME NEW S, NEW s \in Seq(S), NEW a \in Nat, NEW b \in Nat, b <= Len(s)
    PROVE  LET t == SubSeq(s, a + 1, b) IN
           /\ t \in Seq(S) /\ Len(t) = IF b > a THEN b - a ELSE 0
           /\ \A i \in 1 .. b - a : t[i] = s[a + i]
<1>1. CASE b > a
  BY <1>1
<1>2. CASE ~(b > a)
  <2>1. SubSeq(s, a + 1, b) = <<>>
    BY <1>2
  <2> QED
    BY <1>2, <2>1
<1> QED
  BY <1>1, <1>2

\* A sequence without its first n elements.
LEMMA SuffixOf ==
    ASSUME NEW S, NEW s \in Seq(S), NEW n \in Nat, n <= Len(s)
    PROVE  LET t == SubSeq(s, n + 1, Len(s)) IN
           /\ t \in Seq(S) /\ Len(t) = Len(s) - n
           /\ \A i \in 1 .. Len(s) - n : t[i] = s[i + n]
OBVIOUS

\* get returns a pair that was in the pool or is new, and that is empty.
LEMMA GetPair ==
    ASSUME PoolInv, NEW p \in Pairs, get(p)
    PROVE  /\ PoolInv'
           /\ p \in DOMAIN pair' /\ pair'[p].data = <<>>
           /\ p \in DOMAIN pair => Pooled(p)
           /\ \A q : Pooled(q)' <=> Pooled(q) /\ q # p
           /\ \A q \in DOMAIN pair' : q = p \/ q \in DOMAIN pair
           /\ OthersKept(p)
<1> USE DEF PoolInv
<1>1. CASE unused # <<>> /\ p = Last(unused) /\ unused' = Front(unused) /\ UNCHANGED pair
      /\ usedCount' = usedCount + 1
  <2>1. /\ Len(unused) \in Nat /\ Len(unused) >= 1 /\ p = unused[Len(unused)]
        /\ Len(unused') = Len(unused) - 1
        /\ DOMAIN unused' = 1 .. Len(unused) - 1 /\ DOMAIN unused = 1 .. Len(unused)
        /\ \A i \in 1 .. Len(unused) - 1 : unused'[i] = unused[i]
        /\ unused' \in Seq(Pairs)
    BY <1>1, FrontOf
  <2>2. p \in DOMAIN pair /\ Pooled(p) /\ pair[p].data = <<>>
    BY <2>1 DEF Pooled, UnusedIsEmpty
  <2>3. ASSUME NEW q
        PROVE  Pooled(q)' <=> Pooled(q) /\ q # p
    <3>1. ASSUME Pooled(q)' PROVE Pooled(q) /\ q # p
      <4>1. PICK i \in 1 .. Len(unused) - 1 : unused'[i] = q
        BY <2>1, <3>1 DEF Pooled
      <4>2. i \in DOMAIN unused /\ unused[i] = q /\ i # Len(unused)
        BY <2>1, <4>1
      <4> QED
        BY <2>1, <4>2 DEF Pooled
    <3>2. ASSUME Pooled(q), q # p PROVE Pooled(q)'
      BY <2>1, <3>2 DEF Pooled
    <3> QED
      BY <3>1, <3>2
  <2>4. UnusedIsEmpty'
    <3>1. \A i \in 1 .. Len(unused) - 1 : i \in DOMAIN unused
      BY <2>1
    <3>2. \A i \in DOMAIN unused' : i \in DOMAIN unused /\ unused'[i] = unused[i]
      BY <2>1, <3>1
    <3> QED
      BY <1>1, <3>2 DEF UnusedIsEmpty
  <2>5. PoolInv'
    <3>1. \A i \in DOMAIN unused' : unused'[i] \in DOMAIN pair'
      BY <1>1, <2>1
    <3>2. \A i, j \in DOMAIN unused' : unused'[i] = unused'[j] => i = j
      BY <2>1, SMTT(30)
    <3> QED
      BY <1>1, <2>1, <2>4, <3>1, <3>2
  <2> QED
    BY <1>1, <2>2, <2>3, <2>5 DEF OthersKept
<1>2. CASE unused = <<>> /\ Len(pair) < MaxPairs /\ p = Len(pair) + 1
      /\ pair' = Append(pair, NewPair) /\ UNCHANGED unused /\ usedCount' = usedCount + 1
  <2>1. NewPair \in Pipe /\ NewPair.data = <<>>
    BY PoolAssumption DEF NewPair, Pipe
  <2>2. /\ pair' \in Seq(Pipe) /\ Len(pair') = Len(pair) + 1 /\ Len(pair) \in Nat
        /\ DOMAIN pair = 1 .. Len(pair) /\ DOMAIN pair' = 1 .. Len(pair) + 1
        /\ \A q \in 1 .. Len(pair) : pair'[q] = pair[q]
        /\ pair'[p] = NewPair
    BY <1>2, <2>1
  <2>3. UnusedIsEmpty'
    BY <1>2, <2>2 DEF UnusedIsEmpty
  <2>4. PoolInv'
    BY <1>2, <2>2, <2>3, PoolAssumption
  <2>5. \A q : ~Pooled(q) /\ ~Pooled(q)'
    BY <1>2 DEF Pooled
  <2> QED
    BY <1>2, <2>1, <2>2, <2>4, <2>5 DEF OthersKept
<1> QED
  BY <1>1, <1>2 DEF get

\* A pipe with other contents, or made larger.
LEMMA PairWith ==
    ASSUME pair \in Seq(Pipe), NEW p \in DOMAIN pair
    PROVE  pair[p].size \in Nat /\ pair[p].data \in Seq(Units)
<1>1. pair[p] \in Pipe
  OBVIOUS
<1> QED
  BY <1>1 DEF Pipe

\* Replacing the contents of a pair leaves its capacity.
LEMMA PairWithData ==
    ASSUME pair \in Seq(Pipe), NEW p \in DOMAIN pair, NEW d \in Seq(Units),
           pair' = [pair EXCEPT ![p].data = d]
    PROVE  \E x \in Pipe : /\ x.size = pair[p].size /\ x.data = d
                           /\ pair' = [pair EXCEPT ![p] = x]
<1>1. PICK y \in Pipe : y = pair[p]
  OBVIOUS
<1>2. PICK x : x = [y EXCEPT !.data = d]
  OBVIOUS
<1>3. x \in Pipe /\ x.size = y.size /\ x.data = d
  BY <1>2 DEF Pipe
<1>4. pair' = [pair EXCEPT ![p] = x]
  BY <1>1, <1>2
<1> QED
  BY <1>1, <1>3, <1>4

\* Changing the capacity of a pair leaves its contents.
LEMMA PairWithSize ==
    ASSUME pair \in Seq(Pipe), NEW p \in DOMAIN pair, NEW n \in Nat,
           pair' = [pair EXCEPT ![p].size = n]
    PROVE  \E x \in Pipe : /\ x.size = n /\ x.data = pair[p].data
                           /\ pair' = [pair EXCEPT ![p] = x]
<1>1. PICK y \in Pipe : y = pair[p]
  OBVIOUS
<1>2. PICK x : x = [y EXCEPT !.size = n]
  OBVIOUS
<1>3. x \in Pipe /\ x.size = n /\ x.data = y.data
  BY <1>2 DEF Pipe
<1>4. pair' = [pair EXCEPT ![p] = x]
  BY <1>1, <1>2
<1> QED
  BY <1>1, <1>3, <1>4

\* A pair that is not in the pool is put there, empty.
LEMMA DonePair ==
    ASSUME PoolInv, NEW p \in DOMAIN pair, ~Pooled(p), done(p)
    PROVE  /\ PoolInv'
           /\ DOMAIN pair' = DOMAIN pair
           /\ \A q : Pooled(q)' <=> Pooled(q) \/ q = p
           /\ OthersKept(p)
<1> USE DEF PoolInv
<1>1. /\ pair' = [pair EXCEPT ![p].data = <<>>] /\ usedCount' = usedCount - 1
      /\ unused' = Append(unused, p)
  BY DEF done, Discarded, CountBack
<1>2. p \in Pairs
  BY PoolAssumption DEF Pairs
<1>3. /\ pair' \in Seq(Pipe) /\ Len(pair') = Len(pair) /\ DOMAIN pair' = DOMAIN pair
      /\ pair'[p].data = <<>> /\ \A q \in DOMAIN pair : q # p => pair'[q] = pair[q]
  <2>1. <<>> \in Seq(Units)
    OBVIOUS
  <2>2. PICK d \in Seq(Units) : d = <<>>
    BY <2>1
  <2>3. PICK x \in Pipe : x.data = d /\ pair' = [pair EXCEPT ![p] = x]
    BY <1>1, <2>2, PairWithData
  <2> QED
    BY <2>2, <2>3
<1>4. /\ unused' \in Seq(Pairs) /\ Len(unused') = Len(unused) + 1 /\ Len(unused) \in Nat
      /\ DOMAIN unused = 1 .. Len(unused) /\ DOMAIN unused' = 1 .. Len(unused) + 1
      /\ \A i \in 1 .. Len(unused) : unused'[i] = unused[i]
      /\ unused'[Len(unused) + 1] = p
  BY <1>1, <1>2
<1>5. ASSUME NEW q
      PROVE  Pooled(q)' <=> Pooled(q) \/ q = p
  <2>1. ASSUME Pooled(q)' PROVE Pooled(q) \/ q = p
    <3>1. PICK i \in 1 .. Len(unused) + 1 : unused'[i] = q
      BY <1>4, <2>1 DEF Pooled
    <3>2. i = Len(unused) + 1 \/ i \in DOMAIN unused
      BY <1>4
    <3> QED
      BY <1>4, <3>1, <3>2 DEF Pooled
  <2>2. ASSUME Pooled(q) PROVE Pooled(q)'
    BY <1>4, <2>2 DEF Pooled
  <2>3. Pooled(p)'
    BY <1>4 DEF Pooled
  <2> QED
    BY <2>1, <2>2, <2>3
<1>6. \A i \in 1 .. Len(unused) : unused[i] # p
  BY <1>4 DEF Pooled
<1>7. UnusedIsEmpty'
  BY <1>3, <1>4, <1>6 DEF UnusedIsEmpty
<1>8. \A i, j \in DOMAIN unused' : unused'[i] = unused'[j] => i = j
  BY <1>4, <1>6
<1>9. \A i \in DOMAIN unused' : unused'[i] \in DOMAIN pair'
  BY <1>3, <1>4
<1> QED
  BY <1>1, <1>3, <1>4, <1>5, <1>7, <1>8, <1>9 DEF OthersKept

\* Grow, Load and Drain, on a pair that is not in the pool.
LEMMA ChangePair ==
    ASSUME PoolInv, NEW p \in DOMAIN pair, ~Pooled(p),
           NEW x \in Pipe, pair' = [pair EXCEPT ![p] = x], UNCHANGED <<unused, usedCount>>
    PROVE  /\ PoolInv'
           /\ DOMAIN pair' = DOMAIN pair /\ pair'[p] = x
           /\ \A q : Pooled(q)' <=> Pooled(q)
           /\ OthersKept(p)
<1> USE DEF PoolInv
<1>1. /\ pair' \in Seq(Pipe) /\ Len(pair') = Len(pair) /\ DOMAIN pair' = DOMAIN pair
      /\ pair'[p] = x /\ \A q \in DOMAIN pair : q # p => pair'[q] = pair[q]
  OBVIOUS
<1>2. UnusedIsEmpty'
  BY <1>1 DEF UnusedIsEmpty, Pooled
<1> QED
  BY <1>1, <1>2 DEF OthersKept, Pooled

\* A get that fails counts a pair that does not exist.
LEMMA GetFailed ==
    ASSUME PoolInv, getFails
    PROVE  PoolInv'
BY DEF PoolInv, getFails, UnusedIsEmpty

-----------------------------------------------------------------------------
(* Pairs that move.                                                         *)

\* Nobody's hold on pair q changes.
Untouched(q) ==
    /\ Pooled(q)' <=> Pooled(q)
    /\ enc'.pair = q <=> enc.pair = q
    /\ dec'.pair = q <=> dec.pair = q
    /\ Bodied(q)' <=> Bodied(q)
    /\ q \in leaked' <=> q \in leaked

\* A step that moves pair p, from one place to another, keeps OwnInv.
LEMMA Moved ==
    ASSUME OwnInv, NEW p,
           \A q \in DOMAIN pair' : q = p \/ q \in DOMAIN pair,
           \A q \in DOMAIN pair : q # p => Untouched(q),
           p \in DOMAIN pair' => Lone(p)',
           leaked' \subseteq DOMAIN pair'
    PROVE  OwnInv'
<1>1. ASSUME NEW q \in DOMAIN pair'
      PROVE  Lone(q)'
  <2>1. CASE q = p
    BY <2>1
  <2>2. CASE q # p
    <3>1. Lone(q) /\ Untouched(q)
      BY <2>2 DEF OwnInv
    <3> QED
      BY <3>1, Zenon DEF Lone, Untouched
  <2> QED
    BY <2>1, <2>2
<1> QED
  BY <1>1 DEF OwnInv

\* A step that moves none.
LEMMA NoneMoved ==
    ASSUME OwnInv, BodyInv, DOMAIN pair' = DOMAIN pair, \A q : Pooled(q)' <=> Pooled(q),
           enc'.pair = enc.pair, dec'.pair = dec.pair, UNCHANGED <<delivered, leaked>>
    PROVE  OwnInv' /\ BodyInv'
<1>1. \A q : Bodied(q)' <=> Bodied(q)
  BY DEF Bodied
<1>2. \A q : Lone(q) => Lone(q)'
  BY <1>1 DEF Lone
<1>3. OwnInv'
  BY <1>2 DEF OwnInv
<1>4. BodyInv'
  BY DEF BodyInv
<1> QED
  BY <1>3, <1>4

\* The bodies, when none of them changes.
LEMMA BodiesKept ==
    ASSUME BodyInv, UNCHANGED delivered, DOMAIN pair \subseteq DOMAIN pair'
    PROVE  BodyInv' /\ \A q : Bodied(q)' <=> Bodied(q)
<1>1. \A q : Bodied(q)' <=> Bodied(q)
  BY DEF Bodied
<1>2. BodyInv'
  BY DEF BodyInv
<1> QED
  BY <1>1, <1>2

\* A body gives its pair away.
LEMMA BodyGiven ==
    ASSUME delivered \in Seq(Body), BodyInv, DOMAIN pair' = DOMAIN pair,
           NEW i \in DOMAIN delivered, NEW s \in {"closed", "forwarded"},
           delivered' = [delivered EXCEPT ![i].st = s, ![i].pair = NoPair]
    PROVE  /\ delivered' \in Seq(Body) /\ BodyInv'
           /\ \A q : q # NoPair => (Bodied(q)' <=> Bodied(q) /\ q # delivered[i].pair)
<1>1. PICK d \in Body : d = delivered[i]
  OBVIOUS
<1>2. PICK e : e = [d EXCEPT !.st = s, !.pair = NoPair]
  OBVIOUS
<1>3. e \in Body /\ e.pair = NoPair
  BY <1>2 DEF Body
<1>4. delivered' = [delivered EXCEPT ![i] = e]
  BY <1>1, <1>2
<1>5. /\ delivered' \in Seq(Body) /\ DOMAIN delivered' = DOMAIN delivered
      /\ delivered'[i] = e /\ \A j \in DOMAIN delivered : j # i => delivered'[j] = delivered[j]
  <2>1. LET t == [delivered EXCEPT ![i] = e] IN
        /\ t \in Seq(Body) /\ DOMAIN t = DOMAIN delivered
        /\ t[i] = e /\ \A j \in DOMAIN delivered : j # i => t[j] = delivered[j]
    BY <1>3, Updated
  <2> QED
    BY <1>4, <2>1, Zenon
<1>6. BodyInv'
  BY <1>3, <1>5 DEF BodyInv
<1>7. ASSUME NEW q, q # NoPair
      PROVE  Bodied(q)' <=> Bodied(q) /\ q # delivered[i].pair
  <2>1. ASSUME Bodied(q)' PROVE Bodied(q) /\ q # delivered[i].pair
    <3>1. PICK j \in DOMAIN delivered : j # i /\ delivered[j].pair = q
      BY <1>3, <1>5, <1>7, <2>1 DEF Bodied
    <3> QED
      BY <1>7, <3>1 DEF Bodied, BodyInv
  <2>2. ASSUME Bodied(q), q # delivered[i].pair PROVE Bodied(q)'
    BY <1>5, <2>2 DEF Bodied
  <2> QED
    BY <2>1, <2>2
<1> QED
  BY <1>5, <1>6, <1>7

\* A body is delivered, with a pair that no other body has, or without one.
LEMMA BodyAdded ==
    ASSUME delivered \in Seq(Body), BodyInv, DOMAIN pair' = DOMAIN pair,
           NEW d \in Body, delivered' = Append(delivered, d),
           d.pair # NoPair => d.st = "open" /\ d.pair \in DOMAIN pair /\ ~Bodied(d.pair)
    PROVE  /\ delivered' \in Seq(Body) /\ BodyInv'
           /\ \A q : Bodied(q)' <=> Bodied(q) \/ q = d.pair
<1>1. /\ delivered' \in Seq(Body) /\ Len(delivered) \in Nat
      /\ DOMAIN delivered = 1 .. Len(delivered) /\ DOMAIN delivered' = 1 .. Len(delivered) + 1
      /\ \A j \in 1 .. Len(delivered) : delivered'[j] = delivered[j]
      /\ delivered'[Len(delivered) + 1] = d
  OBVIOUS
<1>2. ASSUME NEW j \in DOMAIN delivered'
      PROVE  j = Len(delivered) + 1 \/ j \in DOMAIN delivered
  BY <1>1
<1>3. d.pair # NoPair => \A j \in DOMAIN delivered : delivered[j].pair # d.pair
  BY DEF Bodied
<1>4. BodyInv'
  <2>1. ASSUME NEW j \in DOMAIN delivered', delivered'[j].pair # NoPair
        PROVE  delivered'[j].pair \in DOMAIN pair' /\ delivered'[j].st = "open"
    BY <1>1, <1>2, <2>1 DEF BodyInv
  <2>2. ASSUME NEW j \in DOMAIN delivered', NEW l \in DOMAIN delivered',
               delivered'[j].pair = delivered'[l].pair, delivered'[j].pair # NoPair
        PROVE  j = l
    <3>1. CASE j \in DOMAIN delivered /\ l \in DOMAIN delivered
      BY <1>1, <2>2, <3>1 DEF BodyInv
    <3>2. CASE j = Len(delivered) + 1 /\ l \in DOMAIN delivered
      BY <1>1, <1>3, <2>2, <3>2
    <3>3. CASE j \in DOMAIN delivered /\ l = Len(delivered) + 1
      BY <1>1, <1>3, <2>2, <3>3
    <3> QED
      BY <1>2, <3>1, <3>2, <3>3
  <2> QED
    BY <2>1, <2>2 DEF BodyInv
<1>5. ASSUME NEW q
      PROVE  Bodied(q)' <=> Bodied(q) \/ q = d.pair
  <2>1. ASSUME Bodied(q)' PROVE Bodied(q) \/ q = d.pair
    BY <1>1, <1>2, <2>1 DEF Bodied
  <2>2. ASSUME Bodied(q) PROVE Bodied(q)'
    BY <1>1, <2>2 DEF Bodied
  <2>3. Bodied(d.pair)'
    BY <1>1 DEF Bodied
  <2> QED
    BY <2>1, <2>2, <2>3
<1> QED
  BY <1>1, <1>4, <1>5

\* A body is read from.
LEMMA BodyRead ==
    ASSUME delivered \in Seq(Body), BodyInv, DOMAIN pair' = DOMAIN pair,
           NEW i \in DOMAIN delivered, NEW bytes \in Seq(Units),
           delivered' = [delivered EXCEPT ![i].data = @ \o bytes]
    PROVE  /\ delivered' \in Seq(Body) /\ BodyInv'
           /\ \A q : Bodied(q)' <=> Bodied(q)
<1>1. PICK d \in Body : d = delivered[i]
  OBVIOUS
<1>0. PICK both : both = d.data \o bytes
  OBVIOUS
<1>2. PICK e : e = [d EXCEPT !.data = both]
  OBVIOUS
<1>3. e \in Body /\ e.pair = d.pair /\ e.st = d.st
  <2>1. d.data \in Seq(Units)
    BY DEF Body
  <2>2. both \in Seq(Units)
    BY <1>0, <2>1
  <2> QED
    BY <1>2, <2>2 DEF Body
<1>4. delivered' = [delivered EXCEPT ![i] = e]
  BY <1>0, <1>1, <1>2
<1>5. /\ delivered' \in Seq(Body) /\ DOMAIN delivered' = DOMAIN delivered
      /\ \A j \in DOMAIN delivered :
            delivered'[j].pair = delivered[j].pair /\ delivered'[j].st = delivered[j].st
  <2>1. LET t == [delivered EXCEPT ![i] = e] IN
        /\ t \in Seq(Body) /\ DOMAIN t = DOMAIN delivered
        /\ t[i] = e /\ \A j \in DOMAIN delivered : j # i => t[j] = delivered[j]
    BY <1>3, Updated
  <2>2. /\ delivered' \in Seq(Body) /\ DOMAIN delivered' = DOMAIN delivered
        /\ delivered'[i] = e /\ \A j \in DOMAIN delivered : j # i => delivered'[j] = delivered[j]
    BY <1>4, <2>1, Zenon
  <2> QED
    BY <1>1, <1>3, <2>2
<1>6. BodyInv'
  BY <1>5 DEF BodyInv
<1> QED
  BY <1>5, <1>6 DEF Bodied

-----------------------------------------------------------------------------
(* Types of what the steps use.                                             *)

\* Counting keeps the type of the statistics.
LEMMA CountType ==
    ASSUME NEW s \in [ConnStats -> Nat], NEW f \in ConnStats, NEW n \in Nat
    PROVE  Count(s, f, n) \in [ConnStats -> Nat]
BY DEF Count

\* A header is a sequence of units, and what follows a start line one of parts.
LEMMA HeaderType ==
    ASSUME NEW m \in Msgs
    PROVE  Header(m) \in Seq(Units) /\ Rest(m) \in Seq({"err", "head"})
<1>1. /\ Unit(m, "start", 0) \in Units /\ Unit(m, "head", 0) \in Units
      /\ Unit(m, "err", 0) \in Units
  BY DEF Unit, Units
<1>2. Header(m) \in Seq(Units)
  BY <1>1 DEF Header
<1>3. Rest(m) \in Seq({"err", "head"})
  <2>1. <<"err">> \in Seq({"err", "head"}) /\ <<"head">> \in Seq({"err", "head"})
        /\ <<>> \in Seq({"err", "head"})
    OBVIOUS
  <2> QED
    BY <2>1, \A s, t \in Seq({"err", "head"}) : s \o t \in Seq({"err", "head"}) DEF Rest
<1> QED
  BY <1>2, <1>3

\* The reader of a message has SrcLen bytes, numbered from 1.
LEMMA SourceType ==
    ASSUME NEW m \in Msgs
    PROVE  /\ Source(m) \in Seq(Units) /\ Len(Source(m)) = SrcLen[m] /\ SrcLen[m] \in Nat
           /\ \A i \in 1 .. SrcLen[m] : Source(m)[i] = Unit(m, "body", i)
<1>1. SrcLen[m] \in Nat
  BY CodecAssumption
<1>2. \A i \in 1 .. SrcLen[m] : Unit(m, "body", i) \in Units
  BY <1>1 DEF Unit, Units
<1> QED
  BY <1>1, <1>2 DEF Source

\* Once a message was taken there is a current one, and its constants have their types.
LEMMA CurrentType ==
    ASSUME taken \in Seq(Msgs), taken # <<>>
    PROVE  /\ Current \in Msgs /\ Size[Current] \in Nat /\ Offset[Current] \in Nat
           /\ SrcLen[Current] \in Nat
<1>1. Current \in Msgs
  BY DEF Current, Last
<1> QED
  BY <1>1, CodecAssumption

\* The states in which the encoder starts over.
LEMMA EncStateType ==
    ASSUME NEW c \in {"idle", "body", "grow", "load", "write", "copy", "close", "dead"},
           NEW p \in Pairs \cup {NoPair}, NEW b \in BOOLEAN
    PROVE  [pc |-> c, pair |-> p, pos |-> 0, n |-> 0, ok |-> b, todo |-> <<>>] \in EncState
<1>1. <<>> \in Seq(Pairs)
  OBVIOUS
<1> QED
  BY <1>1 DEF EncState

\* The message that is taken is the current one.
LEMMA TakenType ==
    ASSUME taken \in Seq(Msgs), NEW m \in Msgs, taken' = Append(taken, m)
    PROVE  taken' \in Seq(Msgs) /\ taken' # <<>> /\ Current' = m
BY DEF Current, Last

\* alignSize covers the size, also on a page boundary.
LEMMA AlignType ==
    ASSUME NEW n \in Nat
    PROVE  alignSize(n) \in Nat /\ alignSize(n) > n
<1>1. PageSize \in Nat /\ PageSize > 0
  BY PoolAssumption
<1>2. n % PageSize \in Nat /\ n % PageSize < PageSize
  BY <1>1
<1> QED
  BY <1>1, <1>2 DEF alignSize

-----------------------------------------------------------------------------
(* The steps of the encoder.                                                *)

\* A body that is passed on goes to the encoder with its pair, or is lost with it.
LEMMA EncodeHeadersStep ==
    ASSUME IInv, NEW m \in Msgs, EncodeHeaders(m)
    PROVE  IInv'
<1> USE DEF EncodeHeaders, poolVars, setting
<1>0. PoolInv /\ Types /\ EncInv /\ DecInv /\ BodyInv /\ OwnInv
  BY DEF IInv
<1>1. /\ enc.pair = NoPair /\ enc.pc = "idle" /\ taken \in Seq(Msgs)
      /\ delivered \in Seq(Body) /\ buf \in Seq(Units) /\ wire \in Seq(Units)
  BY <1>0 DEF EncInv, Types
<1>2. taken' \in Seq(Msgs) /\ taken' # <<>> /\ Current' = m
  BY <1>1, TakenType
<1>3. PoolInv' /\ (\A q : Pooled(q)' <=> Pooled(q))
  BY <1>0 DEF PoolInv, UnusedIsEmpty, Pooled
<1>4. wire' \in Seq(Units) /\ buf' \in Seq(Units) /\ Len(buf \o Header(m)) \in Nat
  <2>1. Header(m) \in Seq(Units)
    BY HeaderType
  <2>2. buf \o Header(m) \in Seq(Units) /\ wire \o buf \o Header(m) \in Seq(Units)
    BY <1>1, <2>1
  <2> QED
    BY <1>1, <2>2
<1>5. stat' \in [ConnStats -> Nat]
  <2>1. PICK heads \in Nat, calls \in Nat :
           stat' = Count(Count(stat, "HeadWritten", heads), "WriteCalls", calls)
    BY <1>4
  <2>2. "HeadWritten" \in ConnStats /\ "WriteCalls" \in ConnStats
    BY DEF ConnStats
  <2>3. PICK s \in [ConnStats -> Nat] : s = Count(stat, "HeadWritten", heads)
    BY <1>0, <2>2, CountType DEF Types
  <2>4. Count(s, "WriteCalls", calls) \in [ConnStats -> Nat]
    BY <2>2, CountType
  <2> QED
    BY <2>1, <2>3, <2>4
<1>6. CASE Kind[m] # "pipe" /\ enc' = [Idle EXCEPT !.pc = IF HasBody(m) THEN "body" ELSE "idle"]
           /\ UNCHANGED delivered
  <2>1. enc' \in EncState /\ enc'.pair = NoPair /\ enc'.pc \in {"body", "idle"}
        /\ enc'.todo = <<>>
    <3>1. PICK c \in {"body", "idle"} : c = IF HasBody(m) THEN "body" ELSE "idle"
      OBVIOUS
    <3>2. enc' = [pc |-> c, pair |-> NoPair, pos |-> 0, n |-> 0, ok |-> TRUE, todo |-> <<>>]
      BY <1>6, <3>1 DEF Idle
    <3> QED
      BY <3>2, EncStateType
  <2>2. Types'
    BY <1>0, <1>2, <1>4, <1>5, <1>6, <2>1 DEF Types
  <2>3. EncInv' /\ DecInv'
    BY <1>0, <1>2, <1>6, <2>1 DEF EncInv, DecInv
  <2>4. BodyInv' /\ OwnInv'
    BY <1>0, <1>1, <1>3, <1>6, <2>1, NoneMoved
  <2> QED
    BY <1>3, <2>2, <2>3, <2>4 DEF IInv
<1>7. CASE Kind[m] = "pipe" /\ \E i \in DOMAIN delivered :
             /\ Forwardable(m, i)
             /\ delivered' = [delivered EXCEPT ![i].st = "forwarded", ![i].pair = NoPair]
             /\ enc' = [Idle EXCEPT !.pc = "body", !.pair = delivered[i].pair]
  <2>1. PICK i \in DOMAIN delivered :
             /\ Forwardable(m, i)
             /\ delivered' = [delivered EXCEPT ![i].st = "forwarded", ![i].pair = NoPair]
             /\ enc' = [Idle EXCEPT !.pc = "body", !.pair = delivered[i].pair]
    BY <1>7
  <2>2. PICK p : p = delivered[i].pair
    OBVIOUS
  <2>3. p \in Pairs /\ p # NoPair /\ p \in DOMAIN pair /\ Bodied(p)
    <3>1. p # NoPair /\ delivered[i] \in Body
      BY <1>1, <2>1, <2>2 DEF Forwardable
    <3>2. p \in Pairs
      BY <2>2, <3>1 DEF Body
    <3> QED
      BY <1>0, <2>2, <3>1, <3>2 DEF BodyInv, Bodied
  <2>4. enc' \in EncState /\ enc'.pair = p /\ enc'.pc = "body" /\ enc'.todo = <<>>
    <3>1. enc' = [pc |-> "body", pair |-> p, pos |-> 0, n |-> 0, ok |-> TRUE, todo |-> <<>>]
      BY <2>1, <2>2 DEF Idle
    <3> QED
      BY <2>3, <3>1, EncStateType
  <2>5. /\ delivered' \in Seq(Body) /\ BodyInv'
        /\ \A q : q # NoPair => (Bodied(q)' <=> Bodied(q) /\ q # p)
    BY <1>0, <1>1, <2>1, <2>2, BodyGiven
  <2>6. Types'
    BY <1>0, <1>2, <1>4, <1>5, <2>4, <2>5 DEF Types
  <2>7. EncInv' /\ DecInv'
    BY <1>0, <1>2, <1>7, <2>3, <2>4 DEF EncInv, DecInv
  <2>8. OwnInv'
    <3>1. NoPair \notin DOMAIN pair
      BY <1>0 DEF PoolInv, NoPair
    <3>2. \A q \in DOMAIN pair : q # p => Untouched(q)
      BY <1>1, <1>3, <2>4, <2>5, <3>1 DEF Untouched
    <3>3. Lone(p)
      BY <1>0, <2>3 DEF OwnInv
    <3>4. Lone(p)'
      BY <1>3, <2>3, <2>4, <2>5, <3>3 DEF Lone
    <3> QED
      BY <1>0, <3>2, <3>4, Moved DEF OwnInv
  <2> QED
    BY <1>3, <2>5, <2>6, <2>7, <2>8 DEF IInv
<1> QED
  BY <1>6, <1>7 DEF Given

\* The pool, when no call to it is made.
LEMMA PoolKept ==
    ASSUME PoolInv, UNCHANGED poolVars
    PROVE  PoolInv' /\ DOMAIN pair' = DOMAIN pair /\ \A q : Pooled(q)' <=> Pooled(q)
BY DEF poolVars, PoolInv, UnusedIsEmpty, Pooled

\* The decoder and the encoder, when the other one moves.
LEMMA DecKept ==
    ASSUME DecInv, UNCHANGED dec, DOMAIN pair \subseteq DOMAIN pair'
    PROVE  DecInv'
BY DEF DecInv

\* A step that leaves the encoder alone and makes pairs at most keeps EncInv.
LEMMA EncKept ==
    ASSUME EncInv, UNCHANGED <<enc, taken>>, DOMAIN pair \subseteq DOMAIN pair'
    PROVE  EncInv'
BY DEF EncInv, Current

\* The number of faults stays within its bound.
LEMMA FaultsType ==
    ASSUME faults \in 0 .. MaxFaults, Fault \/ NoFault
    PROVE  faults' \in 0 .. MaxFaults
BY CodecAssumption DEF Fault, NoFault

\* No pair that was made is number 0.
LEMMA PairsFromOne ==
    ASSUME PoolInv
    PROVE  NoPair \notin DOMAIN pair /\ \A q \in DOMAIN pair : q \in Pairs /\ q # NoPair
<1>1. DOMAIN pair = 1 .. Len(pair) /\ Len(pair) \in Nat /\ Len(pair) <= MaxPairs
  BY DEF PoolInv
<1> QED
  BY <1>1, PoolAssumption DEF NoPair, Pairs

\* A message that cannot be sent loses the pair of its body.
LEMMA EncodeHeadersFailStep ==
    ASSUME IInv, NEW m \in Msgs, EncodeHeadersFail(m)
    PROVE  IInv'
<1>0. PoolInv /\ Types /\ EncInv /\ DecInv /\ BodyInv /\ OwnInv
  BY DEF IInv
<1>1. /\ enc.pair = NoPair /\ taken \in Seq(Msgs) /\ delivered \in Seq(Body)
  BY <1>0 DEF EncInv, Types, EncodeHeadersFail
<1>2. taken' \in Seq(Msgs) /\ taken' # <<>>
  BY <1>1, TakenType DEF EncodeHeadersFail
<1>3. PoolInv' /\ DOMAIN pair' = DOMAIN pair /\ (\A q : Pooled(q)' <=> Pooled(q))
  BY <1>0, PoolKept DEF EncodeHeadersFail
<1>4. /\ enc' \in EncState /\ enc'.pair = NoPair /\ enc'.pc = "dead" /\ enc'.todo = <<>>
  <2>1. enc' = [pc |-> "dead", pair |-> NoPair, pos |-> 0, n |-> 0, ok |-> FALSE, todo |-> <<>>]
    BY DEF EncodeHeadersFail, Idle
  <2> QED
    BY <2>1, EncStateType
<1>5. stat' \in [ConnStats -> Nat]
  <2>1. "WriteErrors" \in ConnStats
    BY DEF ConnStats
  <2> QED
    BY <1>0, <2>1, CountType DEF Types, EncodeHeadersFail
<1>6. /\ faults' \in 0 .. MaxFaults /\ buf' \in Seq(Units) /\ conn' \in {"open", "eof", "reset"}
  <2>1. faults \in 0 .. MaxFaults /\ conn \in {"open", "eof", "reset"}
    BY <1>0 DEF Types
  <2>2. Fault \/ NoFault
    BY DEF EncodeHeadersFail
  <2>3. buf' \in Seq(Units) /\ conn' \in {"open", "eof", "reset"}
    <3>1. WriterEnds
      BY DEF EncodeHeadersFail
    <3> QED
      BY <2>1, <3>1 DEF WriterEnds
  <2> QED
    BY <2>1, <2>2, <2>3, FaultsType
<1>7. UNCHANGED <<opt, script, wire, dec>>
  BY DEF EncodeHeadersFail, setting
<1>8. EncInv' /\ DecInv'
  BY <1>0, <1>1, <1>2, <1>3, <1>4, <1>7, DecKept DEF EncInv
<1>9. CASE UNCHANGED <<delivered, leaked>>
  <2>1. Types'
    BY <1>0, <1>2, <1>4, <1>5, <1>6, <1>7, <1>9 DEF Types
  <2>2. BodyInv' /\ OwnInv'
    BY <1>0, <1>1, <1>3, <1>4, <1>7, <1>9, NoneMoved
  <2> QED
    BY <1>3, <1>8, <2>1, <2>2 DEF IInv
<1>10. ASSUME NEW i \in DOMAIN delivered, Forwardable(m, i),
              delivered' = [delivered EXCEPT ![i].st = "forwarded", ![i].pair = NoPair],
              leaked' = leaked \cup {delivered[i].pair}
       PROVE  IInv'
  <2>1. PICK p : p = delivered[i].pair
    OBVIOUS
  <2>2. p # NoPair /\ p \in DOMAIN pair /\ Bodied(p)
    BY <1>0, <1>10, <2>1 DEF Forwardable, BodyInv, Bodied
  <2>3. /\ delivered' \in Seq(Body) /\ BodyInv'
        /\ \A q : q # NoPair => (Bodied(q)' <=> Bodied(q) /\ q # p)
    BY <1>0, <1>1, <1>3, <1>10, <2>1, BodyGiven
  <2>4. Types'
    BY <1>0, <1>2, <1>4, <1>5, <1>6, <1>7, <2>3 DEF Types
  <2>5. OwnInv'
    <3>1. \A q \in DOMAIN pair : q # p => Untouched(q)
      BY <1>0, <1>1, <1>3, <1>4, <1>7, <1>10, <2>1, <2>3, PairsFromOne DEF Untouched
    <3>2. Lone(p)
      BY <1>0, <2>2 DEF OwnInv
    <3>3. Lone(p)'
      BY <1>3, <1>4, <1>7, <1>10, <2>1, <2>2, <2>3, <3>2 DEF Lone
    <3> QED
      BY <1>0, <1>3, <1>10, <2>1, <2>2, <3>1, <3>3, Moved DEF OwnInv
  <2> QED
    BY <1>3, <1>8, <2>3, <2>4, <2>5 DEF IInv
<1> QED
  BY <1>9, <1>10 DEF EncodeHeadersFail

\* What only the encoder and the stream notice.
LEMMA FlushStep ==
    ASSUME IInv, Flush
    PROVE  IInv'
<1>0. PoolInv /\ Types /\ EncInv /\ DecInv /\ BodyInv /\ OwnInv
  BY DEF IInv
<1>1. /\ UNCHANGED <<opt, script, taken, dec, delivered, leaked, faults>> /\ UNCHANGED poolVars
      /\ enc.pc = "idle" /\ enc.pair = NoPair /\ enc.todo = <<>>
  BY <1>0 DEF Flush, setting, decVars, EncInv
<1>2. PoolInv' /\ DOMAIN pair' = DOMAIN pair /\ (\A q : Pooled(q)' <=> Pooled(q))
  BY <1>0, <1>1, PoolKept
<1>3. /\ enc' \in EncState /\ enc'.pair = NoPair /\ enc'.pc \in {"idle", "dead"}
      /\ enc'.todo = <<>>
  <2>1. CASE UNCHANGED enc
    BY <1>0, <1>1, <2>1 DEF Types
  <2>2. CASE enc' = [Idle EXCEPT !.pc = "dead", !.ok = FALSE]
    <3>1. enc' = [pc |-> "dead", pair |-> NoPair, pos |-> 0, n |-> 0, ok |-> FALSE, todo |-> <<>>]
      BY <2>2 DEF Idle
    <3> QED
      BY <3>1, EncStateType
  <2> QED
    BY <2>1, <2>2 DEF Flush
<1>4. wire' \in Seq(Units) /\ buf' \in Seq(Units) /\ conn' \in {"open", "eof", "reset"}
  <2>1. wire \in Seq(Units) /\ buf \in Seq(Units) /\ conn \in {"open", "eof", "reset"}
    BY <1>0 DEF Types
  <2>2. CASE wire' = wire \o buf /\ buf' = <<>> /\ UNCHANGED conn
    BY <2>1, <2>2
  <2>3. CASE WriterEnds /\ UNCHANGED wire
    BY <2>1, <2>3 DEF WriterEnds
  <2> QED
    BY <2>2, <2>3 DEF Flush
<1>5. stat' \in [ConnStats -> Nat]
  <2>1. "WriteErrors" \in ConnStats /\ "HeadWritten" \in ConnStats
    BY DEF ConnStats
  <2>2. Len(buf) \in Nat
    BY <1>0 DEF Types
  <2> QED
    <3>1. stat \in [ConnStats -> Nat]
      BY <1>0 DEF Types
    <3>2. CASE stat' = Count(stat, "HeadWritten", Len(buf))
      BY <2>1, <2>2, <3>1, <3>2, CountType
    <3>3. CASE stat' = Count(stat, "WriteErrors", 1)
      BY <2>1, <3>1, <3>3, CountType
    <3> QED
      BY <3>2, <3>3 DEF Flush
<1>6. Types'
  BY <1>0, <1>1, <1>3, <1>4, <1>5 DEF Types
<1>7. EncInv' /\ DecInv'
  BY <1>0, <1>1, <1>2, <1>3, DecKept DEF EncInv
<1>8. BodyInv' /\ OwnInv'
  BY <1>0, <1>1, <1>2, <1>3, NoneMoved
<1> QED
  BY <1>2, <1>6, <1>7, <1>8 DEF IInv

\* Only the encoder moves; what it does not write to stays.
LEMMA EncoderOnlyTypes ==
    ASSUME Types, EncoderOnly, enc' \in EncState, wire' \in Seq(Units),
           conn' \in {"open", "eof", "reset"}, stat' \in [ConnStats -> Nat],
           faults' \in 0 .. MaxFaults
    PROVE  Types' /\ UNCHANGED <<taken, dec, delivered>> /\ Current' = Current
BY DEF Types, EncoderOnly, setting, decVars, Current

\* The choice between splicing and copying takes a pair from the pool or none.
LEMMA EncodeBodyStep ==
    ASSUME IInv, EncodeBody
    PROVE  IInv'
<1>0. PoolInv /\ Types /\ EncInv /\ DecInv /\ BodyInv /\ OwnInv
  BY DEF IInv
<1>1. /\ enc.pc = "body" /\ EncoderOnly /\ UNCHANGED <<wire, conn, leaked, stat>>
      /\ Fault \/ NoFault
      /\ enc \in EncState /\ enc.todo = <<>> /\ taken # <<>>
      /\ (enc.pair # NoPair <=> Kind[Current] = "pipe")
  BY <1>0 DEF EncodeBody, EncInv, Types, NoPairMade
<1>2. ASSUME enc' \in EncState
      PROVE  Types' /\ UNCHANGED <<taken, dec, delivered>> /\ Current' = Current
  <2>1. /\ wire' \in Seq(Units) /\ conn' \in {"open", "eof", "reset"}
        /\ stat' \in [ConnStats -> Nat] /\ faults' \in 0 .. MaxFaults
    BY <1>0, <1>1, FaultsType DEF Types
  <2> QED
    BY <1>0, <1>1, <1>2, <2>1, EncoderOnlyTypes
<1>3. ASSUME NEW c \in {"copy", "write"}, enc' = [enc EXCEPT !.pc = c],
             c = "write" => Kind[Current] = "pipe",
             PoolInv', DOMAIN pair' = DOMAIN pair, \A q : Pooled(q)' <=> Pooled(q)
      PROVE  IInv'
  <2>1. enc' \in EncState /\ enc'.pc = c /\ enc'.pair = enc.pair /\ enc'.todo = enc.todo
    BY <1>1, <1>3 DEF EncState
  <2>2. Types' /\ UNCHANGED <<taken, dec, delivered>> /\ Current' = Current
    BY <1>2, <2>1
  <2>3. EncInv' /\ DecInv'
    BY <1>0, <1>1, <1>3, <2>1, <2>2, DecKept DEF EncInv
  <2>4. BodyInv' /\ OwnInv'
    BY <1>0, <1>1, <1>3, <2>1, <2>2, NoneMoved
  <2> QED
    BY <1>3, <2>2, <2>3, <2>4 DEF IInv
<1>4. ASSUME NEW p \in Pairs, get(p), enc' = [enc EXCEPT !.pc = "grow", !.pair = p],
             Kind[Current] # "pipe"
      PROVE  IInv'
  <2>1. /\ PoolInv' /\ p \in DOMAIN pair' /\ pair'[p].data = <<>>
        /\ p \in DOMAIN pair => Pooled(p)
        /\ \A q : Pooled(q)' <=> Pooled(q) /\ q # p
        /\ \A q \in DOMAIN pair' : q = p \/ q \in DOMAIN pair
        /\ OthersKept(p)
    BY <1>0, <1>4, GetPair
  <2>2. enc' \in EncState /\ enc'.pc = "grow" /\ enc'.pair = p /\ enc'.todo = enc.todo
    BY <1>1, <1>4 DEF EncState
  <2>3. Types' /\ UNCHANGED <<taken, dec, delivered>> /\ Current' = Current
    BY <1>2, <2>2
  <2>4. DOMAIN pair \subseteq DOMAIN pair' /\ p # NoPair
    BY <1>0, <2>1, PoolAssumption DEF OthersKept, PoolInv, Pairs, NoPair
  <2>5. EncInv' /\ DecInv'
    BY <1>0, <1>1, <1>4, <2>1, <2>2, <2>3, <2>4, DecKept DEF EncInv
  <2>6. BodyInv' /\ \A q : Bodied(q)' <=> Bodied(q)
    BY <1>0, <2>3, <2>4, BodiesKept
  <2>7. dec.pair # p /\ ~Bodied(p) /\ p \notin leaked /\ enc.pair = NoPair
    <3>1. CASE p \in DOMAIN pair
      BY <1>0, <1>1, <1>4, <2>1, <3>1 DEF OwnInv, Lone
    <3>2. CASE p \notin DOMAIN pair
      BY <1>0, <1>1, <1>4, <2>4, <3>2 DEF OwnInv, DecInv, BodyInv, Bodied
    <3> QED
      BY <3>1, <3>2
  <2>8. OwnInv'
    <3>1. \A q \in DOMAIN pair : q # p => Untouched(q)
      BY <1>0, <1>1, <2>1, <2>2, <2>3, <2>6, <2>7, PairsFromOne DEF Untouched
    <3>2. Lone(p)'
      BY <1>1, <2>1, <2>2, <2>3, <2>6, <2>7 DEF Lone
    <3> QED
      BY <1>0, <1>1, <2>1, <2>4, <3>1, <3>2, Moved DEF OwnInv
  <2> QED
    BY <2>1, <2>3, <2>5, <2>6, <2>8 DEF IInv
<1>5. CASE (~opt.writer \/ Kind[Current] = "plain") /\ enc' = [enc EXCEPT !.pc = "copy"]
           /\ UNCHANGED poolVars
  BY <1>0, <1>3, <1>5, PoolKept
<1>6. CASE Kind[Current] = "pipe" /\ enc' = [enc EXCEPT !.pc = "write"] /\ UNCHANGED poolVars
  BY <1>0, <1>3, <1>6, PoolKept
<1>7. CASE getFails /\ enc' = [enc EXCEPT !.pc = "copy"]
  <2>1. PoolInv' /\ DOMAIN pair' = DOMAIN pair /\ \A q : Pooled(q)' <=> Pooled(q)
    BY <1>0, <1>7, GetFailed DEF getFails, Pooled
  <2> QED
    BY <1>3, <1>7, <2>1
<1> QED
  BY <1>4, <1>5, <1>6, <1>7 DEF EncodeBody, NoPairMade

\* Grow, Load or Drain on a pair by the one who has it.
LEMMA PairChanged ==
    ASSUME IInv, NEW p \in DOMAIN pair, ~Pooled(p), NEW x \in Pipe,
           pair' = [pair EXCEPT ![p] = x], UNCHANGED <<unused, usedCount>>,
           enc'.pair = enc.pair, dec'.pair = dec.pair, UNCHANGED <<delivered, leaked>>
    PROVE  PoolInv' /\ OwnInv' /\ BodyInv' /\ DOMAIN pair' = DOMAIN pair /\ OthersKept(p)
<1>0. PoolInv /\ BodyInv /\ OwnInv
  BY DEF IInv
<1>1. PoolInv' /\ DOMAIN pair' = DOMAIN pair /\ OthersKept(p) /\ (\A q : Pooled(q)' <=> Pooled(q))
  BY <1>0, ChangePair
<1> QED
  BY <1>0, <1>1, NoneMoved

\* The three calls as changes of one pipe.
LEMMA GrowIs ==
    ASSUME PoolInv, NEW p \in DOMAIN pair, NEW n \in Nat, Grow(p, n)
    PROVE  /\ UNCHANGED <<unused, usedCount>>
           /\ \E x \in Pipe : /\ x.size >= n /\ x.size >= pair[p].size /\ x.data = pair[p].data
                              /\ pair' = [pair EXCEPT ![p] = x]
<1>1. pair \in Seq(Pipe)
  BY DEF PoolInv
<1>2. pair[p].size \in Nat
  BY <1>1, PairWith
<1>3. PICK s \in Nat : s = IF n <= pair[p].size THEN pair[p].size ELSE n
  BY <1>2
<1>4. pair' = [pair EXCEPT ![p].size = s]
  BY <1>3 DEF Grow
<1>5. PICK x \in Pipe : /\ x.size = s /\ x.data = pair[p].data
                        /\ pair' = [pair EXCEPT ![p] = x]
  BY <1>1, <1>4, PairWithSize
<1>6. s >= n /\ s >= pair[p].size
  BY <1>2, <1>3
<1> QED
  BY <1>5, <1>6 DEF Grow

\* Load changes the contents of one pair and nothing else.
LEMMA LoadIs ==
    ASSUME PoolInv, NEW p \in DOMAIN pair, NEW bytes \in Seq(Units), Load(p, bytes)
    PROVE  /\ UNCHANGED <<unused, usedCount>>
           /\ \E x \in Pipe : /\ x.size = pair[p].size /\ x.data = pair[p].data \o bytes
                              /\ pair' = [pair EXCEPT ![p] = x]
<1>1. pair \in Seq(Pipe)
  BY DEF PoolInv
<1>2. pair[p].data \in Seq(Units)
  BY <1>1, PairWith
<1>3. PICK d \in Seq(Units) : d = pair[p].data \o bytes
  <2>1. \A c \in Seq(Units) : c \o bytes \in Seq(Units)
    OBVIOUS
  <2> QED
    BY <1>2, <2>1
<1>4. pair' = [pair EXCEPT ![p].data = d]
  BY <1>3 DEF Load
<1>5. PICK x \in Pipe : /\ x.size = pair[p].size /\ x.data = d
                        /\ pair' = [pair EXCEPT ![p] = x]
  BY <1>1, <1>4, PairWithData
<1> QED
  BY <1>3, <1>5 DEF Load

\* Drain takes bytes from the front of one pair and nothing else.
LEMMA DrainIs ==
    ASSUME PoolInv, NEW p \in DOMAIN pair, NEW n \in Nat, n <= Len(pair[p].data), Drain(p, n)
    PROVE  /\ UNCHANGED <<unused, usedCount>>
           /\ \E x \in Pipe : /\ x.size = pair[p].size
                              /\ x.data = SubSeq(pair[p].data, n + 1, Len(pair[p].data))
                              /\ Len(x.data) = Len(pair[p].data) - n
                              /\ pair' = [pair EXCEPT ![p] = x]
<1>1. pair \in Seq(Pipe)
  BY DEF PoolInv
<1>2. PICK c \in Seq(Units) : c = pair[p].data
  BY <1>1, PairWith
<1>3. PICK d : d = SubSeq(c, n + 1, Len(c))
  OBVIOUS
<1>4. d \in Seq(Units) /\ Len(d) = Len(c) - n
  <2>1. Len(c) \in Nat /\ n <= Len(c)
    BY <1>2
  <2>2. \A i \in n + 1 .. Len(c) : c[i] \in Units
    BY <2>1
  <2> QED
    BY <1>3, <2>1, <2>2, SuffixOf
<1>5. pair' = [pair EXCEPT ![p].data = d]
  BY <1>2, <1>3 DEF Drain
<1>6. PICK x \in Pipe : /\ x.size = pair[p].size /\ x.data = d
                        /\ pair' = [pair EXCEPT ![p] = x]
  BY <1>1, <1>4, <1>5, PairWithData
<1> QED
  BY <1>2, <1>3, <1>4, <1>6 DEF Drain

\* The encoder loses its pair.
LEMMA EncoderLoses ==
    ASSUME IInv, UNCHANGED poolVars, UNCHANGED <<dec, delivered>>, enc.pair # NoPair,
           leaked' = leaked \cup {enc.pair}, enc'.pair = NoPair
    PROVE  PoolInv' /\ OwnInv' /\ BodyInv' /\ DecInv' /\ DOMAIN pair' = DOMAIN pair
<1>0. PoolInv /\ EncInv /\ DecInv /\ BodyInv /\ OwnInv
  BY DEF IInv
<1>1. PoolInv' /\ DOMAIN pair' = DOMAIN pair /\ (\A q : Pooled(q)' <=> Pooled(q))
  BY <1>0, PoolKept
<1>2. BodyInv' /\ (\A q : Bodied(q)' <=> Bodied(q)) /\ DecInv'
  BY <1>0, <1>1, BodiesKept, DecKept
<1>3. PICK p \in DOMAIN pair : p = enc.pair
  BY <1>0 DEF EncInv
<1>4. \A q \in DOMAIN pair : q # p => Untouched(q)
  BY <1>0, <1>1, <1>2, <1>3, PairsFromOne DEF Untouched
<1>5. Lone(p) /\ p # NoPair
  BY <1>0, <1>3 DEF OwnInv
<1>6. Lone(p)'
  BY <1>1, <1>2, <1>3, <1>5 DEF Lone
<1>7. OwnInv'
  BY <1>0, <1>1, <1>3, <1>4, <1>6, Moved DEF OwnInv
<1> QED
  BY <1>1, <1>2, <1>7

\* The encoder falls back to copying, and its pair is lost.
LEMMA AbandonStep ==
    ASSUME IInv, Abandon, enc.pair # NoPair, Kind[Current] # "pipe",
           enc.pc \in {"grow", "load"}, UNCHANGED poolVars, EncoderOnly,
           UNCHANGED <<wire, conn, stat>>, Fault \/ NoFault
    PROVE  IInv'
<1>0. Types /\ EncInv
  BY DEF IInv
<1>1. enc \in EncState /\ enc.todo = <<>> /\ taken # <<>>
  BY <1>0 DEF EncInv, Types
<1>2. enc' \in EncState /\ enc'.pair = NoPair /\ enc'.pc = "copy" /\ enc'.todo = enc.todo
  BY <1>1 DEF Abandon, EncState
<1>3. Types' /\ UNCHANGED <<taken, dec, delivered>> /\ Current' = Current
  <2>1. /\ wire' \in Seq(Units) /\ conn' \in {"open", "eof", "reset"}
        /\ stat' \in [ConnStats -> Nat] /\ faults \in 0 .. MaxFaults
    BY <1>0 DEF Types
  <2>2. faults' \in 0 .. MaxFaults
    BY <2>1, FaultsType
  <2> QED
    BY <1>0, <1>2, <2>1, <2>2, EncoderOnlyTypes
<1>4. PoolInv' /\ OwnInv' /\ BodyInv' /\ DecInv'
  BY <1>2, <1>3, EncoderLoses DEF Abandon
<1>5. EncInv'
  BY <1>1, <1>2, <1>3 DEF EncInv
<1> QED
  BY <1>3, <1>4, <1>5 DEF IInv

\* The encoder works on its pair, or on none, and keeps it.
LEMMA EncoderWorks ==
    ASSUME IInv, EncoderOnly, UNCHANGED leaked, enc' \in EncState, enc'.pair = enc.pair,
           UNCHANGED poolVars \/ (enc.pair # NoPair /\ UNCHANGED <<unused, usedCount>> /\
              \E x \in Pipe : pair' = [pair EXCEPT ![enc.pair] = x]),
           wire' \in Seq(Units), UNCHANGED conn, stat' \in [ConnStats -> Nat],
           faults' \in 0 .. MaxFaults
    PROVE  /\ PoolInv' /\ Types' /\ DecInv' /\ BodyInv' /\ OwnInv'
           /\ DOMAIN pair' = DOMAIN pair
           /\ UNCHANGED <<taken, dec, delivered>> /\ Current' = Current
<1>0. PoolInv /\ Types /\ EncInv /\ DecInv /\ BodyInv /\ OwnInv
  BY DEF IInv
<1>1. Types' /\ UNCHANGED <<taken, dec, delivered>> /\ Current' = Current
  <2>1. conn' \in {"open", "eof", "reset"}
    BY <1>0 DEF Types
  <2> QED
    BY <1>0, <2>1, EncoderOnlyTypes
<1>2. CASE UNCHANGED poolVars
  <2>1. PoolInv' /\ DOMAIN pair' = DOMAIN pair /\ (\A q : Pooled(q)' <=> Pooled(q))
    BY <1>0, <1>2, PoolKept
  <2> QED
    BY <1>0, <1>1, <2>1, NoneMoved, DecKept
<1>3. ASSUME enc.pair # NoPair, UNCHANGED <<unused, usedCount>>,
             NEW x \in Pipe, pair' = [pair EXCEPT ![enc.pair] = x]
      PROVE  PoolInv' /\ OwnInv' /\ BodyInv' /\ DecInv' /\ DOMAIN pair' = DOMAIN pair
  <2>1. PICK p \in DOMAIN pair : p = enc.pair
    BY <1>0, <1>3 DEF EncInv
  <2>2. ~Pooled(p)
    BY <1>0, <2>1 DEF OwnInv, Lone
  <2>3. PoolInv' /\ OwnInv' /\ BodyInv' /\ DOMAIN pair' = DOMAIN pair
    BY <1>1, <1>3, <2>1, <2>2, PairChanged
  <2> QED
    BY <1>0, <1>1, <2>3, DecKept
<1> QED
  BY <1>1, <1>2, <1>3

\* Grow keeps the pair in the encoder's hand; when it fails the pair is lost.
LEMMA EncodeGrowStep ==
    ASSUME IInv, EncodeGrow
    PROVE  IInv'
<1>0. PoolInv /\ Types /\ EncInv
  BY DEF IInv
<1>1. /\ enc.pc = "grow" /\ EncoderOnly /\ UNCHANGED <<wire, conn, stat>>
      /\ enc \in EncState /\ enc.todo = <<>> /\ taken # <<>> /\ enc.pair # NoPair
      /\ Kind[Current] # "pipe" /\ enc.pair \in DOMAIN pair /\ taken \in Seq(Msgs)
      /\ wire \in Seq(Units) /\ stat \in [ConnStats -> Nat] /\ faults \in 0 .. MaxFaults
  BY <1>0 DEF EncodeGrow, EncInv, Types
<1>2. PICK n \in Nat : n = alignSize(Size[Current]) * 2
  <2>1. Size[Current] \in Nat
    BY <1>1, CurrentType
  <2>2. alignSize(Size[Current]) \in Nat
    BY <2>1, AlignType
  <2> QED
    BY <2>2
<1>3. CASE Grow(enc.pair, n) /\ enc' = [enc EXCEPT !.pc = "load"] /\ NoFault /\ UNCHANGED leaked
  <2>1. /\ UNCHANGED <<unused, usedCount>>
        /\ \E x \in Pipe : pair' = [pair EXCEPT ![enc.pair] = x]
    BY <1>0, <1>1, <1>3, GrowIs
  <2>2. enc' \in EncState /\ enc'.pair = enc.pair /\ enc'.pc = "load" /\ enc'.todo = enc.todo
    BY <1>1, <1>3 DEF EncState
  <2>3. /\ PoolInv' /\ Types' /\ DecInv' /\ BodyInv' /\ OwnInv' /\ DOMAIN pair' = DOMAIN pair
        /\ UNCHANGED taken /\ Current' = Current
    BY <1>1, <1>3, <2>1, <2>2, EncoderWorks DEF NoFault
  <2>4. EncInv'
    BY <1>1, <2>2, <2>3 DEF EncInv
  <2> QED
    BY <2>3, <2>4 DEF IInv
<1>4. CASE (Fault \/ NoFault) /\ Abandon /\ UNCHANGED poolVars
  BY <1>1, <1>4, AbandonStep
<1> QED
  BY <1>2, <1>3, <1>4 DEF EncodeGrow

\* The part of a file that PipeFile asks for.
LEMMA FilePart ==
    ASSUME NEW m \in Msgs
    PROVE  LET part == SubSeq(Source(m), Offset[m] + 1, Min({Offset[m] + Size[m], SrcLen[m]}))
           IN  part \in Seq(Units) /\ Len(part) <= Size[m]
<1>1. /\ Size[m] \in Nat /\ Offset[m] \in Nat /\ SrcLen[m] \in Nat
      /\ Source(m) \in Seq(Units) /\ Len(Source(m)) = SrcLen[m]
  BY CodecAssumption, SourceType
<1>2. PICK to : to = Min({Offset[m] + Size[m], SrcLen[m]})
  OBVIOUS
<1>3. to \in Nat /\ to <= Offset[m] + Size[m] /\ to <= SrcLen[m]
  <2>1. \E x \in {Offset[m] + Size[m], SrcLen[m]} :
           \A y \in {Offset[m] + Size[m], SrcLen[m]} : x <= y
    BY <1>1
  <2>2. /\ to \in {Offset[m] + Size[m], SrcLen[m]}
        /\ \A y \in {Offset[m] + Size[m], SrcLen[m]} : to <= y
    BY <1>2, <2>1 DEF Min
  <2> QED
    BY <1>1, <2>2
<1>4. PICK part : part = SubSeq(Source(m), Offset[m] + 1, to)
  OBVIOUS
<1>5. part \in Seq(Units) /\ Len(part) <= Size[m]
  <2>1. /\ part \in Seq(Units)
        /\ Len(part) = IF to > Offset[m] THEN to - Offset[m] ELSE 0
    BY <1>1, <1>3, <1>4, PartOf
  <2> QED
    BY <1>1, <1>3, <2>1
<1> QED
  BY <1>2, <1>4, <1>5

\* A file or memory enters the encoder's own pair, or the pair is lost.
LEMMA EncodeLoadStep ==
    ASSUME IInv, EncodeLoad
    PROVE  IInv'
<1>0. PoolInv /\ Types /\ EncInv
  BY DEF IInv
<1>1. /\ enc.pc = "load" /\ EncoderOnly /\ UNCHANGED <<wire, conn, stat>>
      /\ enc \in EncState /\ enc.todo = <<>> /\ taken # <<>> /\ enc.pair # NoPair
      /\ Kind[Current] # "pipe" /\ enc.pair \in DOMAIN pair /\ taken \in Seq(Msgs)
      /\ wire \in Seq(Units) /\ stat \in [ConnStats -> Nat] /\ faults \in 0 .. MaxFaults
  BY <1>0 DEF EncodeLoad, EncInv, Types
<1>2. PICK all \in Seq(Units) :
         all = IF Kind[Current] = "buffer" THEN Source(Current)
               ELSE SubSeq(Source(Current), Offset[Current] + 1,
                           Min({Offset[Current] + Size[Current], SrcLen[Current]}))
  BY <1>1, CurrentType, FilePart, SourceType
<1>3. CASE Load(enc.pair, all) /\ enc' = [enc EXCEPT !.pc = "write"] /\ NoFault
           /\ UNCHANGED leaked
  <2>1. /\ UNCHANGED <<unused, usedCount>>
        /\ \E x \in Pipe : pair' = [pair EXCEPT ![enc.pair] = x]
    BY <1>0, <1>1, <1>3, LoadIs
  <2>2. enc' \in EncState /\ enc'.pair = enc.pair /\ enc'.pc = "write" /\ enc'.todo = enc.todo
    BY <1>1, <1>3 DEF EncState
  <2>3. /\ PoolInv' /\ Types' /\ DecInv' /\ BodyInv' /\ OwnInv' /\ DOMAIN pair' = DOMAIN pair
        /\ UNCHANGED taken /\ Current' = Current
    BY <1>1, <1>3, <2>1, <2>2, EncoderWorks DEF NoFault
  <2>4. EncInv'
    BY <1>1, <2>2, <2>3 DEF EncInv
  <2> QED
    BY <2>3, <2>4 DEF IInv
<1>4. CASE Fault /\ Abandon /\ UNCHANGED poolVars
  BY <1>1, <1>4, AbandonStep
<1> QED
  BY <1>2, <1>3, <1>4 DEF EncodeLoad

\* The bytes of a connection enter the encoder's own pair.
LEMMA EncodeLoadConnStep ==
    ASSUME IInv, EncodeLoadConn
    PROVE  IInv'
<1>0. PoolInv /\ Types /\ EncInv
  BY DEF IInv
<1>1. /\ enc.pc = "load" /\ EncoderOnly /\ UNCHANGED <<wire, conn>>
      /\ enc \in EncState /\ enc.todo = <<>> /\ taken # <<>> /\ enc.pair # NoPair
      /\ Kind[Current] # "pipe" /\ enc.pair \in DOMAIN pair /\ taken \in Seq(Msgs)
      /\ wire \in Seq(Units) /\ stat \in [ConnStats -> Nat] /\ faults \in 0 .. MaxFaults
  BY <1>0 DEF EncodeLoadConn, EncInv, Types
<1>2. ASSUME NEW c \in {"load", "write"}, enc' \in EncState, enc'.pc = c,
             enc'.pair = enc.pair, enc'.todo = enc.todo, NoFault, UNCHANGED <<leaked, stat>>,
             UNCHANGED poolVars \/ (UNCHANGED <<unused, usedCount>> /\
                \E x \in Pipe : pair' = [pair EXCEPT ![enc.pair] = x])
      PROVE  IInv'
  <2>1. /\ PoolInv' /\ Types' /\ DecInv' /\ BodyInv' /\ OwnInv' /\ DOMAIN pair' = DOMAIN pair
        /\ UNCHANGED taken /\ Current' = Current
    BY <1>1, <1>2, EncoderWorks DEF NoFault
  <2>2. EncInv'
    BY <1>1, <1>2, <2>1 DEF EncInv
  <2> QED
    BY <2>1, <2>2 DEF IInv
<1>3. CASE /\ enc.pos < Size[Current] /\ enc.pos < SrcLen[Current]
           /\ Load(enc.pair, <<Source(Current)[enc.pos + 1]>>)
           /\ enc' = [enc EXCEPT !.pos = @ + 1]
           /\ NoFault /\ UNCHANGED <<leaked, stat>>
  <2>1. PICK bytes \in Seq(Units) : bytes = <<Source(Current)[enc.pos + 1]>>
    <3>1. enc.pos \in Nat /\ SrcLen[Current] \in Nat /\ Current \in Msgs
      BY <1>1, CurrentType DEF EncState
    <3>2. enc.pos + 1 \in 1 .. SrcLen[Current]
      BY <1>3, <3>1
    <3>3. PICK u \in Units : u = Source(Current)[enc.pos + 1]
      BY <3>1, <3>2, SourceType
    <3>4. <<u>> \in Seq(Units)
      OBVIOUS
    <3> QED
      BY <3>3, <3>4
  <2>2. /\ UNCHANGED <<unused, usedCount>>
        /\ \E x \in Pipe : pair' = [pair EXCEPT ![enc.pair] = x]
    BY <1>0, <1>1, <1>3, <2>1, LoadIs
  <2>3. enc' \in EncState /\ enc'.pair = enc.pair /\ enc'.pc = "load" /\ enc'.todo = enc.todo
    <3>1. PICK k \in Nat : k = enc.pos + 1
      BY <1>1 DEF EncState
    <3>2. enc' = [enc EXCEPT !.pos = k]
      BY <1>3, <3>1
    <3> QED
      BY <1>1, <3>2 DEF EncState
  <2> QED
    BY <1>2, <1>3, <2>2, <2>3
<1>4. CASE enc' = [enc EXCEPT !.pc = "write"] /\ NoFault /\ UNCHANGED <<leaked, stat, poolVars>>
  <2>1. enc' \in EncState /\ enc'.pair = enc.pair /\ enc'.pc = "write" /\ enc'.todo = enc.todo
    BY <1>1, <1>4 DEF EncState
  <2> QED
    BY <1>2, <1>4, <2>1
<1> QED
  BY <1>3, <1>4 DEF EncodeLoadConn, NoFault

\* A load from a connection that fails loses the pair, and is followed by a copy or
\* by nothing.
LEMMA EncodeLoadConnFailStep ==
    ASSUME IInv, EncodeLoadConnFail
    PROVE  IInv'
<1>0. PoolInv /\ Types /\ EncInv
  BY DEF IInv
<1>1. /\ enc.pc = "load" /\ EncoderOnly /\ UNCHANGED <<wire, conn, poolVars>> /\ Fault
      /\ enc \in EncState /\ enc.todo = <<>> /\ taken # <<>> /\ enc.pair # NoPair
      /\ Kind[Current] # "pipe" /\ enc.pair \in DOMAIN pair /\ taken \in Seq(Msgs)
      /\ wire \in Seq(Units) /\ stat \in [ConnStats -> Nat] /\ faults \in 0 .. MaxFaults
  BY <1>0 DEF EncodeLoadConnFail, EncInv, Types
<1>2. CASE Abandon /\ UNCHANGED stat
  BY <1>1, <1>2, AbandonStep
<1>3. CASE /\ leaked' = leaked \cup {enc.pair}
           /\ enc' = [enc EXCEPT !.pc = "close", !.pair = NoPair, !.ok = FALSE]
           /\ stat' = Count(stat, "WriteErrors", 1)
  <2>1. enc' \in EncState /\ enc'.pair = NoPair /\ enc'.pc = "close" /\ enc'.todo = enc.todo
    BY <1>1, <1>3 DEF EncState
  <2>2. stat' \in [ConnStats -> Nat] /\ faults' \in 0 .. MaxFaults
    <3>1. "WriteErrors" \in ConnStats
      BY DEF ConnStats
    <3>2. stat' \in [ConnStats -> Nat]
      BY <1>1, <1>3, <3>1, CountType
    <3> QED
      BY <1>1, <1>3, <3>2, FaultsType
  <2>3. Types' /\ UNCHANGED <<taken, dec, delivered>> /\ Current' = Current
    <3>1. wire' \in Seq(Units) /\ conn' \in {"open", "eof", "reset"}
      BY <1>0, <1>1 DEF Types
    <3> QED
      BY <1>0, <1>1, <2>1, <2>2, <3>1, EncoderOnlyTypes
  <2>4. PoolInv' /\ OwnInv' /\ BodyInv' /\ DecInv'
    BY <1>1, <1>3, <2>1, <2>3, EncoderLoses
  <2>5. EncInv'
    BY <1>1, <2>1, <2>3 DEF EncInv
  <2> QED
    BY <2>3, <2>4, <2>5 DEF IInv
<1> QED
  BY <1>2, <1>3 DEF EncodeLoadConnFail

\* The encoder's pair is closed at most once: this is where NotClose matters.
LEMMA ClosesOnce ==
    ASSUME PassedOnKept, NEW m \in Msgs, NEW spliced \in BOOLEAN
    PROVE  /\ Closes(m, spliced) \in {<<>>, <<enc.pair>>}
           /\ Closes(m, spliced) # <<>> => spliced \/ Kind[m] = "pipe"
<1>1. Kind[m] = "pipe" => m \in NotClose
  BY DEF PassedOnKept
<1>2. Closes(m, spliced) = (IF spliced THEN <<enc.pair>> ELSE <<>>) \o <<>>
  BY <1>1 DEF Closes
<1>3. Closes(m, spliced) = IF spliced THEN <<enc.pair>> ELSE <<>>
  <2>1. PICK x : x = enc.pair
    OBVIOUS
  <2>2. <<x>> \o <<>> = <<x>> /\ <<>> \o <<>> = <<>>
    OBVIOUS
  <2> QED
    BY <1>2, <2>1, <2>2
<1> QED
  BY <1>3

\* encode has written what it could and closes the body.
LEMMA EncoderCloses ==
    ASSUME PassedOnKept, IInv, EncoderOnly, UNCHANGED <<wire, conn, leaked, faults>>,
           UNCHANGED poolVars, stat' \in [ConnStats -> Nat],
           enc.pc \in {"write", "copy"}, NEW spliced \in BOOLEAN,
           spliced => enc.pc = "write",
           enc' = [enc EXCEPT !.pc = "close", !.ok = (enc.n = Size[Current]),
                              !.todo = Closes(Current, spliced)]
    PROVE  IInv'
<1>0. PoolInv /\ Types /\ EncInv
  BY DEF IInv
<1>1. /\ enc \in EncState /\ taken # <<>> /\ taken \in Seq(Msgs) /\ Current \in Msgs
      /\ wire \in Seq(Units) /\ faults \in 0 .. MaxFaults
  BY <1>0, CurrentType DEF EncInv, Types
<1>2. /\ Closes(Current, spliced) \in {<<>>, <<enc.pair>>}
      /\ Closes(Current, spliced) # <<>> => enc.pair # NoPair
  BY <1>0, <1>1, ClosesOnce DEF EncInv
<1>3. PICK b \in BOOLEAN, todo \in Seq(Pairs) :
         b = (enc.n = Size[Current]) /\ todo = Closes(Current, spliced)
  <2>1. enc.pair # NoPair => <<enc.pair>> \in Seq(Pairs)
    BY <1>1 DEF EncState
  <2>2. Closes(Current, spliced) \in Seq(Pairs)
    <3>1. <<>> \in Seq(Pairs)
      OBVIOUS
    <3>2. CASE Closes(Current, spliced) = <<>>
      BY <3>1, <3>2
    <3>3. CASE Closes(Current, spliced) # <<>>
      BY <1>2, <2>1, <3>3
    <3> QED
      BY <3>2, <3>3
  <2>3. (enc.n = Size[Current]) \in BOOLEAN
    BY Zenon
  <2> QED
    BY <2>2, <2>3, Zenon
<1>4. /\ enc' \in EncState /\ enc'.pc = "close" /\ enc'.pair = enc.pair /\ enc'.todo = todo
  <2>1. enc' = [enc EXCEPT !.pc = "close", !.ok = b, !.todo = todo]
    BY <1>3, Zenon
  <2> QED
    BY <1>1, <2>1 DEF EncState
<1>5. /\ PoolInv' /\ Types' /\ DecInv' /\ BodyInv' /\ OwnInv' /\ DOMAIN pair' = DOMAIN pair
      /\ UNCHANGED taken /\ Current' = Current
  BY <1>1, <1>4, EncoderWorks
<1>6. EncInv'
  BY <1>0, <1>1, <1>2, <1>3, <1>4, <1>5 DEF EncInv
<1> QED
  BY <1>5, <1>6 DEF IInv

\* The first of a sequence of units goes onto the stream.
LEMMA UnitSent ==
    ASSUME wire \in Seq(Units), NEW s \in Seq(Units), s # <<>>, wire' = Append(wire, Head(s))
    PROVE  wire' \in Seq(Units) /\ Len(s) >= 1
<1>1. PICK u \in Units : u = Head(s)
  OBVIOUS
<1> QED
  BY <1>1

\* WriteTo drains the encoder's pair; at its end that pair is to be closed once.
LEMMA EncodeWriteStep ==
    ASSUME PassedOnKept, IInv, EncodeWrite
    PROVE  IInv'
<1>0. PoolInv /\ Types /\ EncInv
  BY DEF IInv
<1>1. /\ enc.pc = "write" /\ EncoderOnly /\ UNCHANGED <<conn, leaked, stat, faults>>
      /\ enc \in EncState /\ enc.todo = <<>> /\ taken # <<>> /\ enc.pair # NoPair
      /\ enc.pair \in DOMAIN pair /\ taken \in Seq(Msgs) /\ pair \in Seq(Pipe)
      /\ wire \in Seq(Units) /\ stat \in [ConnStats -> Nat] /\ faults \in 0 .. MaxFaults
  BY <1>0 DEF EncodeWrite, EncInv, Types, PoolInv
<1>2. CASE /\ enc.n < Size[Current] /\ conn = "open" /\ pair[enc.pair].data # <<>>
           /\ wire' = Append(wire, Head(pair[enc.pair].data))
           /\ Drain(enc.pair, 1)
           /\ enc' = [enc EXCEPT !.n = @ + 1]
  <2>1. PICK s \in Seq(Units) : s = pair[enc.pair].data
    BY <1>1, PairWith
  <2>2. wire' \in Seq(Units) /\ Len(s) >= 1
    BY <1>1, <1>2, <2>1, UnitSent
  <2>3. /\ UNCHANGED <<unused, usedCount>>
        /\ \E x \in Pipe : pair' = [pair EXCEPT ![enc.pair] = x]
    BY <1>0, <1>1, <1>2, <2>1, <2>2, DrainIs
  <2>4. enc' \in EncState /\ enc'.pair = enc.pair /\ enc'.pc = "write" /\ enc'.todo = enc.todo
    <3>1. PICK k \in Nat : k = enc.n + 1
      BY <1>1 DEF EncState
    <3>2. enc' = [enc EXCEPT !.n = k]
      BY <1>2, <3>1
    <3> QED
      BY <1>1, <3>2 DEF EncState
  <2>5. /\ PoolInv' /\ Types' /\ DecInv' /\ BodyInv' /\ OwnInv' /\ DOMAIN pair' = DOMAIN pair
        /\ UNCHANGED taken /\ Current' = Current
    BY <1>1, <2>2, <2>3, <2>4, EncoderWorks
  <2>6. EncInv'
    BY <1>1, <2>4, <2>5 DEF EncInv
  <2> QED
    BY <2>5, <2>6 DEF IInv
<1>3. CASE /\ enc' = [enc EXCEPT !.pc = "close", !.ok = (enc.n = Size[Current]),
                                 !.todo = Closes(Current, TRUE)]
           /\ UNCHANGED <<wire, poolVars>>
  <2>1. UNCHANGED wire /\ UNCHANGED poolVars
    BY <1>3
  <2> QED
    BY <1>1, <1>3, <2>1, EncoderCloses
<1> QED
  BY <1>2, <1>3 DEF EncodeWrite

\* The copy touches a pair only if the reader is a pipe that is passed on.
LEMMA EncodeCopyStep ==
    ASSUME PassedOnKept, IInv, EncodeCopy
    PROVE  IInv'
<1>0. PoolInv /\ Types /\ EncInv
  BY DEF IInv
<1>1. /\ enc.pc = "copy" /\ EncoderOnly /\ UNCHANGED <<conn, leaked, faults>>
      /\ enc \in EncState /\ enc.todo = <<>> /\ taken # <<>>
      /\ (enc.pair # NoPair <=> Kind[Current] = "pipe")
      /\ enc.pair # NoPair => enc.pair \in DOMAIN pair
      /\ taken \in Seq(Msgs) /\ pair \in Seq(Pipe)
      /\ wire \in Seq(Units) /\ stat \in [ConnStats -> Nat] /\ faults \in 0 .. MaxFaults
  BY <1>0 DEF EncodeCopy, EncInv, Types, PoolInv
<1>2. CASE /\ enc.n < Size[Current] /\ conn = "open" /\ Copied # <<>>
           /\ wire' = Append(wire, Head(Copied))
           /\ enc' = [enc EXCEPT !.n = @ + 1,
                                 !.pos = @ + IF Kind[Current] = "pipe" THEN 0 ELSE 1]
           /\ IF Kind[Current] = "pipe" THEN Drain(enc.pair, 1) ELSE UNCHANGED poolVars
           /\ UNCHANGED stat
  <2>1. PICK s \in Seq(Units) : s = Copied
    <3>1. CASE Kind[Current] = "pipe"
      BY <1>1, <3>1, PairWith DEF Copied
    <3>2. CASE Kind[Current] # "pipe"
      <4>1. /\ Current \in Msgs /\ SrcLen[Current] \in Nat /\ enc.pos \in Nat
            /\ Source(Current) \in Seq(Units) /\ Len(Source(Current)) = SrcLen[Current]
        BY <1>1, CurrentType, SourceType DEF EncState
      <4>2. SubSeq(Source(Current), enc.pos + 1, SrcLen[Current]) \in Seq(Units)
        BY <4>1, PartOf
      <4> QED
        BY <3>2, <4>2 DEF Copied
    <3> QED
      BY <3>1, <3>2
  <2>2. wire' \in Seq(Units) /\ Len(s) >= 1
    BY <1>1, <1>2, <2>1, UnitSent
  <2>3. UNCHANGED poolVars \/ (enc.pair # NoPair /\ UNCHANGED <<unused, usedCount>> /\
            \E x \in Pipe : pair' = [pair EXCEPT ![enc.pair] = x])
    <3>1. CASE Kind[Current] = "pipe"
      <4>1. s = pair[enc.pair].data /\ Drain(enc.pair, 1)
        BY <1>2, <2>1, <3>1 DEF Copied
      <4> QED
        BY <1>0, <1>1, <2>2, <3>1, <4>1, DrainIs
    <3>2. CASE Kind[Current] # "pipe"
      BY <1>2, <3>2
    <3> QED
      BY <3>1, <3>2
  <2>4. enc' \in EncState /\ enc'.pair = enc.pair /\ enc'.pc = "copy" /\ enc'.todo = enc.todo
    <3>1. PICK k \in Nat, l \in Nat :
             k = enc.n + 1 /\ l = enc.pos + IF Kind[Current] = "pipe" THEN 0 ELSE 1
      <4>1. enc.n \in Nat /\ enc.pos \in Nat
        BY <1>1 DEF EncState
      <4> QED
        BY <4>1
    <3>2. enc' = [enc EXCEPT !.n = k, !.pos = l]
      BY <1>2, <3>1
    <3> QED
      BY <1>1, <3>2 DEF EncState
  <2>5. /\ PoolInv' /\ Types' /\ DecInv' /\ BodyInv' /\ OwnInv' /\ DOMAIN pair' = DOMAIN pair
        /\ UNCHANGED taken /\ Current' = Current
    BY <1>1, <1>2, <2>2, <2>3, <2>4, EncoderWorks
  <2>6. EncInv'
    BY <1>1, <2>4, <2>5 DEF EncInv
  <2> QED
    BY <2>5, <2>6 DEF IInv
<1>3. CASE /\ enc' = [enc EXCEPT !.pc = "close", !.ok = (enc.n = Size[Current]),
                                 !.todo = Closes(Current, FALSE)]
           /\ stat' = Count(stat, "WriteErrors", IF enc.n = Size[Current] THEN 0 ELSE 1)
           /\ UNCHANGED <<wire, poolVars>>
  <2>1. UNCHANGED wire /\ UNCHANGED poolVars
    BY <1>3
  <2>2. stat' \in [ConnStats -> Nat]
    <3>1. "WriteErrors" \in ConnStats
      BY DEF ConnStats
    <3>2. PICK k \in Nat : k = IF enc.n = Size[Current] THEN 0 ELSE 1
      OBVIOUS
    <3> QED
      BY <1>1, <1>3, <3>1, <3>2, CountType
  <2> QED
    BY <1>1, <1>3, <2>1, <2>2, EncoderCloses
<1> QED
  BY <1>2, <1>3 DEF EncodeCopy

\* The deferred Close moves the encoder's pair into the pool, emptied.
LEMMA EncodeCloseStep ==
    ASSUME IInv, EncodeClose
    PROVE  IInv'
<1>0. PoolInv /\ Types /\ EncInv /\ DecInv /\ BodyInv /\ OwnInv
  BY DEF IInv
<1>1. /\ enc.pc = "close" /\ EncoderOnly /\ UNCHANGED <<wire, conn, leaked, stat, faults>>
      /\ enc \in EncState /\ enc.todo = <<enc.pair>> /\ taken # <<>> /\ enc.pair # NoPair
      /\ enc.pair \in DOMAIN pair
  BY <1>0 DEF EncodeClose, EncInv, Types
<1>2. PICK p \in DOMAIN pair : p = enc.pair
  BY <1>1
<1>3. enc.todo = <<p>> /\ Head(enc.todo) = p /\ Tail(enc.todo) = <<>> /\ Len(enc.todo) = 1
  BY <1>1, <1>2
<1>4. enc' \in EncState /\ enc'.pair = NoPair /\ enc'.pc = "close" /\ enc'.todo = <<>>
  <2>1. PICK t \in Seq(Pairs) : t = <<>>
    <3>1. <<>> \in Seq(Pairs)
      OBVIOUS
    <3> QED
      BY <3>1
  <2>2. enc' = [enc EXCEPT !.todo = t, !.pair = NoPair]
    BY <1>3, <2>1 DEF EncodeClose
  <2> QED
    BY <1>1, <2>1, <2>2 DEF EncState
<1>5. Lone(p)
  BY <1>0 DEF OwnInv
<1>6. ~Pooled(p) /\ dec.pair # p /\ ~Bodied(p) /\ p \notin leaked
  BY <1>2, <1>5 DEF Lone
<1>7. /\ PoolInv' /\ DOMAIN pair' = DOMAIN pair
      /\ \A q : Pooled(q)' <=> Pooled(q) \/ q = p
  BY <1>0, <1>3, <1>6, DonePair DEF EncodeClose
<1>8. Types' /\ UNCHANGED <<taken, dec, delivered>> /\ Current' = Current
  <2>1. /\ wire' \in Seq(Units) /\ conn' \in {"open", "eof", "reset"}
        /\ stat' \in [ConnStats -> Nat] /\ faults' \in 0 .. MaxFaults
    BY <1>0, <1>1 DEF Types
  <2> QED
    BY <1>0, <1>1, <1>4, <2>1, EncoderOnlyTypes
<1>9. EncInv' /\ DecInv'
  BY <1>0, <1>1, <1>4, <1>7, <1>8, DecKept DEF EncInv
<1>10. BodyInv' /\ \A q : Bodied(q)' <=> Bodied(q)
  BY <1>0, <1>7, <1>8, BodiesKept
<1>11. OwnInv'
  <2>1. \A q \in DOMAIN pair : q # p => Untouched(q)
    BY <1>0, <1>1, <1>2, <1>4, <1>7, <1>8, <1>10, PairsFromOne DEF Untouched
  <2>2. Lone(p)'
    BY <1>1, <1>2, <1>4, <1>6, <1>7, <1>8, <1>10 DEF Lone
  <2> QED
    BY <1>0, <1>1, <1>7, <2>1, <2>2, Moved DEF OwnInv
<1> QED
  BY <1>7, <1>8, <1>9, <1>10, <1>11 DEF IInv

\* A pair that encode still holds when it returns is lost, and no other.
LEMMA EncodeReturnStep ==
    ASSUME IInv, EncodeReturn
    PROVE  IInv'
<1>0. PoolInv /\ Types /\ EncInv /\ DecInv /\ BodyInv /\ OwnInv
  BY DEF IInv
<1>1. /\ UNCHANGED <<opt, script, taken, wire, dec, delivered, faults>> /\ UNCHANGED poolVars
      /\ leaked' = leaked \cup ({enc.pair} \ {NoPair}) /\ taken # <<>> /\ taken \in Seq(Msgs)
      /\ stat \in [ConnStats -> Nat] /\ conn \in {"open", "eof", "reset"} /\ buf \in Seq(Units)
  BY <1>0 DEF EncodeReturn, setting, decVars, Types, EncInv
<1>2. ASSUME enc' = Idle, stat' = CountBody, UNCHANGED <<buf, conn>>
      PROVE  Types' /\ enc'.pc = "idle" /\ enc'.pair = NoPair /\ enc'.todo = <<>>
  <2>1. enc' = [pc |-> "idle", pair |-> NoPair, pos |-> 0, n |-> 0, ok |-> TRUE, todo |-> <<>>]
    BY <1>2 DEF Idle
  <2>2. enc' \in EncState /\ enc'.pc = "idle" /\ enc'.pair = NoPair /\ enc'.todo = <<>>
    BY <2>1, EncStateType
  <2>3. Size[Current] \in Nat /\ "BodyWritten" \in ConnStats /\ "WriteCalls" \in ConnStats
    BY <1>1, CurrentType DEF ConnStats
  <2>4. PICK s \in [ConnStats -> Nat] : s = Count(stat, "BodyWritten", Size[Current])
    BY <1>1, <2>3, CountType
  <2>5. stat' \in [ConnStats -> Nat]
    BY <1>2, <2>3, <2>4, CountType DEF CountBody
  <2>6. Types'
    BY <1>0, <1>1, <1>2, <2>2, <2>5 DEF Types
  <2> QED
    BY <2>2, <2>6
<1>3. ASSUME enc' = [Idle EXCEPT !.pc = "dead", !.ok = FALSE], WriterEnds, UNCHANGED stat
      PROVE  Types' /\ enc'.pc = "dead" /\ enc'.pair = NoPair /\ enc'.todo = <<>>
  <2>1. enc' = [pc |-> "dead", pair |-> NoPair, pos |-> 0, n |-> 0, ok |-> FALSE, todo |-> <<>>]
    BY <1>3 DEF Idle
  <2>2. enc' \in EncState /\ enc'.pc = "dead" /\ enc'.pair = NoPair /\ enc'.todo = <<>>
    BY <2>1, EncStateType
  <2>3. buf' \in Seq(Units) /\ conn' \in {"open", "eof", "reset"}
    BY <1>1, <1>3 DEF WriterEnds
  <2>4. Types'
    BY <1>0, <1>1, <1>3, <2>2, <2>3 DEF Types
  <2> QED
    BY <2>2, <2>4
<1>4. Types' /\ enc'.pc \in {"idle", "dead"} /\ enc'.pair = NoPair /\ enc'.todo = <<>>
  BY <1>2, <1>3 DEF EncodeReturn
<1>5. PoolInv' /\ OwnInv' /\ BodyInv' /\ DecInv'
  <2>1. CASE enc.pair = NoPair
    <3>1. leaked' = leaked
      BY <1>1, <2>1
    <3>2. PoolInv' /\ DOMAIN pair' = DOMAIN pair /\ (\A q : Pooled(q)' <=> Pooled(q))
      BY <1>0, <1>1, PoolKept
    <3> QED
      BY <1>0, <1>1, <1>4, <2>1, <3>1, <3>2, NoneMoved, DecKept
  <2>2. CASE enc.pair # NoPair
    <3>1. leaked' = leaked \cup {enc.pair}
      BY <1>1, <2>2
    <3> QED
      BY <1>1, <1>4, <2>2, <3>1, EncoderLoses
  <2> QED
    BY <2>1, <2>2
<1>6. EncInv'
  BY <1>4 DEF EncInv
<1> QED
  BY <1>4, <1>5, <1>6 DEF IInv

-----------------------------------------------------------------------------
(* The steps of the decoder.                                                *)

\* The states in which the decoder starts over.
LEMMA DecStateType ==
    ASSUME NEW c \in {"start", "head", "grow", "load", "copy", "done", "garbled"},
           NEW x \in Msgs \cup {NoMsg}, NEW todo \in Seq({"err", "head"})
    PROVE  [pc |-> c, m |-> x, pair |-> NoPair, n |-> 0, todo |-> todo, data |-> <<>>]
              \in DecState
<1>1. <<>> \in Seq(Units)
  OBVIOUS
<1> QED
  BY <1>1 DEF DecState

\* The decoder that waits for the next message, lost its place or has ended
LEMMA WaitingType ==
    ASSUME NEW c \in {"start", "done", "garbled"}
    PROVE  LET w == [Waiting EXCEPT !.pc = c] IN
           w \in DecState /\ w.pc = c /\ w.pair = NoPair
<1>1. <<>> \in Seq({"err", "head"})
  OBVIOUS
<1>2. [Waiting EXCEPT !.pc = c] =
         [pc |-> c, m |-> NoMsg, pair |-> NoPair, n |-> 0, todo |-> <<>>, data |-> <<>>]
  BY DEF Waiting
<1>3. [pc |-> c, m |-> NoMsg, pair |-> NoPair, n |-> 0, todo |-> <<>>, data |-> <<>>]
         \in DecState
  BY <1>1, DecStateType
<1> QED
  BY <1>2, <1>3

\* A step of the decoder keeps the encoder's types.
LEMMA DecoderOnlyTypes ==
    ASSUME Types, DecoderOnly, dec' \in DecState, wire' \in Seq(Units),
           conn' \in {"open", "eof", "reset"}, delivered' \in Seq(Body),
           stat' \in [ConnStats -> Nat], faults' \in 0 .. MaxFaults
    PROVE  Types' /\ UNCHANGED <<enc, taken>>
BY DEF Types, DecoderOnly, setting, encVars

\* One unit is taken off the stream.
LEMMA UnitRead ==
    ASSUME wire \in Seq(Units), Readable, wire' = Tail(wire)
    PROVE  wire' \in Seq(Units) /\ Head(wire) \in Units
BY DEF Readable

\* The decoder moves without a pair of its own, or keeps the one it has.
LEMMA DecoderWorks ==
    ASSUME IInv, DecoderOnly, UNCHANGED <<conn, delivered, leaked, faults>>,
           dec' \in DecState, dec'.pair = dec.pair,
           UNCHANGED poolVars \/ (dec.pair # NoPair /\ UNCHANGED <<unused, usedCount>> /\
              \E x \in Pipe : pair' = [pair EXCEPT ![dec.pair] = x]),
           wire' \in Seq(Units), stat' \in [ConnStats -> Nat]
    PROVE  /\ PoolInv' /\ Types' /\ EncInv' /\ BodyInv' /\ OwnInv'
           /\ DOMAIN pair' = DOMAIN pair
<1>0. PoolInv /\ Types /\ EncInv /\ DecInv /\ BodyInv /\ OwnInv
  BY DEF IInv
<1>1. Types' /\ UNCHANGED <<enc, taken>>
  <2>1. /\ conn' \in {"open", "eof", "reset"} /\ delivered' \in Seq(Body)
        /\ faults' \in 0 .. MaxFaults
    BY <1>0 DEF Types
  <2> QED
    BY <1>0, <2>1, DecoderOnlyTypes
<1>2. CASE UNCHANGED poolVars
  <2>1. PoolInv' /\ DOMAIN pair' = DOMAIN pair /\ (\A q : Pooled(q)' <=> Pooled(q))
    BY <1>0, <1>2, PoolKept
  <2> QED
    BY <1>0, <1>1, <2>1, NoneMoved, EncKept
<1>3. ASSUME dec.pair # NoPair, UNCHANGED <<unused, usedCount>>,
             NEW x \in Pipe, pair' = [pair EXCEPT ![dec.pair] = x]
      PROVE  PoolInv' /\ OwnInv' /\ BodyInv' /\ EncInv' /\ DOMAIN pair' = DOMAIN pair
  <2>1. PICK p \in DOMAIN pair : p = dec.pair
    BY <1>0, <1>3 DEF DecInv
  <2>2. ~Pooled(p)
    BY <1>0, <2>1 DEF OwnInv, Lone
  <2>3. PoolInv' /\ OwnInv' /\ BodyInv' /\ DOMAIN pair' = DOMAIN pair
    BY <1>1, <1>3, <2>1, <2>2, PairChanged
  <2> QED
    BY <1>0, <1>1, <2>3, EncKept
<1> QED
  BY <1>1, <1>2, <1>3

\* Every byte that is read is counted.
LEMMA HeadReadType ==
    ASSUME stat \in [ConnStats -> Nat]
    PROVE  Count(stat, "HeadRead", 1) \in [ConnStats -> Nat]
<1>1. "HeadRead" \in ConnStats
  BY DEF ConnStats
<1> QED
  BY <1>1, CountType

\* A start line touches no pair.
LEMMA DecodeStartStep ==
    ASSUME IInv, DecodeStart
    PROVE  IInv'
<1>0. Types /\ DecInv
  BY DEF IInv
<1>1. /\ dec.pc = "start" /\ dec.pair = NoPair /\ Readable /\ wire' = Tail(wire) /\ DecoderOnly
      /\ UNCHANGED <<conn, delivered, leaked, faults>> /\ UNCHANGED poolVars
      /\ stat' = Count(stat, "HeadRead", 1)
      /\ wire \in Seq(Units) /\ stat \in [ConnStats -> Nat]
  BY <1>0 DEF DecodeStart, Types, DecInv
<1>2. PICK u \in Units : u = Head(wire)
  BY <1>1, UnitRead
<1>3. /\ dec' \in DecState /\ dec'.pair = NoPair /\ dec'.pc \in {"head", "garbled"}
      /\ dec'.pc = "head" => dec'.m \in Msgs
  <2>1. CASE u.part = "start" /\ dec' = [Waiting EXCEPT !.pc = "head", !.m = u.m, !.todo = Rest(u.m)]
    <3>1. u.m \in Msgs
      BY DEF Units
    <3>2. PICK todo \in Seq({"err", "head"}) : todo = Rest(u.m)
      BY <3>1, HeaderType
    <3>3. dec' = [pc |-> "head", m |-> u.m, pair |-> NoPair, n |-> 0, todo |-> todo,
                  data |-> <<>>]
      BY <2>1, <3>2 DEF Waiting
    <3> QED
      BY <3>1, <3>3, DecStateType
  <2>2. CASE dec' = [Waiting EXCEPT !.pc = "garbled"]
    BY <2>2, WaitingType
  <2> QED
    BY <1>2, <2>1, <2>2 DEF DecodeStart
<1>4. wire' \in Seq(Units) /\ stat' \in [ConnStats -> Nat]
  BY <1>1, UnitRead, HeadReadType
<1>5. PoolInv' /\ Types' /\ EncInv' /\ BodyInv' /\ OwnInv'
  BY <1>1, <1>3, <1>4, DecoderWorks
<1>6. DecInv'
  BY <1>3 DEF DecInv
<1> QED
  BY <1>5, <1>6 DEF IInv

\* Headers and errors touch no pair.
LEMMA DecodeHeadStep ==
    ASSUME IInv, DecodeHead
    PROVE  IInv'
<1>0. Types /\ DecInv
  BY DEF IInv
<1>1. /\ dec.pc = "head" /\ dec.pair = NoPair /\ Readable /\ wire' = Tail(wire) /\ DecoderOnly
      /\ UNCHANGED <<conn, delivered, leaked, faults>> /\ UNCHANGED poolVars
      /\ stat' = Count(stat, "HeadRead", 1) /\ dec \in DecState /\ dec.m \in Msgs
      /\ wire \in Seq(Units) /\ stat \in [ConnStats -> Nat]
  BY <1>0 DEF DecodeHead, Types, DecInv
<1>2. /\ dec' \in DecState /\ dec'.pair = NoPair /\ dec'.pc \in {"head", "garbled"}
      /\ dec'.pc = "head" => dec'.m \in Msgs
  <2>1. CASE dec' = [dec EXCEPT !.todo = Tail(@)]
    <3>1. PICK todo \in Seq({"err", "head"}) : todo = Tail(dec.todo)
      <4>1. dec.todo \in Seq({"err", "head"}) /\ dec.todo # <<>>
        BY <1>1 DEF DecodeHead, DecState
      <4>2. Tail(dec.todo) \in Seq({"err", "head"})
        BY <4>1
      <4> QED
        BY <4>2
    <3>2. dec' = [dec EXCEPT !.todo = todo]
      BY <2>1, <3>1
    <3> QED
      BY <1>1, <3>2 DEF DecState
  <2>2. CASE dec' = [Waiting EXCEPT !.pc = "garbled"]
    BY <2>2, WaitingType
  <2> QED
    BY <2>1, <2>2 DEF DecodeHead
<1>4. wire' \in Seq(Units) /\ stat' \in [ConnStats -> Nat]
  BY <1>1, UnitRead, HeadReadType
<1>5. PoolInv' /\ Types' /\ EncInv' /\ BodyInv' /\ OwnInv'
  BY <1>1, <1>2, <1>4, DecoderWorks
<1>6. DecInv'
  BY <1>2 DEF DecInv
<1> QED
  BY <1>5, <1>6 DEF IInv

\* A message is delivered: its body gets the decoder's pair, if it has one, or the
\* pair is returned to the pool at once.
LEMMA DeliverStep ==
    ASSUME IInv, NEW p, p = dec.pair, NEW data \in Seq(Units), dec.m \in Msgs,
           Deliver(p, data), DecoderOnly, UNCHANGED <<conn, leaked, faults>>,
           wire' \in Seq(Units)
    PROVE  IInv'
<1>0. PoolInv /\ Types /\ EncInv /\ DecInv /\ BodyInv /\ OwnInv
  BY DEF IInv
<1>1. /\ delivered \in Seq(Body) /\ dec \in DecState /\ stat \in [ConnStats -> Nat]
      /\ conn \in {"open", "eof", "reset"} /\ faults \in 0 .. MaxFaults
      /\ p \in Pairs \cup {NoPair} /\ (p # NoPair => p \in DOMAIN pair)
  <2>1. /\ delivered \in Seq(Body) /\ dec \in DecState /\ stat \in [ConnStats -> Nat]
        /\ conn \in {"open", "eof", "reset"} /\ faults \in 0 .. MaxFaults
    BY <1>0 DEF Types
  <2>2. p \in Pairs \cup {NoPair}
    BY <2>1 DEF DecState
  <2>3. p # NoPair => p \in DOMAIN pair
    BY <1>0 DEF DecInv
  <2> QED
    BY <2>1, <2>2, <2>3
<1>2. dec' \in DecState /\ dec'.pair = NoPair /\ dec'.pc = "start"
  <2>1. dec' = [Waiting EXCEPT !.pc = "start"]
    BY DEF Deliver, Waiting
  <2> QED
    BY <2>1, WaitingType
<1>3. stat' \in [ConnStats -> Nat]
  <2>1. Size[dec.m] \in Nat /\ "BodyRead" \in ConnStats /\ "ReadCalls" \in ConnStats
    BY CodecAssumption DEF ConnStats
  <2>2. PICK s \in [ConnStats -> Nat] : s = Count(stat, "BodyRead", Size[dec.m])
    BY <1>1, <2>1, CountType
  <2> QED
    BY <2>1, <2>2, CountType DEF Deliver
<1>4. PICK s \in {"open", "closed"}, r \in Pairs \cup {NoPair} :
         /\ s = IF opt.closeBody THEN "closed" ELSE "open"
         /\ r = IF opt.closeBody THEN NoPair ELSE p
  <2>1. CASE opt.closeBody
    BY <2>1
  <2>2. CASE ~opt.closeBody
    BY <1>1, <2>2
  <2> QED
    BY <2>1, <2>2
<1>5. PICK d \in Body : /\ d.pair = r /\ d.st = s
                        /\ delivered' = Append(delivered, d)
  <2>1. PICK d : d = [m |-> dec.m, data |-> data, st |-> s, pair |-> r]
    OBVIOUS
  <2>2. d \in Body /\ d.pair = r /\ d.st = s
    BY <2>1 DEF Body
  <2>3. delivered' = Append(delivered, d)
    BY <1>4, <2>1 DEF Deliver
  <2> QED
    BY <2>2, <2>3
<1>6. Types' /\ UNCHANGED <<enc, taken>>
  <2>1. delivered' \in Seq(Body)
    BY <1>1, <1>5
  <2> QED
    BY <1>0, <1>1, <1>2, <1>3, <2>1, DecoderOnlyTypes
<1>7. p # NoPair => ~Pooled(p) /\ enc.pair # p /\ ~Bodied(p) /\ p \notin leaked
  BY <1>0, <1>1 DEF OwnInv, Lone
<1>8. CASE opt.closeBody /\ p # NoPair
  <2>1. /\ PoolInv' /\ DOMAIN pair' = DOMAIN pair
        /\ \A q : Pooled(q)' <=> Pooled(q) \/ q = p
    BY <1>0, <1>1, <1>7, <1>8, DonePair DEF Deliver
  <2>2. r = NoPair
    BY <1>4, <1>8
  <2>3. BodyInv' /\ \A q : Bodied(q)' <=> Bodied(q) \/ q = r
    BY <1>0, <1>1, <1>5, <2>1, <2>2, BodyAdded
  <2>4. OwnInv'
    <3>1. \A q \in DOMAIN pair : q # p => Untouched(q)
      BY <1>0, <1>2, <1>6, <2>1, <2>2, <2>3, PairsFromOne DEF Untouched
    <3>2. Lone(p)'
      BY <1>2, <1>6, <1>7, <1>8, <2>1, <2>2, <2>3 DEF Lone
    <3> QED
      BY <1>0, <2>1, <3>1, <3>2, Moved DEF OwnInv
  <2>5. EncInv' /\ DecInv'
    BY <1>0, <1>2, <1>6, <2>1, EncKept DEF DecInv
  <2> QED
    BY <1>6, <2>1, <2>3, <2>4, <2>5 DEF IInv
<1>9. CASE ~(opt.closeBody /\ p # NoPair)
  <2>1. PoolInv' /\ DOMAIN pair' = DOMAIN pair /\ (\A q : Pooled(q)' <=> Pooled(q))
    BY <1>0, <1>9, PoolKept DEF Deliver
  <2>2. r = p /\ (r # NoPair => s = "open")
    BY <1>4, <1>9
  <2>3. BodyInv' /\ \A q : Bodied(q)' <=> Bodied(q) \/ q = r
    BY <1>0, <1>1, <1>5, <1>7, <2>1, <2>2, BodyAdded
  <2>4. OwnInv'
    <3>1. \A q \in DOMAIN pair : q # p => Untouched(q)
      BY <1>0, <1>2, <1>6, <2>1, <2>2, <2>3, PairsFromOne DEF Untouched
    <3>2. p \in DOMAIN pair => Lone(p)'
      BY <1>0, <1>2, <1>6, <1>7, <2>1, <2>2, <2>3, PairsFromOne DEF Lone
    <3> QED
      BY <1>0, <2>1, <3>1, <3>2, Moved DEF OwnInv
  <2>5. EncInv' /\ DecInv'
    BY <1>0, <1>2, <1>6, <2>1, EncKept DEF DecInv
  <2> QED
    BY <1>6, <2>1, <2>3, <2>4, <2>5 DEF IInv
<1> QED
  BY <1>8, <1>9

\* The decoder takes a pair from the pool, or none.
LEMMA DecodeBodyStep ==
    ASSUME IInv, DecodeBody
    PROVE  IInv'
<1>0. PoolInv /\ Types /\ EncInv /\ DecInv /\ BodyInv /\ OwnInv
  BY DEF IInv
<1>1. /\ dec.pc = "head" /\ dec.pair = NoPair /\ DecoderOnly /\ dec.m \in Msgs /\ dec \in DecState
      /\ UNCHANGED <<wire, conn, leaked>> /\ wire \in Seq(Units) /\ faults' \in 0 .. MaxFaults
      /\ stat \in [ConnStats -> Nat] /\ conn \in {"open", "eof", "reset"}
      /\ delivered \in Seq(Body)
  <2>1. Fault \/ NoFault
    BY DEF DecodeBody, NoPairMade
  <2> QED
    BY <1>0, <2>1, FaultsType DEF DecodeBody, DecInv, Types
<1>2. CASE Deliver(NoPair, <<>>) /\ NoFault
  <2>1. <<>> \in Seq(Units)
    OBVIOUS
  <2> QED
    BY <1>1, <1>2, <2>1, DeliverStep DEF NoFault
<1>3. ASSUME NEW p \in Pairs, get(p), dec' = [dec EXCEPT !.pc = "grow", !.pair = p],
             UNCHANGED <<delivered, stat>>
      PROVE  IInv'
  <2>1. /\ PoolInv' /\ p \in DOMAIN pair'
        /\ p \in DOMAIN pair => Pooled(p)
        /\ \A q : Pooled(q)' <=> Pooled(q) /\ q # p
        /\ \A q \in DOMAIN pair' : q = p \/ q \in DOMAIN pair
        /\ OthersKept(p)
    BY <1>0, <1>3, GetPair
  <2>2. /\ dec' \in DecState /\ dec'.pc = "grow" /\ dec'.pair = p /\ dec'.m = dec.m
    BY <1>1, <1>3 DEF DecState
  <2>3. Types' /\ UNCHANGED <<enc, taken>>
    BY <1>0, <1>1, <1>3, <2>2, DecoderOnlyTypes
  <2>4. DOMAIN pair \subseteq DOMAIN pair' /\ p # NoPair
    BY <1>0, <2>1, PoolAssumption DEF OthersKept, PoolInv, Pairs, NoPair
  <2>5. EncInv' /\ DecInv'
    BY <1>0, <1>1, <2>1, <2>2, <2>3, <2>4, EncKept DEF DecInv
  <2>6. BodyInv' /\ \A q : Bodied(q)' <=> Bodied(q)
    BY <1>0, <1>3, <2>4, BodiesKept
  <2>7. enc.pair # p /\ ~Bodied(p) /\ p \notin leaked
    <3>1. CASE p \in DOMAIN pair
      BY <1>0, <2>1, <3>1 DEF OwnInv, Lone
    <3>2. CASE p \notin DOMAIN pair
      BY <1>0, <2>4, <3>2 DEF OwnInv, EncInv, BodyInv, Bodied
    <3> QED
      BY <3>1, <3>2
  <2>8. OwnInv'
    <3>1. \A q \in DOMAIN pair : q # p => Untouched(q)
      BY <1>0, <1>1, <2>1, <2>2, <2>3, <2>6, <2>7, PairsFromOne DEF Untouched
    <3>2. Lone(p)'
      BY <1>1, <2>1, <2>2, <2>3, <2>6, <2>7 DEF Lone
    <3> QED
      BY <1>0, <1>1, <2>1, <2>4, <3>1, <3>2, Moved DEF OwnInv
  <2> QED
    BY <2>1, <2>3, <2>5, <2>6, <2>8 DEF IInv
<1>4. ASSUME dec' = [dec EXCEPT !.pc = "copy"], UNCHANGED <<delivered, stat>>,
             UNCHANGED poolVars \/ getFails
      PROVE  IInv'
  <2>1. PoolInv' /\ DOMAIN pair' = DOMAIN pair /\ \A q : Pooled(q)' <=> Pooled(q)
    <3>1. CASE UNCHANGED poolVars
      BY <1>0, <3>1, PoolKept
    <3>2. CASE getFails
      BY <1>0, <3>2, GetFailed DEF getFails, Pooled
    <3> QED
      BY <1>4, <3>1, <3>2
  <2>2. dec' \in DecState /\ dec'.pc = "copy" /\ dec'.pair = dec.pair /\ dec'.m = dec.m
    BY <1>1, <1>4 DEF DecState
  <2>3. Types' /\ UNCHANGED <<enc, taken>>
    BY <1>0, <1>1, <1>4, <2>2, DecoderOnlyTypes
  <2>4. EncInv' /\ DecInv'
    BY <1>0, <1>1, <2>1, <2>2, <2>3, EncKept DEF DecInv
  <2>5. BodyInv' /\ OwnInv'
    BY <1>0, <1>1, <1>4, <2>1, <2>2, <2>3, NoneMoved
  <2> QED
    BY <2>1, <2>3, <2>4, <2>5 DEF IInv
<1> QED
  BY <1>2, <1>3, <1>4 DEF DecodeBody, NoPairMade

\* The decoder loses its pair.
LEMMA DecoderLoses ==
    ASSUME IInv, UNCHANGED poolVars, UNCHANGED <<enc, taken, delivered>>, dec.pair # NoPair,
           leaked' = leaked \cup {dec.pair}, dec'.pair = NoPair
    PROVE  PoolInv' /\ OwnInv' /\ BodyInv' /\ EncInv'
<1>0. PoolInv /\ EncInv /\ DecInv /\ BodyInv /\ OwnInv
  BY DEF IInv
<1>1. PoolInv' /\ DOMAIN pair' = DOMAIN pair /\ (\A q : Pooled(q)' <=> Pooled(q))
  BY <1>0, PoolKept
<1>2. BodyInv' /\ (\A q : Bodied(q)' <=> Bodied(q)) /\ EncInv'
  BY <1>0, <1>1, BodiesKept, EncKept
<1>3. PICK p \in DOMAIN pair : p = dec.pair
  BY <1>0 DEF DecInv
<1>4. \A q \in DOMAIN pair : q # p => Untouched(q)
  BY <1>0, <1>1, <1>2, <1>3, PairsFromOne DEF Untouched
<1>5. Lone(p) /\ p # NoPair
  BY <1>0, <1>3 DEF OwnInv
<1>6. Lone(p)'
  BY <1>1, <1>2, <1>3, <1>5 DEF Lone
<1>7. OwnInv'
  BY <1>0, <1>1, <1>3, <1>4, <1>6, Moved DEF OwnInv
<1> QED
  BY <1>1, <1>2, <1>7

\* Grow keeps the pair in the decoder's hand; when it fails the pair is lost.
LEMMA DecodeGrowStep ==
    ASSUME IInv, DecodeGrow
    PROVE  IInv'
<1>0. PoolInv /\ Types /\ DecInv
  BY DEF IInv
<1>1. /\ dec.pc = "grow" /\ dec.pair # NoPair /\ dec.pair \in DOMAIN pair /\ DecoderOnly
      /\ dec.m \in Msgs /\ dec \in DecState /\ UNCHANGED <<wire, conn, delivered, stat>>
      /\ wire \in Seq(Units) /\ stat \in [ConnStats -> Nat] /\ faults \in 0 .. MaxFaults
      /\ conn \in {"open", "eof", "reset"} /\ delivered \in Seq(Body)
  BY <1>0 DEF DecodeGrow, DecInv, Types
<1>2. PICK n \in Nat : n = alignSize(Size[dec.m]) * 2
  <2>1. Size[dec.m] \in Nat
    BY <1>1, CodecAssumption
  <2>2. alignSize(Size[dec.m]) \in Nat
    BY <2>1, AlignType
  <2> QED
    BY <2>2
<1>3. CASE Grow(dec.pair, n) /\ dec' = [dec EXCEPT !.pc = "load"] /\ NoFault /\ UNCHANGED leaked
  <2>1. /\ UNCHANGED <<unused, usedCount>>
        /\ \E x \in Pipe : pair' = [pair EXCEPT ![dec.pair] = x]
    BY <1>0, <1>1, <1>3, GrowIs
  <2>2. dec' \in DecState /\ dec'.pair = dec.pair /\ dec'.pc = "load" /\ dec'.m = dec.m
    BY <1>1, <1>3 DEF DecState
  <2>3. PoolInv' /\ Types' /\ EncInv' /\ BodyInv' /\ OwnInv' /\ DOMAIN pair' = DOMAIN pair
    BY <1>1, <1>3, <2>1, <2>2, DecoderWorks DEF NoFault
  <2>4. DecInv'
    BY <1>1, <2>2, <2>3 DEF DecInv
  <2> QED
    BY <2>3, <2>4 DEF IInv
<1>4. CASE /\ Fault \/ NoFault
           /\ leaked' = leaked \cup {dec.pair}
           /\ dec' = [dec EXCEPT !.pc = "copy", !.pair = NoPair] /\ UNCHANGED poolVars
  <2>1. dec' \in DecState /\ dec'.pair = NoPair /\ dec'.pc = "copy" /\ dec'.m = dec.m
    BY <1>1, <1>4 DEF DecState
  <2>2. faults' \in 0 .. MaxFaults
    BY <1>1, <1>4, FaultsType
  <2>3. Types' /\ UNCHANGED <<enc, taken>>
    BY <1>0, <1>1, <2>1, <2>2, DecoderOnlyTypes
  <2>4. PoolInv' /\ OwnInv' /\ BodyInv' /\ EncInv'
    BY <1>1, <1>4, <2>1, <2>3, DecoderLoses
  <2>5. DecInv'
    BY <1>1, <2>1 DEF DecInv
  <2> QED
    BY <2>3, <2>4, <2>5 DEF IInv
<1> QED
  BY <1>2, <1>3, <1>4 DEF DecodeGrow

\* The body enters the decoder's own pair.
LEMMA DecodeLoadStep ==
    ASSUME IInv, DecodeLoad
    PROVE  IInv'
<1>0. PoolInv /\ Types /\ DecInv
  BY DEF IInv
<1>1. /\ dec.pc = "load" /\ dec.pair # NoPair /\ dec.pair \in DOMAIN pair /\ DecoderOnly
      /\ dec.m \in Msgs /\ dec \in DecState /\ Readable /\ wire' = Tail(wire)
      /\ UNCHANGED <<conn, delivered, leaked, stat, faults>>
      /\ wire \in Seq(Units) /\ stat \in [ConnStats -> Nat]
  BY <1>0 DEF DecodeLoad, DecInv, Types
<1>2. wire' \in Seq(Units) /\ Head(wire) \in Units
  BY <1>1, UnitRead
<1>3. PICK bytes \in Seq(Units) : bytes = <<Head(wire)>>
  <2>1. PICK u \in Units : u = Head(wire)
    BY <1>2
  <2>2. <<u>> \in Seq(Units)
    OBVIOUS
  <2> QED
    BY <2>1, <2>2
<1>4. /\ UNCHANGED <<unused, usedCount>>
      /\ \E x \in Pipe : pair' = [pair EXCEPT ![dec.pair] = x]
  BY <1>0, <1>1, <1>3, LoadIs DEF DecodeLoad
<1>5. dec' \in DecState /\ dec'.pair = dec.pair /\ dec'.pc = "load" /\ dec'.m = dec.m
  <2>1. PICK k \in Nat : k = dec.n + 1
    BY <1>1 DEF DecState
  <2>2. dec' = [dec EXCEPT !.n = k]
    BY <2>1 DEF DecodeLoad
  <2> QED
    BY <1>1, <2>2 DEF DecState
<1>6. PoolInv' /\ Types' /\ EncInv' /\ BodyInv' /\ OwnInv' /\ DOMAIN pair' = DOMAIN pair
  BY <1>1, <1>2, <1>4, <1>5, DecoderWorks
<1>7. DecInv'
  BY <1>1, <1>5, <1>6 DEF DecInv
<1> QED
  BY <1>6, <1>7 DEF IInv

\* A load that fails loses the decoder's pair.
LEMMA DecodeLoadFailStep ==
    ASSUME IInv, DecodeLoadFail
    PROVE  IInv'
<1>0. PoolInv /\ Types /\ DecInv
  BY DEF IInv
<1>1. /\ dec.pc = "load" /\ dec.pair # NoPair /\ DecoderOnly /\ dec.m \in Msgs
      /\ dec \in DecState /\ UNCHANGED <<wire, conn, delivered, stat, poolVars>> /\ Fault
      /\ wire \in Seq(Units) /\ stat \in [ConnStats -> Nat] /\ faults \in 0 .. MaxFaults
      /\ conn \in {"open", "eof", "reset"} /\ delivered \in Seq(Body)
      /\ leaked' = leaked \cup {dec.pair}
  BY <1>0 DEF DecodeLoadFail, DecInv, Types
<1>2. dec' \in DecState /\ dec'.pair = NoPair /\ dec'.pc = "copy" /\ dec'.m = dec.m
  BY <1>1 DEF DecodeLoadFail, DecState
<1>3. faults' \in 0 .. MaxFaults
  BY <1>1, FaultsType
<1>4. Types' /\ UNCHANGED <<enc, taken>>
  BY <1>0, <1>1, <1>2, <1>3, DecoderOnlyTypes
<1>5. PoolInv' /\ OwnInv' /\ BodyInv' /\ EncInv'
  BY <1>1, <1>2, <1>4, DecoderLoses
<1>6. DecInv'
  BY <1>1, <1>2 DEF DecInv
<1> QED
  BY <1>4, <1>5, <1>6 DEF IInv

\* The pair moves to the delivered body, or with CloseBody into the pool.
LEMMA DecodeLoadedStep ==
    ASSUME IInv, DecodeLoaded
    PROVE  IInv'
<1>1. /\ dec.m \in Msgs /\ Deliver(dec.pair, <<>>) /\ DecoderOnly
      /\ UNCHANGED <<conn, leaked, faults>> /\ wire' \in Seq(Units)
  BY DEF DecodeLoaded, IInv, DecInv, Types
<1>2. <<>> \in Seq(Units)
  OBVIOUS
<1> QED
  BY <1>1, <1>2, DeliverStep

\* A copied body has no pair.
LEMMA DecodeCopyStep ==
    ASSUME IInv, DecodeCopy
    PROVE  IInv'
<1>0. PoolInv /\ Types /\ DecInv
  BY DEF IInv
<1>1. /\ dec.pc = "copy" /\ dec.pair = NoPair /\ DecoderOnly /\ dec.m \in Msgs /\ dec \in DecState
      /\ UNCHANGED <<conn, leaked, faults>> /\ wire \in Seq(Units) /\ stat \in [ConnStats -> Nat]
  BY <1>0 DEF DecodeCopy, DecInv, Types
<1>2. CASE /\ Readable /\ wire' = Tail(wire)
           /\ dec' = [dec EXCEPT !.n = @ + 1, !.data = Append(@, Head(wire))]
           /\ UNCHANGED <<poolVars, delivered, stat>>
  <2>1. wire' \in Seq(Units) /\ Head(wire) \in Units
    BY <1>1, <1>2, UnitRead
  <2>2. dec' \in DecState /\ dec'.pair = dec.pair /\ dec'.pc = "copy" /\ dec'.m = dec.m
    <3>1. dec.n \in Nat /\ dec.data \in Seq(Units)
      BY <1>1 DEF DecState
    <3>2. PICK k \in Nat, data \in Seq(Units) :
             k = dec.n + 1 /\ data = Append(dec.data, Head(wire))
      <4>1. Append(dec.data, Head(wire)) \in Seq(Units) /\ dec.n + 1 \in Nat
        BY <2>1, <3>1
      <4> QED
        BY <4>1
    <3>3. dec' = [dec EXCEPT !.n = k, !.data = data]
      BY <1>2, <3>2
    <3> QED
      BY <1>1, <3>3 DEF DecState
  <2>3. UNCHANGED poolVars /\ UNCHANGED <<delivered, stat>>
    BY <1>2
  <2>4. PoolInv' /\ Types' /\ EncInv' /\ BodyInv' /\ OwnInv'
    BY <1>1, <2>1, <2>2, <2>3, DecoderWorks
  <2>5. DecInv'
    BY <1>1, <2>2 DEF DecInv
  <2> QED
    BY <2>4, <2>5 DEF IInv
<1>3. CASE Deliver(NoPair, dec.data) /\ UNCHANGED wire
  <2>1. dec.data \in Seq(Units) /\ wire' \in Seq(Units)
    BY <1>1, <1>3 DEF DecState
  <2> QED
    BY <1>1, <1>3, <2>1, DeliverStep
<1> QED
  BY <1>2, <1>3 DEF DecodeCopy

\* A pair that was being filled is lost when the connection ends.
LEMMA DecodeFailStep ==
    ASSUME IInv, DecodeFail
    PROVE  IInv'
<1>0. PoolInv /\ Types /\ EncInv /\ DecInv /\ BodyInv /\ OwnInv
  BY DEF IInv
<1>1. /\ DecoderOnly /\ UNCHANGED <<wire, delivered>> /\ UNCHANGED poolVars /\ conn' = "reset"
      /\ leaked' = leaked \cup ({dec.pair} \ {NoPair}) /\ delivered \in Seq(Body)
      /\ wire \in Seq(Units) /\ stat \in [ConnStats -> Nat] /\ faults \in 0 .. MaxFaults
      /\ Fault \/ NoFault
  BY <1>0 DEF DecodeFail, Types
<1>2. dec' \in DecState /\ dec'.pair = NoPair /\ dec'.pc = "done"
  BY WaitingType DEF DecodeFail
<1>3. stat' \in [ConnStats -> Nat]
  <2>1. PICK n \in Nat : n = IF dec.pc \in {"start", "head"} THEN 1 ELSE 0
    OBVIOUS
  <2>2. "ReadErrors" \in ConnStats
    BY DEF ConnStats
  <2> QED
    BY <1>1, <2>1, <2>2, CountType DEF DecodeFail
<1>4. Types' /\ UNCHANGED <<enc, taken>>
  <2>1. faults' \in 0 .. MaxFaults
    BY <1>1, FaultsType
  <2> QED
    BY <1>0, <1>1, <1>2, <1>3, <2>1, DecoderOnlyTypes
<1>5. PoolInv' /\ OwnInv' /\ BodyInv' /\ EncInv'
  <2>1. CASE dec.pair = NoPair
    <3>1. leaked' = leaked
      BY <1>1, <2>1
    <3>2. PoolInv' /\ DOMAIN pair' = DOMAIN pair /\ (\A q : Pooled(q)' <=> Pooled(q))
      BY <1>0, <1>1, PoolKept
    <3> QED
      BY <1>0, <1>1, <1>2, <1>4, <2>1, <3>1, <3>2, NoneMoved, EncKept
  <2>2. CASE dec.pair # NoPair
    <3>1. leaked' = leaked \cup {dec.pair}
      BY <1>1, <2>2
    <3> QED
      BY <1>1, <1>2, <1>4, <2>2, <3>1, DecoderLoses
  <2> QED
    BY <2>1, <2>2
<1>6. DecInv'
  BY <1>2 DEF DecInv
<1> QED
  BY <1>4, <1>5, <1>6 DEF IInv

-----------------------------------------------------------------------------
(* The application and the connection.                                      *)

\* Reading a body drains its own pair.
LEMMA ReadStep ==
    ASSUME IInv, NEW i \in DOMAIN delivered, Read(i)
    PROVE  IInv'
<1>0. PoolInv /\ Types /\ EncInv /\ DecInv /\ BodyInv /\ OwnInv
  BY DEF IInv
<1>1. /\ UNCHANGED <<opt, script, taken, buf, enc, wire, conn, dec, leaked, stat, faults>>
      /\ delivered[i].pair # NoPair /\ delivered \in Seq(Body) /\ pair \in Seq(Pipe)
      /\ delivered[i].pair \in DOMAIN pair
  BY <1>0 DEF Read, setting, encVars, Types, BodyInv, PoolInv
<1>2. PICK p \in DOMAIN pair : p = delivered[i].pair
  BY <1>1
<1>3. PICK data \in Seq(Units) : data = pair[p].data
  BY <1>1, PairWith
<1>4. /\ delivered' = [delivered EXCEPT ![i].data = @ \o data] /\ Drain(p, Len(data))
      /\ Len(data) \in Nat /\ Len(data) <= Len(pair[p].data)
  BY <1>2, <1>3 DEF Read
<1>5. Lone(p)
  BY <1>0 DEF OwnInv
<1>6. ~Pooled(p)
  BY <1>2, <1>5 DEF Lone, Bodied
<1>7. PICK x \in Pipe : pair' = [pair EXCEPT ![p] = x] /\ UNCHANGED <<unused, usedCount>>
  BY <1>0, <1>4, DrainIs
<1>8. PoolInv' /\ DOMAIN pair' = DOMAIN pair /\ (\A q : Pooled(q)' <=> Pooled(q))
  BY <1>0, <1>6, <1>7, ChangePair
<1>9. /\ delivered' \in Seq(Body) /\ BodyInv' /\ \A q : Bodied(q)' <=> Bodied(q)
  BY <1>0, <1>1, <1>4, <1>8, BodyRead
<1>10. OwnInv'
  <2>1. \A q : Lone(q) => Lone(q)'
    BY <1>1, <1>8, <1>9 DEF Lone
  <2> QED
    BY <1>0, <1>1, <1>8, <2>1 DEF OwnInv
<1>11. Types'
  BY <1>0, <1>1, <1>9 DEF Types
<1>12. EncInv' /\ DecInv'
  BY <1>0, <1>1, <1>8, EncKept, DecKept
<1> QED
  BY <1>8, <1>9, <1>10, <1>11, <1>12 DEF IInv

\* Closing a body moves its pair into the pool, emptied.
LEMMA CloseStep ==
    ASSUME IInv, NEW i \in DOMAIN delivered, Close(i)
    PROVE  IInv'
<1>0. PoolInv /\ Types /\ EncInv /\ DecInv /\ BodyInv /\ OwnInv
  BY DEF IInv
<1>1. /\ UNCHANGED <<opt, script, taken, buf, enc, wire, conn, dec, leaked, stat, faults>>
      /\ delivered \in Seq(Body)
      /\ delivered' = [delivered EXCEPT ![i].st = "closed", ![i].pair = NoPair]
  BY <1>0 DEF Close, setting, encVars, Types
<1>2. PICK p : p = delivered[i].pair
  OBVIOUS
<1>3. Bodied(p) /\ (p # NoPair => p \in DOMAIN pair /\ Lone(p))
  BY <1>0, <1>2 DEF BodyInv, Bodied, OwnInv
<1>4. p # NoPair => ~Pooled(p) /\ enc.pair # p /\ dec.pair # p /\ p \notin leaked
  BY <1>3 DEF Lone
<1>5. PoolInv' /\ DOMAIN pair' = DOMAIN pair
      /\ \A q : q # NoPair => (Pooled(q)' <=> Pooled(q) \/ q = p)
  <2>1. CASE p = NoPair
    BY <1>0, <1>2, <2>1, PoolKept DEF Close
  <2>2. CASE p # NoPair
    BY <1>0, <1>2, <1>3, <1>4, <2>2, DonePair DEF Close
  <2> QED
    BY <2>1, <2>2
<1>6. /\ delivered' \in Seq(Body) /\ BodyInv'
      /\ \A q : q # NoPair => (Bodied(q)' <=> Bodied(q) /\ q # p)
  BY <1>0, <1>1, <1>2, <1>5, BodyGiven
<1>7. OwnInv'
  <2>1. \A q \in DOMAIN pair : q # p => Untouched(q)
    BY <1>0, <1>1, <1>5, <1>6, PairsFromOne DEF Untouched
  <2>2. p \in DOMAIN pair => Lone(p)'
    BY <1>0, <1>1, <1>3, <1>4, <1>5, <1>6, PairsFromOne DEF Lone
  <2> QED
    BY <1>0, <1>1, <1>5, <2>1, <2>2, Moved DEF OwnInv
<1>8. Types'
  BY <1>0, <1>1, <1>6 DEF Types
<1>9. EncInv' /\ DecInv'
  BY <1>0, <1>1, <1>5, EncKept, DecKept
<1> QED
  BY <1>5, <1>6, <1>7, <1>8, <1>9 DEF IInv

\* The end of the connection touches no pair.
LEMMA ConnEndStep ==
    ASSUME IInv, ConnEnd
    PROVE  IInv'
<1>0. PoolInv /\ Types /\ EncInv /\ DecInv /\ BodyInv /\ OwnInv
  BY DEF IInv
<1>1. /\ UNCHANGED poolVars /\ UNCHANGED <<opt, script, taken, buf, enc, dec, delivered, leaked, stat>>
      /\ conn' \in {"eof", "reset"} /\ Fault /\ wire \in Seq(Units) /\ faults \in 0 .. MaxFaults
  BY <1>0 DEF ConnEnd, setting, encVars, decVars, Types
<1>2. PICK k \in 0 .. Len(wire) : wire' = SubSeq(wire, 1, k)
  BY DEF ConnEnd
<1>3. wire' \in Seq(Units)
  BY <1>1, <1>2
<1>4. Types'
  BY <1>0, <1>1, <1>3, FaultsType DEF Types
<1>5. PoolInv' /\ DOMAIN pair' = DOMAIN pair /\ (\A q : Pooled(q)' <=> Pooled(q))
  BY <1>0, <1>1, PoolKept
<1>6. EncInv' /\ DecInv'
  BY <1>0, <1>1, <1>5, EncKept, DecKept
<1>7. BodyInv' /\ OwnInv'
  BY <1>0, <1>1, <1>5, NoneMoved
<1> QED
  BY <1>4, <1>5, <1>6, <1>7 DEF IInv

\* A step of nobody.
LEMMA StutterStep ==
    ASSUME IInv, UNCHANGED vars
    PROVE  IInv'
<1>0. PoolInv /\ Types /\ EncInv /\ DecInv /\ BodyInv /\ OwnInv
  BY DEF IInv
<1>1. /\ UNCHANGED poolVars
      /\ UNCHANGED <<opt, script, taken, buf, enc, wire, conn, dec, delivered, leaked, stat, faults>>
  BY DEF vars, poolVars
<1>2. Types'
  BY <1>0, <1>1 DEF Types
<1>3. PoolInv' /\ DOMAIN pair' = DOMAIN pair /\ (\A q : Pooled(q)' <=> Pooled(q))
  BY <1>0, <1>1, PoolKept
<1>4. EncInv' /\ DecInv' /\ BodyInv' /\ OwnInv'
  BY <1>0, <1>1, <1>3, EncKept, DecKept, NoneMoved
<1> QED
  BY <1>2, <1>3, <1>4 DEF IInv

\* Every step keeps the invariant.
LEMMA NextIInv ==
    ASSUME PassedOnKept, IInv, [Next]_vars
    PROVE  IInv'
<1>1. ASSUME NEW m \in Msgs, EncodeHeaders(m) \/ EncodeHeadersFail(m) PROVE IInv'
  BY <1>1, EncodeHeadersStep, EncodeHeadersFailStep
<1>2. CASE Encoder
  BY <1>2, FlushStep, EncodeBodyStep, EncodeGrowStep, EncodeLoadStep, EncodeLoadConnStep,
     EncodeLoadConnFailStep, EncodeWriteStep, EncodeCopyStep, EncodeCloseStep, EncodeReturnStep DEF Encoder
<1>3. CASE Decoder
  BY <1>3, DecodeStartStep, DecodeHeadStep, DecodeBodyStep, DecodeGrowStep, DecodeLoadStep,
     DecodeLoadFailStep, DecodeLoadedStep, DecodeCopyStep, DecodeFailStep DEF Decoder
<1>4. CASE Application
  BY <1>4, ReadStep, CloseStep DEF Application
<1> QED
  BY <1>1, <1>2, <1>3, <1>4, ConnEndStep, StutterStep DEF Next

-----------------------------------------------------------------------------
(* The theorems.                                                            *)

\* The inductive invariant holds in every reachable state.
LEMMA Inductive ==
    ASSUME PassedOnKept
    PROVE  Spec => []IInv
<1>1. IInv /\ [Next]_vars => IInv'
  BY NextIInv
<1> QED
  BY <1>1, InitIInv, PTL DEF Spec

\* What a hand counts: one if it holds the pair and none otherwise.
LEMMA OneOrNone ==
    ASSUME NEW S, NEW x, S \subseteq {x}
    PROVE  Cardinality(S) = IF x \in S THEN 1 ELSE 0
<1>1. CASE x \in S
  <2>1. S = {x}
    BY <1>1
  <2> QED
    BY <1>1, <2>1, FS_Singleton
<1>2. CASE x \notin S
  <2>1. S = {}
    BY <1>2
  <2> QED
    BY <1>2, <2>1, FS_EmptySet
<1> QED
  BY <1>1, <1>2

\* The hands of a pair, counted.
LEMMA HandsOf ==
    ASSUME IInv, NEW p \in DOMAIN pair
    PROVE  Hands(p) = 1
<1>0. PoolInv /\ Types /\ BodyInv /\ Lone(p) /\ p # NoPair
  BY PairsFromOne DEF IInv, OwnInv
<1> DEFINE A == {i \in DOMAIN unused : unused[i] = p}
           B == {g \in {enc, dec} : g.pair = p}
           C == {i \in DOMAIN delivered : delivered[i].pair = p}
           D == {p} \cap leaked
<1>1. Cardinality(A) = IF Pooled(p) THEN 1 ELSE 0
  <2>1. CASE Pooled(p)
    <3>1. PICK i \in DOMAIN unused : unused[i] = p
      BY <2>1 DEF Pooled
    <3>2. A \subseteq {i} /\ i \in A
      BY <1>0, <3>1 DEF PoolInv
    <3> HIDE DEF A
    <3> QED
      BY <2>1, <3>2, OneOrNone
  <2>2. CASE ~Pooled(p)
    <3>1. A = {}
      BY <2>2 DEF Pooled
    <3> QED
      BY <2>2, <3>1, FS_EmptySet
  <2> QED
    BY <2>1, <2>2
<1>2. Cardinality(C) = IF Bodied(p) THEN 1 ELSE 0
  <2>1. CASE Bodied(p)
    <3>1. PICK i \in DOMAIN delivered : delivered[i].pair = p
      BY <2>1 DEF Bodied
    <3>2. C \subseteq {i} /\ i \in C
      BY <1>0, <3>1 DEF BodyInv
    <3> HIDE DEF C
    <3> QED
      BY <2>1, <3>2, OneOrNone
  <2>2. CASE ~Bodied(p)
    <3>1. C = {}
      BY <2>2 DEF Bodied
    <3> QED
      BY <2>2, <3>1, FS_EmptySet
  <2> QED
    BY <2>1, <2>2
<1>3. Cardinality(B) = IF enc.pair = p \/ dec.pair = p THEN 1 ELSE 0
  <2>1. CASE enc.pair = p
    <3>1. B \subseteq {enc} /\ enc \in B
      BY <1>0, <2>1 DEF Lone
    <3> HIDE DEF B
    <3> QED
      BY <2>1, <3>1, OneOrNone
  <2>2. CASE dec.pair = p
    <3>1. B \subseteq {dec} /\ dec \in B
      BY <1>0, <2>2 DEF Lone
    <3> HIDE DEF B
    <3> QED
      BY <2>2, <3>1, OneOrNone
  <2>3. CASE enc.pair # p /\ dec.pair # p
    <3>1. B = {}
      BY <2>3
    <3> QED
      BY <2>3, <3>1, FS_EmptySet
  <2> QED
    BY <2>1, <2>2, <2>3
<1>4. Cardinality(D) = IF p \in leaked THEN 1 ELSE 0
  <2>1. D \subseteq {p} /\ (p \in D <=> p \in leaked)
    OBVIOUS
  <2> HIDE DEF D
  <2> QED
    BY <2>1, OneOrNone
<1>5. Hands(p) = Cardinality(A) + Cardinality(B) + Cardinality(C) + Cardinality(D)
  BY DEF Hands
<1> HIDE DEF A, B, C, D
<1> QED
  BY <1>0, <1>1, <1>2, <1>3, <1>4, <1>5 DEF Lone

\* No two bodies are ever spliced through the same pipe, and no pair disappears
\* except on the error paths of body.go, where it is counted as leaked: for any
\* number of messages, pairs and faults, whatever is spliced, copied, passed on,
\* read and closed in whatever order.
THEOREM PairsOwned ==
    ASSUME PassedOnKept
    PROVE  Spec => []PairOwnership
<1>1. IInv => PairOwnership
  BY HandsOf DEF PairOwnership
<1> QED
  BY <1>1, Inductive, PTL

\* What one body leaves in a pipe never comes before the next body.
THEOREM PoolEmpty ==
    ASSUME PassedOnKept
    PROVE  Spec => []UnusedIsEmpty
<1>1. IInv => UnusedIsEmpty
  BY DEF IInv, PoolInv
<1> QED
  BY <1>1, Inductive, PTL

-----------------------------------------------------------------------------
(* The count of the pool.                                                   *)

\* usedCount against the pool and the calls of get that gave nothing, and the types of
\* the history.
CountInv ==
    /\ UsedCountExact
    /\ missed \in Nat /\ torn \subseteq Msgs /\ shifted \subseteq Msgs

\* What a step does with the pool: nothing that is counted, get, a get that fails, done.
PoolStep ==
    \/ UNCHANGED <<unused, usedCount, missed>> /\ DOMAIN pair' = DOMAIN pair
    \/ UNCHANGED missed /\ \E p \in Pairs : get(p)
    \/ getFails /\ missed' = missed + 1
    \/ UNCHANGED missed /\ \E p : done(p)

\* Each of them counts right.
LEMMA PoolStepCounts ==
    ASSUME PoolInv, PoolInv', CountInv, PoolStep
    PROVE  UsedCountExact' /\ missed' \in Nat
<1>1. /\ unused \in Seq(Pairs) /\ usedCount \in Int /\ missed \in Nat
      /\ usedCount = (Len(pair) - Len(unused)) + missed
      /\ pair \in Seq(Pipe) /\ pair' \in Seq(Pipe)
  BY DEF PoolInv, CountInv, UsedCountExact
<1>2. Len(pair) \in Nat /\ Len(pair') \in Nat /\ Len(unused) \in Nat
  BY <1>1
<1>3. DOMAIN pair' = DOMAIN pair => Len(pair') = Len(pair)
  BY <1>1
<1>4. CASE UNCHANGED <<unused, usedCount, missed>> /\ DOMAIN pair' = DOMAIN pair
  BY <1>1, <1>2, <1>3, <1>4 DEF UsedCountExact
<1>5. ASSUME UNCHANGED missed, NEW p \in Pairs, get(p)
      PROVE  UsedCountExact' /\ missed' \in Nat
  <2>1. CASE unused # <<>> /\ unused' = Front(unused) /\ UNCHANGED pair
             /\ usedCount' = usedCount + 1
    <3>1. Len(unused') = Len(unused) - 1
      BY <1>1, <2>1, FrontOf
    <3> QED
      BY <1>1, <1>2, <1>5, <2>1, <3>1 DEF UsedCountExact
  <2>2. CASE pair' = Append(pair, NewPair) /\ UNCHANGED unused /\ usedCount' = usedCount + 1
    <3>1. Len(pair') = Len(pair) + 1
      <4>1. NewPair \in Pipe
        BY PoolAssumption DEF NewPair, Pipe
      <4> QED
        BY <1>1, <2>2, <4>1
    <3> QED
      BY <1>1, <1>2, <1>5, <2>2, <3>1 DEF UsedCountExact
  <2> QED
    BY <1>5, <2>1, <2>2 DEF get
<1>6. CASE getFails /\ missed' = missed + 1
  BY <1>1, <1>2, <1>6 DEF getFails, UsedCountExact
<1>7. ASSUME UNCHANGED missed, NEW p, done(p)
      PROVE  UsedCountExact' /\ missed' \in Nat
  <2>1. /\ pair' = [pair EXCEPT ![p].data = <<>>] /\ usedCount' = usedCount - 1
        /\ unused' = Append(unused, p)
    BY <1>7 DEF done, Discarded, CountBack
  <2>2. Len(pair') = Len(pair)
    BY <1>3, <2>1
  <2>3. Len(unused') = Len(unused) + 1
    BY <1>1, <2>1
  <2> QED
    BY <1>1, <1>2, <1>7, <2>1, <2>2, <2>3 DEF UsedCountExact
<1> QED
  BY <1>4, <1>5, <1>6, <1>7 DEF PoolStep

\* Grow, Load and Drain change nothing that is counted.
LEMMA ChangeUncounted ==
    ASSUME UNCHANGED missed,
           \/ UNCHANGED poolVars
           \/ \E p, x : Grow(p, x) \/ Load(p, x) \/ Drain(p, x)
    PROVE  PoolStep
BY DEF PoolStep, Grow, Load, Drain, poolVars

\* The steps of the encoder and the pool.
LEMMA EncoderCounts ==
    ASSUME Encoder
    PROVE  PoolStep
<1>1. CASE EncodeBody
  BY <1>1, ChangeUncounted DEF EncodeBody, NoPairMade, PoolStep
<1>2. CASE EncodeClose
  BY <1>2 DEF EncodeClose, PoolStep, history
<1>3. CASE EncodeLoadConnFail
  BY <1>3, ChangeUncounted DEF EncodeLoadConnFail
<1>4. CASE EncodeGrow
  BY <1>4, ChangeUncounted DEF EncodeGrow, history
<1>5. CASE EncodeLoad
  BY <1>5, ChangeUncounted DEF EncodeLoad, history
<1>6. CASE EncodeLoadConn
  BY <1>6, ChangeUncounted DEF EncodeLoadConn, history
<1>7. CASE EncodeWrite
  BY <1>7, ChangeUncounted DEF EncodeWrite, history
<1>8. CASE EncodeCopy
  BY <1>8, ChangeUncounted DEF EncodeCopy, history
<1>9. CASE Flush \/ EncodeReturn
  BY <1>9, ChangeUncounted DEF Flush, EncodeReturn, history
<1> QED
  BY <1>1, <1>2, <1>3, <1>4, <1>5, <1>6, <1>7, <1>8, <1>9 DEF Encoder

\* A message that is delivered is closed at once or not.
LEMMA DeliverCounts ==
    ASSUME NEW p, NEW data, Deliver(p, data), UNCHANGED missed
    PROVE  PoolStep
<1>1. UNCHANGED poolVars \/ done(p)
  BY DEF Deliver
<1> QED
  BY <1>1, ChangeUncounted DEF PoolStep

\* The steps of the decoder and the pool.
LEMMA DecoderCounts ==
    ASSUME Decoder
    PROVE  PoolStep
<1>1. CASE DecodeBody
  <2>1. CASE Deliver(NoPair, <<>>) /\ UNCHANGED missed
    BY <2>1, DeliverCounts
  <2>2. CASE UNCHANGED missed /\ \E p \in Pairs : get(p)
    BY <2>2 DEF PoolStep
  <2>3. CASE NoPairMade
    BY <2>3 DEF NoPairMade, PoolStep
  <2>4. CASE UNCHANGED <<poolVars, missed>>
    BY <2>4, ChangeUncounted
  <2> QED
    BY <1>1, <2>1, <2>2, <2>3, <2>4 DEF DecodeBody
<1>2. CASE DecodeLoaded
  BY <1>2, DeliverCounts DEF DecodeLoaded, history
<1>3. CASE DecodeCopy
  BY <1>3, DeliverCounts, ChangeUncounted DEF DecodeCopy, history
<1>4. CASE DecodeGrow
  BY <1>4, ChangeUncounted DEF DecodeGrow, history
<1>5. CASE DecodeLoad
  BY <1>5, ChangeUncounted DEF DecodeLoad, history
<1>6. CASE DecodeStart \/ DecodeHead
  BY <1>6, ChangeUncounted DEF DecodeStart, DecodeHead, history
<1>7. CASE DecodeLoadFail \/ DecodeFail
  BY <1>7, ChangeUncounted DEF DecodeLoadFail, DecodeFail, history
<1> QED
  BY <1>1, <1>2, <1>3, <1>4, <1>5, <1>6, <1>7 DEF Decoder

\* The other steps and the pool.
LEMMA NextCounts ==
    ASSUME [Next]_vars
    PROVE  PoolStep
<1>1. ASSUME NEW m, EncodeHeaders(m) \/ EncodeHeadersFail(m) PROVE PoolStep
  BY <1>1, ChangeUncounted DEF EncodeHeaders, EncodeHeadersFail, history
<1>2. ASSUME NEW i, Read(i) PROVE PoolStep
  BY <1>2, ChangeUncounted DEF Read, history
<1>3. ASSUME NEW i, Close(i) PROVE PoolStep
  BY <1>3, ChangeUncounted DEF Close, PoolStep, history
<1>4. CASE ConnEnd
  BY <1>4, ChangeUncounted DEF ConnEnd, history
<1>5. CASE UNCHANGED vars
  BY <1>5, ChangeUncounted DEF vars, poolVars
<1> QED
  BY <1>1, <1>2, <1>3, <1>4, <1>5, EncoderCounts, DecoderCounts DEF Next, Application

\* The history has its types.
LEMMA HistoryTypes ==
    ASSUME IInv, CountInv, [Next]_vars
    PROVE  torn' \subseteq Msgs /\ shifted' \subseteq Msgs
<1>1. torn \subseteq Msgs /\ shifted \subseteq Msgs
  BY DEF CountInv
<1>2. CASE UNCHANGED <<torn, shifted>>
  BY <1>1, <1>2
<1>3. CASE EncodeLoadConnFail
  <2>1. Current \in Msgs
    BY <1>3, CurrentType DEF IInv, EncInv, Types, EncodeLoadConnFail
  <2> QED
    BY <1>1, <1>3, <2>1 DEF EncodeLoadConnFail
<1>4. CASE DecodeLoadFail
  <2>1. dec.m \in Msgs
    BY <1>4 DEF IInv, DecInv, DecodeLoadFail
  <2> QED
    BY <1>1, <1>4, <2>1 DEF DecodeLoadFail
<1>5. CASE Encoder
  BY <1>2, <1>3, <1>5 DEF Encoder, Flush, EncodeBody, EncodeGrow, EncodeLoad, EncodeLoadConn,
     EncodeWrite, EncodeCopy, EncodeClose, EncodeReturn, history
<1>6. CASE Decoder
  BY <1>2, <1>4, <1>6 DEF Decoder, DecodeStart, DecodeHead, DecodeBody, DecodeGrow, DecodeLoad,
     DecodeLoaded, DecodeCopy, DecodeFail, history
<1>7. CASE Application \/ ConnEnd \/ UNCHANGED vars
  BY <1>2, <1>7 DEF Application, Read, Close, ConnEnd, vars, history
<1>8. CASE \E m \in Msgs : EncodeHeaders(m) \/ EncodeHeadersFail(m)
  BY <1>2, <1>8 DEF EncodeHeaders, EncodeHeadersFail, history
<1> QED
  BY <1>5, <1>6, <1>7, <1>8 DEF Next

\* The count is right in every reachable state.
LEMMA Counted ==
    ASSUME PassedOnKept
    PROVE  Spec => []CountInv
<1>1. Init => CountInv
  BY DEF Init, PoolInit, CountInv, UsedCountExact
<1>2. IInv /\ IInv' /\ CountInv /\ [Next]_vars => CountInv'
  <2> SUFFICES ASSUME IInv, IInv', CountInv, [Next]_vars PROVE CountInv'
    OBVIOUS
  <2>1. UsedCountExact' /\ missed' \in Nat
    BY NextCounts, PoolStepCounts DEF IInv
  <2> QED
    BY <2>1, HistoryTypes DEF CountInv
<1> QED
  BY <1>1, <1>2, Inductive, PTL DEF Spec

\* usedCount is the number of pairs out of the pool and of the calls of get that made
\* no pair.
THEOREM PoolCount ==
    ASSUME PassedOnKept
    PROVE  Spec => []UsedCountExact
<1>1. CountInv => UsedCountExact
  BY DEF CountInv
<1> QED
  BY <1>1, Counted, PTL

-----------------------------------------------------------------------------
(* Capacity: a pipe that Grow prepared has room for all that is loaded.     *)

\* The memory behind an IsBuffer is no larger than the pipe that Grow makes for a body
\* of its Size.  PipeBuffer writes all of Iovec and looks at no count, so this is up to the
\* caller; it holds whenever Size is at least half of the memory.
BuffersFit == \A m \in Msgs : Kind[m] = "buffer" => SrcLen[m] <= alignSize(Size[m]) * 2

HoldFit == \A p \in DOMAIN pair : Len(pair[p].data) <= pair[p].size

\* The pipe that the encoder grows is empty, and then has two aligned sizes of room of
\* which it has used what was loaded.
EncFit ==
    /\ enc.pc \in {"body", "grow"} => enc.pos = 0
    /\ enc.pc = "grow" => pair[enc.pair].data = <<>>
    /\ enc.pc = "load" =>
          /\ pair[enc.pair].size >= alignSize(Size[Current]) * 2
          /\ Len(pair[enc.pair].data) = enc.pos /\ enc.pos <= Size[Current]
          /\ Kind[Current] # "conn" => enc.pos = 0

\* The same of the decoder.
DecFit ==
    /\ dec.pc \in {"head", "grow"} => dec.n = 0
    /\ dec.pc = "grow" => pair[dec.pair].data = <<>>
    /\ dec.pc = "load" =>
          /\ pair[dec.pair].size >= alignSize(Size[dec.m]) * 2
          /\ Len(pair[dec.pair].data) = dec.n /\ dec.n <= Size[dec.m]

FitInv == HoldFit /\ EncFit /\ DecFit

\* Only pair p changes, and it is not filled beyond its capacity.
LEMMA HoldFitKept ==
    ASSUME HoldFit, NEW p, OthersKept(p),
           \A q \in DOMAIN pair' : q = p \/ q \in DOMAIN pair,
           p \in DOMAIN pair' => Len(pair'[p].data) <= pair'[p].size
    PROVE  HoldFit'
<1> SUFFICES ASSUME NEW q \in DOMAIN pair' PROVE Len(pair'[q].data) <= pair'[q].size
  BY DEF HoldFit
<1> QED
  BY DEF HoldFit, OthersKept

\* The encoder is where it was, and pair p is not its own.
LEMMA EncFitKept ==
    ASSUME EncInv, EncFit, UNCHANGED <<enc, taken>>, NEW p, OthersKept(p), enc.pair # p
    PROVE  EncFit'
<1>1. enc.pc \in {"grow", "load"} => pair'[enc.pair] = pair[enc.pair]
  BY DEF EncInv, OthersKept
<1> QED
  BY <1>1 DEF EncFit, Current

\* The decoder is where it was, and pair p is not its own.
LEMMA DecFitKept ==
    ASSUME DecInv, DecFit, UNCHANGED dec, NEW p, OthersKept(p), dec.pair # p
    PROVE  DecFit'
<1>1. dec.pc \in {"grow", "load"} => pair'[dec.pair] = pair[dec.pair]
  BY DEF DecInv, OthersKept
<1> QED
  BY <1>1 DEF DecFit

\* No pair changes, and the encoder prepares none.
LEMMA EncoderRests ==
    ASSUME HoldFit, DecFit, UNCHANGED <<pair, dec>>,
           enc'.pc \notin {"body", "grow", "load"}
    PROVE  FitInv'
BY DEF FitInv, HoldFit, EncFit, DecFit

\* No pair changes, and the decoder prepares none.
LEMMA DecoderRests ==
    ASSUME HoldFit, EncFit, UNCHANGED <<pair, enc, taken>>,
           dec'.pc \notin {"head", "grow", "load"}
    PROVE  FitInv'
BY DEF FitInv, HoldFit, EncFit, DecFit, Current

\* A pair that is made or taken from the pool is empty.
LEMMA GetFits ==
    ASSUME PoolInv, HoldFit, NEW p \in Pairs, get(p)
    PROVE  HoldFit'
<1>1. /\ PoolInv' /\ p \in DOMAIN pair' /\ pair'[p].data = <<>> /\ OthersKept(p)
      /\ \A q \in DOMAIN pair' : q = p \/ q \in DOMAIN pair
  BY GetPair
<1>2. pair'[p].size \in Nat
  <2>1. pair' \in Seq(Pipe) /\ p \in DOMAIN pair'
    BY <1>1 DEF PoolInv
  <2>2. PICK y \in Pipe : y = pair'[p]
    BY <2>1
  <2> QED
    BY <2>2 DEF Pipe
<1> QED
  BY <1>1, <1>2, HoldFitKept

\* A pair that is returned is emptied.
LEMMA DoneFits ==
    ASSUME PoolInv, HoldFit, NEW p \in DOMAIN pair, ~Pooled(p), done(p)
    PROVE  HoldFit' /\ OthersKept(p)
<1>1. /\ PoolInv' /\ DOMAIN pair' = DOMAIN pair /\ OthersKept(p)
      /\ \A q : Pooled(q)' <=> Pooled(q) \/ q = p
  BY DonePair
<1>2. pair'[p].data = <<>>
  <2>1. PICK i \in DOMAIN unused' : unused'[i] = p
    BY <1>1 DEF Pooled
  <2> QED
    BY <1>1, <2>1 DEF PoolInv, UnusedIsEmpty
<1>3. pair'[p].size \in Nat
  <2>1. pair' \in Seq(Pipe) /\ p \in DOMAIN pair'
    BY <1>1 DEF PoolInv
  <2>2. PICK y \in Pipe : y = pair'[p]
    BY <2>1
  <2> QED
    BY <2>2 DEF Pipe
<1> QED
  BY <1>1, <1>2, <1>3, HoldFitKept

\* One pair is replaced.
LEMMA ChangeFits ==
    ASSUME PoolInv, HoldFit, NEW p \in DOMAIN pair, NEW x \in Pipe,
           pair' = [pair EXCEPT ![p] = x], Len(x.data) <= x.size
    PROVE  HoldFit' /\ OthersKept(p) /\ pair'[p] = x
<1>1. pair \in Seq(Pipe)
  BY DEF PoolInv
<1>2. DOMAIN pair' = DOMAIN pair /\ pair'[p] = x /\ Len(pair') = Len(pair)
      /\ \A q \in DOMAIN pair : q # p => pair'[q] = pair[q]
  BY <1>1, Updated
<1>3. OthersKept(p)
  BY <1>1, <1>2 DEF OthersKept
<1> QED
  BY <1>2, <1>3, HoldFitKept

\* Headers are encoded, or fail to be, and are flushed without a pair.
LEMMA HeadersFit ==
    ASSUME IInv, FitInv, (\E m \in Msgs : EncodeHeaders(m) \/ EncodeHeadersFail(m)) \/ Flush
    PROVE  FitInv'
<1>0. HoldFit /\ EncFit /\ DecFit
  BY DEF FitInv
<1>1. ASSUME NEW m \in Msgs, EncodeHeaders(m) PROVE FitInv'
  <2>1. UNCHANGED <<pair, dec>> /\ enc'.pos = 0 /\ enc'.pc \in {"body", "idle"}
    BY <1>1 DEF EncodeHeaders, Given, Idle, poolVars
  <2> QED
    BY <1>0, <2>1 DEF FitInv, HoldFit, EncFit, DecFit
<1>2. ASSUME NEW m \in Msgs, EncodeHeadersFail(m) PROVE FitInv'
  <2>1. UNCHANGED <<pair, dec>> /\ enc'.pc = "dead"
    BY <1>2 DEF EncodeHeadersFail, Idle, poolVars
  <2> QED
    BY <1>0, <2>1, EncoderRests
<1>3. CASE Flush
  <2>1. UNCHANGED <<pair, dec>> /\ enc.pc = "idle" /\ enc'.pc \in {"idle", "dead"}
    BY <1>3 DEF Flush, Idle, poolVars, decVars
  <2> QED
    BY <1>0, <2>1, EncoderRests
<1> QED
  BY <1>1, <1>2, <1>3

\* The encoder gets an empty pair, or none.
LEMMA EncodeBodyFits ==
    ASSUME IInv, FitInv, EncodeBody
    PROVE  FitInv'
<1>0. /\ HoldFit /\ EncFit /\ DecFit
      /\ PoolInv /\ Types /\ EncInv /\ DecInv /\ OwnInv
  BY DEF FitInv, IInv
<1>1. UNCHANGED dec /\ enc.pos = 0 /\ enc \in EncState
  BY <1>0 DEF EncodeBody, EncoderOnly, decVars, EncFit, Types
<1>2. CASE UNCHANGED pair /\ enc'.pc \in {"copy", "write"}
  BY <1>0, <1>1, <1>2, EncoderRests
<1>3. ASSUME NEW p \in Pairs, get(p), enc' = [enc EXCEPT !.pc = "grow", !.pair = p]
      PROVE  FitInv'
  <2>1. /\ p \in DOMAIN pair' /\ pair'[p].data = <<>> /\ OthersKept(p)
        /\ p \in DOMAIN pair => Pooled(p)
    BY <1>0, <1>3, GetPair
  <2>2. p # NoPair
    BY <1>0, <1>3, PoolAssumption DEF Pairs, NoPair
  <2>3. dec.pair # p
    BY <1>0, <2>1, <2>2 DEF OwnInv, Lone, DecInv
  <2>4. enc'.pc = "grow" /\ enc'.pair = p /\ enc'.pos = 0
    BY <1>1, <1>3 DEF EncState
  <2> QED
    BY <1>0, <1>1, <1>3, <2>1, <2>3, <2>4, GetFits, DecFitKept DEF FitInv, EncFit
<1>4. CASE enc' = [enc EXCEPT !.pc = "copy"] /\ UNCHANGED poolVars
  BY <1>1, <1>2, <1>4 DEF EncState, poolVars
<1>5. CASE enc' = [enc EXCEPT !.pc = "write"] /\ UNCHANGED poolVars
  BY <1>1, <1>2, <1>5 DEF EncState, poolVars
<1>6. CASE enc' = [enc EXCEPT !.pc = "copy"] /\ getFails
  BY <1>1, <1>2, <1>6 DEF EncState, getFails
<1> QED
  BY <1>3, <1>4, <1>5, <1>6 DEF EncodeBody, NoPairMade

\* The encoder's own pair is replaced by one that is not too full: the decoder's is not it.
LEMMA EncoderFills ==
    ASSUME IInv, FitInv, UNCHANGED dec, enc.pair \in DOMAIN pair, NEW x \in Pipe,
           pair' = [pair EXCEPT ![enc.pair] = x], Len(x.data) <= x.size
    PROVE  HoldFit' /\ DecFit' /\ pair'[enc.pair] = x
<1>0. HoldFit /\ DecFit /\ PoolInv /\ DecInv /\ OwnInv
  BY DEF FitInv, IInv
<1>1. dec.pair # enc.pair
  BY <1>0 DEF OwnInv, Lone
<1> QED
  BY <1>0, <1>1, ChangeFits, DecFitKept

\* After Grow there is room for the whole body.
LEMMA EncodeGrowFits ==
    ASSUME IInv, FitInv, EncodeGrow
    PROVE  FitInv'
<1>0. /\ HoldFit /\ EncFit /\ DecFit
      /\ PoolInv /\ Types /\ EncInv /\ DecInv /\ OwnInv
  BY DEF FitInv, IInv
<1>1. /\ UNCHANGED <<dec, taken>> /\ enc.pc = "grow" /\ enc.pos = 0 /\ enc \in EncState
      /\ enc.pair \in DOMAIN pair /\ pair[enc.pair].data = <<>> /\ taken # <<>>
      /\ taken \in Seq(Msgs) /\ Current' = Current
  BY <1>0 DEF EncodeGrow, EncoderOnly, decVars, EncFit, EncInv, Types, Current
<1>2. Size[Current] \in Nat /\ alignSize(Size[Current]) * 2 \in Nat
  <2>1. Size[Current] \in Nat
    BY <1>1, CurrentType
  <2>2. alignSize(Size[Current]) \in Nat
    BY <2>1, AlignType
  <2> QED
    BY <2>1, <2>2
<1>3. CASE Grow(enc.pair, alignSize(Size[Current]) * 2) /\ enc' = [enc EXCEPT !.pc = "load"]
  <2>1. PICK x \in Pipe : /\ x.size >= alignSize(Size[Current]) * 2
                          /\ x.data = pair[enc.pair].data
                          /\ pair' = [pair EXCEPT ![enc.pair] = x]
    BY <1>0, <1>1, <1>2, <1>3, GrowIs
  <2>2. Len(x.data) = 0 /\ Len(x.data) <= x.size
    BY <1>1, <2>1 DEF Pipe
  <2>3. HoldFit' /\ DecFit' /\ pair'[enc.pair] = x
    BY <1>1, <2>1, <2>2, EncoderFills
  <2>4. enc'.pc = "load" /\ enc'.pair = enc.pair /\ enc'.pos = 0
    BY <1>1, <1>3 DEF EncState
  <2> QED
    BY <1>1, <1>2, <2>1, <2>2, <2>3, <2>4 DEF FitInv, EncFit
<1>4. CASE Abandon /\ UNCHANGED poolVars
  <2>1. enc'.pc = "copy" /\ UNCHANGED pair
    BY <1>1, <1>4 DEF Abandon, EncState, poolVars
  <2> QED
    BY <1>0, <1>1, <2>1, EncoderRests
<1> QED
  BY <1>3, <1>4 DEF EncodeGrow

\* A file or memory fits into the pipe that was made for it.
LEMMA EncodeLoadFits ==
    ASSUME BuffersFit, IInv, FitInv, EncodeLoad
    PROVE  FitInv'
<1>0. /\ HoldFit /\ EncFit /\ DecFit
      /\ PoolInv /\ Types /\ EncInv /\ DecInv /\ OwnInv
  BY DEF FitInv, IInv
<1>1. /\ UNCHANGED <<dec, taken>> /\ enc.pc = "load" /\ enc.pos = 0 /\ enc \in EncState
      /\ Kind[Current] \in {"file", "buffer"}
      /\ enc.pair \in DOMAIN pair /\ Len(pair[enc.pair].data) = 0 /\ taken # <<>>
      /\ pair[enc.pair].size >= alignSize(Size[Current]) * 2
      /\ taken \in Seq(Msgs) /\ pair \in Seq(Pipe)
  BY <1>0 DEF EncodeLoad, EncoderOnly, decVars, EncFit, EncInv, Types, PoolInv
<1>2. /\ Current \in Msgs /\ Size[Current] \in Nat /\ alignSize(Size[Current]) \in Nat
      /\ alignSize(Size[Current]) > Size[Current]
  BY <1>1, CurrentType, AlignType
<1> DEFINE part == SubSeq(Source(Current), Offset[Current] + 1,
                          Min({Offset[Current] + Size[Current], SrcLen[Current]}))
           all == IF Kind[Current] = "buffer" THEN Source(Current) ELSE part
<1>3. all \in Seq(Units) /\ Len(all) <= alignSize(Size[Current]) * 2 /\ Len(all) \in Nat
  <2>1. part \in Seq(Units) /\ Len(part) <= Size[Current]
    BY <1>2, FilePart
  <2>2. Source(Current) \in Seq(Units) /\ Len(Source(Current)) = SrcLen[Current]
    BY <1>2, SourceType
  <2>3. Kind[Current] = "buffer" => SrcLen[Current] <= alignSize(Size[Current]) * 2
    BY <1>2 DEF BuffersFit
  <2> HIDE DEF part
  <2>4. CASE Kind[Current] = "buffer"
    BY <2>2, <2>3, <2>4
  <2>5. CASE Kind[Current] # "buffer"
    BY <1>2, <2>1, <2>5
  <2> QED
    BY <2>4, <2>5
<1> HIDE DEF all
<1>4. CASE Load(enc.pair, all) /\ enc' = [enc EXCEPT !.pc = "write"]
  <2>1. PICK x \in Pipe : /\ x.size = pair[enc.pair].size /\ x.data = pair[enc.pair].data \o all
                          /\ pair' = [pair EXCEPT ![enc.pair] = x]
    BY <1>0, <1>1, <1>3, <1>4, LoadIs
  <2>2. pair[enc.pair].data \in Seq(Units) /\ pair[enc.pair].size \in Nat
    BY <1>1, PairWith
  <2>3. Len(x.data) <= x.size
    <3>1. Len(x.data) = Len(pair[enc.pair].data) + Len(all)
      BY <1>3, <2>1, <2>2
    <3>2. Len(x.data) = Len(all)
      BY <1>1, <1>3, <3>1
    <3> QED
      BY <1>1, <1>2, <1>3, <2>1, <2>2, <3>2, SMTT(30)
  <2>4. HoldFit' /\ DecFit'
    BY <1>1, <2>1, <2>3, EncoderFills
  <2>5. enc'.pc = "write"
    BY <1>1, <1>4 DEF EncState
  <2> QED
    BY <2>4, <2>5 DEF FitInv, EncFit
<1>5. CASE Abandon /\ UNCHANGED poolVars
  <2>1. enc'.pc = "copy" /\ UNCHANGED pair
    BY <1>1, <1>5 DEF Abandon, EncState, poolVars
  <2> QED
    BY <1>0, <1>1, <2>1, EncoderRests
<1> QED
  BY <1>4, <1>5 DEF EncodeLoad, all

\* The bytes of a connection are loaded one by one, no more than Size of them.
LEMMA EncodeLoadConnFits ==
    ASSUME IInv, FitInv, EncodeLoadConn
    PROVE  FitInv'
<1>0. /\ HoldFit /\ EncFit /\ DecFit
      /\ PoolInv /\ Types /\ EncInv /\ DecInv /\ OwnInv
  BY DEF FitInv, IInv
<1>1. /\ UNCHANGED <<dec, taken>> /\ enc.pc = "load" /\ enc \in EncState
      /\ Kind[Current] = "conn" /\ enc.pair \in DOMAIN pair /\ taken # <<>>
      /\ Len(pair[enc.pair].data) = enc.pos
      /\ pair[enc.pair].size >= alignSize(Size[Current]) * 2
      /\ taken \in Seq(Msgs) /\ pair \in Seq(Pipe) /\ Current' = Current
  BY <1>0 DEF EncodeLoadConn, EncoderOnly, decVars, EncFit, EncInv, Types, PoolInv, Current
<1>2. Current \in Msgs /\ Size[Current] \in Nat /\ SrcLen[Current] \in Nat /\ enc.pos \in Nat
  BY <1>1, CurrentType DEF EncState
<1>3. alignSize(Size[Current]) \in Nat /\ alignSize(Size[Current]) > Size[Current]
  BY <1>2, AlignType
<1>4. CASE /\ enc.pos < Size[Current] /\ enc.pos < SrcLen[Current]
           /\ Load(enc.pair, <<Source(Current)[enc.pos + 1]>>)
           /\ enc' = [enc EXCEPT !.pos = @ + 1]
  <2>1. PICK b \in Seq(Units) : b = <<Source(Current)[enc.pos + 1]>> /\ Len(b) = 1
    <3>1. PICK u \in Units : u = Source(Current)[enc.pos + 1]
      <4>1. enc.pos + 1 \in 1 .. Len(Source(Current)) /\ Source(Current) \in Seq(Units)
        BY <1>2, <1>4, SourceType
      <4> QED
        BY <4>1
    <3>2. <<u>> \in Seq(Units) /\ Len(<<u>>) = 1
      OBVIOUS
    <3> QED
      BY <3>1, <3>2
  <2>2. PICK x \in Pipe : /\ x.size = pair[enc.pair].size /\ x.data = pair[enc.pair].data \o b
                          /\ pair' = [pair EXCEPT ![enc.pair] = x]
    BY <1>0, <1>1, <1>4, <2>1, LoadIs
  <2>3. pair[enc.pair].data \in Seq(Units) /\ pair[enc.pair].size \in Nat
    BY <1>1, PairWith
  <2>4. Len(x.data) = enc.pos + 1
    BY <1>1, <1>2, <2>1, <2>2, <2>3
  <2>5. Len(x.data) <= x.size
    <3>1. enc.pos + 1 <= alignSize(Size[Current]) * 2
      BY <1>2, <1>3, <1>4
    <3>2. /\ x.size >= alignSize(Size[Current]) * 2 /\ x.size \in Nat
          /\ alignSize(Size[Current]) * 2 \in Nat
      BY <1>1, <1>3, <2>2, <2>3
    <3> QED
      BY <1>2, <2>4, <3>1, <3>2
  <2>6. HoldFit' /\ DecFit' /\ pair'[enc.pair] = x
    BY <1>1, <2>2, <2>5, EncoderFills
  <2>7. enc'.pc = "load" /\ enc'.pair = enc.pair /\ enc'.pos = enc.pos + 1
    BY <1>1, <1>4 DEF EncState
  <2>8. /\ pair'[enc'.pair].size >= alignSize(Size[Current]) * 2
        /\ Len(pair'[enc'.pair].data) = enc'.pos
    BY <1>1, <2>2, <2>4, <2>6, <2>7
  <2>9. enc'.pos <= Size[Current]
    BY <1>2, <1>4, <2>7
  <2>10. EncFit'
    BY <1>1, <2>7, <2>8, <2>9 DEF EncFit
  <2> QED
    BY <2>6, <2>10 DEF FitInv
<1>5. CASE enc' = [enc EXCEPT !.pc = "write"] /\ UNCHANGED poolVars
  <2>1. enc'.pc = "write" /\ UNCHANGED pair
    BY <1>1, <1>5 DEF EncState, poolVars
  <2> QED
    BY <1>0, <1>1, <2>1, EncoderRests
<1> QED
  BY <1>4, <1>5 DEF EncodeLoadConn

\* A load that fails fills no pipe.
LEMMA LoadFailFits ==
    ASSUME IInv, FitInv, EncodeLoadConnFail \/ DecodeLoadFail
    PROVE  FitInv'
<1>0. HoldFit /\ EncFit /\ DecFit /\ PoolInv /\ Types
  BY DEF FitInv, IInv
<1>1. enc \in EncState /\ dec \in DecState
  BY <1>0 DEF Types
<1>2. CASE EncodeLoadConnFail
  <2>1. UNCHANGED <<dec, pair>> /\ enc'.pc \in {"copy", "close"}
    BY <1>1, <1>2 DEF EncodeLoadConnFail, Abandon, EncState, EncoderOnly, decVars, poolVars
  <2> QED
    BY <1>0, <2>1, EncoderRests
<1>3. CASE DecodeLoadFail
  <2>1. UNCHANGED <<enc, taken, pair>> /\ dec'.pc = "copy"
    BY <1>1, <1>3 DEF DecodeLoadFail, DecState, DecoderOnly, encVars, poolVars
  <2> QED
    BY <1>0, <2>1, DecoderRests
<1> QED
  BY <1>2, <1>3

\* Bytes leave the encoder's own pair, or none do; then the encoder prepares no pair.
LEMMA EncoderDrains ==
    ASSUME IInv, FitInv, UNCHANGED dec, enc'.pc \notin {"body", "grow", "load"},
           \/ UNCHANGED pair
           \/ /\ enc.pair \in DOMAIN pair /\ Len(pair[enc.pair].data) >= 1
              /\ Drain(enc.pair, 1)
    PROVE  FitInv'
<1>0. HoldFit /\ EncFit /\ DecFit /\ PoolInv
  BY DEF FitInv, IInv
<1>1. CASE UNCHANGED pair
  BY <1>0, <1>1, EncoderRests
<1>2. CASE /\ enc.pair \in DOMAIN pair /\ Len(pair[enc.pair].data) >= 1
           /\ Drain(enc.pair, 1)
  <2>1. PICK x \in Pipe : /\ x.size = pair[enc.pair].size
                          /\ Len(x.data) = Len(pair[enc.pair].data) - 1
                          /\ pair' = [pair EXCEPT ![enc.pair] = x]
    <3>1. PICK s \in Seq(Units) : s = pair[enc.pair].data
      BY <1>0, <1>2, PairWith DEF PoolInv
    <3>2. 1 \in Nat /\ 1 <= Len(pair[enc.pair].data)
      BY <1>2, <3>1
    <3> QED
      BY <1>0, <1>2, <3>2, DrainIs
  <2>2. pair[enc.pair].data \in Seq(Units) /\ pair[enc.pair].size \in Nat
    BY <1>0, <1>2, PairWith DEF PoolInv
  <2>3. Len(x.data) <= x.size
    BY <1>0, <1>2, <2>1, <2>2 DEF HoldFit
  <2>4. HoldFit' /\ DecFit'
    BY <1>2, <2>1, <2>3, EncoderFills
  <2> QED
    BY <2>4 DEF FitInv, EncFit
<1> QED
  BY <1>1, <1>2

\* The splice to the connection and the copy only empty pipes.
LEMMA EncodeSendFits ==
    ASSUME IInv, FitInv, EncodeWrite \/ EncodeCopy
    PROVE  FitInv'
<1>0. PoolInv /\ Types /\ EncInv
  BY DEF IInv
<1>1. /\ UNCHANGED dec /\ enc \in EncState /\ pair \in Seq(Pipe)
      /\ enc.pc \in {"write", "copy"}
      /\ (enc.pc = "write" \/ Kind[Current] = "pipe") => enc.pair \in DOMAIN pair
  BY <1>0 DEF EncodeWrite, EncodeCopy, EncoderOnly, decVars, EncInv, Types, PoolInv
<1>2. enc'.pc \in {"write", "copy", "close"}
  BY <1>1 DEF EncodeWrite, EncodeCopy, EncState
<1>3. \/ UNCHANGED pair
      \/ /\ enc.pair \in DOMAIN pair /\ pair[enc.pair].data # <<>>
         /\ Drain(enc.pair, 1)
  BY <1>1 DEF EncodeWrite, EncodeCopy, Copied, poolVars
<1>4. ASSUME enc.pair \in DOMAIN pair, pair[enc.pair].data # <<>>
      PROVE  Len(pair[enc.pair].data) >= 1
  <2>1. PICK s \in Seq(Units) : s = pair[enc.pair].data
    BY <1>1, <1>4, PairWith
  <2> QED
    BY <1>4, <2>1
<1> QED
  BY <1>1, <1>2, <1>3, <1>4, EncoderDrains

\* A pair that is closed is emptied, and what is lost is not filled any more.
LEMMA EncodeEndFits ==
    ASSUME IInv, FitInv, EncodeClose \/ EncodeReturn
    PROVE  FitInv'
<1>0. /\ HoldFit /\ EncFit /\ DecFit
      /\ PoolInv /\ Types /\ EncInv /\ DecInv /\ OwnInv
  BY DEF FitInv, IInv
<1>1. CASE EncodeClose
  <2>1. /\ enc.pair \in DOMAIN pair /\ done(enc.pair) /\ UNCHANGED dec
        /\ enc \in EncState /\ enc.pc = "close"
    BY <1>0, <1>1 DEF EncodeClose, EncInv, EncoderOnly, decVars, Types
  <2>2. enc'.pc = "close"
    BY <1>1, <2>1 DEF EncodeClose, EncState
  <2>3. ~Pooled(enc.pair) /\ dec.pair # enc.pair
    BY <1>0, <2>1 DEF OwnInv, Lone
  <2>4. HoldFit' /\ OthersKept(enc.pair)
    BY <1>0, <2>1, <2>3, DoneFits
  <2> QED
    BY <1>0, <2>1, <2>2, <2>3, <2>4, DecFitKept DEF FitInv, EncFit
<1>2. CASE EncodeReturn
  <2>0. UNCHANGED <<pair, dec>> /\ (enc' = Idle \/ enc' = [Idle EXCEPT !.pc = "dead", !.ok = FALSE])
    BY <1>2 DEF EncodeReturn, poolVars, decVars
  <2>1. CASE enc' = Idle
    <3>1. enc'.pc = "idle"
      BY <2>1 DEF Idle
    <3> QED
      BY <1>0, <2>0, <3>1, EncoderRests
  <2>2. CASE enc' = [Idle EXCEPT !.pc = "dead", !.ok = FALSE]
    <3>1. enc'.pc = "dead"
      BY <2>2 DEF Idle
    <3> QED
      BY <1>0, <2>0, <3>1, EncoderRests
  <2> QED
    BY <2>0, <2>1, <2>2
<1> QED
  BY <1>1, <1>2

\* A start line, headers and a failure touch no pair.
LEMMA DecodeHeadFits ==
    ASSUME IInv, FitInv, DecodeStart \/ DecodeHead \/ DecodeFail
    PROVE  FitInv'
<1>0. HoldFit /\ EncFit /\ DecFit /\ Types
  BY DEF FitInv, IInv
<1>1. UNCHANGED <<pair, enc, taken>> /\ dec \in DecState
  BY <1>0 DEF DecodeStart, DecodeHead, DecodeFail, DecoderOnly, encVars, poolVars, Types
<1>2. CASE dec'.pc \in {"head", "garbled", "done"} /\ dec'.n = 0
  BY <1>0, <1>1, <1>2 DEF FitInv, HoldFit, EncFit, DecFit, Current
<1>3. CASE DecodeStart
  BY <1>2, <1>3 DEF DecodeStart, Waiting
<1>4. CASE DecodeHead
  <2>1. dec.pc = "head" /\ dec.n = 0
    BY <1>0, <1>4 DEF DecodeHead, DecFit
  <2>2. CASE dec' = [dec EXCEPT !.todo = Tail(@)]
    <3>1. dec'.pc = "head" /\ dec'.n = 0
      BY <1>1, <2>1, <2>2 DEF DecState
    <3> QED
      BY <1>2, <3>1
  <2>3. CASE dec' = [Waiting EXCEPT !.pc = "garbled"]
    BY <1>2, <2>3 DEF Waiting
  <2> QED
    BY <1>4, <2>2, <2>3 DEF DecodeHead
<1>5. CASE DecodeFail
  BY <1>2, <1>5 DEF DecodeFail, Waiting
<1> QED
  BY <1>3, <1>4, <1>5

\* A delivered body keeps its pair; a body that is closed at once has its pair emptied.
LEMMA DeliverFits ==
    ASSUME IInv, FitInv, NEW p, p = dec.pair, NEW data, Deliver(p, data), DecoderOnly
    PROVE  FitInv'
<1>0. /\ HoldFit /\ EncFit /\ DecFit
      /\ PoolInv /\ EncInv /\ DecInv /\ OwnInv
  BY DEF FitInv, IInv
<1>1. dec'.pc = "start" /\ UNCHANGED <<enc, taken>>
  BY DEF Deliver, Waiting, DecoderOnly, encVars
<1>2. CASE UNCHANGED pair
  BY <1>0, <1>1, <1>2, DecoderRests
<1>3. CASE p # NoPair /\ done(p)
  <2>1. p \in DOMAIN pair /\ ~Pooled(p) /\ enc.pair # p
    BY <1>0, <1>3 DEF DecInv, OwnInv, Lone
  <2>2. HoldFit' /\ OthersKept(p)
    BY <1>0, <1>3, <2>1, DoneFits
  <2>3. EncFit'
    BY <1>0, <1>1, <2>1, <2>2, EncFitKept
  <2> QED
    BY <1>1, <2>2, <2>3 DEF FitInv, DecFit
<1> QED
  BY <1>2, <1>3 DEF Deliver, poolVars

\* The decoder gets an empty pair, or none.
LEMMA DecodeBodyFits ==
    ASSUME IInv, FitInv, DecodeBody
    PROVE  FitInv'
<1>0. /\ HoldFit /\ EncFit /\ DecFit
      /\ PoolInv /\ Types /\ EncInv /\ DecInv /\ OwnInv
  BY DEF FitInv, IInv
<1>1. /\ UNCHANGED <<enc, taken>> /\ dec.n = 0 /\ dec \in DecState /\ dec.pair = NoPair
      /\ DecoderOnly
  BY <1>0 DEF DecodeBody, DecoderOnly, encVars, DecFit, DecInv, Types
<1>2. CASE Deliver(NoPair, <<>>)
  BY <1>1, <1>2, DeliverFits
<1>3. ASSUME NEW p \in Pairs, get(p), dec' = [dec EXCEPT !.pc = "grow", !.pair = p]
      PROVE  FitInv'
  <2>1. /\ p \in DOMAIN pair' /\ pair'[p].data = <<>> /\ OthersKept(p)
        /\ p \in DOMAIN pair => Pooled(p)
    BY <1>0, <1>3, GetPair
  <2>2. p # NoPair
    BY <1>0, <1>3, PoolAssumption DEF Pairs, NoPair
  <2>3. enc.pair # p
    BY <1>0, <2>1, <2>2 DEF OwnInv, Lone, EncInv
  <2>4. dec'.pc = "grow" /\ dec'.pair = p /\ dec'.n = 0
    BY <1>1, <1>3 DEF DecState
  <2> QED
    BY <1>0, <1>1, <1>3, <2>1, <2>3, <2>4, GetFits, EncFitKept DEF FitInv, DecFit
<1>4. CASE dec' = [dec EXCEPT !.pc = "copy"] /\ (UNCHANGED poolVars \/ getFails)
  <2>1. dec'.pc = "copy" /\ UNCHANGED pair
    BY <1>1, <1>4 DEF DecState, poolVars, getFails
  <2> QED
    BY <1>0, <1>1, <2>1, DecoderRests
<1> QED
  BY <1>2, <1>3, <1>4 DEF DecodeBody, NoPairMade

\* The decoder's own pair is replaced by one that is not too full: the encoder's is not it.
LEMMA DecoderFills ==
    ASSUME IInv, FitInv, UNCHANGED <<enc, taken>>, dec.pair \in DOMAIN pair, NEW x \in Pipe,
           pair' = [pair EXCEPT ![dec.pair] = x], Len(x.data) <= x.size
    PROVE  HoldFit' /\ EncFit' /\ pair'[dec.pair] = x
<1>0. HoldFit /\ EncFit /\ PoolInv /\ EncInv /\ OwnInv
  BY DEF FitInv, IInv
<1>1. dec.pair # enc.pair
  BY <1>0 DEF OwnInv, Lone
<1> QED
  BY <1>0, <1>1, ChangeFits, EncFitKept

\* After Grow there is room for the whole body.
LEMMA DecodeGrowFits ==
    ASSUME IInv, FitInv, DecodeGrow
    PROVE  FitInv'
<1>0. /\ HoldFit /\ EncFit /\ DecFit
      /\ PoolInv /\ Types /\ EncInv /\ DecInv /\ OwnInv
  BY DEF FitInv, IInv
<1>1. /\ UNCHANGED <<enc, taken>> /\ dec.pc = "grow" /\ dec.n = 0 /\ dec \in DecState
      /\ dec.pair \in DOMAIN pair /\ pair[dec.pair].data = <<>> /\ dec.m \in Msgs
  BY <1>0 DEF DecodeGrow, DecoderOnly, encVars, DecFit, DecInv, Types
<1>2. Size[dec.m] \in Nat /\ alignSize(Size[dec.m]) * 2 \in Nat
  <2>1. Size[dec.m] \in Nat
    BY <1>1, CodecAssumption
  <2>2. alignSize(Size[dec.m]) \in Nat
    BY <2>1, AlignType
  <2> QED
    BY <2>1, <2>2
<1>3. CASE Grow(dec.pair, alignSize(Size[dec.m]) * 2) /\ dec' = [dec EXCEPT !.pc = "load"]
  <2>1. PICK x \in Pipe : /\ x.size >= alignSize(Size[dec.m]) * 2
                          /\ x.data = pair[dec.pair].data
                          /\ pair' = [pair EXCEPT ![dec.pair] = x]
    BY <1>0, <1>1, <1>2, <1>3, GrowIs
  <2>2. Len(x.data) = 0 /\ Len(x.data) <= x.size
    BY <1>1, <2>1 DEF Pipe
  <2>3. HoldFit' /\ EncFit' /\ pair'[dec.pair] = x
    BY <1>1, <2>1, <2>2, DecoderFills
  <2>4. dec'.pc = "load" /\ dec'.pair = dec.pair /\ dec'.n = 0 /\ dec'.m = dec.m
    BY <1>1, <1>3 DEF DecState
  <2> QED
    BY <1>2, <2>1, <2>2, <2>3, <2>4 DEF FitInv, DecFit
<1>4. CASE dec' = [dec EXCEPT !.pc = "copy", !.pair = NoPair] /\ UNCHANGED poolVars
  <2>1. dec'.pc = "copy" /\ UNCHANGED pair
    BY <1>1, <1>4 DEF DecState, poolVars
  <2> QED
    BY <1>0, <1>1, <2>1, DecoderRests
<1> QED
  BY <1>3, <1>4 DEF DecodeGrow

\* The body is loaded unit by unit, no more than Size of them.
LEMMA DecodeLoadFits ==
    ASSUME IInv, FitInv, DecodeLoad
    PROVE  FitInv'
<1>0. /\ HoldFit /\ EncFit /\ DecFit
      /\ PoolInv /\ Types /\ EncInv /\ DecInv /\ OwnInv
  BY DEF FitInv, IInv
<1>1. /\ UNCHANGED <<enc, taken>> /\ dec.pc = "load" /\ dec.n < Size[dec.m] /\ dec \in DecState
      /\ dec.pair \in DOMAIN pair /\ dec.m \in Msgs /\ Len(pair[dec.pair].data) = dec.n
      /\ pair[dec.pair].size >= alignSize(Size[dec.m]) * 2
      /\ Load(dec.pair, <<Head(wire)>>) /\ dec' = [dec EXCEPT !.n = @ + 1]
      /\ wire \in Seq(Units) /\ Readable /\ wire' = Tail(wire) /\ pair \in Seq(Pipe)
  BY <1>0 DEF DecodeLoad, DecoderOnly, encVars, DecFit, DecInv, Types, PoolInv
<1>2. Size[dec.m] \in Nat /\ dec.n \in Nat
  BY <1>1, CodecAssumption DEF DecState
<1>3. alignSize(Size[dec.m]) \in Nat /\ alignSize(Size[dec.m]) > Size[dec.m]
  BY <1>2, AlignType
<1>4. PICK u \in Units : u = Head(wire)
  BY <1>1, UnitRead
<1>5. <<u>> \in Seq(Units) /\ Len(<<u>>) = 1
  OBVIOUS
<1>6. PICK x \in Pipe : /\ x.size = pair[dec.pair].size /\ x.data = pair[dec.pair].data \o <<u>>
                        /\ pair' = [pair EXCEPT ![dec.pair] = x]
  BY <1>0, <1>1, <1>4, <1>5, LoadIs
<1>7. pair[dec.pair].data \in Seq(Units) /\ pair[dec.pair].size \in Nat
  BY <1>1, PairWith
<1>8. Len(x.data) = dec.n + 1
  BY <1>1, <1>2, <1>5, <1>6, <1>7
<1>9. Len(x.data) <= x.size
  <2>1. dec.n + 1 <= pair[dec.pair].size
    BY <1>1, <1>2, <1>3, <1>7, SMTT(30)
  <2> QED
    BY <1>6, <1>8, <2>1
<1>10. HoldFit' /\ EncFit' /\ pair'[dec.pair] = x
  BY <1>1, <1>6, <1>9, DecoderFills
<1>11. dec'.pc = "load" /\ dec'.pair = dec.pair /\ dec'.n = dec.n + 1 /\ dec'.m = dec.m
  BY <1>1 DEF DecState
<1>12. DecFit'
  <2>1. /\ pair'[dec'.pair].size >= alignSize(Size[dec'.m]) * 2
        /\ Len(pair'[dec'.pair].data) = dec'.n
    BY <1>1, <1>6, <1>8, <1>10, <1>11
  <2>2. dec'.n <= Size[dec'.m]
    BY <1>1, <1>2, <1>11
  <2> QED
    BY <1>11, <2>1, <2>2 DEF DecFit
<1> QED
  BY <1>10, <1>12 DEF FitInv

\* A body that was loaded or copied is delivered.
LEMMA DecodeEndFits ==
    ASSUME IInv, FitInv, DecodeLoaded \/ DecodeCopy
    PROVE  FitInv'
<1>0. HoldFit /\ EncFit /\ DecFit /\ DecInv /\ Types
  BY DEF FitInv, IInv
<1>1. CASE DecodeLoaded
  BY <1>1, DeliverFits DEF DecodeLoaded
<1>2. CASE DecodeCopy
  <2>1. dec.pc = "copy" /\ dec.pair = NoPair /\ dec \in DecState /\ DecoderOnly
        /\ UNCHANGED <<enc, taken>>
    BY <1>0, <1>2 DEF DecodeCopy, DecInv, Types, DecoderOnly, encVars
  <2>2. CASE /\ dec' = [dec EXCEPT !.n = @ + 1, !.data = Append(@, Head(wire))]
             /\ UNCHANGED <<poolVars, delivered, stat>>
    <3>1. dec'.pc = "copy" /\ UNCHANGED pair
      BY <2>1, <2>2 DEF DecState, poolVars
    <3> QED
      BY <1>0, <2>1, <3>1, DecoderRests
  <2>3. CASE Deliver(NoPair, dec.data)
    BY <2>1, <2>3, DeliverFits
  <2> QED
    BY <1>2, <2>2, <2>3 DEF DecodeCopy
<1> QED
  BY <1>1, <1>2

\* The application empties and closes the pairs of its own bodies.
LEMMA ApplicationFits ==
    ASSUME IInv, FitInv, Application
    PROVE  FitInv'
<1>0. /\ HoldFit /\ EncFit /\ DecFit
      /\ PoolInv /\ Types /\ EncInv /\ DecInv /\ BodyInv /\ OwnInv
  BY DEF FitInv, IInv
<1>1. PICK i \in DOMAIN delivered : Read(i) \/ Close(i)
  BY DEF Application
<1>2. UNCHANGED <<enc, taken, dec>>
  BY <1>1 DEF Read, Close, encVars
<1> DEFINE p == delivered[i].pair
<1>3. p # NoPair => p \in DOMAIN pair /\ ~Pooled(p) /\ enc.pair # p /\ dec.pair # p
  BY <1>0 DEF BodyInv, OwnInv, Lone, Bodied
<1>4. ASSUME HoldFit', OthersKept(p), p # NoPair PROVE FitInv'
  BY <1>0, <1>2, <1>3, <1>4, EncFitKept, DecFitKept DEF FitInv
<1>5. CASE UNCHANGED pair
  BY <1>0, <1>2, <1>5 DEF FitInv, HoldFit, EncFit, DecFit, Current
<1>6. CASE Read(i)
  <2>1. p # NoPair /\ Drain(p, Len(pair[p].data))
    BY <1>6 DEF Read
  <2>2. PICK s \in Seq(Units) : s = pair[p].data
    BY <1>0, <1>3, <2>1, PairWith DEF PoolInv
  <2>3. Len(pair[p].data) \in Nat /\ Len(pair[p].data) <= Len(pair[p].data)
    BY <2>2
  <2>4. PICK x \in Pipe : /\ x.size = pair[p].size
                          /\ Len(x.data) = Len(pair[p].data) - Len(pair[p].data)
                          /\ pair' = [pair EXCEPT ![p] = x]
    BY <1>0, <1>3, <2>1, <2>3, DrainIs
  <2>5. Len(x.data) <= x.size
    BY <2>3, <2>4 DEF Pipe
  <2> QED
    BY <1>0, <1>3, <1>4, <2>1, <2>4, <2>5, ChangeFits
<1>7. CASE Close(i)
  <2>1. CASE p = NoPair
    BY <1>5, <1>7, <2>1 DEF Close, poolVars
  <2>2. CASE p # NoPair
    <3>1. done(p)
      BY <1>7, <2>2 DEF Close
    <3> QED
      BY <1>0, <1>3, <1>4, <2>2, <3>1, DoneFits
  <2> QED
    BY <2>1, <2>2
<1> QED
  BY <1>1, <1>6, <1>7

\* The second layer of the invariant, on top of IInv.
LEMMA NextFitInv ==
    ASSUME BuffersFit, IInv, FitInv, [Next]_vars
    PROVE  FitInv'
<1>1. CASE \E m \in Msgs : EncodeHeaders(m) \/ EncodeHeadersFail(m)
  BY <1>1, HeadersFit
<1>2. CASE Encoder
  BY <1>2, HeadersFit, EncodeBodyFits, EncodeGrowFits, EncodeLoadFits, EncodeLoadConnFits,
     LoadFailFits, EncodeSendFits, EncodeEndFits DEF Encoder
<1>3. CASE Decoder
  BY <1>3, DecodeHeadFits, DecodeBodyFits, DecodeGrowFits, DecodeLoadFits, LoadFailFits,
     DecodeEndFits DEF Decoder
<1>4. CASE UNCHANGED <<pair, enc, taken, dec>>
  BY <1>4 DEF FitInv, HoldFit, EncFit, DecFit, Current
<1>5. CASE ConnEnd
  BY <1>4, <1>5 DEF ConnEnd, poolVars, encVars, decVars
<1>6. CASE UNCHANGED vars
  BY <1>4, <1>6 DEF vars
<1> QED
  BY <1>1, <1>2, <1>3, <1>5, <1>6, ApplicationFits DEF Next

\* No pair is in the pool twice, so the pool is not larger than the pairs that were made.
LEMMA PoolSmall ==
    ASSUME PoolInv, CountInv
    PROVE  usedCount \in Nat
<1>1. /\ unused \in Seq(Pairs) /\ usedCount \in Int /\ pair \in Seq(Pipe)
      /\ \A i \in DOMAIN unused : unused[i] \in DOMAIN pair
      /\ \A i, j \in DOMAIN unused : unused[i] = unused[j] => i = j
      /\ usedCount = (Len(pair) - Len(unused)) + missed /\ missed \in Nat
  BY DEF PoolInv, CountInv, UsedCountExact
<1>2. /\ DOMAIN unused = 1 .. Len(unused) /\ DOMAIN pair = 1 .. Len(pair)
      /\ Len(unused) \in Nat /\ Len(pair) \in Nat
  BY <1>1
<1>3. /\ IsFiniteSet(1 .. Len(unused)) /\ Cardinality(1 .. Len(unused)) = Len(unused)
      /\ IsFiniteSet(1 .. Len(pair)) /\ Cardinality(1 .. Len(pair)) = Len(pair)
  <2>1. \A n \in Nat : IsFiniteSet(1 .. n) /\ Cardinality(1 .. n) = n
    <3>1. SUFFICES ASSUME NEW n \in Nat
                   PROVE  IsFiniteSet(1 .. n) /\ Cardinality(1 .. n) = n
      OBVIOUS
    <3>2. 1 \in Int /\ n \in Int /\ (IF 1 > n THEN 0 ELSE n - 1 + 1) = n
      OBVIOUS
    <3> QED
      BY <3>2, FS_Interval
  <2> QED
    BY <1>2, <2>1
<1>4. unused \in [1 .. Len(unused) -> 1 .. Len(pair)]
  BY <1>1, <1>2
<1>5. ~(Len(pair) < Len(unused))
  <2> SUFFICES ASSUME Len(pair) < Len(unused) PROVE FALSE
    OBVIOUS
  <2>1. PICK S, T : S = 1 .. Len(unused) /\ T = 1 .. Len(pair)
    OBVIOUS
  <2>2. /\ IsFiniteSet(S) /\ IsFiniteSet(T) /\ Cardinality(T) < Cardinality(S)
        /\ unused \in [S -> T]
    BY <1>3, <1>4, <2>1
  <2>3. \E x, y \in S : x # y /\ unused[x] = unused[y]
    BY <2>2, FS_PigeonHole
  <2> QED
    BY <1>1, <1>2, <2>1, <2>3
<1> QED
  BY <1>1, <1>2, <1>5

\* Everything keeps its type, and no pipe is ever asked to hold more than Grow gave it:
\* the splice of PipeFile and PipeConn and the write of PipeBuffer never come short for
\* lack of room, at page boundaries either.
THEOREM CodecTypes ==
    ASSUME PassedOnKept, BuffersFit
    PROVE  Spec => []TypeOK
<1>1. Init => FitInv
  BY DEF Init, PoolInit, Idle, Waiting, FitInv, HoldFit, EncFit, DecFit
<1>2. IInv /\ FitInv /\ [Next]_vars => FitInv'
  BY NextFitInv
<1>3. IInv /\ FitInv /\ CountInv => TypeOK
  <2> SUFFICES ASSUME IInv, FitInv, CountInv PROVE TypeOK
    OBVIOUS
  <2>1. PoolInv /\ Types /\ OwnInv /\ HoldFit
    BY DEF IInv, FitInv
  <2>2. usedCount \in Nat /\ \A p \in DOMAIN pair : pair[p].data \in Seq(Units)
    BY <2>1, PoolSmall, PairWith DEF PoolInv
  <2>3. leaked \subseteq Pairs
    BY <2>1, PairsFromOne DEF OwnInv
  <2> QED
    BY <2>1, <2>2, <2>3 DEF TypeOK, PoolInv, Types, HoldFit, EncState, DecState, Body, CountInv
<1> QED
  BY <1>1, <1>2, <1>3, Inductive, Counted, PTL DEF Spec
=============================================================================
