---------------------------- MODULE MessageCodec ----------------------------
(***************************************************************************)
(* Messages on a connection: messageEncoder and messageDecoder             *)
(* (encoding.go), the bodies they stream (body.go) and the pool of pipe    *)
(* pairs (SplicePool) that they share when both run in one process, as a   *)
(* server, a proxy and the tests of the repository do.                     *)
(*                                                                         *)
(* The connection is a queue of units: a start line, an error, the headers *)
(* and every byte of a body are one unit each.  A message is named; its    *)
(* constants say what it consists of and what the Reader of its Body is:   *)
(*   "file"    IsFile: spliced from Offset                                 *)
(*   "conn"    IsConn: spliced as its bytes arrive                         *)
(*   "buffer"  IsBuffer: written into the pipe                             *)
(*   "pipe"    IsPipe: the body of a delivered message, passed on          *)
(*   "plain"   any other reader: copied                                    *)
(*   "none"    nil                                                         *)
(***************************************************************************)
EXTENDS SplicePool

CONSTANTS
    Msgs,         \* the messages that may be encoded
    Scripts,      \* sequences of messages that an application encodes
    HasHead,      \* messages with registered headers
    HasErr,       \* responses with an error
    Kind,         \* Kind[m]: the Reader of m's body
    Size,         \* Size[m]: Body.Size, 0 if there is none
    Offset,       \* Offset[m]: Body.Offset
    SrcLen,       \* SrcLen[m]: the bytes that the reader really has
    From,         \* From[m]: the message whose body a "pipe" message passes on
    NotClose,     \* messages whose Body.NotClose is set
    NoMsg,        \* no message
    HeaderLimit,  \* units that fill the encoder's header buffer
    MaxFaults     \* bound on failures of the connection and of system calls

\* A response with an error has neither headers nor a body: serveRequest gets no
\* response from a handler that failed (callHandlerWithRecover).
ASSUME CodecAssumption ==
    /\ \A s \in Scripts : s \in Seq(Msgs) /\ IsInjective(s)
    /\ HasHead \subseteq Msgs /\ HasErr \subseteq Msgs /\ NotClose \subseteq Msgs
    /\ HasErr \cap HasHead = {} /\ \A m \in HasErr : Size[m] = 0
    /\ Kind \in [Msgs -> {"file", "conn", "buffer", "pipe", "plain", "none"}]
    /\ Size \in [Msgs -> Nat] /\ Offset \in [Msgs -> Nat] /\ SrcLen \in [Msgs -> Nat]
    /\ From \in [Msgs -> Msgs]
    /\ \A m \in Msgs : Kind[m] = "pipe" =>
          Kind[From[m]] # "pipe" /\ Size[From[m]] = Size[m] /\ Size[m] > 0
    /\ NoMsg \notin Msgs /\ HeaderLimit \in Nat \ {0} /\ MaxFaults \in Nat

VARIABLES
    opt,        \* can the connection be spliced to by the writer, and from by the
                \* reader (is it a syscall.Conn there)?  CloseBody?
    script,     \* the messages to encode, in order
    taken,      \* the messages that the encoder was given, in order
    buf,        \* the encoder's headerBuffer
    enc,        \* the goroutine that encodes
    wire,       \* units that were written and not yet read
    conn,       \* the connection: open, ended by its writer, or broken
    dec,        \* the goroutine that decodes
    delivered,  \* the decoded messages, in order, and their bodies
    leaked,     \* pairs that nobody will return to the pool
    stat,       \* ConnStats
    faults,     \* failures so far
    torn,       \* history: messages whose bytes the decoder lost in a failed load
    shifted,    \* history: messages whose reader a failed load had moved
    missed      \* history: calls of get that gave no pair

vars == <<unused, usedCount, pair, opt, script, taken, buf, enc, wire, conn, dec,
          delivered, leaked, stat, faults, torn, shifted, missed>>
setting == <<opt, script>>
history == <<torn, shifted, missed>>
encVars == <<taken, buf, enc>>
decVars == <<dec, delivered>>

-----------------------------------------------------------------------------
(* Data.                                                                    *)

Unit(m, part, n) == [m |-> m, part |-> part, n |-> n]
Units == [m: Msgs, part: {"start", "err", "head", "body"}, n: Nat]
NoPair == 0

\* What the reader of m's body gives, from its beginning
Source(m) == [i \in 1 .. SrcLen[m] |-> Unit(m, "body", i)]

\* encodeRequestHeaders, encodeResponseHeaders: the start line, the headers and
\* the error
Header(m) ==
    <<Unit(m, "start", 0)>>
    \o (IF m \in HasHead THEN <<Unit(m, "head", 0)>> ELSE <<>>)
    \o (IF m \in HasErr THEN <<Unit(m, "err", 0)>> ELSE <<>>)

\* DecodeRequest, DecodeResponse: what follows the start line.
Rest(m) == (IF m \in HasErr THEN <<"err">> ELSE <<>>)
           \o (IF m \in HasHead THEN <<"head">> ELSE <<>>)

\* alignSize.  Mutant: it rounds down.
alignSize_Down(size) == size - (size % PageSize)

alignSize(size) == (size + PageSize) - (size % PageSize)

ConnStats == {"HeadWritten", "BodyWritten", "WriteCalls", "WriteErrors",
              "HeadRead", "BodyRead", "ReadCalls", "ReadErrors"}

\* add* and inc* of ConnStats
Count(s, field, n) == [s EXCEPT ![field] = @ + n]

Idle == [pc |-> "idle", pair |-> NoPair, pos |-> 0, n |-> 0, ok |-> TRUE,
         todo |-> <<>>]
Waiting == [pc |-> "start", m |-> NoMsg, pair |-> NoPair, n |-> 0, todo |-> <<>>,
            data |-> <<>>]

Init ==
    /\ PoolInit
    /\ opt \in [writer: BOOLEAN, reader: BOOLEAN, closeBody: BOOLEAN]
    /\ script \in Scripts
    /\ taken = <<>> /\ buf = <<>> /\ enc = Idle
    /\ wire = <<>> /\ conn = "open"
    /\ dec = Waiting /\ delivered = <<>>
    /\ leaked = {} /\ faults = 0
    /\ stat = [f \in ConnStats |-> 0]
    /\ torn = {} /\ shifted = {} /\ missed = 0

Fault == faults < MaxFaults /\ faults' = faults + 1
NoFault == UNCHANGED faults

\* newSplicePair makes no pair
NoPairMade ==
    /\ getFails
    /\ IF Exhausted THEN NoFault ELSE Fault
    /\ missed' = missed + 1

-----------------------------------------------------------------------------
(* The encoder: headers.                                                    *)

\* The message being encoded.
Current == Last(taken)

\* body.Size != 0 && body.Reader != nil.  The start line announces Size bytes in
\* any case.
HasBody(m) == Size[m] > 0 /\ Kind[m] # "none"

\* The writer that got an error returns, and its connection is closed.
WriterEnds ==
    /\ buf' = <<>>
    /\ conn' = IF conn = "open" THEN "eof" ELSE conn

\* A delivered body that the application still has, unread.
Forwardable(m, i) ==
    /\ delivered[i].m = From[m] /\ delivered[i].st = "open"
    /\ delivered[i].pair # NoPair /\ delivered[i].data = <<>>

\* The application hands message m to the encoder, and with it the pair of the
\* body that it passes on.
Given(m) ==
    \/ /\ Kind[m] # "pipe"
       /\ enc' = [Idle EXCEPT !.pc = IF HasBody(m) THEN "body" ELSE "idle"]
       /\ UNCHANGED delivered
    \/ /\ Kind[m] = "pipe"
       /\ \E i \in DOMAIN delivered :
             /\ Forwardable(m, i)
             /\ delivered' = [delivered EXCEPT ![i].st = "forwarded", ![i].pair = NoPair]
             /\ enc' = [Idle EXCEPT !.pc = "body", !.pair = delivered[i].pair]

\* EncodeRequest and EncodeResponse up to the body: what is buffered goes out
\* before a body and when the buffer is full.  Mutant: only when it is full.
MustFlush_Full(m) == Len(buf \o Header(m)) >= HeaderLimit

MustFlush(m) == HasBody(m) \/ Len(buf \o Header(m)) >= HeaderLimit

EncodeHeaders(m) ==
    /\ enc.pc = "idle" /\ IsPrefix(Append(taken, m), script)
    /\ MustFlush(m) => conn = "open"
    /\ Given(m)
    /\ taken' = Append(taken, m)
    /\ wire' = IF MustFlush(m) THEN wire \o buf \o Header(m) ELSE wire
    /\ buf' = IF MustFlush(m) THEN <<>> ELSE buf \o Header(m)
    /\ stat' = LET heads == IF MustFlush(m) THEN Len(buf \o Header(m)) ELSE 0
                   calls == IF HasBody(m) THEN 0 ELSE 1
               IN Count(Count(stat, "HeadWritten", heads), "WriteCalls", calls)
    /\ UNCHANGED <<poolVars, setting, history, conn, dec, leaked, faults>>

\* The flush fails, or Headers.Encode does: the body is not closed, and the pair
\* of a body that is passed on is lost.
EncodeHeadersFail(m) ==
    /\ enc.pc = "idle" /\ IsPrefix(Append(taken, m), script)
    /\ \/ MustFlush(m) /\ conn # "open" /\ NoFault
       \/ m \in HasHead /\ Fault
    /\ \/ Kind[m] # "pipe" /\ UNCHANGED <<delivered, leaked>>
       \/ \E i \in DOMAIN delivered :
             /\ Kind[m] = "pipe" /\ Forwardable(m, i)
             /\ delivered' = [delivered EXCEPT ![i].st = "forwarded", ![i].pair = NoPair]
             /\ leaked' = leaked \cup {delivered[i].pair}
    /\ taken' = Append(taken, m)
    /\ enc' = [Idle EXCEPT !.pc = "dead", !.ok = FALSE]
    /\ WriterEnds
    /\ stat' = Count(stat, "WriteErrors", 1)
    /\ UNCHANGED <<poolVars, setting, history, wire, dec>>

\* Flush, on the writer's flush timer.  Mutant: a full buffer only.
FlushDue_Full == Len(buf) >= HeaderLimit

FlushDue == buf # <<>>

Flush ==
    /\ enc.pc = "idle" /\ FlushDue
    /\ \/ /\ conn = "open"
          /\ wire' = wire \o buf /\ buf' = <<>>
          /\ stat' = Count(stat, "HeadWritten", Len(buf))
          /\ UNCHANGED <<enc, conn>>
       \/ /\ conn # "open"
          /\ WriterEnds
          /\ enc' = [Idle EXCEPT !.pc = "dead", !.ok = FALSE]
          /\ stat' = Count(stat, "WriteErrors", 1)
          /\ UNCHANGED wire
    /\ UNCHANGED <<poolVars, setting, history, taken, decVars, leaked, faults>>

-----------------------------------------------------------------------------
(* The encoder: Body.spliceTo, PipeFile, PipeConn, PipeBuffer, and the copy *)
(* that it falls back to.                                                   *)

EncoderOnly == UNCHANGED <<setting, taken, buf, decVars>>

\* Which reader is spliced, and how
EncodeBody ==
    /\ enc.pc = "body"
    /\ \/ /\ ~opt.writer \/ Kind[Current] = "plain"
          /\ enc' = [enc EXCEPT !.pc = "copy"]
          /\ NoFault /\ UNCHANGED <<poolVars, missed>>
       \/ /\ opt.writer /\ Kind[Current] = "pipe"
          /\ enc' = [enc EXCEPT !.pc = "write"]
          /\ NoFault /\ UNCHANGED <<poolVars, missed>>
       \/ /\ opt.writer /\ Kind[Current] \in {"file", "conn", "buffer"}
          /\ \/ /\ \E p \in Pairs : get(p) /\ enc' = [enc EXCEPT !.pc = "grow", !.pair = p]
                /\ NoFault /\ UNCHANGED missed
             \/ NoPairMade /\ enc' = [enc EXCEPT !.pc = "copy"]
    /\ EncoderOnly /\ UNCHANGED <<wire, conn, leaked, stat, torn, shifted>>

\* A failed Grow or load: the pair is never returned, and io.CopyN reads on from
\* where the reader stands.
Abandon ==
    /\ leaked' = leaked \cup {enc.pair}
    /\ enc' = [enc EXCEPT !.pc = "copy", !.pair = NoPair, !.n = 0]

EncodeGrow ==
    /\ enc.pc = "grow"
    /\ \/ /\ Grow(enc.pair, alignSize(Size[Current]) * 2)
          /\ enc' = [enc EXCEPT !.pc = "load"]
          /\ NoFault /\ UNCHANGED leaked
       \/ /\ IF CanGrow(enc.pair, alignSize(Size[Current]) * 2) THEN Fault ELSE NoFault
          /\ Abandon /\ UNCHANGED poolVars
    /\ EncoderOnly /\ UNCHANGED <<history, wire, conn, stat>>

\* PipeFile: one splice from Offset, whose count is ignored.  PipeBuffer: all of
\* Iovec.
EncodeLoad ==
    /\ enc.pc = "load" /\ Kind[Current] \in {"file", "buffer"}
    /\ LET all == IF Kind[Current] = "buffer" THEN Source(Current)
                  ELSE SubSeq(Source(Current), Offset[Current] + 1,
                              Min({Offset[Current] + Size[Current], SrcLen[Current]}))
       IN \/ /\ Load(enc.pair, all)
             /\ enc' = [enc EXCEPT !.pc = "write"]
             /\ NoFault /\ UNCHANGED leaked
          \/ /\ Fault
             /\ Abandon /\ UNCHANGED poolVars
    /\ EncoderOnly /\ UNCHANGED <<history, wire, conn, stat>>

\* PipeConn: the bytes of another connection, until they are there or end.
EncodeLoadConn ==
    /\ enc.pc = "load" /\ Kind[Current] = "conn"
    /\ \/ /\ enc.pos < Size[Current] /\ enc.pos < SrcLen[Current]
          /\ Load(enc.pair, <<Source(Current)[enc.pos + 1]>>)
          /\ enc' = [enc EXCEPT !.pos = @ + 1]
       \/ /\ enc.pos = Size[Current] \/ enc.pos = SrcLen[Current]
          /\ enc' = [enc EXCEPT !.pc = "write"]
          /\ UNCHANGED poolVars
    /\ EncoderOnly /\ UNCHANGED <<history, wire, conn, leaked, stat, faults>>

\* It fails.  What it has loaded is lost with the pair; the copy then fails as
\* well if that connection did, and otherwise takes the bytes that follow.
EncodeLoadConnFail ==
    /\ enc.pc = "load" /\ Kind[Current] = "conn" /\ enc.pos < Size[Current]
    /\ Fault
    /\ \/ /\ leaked' = leaked \cup {enc.pair}
          /\ enc' = [enc EXCEPT !.pc = "close", !.pair = NoPair, !.ok = FALSE]
          /\ stat' = Count(stat, "WriteErrors", 1)
          /\ UNCHANGED shifted
       \/ /\ Abandon
          /\ shifted' = shifted \cup {Current}
          /\ UNCHANGED stat
    /\ EncoderOnly /\ UNCHANGED <<poolVars, wire, conn, torn, missed>>

\* The pairs that are closed when encode returns: the one that was spliced from,
\* by spliceTo, and that of an IsPipe, by Body.Close.
\* Mutant: spliceTo closes its pair, and so does Body.Close, for every reader.
Closes_Both(m, spliced) == IF spliced THEN <<enc.pair, enc.pair>> ELSE <<>>

Closes(m, spliced) ==
    (IF spliced THEN <<enc.pair>> ELSE <<>>)
    \o (IF Kind[m] = "pipe" /\ m \notin NotClose THEN <<enc.pair>> ELSE <<>>)

\* The loop of spliceTo: an empty pipe is waited for as if the connection were
\* full.
EncodeWrite ==
    /\ enc.pc = "write"
    /\ \/ /\ enc.n < Size[Current] /\ conn = "open" /\ pair[enc.pair].data # <<>>
          /\ wire' = Append(wire, Head(pair[enc.pair].data))
          /\ Drain(enc.pair, 1)
          /\ enc' = [enc EXCEPT !.n = @ + 1]
       \/ /\ enc.n = Size[Current] \/ conn # "open"
          /\ enc' = [enc EXCEPT !.pc = "close", !.ok = (enc.n = Size[Current]),
                                !.todo = Closes(Current, TRUE)]
          /\ UNCHANGED <<wire, poolVars>>
    /\ EncoderOnly /\ UNCHANGED <<history, conn, leaked, stat, faults>>

\* Where the fallback copy reads: from the position of the reader, which neither
\* Offset nor PipeFile moved.
Copied == IF Kind[Current] = "pipe" THEN pair[enc.pair].data
          ELSE SubSeq(Source(Current), enc.pos + 1, SrcLen[Current])

\* io.CopyN(e.w, body.Reader, body.Size)
EncodeCopy ==
    /\ enc.pc = "copy"
    /\ \/ /\ enc.n < Size[Current] /\ conn = "open" /\ Copied # <<>>
          /\ wire' = Append(wire, Head(Copied))
          /\ enc' = [enc EXCEPT !.n = @ + 1,
                                !.pos = @ + IF Kind[Current] = "pipe" THEN 0 ELSE 1]
          /\ IF Kind[Current] = "pipe" THEN Drain(enc.pair, 1) ELSE UNCHANGED poolVars
          /\ UNCHANGED stat
       \/ /\ enc.n = Size[Current] \/ conn # "open" \/ Copied = <<>>
          /\ enc' = [enc EXCEPT !.pc = "close", !.ok = (enc.n = Size[Current]),
                                !.todo = Closes(Current, FALSE)]
          /\ stat' = Count(stat, "WriteErrors", IF enc.n = Size[Current] THEN 0 ELSE 1)
          /\ UNCHANGED <<wire, poolVars>>
    /\ EncoderOnly /\ UNCHANGED <<history, conn, leaked, faults>>

\* The deferred Close calls of spliceTo and of encode, one after the other
EncodeClose ==
    /\ enc.pc = "close" /\ enc.todo # <<>>
    /\ done(Head(enc.todo))
    /\ enc' = [enc EXCEPT !.todo = Tail(@),
                          !.pair = IF Len(enc.todo) = 1 THEN NoPair ELSE @]
    /\ EncoderOnly /\ UNCHANGED <<history, wire, conn, leaked, stat, faults>>

\* Mutant: a body is counted by its bytes only.
CountBody_NoCall == Count(stat, "BodyWritten", Size[Current])

CountBody == Count(Count(stat, "BodyWritten", Size[Current]), "WriteCalls", 1)

\* encode returns.  The pair of an IsPipe that was copied and not closed is lost.
EncodeReturn ==
    /\ enc.pc = "close" /\ enc.todo = <<>>
    /\ leaked' = leaked \cup ({enc.pair} \ {NoPair})
    /\ \/ /\ enc.ok
          /\ enc' = Idle
          /\ stat' = CountBody
          /\ UNCHANGED <<buf, conn>>
       \/ /\ ~enc.ok
          /\ enc' = [Idle EXCEPT !.pc = "dead", !.ok = FALSE]
          /\ WriterEnds
          /\ UNCHANGED stat
    /\ UNCHANGED <<poolVars, setting, history, taken, wire, decVars, faults>>

Encoder == \/ Flush \/ EncodeBody \/ EncodeGrow \/ EncodeLoad \/ EncodeLoadConn
           \/ EncodeLoadConnFail \/ EncodeWrite \/ EncodeCopy \/ EncodeClose \/ EncodeReturn

-----------------------------------------------------------------------------
(* The decoder.                                                             *)

DecoderOnly == UNCHANGED <<setting, encVars>>
Readable == wire # <<>> /\ conn # "reset"
Ended == conn = "reset" \/ (conn = "eof" /\ wire = <<>>)

\* binary.Read of the start line.  Bytes of anything else in its place are taken
\* for one: the decoder has lost the message boundaries.
DecodeStart ==
    /\ dec.pc = "start" /\ Readable
    /\ wire' = Tail(wire)
    /\ LET u == Head(wire) IN
          dec' = IF u.part = "start"
                 THEN [Waiting EXCEPT !.pc = "head", !.m = u.m, !.todo = Rest(u.m)]
                 ELSE [Waiting EXCEPT !.pc = "garbled"]
    /\ stat' = Count(stat, "HeadRead", 1)
    /\ DecoderOnly /\ UNCHANGED <<history, poolVars, conn, delivered, leaked, faults>>

\* The error and the headers
DecodeHead ==
    /\ dec.pc = "head" /\ dec.todo # <<>> /\ Readable
    /\ wire' = Tail(wire)
    /\ dec' = IF Head(wire) = Unit(dec.m, Head(dec.todo), 0)
              THEN [dec EXCEPT !.todo = Tail(@)]
              ELSE [Waiting EXCEPT !.pc = "garbled"]
    /\ stat' = Count(stat, "HeadRead", 1)
    /\ DecoderOnly /\ UNCHANGED <<history, poolVars, conn, delivered, leaked, faults>>

\* The message is complete; with CloseBody its body is closed at once.
Deliver(p, data) ==
    /\ delivered' = Append(delivered,
          [m |-> dec.m, data |-> data,
           st |-> IF opt.closeBody THEN "closed" ELSE "open",
           pair |-> IF opt.closeBody THEN NoPair ELSE p])
    /\ dec' = Waiting
    /\ stat' = Count(Count(stat, "BodyRead", Size[dec.m]), "ReadCalls", 1)
    /\ IF opt.closeBody /\ p # NoPair THEN done(p) ELSE UNCHANGED poolVars

\* decodeBody, spliceBody: no body, a pair to splice it into, or a copy
DecodeBody ==
    /\ dec.pc = "head" /\ dec.todo = <<>>
    /\ \/ /\ Size[dec.m] = 0 /\ Deliver(NoPair, <<>>)
          /\ NoFault /\ UNCHANGED missed
       \/ /\ Size[dec.m] > 0
          /\ \/ /\ opt.reader
                /\ \E p \in Pairs : get(p) /\ dec' = [dec EXCEPT !.pc = "grow", !.pair = p]
                /\ NoFault /\ UNCHANGED missed
             \/ /\ opt.reader
                /\ NoPairMade
                /\ dec' = [dec EXCEPT !.pc = "copy"]
             \/ /\ ~opt.reader
                /\ dec' = [dec EXCEPT !.pc = "copy"]
                /\ NoFault /\ UNCHANGED <<poolVars, missed>>
          /\ UNCHANGED <<delivered, stat>>
    /\ DecoderOnly /\ UNCHANGED <<wire, conn, leaked, torn, shifted>>

\* PipeConn: Grow, or the pair is lost and the body copied
DecodeGrow ==
    /\ dec.pc = "grow"
    /\ LET n == alignSize(Size[dec.m]) * 2 IN
       \/ /\ Grow(dec.pair, n)
          /\ dec' = [dec EXCEPT !.pc = "load"]
          /\ NoFault /\ UNCHANGED leaked
       \/ /\ IF CanGrow(dec.pair, n) THEN Fault ELSE NoFault
          /\ leaked' = leaked \cup {dec.pair}
          /\ dec' = [dec EXCEPT !.pc = "copy", !.pair = NoPair]
          /\ UNCHANGED poolVars
    /\ DecoderOnly /\ UNCHANGED <<history, wire, conn, delivered, stat>>

\* PipeConn: the loop over LoadFrom
DecodeLoad ==
    /\ dec.pc = "load" /\ dec.n < Size[dec.m] /\ Readable
    /\ Load(dec.pair, <<Head(wire)>>)
    /\ wire' = Tail(wire)
    /\ dec' = [dec EXCEPT !.n = @ + 1]
    /\ DecoderOnly /\ UNCHANGED <<history, conn, delivered, leaked, stat, faults>>

\* The loop ends when all is loaded, and as well when the connection ends.
\* Mutant: it ends when nothing has arrived.
LoadEnded_Empty == dec.n = Size[dec.m] \/ wire = <<>>

LoadEnded == dec.n = Size[dec.m] \/ (conn = "eof" /\ wire = <<>>)

DecodeLoaded ==
    /\ dec.pc = "load" /\ LoadEnded
    /\ Deliver(dec.pair, <<>>)
    /\ DecoderOnly /\ UNCHANGED <<history, wire, conn, leaked, faults>>

\* LoadFrom fails on a connection that lives: decodeBody ignores the error and
\* copies Size bytes, after those that are lost with the pair.
DecodeLoadFail ==
    /\ dec.pc = "load" /\ dec.n < Size[dec.m] /\ conn # "reset"
    /\ Fault
    /\ leaked' = leaked \cup {dec.pair}
    /\ torn' = IF dec.n > 0 THEN torn \cup {dec.m} ELSE torn
    /\ dec' = [dec EXCEPT !.pc = "copy", !.pair = NoPair, !.n = 0]
    /\ DecoderOnly
    /\ UNCHANGED <<poolVars, wire, conn, delivered, stat, shifted, missed>>

\* decodeBody: io.CopyN into a buffer
DecodeCopy ==
    /\ dec.pc = "copy"
    /\ \/ /\ dec.n < Size[dec.m] /\ Readable
          /\ wire' = Tail(wire)
          /\ dec' = [dec EXCEPT !.n = @ + 1, !.data = Append(@, Head(wire))]
          /\ UNCHANGED <<poolVars, delivered, stat>>
       \/ /\ dec.n = Size[dec.m]
          /\ Deliver(NoPair, dec.data)
          /\ UNCHANGED wire
    /\ DecoderOnly /\ UNCHANGED <<history, conn, leaked, faults>>

\* The decoder waits in binary.Read, io.ReadFull or io.CopyN.
NeedsUnit == \/ dec.pc = "start"
             \/ dec.pc = "head" /\ dec.todo # <<>>
             \/ dec.pc = "copy" /\ dec.n < Size[dec.m]

\* The connection ends, or Headers.Decode fails: the reader returns and the
\* connection is closed.  A pair that was being filled is lost.
DecodeFail ==
    /\ \/ NeedsUnit /\ Ended /\ NoFault
       \/ dec.pc = "load" /\ dec.n < Size[dec.m] /\ conn = "reset" /\ NoFault
       \/ dec.pc = "head" /\ dec.todo = <<>> /\ dec.m \in HasHead /\ Fault
    /\ leaked' = leaked \cup ({dec.pair} \ {NoPair})
    /\ dec' = [Waiting EXCEPT !.pc = "done"]
    /\ conn' = "reset"
    /\ stat' = Count(stat, "ReadErrors", IF dec.pc \in {"start", "head"} THEN 1 ELSE 0)
    /\ DecoderOnly /\ UNCHANGED <<history, poolVars, wire, delivered>>

Decoder == \/ DecodeStart \/ DecodeHead \/ DecodeBody \/ DecodeGrow \/ DecodeLoad
           \/ DecodeLoadFail \/ DecodeLoaded \/ DecodeCopy \/ DecodeFail

-----------------------------------------------------------------------------
(* The application that has delivered bodies, and the connection.           *)

\* Pipe.Read: whatever the pipe holds
Read(i) ==
    /\ delivered[i].st = "open" /\ delivered[i].pair # NoPair
    /\ LET data == pair[delivered[i].pair].data IN
          /\ data # <<>>
          /\ delivered' = [delivered EXCEPT ![i].data = @ \o data]
          /\ Drain(delivered[i].pair, Len(data))
    /\ UNCHANGED <<setting, history, encVars, wire, conn, dec, leaked, stat, faults>>

\* Body.Close, which the application calls once
Close(i) ==
    /\ delivered[i].st = "open"
    /\ IF delivered[i].pair = NoPair THEN UNCHANGED poolVars ELSE done(delivered[i].pair)
    /\ delivered' = [delivered EXCEPT ![i].st = "closed", ![i].pair = NoPair]
    /\ UNCHANGED <<setting, history, encVars, wire, conn, dec, leaked, stat, faults>>

\* The connection ends, in order or not, and units that are on the way are lost.
ConnEnd ==
    /\ conn = "open" /\ Fault
    /\ conn' \in {"eof", "reset"}
    /\ \E k \in 0 .. Len(wire) : wire' = SubSeq(wire, 1, k)
    /\ UNCHANGED <<poolVars, setting, history, encVars, decVars, leaked, stat>>

Application == \E i \in DOMAIN delivered : Read(i) \/ Close(i)

Next == \/ \E m \in Msgs : EncodeHeaders(m) \/ EncodeHeadersFail(m)
        \/ Encoder \/ Decoder \/ Application \/ ConnEnd

\* The two goroutines run; nothing is assumed of the application and the network.
Spec == Init /\ [][Next]_vars /\ WF_vars(Encoder) /\ WF_vars(Decoder)
-----------------------------------------------------------------------------
(* Properties.                                                              *)

\* Everything has its type, and a pipe that Grow prepared holds no more than its
\* capacity: the test of LoadFromAt and the write(2) of PipeBuffer never come short.
TypeOK ==
    /\ unused \in Seq(Pairs) /\ usedCount \in Nat /\ Len(pair) <= MaxPairs
    /\ \A p \in DOMAIN pair : /\ pair[p].data \in Seq(Units)
                              /\ Len(pair[p].data) <= pair[p].size
    /\ opt \in [writer: BOOLEAN, reader: BOOLEAN, closeBody: BOOLEAN]
    /\ taken \in Seq(Msgs) /\ script \in Scripts /\ buf \in Seq(Units) /\ wire \in Seq(Units)
    /\ enc \in [pc: {"idle", "body", "grow", "load", "write", "copy", "close", "dead"},
                pair: Pairs \cup {NoPair}, pos: Nat, n: Nat, ok: BOOLEAN, todo: Seq(Pairs)]
    /\ conn \in {"open", "eof", "reset"}
    /\ dec \in [pc: {"start", "head", "grow", "load", "copy", "done", "garbled"},
                m: Msgs \cup {NoMsg}, pair: Pairs \cup {NoPair}, n: Nat,
                todo: Seq({"err", "head"}), data: Seq(Units)]
    /\ delivered \in Seq([m: Msgs, data: Seq(Units), pair: Pairs \cup {NoPair},
                          st: {"open", "closed", "forwarded"}])
    /\ leaked \subseteq Pairs
    /\ stat \in [ConnStats -> Nat] /\ faults \in 0 .. MaxFaults
    /\ torn \subseteq Msgs /\ shifted \subseteq Msgs /\ missed \in Nat

\* The hands a pair is in: places of the pool, the goroutines, delivered bodies.
Hands(p) ==
    Cardinality({i \in DOMAIN unused : unused[i] = p})
    + Cardinality({g \in {enc, dec} : g.pair = p})
    + Cardinality({i \in DOMAIN delivered : delivered[i].pair = p})
    + Cardinality({p} \cap leaked)

\* Every pipe pair is in one hand only: in the pool once, with one encoder or
\* decoder, with one delivered body, or lost on one of the error paths of body.go.
\* So no two bodies are ever spliced through the same pipe.
PairOwnership == \A p \in DOMAIN pair : Hands(p) = 1

\* Pipe has a closed state, in which it has no pair (body.go, Read, WriteTo and
\* Close: "if p.pair == nil"), so a pair that is closed twice is given to one user
\* only: no pair is spliced through by two bodies at a time.
OneUser == \A p \in DOMAIN pair :
    Cardinality({g \in {enc, dec} : g.pair = p /\ g.pc # "close"})
    + Cardinality({i \in DOMAIN delivered : delivered[i].pair = p}) <= 1

\* usedCount is the number of pairs that are not in the pool and of the calls of
\* get that gave none, on every path of encode, decode and Close.
UsedCountExact == usedCount = (Len(pair) - Len(unused)) + missed

\* A pair that waits in the pool is empty: what a body left in it, unread or
\* beyond Body.Size, is not in front of the next body.
UnusedIsEmpty == \A i \in DOMAIN unused : pair[unused[i]].data = <<>>

\* The two ways in which iorpc loses the boundaries of messages: a start line that
\* announces a body without a Reader, and a load that failed after some bytes.
Misframed == \/ torn # {}
             \/ \E m \in ToSet(taken) : Size[m] > 0 /\ Kind[m] = "none"

\* In no other way does the decoder take the bytes of one part of a message for
\* another, however headers were buffered and bodies spliced or copied.
InSync == dec.pc = "garbled" => Misframed

\* The body of a delivered message that the application holds: read and unread.
BodyOf(d) == d.data \o (IF d.pair = NoPair THEN <<>> ELSE pair[d.pair].data)

\* The message whose reader the bytes of m's body come from.
Root(m) == IF Kind[m] = "pipe" THEN From[m] ELSE m

\* The body that m names: Size bytes, of a file from Offset if it was spliced, and
\* from the reader's position if it was copied, which is not its beginning if a
\* load has failed before.
Named(m, place) == [i \in 1 .. Size[m] |-> Unit(Root(m), "body", place + i)]
Places(m) == {Offset[Root(m)], 0}
             \cup (IF Root(m) \in shifted THEN 0 .. Size[m] ELSE {})

\* As long as the boundaries are not lost, messages are delivered in the order in
\* which they were encoded, each with bytes of its own body and from one place, and
\* with all of them if the body was copied or the connection has not ended.
DeliveredInOrder == ~Misframed =>
    /\ IsPrefix([i \in DOMAIN delivered |-> delivered[i].m], taken)
    /\ \A i \in DOMAIN delivered : LET d == delivered[i] IN
          \E place \in Places(d.m) :
             /\ IsPrefix(BodyOf(d), Named(d.m, place))
             /\ d.st = "open" /\ (conn = "open" \/ d.pair = NoPair)
                => BodyOf(d) = Named(d.m, place)

\* Both ends have the same numbers in ConnStats whenever nothing is on the way.
StatsAgree ==
    (/\ enc.pc = "idle" /\ buf = <<>> /\ wire = <<>> /\ conn = "open"
     /\ dec.pc = "start" /\ ~Misframed)
    => /\ stat["HeadRead"] = stat["HeadWritten"]
       /\ stat["BodyRead"] = stat["BodyWritten"]
       /\ stat["ReadCalls"] = stat["WriteCalls"]
       /\ stat["WriteCalls"] = Len(taken)

\* The encoder splices from a pipe that has less than Body.Size.
Starved == enc.pc = "write" /\ enc.n < Size[Current] /\ pair[enc.pair].data = <<>>

\* A message that was encoded is delivered, unless the connection ends, the message
\* boundaries are lost, or the writer waits for ever for a file or a connection
\* that is shorter than Size.
Arrives == \A m \in Msgs :
    m \in ToSet(taken) ~> \/ \E i \in DOMAIN delivered : delivered[i].m = m
                          \/ conn # "open" \/ Misframed \/ Starved
=============================================================================
