-------------------------- MODULE RpcServerProofs --------------------------
(***************************************************************************)
(* Proofs about RpcServer, for every number of connections, requests and   *)
(* serverMessage objects and all capacities of its channels.               *)
(***************************************************************************)
EXTENDS RpcServer, FiniteSetTheorems, TLAPS

-----------------------------------------------------------------------------
(* The inductive invariant.                                                 *)

\* Only a server that was started has connections.
LifeInv ==
    /\ acceptor.pc = "accepted" => acceptor.conn \in Conns
    /\ acceptor.pc # "stopped" => starts > 0
    /\ \A k \in Conns : conn[k] # "none" \/ reader[k].pc # "off" => starts > 0

\* Nobody but its holder has a serverMessage.
Unused(o) == o \in pool \/ o \in fresh
Queued(o) == \E k \in Conns : \E i \in 1 .. Len(responsesChan[k]) :
                 responsesChan[k][i] = o
ReaderOwns(k) ==
    /\ ~Unused(reader[k].m) /\ ~Queued(reader[k].m)
    /\ \A l \in Conns : reader[l].m = reader[k].m => l = k
    /\ \A r \in Reqs : worker[r].m # reader[k].m
WorkerOwns(r) ==
    /\ ~Unused(worker[r].m) /\ ~Queued(worker[r].m)
    /\ \A q \in Reqs : worker[q].m = worker[r].m => q = r
ChanOwns ==
    \A k, l \in Conns :
        \A i \in 1 .. Len(responsesChan[k]), j \in 1 .. Len(responsesChan[l]) :
            /\ ~Unused(responsesChan[k][i])
            /\ responsesChan[k][i] = responsesChan[l][j] => k = l /\ i = j
OwnerInv ==
    /\ \A k \in Conns : reader[k].m # NoObj => ReaderOwns(k)
    /\ \A r \in Reqs : worker[r].m # NoObj => WorkerOwns(r)
    /\ ChanOwns

\* A request that nobody serves yet.
Unserved(k, r) == r \in sent /\ Origin[r] = k /\ worker[r].pc = "none"

\* The requests in a stream are distinct and unserved.
StreamInv ==
    \A k \in Conns : \A i \in 1 .. Len(stream[k]) :
        /\ Unserved(k, stream[k][i])
        /\ \A j \in 1 .. Len(stream[k]) : stream[k][i] = stream[k][j] => i = j

\* So is the one that the reader has, which is in its stream no longer.
IDOf(r) == IF r \in Skip THEN NoReq ELSE r
ReaderInv ==
    \A k \in Conns :
        IF reader[k].pc \in {"slot", "wait"}
        THEN LET m == heap[reader[k].m] IN
             /\ reader[k].m \in Objs
             /\ Unserved(k, m.req) /\ m.id = IDOf(m.req)
             /\ \A i \in 1 .. Len(stream[k]) : stream[k][i] # m.req
        ELSE reader[k].m = NoObj

\* m holds what the handler of r returned.
Answers(m, r) ==
    /\ m.id = r /\ m.req = NoReq
    /\ m.resp = IF worker[r].outcome = "ok" THEN r ELSE NoReq
    /\ m.err = (worker[r].outcome = "error")

\* What a worker finds in its message.
WorkerOK(r) ==
    LET o == worker[r].m IN
    /\ worker[r].pc # "none" => r \in sent /\ worker[r].gen \in 1 .. MaxStarts
    /\ worker[r].pc \in {"none", "release", "gone"} => o = NoObj
    /\ worker[r].pc = "start" => o \in Objs /\ heap[o].id = IDOf(r)
    /\ worker[r].pc = "handler" =>
          IF r \in Skip THEN o = NoObj
          ELSE o \in Objs /\ heap[o].id = r /\ heap[o].req = NoReq
    /\ worker[r].pc \in {"reply", "wait"} =>
          r \notin Skip /\ o \in Objs /\ Answers(heap[o], r)
WorkerInv == \A r \in Reqs : WorkerOK(r)

\* r is a request of connection k that was served and may be answered.
Served(k, r) == /\ r \in Reqs \ Skip /\ Origin[r] = k
                /\ worker[r].pc \in {"release", "gone"}

\* What is on its way to the client is an answer to a request of its own.
ChanInv ==
    \A k \in Conns : \A i \in 1 .. Len(responsesChan[k]) :
        LET m == heap[responsesChan[k][i]] IN Served(k, m.id) /\ Answers(m, m.id)
Sound(k, w) == Served(k, w.id) /\ w = ReplyTo(w.id)
WriterInv ==
    \A k \in Conns :
        /\ writer[k].pc \in {"select", "block", "flush"} =>
              writer[k].wr.hdr = NoReq /\ writer[k].wr.body = NoReq
        /\ writer[k].pc = "encode" => Sound(k, writer[k].wr)
        /\ \A w \in writer[k].buf \cup out[k] : Sound(k, w)

\* And it is so in one place only.
ChanOnce(k) ==
    \A i \in 1 .. Len(responsesChan[k]) :
        LET id == heap[responsesChan[k][i]].id IN
        /\ \A j \in 1 .. Len(responsesChan[k]) :
              heap[responsesChan[k][j]].id = id => i = j
        /\ writer[k].pc = "encode" => writer[k].wr.id # id
        /\ writer[k].pc # "done" => \A w \in writer[k].buf : w.id # id
        /\ \A w \in out[k] : w.id # id
WriterOnce(k) ==
    /\ writer[k].pc = "encode" =>
          \A w \in writer[k].buf \cup out[k] : w.id # writer[k].wr.id
    /\ writer[k].pc # "done" =>
          \A w \in writer[k].buf, v \in out[k] : w.id # v.id
OnceInv == \A k \in Conns : ChanOnce(k) /\ WriterOnce(k)

\* The workers that hold a slot of the g-th Start are finitely many.
Running(g) == {r \in Reqs :
                 worker[r].gen = g /\ worker[r].pc \notin {"none", "gone"}}
SlotsInv == \A g \in 1 .. MaxStarts :
    IsFiniteSet(Running(g)) /\ workersCh[g] = Cardinality(Running(g))

\* Until the writer flushes or fails, what it buffered has a flush scheduled.
FlushInv == \A k \in Conns :
    /\ writer[k].pc = "encode" => writer[k].armed
    /\ writer[k].pc \in {"select", "block", "flush"} /\ writer[k].buf # {} =>
          writer[k].armed

MsgInv == OwnerInv /\ StreamInv /\ ReaderInv /\ WorkerInv /\ ChanInv /\ WriterInv
          /\ OnceInv /\ PooledIsClean /\ SlotsInv /\ FlushInv
IInv == TypeOK /\ LifeInv /\ MsgInv

-----------------------------------------------------------------------------
(* The server's life, the clients and the handshake.                        *)

\* A server that was never started.
LEMMA InitIInv == Init => IInv
<1> SUFFICES ASSUME Init PROVE IInv
  OBVIOUS
<1>1. TypeOK
  <2>1. NewReader("off") \in Reader /\ NewWorker \in Worker
    BY DEF Reader, NewReader, Worker, NewWorker, Outcome, ObjOrNone
  <2>2. NewMessage \in ServerMessage
    BY DEF ServerMessage, NewMessage, ReqOrNone
  <2>3. NewWriter("off") \in Writer
    BY DEF Writer, NewWriter, WireResponse, NoResponse, ReqOrNone
  <2>4. acceptor \in Acceptor
    BY DEF Init, Acceptor
  <2>5. /\ responsesChan \in [Conns -> Seq(Objs)] /\ stream \in [Conns -> Seq(Reqs)]
        /\ \A k \in Conns : Len(responsesChan[k]) <= PendingResponses
    BY ServerAssumption DEF Init
  <2>6. starts \in 0 .. MaxStarts /\ faults \in 0 .. MaxFaults
    BY ServerAssumption DEF Init
  <2>7. workersCh \in [1 .. MaxStarts -> 0 .. Concurrency]
    BY ServerAssumption DEF Init
  <2> QED
    BY <2>1, <2>2, <2>3, <2>4, <2>5, <2>6, <2>7 DEF Init, TypeOK
<1>2. LifeInv
  BY DEF Init, LifeInv, NewReader
<1>3. /\ \A k \in Conns : /\ reader[k].pc = "off" /\ reader[k].m = NoObj
                          /\ stream[k] = <<>> /\ responsesChan[k] = <<>>
                          /\ writer[k].pc = "off" /\ writer[k].buf = {} /\ out[k] = {}
      /\ \A r \in Reqs : worker[r].pc = "none" /\ worker[r].m = NoObj
      /\ pool = {}
  BY DEF Init, NewReader, NewWorker, NewWriter
<1>4. OwnerInv /\ StreamInv /\ ReaderInv /\ WorkerInv
  BY <1>3 DEF OwnerInv, ChanOwns, StreamInv, ReaderInv, WorkerInv, WorkerOK
<1>5. ChanInv /\ WriterInv /\ OnceInv /\ PooledIsClean /\ FlushInv
  BY <1>3 DEF ChanInv, WriterInv, OnceInv, ChanOnce, WriterOnce, PooledIsClean, FlushInv
<1>6. SlotsInv
  <2>1. \A g : Running(g) = {}
    BY <1>3 DEF Running
  <2> QED
    BY <2>1, FS_EmptySet DEF Init, SlotsInv
<1> QED
  BY <1>1, <1>2, <1>4, <1>5, <1>6 DEF IInv, MsgInv

\* What the messages' invariant speaks of.
msgVars == <<stream, sent, reader, workVars, memVars, responsesChan, writer, out>>

\* Each part of it holds on as long as the variables that it mentions.
LEMMA Frames ==
    ASSUME MsgInv
    PROVE  /\ UNCHANGED <<reader, worker, pool, fresh, responsesChan>> => OwnerInv'
           /\ UNCHANGED <<stream, sent, worker>> => StreamInv'
           /\ UNCHANGED <<stream, sent, worker, heap, reader>> => ReaderInv'
           /\ UNCHANGED <<sent, worker, heap>> => WorkerInv'
           /\ UNCHANGED <<worker, heap, responsesChan>> => ChanInv'
           /\ UNCHANGED <<worker, writer, out>> => WriterInv'
           /\ UNCHANGED <<heap, responsesChan, writer, out>> => OnceInv'
           /\ UNCHANGED <<heap, pool>> => PooledIsClean'
           /\ UNCHANGED workVars => SlotsInv'
           /\ UNCHANGED writer => FlushInv'
<1> USE DEF MsgInv
<1>1. UNCHANGED <<reader, worker, pool, fresh, responsesChan>> => OwnerInv'
  BY DEF OwnerInv, ReaderOwns, WorkerOwns, ChanOwns,
     Unused, Queued
<1>2. /\ UNCHANGED <<stream, sent, worker>> => StreamInv'
      /\ UNCHANGED <<stream, sent, worker, heap, reader>> => ReaderInv'
  BY DEF StreamInv, ReaderInv, Unserved
<1>3. /\ UNCHANGED <<sent, worker, heap>> => WorkerInv'
      /\ UNCHANGED <<worker, heap, responsesChan>> => ChanInv'
  BY DEF WorkerInv, WorkerOK, ChanInv, Answers, Served
<1>4. UNCHANGED <<worker, writer, out>> => WriterInv'
  BY DEF WriterInv, Sound, Served, ReplyTo
<1>5. /\ UNCHANGED <<heap, responsesChan, writer, out>> => OnceInv'
      /\ UNCHANGED <<heap, pool>> => PooledIsClean'
  BY DEF OnceInv, ChanOnce, WriterOnce, PooledIsClean
<1>6. /\ UNCHANGED workVars => SlotsInv'
      /\ UNCHANGED writer => FlushInv'
  BY DEF SlotsInv, Running, FlushInv, workVars
<1> QED
  BY <1>1, <1>2, <1>3, <1>4, <1>5, <1>6

\* Start, Stop, the accept loop, and connections that come and go.
QuietStep ==
    \/ Start \/ StartFail \/ Stop \/ StopReturn \/ serverHandler
    \/ \E k \in Conns : \/ ClientConnect(k) \/ ClientClose(k)
                        \/ ClientStall(k) \/ ClientResume(k)
                        \/ HandshakeFail(k) \/ ConnClose(k) \/ ConnDone(k)

\* None of them touches a message.
LEMMA QuietIInv ==
    ASSUME IInv, QuietStep
    PROVE  IInv'
<1> USE DEF lifeVars, clientVars
<1>0. TypeOK /\ LifeInv /\ MsgInv
  BY DEF IInv
<1>1. UNCHANGED msgVars
  BY DEF QuietStep, Start, StartFail, Stop, StopReturn, serverHandler, AcceptConn, AcceptFail,
     AcceptorServe, AcceptorBackoff, AcceptorStop, ClientConnect, ClientClose,
     ClientStall, ClientResume, HandshakeFail, ConnClose, ConnDone, msgVars
<1>2. MsgInv'
  BY <1>0, <1>1, Frames DEF MsgInv, msgVars, workVars, memVars
<1>3. ASSUME UNCHANGED <<msgVars, faults>>,
             stopChan' \in {"nil", "open", "closed"}, starts' \in 0 .. MaxStarts,
             bound' \in BOOLEAN, listening' \in BOOLEAN, acceptor' \in Acceptor,
             sock' \in [Conns -> {"none", "open", "eof", "closed"}],
             stalled' \subseteq Conns,
             conn' \in [Conns -> {"none", "handshake", "serving", "closing", "done"}]
      PROVE  TypeOK'
  BY <1>0, <1>3 DEF TypeOK, msgVars, workVars, memVars
<1>4. CASE Start \/ StartFail
  <2>0. bound' \in BOOLEAN /\ listening' \in BOOLEAN
    BY <1>0, <1>4, Zenon DEF TypeOK, Start, StartFail
  <2>1. TypeOK'
    BY <1>0, <1>1, <1>3, <1>4, <2>0, ServerAssumption, SMTT(30)
       DEF TypeOK, Start, StartFail, Acceptor
  <2>2. LifeInv'
    BY <1>0, <1>4 DEF TypeOK, LifeInv, Start, StartFail
  <2> QED
    BY <1>2, <2>1, <2>2 DEF IInv
<1>5. CASE Stop \/ StopReturn
  <2>1. TypeOK'
    BY <1>0, <1>1, <1>3, <1>5 DEF TypeOK, Stop, StopReturn
  <2>2. LifeInv'
    BY <1>0, <1>5 DEF LifeInv, Stop, StopReturn
  <2> QED
    BY <1>2, <2>1, <2>2 DEF IInv
<1>6. CASE serverHandler
  <2>1. TypeOK'
    <3>1. UNCHANGED <<stopChan, starts, faults>>
      BY <1>6 DEF serverHandler, AcceptConn, AcceptFail, AcceptorServe, AcceptorBackoff,
         AcceptorStop
    <3>2. bound' \in BOOLEAN /\ listening' \in BOOLEAN
      <4>1. bound \in BOOLEAN /\ listening \in BOOLEAN
        BY <1>0 DEF TypeOK
      <4>2. CASE UNCHANGED <<bound, listening>>
        BY <4>1, <4>2
      <4>3. CASE listening' = FALSE /\ bound' = (bound /\ ~Relisten)
        BY <4>3, Zenon
      <4> QED
        BY <1>6, <4>2, <4>3 DEF serverHandler, AcceptConn, AcceptFail,
           AcceptorServe, AcceptorBackoff, AcceptorStop
    <3>3. acceptor' \in Acceptor
      <4>1. acceptor \in Acceptor
        BY <1>0 DEF TypeOK
      <4>2. CASE AcceptFail \/ AcceptorBackoff
        BY <4>1, <4>2 DEF AcceptFail, AcceptorBackoff, Acceptor
      <4>3. CASE AcceptorServe \/ AcceptorStop \/ \E k \in Conns : AcceptConn(k)
        BY <4>3 DEF AcceptConn, AcceptorServe, AcceptorStop, Acceptor
      <4> QED
        BY <1>6, <4>2, <4>3 DEF serverHandler
    <3>4. sock' \in [Conns -> {"none", "open", "eof", "closed"}]
      BY <1>0, <1>6 DEF TypeOK, serverHandler, AcceptConn, AcceptFail, AcceptorServe,
         AcceptorBackoff, AcceptorStop
    <3>5. conn' \in [Conns -> {"none", "handshake", "serving", "closing", "done"}]
      BY <1>0, <1>6 DEF TypeOK, serverHandler, AcceptConn, AcceptFail, AcceptorServe,
         AcceptorBackoff, AcceptorStop
    <3>6. stalled' \subseteq Conns
      BY <1>0, <1>6 DEF TypeOK, serverHandler, AcceptConn, AcceptFail, AcceptorServe,
         AcceptorBackoff, AcceptorStop
    <3> QED
      BY <1>0, <1>1, <1>3, <3>1, <3>2, <3>3, <3>4, <3>5, <3>6 DEF TypeOK
  <2>2. LifeInv'
    BY <1>0, <1>6 DEF TypeOK, Acceptor, LifeInv, serverHandler, AcceptConn, AcceptFail,
       AcceptorServe, AcceptorBackoff, AcceptorStop
  <2> QED
    BY <1>2, <2>1, <2>2 DEF IInv
<1>7. ASSUME NEW k \in Conns, \/ ClientConnect(k) \/ ClientClose(k)
                              \/ ClientStall(k) \/ ClientResume(k)
                              \/ HandshakeFail(k) \/ ConnClose(k) \/ ConnDone(k)
      PROVE  IInv'
  <2>1. TypeOK'
    BY <1>0, <1>1, <1>3, <1>7 DEF TypeOK, ClientConnect, ClientClose, ClientStall,
       ClientResume, HandshakeFail, ConnClose, ConnDone
  <2>2. LifeInv'
    BY <1>0, <1>7 DEF TypeOK, LifeInv, ClientConnect, ClientClose, ClientStall,
       ClientResume, HandshakeFail, ConnClose, ConnDone
  <2> QED
    BY <1>2, <2>1, <2>2 DEF IInv
<1> QED
  BY <1>4, <1>5, <1>6, <1>7 DEF QuietStep

\* Workers that have replied keep what they replied.
RepliesKept == \A r \in Reqs : worker[r].pc \in {"release", "gone"} =>
    worker'[r].pc \in {"release", "gone"} /\ worker'[r].outcome = worker[r].outcome

\* So what is on its way to the client stays sound.
LEMMA SoundKept ==
    ASSUME UNCHANGED worker \/ RepliesKept
    PROVE  /\ \A k, w : Sound(k, w) => Sound(k, w)'
           /\ \A k, m : Served(k, m.id) /\ Answers(m, m.id) =>
                 Served(k, m.id)' /\ Answers(m, m.id)'
BY DEF RepliesKept, Sound, Served, ReplyTo, Answers

-----------------------------------------------------------------------------
(* Channels and streams: sequences, one per connection.                     *)

\* A send puts x behind what is there.
LEMMA AppendAt ==
    ASSUME NEW S, NEW D, NEW f \in [D -> Seq(S)], NEW k \in D, NEW x \in S,
           NEW g, g = [f EXCEPT ![k] = Append(@, x)]
    PROVE  /\ g \in [D -> Seq(S)]
           /\ \A l \in D : l # k => g[l] = f[l]
           /\ Len(f[k]) \in Nat /\ Len(g[k]) = Len(f[k]) + 1
           /\ \A i \in 1 .. Len(f[k]) : g[k][i] = f[k][i]
           /\ g[k][Len(f[k]) + 1] = x
OBVIOUS

\* A receive takes the first element.
LEMMA TailAt ==
    ASSUME NEW S, NEW D, NEW f \in [D -> Seq(S)], NEW k \in D, f[k] # <<>>,
           NEW g, g = [f EXCEPT ![k] = Tail(@)]
    PROVE  /\ g \in [D -> Seq(S)]
           /\ \A l \in D : l # k => g[l] = f[l]
           /\ Len(f[k]) \in Nat \ {0} /\ Len(g[k]) = Len(f[k]) - 1
           /\ \A i \in 1 .. Len(g[k]) : i + 1 \in 1 .. Len(f[k]) /\ g[k][i] = f[k][i + 1]
           /\ Head(f[k]) = f[k][1] /\ Head(f[k]) \in S /\ 1 \in 1 .. Len(f[k])
OBVIOUS

-----------------------------------------------------------------------------
(* Requests arrive.                                                         *)

\* A client sends a request that it never sent before.
LEMMA ClientSendIInv ==
    ASSUME IInv, NEW r \in Reqs, ClientSend(r)
    PROVE  IInv'
<1> USE DEF lifeVars, workVars, memVars
<1>0. TypeOK /\ LifeInv /\ MsgInv /\ StreamInv /\ ReaderInv /\ WorkerInv
  BY DEF IInv, MsgInv
<1>1. Origin[r] \in Conns
  BY ServerAssumption
<1>2. /\ stream' \in [Conns -> Seq(Reqs)]
      /\ \A l \in Conns : l # Origin[r] => stream'[l] = stream[l]
      /\ Len(stream[Origin[r]]) \in Nat
      /\ Len(stream'[Origin[r]]) = Len(stream[Origin[r]]) + 1
      /\ \A i \in 1 .. Len(stream[Origin[r]]) :
             stream'[Origin[r]][i] = stream[Origin[r]][i]
      /\ stream'[Origin[r]][Len(stream[Origin[r]]) + 1] = r
  BY <1>0, <1>1, AppendAt DEF ClientSend, TypeOK
<1>3. TypeOK'
  BY <1>0, <1>2 DEF ClientSend, TypeOK
<1>4. LifeInv'
  BY <1>0 DEF LifeInv, ClientSend
<1>5. worker[r].pc = "none" /\ r \notin sent /\ sent' = sent \cup {r} /\ UNCHANGED worker
  BY <1>0 DEF WorkerInv, WorkerOK, ClientSend
<1>6. StreamInv'
  <2> SUFFICES ASSUME NEW k \in Conns, NEW i \in 1 .. Len(stream'[k])
               PROVE  /\ Unserved(k, stream[k][i])'
                      /\ \A j \in 1 .. Len(stream'[k]) :
                            stream'[k][i] = stream'[k][j] => i = j
    BY DEF StreamInv
  <2>1. CASE k # Origin[r]
    BY <1>0, <1>2, <1>5, <2>1 DEF StreamInv, Unserved
  <2>2. CASE k = Origin[r]
    <3>1. \A j \in 1 .. Len(stream'[k]) :
              \/ j \in 1 .. Len(stream[k]) /\ stream'[k][j] = stream[k][j]
              \/ j = Len(stream[k]) + 1 /\ stream'[k][j] = r
      BY <1>2, <2>2
    <3>2. \A j \in 1 .. Len(stream[k]) :
              /\ Unserved(k, stream[k][j]) /\ stream[k][j] # r
              /\ \A h \in 1 .. Len(stream[k]) : stream[k][j] = stream[k][h] => j = h
      BY <1>0, <1>5 DEF StreamInv, Unserved
    <3>3. Unserved(k, r)' /\ \A x : Unserved(k, x) => Unserved(k, x)'
      BY <1>5, <2>2 DEF Unserved
    <3> QED
      BY <3>1, <3>2, <3>3 DEF Unserved
  <2> QED
    BY <2>1, <2>2
<1>7. ReaderInv'
  <2> SUFFICES ASSUME NEW k \in Conns, reader[k].pc \in {"slot", "wait"},
                      NEW i \in 1 .. Len(stream'[k])
               PROVE  stream'[k][i] # heap[reader[k].m].req
    BY <1>0, <1>5 DEF ReaderInv, Unserved, ClientSend
  <2>1. heap[reader[k].m].req \in sent /\ heap[reader[k].m].req # r
    BY <1>0, <1>5 DEF ReaderInv, Unserved
  <2>2. \A j \in 1 .. Len(stream[k]) : stream[k][j] # heap[reader[k].m].req
    BY <1>0 DEF ReaderInv
  <2>3. CASE k = Origin[r]
    <3>1. \/ i \in 1 .. Len(stream[k]) /\ stream'[k][i] = stream[k][i]
          \/ stream'[k][i] = r
      BY <1>2, <2>3
    <3> QED
      BY <2>1, <2>2, <3>1
  <2>4. CASE k # Origin[r]
    BY <1>2, <2>2, <2>4
  <2> QED
    BY <2>3, <2>4
<1>8. WorkerInv'
  BY <1>0, <1>5 DEF WorkerInv, WorkerOK, ClientSend, Answers
<1> QED
  BY <1>0, <1>3, <1>4, <1>6, <1>7, <1>8, Frames DEF IInv, MsgInv, ClientSend

\* A connection gets its reader and its writer.
LEMMA HandshakeOkIInv ==
    ASSUME IInv, NEW k \in Conns, HandshakeOk(k)
    PROVE  IInv'
<1> USE DEF lifeVars, clientVars, workVars, memVars
<1>0. TypeOK /\ LifeInv /\ MsgInv
  BY DEF IInv
<1>1. TypeOK'
  <2>1. NewReader("read") \in Reader
    BY DEF Reader, NewReader, ObjOrNone
  <2>2. NewWriter("select") \in Writer
    BY DEF Writer, NewWriter, WireResponse, NoResponse, ReqOrNone
  <2>3. /\ conn' \in [Conns -> {"none", "handshake", "serving", "closing", "done"}]
        /\ reader' \in [Conns -> Reader] /\ writer' \in [Conns -> Writer]
    BY <1>0, <2>1, <2>2 DEF TypeOK, HandshakeOk
  <2> QED
    BY <1>0, <2>3 DEF TypeOK, HandshakeOk
<1>2. LifeInv'
  BY <1>0 DEF TypeOK, LifeInv, HandshakeOk
<1>3. /\ reader'[k] = NewReader("read") /\ writer'[k] = NewWriter("select")
      /\ \A l \in Conns : l # k => reader'[l] = reader[l] /\ writer'[l] = writer[l]
  BY <1>0 DEF TypeOK, HandshakeOk
<1>4. OwnerInv'
  BY <1>0, <1>3 DEF MsgInv, OwnerInv, ReaderOwns, WorkerOwns, ChanOwns,
     Unused, Queued, NewReader, HandshakeOk
<1>5. ReaderInv'
  BY <1>0, <1>3 DEF MsgInv, ReaderInv, Unserved, NewReader, HandshakeOk
<1>6. WriterInv'
  BY <1>0, <1>3, SoundKept DEF MsgInv, WriterInv, NewWriter, NoResponse, HandshakeOk
<1>7. OnceInv'
  BY <1>0, <1>3 DEF MsgInv, OnceInv, ChanOnce, WriterOnce, NewWriter, HandshakeOk
<1>8. FlushInv'
  BY <1>0, <1>3 DEF MsgInv, FlushInv, NewWriter, HandshakeOk
<1> QED
  BY <1>0, <1>1, <1>2, <1>4, <1>5, <1>6, <1>7, <1>8, Frames DEF IInv, MsgInv, HandshakeOk

-----------------------------------------------------------------------------
(* serverReader.                                                            *)

\* The operations on a serverMessage stay within its type.
LEMMA ReceivedType ==
    ASSUME NEW m \in ServerMessage, NEW r \in Reqs
    PROVE  /\ Received(m, r) \in ServerMessage
           /\ Received(m, r).req = r /\ Received(m, r).id = IDOf(r)
BY DEF Received, IDOf, ServerMessage, ReqOrNone

\* Clearing a message for its next use keeps the request and drops the answer.
LEMMA ClearedType ==
    ASSUME NEW m \in ServerMessage
    PROVE  /\ Cleared(m) \in ServerMessage
           /\ Cleared(m).req = m.req /\ Cleared(m).resp = NoReq /\ ~Cleared(m).err
BY DEF Cleared, ServerMessage, ReqOrNone

\* What the handler's outcome leaves in a message.
LEMMA FinishedType ==
    ASSUME NEW m \in ServerMessage, NEW r \in Reqs, NEW outcome \in Outcome
    PROVE  LET n == Finished(m, r, outcome) IN
           /\ n \in ServerMessage /\ n.id = m.id /\ n.req = m.req
           /\ n.resp = IF outcome = "ok" THEN r ELSE NoReq
           /\ n.err = (outcome = "error")
<1>1. PICK b \in BOOLEAN : b = (outcome = "error")
  BY Zenon
<1>2. Finished(m, r, outcome) =
          [m EXCEPT !.resp = IF outcome = "ok" THEN r ELSE NoReq, !.err = b]
  BY <1>1, Zenon DEF Finished
<1>3. Finished(m, r, outcome).err = b
  BY <1>2 DEF ServerMessage
<1>4. Finished(m, r, outcome).err = (outcome = "error")
  BY <1>1, <1>3, Zenon
<1> QED
  BY <1>2, <1>4 DEF ServerMessage, ReqOrNone

\* A change of one message does not matter to those who have another one.
LEMMA HeapFrame ==
    ASSUME TypeOK, MsgInv, NEW o, \A p \in Objs : p # o => heap'[p] = heap[p]
    PROVE  /\ UNCHANGED <<sent, worker>> /\ (\A r \in Reqs : worker[r].m # o)
                 => WorkerInv'
           /\ UNCHANGED <<worker, responsesChan>> /\ ~Queued(o) => ChanInv'
           /\ UNCHANGED <<responsesChan, writer, out>> /\ ~Queued(o) => OnceInv'
           /\ UNCHANGED <<reader, stream, sent, worker>>
                 /\ (\A k \in Conns : reader[k].m # o) => ReaderInv'
<1>1. /\ \A k \in Conns : reader[k].m \in ObjOrNone
      /\ \A r \in Reqs : worker[r].m \in ObjOrNone
      /\ \A k \in Conns : \A i \in 1 .. Len(responsesChan[k]) : responsesChan[k][i] \in Objs
  BY DEF TypeOK, Reader, Worker
<1>2. ASSUME UNCHANGED <<sent, worker>>, \A r \in Reqs : worker[r].m # o
      PROVE  WorkerInv'
  <2>1. \A r \in Reqs : worker[r].m \in Objs => heap'[worker[r].m] = heap[worker[r].m]
    BY <1>2
  <2> QED
    BY <1>2, <2>1 DEF MsgInv, WorkerInv, WorkerOK, Answers
<1>3. ASSUME ~Queued(o), UNCHANGED responsesChan
      PROVE  \A k \in Conns : \A i \in 1 .. Len(responsesChan[k]) :
                heap'[responsesChan[k][i]] = heap[responsesChan[k][i]]
  BY <1>1, <1>3 DEF Queued
<1>4. ASSUME UNCHANGED <<worker, responsesChan>>, ~Queued(o)
      PROVE  ChanInv'
  BY <1>3, <1>4 DEF MsgInv, ChanInv, Served, Answers
<1>5. ASSUME UNCHANGED <<responsesChan, writer, out>>, ~Queued(o)
      PROVE  OnceInv'
  BY <1>3, <1>5 DEF MsgInv, OnceInv, ChanOnce, WriterOnce
<1>6. ASSUME UNCHANGED <<reader, stream, sent, worker>>, \A k \in Conns : reader[k].m # o
      PROVE  ReaderInv'
  <2>1. \A k \in Conns : reader[k].m \in Objs => heap'[reader[k].m] = heap[reader[k].m]
    BY <1>6
  <2> QED
    BY <1>6, <2>1 DEF MsgInv, ReaderInv, Unserved
<1> QED
  BY <1>2, <1>4, <1>5, <1>6

\* The reader takes a message out of the pool and a request out of the stream.
LEMMA ReaderDecodeIInv ==
    ASSUME IInv, NEW k \in Conns, ReaderDecode(k)
    PROVE  IInv'
<1> USE DEF lifeVars, workVars, memVars
<1>0. /\ TypeOK /\ LifeInv /\ MsgInv /\ OwnerInv /\ StreamInv /\ ReaderInv /\ WorkerInv
      /\ ChanInv /\ WriterInv /\ OnceInv /\ PooledIsClean /\ SlotsInv /\ FlushInv
  BY DEF IInv, MsgInv
<1> DEFINE r == Head(stream[k])
<1>1. PICK o \in pool \cup fresh :
        /\ pool' = pool \ {o} /\ fresh' = fresh \ {o}
        /\ heap' = [heap EXCEPT ![o] = Received(@, r)]
        /\ reader' = [reader EXCEPT ![k] = [pc |-> "slot", m |-> o]]
  BY DEF ReaderDecode
<1>2. /\ stream' \in [Conns -> Seq(Reqs)]
      /\ \A l \in Conns : l # k => stream'[l] = stream[l]
      /\ Len(stream[k]) \in Nat \ {0} /\ Len(stream'[k]) = Len(stream[k]) - 1
      /\ \A i \in 1 .. Len(stream'[k]) :
            i + 1 \in 1 .. Len(stream[k]) /\ stream'[k][i] = stream[k][i + 1]
      /\ r = stream[k][1] /\ r \in Reqs /\ 1 \in 1 .. Len(stream[k])
  BY <1>0, TailAt DEF TypeOK, ReaderDecode
<1> HIDE DEF r
<1>3. /\ o \in Objs /\ Received(heap[o], r) \in ServerMessage
      /\ Received(heap[o], r).req = r /\ Received(heap[o], r).id = IDOf(r)
  <2>1. o \in Objs /\ heap[o] \in ServerMessage
    BY <1>0, <1>1 DEF TypeOK
  <2> QED
    BY <1>2, <2>1, ReceivedType
<1>4. /\ heap' \in [Objs -> ServerMessage] /\ heap'[o] = Received(heap[o], r)
      /\ \A p \in Objs : p # o => heap'[p] = heap[p]
      /\ reader' \in [Conns -> Reader] /\ reader'[k] = [pc |-> "slot", m |-> o]
      /\ \A l \in Conns : l # k => reader'[l] = reader[l]
  BY <1>0, <1>1, <1>3 DEF TypeOK, Reader, ObjOrNone
<1>5. TypeOK'
  BY <1>0, <1>1, <1>2, <1>4 DEF TypeOK, ReaderDecode
<1>6. LifeInv'
  BY <1>0, <1>4 DEF LifeInv, ReaderDecode
<1>7. /\ ~Queued(o) /\ o # NoObj
      /\ \A l \in Conns : reader[l].m # o
      /\ \A q \in Reqs : worker[q].m # o
  BY <1>0, <1>1, <1>3, ServerAssumption DEF OwnerInv, ReaderOwns, WorkerOwns, ChanOwns,
     Unused, Queued
<1>8. OwnerInv'
  <2>1. \A p : Unused(p)' => Unused(p) /\ p # o
    BY <1>1 DEF Unused
  <2>2. \A p : Queued(p)' <=> Queued(p)
    BY DEF Queued, ReaderDecode
  <2>3. UNCHANGED <<worker, responsesChan>> /\ reader'[k].m = o
    BY <1>4 DEF ReaderDecode
  <2> QED
    BY <1>0, <1>4, <1>7, <2>1, <2>2, <2>3 DEF OwnerInv, ReaderOwns, WorkerOwns, ChanOwns
<1>9. UNCHANGED <<sent, worker>> /\ \A l, x : Unserved(l, x)' <=> Unserved(l, x)
  BY DEF ReaderDecode, Unserved
<1>10. StreamInv'
  <2> SUFFICES ASSUME NEW l \in Conns, NEW i \in 1 .. Len(stream'[l])
               PROVE  /\ Unserved(l, stream'[l][i])
                      /\ \A j \in 1 .. Len(stream'[l]) :
                            stream'[l][i] = stream'[l][j] => i = j
    BY <1>9 DEF StreamInv, Unserved
  <2>1. CASE l # k
    BY <1>0, <1>2, <2>1 DEF StreamInv
  <2>2. CASE l = k
    <3>1. Unserved(l, stream[l][i + 1])
      BY <1>0, <1>2, <2>2 DEF StreamInv
    <3>2. \A j \in 1 .. Len(stream'[l]) : stream[l][i + 1] = stream[l][j + 1] => i + 1 = j + 1
      BY <1>0, <1>2, <2>2 DEF StreamInv
    <3>3. \A j \in 1 .. Len(stream'[l]) : stream'[l][j] = stream[l][j + 1]
      BY <1>2, <2>2
    <3> QED
      BY <3>1, <3>2, <3>3
  <2> QED
    BY <2>1, <2>2
<1>11. ReaderInv'
  <2>1. \A l \in Conns : l # k /\ reader[l].m \in Objs => heap'[reader[l].m] = heap[reader[l].m]
    BY <1>4, <1>7
  <2>2. heap'[o].req = r /\ heap'[o].id = IDOf(r)
    BY <1>3, <1>4
  <2>3. Unserved(k, r)
    BY <1>0, <1>2 DEF StreamInv
  <2>4. \A i \in 1 .. Len(stream'[k]) : stream'[k][i] # r
    <3> SUFFICES ASSUME NEW i \in 1 .. Len(stream'[k]), stream[k][i + 1] = stream[k][1]
                 PROVE  FALSE
      BY <1>2
    <3>1. i + 1 = 1
      BY <1>0, <1>2 DEF StreamInv
    <3> QED
      BY <1>2, <3>1
  <2>5. UNCHANGED <<sent, worker>>
    BY <1>9
  <2> SUFFICES ASSUME NEW l \in Conns
               PROVE  IF reader'[l].pc \in {"slot", "wait"}
                      THEN LET m == heap'[reader'[l].m] IN
                           /\ reader'[l].m \in Objs
                           /\ Unserved(l, m.req) /\ m.id = IDOf(m.req)
                           /\ \A i \in 1 .. Len(stream'[l]) : stream'[l][i] # m.req
                      ELSE reader'[l].m = NoObj
    BY <2>5 DEF ReaderInv, Unserved
  <2>6. CASE l = k
    BY <1>3, <1>4, <2>2, <2>3, <2>4, <2>6
  <2>7. CASE l # k
    <3>1. reader'[l] = reader[l] /\ stream'[l] = stream[l]
      BY <1>2, <1>4, <2>7
    <3>2. CASE reader[l].pc \in {"slot", "wait"}
      <4>1. reader[l].m \in Objs /\ heap'[reader[l].m] = heap[reader[l].m]
        BY <1>0, <2>1, <2>7, <3>2 DEF ReaderInv
      <4> QED
        BY <1>0, <3>1, <3>2, <4>1 DEF ReaderInv
    <3>3. CASE reader[l].pc \notin {"slot", "wait"}
      BY <1>0, <3>1, <3>3 DEF ReaderInv
    <3> QED
      BY <3>2, <3>3
  <2> QED
    BY <2>6, <2>7
<1>12. WorkerInv' /\ ChanInv' /\ OnceInv'
  BY <1>0, <1>4, <1>7, HeapFrame DEF ReaderDecode
<1>13. PooledIsClean'
  BY <1>0, <1>1, <1>4 DEF PooledIsClean, TypeOK
<1> QED
  BY <1>0, <1>5, <1>6, <1>8, <1>10, <1>11, <1>12, <1>13, Frames
     DEF IInv, MsgInv, ReaderDecode

\* The reader fails, waits, or gives up its message.
LEMMA ReaderIdleIInv ==
    ASSUME IInv, NEW k \in Conns, ReaderFail(k) \/ ReaderBlock(k) \/ ReaderStop(k)
    PROVE  IInv'
<1> USE DEF lifeVars, clientVars, workVars, memVars
<1>0. TypeOK /\ LifeInv /\ MsgInv /\ OwnerInv /\ ReaderInv
  BY DEF IInv, MsgInv
<1>1. /\ UNCHANGED <<lifeVars, clientVars, conn, workVars, memVars, responsesChan, writer, out>>
      /\ faults' \in 0 .. MaxFaults
      /\ reader[k].pc # "off"
      /\ reader' \in [Conns -> Reader]
      /\ \A l \in Conns : l # k => reader'[l] = reader[l]
  <2>0. /\ reader \in [Conns -> Reader] /\ NewReader("done") \in Reader
        /\ \A x \in Reader, p \in {"done", "wait"} : [x EXCEPT !.pc = p] \in Reader
    BY <1>0 DEF TypeOK, Reader, ObjOrNone, NewReader
  <2>1. CASE ReaderFail(k)
    <3>1. faults' \in 0 .. MaxFaults
      BY <1>0, <2>1, ServerAssumption DEF TypeOK, ReaderFail, Fault
    <3> QED
      BY <2>0, <2>1, <3>1 DEF ReaderFail
  <2>2. CASE ReaderBlock(k)
    BY <1>0, <2>0, <2>2 DEF TypeOK, ReaderBlock
  <2>3. CASE ReaderStop(k)
    BY <1>0, <2>0, <2>3 DEF TypeOK, ReaderStop, ReaderGivesUp
  <2> QED
    BY <2>1, <2>2, <2>3
<1>2. \/ reader'[k].m = NoObj /\ reader'[k].pc \notin {"slot", "wait"}
      \/ /\ reader'[k].m = reader[k].m /\ reader'[k].pc \in {"slot", "wait"}
         /\ reader[k].pc \in {"slot", "wait"}
  <2>0. reader \in [Conns -> Reader] /\ (reader[k].pc = "read" => reader[k].m = NoObj)
    BY <1>0 DEF TypeOK, ReaderInv
  <2>1. CASE ReaderFail(k)
    BY <2>0, <2>1 DEF ReaderFail, Reader
  <2>2. CASE ReaderBlock(k)
    BY <2>0, <2>2 DEF ReaderBlock, Reader
  <2>3. CASE ReaderStop(k)
    BY <2>0, <2>3 DEF ReaderStop, NewReader, Reader
  <2> QED
    BY <2>1, <2>2, <2>3
<1>3. TypeOK'
  BY <1>0, <1>1 DEF TypeOK
<1>4. LifeInv'
  BY <1>0, <1>1 DEF LifeInv
<1>5. OwnerInv'
  <2>1. \A p : (Queued(p)' <=> Queued(p)) /\ (Unused(p)' <=> Unused(p))
    BY <1>1 DEF Queued, Unused
  <2> QED
    BY <1>0, <1>1, <1>2, <2>1 DEF OwnerInv, ReaderOwns, WorkerOwns, ChanOwns
<1>6. ReaderInv'
  BY <1>0, <1>1, <1>2 DEF ReaderInv, Unserved
<1> QED
  BY <1>0, <1>1, <1>3, <1>4, <1>5, <1>6, Frames DEF IInv, MsgInv

\* The reader has a slot, and the message becomes the worker's.
LEMMA ReaderSpawnIInv ==
    ASSUME IInv, NEW k \in Conns, ReaderSpawn(k)
    PROVE  IInv'
<1> USE DEF lifeVars, clientVars, memVars
<1>0. /\ TypeOK /\ LifeInv /\ MsgInv /\ OwnerInv /\ StreamInv /\ ReaderInv /\ WorkerInv
      /\ ChanInv /\ WriterInv /\ SlotsInv
  BY DEF IInv, MsgInv
<1> DEFINE o == reader[k].m
           r == heap[o].req
<1>1. /\ o \in Objs /\ r \in Reqs /\ Unserved(k, r) /\ heap[o].id = IDOf(r)
      /\ \A i \in 1 .. Len(stream[k]) : stream[k][i] # r
  <2>1. reader[k].pc \in {"slot", "wait"}
    BY DEF ReaderSpawn
  <2> QED
    BY <1>0, <2>1 DEF ReaderInv, Unserved, TypeOK
<1>2. starts \in 1 .. MaxStarts /\ workersCh[starts] \in 0 .. Concurrency /\ SlotFree
  BY <1>0 DEF LifeInv, TypeOK, ReaderSpawn
<1>3. /\ worker' \in [Reqs -> Worker]
      /\ worker'[r] = [worker[r] EXCEPT !.pc = "start", !.m = o, !.gen = starts]
      /\ worker'[r].pc = "start" /\ worker'[r].m = o /\ worker'[r].gen = starts
      /\ \A q \in Reqs : q # r => worker'[q] = worker[q]
  <2>1. worker \in [Reqs -> Worker] /\ starts \in Nat
    BY <1>0 DEF TypeOK
  <2>2. worker' = [worker EXCEPT ![r] =
                      [@ EXCEPT !.pc = "start", !.m = o, !.gen = starts]]
    BY DEF ReaderSpawn
  <2> QED
    BY <1>1, <2>1, <2>2 DEF Worker, ObjOrNone
<1>4. /\ reader' \in [Conns -> Reader] /\ reader'[k].pc = "read" /\ reader'[k].m = NoObj
      /\ \A l \in Conns : l # k => reader'[l] = reader[l]
  BY <1>0 DEF ReaderSpawn, TypeOK, Reader, NewReader, ObjOrNone
<1>5. /\ UNCHANGED <<lifeVars, faults, clientVars, conn, memVars, responsesChan, writer, out>>
      /\ workersCh' = [workersCh EXCEPT ![starts] = @ + 1]
  BY DEF ReaderSpawn
<1> HIDE DEF o, r
<1>6. workersCh' \in [1 .. MaxStarts -> 0 .. Concurrency]
  BY <1>0, <1>2, <1>5, ServerAssumption DEF TypeOK, SlotFree
<1>7. TypeOK'
  BY <1>0, <1>3, <1>4, <1>5, <1>6 DEF TypeOK
<1>8. LifeInv'
  BY <1>0, <1>2, <1>4, <1>5 DEF LifeInv
<1>9. OwnerInv'
  <2>1. \A p : (Queued(p)' <=> Queued(p)) /\ (Unused(p)' <=> Unused(p))
    BY <1>5 DEF Queued, Unused
  <2>2. /\ o # NoObj /\ ~Unused(o) /\ ~Queued(o)
        /\ \A l \in Conns : reader[l].m = o => l = k
        /\ \A q \in Reqs : worker[q].m # o
    BY <1>0, <1>1, ServerAssumption DEF OwnerInv, ReaderOwns, o
  <2>3. ASSUME NEW l \in Conns, reader'[l].m # NoObj
        PROVE  ReaderOwns(l)'
    <3>1. l # k /\ reader'[l] = reader[l] /\ reader[l].m # NoObj /\ reader[l].m # o
      BY <1>4, <2>2, <2>3
    <3>2. ReaderOwns(l)
      BY <1>0, <3>1 DEF OwnerInv
    <3>3. \A q \in Reqs : worker'[q].m # reader[l].m
      BY <1>3, <3>1, <3>2 DEF ReaderOwns
    <3>4. \A j \in Conns : reader'[j].m = reader[l].m => j = l
      BY <1>4, <3>1, <3>2 DEF ReaderOwns
    <3> QED
      BY <2>1, <3>1, <3>2, <3>3, <3>4 DEF ReaderOwns
  <2>4. ASSUME NEW q \in Reqs, worker'[q].m # NoObj
        PROVE  WorkerOwns(q)'
    <3>1. CASE q = r
      BY <1>3, <2>1, <2>2, <3>1 DEF WorkerOwns
    <3>2. CASE q # r
      <4>1. worker'[q] = worker[q] /\ worker[q].m # o
        BY <1>3, <2>2, <3>2
      <4>2. WorkerOwns(q)
        BY <1>0, <2>4, <4>1 DEF OwnerInv
      <4> QED
        BY <1>3, <2>1, <4>1, <4>2 DEF WorkerOwns
    <3> QED
      BY <3>1, <3>2
  <2>5. ChanOwns'
    BY <1>0, <1>5, <2>1 DEF OwnerInv, ChanOwns
  <2> QED
    BY <2>3, <2>4, <2>5 DEF OwnerInv
<1>10. \A l \in Conns : \A x : Unserved(l, x) /\ x # r => Unserved(l, x)'
  BY <1>0, <1>3, <1>5 DEF Unserved, TypeOK
<1>11. StreamInv'
  <2> SUFFICES ASSUME NEW l \in Conns, NEW i \in 1 .. Len(stream[l])
               PROVE  stream[l][i] # r
    BY <1>0, <1>5, <1>10 DEF StreamInv, Unserved
  <2>1. Origin[stream[l][i]] = l /\ Origin[r] = k
    BY <1>0, <1>1 DEF StreamInv, Unserved
  <2> QED
    BY <1>1, <2>1
<1>12. ReaderInv'
  <2> SUFFICES ASSUME NEW l \in Conns, l # k, reader[l].pc \in {"slot", "wait"}
               PROVE  heap[reader[l].m].req # r
    BY <1>0, <1>4, <1>5, <1>10 DEF ReaderInv, Unserved
  <2>1. Origin[heap[reader[l].m].req] = l /\ Origin[r] = k
    BY <1>0, <1>1 DEF ReaderInv, Unserved
  <2> QED
    BY <2>1
<1>13. WorkerInv'
  <2> SUFFICES ASSUME NEW q \in Reqs
               PROVE  WorkerOK(q)'
    BY DEF WorkerInv
  <2>1. CASE q = r
    BY <1>1, <1>2, <1>3, <1>5, <2>1 DEF Unserved, WorkerOK
  <2>2. CASE q # r
    BY <1>0, <1>3, <1>5, <2>2 DEF WorkerInv, WorkerOK, Answers
  <2> QED
    BY <2>1, <2>2
<1>14. RepliesKept
  BY <1>1, <1>3 DEF RepliesKept, Unserved
<1>15. ChanInv' /\ WriterInv'
  BY <1>0, <1>5, <1>14, SoundKept DEF ChanInv, WriterInv
<1>16. SlotsInv'
  <2> SUFFICES ASSUME NEW g \in 1 .. MaxStarts
               PROVE  IsFiniteSet(Running(g)') /\ workersCh'[g] = Cardinality(Running(g)')
    BY DEF SlotsInv
  <2>0. IsFiniteSet(Running(g)) /\ workersCh[g] = Cardinality(Running(g)) /\ r \notin Running(g)
    BY <1>0, <1>1 DEF SlotsInv, Running, Unserved
  <2>1. CASE g = starts
    <3>1. Running(g)' = Running(g) \cup {r}
      BY <1>1, <1>3, <2>1 DEF Running
    <3>2. workersCh'[g] = workersCh[g] + 1
      BY <1>0, <1>2, <1>5, <2>1 DEF TypeOK
    <3> QED
      BY <2>0, <3>1, <3>2, FS_AddElement
  <2>2. CASE g # starts
    <3>1. Running(g)' = Running(g)
      BY <1>1, <1>3, <2>0, <2>2 DEF Running
    <3>2. workersCh'[g] = workersCh[g]
      BY <1>0, <1>2, <1>5, <2>2 DEF TypeOK
    <3> QED
      BY <2>0, <3>1, <3>2
  <2> QED
    BY <2>1, <2>2
<1> QED
  BY <1>0, <1>5, <1>7, <1>8, <1>9, <1>11, <1>12, <1>13, <1>15, <1>16, Frames DEF IInv, MsgInv

-----------------------------------------------------------------------------
(* serveRequest.                                                            *)

\* Nobody else has the message of a worker.
LEMMA WorkersMessage ==
    ASSUME TypeOK, OwnerInv, NEW r \in Reqs, worker[r].m # NoObj
    PROVE  /\ worker[r].m \in Objs /\ ~Unused(worker[r].m) /\ ~Queued(worker[r].m)
           /\ \A q \in Reqs : worker[q].m = worker[r].m => q = r
           /\ \A k \in Conns : reader[k].m # worker[r].m
<1>1. worker[r].m \in Objs
  BY DEF TypeOK, Worker, ObjOrNone
<1>2. WorkerOwns(r)
  BY DEF OwnerInv
<1>3. ASSUME NEW k \in Conns, reader[k].m = worker[r].m
      PROVE  FALSE
  <2>1. ReaderOwns(k)
    BY <1>3 DEF OwnerInv
  <2> QED
    BY <1>3, <2>1 DEF ReaderOwns
<1> QED
  BY <1>1, <1>2, <1>3 DEF WorkerOwns

\* A step of one worker that changes no message but its own.
WorkerMoves(r) ==
    /\ UNCHANGED <<stream, sent, reader, fresh, writer, out>>
    /\ worker[r].pc # "none" /\ worker'[r].pc # "none"
    /\ worker[r].pc \in {"release", "gone"} =>
          /\ worker'[r].pc \in {"release", "gone"}
          /\ worker'[r].outcome = worker[r].outcome
    /\ \A q \in Reqs : q # r => worker'[q] = worker[q]
    /\ \A p \in Objs : p # worker[r].m => heap'[p] = heap[p]

\* It matters only to that worker.
LEMMA WorkerFrame ==
    ASSUME TypeOK, MsgInv, NEW r \in Reqs, WorkerMoves(r)
    PROVE  /\ StreamInv' /\ ReaderInv' /\ WriterInv' /\ FlushInv'
           /\ \A q \in Reqs : q # r => WorkerOK(q)'
           /\ UNCHANGED responsesChan => ChanInv' /\ OnceInv'
           /\ \A k \in Conns : \A i \in 1 .. Len(responsesChan[k]) :
                 heap'[responsesChan[k][i]] = heap[responsesChan[k][i]]
           /\ RepliesKept
<1> USE DEF WorkerMoves
<1>0. /\ OwnerInv /\ StreamInv /\ ReaderInv /\ WorkerInv /\ ChanInv /\ WriterInv /\ OnceInv
      /\ FlushInv
  BY DEF MsgInv
<1>1. \A l \in Conns : \A x : Unserved(l, x) => Unserved(l, x)'
  BY DEF Unserved, TypeOK
<1>2. StreamInv'
  BY <1>0, <1>1 DEF StreamInv, Unserved
<1>3. ReaderInv'
  <2> SUFFICES ASSUME NEW k \in Conns, reader[k].pc \in {"slot", "wait"}
               PROVE  heap'[reader[k].m] = heap[reader[k].m]
    BY <1>0, <1>1 DEF ReaderInv, Unserved
  <2>1. reader[k].m \in Objs /\ reader[k].m # NoObj
    BY <1>0, ServerAssumption DEF ReaderInv
  <2> QED
    BY <1>0, <2>1, WorkersMessage
<1>4. ASSUME NEW q \in Reqs, q # r
      PROVE  WorkerOK(q)'
  <2>1. worker'[q] = worker[q] /\ sent' = sent
    BY <1>4
  <2>2. worker[q].m \in Objs => heap'[worker[q].m] = heap[worker[q].m]
    BY <1>0, <1>4, WorkersMessage, ServerAssumption
  <2>3. WorkerOK(q)
    BY <1>0 DEF WorkerInv
  <2> QED
    BY <2>1, <2>2, <2>3 DEF WorkerOK, Answers
<1>5. ASSUME NEW k \in Conns, NEW i \in 1 .. Len(responsesChan[k])
      PROVE  heap'[responsesChan[k][i]] = heap[responsesChan[k][i]]
  <2>1. responsesChan[k][i] \in Objs /\ responsesChan[k][i] # NoObj
    BY ServerAssumption DEF TypeOK
  <2>2. Queued(responsesChan[k][i])
    BY DEF Queued
  <2> QED
    BY <1>0, <2>1, <2>2, WorkersMessage
<1>6. RepliesKept
  BY DEF RepliesKept
<1>7. WriterInv'
  BY <1>0, <1>6, SoundKept DEF WriterInv
<1>8. FlushInv'
  BY <1>0 DEF FlushInv
<1>9. ASSUME UNCHANGED responsesChan
      PROVE  ChanInv' /\ OnceInv'
  <2>1. ChanInv'
    BY <1>0, <1>5, <1>6, <1>9, SoundKept DEF ChanInv
  <2>2. OnceInv'
    BY <1>0, <1>5, <1>9 DEF OnceInv, ChanOnce, WriterOnce
  <2> QED
    BY <2>1, <2>2
<1> QED
  BY <1>2, <1>3, <1>4, <1>5, <1>6, <1>7, <1>8, <1>9

\* The worker keeps its message, drops it, or puts it into the pool.
LEMMA WorkerOwner ==
    ASSUME TypeOK, OwnerInv, NEW r \in Reqs, WorkerMoves(r), UNCHANGED responsesChan,
           \/ worker'[r].m = worker[r].m /\ pool' = pool
           \/ worker'[r].m = NoObj /\ pool' = pool
           \/ worker'[r].m = NoObj /\ worker[r].m # NoObj /\ pool' = pool \cup {worker[r].m}
    PROVE  OwnerInv'
<1> USE DEF WorkerMoves
<1>1. /\ \A p : Queued(p)' <=> Queued(p)
      /\ \A p : Unused(p)' =>
            \/ Unused(p)
            \/ p = worker[r].m /\ worker'[r].m = NoObj /\ worker[r].m # NoObj
  BY DEF Queued, Unused
<1>2. \A q \in Reqs : worker'[q].m # NoObj => worker'[q].m = worker[q].m
  OBVIOUS
<1>3. ASSUME NEW k \in Conns, reader[k].m # NoObj
      PROVE  ReaderOwns(k)'
  <2>1. ReaderOwns(k)
    BY <1>3 DEF OwnerInv
  <2> QED
    BY <1>1, <1>2, <1>3, <2>1 DEF ReaderOwns
<1>4. ASSUME NEW q \in Reqs, worker'[q].m # NoObj
      PROVE  WorkerOwns(q)'
  <2>1. WorkerOwns(q) /\ worker'[q].m = worker[q].m
    BY <1>2, <1>4 DEF OwnerInv
  <2>2. worker'[r].m = NoObj => q # r /\ worker[q].m # worker[r].m
    BY <1>4, <2>1 DEF WorkerOwns
  <2> QED
    BY <1>1, <1>2, <1>4, <2>1, <2>2 DEF WorkerOwns
<1>5. ChanOwns'
  <2>1. worker[r].m # NoObj => ~Queued(worker[r].m)
    BY WorkersMessage
  <2> QED
    BY <1>1, <2>1 DEF OwnerInv, ChanOwns, Queued
<1> QED
  BY <1>3, <1>4, <1>5 DEF OwnerInv

\* The worker keeps its slot.
LEMMA WorkerSlot ==
    ASSUME SlotsInv, NEW r \in Reqs, WorkerMoves(r), UNCHANGED workersCh,
           worker[r].pc # "gone", worker'[r].pc # "gone", worker'[r].gen = worker[r].gen
    PROVE  SlotsInv'
<1>1. \A g : Running(g)' = Running(g)
  BY DEF Running, WorkerMoves
<1> QED
  BY <1>1 DEF SlotsInv

\* The worker takes the request out of its message, or recycles the message.
LEMMA WorkerStartIInv ==
    ASSUME IInv, NEW r \in Reqs, WorkerStart(r)
    PROVE  IInv'
<1> USE DEF lifeVars, clientVars
<1>0. TypeOK /\ LifeInv /\ MsgInv /\ OwnerInv /\ WorkerInv /\ SlotsInv /\ PooledIsClean
  BY DEF IInv, MsgInv
<1> DEFINE o == worker[r].m
           m == [heap[o] EXCEPT !.req = NoReq]
           n == IF SkipResponse(o) THEN Cleared(m) ELSE m
<1>1. /\ worker[r].pc = "start" /\ o \in Objs /\ heap[o].id = IDOf(r) /\ o # NoObj
      /\ heap[o] \in ServerMessage /\ (SkipResponse(o) <=> r \in Skip)
  BY <1>0, ServerAssumption DEF WorkerInv, WorkerOK, WorkerStart, TypeOK, SkipResponse, IDOf
<1>2. m \in ServerMessage /\ m.req = NoReq /\ m.id = heap[o].id
  BY <1>1 DEF ServerMessage, ReqOrNone
<1> HIDE DEF m
<1>3. n \in ServerMessage /\ n.req = NoReq /\ (r \notin Skip => n.id = r)
  BY <1>1, <1>2, ClearedType DEF IDOf
<1>4. r \in Skip => n.resp = NoReq /\ ~n.err
  BY <1>1, <1>2, ClearedType
<1>5. /\ heap' = [heap EXCEPT ![o] = n] /\ pool' = IF r \in Skip THEN pool \cup {o} ELSE pool
      /\ worker' = [worker EXCEPT ![r] =
                      [@ EXCEPT !.pc = "handler", !.m = IF r \in Skip THEN NoObj ELSE o]]
      /\ UNCHANGED <<lifeVars, faults, clientVars, conn, reader, workersCh,
                     fresh, responsesChan, writer, out>>
  BY <1>1 DEF WorkerStart, Recycled, m
<1> HIDE DEF n, o
<1>6. /\ worker' \in [Reqs -> Worker]
      /\ worker'[r] = [worker[r] EXCEPT !.pc = "handler",
                                        !.m = IF r \in Skip THEN NoObj ELSE o]
      /\ \A q \in Reqs : q # r => worker'[q] = worker[q]
  <2>1. worker \in [Reqs -> Worker] /\ o \in Objs
    BY <1>0, <1>1 DEF TypeOK
  <2>2. [worker[r] EXCEPT !.pc = "handler", !.m = IF r \in Skip THEN NoObj ELSE o] \in Worker
    BY <2>1 DEF Worker, ObjOrNone
  <2> QED
    BY <1>5, <2>1, <2>2
<1>7. /\ worker'[r].pc = "handler" /\ worker'[r].m = IF r \in Skip THEN NoObj ELSE o
      /\ worker'[r].gen = worker[r].gen
  BY <1>0, <1>6 DEF TypeOK, Worker
<1>8. /\ heap' \in [Objs -> ServerMessage] /\ heap'[o] = n
      /\ \A p \in Objs : p # o => heap'[p] = heap[p]
  BY <1>0, <1>1, <1>3, <1>5 DEF TypeOK
<1>9. TypeOK'
  BY <1>0, <1>1, <1>5, <1>6, <1>8 DEF TypeOK
<1>10. LifeInv'
  BY <1>0, <1>5 DEF LifeInv
<1>11. WorkerMoves(r)
  BY <1>1, <1>5, <1>6, <1>7, <1>8 DEF WorkerMoves, o
<1>12. OwnerInv'
  BY <1>0, <1>1, <1>5, <1>7, <1>11, WorkerOwner DEF o
<1>13. WorkerOK(r)'
  <2>1. r \in sent' /\ worker'[r].gen \in 1 .. MaxStarts
    BY <1>0, <1>1, <1>5, <1>7 DEF WorkerInv, WorkerOK
  <2> QED
    BY <1>1, <1>3, <1>7, <1>8, <2>1 DEF WorkerOK
<1>14. SlotsInv'
  BY <1>0, <1>1, <1>5, <1>7, <1>11, WorkerSlot
<1>15. PooledIsClean'
  <2> SUFFICES ASSUME NEW p \in pool'
               PROVE  heap'[p].req = NoReq /\ heap'[p].resp = NoReq /\ ~heap'[p].err
    BY DEF PooledIsClean
  <2>1. CASE p = o
    <3>1. r \in Skip
      BY <1>0, <1>1, <1>5, <2>1, WorkersMessage DEF Unused, o
    <3> QED
      BY <1>3, <1>4, <1>8, <2>1, <3>1
  <2>2. CASE p # o
    BY <1>0, <1>5, <1>8, <2>2 DEF PooledIsClean, TypeOK
  <2> QED
    BY <2>1, <2>2
<1>16. StreamInv' /\ ReaderInv' /\ WorkerInv' /\ ChanInv' /\ WriterInv' /\ OnceInv' /\ FlushInv'
  BY <1>0, <1>5, <1>11, <1>13, WorkerFrame DEF WorkerInv
<1> QED
  BY <1>9, <1>10, <1>12, <1>14, <1>15, <1>16 DEF IInv, MsgInv

\* The handler has returned, and the message holds what it returned.
LEMMA WorkerHandleIInv ==
    ASSUME IInv, NEW r \in Reqs, WorkerHandle(r)
    PROVE  IInv'
<1> USE DEF lifeVars, clientVars
<1>0. TypeOK /\ LifeInv /\ MsgInv /\ OwnerInv /\ WorkerInv /\ SlotsInv /\ PooledIsClean
  BY DEF IInv, MsgInv
<1> DEFINE o == worker[r].m
<1>1. /\ worker[r].pc = "handler"
      /\ IF r \in Skip THEN o = NoObj
         ELSE o \in Objs /\ o # NoObj /\ heap[o].id = r /\ heap[o].req = NoReq
                         /\ heap[o] \in ServerMessage
  BY <1>0, ServerAssumption DEF WorkerInv, WorkerOK, WorkerHandle, TypeOK
<1>2. PICK outcome \in Outcomes :
        /\ worker' = [worker EXCEPT ![r] =
              [@ EXCEPT !.outcome = outcome, !.pc = IF r \in Skip THEN "release" ELSE "reply"]]
        /\ heap' = IF r \in Skip THEN heap ELSE [heap EXCEPT ![o] = Finished(@, r, outcome)]
  BY <1>1 DEF WorkerHandle
<1>16. outcome \in Outcome
  BY ServerAssumption DEF Outcome
<1>3. UNCHANGED <<lifeVars, faults, clientVars, conn, reader, workersCh,
                  pool, fresh, responsesChan, writer, out>>
  BY DEF WorkerHandle
<1> HIDE DEF o
<1>4. /\ worker' \in [Reqs -> Worker]
      /\ worker'[r] = [worker[r] EXCEPT !.outcome = outcome,
                          !.pc = IF r \in Skip THEN "release" ELSE "reply"]
      /\ \A q \in Reqs : q # r => worker'[q] = worker[q]
  BY <1>0, <1>1, <1>2, <1>16, ZenonT(30) DEF TypeOK, Worker
<1>5. /\ worker'[r].pc = IF r \in Skip THEN "release" ELSE "reply"
      /\ worker'[r].m = o /\ worker'[r].gen = worker[r].gen /\ worker'[r].outcome = outcome
  BY <1>0, <1>4 DEF TypeOK, Worker, o
<1>6. /\ heap' \in [Objs -> ServerMessage]
      /\ r \notin Skip => heap'[o] = Finished(heap[o], r, outcome)
      /\ \A p \in Objs : p # o => heap'[p] = heap[p]
  <2>1. heap \in [Objs -> ServerMessage]
    BY <1>0 DEF TypeOK
  <2> QED
    BY <1>1, <1>2, <1>16, <2>1, FinishedType
<1>7. TypeOK'
  BY <1>0, <1>3, <1>4, <1>6 DEF TypeOK
<1>8. LifeInv'
  BY <1>0, <1>3 DEF LifeInv
<1>9. WorkerMoves(r)
  BY <1>1, <1>3, <1>4, <1>5, <1>6 DEF WorkerMoves, o
<1>10. OwnerInv'
  BY <1>0, <1>3, <1>5, <1>9, WorkerOwner DEF o
<1>11. WorkerOK(r)'
  <2>1. r \in sent' /\ worker'[r].gen \in 1 .. MaxStarts
    BY <1>0, <1>1, <1>3, <1>5 DEF WorkerInv, WorkerOK
  <2>2. ASSUME r \notin Skip
        PROVE  /\ heap'[o].id = r /\ heap'[o].req = NoReq
               /\ heap'[o].resp = IF outcome = "ok" THEN r ELSE NoReq
               /\ heap'[o].err = (outcome = "error")
    BY <1>1, <1>6, <1>16, <2>2, FinishedType
  <2> QED
    BY <1>1, <1>5, <2>1, <2>2 DEF WorkerOK, Answers
<1>12. SlotsInv'
  BY <1>0, <1>1, <1>3, <1>5, <1>9, WorkerSlot
<1>13. PooledIsClean'
  <2>1. \A p \in pool : p \in Objs /\ p # o
    BY <1>0, <1>1, WorkersMessage, ServerAssumption DEF Unused, TypeOK, o
  <2> QED
    BY <1>0, <1>3, <1>6, <2>1 DEF PooledIsClean
<1>14. StreamInv' /\ ReaderInv' /\ WorkerInv' /\ ChanInv' /\ WriterInv' /\ OnceInv' /\ FlushInv'
  BY <1>0, <1>3, <1>9, <1>11, WorkerFrame DEF WorkerInv
<1> QED
  BY <1>7, <1>8, <1>10, <1>12, <1>13, <1>14 DEF IInv, MsgInv

\* The worker hands its message to the connection's writer.
LEMMA WorkerReplyIInv ==
    ASSUME IInv, NEW r \in Reqs, WorkerReply(r)
    PROVE  IInv'
<1> USE DEF lifeVars, clientVars, memVars
<1>0. /\ TypeOK /\ LifeInv /\ MsgInv /\ OwnerInv /\ WorkerInv /\ ChanInv /\ WriterInv
      /\ OnceInv /\ PooledIsClean /\ SlotsInv
  BY DEF IInv, MsgInv
<1> DEFINE k == Origin[r]
           o == worker[r].m
           n == Len(responsesChan[k])
<1>1. /\ worker[r].pc \in {"reply", "wait"} /\ k \in Conns /\ r \notin Skip
      /\ o \in Objs /\ o # NoObj /\ Answers(heap[o], r)
  BY <1>0, ServerAssumption DEF WorkerInv, WorkerOK, WorkerReply
<1>2. /\ responsesChan' = [responsesChan EXCEPT ![k] = Append(@, o)]
      /\ worker' = [worker EXCEPT ![r] = [@ EXCEPT !.pc = "release", !.m = NoObj]]
      /\ UNCHANGED <<lifeVars, faults, clientVars, conn, reader, workersCh,
                     memVars, writer, out>>
      /\ n < PendingResponses
  BY DEF WorkerReply, ChanFree
<1>3. responsesChan \in [Conns -> Seq(Objs)]
  BY <1>0 DEF TypeOK
<1> HIDE DEF o, k
<1>4. /\ responsesChan' \in [Conns -> Seq(Objs)]
      /\ \A l \in Conns : l # k => responsesChan'[l] = responsesChan[l]
      /\ n \in Nat /\ Len(responsesChan'[k]) = n + 1
      /\ \A i \in 1 .. n : responsesChan'[k][i] = responsesChan[k][i]
      /\ responsesChan'[k][n + 1] = o
  BY <1>1, <1>2, <1>3, AppendAt
<1> HIDE DEF n
<1>5. \A l \in Conns : \A i \in 1 .. Len(responsesChan'[l]) :
         \/ i \in 1 .. Len(responsesChan[l]) /\ responsesChan'[l][i] = responsesChan[l][i]
         \/ l = k /\ i = n + 1 /\ responsesChan'[l][i] = o
  BY <1>1, <1>4 DEF n
<1>6. /\ worker' \in [Reqs -> Worker]
      /\ worker'[r] = [worker[r] EXCEPT !.pc = "release", !.m = NoObj]
      /\ \A q \in Reqs : q # r => worker'[q] = worker[q]
  BY <1>0, <1>1, <1>2, ZenonT(30) DEF TypeOK, Worker, ObjOrNone
<1>7. /\ worker'[r].pc = "release" /\ worker'[r].m = NoObj
      /\ worker'[r].gen = worker[r].gen /\ worker'[r].outcome = worker[r].outcome
  BY <1>0, <1>6 DEF TypeOK, Worker
<1>8. TypeOK'
  <2>1. \A l \in Conns : Len(responsesChan'[l]) <= PendingResponses
    BY <1>0, <1>2, <1>4, ServerAssumption DEF TypeOK
  <2> QED
    BY <1>0, <1>2, <1>4, <1>6, <2>1 DEF TypeOK
<1>9. LifeInv'
  BY <1>0, <1>2 DEF LifeInv
<1>10. WorkerMoves(r)
  BY <1>1, <1>2, <1>6, <1>7 DEF WorkerMoves
<1>11. /\ ~Unused(o) /\ ~Queued(o)
       /\ \A q \in Reqs : worker[q].m = o => q = r
       /\ \A l \in Conns : reader[l].m # o
  BY <1>0, <1>1, WorkersMessage DEF o
<1>12. OwnerInv'
  <2>1. /\ \A p : Unused(p)' <=> Unused(p)
        /\ \A p : Queued(p)' => Queued(p) \/ p = o
    BY <1>2, <1>5 DEF Unused, Queued
  <2>2. ASSUME NEW l \in Conns, reader[l].m # NoObj
        PROVE  ReaderOwns(l)'
    <3>1. ReaderOwns(l)
      BY <1>0, <2>2 DEF OwnerInv
    <3> QED
      BY <1>2, <1>6, <1>7, <1>11, <2>1, <2>2, <3>1 DEF ReaderOwns
  <2>3. ASSUME NEW q \in Reqs, worker'[q].m # NoObj
        PROVE  WorkerOwns(q)'
    <3>1. q # r /\ worker'[q] = worker[q]
      BY <1>6, <1>7, <2>3
    <3>2. WorkerOwns(q) /\ worker[q].m # o
      BY <1>0, <1>11, <2>3, <3>1 DEF OwnerInv
    <3> QED
      BY <1>6, <1>7, <2>1, <2>3, <3>1, <3>2 DEF WorkerOwns
  <2>4. ChanOwns'
    <3>1. ~Unused(o) /\ \A p : Unused(p)' <=> Unused(p)
      BY <1>11, <2>1
    <3>2. \A l \in Conns : \A i \in 1 .. Len(responsesChan[l]) : responsesChan[l][i] # o
      BY <1>11 DEF Queued
    <3> QED
      BY <1>0, <1>5, <3>1, <3>2, SMTT(30) DEF OwnerInv, ChanOwns
  <2> QED
    BY <1>2, <2>2, <2>3, <2>4 DEF OwnerInv
<1>13. WorkerOK(r)'
  BY <1>0, <1>1, <1>2, <1>7 DEF WorkerInv, WorkerOK
<1>14. StreamInv' /\ ReaderInv' /\ WorkerInv' /\ WriterInv' /\ FlushInv' /\ RepliesKept
  BY <1>0, <1>10, <1>13, WorkerFrame DEF WorkerInv
<1>15. SlotsInv'
  BY <1>0, <1>1, <1>2, <1>7, <1>10, WorkerSlot
<1>16. ChanInv'
  <2> SUFFICES ASSUME NEW l \in Conns, NEW i \in 1 .. Len(responsesChan'[l]),
                      NEW m, m = heap[responsesChan'[l][i]]
               PROVE  Served(l, m.id)' /\ Answers(m, m.id)'
    <3>1. heap' = heap
      BY <1>2 DEF memVars
    <3> QED
      BY <3>1 DEF ChanInv
  <2>1. CASE i \in 1 .. Len(responsesChan[l]) /\ responsesChan'[l][i] = responsesChan[l][i]
    BY <1>0, <1>14, <2>1, SoundKept DEF ChanInv
  <2>2. CASE l = k /\ responsesChan'[l][i] = o
    <3>1. Answers(m, r) /\ m.id = r
      BY <1>1, <2>2 DEF Answers
    <3> QED
      BY <1>1, <1>7, <2>2, <3>1 DEF Served, Answers, k
  <2> QED
    BY <1>5, <2>1, <2>2
<1>17. OnceInv'
  <2>1. \A l \in Conns : \A x : Served(l, x) => x # r
    BY <1>1 DEF Served
  <2>2. heap[o].id = r
    BY <1>1 DEF Answers
  <2>3. \A l \in Conns : \A i \in 1 .. Len(responsesChan[l]) : heap[responsesChan[l][i]].id # r
    BY <1>0, <2>1 DEF ChanInv
  <2>4. \A l \in Conns : /\ writer[l].pc = "encode" => writer[l].wr.id # r
                         /\ \A w \in writer[l].buf \cup out[l] : w.id # r
    BY <1>0, <2>1 DEF WriterInv, Sound
  <2>5. ASSUME NEW l \in Conns
        PROVE  WriterOnce(l)'
    BY <1>0, <1>2 DEF OnceInv, WriterOnce
  <2>6. ASSUME NEW l \in Conns
        PROVE  ChanOnce(l)'
    <3> SUFFICES ASSUME NEW i \in 1 .. Len(responsesChan'[l])
                 PROVE  LET id == heap[responsesChan'[l][i]].id IN
                        /\ \A j \in 1 .. Len(responsesChan'[l]) :
                              heap[responsesChan'[l][j]].id = id => i = j
                        /\ writer[l].pc = "encode" => writer[l].wr.id # id
                        /\ writer[l].pc # "done" => \A w \in writer[l].buf : w.id # id
                        /\ \A w \in out[l] : w.id # id
      BY <1>2 DEF ChanOnce
    <3>1. CASE i \in 1 .. Len(responsesChan[l]) /\ responsesChan'[l][i] = responsesChan[l][i]
      <4>0. ChanOnce(l) /\ heap[responsesChan[l][i]].id # r
        BY <1>0, <2>3, <3>1 DEF OnceInv
      <4>1. ASSUME NEW j \in 1 .. Len(responsesChan'[l]),
                   heap[responsesChan'[l][j]].id = heap[responsesChan'[l][i]].id
            PROVE  i = j
        <5>1. j \in 1 .. Len(responsesChan[l]) /\ responsesChan'[l][j] = responsesChan[l][j]
          BY <1>5, <2>2, <3>1, <4>0, <4>1
        <5> QED
          BY <3>1, <4>0, <4>1, <5>1 DEF ChanOnce
      <4> QED
        BY <3>1, <4>0, <4>1 DEF ChanOnce
    <3>2. CASE l = k /\ i = n + 1 /\ responsesChan'[l][i] = o
      BY <1>5, <2>2, <2>3, <2>4, <3>2
    <3> QED
      BY <1>5, <3>1, <3>2
  <2> QED
    BY <2>5, <2>6 DEF OnceInv
<1>18. PooledIsClean'
  BY <1>0, <1>2 DEF PooledIsClean
<1> QED
  BY <1>8, <1>9, <1>12, <1>14, <1>15, <1>16, <1>17, <1>18 DEF IInv, MsgInv

\* The worker waits for room, or gives up.
LEMMA WorkerIdleIInv ==
    ASSUME IInv, NEW r \in Reqs, WorkerBlock(r) \/ WorkerDrop(r)
    PROVE  IInv'
<1> USE DEF lifeVars, clientVars, memVars
<1>0. TypeOK /\ LifeInv /\ MsgInv /\ OwnerInv /\ WorkerInv /\ SlotsInv
  BY DEF IInv, MsgInv
<1>1. /\ UNCHANGED <<lifeVars, faults, clientVars, conn, reader, workersCh,
                     memVars, responsesChan, writer, out>>
      /\ worker[r].pc \in {"reply", "wait"}
  BY DEF WorkerBlock, WorkerDrop
<1>2. /\ worker' \in [Reqs -> Worker]
      /\ worker'[r].gen = worker[r].gen /\ worker'[r].outcome = worker[r].outcome
      /\ \/ worker'[r].pc = "wait" /\ worker'[r].m = worker[r].m
         \/ worker'[r].pc = "release" /\ worker'[r].m = NoObj
      /\ \A q \in Reqs : q # r => worker'[q] = worker[q]
  <2>1. CASE WorkerBlock(r)
    BY <1>0, <2>1 DEF TypeOK, Worker, WorkerBlock
  <2>2. CASE WorkerDrop(r)
    BY <1>0, <2>2, ZenonT(30) DEF TypeOK, Worker, ObjOrNone, WorkerDrop, WorkerGivesUp
  <2> QED
    BY <2>1, <2>2
<1>3. TypeOK'
  BY <1>0, <1>1, <1>2 DEF TypeOK
<1>4. LifeInv'
  BY <1>0, <1>1 DEF LifeInv
<1>5. WorkerMoves(r)
  BY <1>1, <1>2 DEF WorkerMoves
<1>6. OwnerInv'
  BY <1>0, <1>1, <1>2, <1>5, WorkerOwner
<1>7. WorkerOK(r)'
  BY <1>0, <1>1, <1>2 DEF WorkerInv, WorkerOK, Answers
<1>8. SlotsInv'
  BY <1>0, <1>1, <1>2, <1>5, WorkerSlot
<1>9. StreamInv' /\ ReaderInv' /\ WorkerInv' /\ ChanInv' /\ WriterInv' /\ OnceInv' /\ FlushInv'
  BY <1>0, <1>1, <1>5, <1>7, WorkerFrame DEF WorkerInv
<1> QED
  BY <1>0, <1>1, <1>3, <1>4, <1>6, <1>8, <1>9, Frames DEF IInv, MsgInv

\* The worker gives its slot back to the channel that it came from.
LEMMA WorkerReleaseIInv ==
    ASSUME IInv, NEW r \in Reqs, WorkerRelease(r)
    PROVE  IInv'
<1> USE DEF lifeVars, clientVars, memVars
<1>0. TypeOK /\ LifeInv /\ MsgInv /\ OwnerInv /\ WorkerInv /\ SlotsInv
  BY DEF IInv, MsgInv
<1>1. PICK h \in 1 .. MaxStarts :
        /\ UNCHANGED <<lifeVars, faults, clientVars, conn, reader, memVars,
                       responsesChan, writer, out>>
        /\ worker[r].pc = "release" /\ worker[r].m = NoObj /\ worker[r].gen = h
        /\ workersCh' = [workersCh EXCEPT ![h] = @ - 1]
  BY <1>0 DEF WorkerRelease, SlotBack, WorkerInv, WorkerOK
<1>2. /\ worker' \in [Reqs -> Worker]
      /\ worker'[r].pc = "gone" /\ worker'[r].m = worker[r].m
      /\ worker'[r].gen = h /\ worker'[r].outcome = worker[r].outcome
      /\ \A q \in Reqs : q # r => worker'[q] = worker[q]
  BY <1>0, <1>1 DEF TypeOK, Worker, WorkerRelease
<1>3. WorkerMoves(r)
  BY <1>1, <1>2 DEF WorkerMoves
<1>4. r \in Running(h) /\ Running(h)' = Running(h) \ {r}
  BY <1>1, <1>2 DEF Running
<1>5. \A g : g # h => Running(g)' = Running(g)
  BY <1>1, <1>2 DEF Running
<1>6. /\ IsFiniteSet(Running(h)) /\ workersCh[h] = Cardinality(Running(h))
      /\ IsFiniteSet(Running(h)') /\ Cardinality(Running(h)') = workersCh[h] - 1
      /\ workersCh[h] \in 1 .. Concurrency
  <2>1. IsFiniteSet(Running(h)) /\ workersCh[h] = Cardinality(Running(h))
    BY <1>0, <1>1 DEF SlotsInv
  <2>2. /\ IsFiniteSet(Running(h) \ {r})
        /\ Cardinality(Running(h) \ {r}) = Cardinality(Running(h)) - 1
    BY <1>4, <2>1, FS_RemoveElement
  <2>3. Cardinality(Running(h) \ {r}) \in Nat
    BY <2>2, FS_CardinalityType
  <2>4. workersCh[h] \in 0 .. Concurrency
    BY <1>0, <1>1 DEF TypeOK
  <2> QED
    BY <1>4, <2>1, <2>2, <2>3, <2>4, ServerAssumption
<1>7. /\ workersCh' \in [1 .. MaxStarts -> 0 .. Concurrency]
      /\ workersCh'[h] = workersCh[h] - 1
      /\ \A g \in 1 .. MaxStarts : g # h => workersCh'[g] = workersCh[g]
  BY <1>0, <1>1, <1>6, ServerAssumption DEF TypeOK
<1>8. TypeOK'
  BY <1>0, <1>1, <1>2, <1>7 DEF TypeOK
<1>9. LifeInv'
  BY <1>0, <1>1 DEF LifeInv
<1>10. SlotsInv'
  <2> SUFFICES ASSUME NEW g \in 1 .. MaxStarts
               PROVE  IsFiniteSet(Running(g)') /\ workersCh'[g] = Cardinality(Running(g)')
    BY DEF SlotsInv
  <2>1. CASE g = h
    BY <1>6, <1>7, <2>1
  <2>2. CASE g # h
    BY <1>0, <1>5, <1>7, <2>2 DEF SlotsInv
  <2> QED
    BY <2>1, <2>2
<1>11. OwnerInv'
  BY <1>0, <1>1, <1>2, <1>3, WorkerOwner
<1>12. WorkerOK(r)'
  BY <1>0, <1>1, <1>2 DEF WorkerInv, WorkerOK
<1>13. StreamInv' /\ ReaderInv' /\ WorkerInv' /\ ChanInv' /\ WriterInv' /\ OnceInv' /\ FlushInv'
  BY <1>0, <1>1, <1>3, <1>12, WorkerFrame DEF WorkerInv
<1> QED
  BY <1>0, <1>1, <1>8, <1>9, <1>10, <1>11, <1>13, Frames DEF IInv, MsgInv

-----------------------------------------------------------------------------
(* serverWriter.                                                            *)

\* wr holds nothing of an earlier response, so it becomes the reply to r.
LEMMA LoadedReply ==
    ASSUME NEW m \in ServerMessage, NEW wr, wr.hdr = NoReq, wr.body = NoReq,
           NEW r \in Reqs, Answers(m, r)
    PROVE  Loaded(wr, m) = ReplyTo(r) /\ Loaded(wr, m) \in WireResponse /\ Loaded(wr, m).id = r
<1>1. m.err = (worker[r].outcome = "error") /\ m.err \in BOOLEAN
  BY Zenon DEF Answers, ServerMessage
<1>2. r # NoReq
  BY ServerAssumption
<1>3. /\ m.id = r
      /\ m.resp = IF worker[r].outcome = "ok" THEN r ELSE NoReq
  BY DEF Answers
<1> DEFINE ok == worker[r].outcome = "ok"
           hdr == IF ok THEN r ELSE NoReq
           body == IF ok /\ r \in HasBody THEN r ELSE NoReq
<1>4. hdr = IF m.resp # NoReq THEN m.resp ELSE wr.hdr
  BY <1>2, <1>3
<1>5. body = IF m.resp = NoReq THEN wr.body
             ELSE IF m.resp \in HasBody THEN m.resp ELSE NoReq
  BY <1>2, <1>3
<1>6. Loaded(wr, m) = [id |-> r, err |-> m.err, hdr |-> hdr, body |-> body]
  BY <1>3, <1>4, <1>5 DEF Loaded
<1>7. ReplyTo(r) = [id |-> r, err |-> m.err, hdr |-> hdr, body |-> body]
  BY <1>1, Zenon DEF ReplyTo
<1>8. hdr \in ReqOrNone /\ body \in ReqOrNone
  BY DEF ReqOrNone
<1> HIDE DEF hdr, body
<1> QED
  BY <1>1, <1>6, <1>7, <1>8 DEF WireResponse, ReqOrNone

\* The writer takes a response, and its message goes back to the pool.
LEMMA WriterTakeIInv ==
    ASSUME IInv, NEW k \in Conns, WriterTake(k)
    PROVE  IInv'
<1> USE DEF lifeVars, clientVars, workVars
<1>0. /\ TypeOK /\ LifeInv /\ MsgInv /\ OwnerInv /\ ReaderInv /\ WorkerInv /\ ChanInv
      /\ WriterInv /\ OnceInv /\ PooledIsClean /\ FlushInv
  BY DEF IInv, MsgInv
<1>1. /\ responsesChan' \in [Conns -> Seq(Objs)]
      /\ \A l \in Conns : l # k => responsesChan'[l] = responsesChan[l]
      /\ Len(responsesChan[k]) \in Nat \ {0}
      /\ Len(responsesChan'[k]) = Len(responsesChan[k]) - 1
      /\ \A i \in 1 .. Len(responsesChan'[k]) :
            /\ i + 1 \in 1 .. Len(responsesChan[k])
            /\ responsesChan'[k][i] = responsesChan[k][i + 1]
      /\ Head(responsesChan[k]) = responsesChan[k][1] /\ Head(responsesChan[k]) \in Objs
      /\ 1 \in 1 .. Len(responsesChan[k])
  BY <1>0, TailAt DEF TypeOK, WriterTake
<1>2. PICK o \in Objs :
        /\ o = responsesChan[k][1]
        /\ writer' = [writer EXCEPT ![k].pc = "encode", ![k].armed = TRUE,
                                    ![k].wr = Loaded(writer[k].wr, heap[o])]
        /\ heap' = [heap EXCEPT ![o] = Cleared(heap[o])]
        /\ pool' = pool \cup {o}
  BY <1>1 DEF WriterTake, Armed
<1>3. /\ UNCHANGED <<lifeVars, faults, clientVars, conn, reader, workVars, fresh, out>>
      /\ writer[k].pc \in {"select", "block"}
  BY DEF WriterTake
<1>4. PICK r \in Reqs : heap[o].id = r /\ Served(k, r) /\ Answers(heap[o], r)
  BY <1>0, <1>1, <1>2 DEF ChanInv, Served
<1>5. heap[o] \in ServerMessage
  BY <1>0 DEF TypeOK
<1>6. /\ Loaded(writer[k].wr, heap[o]) = ReplyTo(r)
      /\ ReplyTo(r) \in WireResponse /\ ReplyTo(r).id = r
  <2>1. writer[k].wr.hdr = NoReq /\ writer[k].wr.body = NoReq
    BY <1>0, <1>3 DEF WriterInv
  <2> QED
    BY <1>4, <1>5, <2>1, LoadedReply
<1>7. /\ writer' \in [Conns -> Writer]
      /\ writer'[k].pc = "encode" /\ writer'[k].armed = TRUE /\ writer'[k].wr = ReplyTo(r)
      /\ writer'[k].buf = writer[k].buf
      /\ \A l \in Conns : l # k => writer'[l] = writer[l]
  <2>1. writer \in [Conns -> Writer]
    BY <1>0 DEF TypeOK
  <2>2. writer' = [writer EXCEPT ![k] =
                      [writer[k] EXCEPT !.pc = "encode", !.armed = TRUE, !.wr = ReplyTo(r)]]
    BY <1>2, <1>6, <2>1
  <2>3. \A x \in Writer, y \in WireResponse :
           LET z == [x EXCEPT !.pc = "encode", !.armed = TRUE, !.wr = y] IN
           z \in Writer /\ z.pc = "encode" /\ z.armed = TRUE /\ z.wr = y /\ z.buf = x.buf
    BY DEF Writer
  <2> QED
    BY <1>6, <2>1, <2>2, <2>3, ZenonT(30)
<1>8. /\ heap' \in [Objs -> ServerMessage]
      /\ heap'[o].req = NoReq /\ heap'[o].resp = NoReq /\ ~heap'[o].err
      /\ \A p \in Objs : p # o => heap'[p] = heap[p]
  <2>1. heap \in [Objs -> ServerMessage] /\ heap[o].req = NoReq
    BY <1>0, <1>4 DEF TypeOK, Answers
  <2>2. /\ Cleared(heap[o]) \in ServerMessage /\ Cleared(heap[o]).req = NoReq
        /\ Cleared(heap[o]).resp = NoReq /\ ~Cleared(heap[o]).err
    BY <1>5, <2>1, ClearedType
  <2>3. heap'[o] = Cleared(heap[o])
    BY <1>2, <2>1
  <2>4. heap' \in [Objs -> ServerMessage] /\ \A p \in Objs : p # o => heap'[p] = heap[p]
    BY <1>2, <2>1, <2>2
  <2>5. ~heap'[o].err
    BY <2>2, <2>3, Zenon
  <2> QED
    BY <2>2, <2>3, <2>4, <2>5
<1>9. TypeOK'
  <2>0. \A l \in Conns : Len(responsesChan[l]) <= PendingResponses
    BY <1>0 DEF TypeOK
  <2>1. \A l \in Conns : Len(responsesChan'[l]) <= PendingResponses
    BY <1>1, <2>0, ServerAssumption, SMTT(30)
  <2> QED
    BY <1>0, <1>1, <1>2, <1>3, <1>7, <1>8, <2>1 DEF TypeOK
<1>10. LifeInv'
  BY <1>0, <1>3 DEF LifeInv
<1>11. /\ Queued(o) /\ o # NoObj
       /\ \A l \in Conns : reader[l].m # o
       /\ \A q \in Reqs : worker[q].m # o
  <2>1. Queued(o) /\ o # NoObj
    BY <1>1, <1>2, ServerAssumption DEF Queued
  <2> QED
    BY <1>0, <2>1 DEF OwnerInv, ReaderOwns, WorkerOwns
<1>12. \A l \in Conns : \A i \in 1 .. Len(responsesChan'[l]) :
          \E j \in 1 .. Len(responsesChan[l]) :
             /\ responsesChan'[l][i] = responsesChan[l][j]
             /\ j = IF l = k THEN i + 1 ELSE i
             /\ responsesChan[l][j] # o
  <2> SUFFICES ASSUME NEW l \in Conns, NEW i \in 1 .. Len(responsesChan'[l])
               PROVE  \E j \in 1 .. Len(responsesChan[l]) :
                        /\ responsesChan'[l][i] = responsesChan[l][j]
                        /\ j = IF l = k THEN i + 1 ELSE i
                        /\ responsesChan[l][j] # o
    OBVIOUS
  <2>1. CASE l = k
    <3>1. i + 1 \in 1 .. Len(responsesChan[k]) /\ responsesChan'[k][i] = responsesChan[k][i + 1]
      BY <1>1, <2>1
    <3>2. i + 1 # 1
      BY <1>1, <2>1
    <3>3. responsesChan[k][i + 1] # o
      BY <1>0, <1>1, <1>2, <3>1, <3>2 DEF OwnerInv, ChanOwns
    <3> QED
      BY <2>1, <3>1, <3>3
  <2>2. CASE l # k
    <3>1. responsesChan'[l] = responsesChan[l]
      BY <1>1, <2>2
    <3>2. responsesChan[l][i] # o
      BY <1>0, <1>1, <1>2, <2>2, <3>1 DEF OwnerInv, ChanOwns
    <3> QED
      BY <2>2, <3>1, <3>2
  <2> QED
    BY <2>1, <2>2
<1>13. \A l \in Conns : \A i \in 1 .. Len(responsesChan[l]) :
          responsesChan[l][i] # o => heap'[responsesChan[l][i]] = heap[responsesChan[l][i]]
  BY <1>0, <1>8 DEF TypeOK
<1>14. OwnerInv'
  <2>1. /\ \A p : Unused(p)' => Unused(p) \/ p = o
        /\ \A p : Queued(p)' => Queued(p) /\ p # o
    BY <1>2, <1>3, <1>12 DEF Unused, Queued
  <2>2. UNCHANGED <<reader, worker>>
    BY <1>3
  <2>3. ASSUME NEW l \in Conns, reader[l].m # NoObj
        PROVE  ReaderOwns(l)'
    BY <1>0, <1>11, <2>1, <2>2, <2>3 DEF OwnerInv, ReaderOwns
  <2>4. ASSUME NEW q \in Reqs, worker[q].m # NoObj
        PROVE  WorkerOwns(q)'
    BY <1>0, <1>11, <2>1, <2>2, <2>4 DEF OwnerInv, WorkerOwns
  <2>5. ChanOwns'
    <3> SUFFICES ASSUME NEW l \in Conns, NEW h \in Conns,
                        NEW i \in 1 .. Len(responsesChan'[l]),
                        NEW j \in 1 .. Len(responsesChan'[h])
                 PROVE  /\ ~Unused(responsesChan[l][i])'
                        /\ responsesChan'[l][i] = responsesChan'[h][j] => l = h /\ i = j
      BY DEF ChanOwns
    <3>1. PICK a \in 1 .. Len(responsesChan[l]) :
             /\ responsesChan'[l][i] = responsesChan[l][a]
             /\ a = IF l = k THEN i + 1 ELSE i
             /\ responsesChan[l][a] # o
      BY <1>12
    <3>2. PICK b \in 1 .. Len(responsesChan[h]) :
             /\ responsesChan'[h][j] = responsesChan[h][b]
             /\ b = IF h = k THEN j + 1 ELSE j
             /\ responsesChan[h][b] # o
      BY <1>12
    <3>3. ~Unused(responsesChan[l][a])
      BY <1>0 DEF OwnerInv, ChanOwns
    <3>4. ~Unused(responsesChan[l][i])'
      BY <2>1, <3>1, <3>3 DEF Unused
    <3>5. ASSUME responsesChan'[l][i] = responsesChan'[h][j]
          PROVE  l = h /\ i = j
      <4>1. l = h /\ a = b
        BY <1>0, <3>1, <3>2, <3>5 DEF OwnerInv, ChanOwns
      <4> QED
        BY <3>1, <3>2, <4>1
    <3> QED
      BY <3>4, <3>5
  <2> QED
    BY <2>2, <2>3, <2>4, <2>5 DEF OwnerInv
<1>15. ReaderInv' /\ WorkerInv'
  BY <1>0, <1>3, <1>8, <1>11, HeapFrame
<1>16. ChanInv'
  <2> SUFFICES ASSUME NEW l \in Conns, NEW i \in 1 .. Len(responsesChan'[l]),
                      NEW m, m = heap'[responsesChan'[l][i]]
               PROVE  Served(l, m.id) /\ Answers(m, m.id)
    BY <1>3 DEF ChanInv, Served, Answers
  <2>1. PICK j \in 1 .. Len(responsesChan[l]) :
          responsesChan'[l][i] = responsesChan[l][j] /\ responsesChan[l][j] # o
    BY <1>12
  <2>2. m = heap[responsesChan[l][j]]
    BY <1>13, <2>1
  <2> QED
    BY <1>0, <2>2 DEF ChanInv
<1>17. WriterInv'
  <2>1. Sound(k, ReplyTo(r))
    BY <1>4, <1>6 DEF Sound
  <2>2. \A l, w : Sound(l, w) => Sound(l, w)'
    BY <1>3, SoundKept
  <2> SUFFICES ASSUME NEW l \in Conns
               PROVE  /\ writer'[l].pc \in {"select", "block", "flush"} =>
                            writer'[l].wr.hdr = NoReq /\ writer'[l].wr.body = NoReq
                      /\ writer'[l].pc = "encode" => Sound(l, writer'[l].wr)
                      /\ \A w \in writer'[l].buf \cup out'[l] : Sound(l, w)
    BY <1>3 DEF WriterInv, Sound, Served, ReplyTo
  <2>3. CASE l = k
    BY <1>0, <1>3, <1>7, <2>1, <2>3 DEF WriterInv
  <2>4. CASE l # k
    BY <1>0, <1>3, <1>7, <2>4 DEF WriterInv
  <2> QED
    BY <2>3, <2>4
<1>18. OnceInv'
  <2>0. ChanOnce(k) /\ heap[responsesChan[k][1]].id = r
    BY <1>0, <1>2, <1>4 DEF OnceInv
  <2>1. ASSUME NEW l \in Conns
        PROVE  WriterOnce(l)'
    <3>1. CASE l = k
      <4>1. \A w \in writer[k].buf \cup out[k] : w.id # r
        BY <1>1, <1>3, <2>0 DEF ChanOnce
      <4>2. \A w \in writer[k].buf, v \in out[k] : w.id # v.id
        BY <1>0, <1>3 DEF OnceInv, WriterOnce
      <4> QED
        BY <1>3, <1>6, <1>7, <3>1, <4>1, <4>2 DEF WriterOnce
    <3>2. CASE l # k
      BY <1>0, <1>3, <1>7, <3>2 DEF OnceInv, WriterOnce
    <3> QED
      BY <3>1, <3>2
  <2>2. ASSUME NEW l \in Conns
        PROVE  ChanOnce(l)'
    <3> SUFFICES ASSUME NEW i \in 1 .. Len(responsesChan'[l])
                 PROVE  LET id == heap'[responsesChan'[l][i]].id IN
                        /\ \A j \in 1 .. Len(responsesChan'[l]) :
                              heap'[responsesChan'[l][j]].id = id => i = j
                        /\ writer'[l].pc = "encode" => writer'[l].wr.id # id
                        /\ writer'[l].pc # "done" => \A w \in writer'[l].buf : w.id # id
                        /\ \A w \in out[l] : w.id # id
      BY <1>3 DEF ChanOnce
    <3>0. ChanOnce(l)
      BY <1>0 DEF OnceInv
    <3>1. PICK a \in 1 .. Len(responsesChan[l]) :
             /\ responsesChan'[l][i] = responsesChan[l][a]
             /\ a = IF l = k THEN i + 1 ELSE i
             /\ responsesChan[l][a] # o
      BY <1>12
    <3>2. heap'[responsesChan'[l][i]] = heap[responsesChan[l][a]]
      BY <1>13, <3>1
    <3>3. ASSUME NEW j \in 1 .. Len(responsesChan'[l]),
                 heap'[responsesChan'[l][j]].id = heap'[responsesChan'[l][i]].id
          PROVE  i = j
      <4>1. PICK b \in 1 .. Len(responsesChan[l]) :
               /\ responsesChan'[l][j] = responsesChan[l][b]
               /\ b = IF l = k THEN j + 1 ELSE j
               /\ responsesChan[l][b] # o
        BY <1>12
      <4>2. heap'[responsesChan'[l][j]] = heap[responsesChan[l][b]]
        BY <1>13, <4>1
      <4>3. a = b
        BY <3>0, <3>2, <3>3, <4>2 DEF ChanOnce
      <4> QED
        BY <3>1, <4>1, <4>3
    <3>4. CASE l = k
      <4>1. a # 1
        BY <1>2, <3>1, <3>4
      <4>2. heap[responsesChan[l][a]].id # r
        BY <1>1, <2>0, <3>4, <4>1 DEF ChanOnce
      <4> QED
        BY <1>3, <1>6, <1>7, <3>0, <3>2, <3>3, <3>4, <4>2 DEF ChanOnce
    <3>5. CASE l # k
      BY <1>7, <3>0, <3>2, <3>3, <3>5 DEF ChanOnce
    <3> QED
      BY <3>4, <3>5
  <2> QED
    BY <2>1, <2>2 DEF OnceInv
<1>19. PooledIsClean'
  BY <1>0, <1>2, <1>8 DEF PooledIsClean, TypeOK
<1>20. FlushInv'
  BY <1>0, <1>7 DEF FlushInv
<1> QED
  BY <1>0, <1>3, <1>9, <1>10, <1>14, <1>15, <1>16, <1>17, <1>18, <1>19, <1>20, Frames
     DEF IInv, MsgInv

\* A step of the writer that takes no response: what it has buffered stays
\* there, is sent, or is lost together with the connection.
WriterMoves(k) ==
    /\ UNCHANGED <<lifeVars, clientVars, conn, reader, workVars, memVars, responsesChan>>
    /\ writer[k].pc \in {"select", "block", "flush", "encode"}
    /\ writer'[k].pc \in {"select", "block", "flush", "done"}
    /\ \A l \in Conns : l # k => writer'[l] = writer[l] /\ out'[l] = out[l]
    /\ \A w \in writer'[k].buf \cup out'[k] :
          \/ w \in writer[k].buf \cup out[k]
          \/ writer[k].pc = "encode" /\ w = writer[k].wr
    /\ writer'[k].pc # "done" =>
          /\ writer'[k].wr.hdr = NoReq /\ writer'[k].wr.body = NoReq
          /\ \A w \in writer'[k].buf, v \in out'[k] : w.id # v.id
          /\ writer'[k].buf # {} => writer'[k].armed

\* A step that moves nothing but one writer and what it sent keeps the invariant.
LEMMA WriterFrame ==
    ASSUME IInv, NEW k \in Conns, WriterMoves(k), faults' \in 0 .. MaxFaults,
           writer' \in [Conns -> Writer], out' \in [Conns -> SUBSET WireResponse]
    PROVE  IInv'
<1> USE DEF WriterMoves, lifeVars, clientVars, workVars, memVars
<1>0. TypeOK /\ LifeInv /\ MsgInv /\ WriterInv /\ OnceInv /\ FlushInv
  BY DEF IInv, MsgInv
<1>1. TypeOK'
  BY <1>0 DEF TypeOK
<1>2. LifeInv'
  BY <1>0 DEF LifeInv
<1>3. WriterInv'
  <2>1. \A l \in Conns : \A w : Sound(l, w) => Sound(l, w)'
    BY SoundKept
  <2> SUFFICES ASSUME NEW l \in Conns
               PROVE  /\ writer'[l].pc \in {"select", "block", "flush"} =>
                            writer'[l].wr.hdr = NoReq /\ writer'[l].wr.body = NoReq
                      /\ writer'[l].pc = "encode" => Sound(l, writer'[l].wr)
                      /\ \A w \in writer'[l].buf \cup out'[l] : Sound(l, w)
    BY <2>1 DEF WriterInv, Sound, Served, ReplyTo
  <2>2. CASE l = k
    BY <1>0, <2>2 DEF WriterInv
  <2>3. CASE l # k
    BY <1>0, <2>3 DEF WriterInv
  <2> QED
    BY <2>2, <2>3
<1>4. OnceInv'
  <2> SUFFICES ASSUME NEW l \in Conns
               PROVE  ChanOnce(l)' /\ WriterOnce(l)'
    BY DEF OnceInv
  <2>1. CASE l = k
    <3>1. WriterOnce(l)'
      BY <2>1 DEF WriterOnce
    <3>2. ChanOnce(l)'
      BY <1>0, <2>1 DEF OnceInv, ChanOnce
    <3> QED
      BY <3>1, <3>2
  <2>2. CASE l # k
    BY <1>0, <2>2 DEF OnceInv, ChanOnce, WriterOnce
  <2> QED
    BY <2>1, <2>2
<1>5. FlushInv'
  BY <1>0 DEF FlushInv
<1> QED
  BY <1>0, <1>1, <1>2, <1>3, <1>4, <1>5, Frames DEF IInv, MsgInv

\* The other steps of the writer.
LEMMA WriterIInv ==
    ASSUME IInv, NEW k \in Conns,
           \/ WriterBlock(k) \/ WriterStop(k) \/ WriterFlush(k)
           \/ WriterFlushed(k) \/ WriterFlushFail(k)
           \/ WriterBuffer(k) \/ WriterSend(k) \/ WriterEncodeFail(k)
    PROVE  IInv'
<1> DEFINE x == writer[k]
<1>0. TypeOK /\ WriterInv /\ OnceInv /\ FlushInv
  BY DEF IInv, MsgInv
<1>1. /\ writer \in [Conns -> Writer] /\ out \in [Conns -> SUBSET WireResponse]
      /\ faults \in 0 .. MaxFaults /\ x \in Writer
  BY <1>0 DEF TypeOK
<1>2. x.wr \in WireResponse /\ x.buf \in SUBSET WireResponse /\ out[k] \in SUBSET WireResponse
  BY <1>1 DEF Writer
<1>3. ASSUME NEW p \in {"select", "block", "flush", "done"}
      PROVE  LET z == [x EXCEPT !.pc = p] IN
             z \in Writer /\ z.pc = p /\ z.wr = x.wr /\ z.buf = x.buf /\ z.armed = x.armed
  BY <1>1 DEF Writer
<1>4. LET z == WireReset(x.wr) IN z \in WireResponse /\ z.hdr = NoReq /\ z.body = NoReq
  BY <1>2 DEF WireReset, WireResponse, ReqOrNone
<1>5. x.pc \in {"select", "block", "flush"} =>
        /\ x.wr.hdr = NoReq /\ x.wr.body = NoReq /\ (x.buf # {} => x.armed)
        /\ \A w \in x.buf, v \in out[k] : w.id # v.id
  BY <1>0 DEF WriterInv, OnceInv, WriterOnce, FlushInv
<1>6. x.pc = "encode" =>
        /\ x.armed
        /\ \A w \in x.buf, v \in out[k] : w.id # v.id
        /\ \A w \in x.buf \cup out[k] : w.id # x.wr.id
  BY <1>0 DEF OnceInv, WriterOnce, FlushInv
<1>7. WriteFail(k) \/ Fault => faults' \in 0 .. MaxFaults
  BY <1>1, ServerAssumption DEF WriteFail, Fault
<1>8. ASSUME NEW msgs \in SUBSET WireResponse, NEW part \in Escaped(k, msgs)
      PROVE  part \subseteq msgs
  BY <1>8 DEF Escaped
<1>9. Outgoing(k) = x.buf \cup {x.wr}
  BY DEF Outgoing
<1> HIDE DEF x
<1>10. CASE WriterBlock(k)
  <2>1. writer' = [writer EXCEPT ![k] = [x EXCEPT !.pc = "block"]] /\ x.pc = "select"
    BY <1>10 DEF WriterBlock, x
  <2>2. WriterMoves(k)
    BY <1>1, <1>3, <1>5, <1>10, <2>1 DEF WriterMoves, WriterBlock, x
  <2> QED
    BY <1>1, <1>3, <1>10, <2>1, <2>2, WriterFrame, ZenonT(30) DEF WriterBlock
<1>11. CASE WriterStop(k)
  <2>1. writer' = [writer EXCEPT ![k] = [x EXCEPT !.pc = "done"]] /\ x.pc = "block"
    BY <1>11 DEF WriterStop, x
  <2>2. WriterMoves(k)
    BY <1>1, <1>3, <1>11, <2>1 DEF WriterMoves, WriterStop, x
  <2> QED
    BY <1>1, <1>3, <1>11, <2>1, <2>2, WriterFrame, ZenonT(30) DEF WriterStop
<1>17. CASE WriterFlush(k)
  <2>1. writer' = [writer EXCEPT ![k] = [x EXCEPT !.pc = "flush"]] /\ x.pc = "block"
    BY <1>17 DEF WriterFlush, x
  <2>2. WriterMoves(k)
    BY <1>1, <1>3, <1>5, <1>17, <2>1 DEF WriterMoves, WriterFlush, x
  <2> QED
    BY <1>1, <1>3, <1>17, <2>1, <2>2, WriterFrame, ZenonT(30) DEF WriterFlush
<1>12. CASE WriterFlushed(k)
  <2> DEFINE z == [x EXCEPT !.pc = "select", !.armed = FALSE, !.buf = {}]
  <2>1. writer' = [writer EXCEPT ![k] = z] /\ x.pc = "flush"
    BY <1>12 DEF WriterFlushed, Flushed, x
  <2>2. z \in Writer /\ z.pc = "select" /\ z.wr = x.wr /\ z.buf = {}
    BY <1>1 DEF Writer
  <2> HIDE DEF z
  <2>3. out' = [out EXCEPT ![k] = out[k] \cup x.buf]
    BY <1>12 DEF WriterFlushed, x
  <2>4. WriterMoves(k)
    BY <1>1, <1>5, <1>12, <2>1, <2>2, <2>3 DEF WriterMoves, WriterFlushed, x
  <2>5. faults' = faults
    BY <1>12 DEF WriterFlushed
  <2> QED
    BY <1>1, <1>2, <2>1, <2>2, <2>3, <2>4, <2>5, WriterFrame
<1>13. CASE WriterFlushFail(k)
  <2>1. writer' = [writer EXCEPT ![k] = [x EXCEPT !.pc = "done"]] /\ x.pc = "flush"
    BY <1>13 DEF WriterFlushFail, x
  <2>2. PICK part \in Escaped(k, x.buf) : out' = [out EXCEPT ![k] = out[k] \cup part]
    BY <1>13 DEF WriterFlushFail, x
  <2>3. part \subseteq x.buf /\ faults' \in 0 .. MaxFaults
    BY <1>2, <1>7, <1>8, <1>13 DEF WriterFlushFail
  <2>4. WriterMoves(k)
    BY <1>1, <1>3, <1>13, <2>1, <2>2, <2>3 DEF WriterMoves, WriterFlushFail, x
  <2> QED
    BY <1>1, <1>2, <1>3, <2>1, <2>2, <2>3, <2>4, WriterFrame
<1>14. CASE WriterBuffer(k)
  <2> DEFINE z == [x EXCEPT !.pc = "select", !.buf = Outgoing(k), !.wr = WireReset(x.wr)]
  <2>1. writer' = [writer EXCEPT ![k] = z] /\ x.pc = "encode"
    BY <1>14 DEF WriterBuffer, x
  <2>2. /\ z \in Writer /\ z.pc = "select" /\ z.wr = WireReset(x.wr)
        /\ z.buf = x.buf \cup {x.wr} /\ z.armed = x.armed
    BY <1>1, <1>2, <1>4, <1>9 DEF Writer
  <2> HIDE DEF z
  <2>3. UNCHANGED <<faults, out>>
    BY <1>14 DEF WriterBuffer
  <2>4. writer'[k] = z /\ \A l \in Conns : l # k => writer'[l] = writer[l]
    BY <1>1, <2>1
  <2>5. \A w \in z.buf, v \in out[k] : w.id # v.id
    BY <1>6, <2>1, <2>2
  <2>6. z.armed /\ z.wr.hdr = NoReq /\ z.wr.body = NoReq
    <3>1. z.armed
      BY <1>6, <2>1, <2>2, Zenon
    <3> QED
      BY <1>4, <2>2, <3>1
  <2>7. WriterMoves(k)
    BY <1>14, <2>1, <2>2, <2>3, <2>4, <2>5, <2>6 DEF WriterMoves, WriterBuffer, x
  <2> QED
    BY <1>1, <2>1, <2>2, <2>3, <2>7, WriterFrame
<1>15. CASE WriterSend(k)
  <2> DEFINE z == [x EXCEPT !.pc = "select", !.buf = {}, !.wr = WireReset(x.wr)]
  <2>1. writer' = [writer EXCEPT ![k] = z] /\ x.pc = "encode"
    BY <1>15 DEF WriterSend, x
  <2>2. z \in Writer /\ z.pc = "select" /\ z.wr = WireReset(x.wr) /\ z.buf = {}
    BY <1>1, <1>4 DEF Writer
  <2> HIDE DEF z
  <2>3. out' = [out EXCEPT ![k] = out[k] \cup (x.buf \cup {x.wr})]
    BY <1>9, <1>15 DEF WriterSend
  <2>4. WriterMoves(k)
    BY <1>1, <1>4, <1>15, <2>1, <2>2, <2>3 DEF WriterMoves, WriterSend, x
  <2>5. faults' = faults
    BY <1>15 DEF WriterSend
  <2> QED
    BY <1>1, <1>2, <2>1, <2>2, <2>3, <2>4, <2>5, WriterFrame
<1>16. CASE WriterEncodeFail(k)
  <2>1. writer' = [writer EXCEPT ![k] = [x EXCEPT !.pc = "done"]] /\ x.pc = "encode"
    BY <1>16 DEF WriterEncodeFail, x
  <2>2. PICK part \in Escaped(k, IF MustFlush(k) THEN Outgoing(k) ELSE {}) :
          out' = [out EXCEPT ![k] = out[k] \cup part]
    BY <1>16 DEF WriterEncodeFail
  <2>3. part \subseteq x.buf \cup {x.wr}
    <3>1. CASE MustFlush(k)
      <4>1. part \in Escaped(k, Outgoing(k)) /\ Outgoing(k) \in SUBSET WireResponse
        BY <1>2, <1>9, <2>2, <3>1
      <4> QED
        BY <1>8, <1>9, <4>1
    <3>2. CASE ~MustFlush(k)
      <4>1. part \in Escaped(k, {}) /\ {} \in SUBSET WireResponse
        BY <2>2, <3>2
      <4> QED
        BY <1>8, <4>1
    <3> QED
      BY <3>1, <3>2
  <2>4. faults' \in 0 .. MaxFaults
    BY <1>7, <1>16 DEF WriterEncodeFail
  <2>5. WriterMoves(k)
    BY <1>1, <1>3, <1>16, <2>1, <2>2, <2>3 DEF WriterMoves, WriterEncodeFail, x
  <2> QED
    BY <1>1, <1>2, <1>3, <2>1, <2>2, <2>3, <2>4, <2>5, WriterFrame
<1> QED
  BY <1>10, <1>11, <1>12, <1>13, <1>14, <1>15, <1>16, <1>17

-----------------------------------------------------------------------------
(* What follows.                                                            *)

\* Every step preserves the invariant.
LEMMA NextIInv ==
    ASSUME IInv, [Next]_vars
    PROVE  IInv'
<1>1. CASE UNCHANGED vars
  <2>1. TypeOK' /\ LifeInv'
    BY <1>1 DEF IInv, TypeOK, LifeInv, vars
  <2>2. UNCHANGED msgVars
    BY <1>1 DEF vars, msgVars, workVars, memVars
  <2> QED
    BY <2>1, <2>2, Frames DEF IInv, MsgInv, msgVars, memVars, workVars
<1>2. CASE QuietStep
  BY <1>2, QuietIInv
<1>3. ASSUME NEW r \in Reqs, ClientSend(r) \/ serveRequest(r)
      PROVE  IInv'
  BY <1>3, ClientSendIInv, WorkerStartIInv, WorkerHandleIInv, WorkerReplyIInv,
     WorkerIdleIInv, WorkerReleaseIInv DEF serveRequest, WorkerEnd
<1>4. ASSUME NEW k \in Conns, HandshakeOk(k) \/ serverReader(k)
      PROVE  IInv'
  BY <1>4, HandshakeOkIInv, ReaderDecodeIInv, ReaderIdleIInv, ReaderSpawnIInv DEF serverReader
<1>5. ASSUME NEW k \in Conns, serverWriter(k)
      PROVE  IInv'
  BY <1>5, WriterTakeIInv, WriterIInv DEF serverWriter
<1> QED
  BY <1>1, <1>2, <1>3, <1>4, <1>5 DEF Next, QuietStep, serverHandleConnection

\* The inductive invariant holds in every reachable state.
LEMMA Inductive == Spec => []IInv
BY InitIInv, NextIInv, PTL DEF Spec

\* Every variable keeps its type, and responsesChan and workersCh stay within
\* their capacities, however many workers and connections there are.
THEOREM ServerTypes == Spec => []TypeOK
<1>1. IInv => TypeOK
  BY DEF IInv
<1> QED
  BY <1>1, Inductive, PTL

\* At most one: all members of the set are equal.
LEMMA AtMostOne ==
    ASSUME NEW S, \A x, y \in S : x = y
    PROVE  Cardinality(S) <= 1
<1>1. CASE S = {}
  BY <1>1, FS_EmptySet
<1>2. ASSUME NEW x \in S
      PROVE  Cardinality(S) <= 1
  <2>1. S = {x}
    BY <1>2
  <2> QED
    BY <2>1, FS_Singleton
<1> QED
  BY <1>1, <1>2

\* A serverMessage is with the reader, with one worker, in one responsesChan
\* or in the pool, and in no two of these places.
THEOREM ServerOwnership == Spec => []MessageOwnership
<1>1. ASSUME IInv
      PROVE  MessageOwnership
  <2> SUFFICES ASSUME NEW o \in Objs
               PROVE  \A x, y \in Holders(o) : x = y
    BY AtMostOne DEF MessageOwnership
  <2>0. OwnerInv /\ o # NoObj
    BY <1>1, ServerAssumption DEF IInv, MsgInv
  <2>1. ASSUME NEW x \in Holders(o)
        PROVE  \/ x = <<"pool">> /\ Unused(o)
               \/ \E k \in Conns : x = <<"reader", k>> /\ reader[k].m = o
               \/ \E r \in Reqs : x = <<"worker", r>> /\ worker[r].m = o
               \/ \E k \in Conns : \E i \in 1 .. Len(responsesChan[k]) :
                     x = <<"chan", k, i>> /\ responsesChan[k][i] = o
    BY <2>1 DEF Holders, Unused
  <2> SUFFICES ASSUME NEW x \in Holders(o), NEW y \in Holders(o)
               PROVE  x = y
    OBVIOUS
  <2>2. CASE Unused(o)
    <3>1. /\ \A k \in Conns : reader[k].m # o
          /\ \A r \in Reqs : worker[r].m # o
          /\ \A k \in Conns : \A i \in 1 .. Len(responsesChan[k]) : responsesChan[k][i] # o
      BY <2>0, <2>2 DEF OwnerInv, ReaderOwns, WorkerOwns, ChanOwns
    <3> QED
      BY <2>1, <3>1
  <2>3. ASSUME NEW k \in Conns, reader[k].m = o
        PROVE  x = y
    <3>1. ReaderOwns(k)
      BY <2>0, <2>3 DEF OwnerInv
    <3>2. /\ ~Unused(o) /\ \A r \in Reqs : worker[r].m # o
          /\ \A l \in Conns : reader[l].m = o => l = k
          /\ \A l \in Conns : \A i \in 1 .. Len(responsesChan[l]) : responsesChan[l][i] # o
      BY <2>3, <3>1 DEF ReaderOwns, Queued
    <3> QED
      BY <2>1, <3>2
  <2>4. ASSUME NEW r \in Reqs, worker[r].m = o
        PROVE  x = y
    <3>1. WorkerOwns(r)
      BY <2>0, <2>4 DEF OwnerInv
    <3>2. /\ ~Unused(o) /\ \A q \in Reqs : worker[q].m = o => q = r
          /\ \A l \in Conns : \A i \in 1 .. Len(responsesChan[l]) : responsesChan[l][i] # o
          /\ \A l \in Conns : reader[l].m # o
      BY <2>0, <2>4, <3>1 DEF OwnerInv, ReaderOwns, WorkerOwns, Queued
    <3> QED
      BY <2>1, <3>2
  <2>5. CASE /\ ~Unused(o) /\ \A k \in Conns : reader[k].m # o
             /\ \A r \in Reqs : worker[r].m # o
    <3>1. \E k \in Conns : \E i \in 1 .. Len(responsesChan[k]) :
             x = <<"chan", k, i>> /\ responsesChan[k][i] = o
      BY <2>1, <2>5
    <3>2. \E l \in Conns : \E j \in 1 .. Len(responsesChan[l]) :
             y = <<"chan", l, j>> /\ responsesChan[l][j] = o
      BY <2>1, <2>5
    <3>3. \A k, l \in Conns : \A i \in 1 .. Len(responsesChan[k]),
                                 j \in 1 .. Len(responsesChan[l]) :
             responsesChan[k][i] = o /\ responsesChan[l][j] = o => k = l /\ i = j
      BY <2>0 DEF OwnerInv, ChanOwns
    <3> QED
      BY <3>1, <3>2, <3>3
  <2> QED
    BY <2>2, <2>3, <2>4, <2>5
<1> QED
  BY <1>1, Inductive, PTL

\* A request is handled at most once and answered at most once: at any time it
\* is in one place between its stream and the client.
THEOREM ServerServedOnce == Spec => []ServedOnce
<1>1. ASSUME IInv
      PROVE  ServedOnce
  <2> SUFFICES ASSUME NEW r \in Reqs
               PROVE  \A x, y \in Whereabouts(r) : x = y
    BY AtMostOne DEF ServedOnce
  <2> DEFINE k == Origin[r]
             InStream(x) == \E i \in 1 .. Len(stream[k]) :
                               x = <<"stream", i>> /\ stream[k][i] = r
             InReader(x) == /\ x = <<"reader">> /\ reader[k].m # NoObj
                            /\ heap[reader[k].m].req = r
             InWorker(x) == /\ x = <<"worker">>
                            /\ worker[r].pc \in {"start", "handler", "reply", "wait"}
             InChan(x) == \E i \in 1 .. Len(responsesChan[k]) :
                               x = <<"chan", i>> /\ heap[responsesChan[k][i]].id = r
             InWriter(x) == x = <<"writer">> /\ writer[k].pc = "encode" /\ writer[k].wr.id = r
             InBuffer(x) == /\ x = <<"buffer">> /\ writer[k].pc # "done"
                            /\ \E w \in writer[k].buf : w.id = r
             InOut(x) == x = <<"out">> /\ \E w \in out[k] : w.id = r
  <2>0. /\ StreamInv /\ ReaderInv /\ ChanInv /\ WriterInv /\ OnceInv
        /\ ChanOnce(k) /\ WriterOnce(k) /\ k \in Conns
    BY <1>1, ServerAssumption DEF IInv, MsgInv, OnceInv
  <2>1. ASSUME NEW x \in Whereabouts(r)
        PROVE  \/ InStream(x) \/ InReader(x) \/ InWorker(x) \/ InChan(x)
               \/ InWriter(x) \/ InBuffer(x) \/ InOut(x)
    BY <2>1 DEF Whereabouts
  <2>2. \A x : InStream(x) \/ InReader(x) => worker[r].pc = "none"
    BY <2>0 DEF StreamInv, ReaderInv, Unserved
  <2>3. \A x : InChan(x) \/ InWriter(x) \/ InBuffer(x) \/ InOut(x) =>
                  worker[r].pc \in {"release", "gone"}
    BY <2>0 DEF ChanInv, WriterInv, Sound, Served
  <2>4. \A x, y : (InStream(x) \/ InReader(x)) /\ (InStream(y) \/ InReader(y)) => x = y
    <3>1. \A x, y : InStream(x) /\ InStream(y) => x = y
      BY <2>0 DEF StreamInv
    <3>2. \A x, y : InReader(x) => ~InStream(y)
      BY <2>0 DEF ReaderInv
    <3> QED
      BY <3>1, <3>2
  <2>5. \A x, y : InChan(x) =>
                  /\ InChan(y) => x = y
                  /\ ~InWriter(y) /\ ~InBuffer(y) /\ ~InOut(y)
    BY <2>0 DEF ChanOnce
  <2>6. \A x, y : InWriter(x) => ~InBuffer(y) /\ ~InOut(y)
    BY <2>0 DEF WriterOnce
  <2>7. \A x, y : InBuffer(x) => ~InOut(y)
    BY <2>0 DEF WriterOnce
  <2>8. \A x, y : (InWriter(x) /\ InWriter(y)) \/ (InBuffer(x) /\ InBuffer(y))
                  \/ (InOut(x) /\ InOut(y)) \/ (InWorker(x) /\ InWorker(y)) => x = y
    OBVIOUS
  <2>9. \A x : InWorker(x) => worker[r].pc \in {"start", "handler", "reply", "wait"}
    OBVIOUS
  <2> HIDE DEF InStream, InReader, InWorker, InChan, InWriter, InBuffer, InOut
  <2> QED
    BY <2>1, <2>2, <2>3, <2>4, <2>5, <2>6, <2>7, <2>8, <2>9
<1> QED
  BY <1>1, Inductive, PTL

\* Whoever takes a message from the pool finds nothing of an earlier request.
THEOREM ServerPool == Spec => []PooledIsClean
<1>1. IInv => PooledIsClean
  BY DEF IInv, MsgInv
<1> QED
  BY <1>1, Inductive, PTL

\* A client gets, on the connection it asked on, only what the handler of its
\* own request returned: nothing is left over from an earlier response.
THEOREM ServerResponses == Spec => []ResponseMatchesHandler
<1>1. IInv => ResponseMatchesHandler
  BY DEF IInv, MsgInv, WriterInv, Sound, Served, ResponseMatchesHandler
<1> QED
  BY <1>1, Inductive, PTL

\* No slot of workersCh is lost, or given back twice or to the wrong channel.
THEOREM ServerSlots == Spec => []SlotsExact
<1>1. IInv => SlotsExact
  BY DEF IInv, MsgInv, SlotsInv, Running, SlotsExact
<1> QED
  BY <1>1, Inductive, PTL

\* A writer that waits has scheduled the flush of what it buffered.
THEOREM ServerFlush == Spec => []FlushArmed
<1>1. IInv => FlushArmed
  BY DEF IInv, MsgInv, FlushInv, FlushArmed
<1> QED
  BY <1>1, Inductive, PTL
=============================================================================
