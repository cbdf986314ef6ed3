------------------------------ MODULE RpcServer ------------------------------
(***************************************************************************)
(* The RPC server of iorpc (server.go): Start, Stop and the accept loop,   *)
(* and for every connection the handler, reader and writer goroutines and  *)
(* the workers, one goroutine per request, that run the user's handler.    *)
(*                                                                         *)
(* The clients appear through what the server can observe of them: they    *)
(* connect, send requests, disconnect, and may stop reading.               *)
(***************************************************************************)
EXTENDS Integers, Sequences, FiniteSets

CONSTANTS
    Conns,             \* the connections that clients may make
    Reqs,              \* the requests that may be sent, each at most once
    Origin,            \* Origin[r]: the connection that request r comes from
    Skip,              \* requests with ID 0, which expect no response
    HasBody,           \* requests whose response has a body to stream
    Outcomes,          \* what the user's handlers return
    Objs,              \* serverMessage objects on the heap
    Concurrency,       \* capacity of workersCh
    PendingResponses,  \* capacity of responsesChan
    HeaderLimit,       \* messages that fill the encoder's header buffer
    Relisten,          \* does the Listener report no address after Close?
    MaxStarts,         \* bound on Server.Start
    MaxFaults,         \* bound on failures of connections and of encoding
    NoConn, NoReq, NoObj

ASSUME ServerAssumption ==
    /\ Origin \in [Reqs -> Conns]
    /\ Skip \subseteq Reqs /\ HasBody \subseteq Reqs
    /\ Outcomes \subseteq {"ok", "error", "empty"}
    /\ NoConn \notin Conns /\ NoReq \notin Reqs /\ NoObj \notin Objs
    /\ Concurrency \in Nat \ {0} /\ PendingResponses \in Nat \ {0}
    /\ HeaderLimit \in Nat \ {0}
    /\ Relisten \in BOOLEAN
    /\ MaxStarts \in Nat /\ MaxFaults \in Nat

VARIABLES
    stopChan,       \* serverStopChan: "nil", "open" or "closed"
    starts,         \* number of Start calls so far
    faults,         \* number of failures so far
    bound,          \* Listener.ListenAddr() is not nil
    listening,      \* the listener is open
    acceptor,       \* serverHandler and the connection Accept gave it
    sock,           \* the connection as its client made it
    stream,         \* requests that the client sent and nobody read
    sent,           \* requests sent so far
    stalled,        \* connections on which a write makes no progress
    conn,           \* serverHandleConnection, per connection
    reader,         \* serverReader, per connection
    worker,         \* serveRequest, per request
    workersCh,      \* occupied slots, per Start
    heap,           \* the fields of every serverMessage
    pool, fresh,    \* objects in serverMessagePool, objects never allocated
    responsesChan,  \* finished messages, per connection
    writer,         \* serverWriter, per connection
    out             \* responses that reached the client, per connection

lifeVars == <<stopChan, starts, bound, listening, acceptor>>
clientVars == <<sock, stream, sent, stalled>>
memVars == <<heap, pool, fresh>>
workVars == <<worker, workersCh>>
vars == <<stopChan, starts, faults, bound, listening, acceptor,
          sock, stream, sent, stalled, conn, reader, worker, workersCh, heap, pool,
          fresh, responsesChan, writer, out>>

-----------------------------------------------------------------------------
(* Data.  A response is named by the request it answers; NoReq is the nil   *)
(* response, the empty body and the message ID 0.                           *)

ReqOrNone == Reqs \cup {NoReq}
ObjOrNone == Objs \cup {NoObj}

\* type serverMessage
ServerMessage == [id: ReqOrNone, req: ReqOrNone, resp: ReqOrNone, err: BOOLEAN]
NewMessage == [id |-> NoReq, req |-> NoReq, resp |-> NoReq, err |-> FALSE]

\* type wireResponse
WireResponse == [id: ReqOrNone, hdr: ReqOrNone, body: ReqOrNone, err: BOOLEAN]
NoResponse == [id |-> NoReq, hdr |-> NoReq, body |-> NoReq, err |-> FALSE]

\* What a handler returns: a response, an error (or a panic, which becomes
\* one), or a nil response without an error.
Outcome == {"ok", "error", "empty"}

Acceptor == [pc: {"accepting", "accepted", "failed", "backoff", "stopped"},
             conn: Conns \cup {NoConn}]
Reader == [pc: {"off", "read", "slot", "wait", "done"}, m: ObjOrNone]
Worker == [pc: {"none", "start", "handler", "reply", "wait", "release", "gone"},
           m: ObjOrNone, gen: Nat, outcome: Outcome]
Writer == [pc: {"off", "select", "block", "flush", "encode", "done"},
           wr: WireResponse, buf: SUBSET WireResponse, armed: BOOLEAN]

NewReader(state) == [pc |-> state, m |-> NoObj]
NewWorker == [pc |-> "none", m |-> NoObj, gen |-> 0, outcome |-> "empty"]
NewWriter(state) == [pc |-> state, wr |-> NoResponse, buf |-> {},
                     armed |-> FALSE]

Init ==
    /\ stopChan = "nil" /\ starts = 0 /\ faults = 0
    /\ bound = FALSE /\ listening = FALSE
    /\ acceptor = [pc |-> "stopped", conn |-> NoConn]
    /\ sock = [k \in Conns |-> "none"]
    /\ stream = [k \in Conns |-> <<>>]
    /\ sent = {} /\ stalled = {}
    /\ conn = [k \in Conns |-> "none"]
    /\ reader = [k \in Conns |-> NewReader("off")]
    /\ worker = [r \in Reqs |-> NewWorker]
    /\ workersCh = [g \in 1 .. MaxStarts |-> 0]
    /\ heap = [o \in Objs |-> NewMessage]
    /\ pool = {} /\ fresh = Objs
    /\ responsesChan = [k \in Conns |-> <<>>]
    /\ writer = [k \in Conns |-> NewWriter("off")]
    /\ out = [k \in Conns |-> {}]

Fault == faults < MaxFaults /\ faults' = faults + 1

-----------------------------------------------------------------------------
(* Server.Start and Server.Stop.                                            *)

\* The listener is initialised only if it has no address yet.
Start ==
    /\ stopChan = "nil"
    /\ starts < MaxStarts
    /\ stopChan' = "open"
    /\ starts' = starts + 1
    /\ bound' = TRUE
    /\ listening' = (listening \/ ~bound)
    /\ acceptor' = [pc |-> "accepting", conn |-> NoConn]
    /\ UNCHANGED <<faults, clientVars, conn, reader, workVars,
                   memVars, responsesChan, writer, out>>

\* Listener.Init fails: Start returns the error, and leaves serverStopChan.
StartFail ==
    /\ stopChan = "nil"
    /\ starts < MaxStarts
    /\ ~bound
    /\ stopChan' = "open"
    /\ starts' = starts + 1
    /\ UNCHANGED <<faults, bound, listening, acceptor, clientVars, conn,
                   reader, workVars, memVars, responsesChan, writer, out>>

\* close(s.serverStopChan)
Stop ==
    /\ stopChan = "open"
    /\ stopChan' = "closed"
    /\ UNCHANGED <<starts, faults, bound, listening, acceptor,
                   clientVars, conn, reader, workVars, memVars,
                   responsesChan, writer, out>>

Stopping == stopChan = "closed"

\* s.stopWg.Wait() returns.  The workers are not waited for.
StopReturn ==
    /\ Stopping
    /\ acceptor.pc = "stopped"
    /\ \A k \in Conns : conn[k] \in {"none", "done"}
    /\ stopChan' = "nil"
    /\ UNCHANGED <<starts, faults, bound, listening, acceptor,
                   clientVars, conn, reader, workVars, memVars,
                   responsesChan, writer, out>>

-----------------------------------------------------------------------------
(* serverHandler: one Accept at a time, and what the select does with it.   *)

AcceptConn(k) ==
    /\ acceptor.pc = "accepting"
    /\ listening
    /\ sock[k] \in {"open", "eof"} /\ conn[k] = "none"
    /\ acceptor' = [pc |-> "accepted", conn |-> k]
    /\ UNCHANGED <<stopChan, starts, faults, bound, listening,
                   clientVars, conn, reader, workVars, memVars,
                   responsesChan, writer, out>>

\* Accept may fail at any time, and on a closed listener it always does.
AcceptFail ==
    /\ acceptor.pc = "accepting"
    /\ acceptor' = [acceptor EXCEPT !.pc = "failed"]
    /\ UNCHANGED <<stopChan, starts, faults, bound, listening, clientVars,
                   conn, reader, workVars, memVars, responsesChan, writer,
                   out>>

\* <-acceptChan: a goroutine for the connection.
AcceptorServe ==
    /\ acceptor.pc = "accepted"
    /\ conn' = [conn EXCEPT ![acceptor.conn] = "handshake"]
    /\ acceptor' = [pc |-> "accepting", conn |-> NoConn]
    /\ UNCHANGED <<stopChan, starts, faults, bound, listening,
                   clientVars, reader, workVars, memVars, responsesChan,
                   writer, out>>

\* <-acceptChan with an error, then one second.
AcceptorBackoff ==
    /\ acceptor.pc \in {"failed", "backoff"}
    /\ acceptor' = [acceptor EXCEPT !.pc = IF @ = "failed" THEN "backoff"
                                                          ELSE "accepting"]
    /\ UNCHANGED <<stopChan, starts, faults, bound, listening,
                   clientVars, conn, reader, workVars, memVars,
                   responsesChan, writer, out>>

\* A connection that waits to be accepted; closing the listener resets it.
Waiting(k) == conn[k] = "none" /\ acceptor.conn # k

\* <-s.serverStopChan.  During the backoff the listener stays open; a
\* connection that was just accepted is neither served nor closed.
AcceptorStop ==
    /\ Stopping
    /\ acceptor.pc # "stopped"
    /\ acceptor' = [pc |-> "stopped", conn |-> NoConn]
    /\ IF acceptor.pc = "backoff"
       THEN UNCHANGED <<bound, listening, sock>>
       ELSE /\ listening' = FALSE
            /\ bound' = (bound /\ ~Relisten)
            /\ sock' = [k \in Conns |-> IF sock[k] # "none" /\ Waiting(k)
                                       THEN "closed" ELSE sock[k]]
    /\ conn' = IF acceptor.pc = "accepted"
               THEN [conn EXCEPT ![acceptor.conn] = "done"] ELSE conn
    /\ UNCHANGED <<stopChan, starts, faults, stream, sent, stalled, reader,
                   workVars, memVars, responsesChan, writer, out>>

serverHandler ==
    \/ \E k \in Conns : AcceptConn(k)
    \/ AcceptFail \/ AcceptorServe \/ AcceptorBackoff \/ AcceptorStop

-----------------------------------------------------------------------------
(* The clients.                                                             *)

ClientConnect(k) ==
    /\ sock[k] = "none"
    /\ listening
    /\ sock' = [sock EXCEPT ![k] = "open"]
    /\ UNCHANGED <<lifeVars, faults, stream, sent, stalled, conn, reader,
                   workVars, memVars, responsesChan, writer, out>>

ClientSend(r) ==
    /\ sock[Origin[r]] = "open"
    /\ r \notin sent
    /\ sent' = sent \cup {r}
    /\ stream' = [stream EXCEPT ![Origin[r]] = Append(@, r)]
    /\ UNCHANGED <<lifeVars, faults, sock, stalled, conn, reader, workVars,
                   memVars, responsesChan, writer, out>>

\* What was sent can still be read.
ClientClose(k) ==
    /\ sock[k] = "open"
    /\ sock' = [sock EXCEPT ![k] = "eof"]
    /\ UNCHANGED <<lifeVars, faults, stream, sent, stalled, conn, reader,
                   workVars, memVars, responsesChan, writer, out>>

-----------------------------------------------------------------------------
(* serverHandleConnection.                                                  *)

\* The client's handshake byte was read.
HandshakeOk(k) ==
    /\ conn[k] = "handshake"
    /\ conn' = [conn EXCEPT ![k] = "serving"]
    /\ reader' = [reader EXCEPT ![k] = NewReader("read")]
    /\ writer' = [writer EXCEPT ![k] = NewWriter("select")]
    /\ UNCHANGED <<lifeVars, faults, clientVars, workVars, memVars,
                   responsesChan, out>>

\* OnConnect or the read fails, the client went away or is silent for 10s,
\* or the server stops.
HandshakeFail(k) ==
    /\ conn[k] = "handshake"
    /\ conn' = [conn EXCEPT ![k] = "done"]
    /\ sock' = [sock EXCEPT ![k] = "closed"]
    /\ UNCHANGED <<lifeVars, faults, stream, sent, stalled, reader, workVars,
                   memVars, responsesChan, writer, out>>

\* The three cases of the select.
MustClose(k) == reader[k].pc = "done" \/ writer[k].pc = "done" \/ Stopping

\* close(stopChan); conn.Close()
ConnClose(k) ==
    /\ conn[k] = "serving"
    /\ MustClose(k)
    /\ conn' = [conn EXCEPT ![k] = "closing"]
    /\ sock' = [sock EXCEPT ![k] = "closed"]
    /\ UNCHANGED <<lifeVars, faults, stream, sent, stalled, reader, workVars,
                   memVars, responsesChan, writer, out>>

ConnDone(k) ==
    /\ conn[k] = "closing"
    /\ reader[k].pc = "done" /\ writer[k].pc = "done"
    /\ conn' = [conn EXCEPT ![k] = "done"]
    /\ UNCHANGED <<lifeVars, faults, clientVars, reader, workVars, memVars,
                   responsesChan, writer, out>>

serverHandleConnection(k) ==
    HandshakeOk(k) \/ HandshakeFail(k) \/ ConnClose(k) \/ ConnDone(k)

\* stopChan of the connection is closed.
StopClosed(k) == conn[k] \in {"closing", "done"}

-----------------------------------------------------------------------------
(* serverReader.                                                            *)

\* m.ID, m.Request; Response and Error keep what the pool left in them.
Received(m, r) == [m EXCEPT !.id = IF r \in Skip THEN NoReq ELSE r, !.req = r]

ReaderDecode(k) ==
    /\ reader[k].pc = "read"
    /\ sock[k] # "closed"
    /\ stream[k] # <<>>
    /\ \E o \in pool \cup fresh :
        /\ pool' = pool \ {o}
        /\ fresh' = fresh \ {o}
        /\ heap' = [heap EXCEPT ![o] = Received(@, Head(stream[k]))]
        /\ reader' = [reader EXCEPT ![k] = [pc |-> "slot", m |-> o]]
    /\ stream' = [stream EXCEPT ![k] = Tail(@)]
    /\ UNCHANGED <<lifeVars, faults, sock, sent, stalled, conn, workVars,
                   responsesChan, writer, out>>

\* DecodeRequest fails or panics, or meets the end of the stream.
ReaderFail(k) ==
    /\ reader[k].pc = "read"
    /\ \/ sock[k] = "closed" /\ UNCHANGED faults
       \/ sock[k] = "eof" /\ stream[k] = <<>> /\ UNCHANGED faults
       \/ Fault
    /\ reader' = [reader EXCEPT ![k].pc = "done"]
    /\ UNCHANGED <<lifeVars, clientVars, conn, workVars, memVars,
                   responsesChan, writer, out>>

\* Mutant: one worker more than workersCh has slots.
SlotFree_OffByOne == workersCh[starts] <= Concurrency

SlotFree == workersCh[starts] < Concurrency

\* workersCh <- struct{}{} in either select, and go serveRequest
ReaderSpawn(k) ==
    LET o == reader[k].m IN
    /\ reader[k].pc \in {"slot", "wait"}
    /\ SlotFree
    /\ workersCh' = [workersCh EXCEPT ![starts] = @ + 1]
    /\ worker' = [worker EXCEPT ![heap[o].req] =
                      [@ EXCEPT !.pc = "start", !.m = o, !.gen = starts]]
    /\ reader' = [reader EXCEPT ![k] = NewReader("read")]
    /\ UNCHANGED <<lifeVars, faults, clientVars, conn, memVars,
                   responsesChan, writer, out>>

ReaderBlock(k) ==
    /\ reader[k].pc = "slot"
    /\ ~SlotFree
    /\ reader' = [reader EXCEPT ![k].pc = "wait"]
    /\ UNCHANGED <<lifeVars, faults, clientVars, conn, workVars, memVars,
                   responsesChan, writer, out>>

\* <-stopChan while waiting for a slot: the request is dropped.  Mutant: the
\* reader waits for the slot only.
ReaderGivesUp_Never(k) == FALSE

ReaderGivesUp(k) == reader[k].pc = "wait" /\ StopClosed(k)

ReaderStop(k) ==
    /\ ReaderGivesUp(k)
    /\ reader' = [reader EXCEPT ![k] = NewReader("done")]
    /\ UNCHANGED <<lifeVars, faults, clientVars, conn, workVars, memVars,
                   responsesChan, writer, out>>

serverReader(k) == \/ ReaderDecode(k) \/ ReaderFail(k) \/ ReaderSpawn(k)
                   \/ ReaderBlock(k) \/ ReaderStop(k)

-----------------------------------------------------------------------------
(* serveRequest, the worker of one request.                                 *)

\* m.Response = nil; m.Error = "".  Mutant: they stay.
Cleared_Not(m) == m

Cleared(m) == [m EXCEPT !.resp = NoReq, !.err = FALSE]

SkipResponse(o) == heap[o].id = NoReq

\* The message of a request with ID 0 is recycled before the handler runs.
\* Mutant: every message is.
Recycled_Always(o) == pool \cup {o}

Recycled(o) == IF SkipResponse(o) THEN pool \cup {o} ELSE pool

\* The request is taken out of the message.
WorkerStart(r) ==
    LET o == worker[r].m
        m == [heap[o] EXCEPT !.req = NoReq]
    IN
    /\ worker[r].pc = "start"
    /\ heap' = [heap EXCEPT ![o] = IF SkipResponse(o) THEN Cleared(m) ELSE m]
    /\ pool' = Recycled(o)
    /\ worker' = [worker EXCEPT ![r].pc = "handler",
                                ![r].m = IF SkipResponse(o) THEN NoObj ELSE o]
    /\ UNCHANGED <<lifeVars, faults, clientVars, conn, reader, workersCh,
                   fresh, responsesChan, writer, out>>

\* The user's handler returns, or panics and is recovered.
Finished(m, r, outcome) ==
    [m EXCEPT !.resp = IF outcome = "ok" THEN r ELSE NoReq,
              !.err = (outcome = "error")]

WorkerHandle(r) ==
    LET o == worker[r].m IN
    /\ worker[r].pc = "handler"
    /\ \E outcome \in Outcomes :
        /\ worker' = [worker EXCEPT ![r].outcome = outcome,
                          ![r].pc = IF o = NoObj THEN "release" ELSE "reply"]
        /\ heap' = IF o = NoObj THEN heap
                   ELSE [heap EXCEPT ![o] = Finished(@, r, outcome)]
    /\ UNCHANGED <<lifeVars, faults, clientVars, conn, reader, workersCh,
                   pool, fresh, responsesChan, writer, out>>

ChanFree(k) == Len(responsesChan[k]) < PendingResponses

\* responsesChan <- m in either select
WorkerReply(r) ==
    LET k == Origin[r] IN
    /\ worker[r].pc \in {"reply", "wait"}
    /\ ChanFree(k)
    /\ responsesChan' = [responsesChan EXCEPT ![k] = Append(@, worker[r].m)]
    /\ worker' = [worker EXCEPT ![r].pc = "release", ![r].m = NoObj]
    /\ UNCHANGED <<lifeVars, faults, clientVars, conn, reader, workersCh,
                   memVars, writer, out>>

WorkerBlock(r) ==
    /\ worker[r].pc = "reply"
    /\ ~ChanFree(Origin[r])
    /\ worker' = [worker EXCEPT ![r].pc = "wait"]
    /\ UNCHANGED <<lifeVars, faults, clientVars, conn, reader, workersCh,
                   memVars, responsesChan, writer, out>>

\* <-stopChan while waiting for room: the response is dropped.  Mutants: the
\* worker waits for room only; it returns without giving the slot back.
WorkerGivesUp_Never(r) == worker

WorkerGivesUp_KeepsSlot(r) ==
    [worker EXCEPT ![r].pc = "gone", ![r].m = NoObj]

WorkerGivesUp(r) == [worker EXCEPT ![r].pc = "release", ![r].m = NoObj]

WorkerDrop(r) ==
    /\ worker[r].pc = "wait"
    /\ StopClosed(Origin[r])
    /\ worker' = WorkerGivesUp(r)
    /\ UNCHANGED <<lifeVars, faults, clientVars, conn, reader, workersCh,
                   memVars, responsesChan, writer, out>>

\* workersCh is the channel of the Start that the worker belongs to.
\* Mutant: the one that the server has now.
SlotBack_Current(r) == [workersCh EXCEPT ![starts] = @ - 1]

SlotBack(r) == [workersCh EXCEPT ![worker[r].gen] = @ - 1]

\* <-workersCh
WorkerRelease(r) ==
    /\ worker[r].pc = "release"
    /\ workersCh' = SlotBack(r)
    /\ worker' = [worker EXCEPT ![r].pc = "gone"]
    /\ UNCHANGED <<lifeVars, faults, clientVars, conn, reader, memVars,
                   responsesChan, writer, out>>

\* What a worker does once the handler has returned.
WorkerEnd(r) ==
    WorkerReply(r) \/ WorkerBlock(r) \/ WorkerDrop(r) \/ WorkerRelease(r)

serveRequest(r) == WorkerStart(r) \/ WorkerHandle(r) \/ WorkerEnd(r)

-----------------------------------------------------------------------------
(* serverWriter.                                                            *)

\* wr takes ID and Error of the message, and Headers and Body only if it has
\* a Response: a nil one leaves what wr holds.
Loaded(wr, m) ==
    [id |-> m.id, err |-> m.err,
     hdr |-> IF m.resp # NoReq THEN m.resp ELSE wr.hdr,
     body |-> IF m.resp = NoReq THEN wr.body
              ELSE IF m.resp \in HasBody THEN m.resp ELSE NoReq]

\* A flush is scheduled if none is.  Mutant: only the blocking select does.
Armed_Blocking(k) == writer[k].armed \/ writer[k].pc = "block"

Armed(k) == TRUE

\* m = <-responsesChan in either select; the message goes back to the pool.
WriterTake(k) ==
    LET o == Head(responsesChan[k]) IN
    /\ writer[k].pc \in {"select", "block"}
    /\ responsesChan[k] # <<>>
    /\ responsesChan' = [responsesChan EXCEPT ![k] = Tail(@)]
    /\ writer' = [writer EXCEPT ![k].pc = "encode", ![k].armed = Armed(k),
                                ![k].wr = Loaded(@, heap[o])]
    /\ heap' = [heap EXCEPT ![o] = Cleared(@)]
    /\ pool' = pool \cup {o}
    /\ UNCHANGED <<lifeVars, faults, clientVars, conn, reader, workVars,
                   fresh, out>>

WriterBlock(k) ==
    /\ writer[k].pc = "select"
    /\ responsesChan[k] = <<>>
    /\ writer' = [writer EXCEPT ![k].pc = "block"]
    /\ UNCHANGED <<lifeVars, faults, clientVars, conn, reader, workVars,
                   memVars, responsesChan, out>>

WriterStop(k) ==
    /\ writer[k].pc = "block"
    /\ StopClosed(k)
    /\ writer' = [writer EXCEPT ![k].pc = "done"]
    /\ UNCHANGED <<lifeVars, faults, clientVars, conn, reader, workVars,
                   memVars, responsesChan, out>>

\* The encoder's buffer is empty after Flush.  Mutant: it is not reset.
Flushed_KeepsBuffer(k) == [writer EXCEPT ![k].pc = "select", ![k].armed = FALSE]

Flushed(k) == [writer EXCEPT ![k].pc = "select", ![k].armed = FALSE,
                             ![k].buf = {}]

\* <-flushChan: e.Flush() starts,
WriterFlush(k) ==
    /\ writer[k].pc = "block"
    /\ writer[k].armed
    /\ writer' = [writer EXCEPT ![k].pc = "flush"]
    /\ UNCHANGED <<lifeVars, faults, clientVars, conn, reader, workVars,
                   memVars, responsesChan, out>>

\* A write that waits for the client, until the connection is closed.
Blocked(k) == k \in stalled /\ sock[k] # "closed"
CanWrite(k) == sock[k] # "closed" /\ ~Blocked(k)

\* and ends; without a message in the buffer it writes nothing.
WriterFlushed(k) ==
    /\ writer[k].pc = "flush"
    /\ CanWrite(k) \/ writer[k].buf = {}
    /\ out' = [out EXCEPT ![k] = @ \cup writer[k].buf]
    /\ writer' = Flushed(k)
    /\ UNCHANGED <<lifeVars, faults, clientVars, conn, reader, workVars,
                   memVars, responsesChan>>

\* A write fails because the client or the server closed the connection, or
\* by a fault; part of it may have got out, unless the server closed the
\* connection before.
WriteFail(k) == \/ sock[k] # "open" /\ ~Blocked(k) /\ UNCHANGED faults
                \/ Fault
Escaped(k, msgs) ==
    IF sock[k] = "closed" /\ k \notin stalled THEN {{}} ELSE SUBSET msgs

WriterFlushFail(k) ==
    /\ writer[k].pc = "flush"
    /\ writer[k].buf # {}
    /\ WriteFail(k)
    /\ \E part \in Escaped(k, writer[k].buf) :
        out' = [out EXCEPT ![k] = @ \cup part]
    /\ writer' = [writer EXCEPT ![k].pc = "done"]
    /\ UNCHANGED <<lifeVars, clientVars, conn, reader, workVars, memVars,
                   responsesChan>>

\* EncodeResponse flushes a response with a body, and a full header buffer.
Outgoing(k) == writer[k].buf \cup {writer[k].wr}
MustFlush(k) == \/ writer[k].wr.body # NoReq
                \/ Cardinality(Outgoing(k)) >= HeaderLimit

\* wr.Body.Reset(); wr.Headers = nil.  Mutant: wr keeps them.
WireReset_Not(wr) == wr

WireReset(wr) == [wr EXCEPT !.hdr = NoReq, !.body = NoReq]

WriterBuffer(k) ==
    /\ writer[k].pc = "encode"
    /\ ~MustFlush(k)
    /\ writer' = [writer EXCEPT ![k].pc = "select", ![k].buf = Outgoing(k),
                                ![k].wr = WireReset(@)]
    /\ UNCHANGED <<lifeVars, faults, clientVars, conn, reader, workVars,
                   memVars, responsesChan, out>>

WriterSend(k) ==
    /\ writer[k].pc = "encode"
    /\ MustFlush(k)
    /\ CanWrite(k)
    /\ out' = [out EXCEPT ![k] = @ \cup Outgoing(k)]
    /\ writer' = [writer EXCEPT ![k].pc = "select", ![k].buf = {},
                                ![k].wr = WireReset(@)]
    /\ UNCHANGED <<lifeVars, faults, clientVars, conn, reader, workVars,
                   memVars, responsesChan>>

\* EncodeResponse fails: in the user's header encoder, reading the body, or
\* writing to the connection, which needs a flush.
WriterEncodeFail(k) ==
    /\ writer[k].pc = "encode"
    /\ IF MustFlush(k) THEN WriteFail(k) ELSE Fault
    /\ \E part \in Escaped(k, IF MustFlush(k) THEN Outgoing(k) ELSE {}) :
        out' = [out EXCEPT ![k] = @ \cup part]
    /\ writer' = [writer EXCEPT ![k].pc = "done"]
    /\ UNCHANGED <<lifeVars, clientVars, conn, reader, workVars, memVars,
                   responsesChan>>

\* A connected client reads no more and its receive buffer is full, or the
\* file of a body turns out shorter than its size: a write makes no progress,
\* and there is no deadline.
ClientStall(k) ==
    /\ \/ writer[k].pc = "flush" /\ writer[k].buf # {}
       \/ writer[k].pc = "encode" /\ MustFlush(k)
    /\ CanWrite(k)
    /\ stalled' = stalled \cup {k}
    /\ UNCHANGED <<lifeVars, faults, sock, stream, sent, conn, reader, workVars,
                   memVars, responsesChan, writer, out>>

ClientResume(k) ==
    /\ Blocked(k)
    /\ stalled' = stalled \ {k}
    /\ UNCHANGED <<lifeVars, faults, sock, stream, sent, conn, reader, workVars,
                   memVars, responsesChan, writer, out>>

serverWriter(k) ==
    \/ WriterTake(k) \/ WriterBlock(k) \/ WriterStop(k)
    \/ WriterFlush(k) \/ WriterFlushed(k) \/ WriterFlushFail(k)
    \/ WriterBuffer(k) \/ WriterSend(k) \/ WriterEncodeFail(k)

-----------------------------------------------------------------------------
Next ==
    \/ Start \/ StartFail \/ Stop \/ StopReturn
    \/ serverHandler
    \/ \E k \in Conns : \/ ClientConnect(k) \/ ClientClose(k)
                        \/ ClientStall(k) \/ ClientResume(k)
    \/ \E r \in Reqs : ClientSend(r) \/ serveRequest(r)
    \/ \E k \in Conns : \/ serverHandleConnection(k)
                        \/ serverReader(k) \/ serverWriter(k)

Spec == Init /\ [][Next]_vars

\* The server's goroutines are scheduled fairly, and serverHandler's select
\* does not overlook a closed serverStopChan for ever.  What the clients do, Start,
\* Stop and the user's handler are not fair: a handler may never return.
Fairness ==
    /\ WF_vars(StopReturn) /\ WF_vars(serverHandler) /\ WF_vars(AcceptorStop)
    /\ \A k \in Conns : /\ WF_vars(serverHandleConnection(k))
                        /\ WF_vars(serverReader(k))
                        /\ WF_vars(serverWriter(k))
    /\ \A r \in Reqs : WF_vars(WorkerStart(r)) /\ WF_vars(WorkerEnd(r))

FairSpec == Spec /\ Fairness

-----------------------------------------------------------------------------
(* Safety.                                                                  *)

\* Every variable keeps its type; responsesChan and workersCh stay within
\* the capacities that Start and serverHandleConnection made them with.
TypeOK ==
    /\ stopChan \in {"nil", "open", "closed"}
    /\ starts \in 0 .. MaxStarts /\ faults \in 0 .. MaxFaults
    /\ bound \in BOOLEAN /\ listening \in BOOLEAN
    /\ acceptor \in Acceptor
    /\ sock \in [Conns -> {"none", "open", "eof", "closed"}]
    /\ stream \in [Conns -> Seq(Reqs)]
    /\ sent \subseteq Reqs /\ stalled \subseteq Conns
    /\ conn \in [Conns -> {"none", "handshake", "serving", "closing", "done"}]
    /\ reader \in [Conns -> Reader]
    /\ worker \in [Reqs -> Worker]
    /\ workersCh \in [1 .. MaxStarts -> 0 .. Concurrency]
    /\ heap \in [Objs -> ServerMessage]
    /\ pool \subseteq Objs /\ fresh \subseteq Objs
    /\ responsesChan \in [Conns -> Seq(Objs)]
    /\ \A k \in Conns : Len(responsesChan[k]) <= PendingResponses
    /\ writer \in [Conns -> Writer]
    /\ out \in [Conns -> SUBSET WireResponse]

\* The places where a serverMessage can be.
Holders(o) ==
    {<<"pool">> : x \in {o} \cap (pool \cup fresh)}
    \cup {<<"reader", k>> : k \in {j \in Conns : reader[j].m = o}}
    \cup {<<"worker", r>> : r \in {q \in Reqs : worker[q].m = o}}
    \cup UNION {{<<"chan", k, i>> : i \in {j \in 1 .. Len(responsesChan[k]) :
                                           responsesChan[k][j] = o}}
                : k \in Conns}

\* A serverMessage is in one place: with the reader, with one worker, in one
\* responsesChan, or in serverMessagePool, which all connections share.
MessageOwnership == \A o \in Objs : Cardinality(Holders(o)) <= 1

\* A message in the pool holds nothing of the request it served.
PooledIsClean ==
    \A o \in pool : heap[o].req = NoReq /\ heap[o].resp = NoReq /\ ~heap[o].err

\* The response that serveRequest's handler made, as it must be sent.
ReplyTo(r) ==
    LET ok == worker[r].outcome = "ok" IN
    [id |-> r, err |-> worker[r].outcome = "error",
     hdr |-> IF ok THEN r ELSE NoReq,
     body |-> IF ok /\ r \in HasBody THEN r ELSE NoReq]

\* A connection carries responses to its own requests only, each with the
\* ID, headers, body and error of its own handler: nothing of an earlier
\* response is left in serverWriter's wr or in a pooled message, and a
\* request with ID 0 has none.
ResponseMatchesHandler ==
    \A k \in Conns : \A w \in out[k] \cup writer[k].buf :
        /\ w.id \in Reqs \ Skip
        /\ Origin[w.id] = k
        /\ w = ReplyTo(w.id)

\* The places of request r between the client and the client.
Whereabouts(r) ==
    LET k == Origin[r] IN
    {<<"stream", i>> : i \in {j \in 1 .. Len(stream[k]) : stream[k][j] = r}}
    \cup {<<"reader">> : x \in {o \in {reader[k].m} \ {NoObj} : heap[o].req = r}}
    \cup {<<"worker">> : x \in {r} \cap
             {q \in Reqs : worker[q].pc \in {"start", "handler", "reply", "wait"}}}
    \cup {<<"chan", i>> : i \in {j \in 1 .. Len(responsesChan[k]) :
                                  heap[responsesChan[k][j]].id = r}}
    \cup {<<"writer">> : x \in {w \in {writer[k].wr} :
                                  w.id = r /\ writer[k].pc = "encode"}}
    \cup {<<"buffer">> : x \in {w \in writer[k].buf :
                                  w.id = r /\ writer[k].pc # "done"}}
    \cup {<<"out">> : x \in {w \in out[k] : w.id = r}}

\* No request is handled or answered twice.
ServedOnce == \A r \in Reqs : Cardinality(Whereabouts(r)) <= 1

\* The slots taken in workersCh are those of the workers that still run:
\* whatever way a worker ends, it gives its slot back, to the right channel.
SlotsExact ==
    \A g \in 1 .. MaxStarts :
        workersCh[g] = Cardinality({r \in Reqs :
            worker[r].gen = g /\ worker[r].pc \notin {"none", "gone"}})

\* Buffered responses are never forgotten: when the writer waits for more
\* work, flushChan is set.
FlushArmed ==
    \A k \in Conns : (writer[k].pc = "block" /\ writer[k].buf # {}) =>
        writer[k].armed

-----------------------------------------------------------------------------
(* Liveness.                                                                *)

\* Server.Stop terminates, also with handlers that never return and readers
\* that wait for their slots.
StopReturns == (stopChan = "closed") ~> (stopChan = "nil")

\* In the end the writes on k get through, or the connection is closed.
Reads(k) == <>[]~Blocked(k)

\* A worker whose handler has returned gives its slot back, also if its client
\* is gone and nobody empties responsesChan.  Only a write that is blocked for
\* ever can keep the slot: that of a client that stays and does not read.
SlotsReturned ==
    \A r \in Reqs :
        Reads(Origin[r]) => ((worker[r].pc = "reply") ~> (worker[r].pc = "gone"))

\* What a handler returned reaches a client that reads, unless the connection
\* ends.
ReplyDelivered ==
    \A r \in Reqs \ Skip : Reads(Origin[r]) =>
        ((worker[r].pc = "reply") ~>
            \/ \E w \in out[Origin[r]] : w.id = r
            \/ StopClosed(Origin[r]))

-----------------------------------------------------------------------------
(* What the comments promise and the code does not do.                      *)

\* "Stopped server can be started again": while serverHandler waits in
\* Accept, the listener is open.
RunningListens == acceptor.pc = "accepting" /\ ~Stopping => listening

=============================================================================
