------------------------------ MODULE RpcClient ------------------------------
(***************************************************************************)
(* The RPC client of iorpc (client.go): callers, the bounded request       *)
(* queue, the pooled AsyncResult objects, and for every connection the     *)
(* handler, writer and reader goroutines that share its map of pending     *)
(* requests.                                                               *)
(*                                                                         *)
(* The server appears only through what the client can observe of it: a    *)
(* request that reached the wire may be answered once, in any order, with  *)
(* a response or with a server error.                                      *)
(***************************************************************************)
EXTENDS Integers, Sequences, FiniteSets

CONSTANTS
    Calls,            \* the API calls that may be issued, each at most once
    Kind,             \* Kind[c]: "call" (Call/CallTimeout), "send" or "async"
    HasBody,          \* the calls whose request has a body to stream
    Objs,             \* AsyncResult objects on the heap
    Conns,            \* connection slots, Client.Conns of them
    PendingRequests,  \* capacity of requestsChan
    PendingFactor,    \* 10 in the code: stuck-server limit, in queue sizes
    IDModulus,        \* 2^64 in the code: width of msgID
    HeaderLimit,      \* messages that fill the encoder's header buffer
    MaxFaults,        \* bound on dial, connection and encoding failures
    MaxStops,         \* bound on Client.Stop
    NoCall, NoObj

ASSUME ClientAssumption ==
    /\ Kind \in [Calls -> {"call", "send", "async"}]
    /\ HasBody \subseteq Calls
    /\ NoCall \notin Calls /\ NoObj \notin Objs
    /\ PendingRequests \in Nat \ {0} /\ PendingFactor \in Nat
    /\ IDModulus \in Nat /\ IDModulus > 1 /\ HeaderLimit \in Nat \ {0}
    /\ MaxFaults \in Nat /\ MaxStops \in Nat

VARIABLES
    client,        \* "running", "stopping" (inside Stop), "stopped"
    stops,         \* number of Stop calls so far
    faults,        \* number of failures so far
    pc, ref, ret,  \* of a caller: control state, its AsyncResult, its result
    cancels,       \* calls whose holder invoked AsyncResult.Cancel
    heap,          \* the fields of every AsyncResult
    pool, fresh,   \* objects in asyncResultPool, objects never allocated
    requestsChan,  \* the request queue
    count,         \* pendingRequestsCount
    handler,       \* clientHandler / clientHandleConnection, per connection
    writer,        \* clientWriter, per connection
    reader,        \* clientReader, per connection
    pending,       \* pendingRequests: message ID to object, per connection
    wire           \* requests the server received and has not answered

callVars == <<pc, ref, ret, cancels>>
lifeVars == <<client, stops>>
memVars == <<heap, pool, fresh>>
connVars == <<handler, writer, reader, pending, wire>>
\* What most steps of a connection's goroutines leave alone.
sharedVars == <<lifeVars, callVars, memVars, requestsChan, count>>
vars == <<client, stops, faults, pc, ref, ret, cancels, heap, pool, fresh,
          requestsChan, count, handler, writer, reader, pending, wire>>

-----------------------------------------------------------------------------
(* Data.  A request is named by the call that issued it, and a response by  *)
(* the call whose request the server answered.                              *)

IDs == 0 .. (IDModulus - 1)
Errors == {"nil", "timeout", "conn", "server", "overflow", "canceled"}
Payload == Calls \cup {NoCall}

\* type AsyncResult; done is nil, an open channel or a closed one.
AsyncResult == [req: Payload, done: {"nil", "open", "closed"}, hdr: Payload,
                body: Payload, err: Errors, canceled: BOOLEAN]
NewAsyncResult == [req |-> NoCall, done |-> "nil", hdr |-> NoCall,
                   body |-> NoCall, err |-> "nil", canceled |-> FALSE]

\* What a call returns: the headers and body of the Response, and the error.
Result == [hdr: Payload, body: Payload, err: Errors]
Failed(e) == [hdr |-> NoCall, body |-> NoCall, err |-> e]

Message == [id: IDs, call: Payload]
NoMessage == [id |-> 0, call |-> NoCall]

Handler == [pc: {"dial", "backoff", "serving", "closing", "dropping",
                 "stopped"},
            err: {"nil", "conn"}]
Writer == [pc: {"off", "select", "block", "got", "count", "stuck", "encode",
                "done"},
           m: Objs \cup {NoObj}, wr: Message, msgID: IDs,
           buf: SUBSET Message, armed: BOOLEAN]
Reader == [pc: {"off", "read", "match", "got", "done"}, m: Objs \cup {NoObj},
           call: Payload, err: Errors]

NewWriter(state) == [pc |-> state, m |-> NoObj, wr |-> NoMessage, msgID |-> 0,
                     buf |-> {}, armed |-> FALSE]
NewReader(state) == [pc |-> state, m |-> NoObj, call |-> NoCall, err |-> "nil"]
NonePending == [id \in IDs |-> NoObj]

\* callAsync's parameters, as the three entry points pass them.
SkipResponse(c) == Kind[c] = "send"
UsePool(c) == Kind[c] \in {"call", "send"}

Init ==
    /\ client = "running" /\ stops = 0 /\ faults = 0
    /\ pc = [c \in Calls |-> "idle"]
    /\ ref = [c \in Calls |-> NoObj]
    /\ ret = [c \in Calls |-> Failed("nil")]
    /\ cancels = {}
    /\ heap = [o \in Objs |-> NewAsyncResult]
    /\ pool = {} /\ fresh = Objs
    /\ requestsChan = <<>>
    /\ count = 0
    /\ handler = [k \in Conns |-> [pc |-> "dial", err |-> "nil"]]
    /\ writer = [k \in Conns |-> NewWriter("off")]
    /\ reader = [k \in Conns |-> NewReader("off")]
    /\ pending = [k \in Conns |-> NonePending]
    /\ wire = [k \in Conns |-> {}]

-----------------------------------------------------------------------------
(* AsyncResult objects.                                                     *)

\* acquireAsyncResult: the pool may also miss and allocate.
Acquirable(c) == IF UsePool(c) THEN pool \cup fresh ELSE fresh

\* callAsync stores the request and, unless the response is skipped, makes
\* the done channel.  The other fields keep what the pool left in them.
Filled(m, c) == [m EXCEPT !.req = c,
                          !.done = IF SkipResponse(c) THEN "nil" ELSE "open"]

\* Mutant: the response body of the last call stays in the pooled object.
Released_KeepsBody(m) == [m EXCEPT !.err = "nil", !.done = "nil",
                                   !.req = NoCall]

\* releaseAsyncResult resets neither the response headers nor canceled.
Released(m) == [m EXCEPT !.body = NoCall, !.err = "nil", !.done = "nil",
                         !.req = NoCall]

\* m.Error = e; close(m.done)
Completed(m, e) == [m EXCEPT !.err = e, !.done = "closed"]

\* Mutant: the request is dropped without telling whoever waits for it.
Discard_Silently(o, e) == UNCHANGED <<heap, pool>>

\* Drop a request that will not be sent: complete it for the caller that
\* waits for it, or release it if nobody does.
Discard(o, e) ==
    IF heap[o].done # "nil"
    THEN /\ heap' = [heap EXCEPT ![o] = Completed(@, e)]
         /\ UNCHANGED pool
    ELSE /\ heap' = [heap EXCEPT ![o] = Released(@)]
         /\ pool' = pool \cup {o}

-----------------------------------------------------------------------------
(* Callers.                                                                 *)

\* Mutant: one request more than the channel holds.
Full_OffByOne == Len(requestsChan) > PendingRequests

Full == Len(requestsChan) >= PendingRequests

Return(c, r) ==
    /\ pc' = [pc EXCEPT ![c] = "returned"]
    /\ ref' = [ref EXCEPT ![c] = NoObj]
    /\ ret' = [ret EXCEPT ![c] = r]

\* The object is in the queue: Send returns nil, the others wait for it.
Enqueued(c, o) ==
    IF SkipResponse(c)
    THEN Return(c, Failed("nil"))
    ELSE /\ pc' = [pc EXCEPT ![c] = "waiting"]
         /\ ref' = [ref EXCEPT ![c] = o]
         /\ UNCHANGED ret

callAsync(c) ==
    /\ pc[c] = "idle"
    /\ ~Full
    /\ \E o \in Acquirable(c) :
        /\ pool' = pool \ {o}
        /\ fresh' = fresh \ {o}
        /\ heap' = [heap EXCEPT ![o] = Filled(@, c)]
        /\ requestsChan' = Append(requestsChan, o)
        /\ Enqueued(c, o)
    /\ UNCHANGED <<lifeVars, faults, cancels, count, connVars>>

\* Queue full, nobody to tell later: report the overflow at once.
callAsyncSkipOverflow(c) ==
    /\ pc[c] = "idle"
    /\ Full
    /\ SkipResponse(c)
    /\ \E o \in Acquirable(c) :
        /\ pool' = pool \cup {o}
        /\ fresh' = fresh \ {o}
        /\ heap' = [heap EXCEPT ![o] = Released(Filled(@, c))]
    /\ Return(c, Failed("overflow"))
    /\ UNCHANGED <<lifeVars, faults, cancels, requestsChan, count, connVars>>

callAsyncFull(c) ==
    /\ pc[c] = "idle"
    /\ Full
    /\ ~SkipResponse(c)
    /\ \E o \in Acquirable(c) :
        /\ pool' = pool \ {o}
        /\ fresh' = fresh \ {o}
        /\ heap' = [heap EXCEPT ![o] = Filled(@, c)]
        /\ ref' = [ref EXCEPT ![c] = o]
    /\ pc' = [pc EXCEPT ![c] = "evict"]
    /\ UNCHANGED <<lifeVars, faults, ret, cancels, requestsChan, count,
                   connVars>>

\* Substitute the oldest request: whoever waits for it gets an overflow error.
callAsyncEvict(c) ==
    /\ pc[c] = "evict"
    /\ pc' = [pc EXCEPT ![c] = "again"]
    /\ IF requestsChan # <<>>
       THEN /\ Discard(Head(requestsChan), "overflow")
            /\ requestsChan' = Tail(requestsChan)
       ELSE UNCHANGED <<heap, pool, requestsChan>>
    /\ UNCHANGED <<lifeVars, faults, ref, ret, cancels, fresh, count,
                   connVars>>

\* Another caller may have taken the freed place.
callAsyncAgain(c) ==
    /\ pc[c] = "again"
    /\ IF ~Full
       THEN /\ requestsChan' = Append(requestsChan, ref[c])
            /\ Enqueued(c, ref[c])
            /\ UNCHANGED <<heap, pool>>
       ELSE /\ heap' = [heap EXCEPT ![ref[c]] = Released(@)]
            /\ pool' = pool \cup {ref[c]}
            /\ Return(c, Failed("overflow"))
            /\ UNCHANGED requestsChan
    /\ UNCHANGED <<lifeVars, faults, cancels, fresh, count, connVars>>

ResultOf(o) == [hdr |-> heap[o].hdr, body |-> heap[o].body, err |-> heap[o].err]

\* <-m.Done in CallTimeout: the pooled object is released after reading it.
CallDone(c) ==
    /\ pc[c] = "waiting" /\ Kind[c] = "call"
    /\ heap[ref[c]].done = "closed"
    /\ Return(c, ResultOf(ref[c]))
    /\ heap' = [heap EXCEPT ![ref[c]] = Released(@)]
    /\ pool' = pool \cup {ref[c]}
    /\ UNCHANGED <<lifeVars, faults, cancels, fresh, requestsChan, count,
                   connVars>>

\* m.Cancel() after a timeout: the object stays where it is.
\* Mutant: it is released, as after a completed call.
Abandon_Releases(o) ==
    /\ heap' = [heap EXCEPT ![o] = Released([@ EXCEPT !.canceled = TRUE])]
    /\ pool' = pool \cup {o}

Abandon(o) ==
    /\ heap' = [heap EXCEPT ![o].canceled = TRUE]
    /\ UNCHANGED pool

\* <-t.C in CallTimeout
CallTimeout(c) ==
    /\ pc[c] = "waiting" /\ Kind[c] = "call"
    /\ Abandon(ref[c])
    /\ Return(c, Failed("timeout"))
    /\ UNCHANGED <<lifeVars, faults, cancels, fresh, requestsChan, count,
                   connVars>>

\* The user of CallAsync, or a Batch, reads the result after <-Done.
\* Mutant: without waiting.
AsyncDone_NoWait(c) ==
    /\ pc[c] = "waiting" /\ Kind[c] = "async"
    /\ Return(c, ResultOf(ref[c]))
    /\ UNCHANGED <<lifeVars, faults, cancels, memVars, requestsChan, count,
                   connVars>>

AsyncDone(c) ==
    /\ pc[c] = "waiting" /\ Kind[c] = "async"
    /\ heap[ref[c]].done = "closed"
    /\ Return(c, ResultOf(ref[c]))
    /\ UNCHANGED <<lifeVars, faults, cancels, memVars, requestsChan, count,
                   connVars>>

\* AsyncResult.Cancel
Cancel(c) ==
    /\ pc[c] = "waiting" /\ Kind[c] = "async"
    /\ c \notin cancels
    /\ heap' = [heap EXCEPT ![ref[c]].canceled = TRUE]
    /\ cancels' = cancels \cup {c}
    /\ UNCHANGED <<lifeVars, faults, pc, ref, ret, pool, fresh, requestsChan,
                   count, connVars>>

-----------------------------------------------------------------------------
(* clientWriter.  stopChan is closed while the handler is "closing", and    *)
(* so is the connection: nothing is written then.                           *)

ConnOpen(k) == handler[k].pc = "serving"

\* A connection fails because the handler closed it, or by a fault.
Fault == faults < MaxFaults /\ faults' = faults + 1
Fail(k) == (handler[k].pc = "closing" /\ UNCHANGED faults) \/ Fault

\* What a failed write may have put on the wire before it failed.
Escaped(k, msgs) == IF ConnOpen(k) THEN SUBSET msgs ELSE {{}}

\* The writer holds the oldest request; a flush is scheduled.
\* Mutant: only the blocking select schedules one.
TakeHead_NoFlush(k) ==
    [writer EXCEPT ![k].pc = "got", ![k].m = Head(requestsChan),
                   ![k].armed = @ \/ writer[k].pc = "block"]

TakeHead(k) ==
    [writer EXCEPT ![k].pc = "got", ![k].m = Head(requestsChan),
                   ![k].armed = TRUE]

\* m = <-c.requestsChan, in either select
WriterTake(k) ==
    /\ writer[k].pc \in {"select", "block"}
    /\ requestsChan # <<>>
    /\ requestsChan' = Tail(requestsChan)
    /\ writer' = TakeHead(k)
    /\ UNCHANGED <<lifeVars, callVars, faults, memVars, count, handler,
                   reader, pending, wire>>

\* The queue is empty: wait for a request, the flush tick or stopChan.
WriterBlock(k) ==
    /\ writer[k].pc = "select"
    /\ requestsChan = <<>>
    /\ writer' = [writer EXCEPT ![k].pc = "block"]
    /\ UNCHANGED <<sharedVars, faults, handler, reader, pending, wire>>

WriterStop(k) ==
    /\ writer[k].pc = "block"
    /\ handler[k].pc = "closing"
    /\ writer' = [writer EXCEPT ![k].pc = "done"]
    /\ UNCHANGED <<sharedVars, faults, handler, reader, pending, wire>>

\* The encoder's buffer is empty after Flush and flushChan is nil.
\* Mutant: the buffer is not reset.
Flushed_KeepsBuffer(k) ==
    [writer EXCEPT ![k].pc = "select", ![k].armed = FALSE]

Flushed(k) ==
    [writer EXCEPT ![k].pc = "select", ![k].armed = FALSE, ![k].buf = {}]

\* <-flushChan with a successful Flush, which writes nothing for an empty
\* buffer.
WriterFlush(k) ==
    /\ writer[k].pc = "block"
    /\ writer[k].armed
    /\ ConnOpen(k) \/ writer[k].buf = {}
    /\ wire' = [wire EXCEPT ![k] = @ \cup writer[k].buf]
    /\ writer' = Flushed(k)
    /\ UNCHANGED <<sharedVars, faults, handler, reader, pending>>

\* <-flushChan with a failed Flush: any part of the buffer may have got out.
WriterFlushFail(k) ==
    /\ writer[k].pc = "block"
    /\ writer[k].armed
    /\ writer[k].buf # {}
    /\ Fail(k)
    /\ \E part \in Escaped(k, writer[k].buf) :
        wire' = [wire EXCEPT ![k] = @ \cup part]
    /\ writer' = [writer EXCEPT ![k].pc = "done"]
    /\ UNCHANGED <<sharedVars, handler, reader, pending>>

\* The request was canceled before it was sent.
WriterCanceled(k) ==
    /\ writer[k].pc = "got"
    /\ heap[writer[k].m].canceled
    /\ Discard(writer[k].m, "canceled")
    /\ writer' = [writer EXCEPT ![k].pc = "select", ![k].m = NoObj]
    /\ UNCHANGED <<lifeVars, callVars, faults, fresh, requestsChan, count,
                   handler, reader, pending, wire>>

\* A request without response travels with ID 0 and is released at once.
WriterSkip(k) ==
    LET o == writer[k].m IN
    /\ writer[k].pc = "got"
    /\ ~heap[o].canceled
    /\ heap[o].done = "nil"
    /\ writer' = [writer EXCEPT ![k].pc = "encode", ![k].m = NoObj,
                                ![k].wr = [id |-> 0, call |-> heap[o].req]]
    /\ heap' = [heap EXCEPT ![o] = Released(@)]
    /\ pool' = pool \cup {o}
    /\ UNCHANGED <<lifeVars, callVars, faults, fresh, requestsChan, count,
                   handler, reader, pending, wire>>

\* Mutant: the next ID is taken without looking whether it is pending.
NextMsgID_NoSearch(k, id) ==
    id = IF writer[k].msgID + 1 = IDModulus THEN 1 ELSE writer[k].msgID + 1

\* msgID++, skipping 0; then the search for an ID that is not pending, which
\* does not skip it.
NextMsgID(k, id) ==
    LET first == IF writer[k].msgID + 1 = IDModulus THEN 1
                                                    ELSE writer[k].msgID + 1
    IN \E d \in IDs :
        /\ id = (first + d) % IDModulus
        /\ pending[k][id] = NoObj
        /\ \A e \in 0 .. (d - 1) : pending[k][(first + e) % IDModulus] # NoObj

PendingIDs(k) == {id \in IDs : pending[k][id] # NoObj}

\* Mutant: the server is never considered stuck.
Stuck_Never(k) == FALSE

\* len(pendingRequests) before the insertion decides whether the server is
\* considered stuck.
Stuck(k) == Cardinality(PendingIDs(k)) > PendingFactor * PendingRequests

\* The locked section: n, the free ID and the insertion.
WriterRegister(k) ==
    LET o == writer[k].m IN
    /\ writer[k].pc = "got"
    /\ ~heap[o].canceled
    /\ heap[o].done # "nil"
    /\ \E id \in IDs :
        /\ NextMsgID(k, id)
        /\ pending' = [pending EXCEPT ![k][id] = o]
        /\ writer' = [writer EXCEPT
              ![k].pc = IF Stuck(k) THEN "stuck" ELSE "count",
              ![k].m = NoObj, ![k].msgID = id,
              ![k].wr = [id |-> id, call |-> heap[o].req]]
    /\ UNCHANGED <<sharedVars, faults, handler, reader, wire>>

\* After the unlock: pendingRequestsCount, and then the test of n; on a stuck
\* server the writer gives up.
WriterCount(k) ==
    /\ writer[k].pc \in {"count", "stuck"}
    /\ count' = count + 1
    /\ writer' = [writer EXCEPT
          ![k].pc = IF writer[k].pc = "stuck" THEN "done" ELSE "encode"]
    /\ UNCHANGED <<lifeVars, callVars, faults, memVars, requestsChan, handler,
                   reader, pending, wire>>

\* EncodeRequest flushes a request with a body, and a full header buffer.
Outgoing(k) == writer[k].buf \cup {writer[k].wr}
MustFlush(k) == \/ writer[k].wr.call \in HasBody
                \/ Cardinality(Outgoing(k)) >= HeaderLimit

WriterBuffer(k) ==
    /\ writer[k].pc = "encode"
    /\ ~MustFlush(k)
    /\ writer' = [writer EXCEPT ![k].pc = "select", ![k].buf = Outgoing(k),
                                ![k].wr = NoMessage]
    /\ UNCHANGED <<sharedVars, faults, handler, reader, pending, wire>>

WriterSend(k) ==
    /\ writer[k].pc = "encode"
    /\ MustFlush(k)
    /\ ConnOpen(k)
    /\ wire' = [wire EXCEPT ![k] = @ \cup Outgoing(k)]
    /\ writer' = [writer EXCEPT ![k].pc = "select", ![k].buf = {},
                                ![k].wr = NoMessage]
    /\ UNCHANGED <<sharedVars, faults, handler, reader, pending>>

\* EncodeRequest fails: in the user's header encoder, reading the body, or
\* writing to the connection, which needs a flush.
WriterEncodeFail(k) ==
    /\ writer[k].pc = "encode"
    /\ IF MustFlush(k) THEN Fail(k) ELSE Fault
    /\ \E part \in Escaped(k, IF MustFlush(k) THEN Outgoing(k) ELSE {}) :
        wire' = [wire EXCEPT ![k] = @ \cup part]
    /\ writer' = [writer EXCEPT ![k].pc = "done"]
    /\ UNCHANGED <<sharedVars, handler, reader, pending>>

clientWriter(k) ==
    \/ WriterTake(k) \/ WriterBlock(k) \/ WriterStop(k)
    \/ WriterFlush(k) \/ WriterFlushFail(k)
    \/ WriterCanceled(k) \/ WriterSkip(k)
    \/ WriterRegister(k) \/ WriterCount(k)
    \/ WriterBuffer(k) \/ WriterSend(k) \/ WriterEncodeFail(k)

-----------------------------------------------------------------------------
(* clientReader.                                                            *)

\* delete(pendingRequests, wr.ID).  Mutant: the request stays in the map.
Deleted_Not(k, id) == pending

Deleted(k, id) == [pending EXCEPT ![k][id] = NoObj]

\* A response arrives and its request leaves pendingRequests.
ReaderMatch(k) ==
    /\ reader[k].pc = "read"
    /\ ConnOpen(k)
    /\ \E w \in wire[k], e \in {"nil", "server"} :
        /\ w.id # 0
        /\ pending[k][w.id] # NoObj
        /\ reader' = [reader EXCEPT
              ![k] = [pc |-> "match", m |-> pending[k][w.id], err |-> e,
                      call |-> IF e = "nil" THEN w.call ELSE NoCall]]
        /\ pending' = Deleted(k, w.id)
        /\ wire' = [wire EXCEPT ![k] = @ \ {w}]
    /\ UNCHANGED <<sharedVars, faults, handler, writer>>

\* After the unlock: pendingRequestsCount.
ReaderCount(k) ==
    /\ reader[k].pc = "match"
    /\ count' = count - 1
    /\ reader' = [reader EXCEPT ![k].pc = "got"]
    /\ UNCHANGED <<lifeVars, callVars, faults, memVars, requestsChan, handler,
                   writer, pending, wire>>

\* m.Response and m.Error, which is left alone when the server sent none;
\* then close(m.done).
Answered(m, call, e) ==
    [m EXCEPT !.hdr = call, !.body = call, !.done = "closed",
              !.err = IF e = "nil" THEN m.err ELSE "server"]

ReaderComplete(k) ==
    /\ reader[k].pc = "got"
    /\ heap' = [heap EXCEPT ![reader[k].m] =
                    Answered(@, reader[k].call, reader[k].err)]
    /\ reader' = [reader EXCEPT ![k] = NewReader("read")]
    /\ UNCHANGED <<lifeVars, callVars, faults, pool, fresh, requestsChan,
                   count, handler, writer, pending, wire>>

\* DecodeResponse fails or panics, or the message ID is not pending.
ReaderFail(k) ==
    /\ reader[k].pc = "read"
    /\ Fail(k)
    /\ reader' = [reader EXCEPT ![k].pc = "done"]
    /\ UNCHANGED <<sharedVars, handler, writer, pending, wire>>

clientReader(k) == \/ ReaderMatch(k) \/ ReaderCount(k)
                   \/ ReaderComplete(k) \/ ReaderFail(k)

-----------------------------------------------------------------------------
(* clientHandler and clientHandleConnection.                                *)

Stopping == client = "stopping"

\* Dial, OnConnect and the handshake succeed; reader and writer start with
\* an empty map.
HandlerConnect(k) ==
    /\ handler[k].pc = "dial"
    /\ handler' = [handler EXCEPT ![k] = [pc |-> "serving", err |-> "nil"]]
    /\ writer' = [writer EXCEPT ![k] = NewWriter("select")]
    /\ reader' = [reader EXCEPT ![k] = NewReader("read")]
    /\ UNCHANGED <<sharedVars, faults, pending, wire>>

HandlerDialFail(k) ==
    /\ handler[k].pc = "dial"
    /\ Fault
    /\ handler' = [handler EXCEPT ![k].pc = "backoff"]
    /\ UNCHANGED <<sharedVars, writer, reader, pending, wire>>

\* OnConnect or the handshake write fails: dial again at once.
HandlerSetupFail(k) ==
    /\ handler[k].pc = "dial"
    /\ Fault
    /\ handler' = [handler EXCEPT ![k].pc =
                      IF Stopping THEN "stopped" ELSE "dial"]
    /\ UNCHANGED <<sharedVars, writer, reader, pending, wire>>

HandlerRedial(k) ==
    /\ handler[k].pc = "backoff"
    /\ handler' = [handler EXCEPT ![k].pc = "dial"]
    /\ UNCHANGED <<sharedVars, faults, writer, reader, pending, wire>>

HandlerStop(k) ==
    /\ Stopping
    /\ handler[k].pc \in {"dial", "backoff"}
    /\ handler' = [handler EXCEPT ![k].pc = "stopped"]
    /\ UNCHANGED <<sharedVars, faults, writer, reader, pending, wire>>

\* The three cases of the select that ends a connection; only the first two
\* have an error to report.  Mutant: clientStopChan is not one of them.
CloseReasons_NoStop(k) ==
    {e \in {"conn"} : writer[k].pc = "done" \/ reader[k].pc = "done"}

CloseReasons(k) ==
    {e \in {"conn"} : writer[k].pc = "done" \/ reader[k].pc = "done"}
    \cup {e \in {"nil"} : Stopping}

HandlerClose(k) ==
    /\ handler[k].pc = "serving"
    /\ \E e \in CloseReasons(k) :
        handler' = [handler EXCEPT ![k] = [pc |-> "closing", err |-> e]]
    /\ UNCHANGED <<sharedVars, faults, writer, reader, pending, wire>>

\* The entries of the map that the final loop still has to visit.
\* Mutant: none after a clean Stop.
Left_NoneOnStop(k) == {id \in PendingIDs(k) : handler[k].err # "nil"}

Left(k) == PendingIDs(k)

\* Reader and writer have ended: the loop over what is left in the map.  An
\* iteration decrements pendingRequestsCount,
HandlerCount(k) ==
    /\ handler[k].pc = "closing"
    /\ writer[k].pc = "done" /\ reader[k].pc = "done"
    /\ Left(k) # {}
    /\ count' = count - 1
    /\ handler' = [handler EXCEPT ![k].pc = "dropping"]
    /\ UNCHANGED <<lifeVars, callVars, faults, memVars, requestsChan, writer,
                   reader, pending, wire>>

\* and completes its request with the connection's error, which is nil after
\* Stop.  From then on the entry counts as gone.
HandlerDrop(k) ==
    /\ handler[k].pc = "dropping"
    /\ writer[k].pc = "done" /\ reader[k].pc = "done"
    /\ \E id \in Left(k) :
        /\ heap' = [heap EXCEPT ![pending[k][id]] =
                        Completed(@, handler[k].err)]
        /\ pending' = Deleted(k, id)
    /\ handler' = [handler EXCEPT ![k].pc = "closing"]
    /\ UNCHANGED <<lifeVars, callVars, faults, pool, fresh, requestsChan,
                   count, writer, reader, wire>>

\* The loop has ended: the next connection starts with a new map.
HandlerTeardown(k) ==
    /\ handler[k].pc = "closing"
    /\ writer[k].pc = "done" /\ reader[k].pc = "done"
    /\ Left(k) = {}
    /\ pending' = [pending EXCEPT ![k] = NonePending]
    /\ wire' = [wire EXCEPT ![k] = {}]
    /\ writer' = [writer EXCEPT ![k] = NewWriter("off")]
    /\ reader' = [reader EXCEPT ![k] = NewReader("off")]
    /\ handler' = [handler EXCEPT ![k] =
          [pc |-> IF Stopping THEN "stopped" ELSE "dial", err |-> "nil"]]
    /\ UNCHANGED <<sharedVars, faults>>

clientHandler(k) ==
    \/ HandlerConnect(k) \/ HandlerDialFail(k) \/ HandlerSetupFail(k)
    \/ HandlerRedial(k) \/ HandlerStop(k) \/ HandlerClose(k)
    \/ HandlerCount(k) \/ HandlerDrop(k) \/ HandlerTeardown(k)

-----------------------------------------------------------------------------
(* Client.Stop and Client.Start.                                            *)

\* close(c.clientStopChan)
Stop ==
    /\ client = "running"
    /\ stops < MaxStops
    /\ client' = "stopping"
    /\ stops' = stops + 1
    /\ UNCHANGED <<callVars, faults, memVars, requestsChan, count, connVars>>

\* c.stopWg.Wait() returns.
StopReturn ==
    /\ client = "stopping"
    /\ \A k \in Conns : handler[k].pc = "stopped"
    /\ client' = "stopped"
    /\ UNCHANGED <<stops, callVars, faults, memVars, requestsChan, count,
                   connVars>>

\* A stopped client is started again, with a new request queue.
Start ==
    /\ client = "stopped"
    /\ client' = "running"
    /\ requestsChan' = <<>>
    /\ handler' = [k \in Conns |-> [pc |-> "dial", err |-> "nil"]]
    /\ UNCHANGED <<stops, callVars, faults, memVars, count, writer, reader,
                   pending, wire>>

CallStep(c) ==
    \/ callAsync(c) \/ callAsyncSkipOverflow(c) \/ callAsyncFull(c)
    \/ callAsyncEvict(c) \/ callAsyncAgain(c)
    \/ CallDone(c) \/ CallTimeout(c) \/ AsyncDone(c) \/ Cancel(c)

Next ==
    \/ \E c \in Calls : CallStep(c)
    \/ \E k \in Conns : clientWriter(k) \/ clientReader(k) \/ clientHandler(k)
    \/ Stop \/ StopReturn \/ Start

Spec == Init /\ [][Next]_vars

\* Goroutines are scheduled fairly, the server answers what it receives and
\* a dial is eventually attempted again.  New calls, timeouts, cancellation,
\* Stop and Start are the user's choice and are not fair; faults are bounded.
Fairness ==
    /\ \A k \in Conns : /\ WF_vars(clientWriter(k))
                        /\ WF_vars(clientReader(k))
                        /\ WF_vars(clientHandler(k))
    /\ \A c \in Calls : WF_vars(callAsyncEvict(c) \/ callAsyncAgain(c)
                                \/ CallDone(c) \/ AsyncDone(c))
    /\ WF_vars(StopReturn)

FairSpec == Spec /\ Fairness

-----------------------------------------------------------------------------
(* Safety.                                                                  *)

LifeTypeOK ==
    /\ client \in {"running", "stopping", "stopped"}
    /\ stops \in Nat /\ faults \in Nat /\ count \in Int
CallTypeOK ==
    /\ pc \in [Calls -> {"idle", "evict", "again", "waiting", "returned"}]
    /\ ref \in [Calls -> Objs \cup {NoObj}]
    /\ ret \in [Calls -> Result]
    /\ cancels \subseteq Calls
MemTypeOK ==
    heap \in [Objs -> AsyncResult] /\ pool \subseteq Objs /\ fresh \subseteq Objs
QueueTypeOK ==
    requestsChan \in Seq(Objs) /\ Len(requestsChan) <= PendingRequests
ConnTypeOK ==
    /\ handler \in [Conns -> Handler]
    /\ writer \in [Conns -> Writer]
    /\ reader \in [Conns -> Reader]
    /\ pending \in [Conns -> [IDs -> Objs \cup {NoObj}]]
    /\ wire \in [Conns -> SUBSET Message]

\* Every variable keeps its type; requestsChan is never longer than the
\* PendingRequests that Client.Start made it for.
TypeOK == LifeTypeOK /\ CallTypeOK /\ MemTypeOK /\ QueueTypeOK /\ ConnTypeOK

\* The objects that the client itself holds, place by place.
Queued == {requestsChan[i] : i \in 1 .. Len(requestsChan)}
Taken(k) == {writer[k].m} \ {NoObj}
Pending(k) == {pending[k][id] : id \in PendingIDs(k)}
Matched(k) == {reader[k].m} \ {NoObj}
Offered == {ref[c] : c \in {d \in Calls : pc[d] \in {"evict", "again"}}}
Unused == pool \cup fresh

\* An AsyncResult is in one place at a time: it is never queued twice, never
\* pending twice, and one that is back in asyncResultPool is referenced by no
\* goroutine of the client and by no caller that still waits for it.  This is
\* what makes the unlocked writes to its fields in client.go free of races.
ExclusiveOwnership ==
    /\ \A i, j \in 1 .. Len(requestsChan) :
          requestsChan[i] = requestsChan[j] => i = j
    /\ \A k \in Conns : \A i, j \in PendingIDs(k) :
          pending[k][i] = pending[k][j] => i = j
    /\ \A k, l \in Conns :
          /\ k # l => /\ Taken(k) \cap Taken(l) = {}
                      /\ Pending(k) \cap Pending(l) = {}
                      /\ Matched(k) \cap Matched(l) = {}
          /\ Taken(k) \cap (Pending(l) \cup Matched(l)) = {}
          /\ Pending(k) \cap Matched(l) = {}
    /\ \A k \in Conns :
          (Taken(k) \cup Pending(k) \cup Matched(k)) \cap Queued = {}
    /\ \A c, d \in Calls : (/\ pc[c] \in {"evict", "again", "waiting"}
                            /\ pc[d] \in {"evict", "again", "waiting"}
                            /\ ref[c] = ref[d]) => c = d
    /\ Offered \cap Queued = {}
    /\ \A k \in Conns :
          Offered \cap (Taken(k) \cup Pending(k) \cup Matched(k)) = {}
    /\ Unused \cap Queued = {}
    /\ \A k \in Conns :
          Unused \cap (Taken(k) \cup Pending(k) \cup Matched(k)) = {}
    /\ \A c \in Calls :
          pc[c] \in {"evict", "again", "waiting"} => ref[c] \notin Unused

\* close(m.done) is reached from the queue (eviction, cancellation), from
\* the pending map (teardown) and from the reader.  None of them can meet a
\* channel that is already closed, and the last two, which the code does not
\* guard in the reader, never a nil one: each would panic.
NoDoubleClose ==
    /\ \A o \in Queued : heap[o].done # "closed"
    /\ \A k \in Conns :
          /\ \A o \in Taken(k) : heap[o].done # "closed"
          /\ \A o \in Pending(k) \cup Matched(k) : heap[o].done = "open"

\* A caller only ever receives the body of the answer to its own request,
\* through message IDs, pooled objects, eviction, timeouts and teardown; and
\* a call that succeeds on a client nobody stopped has the whole answer.
ResponseMatchesCall ==
    \A c \in Calls : pc[c] = "returned" =>
        /\ ret[c].body \in {NoCall, c}
        /\ (ret[c].err = "nil" /\ Kind[c] # "send" /\ stops = 0) =>
              ret[c].body = c /\ ret[c].hdr = c

\* ErrCanceled is returned to the user that called AsyncResult.Cancel and to
\* nobody else: the canceled flag, which releaseAsyncResult does not clear,
\* does not come back with a pooled object.  (Call, CallTimeout, Send and
\* CallAsync keep to this; ClientBatch shows that a Batch does not.)
CanceledOnlyIfAsked ==
    \A c \in Calls : ret[c].err = "canceled" => c \in cancels

\* The requests in the pending maps, and the goroutines that are between a
\* change of a map and the matching change of the counter.
Entries == {x \in Conns \X IDs : pending[x[1]][x[2]] # NoObj}
Uncounted == {k \in Conns : writer[k].pc \in {"count", "stuck"}}
Overcounted == {k \in Conns : reader[k].pc = "match"}
Dropping == {k \in Conns : handler[k].pc = "dropping"}

\* pendingRequestsCount, behind PendingRequestsCount(), is off from the number
\* of requests in the pending maps by exactly the goroutines that are between
\* the map and the counter, over all reconnects, stops and restarts: it does
\* not drift.  And it never wraps around below zero: the reader decrements it
\* after the writer incremented it for the same request.
CountExact ==
    /\ count + Cardinality(Uncounted) + Cardinality(Dropping)
          = Cardinality(Entries) + Cardinality(Overcounted)
    /\ count >= 0

\* The limit that "prevents client resource leaks" with a server that does
\* not answer: it is checked on the size before the insertion, which leaves
\* room for two more.
PendingBounded ==
    \A k \in Conns :
        Cardinality(PendingIDs(k)) <= PendingFactor * PendingRequests + 2

\* Requests buffered by the encoder are never forgotten: when the writer
\* waits for more work, flushChan is set.
FlushArmed ==
    \A k \in Conns : (writer[k].pc = "block" /\ writer[k].buf # {}) =>
        writer[k].armed

\* The places between callAsync and the server where the request of c is.
Whereabouts(c) ==
    {<<"queue", i>> : i \in {j \in 1 .. Len(requestsChan) :
                                heap[requestsChan[j]].req = c}}
    \cup UNION {
        {<<"writer", k>> : o \in {p \in Taken(k) : heap[p].req = c}}
        \cup {<<"encoder", k, w.id>> :
                w \in {v \in Outgoing(k) : v.call = c /\ writer[k].pc # "done"}}
        \cup {<<"wire", k, w.id>> : w \in {v \in wire[k] : v.call = c}}
        : k \in Conns}

\* No request is sent twice: until it is answered it is in one place, on one
\* connection, whatever is flushed, evicted or reconnected.
SentOnce == \A c \in Calls : Cardinality(Whereabouts(c)) <= 1

\* A completed result is final: between close(m.done) and the moment the
\* caller reads it, neither Response nor Error changes.
CompletedIsFinal ==
    [][\A c \in Calls :
          (pc[c] = "waiting" /\ heap[ref[c]].done = "closed"
              /\ pc'[c] = "waiting") => ResultOf(ref[c])' = ResultOf(ref[c])]_vars

-----------------------------------------------------------------------------
(* Liveness.                                                                *)

\* Every request that was accepted by CallAsync is completed: evicted,
\* canceled, answered or failed with its connection.  Only Stop may leave it
\* for ever in the queue, which Start replaces.
AcceptedEventuallyDone ==
    \A c \in Calls : (pc[c] = "waiting") ~>
        \/ stops > 0
        \/ pc[c] = "waiting" => heap[ref[c]].done = "closed"

\* What was registered on a connection is completed even by Stop.
PendingEventuallyDone ==
    \A o \in Objs :
        (\E k \in Conns : o \in Pending(k)) ~> (heap[o].done = "closed")

\* Client.Stop terminates: each goroutine it waits for comes to its end,
\* wherever the stop found it.
StopReturns == (client = "stopping") ~> (client = "stopped")

-----------------------------------------------------------------------------
(* The abstraction: where a request is, and what became of the call.        *)

Stage(c) ==
    IF pc[c] = "idle" THEN "new"
    ELSE IF \E k \in Conns : \E w \in wire[k] : w.call = c THEN "sent"
    ELSE IF Whereabouts(c) # {} \/ pc[c] \in {"evict", "again"} THEN "held"
    ELSE "over"

HasAnswer(r, c) == r.body = c \/ r.err = "server"

\* The answer is with a reader, in the object of the call, or with the caller.
AnsweredCalls == {c \in Calls :
    \/ \E k \in Conns : /\ reader[k].pc \in {"match", "got"}
                        /\ heap[reader[k].m].req = c
    \/ \E o \in Objs : /\ heap[o].req = c /\ heap[o].done = "closed"
                       /\ HasAnswer(heap[o], c)
    \/ pc[c] = "returned" /\ HasAnswer(ret[c], c)}

Abstract == INSTANCE AtMostOnce WITH
    stage <- [c \in Calls |-> Stage(c)],
    answered <- AnsweredCalls,
    result <- [c \in Calls |-> IF pc[c] # "returned" THEN "none"
                               ELSE IF HasAnswer(ret[c], c) THEN "answer"
                               ELSE "nothing"]

\* The client implements at-most-once calls: through eviction, cancellation,
\* failed flushes, reconnects and restarts no request that was sent, dropped or
\* answered is sent again, none is answered that the server did not receive, and
\* an answer is never made up, swapped or taken back.
ImplementsAtMostOnce == Abstract!Spec
=============================================================================
