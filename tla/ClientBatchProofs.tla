------------------------- MODULE ClientBatchProofs -------------------------
(***************************************************************************)
(* ClientBatch: a batch among any number of other calls.  Until the batch  *)
(* times out the client keeps the invariant of RpcClientOwnership, since   *)
(* the batch uses it as any caller does, and after that all of it but what *)
(* the canceled flag means; what is added here is what the two loops of    *)
(* Batch.CallTimeout have done so far.                                     *)
(***************************************************************************)
EXTENDS ClientBatch, RpcClientOwnership

-----------------------------------------------------------------------------
(* The inductive invariant.                                                 *)

\* The requests with a response among the first n - 1.
ClosedBefore(n) == {Ops[i] : i \in {j \in 1 .. n - 1 : WithResponse(Ops[j])}}

BatchTypes ==
    /\ batch \in {"new", "issue", "collect", "returned"}
    /\ next \in 1 .. Len(Ops) + 1 /\ retries \in 0 .. Retries + 1
    /\ results \in [1 .. Len(Ops) -> Objs \cup {NoObj}]
    /\ batchErr \in {"nil", "overflow", "timeout"}

\* What is closed, by how far the loops have come.
FlowInv ==
    /\ batch # "returned" => batchErr = "nil"
    /\ batch = "issue" => retries >= 1
    /\ batch \in {"new", "issue"} => closed = {}
    /\ batch = "new" => next = 1 /\ retries = Retries + 1
    /\ batch = "collect" => closed = ClosedBefore(next)
    /\ batch = "returned" /\ batchErr = "nil" =>
          next = Len(Ops) + 1 /\ closed = ClosedBefore(next)
    /\ batchErr = "overflow" => closed = {}
    /\ batchErr = "timeout" => closed = ClosedBefore(Len(Ops) + 1)

\* A request that was not accepted so far has no object but the one that callAsync
\* is about to queue or to release: it may be issued once more.
NewInv == batch \in {"new", "issue"} =>
    \A i \in next .. Len(Ops), o \in Objs : heap[o].req = Ops[i] =>
        pc[Ops[i]] \in {"evict", "again"} /\ ref[Ops[i]] = o

\* The requests that the second loop has passed have their result.
CollectInv == batch \in {"collect", "returned"} /\ batchErr = "nil" =>
    \A i \in 1 .. next - 1 : WithResponse(Ops[i]) => pc[Ops[i]] = "returned"

\* Nobody but a caller's own timer makes a timeout, and nobody cancels a request of the
\* batch.
ErrInv ==
    /\ \A o \in Objs : heap[o].err # "timeout"
    /\ \A c \in Batched : c \notin cancels /\ ret[c].err # "timeout"

\* A batch that timed out leaves canceled objects behind, some of them pooled: after
\* that the client keeps everything but what the flag means.
BatchInv ==
    /\ TypeInv /\ BatchTypes /\ FlowInv
    /\ batchErr # "timeout" => IInv /\ NewInv /\ CollectInv /\ ErrInv
    /\ batchErr = "timeout" => OwnInv(FALSE)

-----------------------------------------------------------------------------
(* What the steps of the client do to requests and errors.                  *)

\* Requests and errors that a discarded object may have.
LEMMA DiscardEffects ==
    ASSUME heap \in [Objs -> AsyncResult], NEW o \in Objs, NEW e, Discard(o, e)
    PROVE  \A p \in Objs : /\ heap'[p].req \in {heap[p].req, NoCall}
                           /\ heap'[p].err \in {heap[p].err, "nil", e}
<1>0. /\ \A p \in Objs : p # o => heap'[p] = heap[p]
      /\ heap'[o] = Completed(heap[o], e) \/ heap'[o] = Released(heap[o])
  BY DEF Discard
<1>1. CASE heap'[o] = Completed(heap[o], e)
  <2>1. heap'[o].req = heap[o].req /\ heap'[o].err = e
    BY <1>1 DEF Completed, AsyncResult
  <2> QED
    BY <1>0, <2>1
<1>2. CASE heap'[o] = Released(heap[o])
  <2>1. heap'[o].req = NoCall /\ heap'[o].err = "nil"
    BY <1>2 DEF Released, AsyncResult
  <2> QED
    BY <1>0, <2>1
<1> QED
  BY <1>0, <1>1, <1>2

\* A call changes no other call, and gives an object no request but its own.
LEMMA CallEffects ==
    ASSUME TypeInv, NEW c \in Calls, CallStep(c)
    PROVE  /\ \A d \in Calls : d # c =>
                 pc'[d] = pc[d] /\ ref'[d] = ref[d] /\ ret'[d] = ret[d]
           /\ cancels' \subseteq cancels \cup {c}
           /\ \A o \in Objs : /\ heap'[o].req \in {heap[o].req, NoCall, c}
                              /\ heap'[o].err \in {heap[o].err, "nil", "overflow"}
<1>0. /\ heap \in [Objs -> AsyncResult] /\ pool \subseteq Objs
      /\ fresh \subseteq Objs /\ requestsChan \in Seq(Objs)
      /\ pc \in [Calls -> {"idle", "evict", "again", "waiting", "returned"}]
      /\ ref \in [Calls -> Objs \cup {NoObj}] /\ ret \in [Calls -> Result]
      /\ pc[c] \in {"evict", "again", "waiting"} => ref[c] \in Objs
  BY CallTypes DEF TypeInv, CallerHolds
<1>1. CASE callAsync(c)
  BY <1>0, <1>1 DEF callAsync, Enqueued, Return, Acquirable, Filled, AsyncResult
<1>2. CASE callAsyncSkipOverflow(c)
  BY <1>0, <1>2 DEF callAsyncSkipOverflow, Return, Acquirable, Filled, Released, AsyncResult
<1>3. CASE callAsyncFull(c)
  BY <1>0, <1>3 DEF callAsyncFull, Acquirable, Filled, AsyncResult
<1>4. CASE callAsyncEvict(c)
  <2>1. /\ \A d \in Calls : d # c => pc'[d] = pc[d]
        /\ UNCHANGED <<ref, ret, cancels>>
    BY <1>0, <1>4 DEF callAsyncEvict
  <2>2. CASE requestsChan = <<>>
    BY <1>4, <2>1, <2>2 DEF callAsyncEvict
  <2>3. CASE requestsChan # <<>>
    <3>1. Head(requestsChan) \in Objs /\ Discard(Head(requestsChan), "overflow")
      BY <1>0, <1>4, <2>3 DEF callAsyncEvict
    <3> QED
      BY <1>0, <2>1, <3>1, DiscardEffects
  <2> QED
    BY <2>2, <2>3
<1>5. CASE callAsyncAgain(c)
  <2>1. ref[c] \in Objs /\ UNCHANGED cancels
    BY <1>0, <1>5 DEF callAsyncAgain
  <2>2. CASE Full
    <3>1. /\ heap' = [heap EXCEPT ![ref[c]] = Released(@)]
          /\ Return(c, Failed("overflow"))
      BY <1>5, <2>2 DEF callAsyncAgain
    <3>2. \A o \in Objs : heap'[o].req \in {heap[o].req, NoCall, c}
                          /\ heap'[o].err \in {heap[o].err, "nil", "overflow"}
      BY <1>0, <2>1, <3>1 DEF Released, AsyncResult
    <3> QED
      BY <1>0, <2>1, <3>1, <3>2 DEF Return
  <2>3. CASE ~Full
    <3>1. UNCHANGED heap /\ Enqueued(c, ref[c])
      BY <1>5, <2>3 DEF callAsyncAgain
    <3> QED
      BY <1>0, <2>1, <3>1 DEF Enqueued, Return
  <2> QED
    BY <2>2, <2>3
<1>6. CASE CallDone(c)
  BY <1>0, <1>6 DEF CallDone, Return, Released, AsyncResult
<1>7. CASE CallTimeout(c)
  BY <1>0, <1>7 DEF CallTimeout, Abandon, Return, AsyncResult
<1>8. CASE AsyncDone(c)
  BY <1>0, <1>8 DEF AsyncDone, Return, memVars
<1>9. CASE Cancel(c)
  BY <1>0, <1>9 DEF Cancel, AsyncResult
<1> QED
  BY <1>1, <1>2, <1>3, <1>4, <1>5, <1>6, <1>7, <1>8, <1>9 DEF CallStep

\* A connection changes no call, gives no object a request and makes no timeout.
LEMMA ConnEffects ==
    ASSUME TypeInv, NEW k \in Conns, clientWriter(k) \/ clientReader(k) \/ clientHandler(k)
    PROVE  /\ UNCHANGED <<pc, ref, ret, cancels>>
           /\ \A o \in Objs :
                 /\ heap'[o].req \in {heap[o].req, NoCall}
                 /\ heap'[o].err \in {heap[o].err, "nil", "canceled", "server", "conn"}
<1> USE DEF sharedVars, callVars, memVars
<1>0. /\ heap \in [Objs -> AsyncResult] /\ handler[k] \in Handler
      /\ writer[k].pc = "got" => writer[k].m \in Objs
      /\ reader[k].pc = "got" => reader[k].m \in Objs
  BY CallTypes, ConnTypes DEF TypeInv, WriterHolds, ReaderHolds
<1>1. UNCHANGED <<pc, ref, ret, cancels>>
  BY DEF clientWriter, clientReader, clientHandler, WriterTake, WriterBlock,
         WriterStop, WriterFlush, WriterFlushFail, WriterCanceled, WriterSkip,
         WriterRegister, WriterCount, WriterBuffer, WriterSend,
         WriterEncodeFail, ReaderMatch, ReaderCount, ReaderComplete,
         ReaderFail, HandlerConnect, HandlerDialFail, HandlerSetupFail,
         HandlerRedial, HandlerStop, HandlerClose, HandlerCount, HandlerDrop,
         HandlerTeardown
<1>2. CASE WriterCanceled(k)
  <2>1. writer[k].m \in Objs /\ Discard(writer[k].m, "canceled")
    BY <1>0, <1>2 DEF WriterCanceled
  <2> QED
    BY <1>0, <1>1, <2>1, DiscardEffects
<1>3. CASE WriterSkip(k)
  BY <1>0, <1>1, <1>3 DEF WriterSkip, Released, AsyncResult
<1>4. CASE ReaderComplete(k)
  BY <1>0, <1>1, <1>4 DEF ReaderComplete, Answered, AsyncResult
<1>5. CASE HandlerDrop(k)
  BY <1>0, <1>1, <1>5 DEF HandlerDrop, Completed, AsyncResult, Handler
<1>6. CASE ~(\/ WriterCanceled(k) \/ WriterSkip(k) \/ ReaderComplete(k)
             \/ HandlerDrop(k))
  <2>1. heap' = heap
    BY <1>6 DEF clientWriter, clientReader, clientHandler, WriterTake,
         WriterBlock, WriterStop, WriterFlush, WriterFlushFail,
         WriterRegister, WriterCount, WriterBuffer, WriterSend,
         WriterEncodeFail, ReaderMatch, ReaderCount, ReaderFail,
         HandlerConnect, HandlerDialFail, HandlerSetupFail, HandlerRedial,
         HandlerStop, HandlerClose, HandlerCount, HandlerTeardown
  <2> QED
    BY <1>1, <2>1
<1> QED
  BY <1>2, <1>3, <1>4, <1>5, <1>6

\* The steps of everything but the batch.
Others ==
    \/ \E c \in Calls \ Batched : CallStep(c)
    \/ \E k \in Conns : clientWriter(k) \/ clientReader(k) \/ clientHandler(k)
    \/ Stop \/ StopReturn \/ Start

\* The requests of a batch are calls, numbered one by one.
LEMMA BatchedCalls ==
    /\ Batched \subseteq Calls /\ NoCall \notin Batched /\ Len(Ops) \in Nat
    /\ \A i \in 1 .. Len(Ops) : Ops[i] \in Batched
    /\ \A i, j \in 1 .. Len(Ops) : Ops[i] = Ops[j] => i = j
<1>1. Ops \in Seq(Calls) /\ Len(Ops) \in Nat
  BY BatchAssumption
<1>2. \A i \in 1 .. Len(Ops) : Ops[i] \in Calls
  BY <1>1
<1> QED
  BY <1>1, <1>2, BatchAssumption, ClientAssumption DEF Batched

\* Others leave the calls of the batch alone and make no timeout.
LEMMA OthersEffects ==
    ASSUME TypeInv, Others
    PROVE  /\ \A c \in Batched : /\ pc'[c] = pc[c] /\ ref'[c] = ref[c] /\ ret'[c] = ret[c]
                                 /\ c \in cancels' => c \in cancels
           /\ \A o \in Objs : /\ heap'[o].req \in Batched => heap'[o].req = heap[o].req
                              /\ heap'[o].err = "timeout" => heap[o].err = "timeout"
<1>1. ASSUME NEW c \in Calls \ Batched, CallStep(c)
      PROVE  /\ \A d \in Batched : /\ pc'[d] = pc[d] /\ ref'[d] = ref[d] /\ ret'[d] = ret[d]
                                   /\ d \in cancels' => d \in cancels
             /\ \A o \in Objs : /\ heap'[o].req \in Batched => heap'[o].req = heap[o].req
                                /\ heap'[o].err = "timeout" => heap[o].err = "timeout"
  <2>1. \A d \in Batched : d \in Calls /\ d # c
    BY BatchedCalls
  <2> QED
    BY <1>1, <2>1, CallEffects, BatchedCalls
<1>2. ASSUME NEW k \in Conns, clientWriter(k) \/ clientReader(k) \/ clientHandler(k)
      PROVE  /\ UNCHANGED <<pc, ref, ret, cancels>>
             /\ \A o \in Objs : /\ heap'[o].req \in Batched => heap'[o].req = heap[o].req
                                /\ heap'[o].err = "timeout" => heap[o].err = "timeout"
  BY <1>2, ConnEffects, BatchedCalls
<1>3. CASE Stop \/ StopReturn \/ Start
  BY <1>3 DEF Stop, StopReturn, Start, callVars, memVars
<1> QED
  BY <1>1, <1>2, <1>3 DEF Others

\* A step of the client keeps its invariants.
LEMMA ClientKept ==
    ASSUME TypeInv, batchErr # "timeout" => IInv, batchErr = "timeout" => OwnInv(FALSE),
           Next \/ UNCHANGED vars
    PROVE  /\ TypeInv' /\ (batchErr # "timeout" => IInv')
           /\ batchErr = "timeout" => OwnInv(FALSE)'
<1>1. TypeInv' /\ (batchErr # "timeout" => IInv')
  BY NextTypeInv, NextIInv
<1>2. FALSE \in BOOLEAN
  OBVIOUS
<1>3. batchErr = "timeout" => OwnInv(FALSE)'
  BY <1>2, NextOwnInv
<1> QED
  BY <1>1, <1>3

\* Others keep the invariant.
LEMMA OthersStep ==
    ASSUME BatchInv, Others, UNCHANGED batchVars
    PROVE  BatchInv'
<1>0. TypeInv /\ BatchTypes /\ FlowInv /\ UNCHANGED <<batch, next, retries, results, closed, batchErr>>
  BY DEF BatchInv, batchVars
<1>1. /\ TypeInv' /\ (batchErr # "timeout" => IInv')
      /\ batchErr = "timeout" => OwnInv(FALSE)'
  BY ClientKept DEF BatchInv, Others, Next
<1>2. BatchTypes' /\ FlowInv'
  BY <1>0 DEF BatchTypes, FlowInv
<1>3. /\ \A c \in Batched : /\ pc'[c] = pc[c] /\ ref'[c] = ref[c] /\ ret'[c] = ret[c]
                            /\ c \in cancels' => c \in cancels
      /\ \A o \in Objs : /\ heap'[o].req \in Batched => heap'[o].req = heap[o].req
                         /\ heap'[o].err = "timeout" => heap[o].err = "timeout"
  BY <1>0, OthersEffects
<1>4. \A i \in 1 .. Len(Ops) : Ops[i] \in Batched
  BY BatchedCalls
<1>5. next .. Len(Ops) \subseteq 1 .. Len(Ops) /\ 1 .. next - 1 \subseteq 1 .. Len(Ops)
  BY <1>0, BatchedCalls DEF BatchTypes
<1>6. ASSUME batchErr # "timeout" PROVE NewInv' /\ CollectInv' /\ ErrInv'
  <2>1. NewInv /\ CollectInv /\ ErrInv
    BY <1>6 DEF BatchInv
  <2>2. NewInv'
    BY <1>0, <1>3, <1>4, <1>5, <2>1 DEF NewInv
  <2>3. CollectInv'
    BY <1>0, <1>3, <1>4, <1>5, <2>1 DEF CollectInv
  <2>4. ErrInv'
    BY <1>3, <2>1 DEF ErrInv
  <2> QED
    BY <2>2, <2>3, <2>4
<1> QED
  BY <1>0, <1>1, <1>2, <1>6 DEF BatchInv

-----------------------------------------------------------------------------
(* The first loop.                                                          *)

\* callAsync: the steps of the batch for one request.
Issue(c) == \/ callAsync(c) \/ callAsyncSkipOverflow(c) \/ callAsyncFull(c)
            \/ callAsyncEvict(c) \/ callAsyncAgain(c)

\* What callAsync returns at once is no timeout.
LEMMA IssueReturns ==
    ASSUME TypeInv, NEW c \in Calls, Issue(c)
    PROVE  UNCHANGED cancels /\ ret'[c].err \in {ret[c].err, "nil", "overflow"}
<1>0. ret \in [Calls -> Result] /\ UNCHANGED cancels
  BY CallTypes DEF Issue, callAsync, callAsyncSkipOverflow, callAsyncFull, callAsyncEvict,
                   callAsyncAgain
<1>1. ret' = ret \/ ret' = [ret EXCEPT ![c] = Failed("nil")]
                 \/ ret' = [ret EXCEPT ![c] = Failed("overflow")]
  BY DEF Issue, callAsync, callAsyncSkipOverflow, callAsyncFull, callAsyncEvict,
         callAsyncAgain, Enqueued, Return
<1> QED
  BY <1>0, <1>1 DEF Failed, Result

\* Until callAsync has queued the request of c, no object has it but the one it holds.
Unissued(c) == \A o \in Objs : heap[o].req = c =>
    pc[c] \in {"evict", "again"} /\ ref[c] = o

\* callAsync keeps that until it has queued the request.
LEMMA IssueUnissued ==
    ASSUME TypeInv, NEW c \in Calls, Unissued(c), Issue(c),
           ~(Len(requestsChan') > Len(requestsChan))
    PROVE  Unissued(c)'
<1>0. /\ heap \in [Objs -> AsyncResult] /\ pool \subseteq Objs
      /\ fresh \subseteq Objs /\ requestsChan \in Seq(Objs)
      /\ pc \in [Calls -> {"idle", "evict", "again", "waiting", "returned"}]
      /\ ref \in [Calls -> Objs \cup {NoObj}]
      /\ pc[c] \in {"evict", "again", "waiting"} => ref[c] \in Objs
      /\ NoCall # c
  BY CallTypes, ClientAssumption DEF TypeInv, CallerHolds
<1>1. \A o \in Objs : requestsChan' # Append(requestsChan, o)
  BY <1>0
<1>2. ~callAsync(c)
  BY <1>0, <1>1 DEF callAsync, Acquirable
<1>3. CASE callAsyncSkipOverflow(c)
  <2>1. PICK o \in Objs : heap' = [heap EXCEPT ![o] = Released(Filled(@, c))]
    BY <1>0, <1>3 DEF callAsyncSkipOverflow, Acquirable
  <2>2. heap'[o].req = NoCall
    BY <1>0, <2>1 DEF Released, Filled, AsyncResult
  <2>3. \A p \in Objs : heap[p].req # c
    BY <1>3 DEF callAsyncSkipOverflow, Unissued
  <2>4. \A p \in Objs : heap'[p].req # c
    BY <1>0, <2>1, <2>2, <2>3
  <2> QED
    BY <2>4 DEF Unissued
<1>4. CASE callAsyncFull(c)
  <2>1. PICK o \in Objs : heap' = [heap EXCEPT ![o] = Filled(@, c)] /\ ref' = [ref EXCEPT ![c] = o]
    BY <1>0, <1>4 DEF callAsyncFull, Acquirable
  <2>2. pc'[c] = "evict" /\ ref'[c] = o
    BY <1>0, <1>4, <2>1 DEF callAsyncFull
  <2>3. \A p \in Objs : heap[p].req # c
    BY <1>4 DEF callAsyncFull, Unissued
  <2>4. \A p \in Objs : heap'[p].req = c => p = o
    BY <1>0, <2>1, <2>3
  <2> QED
    BY <2>2, <2>4 DEF Unissued
<1>5. CASE callAsyncEvict(c)
  <2>1. pc'[c] = "again" /\ UNCHANGED ref
    BY <1>0, <1>5 DEF callAsyncEvict
  <2>2. \A p \in Objs : heap'[p].req \in {heap[p].req, NoCall}
    <3>1. CASE requestsChan = <<>>
      BY <1>5, <3>1 DEF callAsyncEvict
    <3>2. CASE requestsChan # <<>>
      <4>1. Head(requestsChan) \in Objs /\ Discard(Head(requestsChan), "overflow")
        BY <1>0, <1>5, <3>2 DEF callAsyncEvict
      <4> QED
        BY <1>0, <4>1, DiscardEffects
    <3> QED
      BY <3>1, <3>2
  <2> QED
    BY <1>0, <2>1, <2>2 DEF Unissued
<1>6. CASE callAsyncAgain(c)
  <2>1. ref[c] \in Objs
    BY <1>0, <1>6 DEF callAsyncAgain
  <2>2. heap' = [heap EXCEPT ![ref[c]] = Released(@)]
    BY <1>1, <1>6, <2>1 DEF callAsyncAgain
  <2>3. heap'[ref[c]].req = NoCall
    BY <1>0, <2>1, <2>2 DEF Released, AsyncResult
  <2>4. \A p \in Objs : p # ref[c] => heap'[p] = heap[p]
    BY <1>0, <2>2
  <2> QED
    BY <1>0, <2>3, <2>4 DEF Unissued
<1> QED
  BY <1>2, <1>3, <1>4, <1>5, <1>6 DEF Issue

\* A step of the first loop: the request of the turn is issued, or one step nearer to it.
LEMMA IssueStep ==
    ASSUME BatchInv, BatchIssue
    PROVE  BatchInv'
<1>0. /\ TypeInv /\ BatchTypes /\ FlowInv /\ batch = "issue" /\ next <= Len(Ops)
      /\ UNCHANGED <<batch, closed, batchErr>> /\ batchErr = "nil"
      /\ IInv /\ NewInv /\ ErrInv
  BY DEF BatchInv, BatchIssue, FlowInv
<1>1. /\ next \in 1 .. Len(Ops) /\ Op \in Batched /\ Op \in Calls /\ Issue(Op)
      /\ next \in Nat /\ Len(Ops) \in Nat
  BY <1>0, BatchedCalls DEF BatchTypes, Op, BatchIssue, Issue
<1>2. CallStep(Op)
  BY <1>1 DEF Issue, CallStep
<1>3. TypeInv' /\ IInv'
  BY <1>0, <1>1, <1>2, ClientKept DEF Next
<1>4. /\ \A d \in Calls : d # Op => pc'[d] = pc[d] /\ ref'[d] = ref[d] /\ ret'[d] = ret[d]
      /\ \A o \in Objs : /\ heap'[o].req \in {heap[o].req, NoCall, Op}
                         /\ heap'[o].err \in {heap[o].err, "nil", "overflow"}
  BY <1>0, <1>1, <1>2, CallEffects
<1>5. ErrInv'
  BY <1>0, <1>1, <1>4, IssueReturns, BatchedCalls DEF ErrInv
<1>6. CollectInv'
  BY <1>0 DEF CollectInv
<1>7. \A i \in next + 1 .. Len(Ops), o \in Objs : heap'[o].req = Ops[i] =>
         pc'[Ops[i]] \in {"evict", "again"} /\ ref'[Ops[i]] = o
  <2> SUFFICES ASSUME NEW i \in next + 1 .. Len(Ops), NEW o \in Objs, heap'[o].req = Ops[i]
               PROVE  pc'[Ops[i]] \in {"evict", "again"} /\ ref'[Ops[i]] = o
    OBVIOUS
  <2>1. i \in 1 .. Len(Ops) /\ i \in next .. Len(Ops) /\ i # next
    BY <1>1
  <2>2. Ops[i] \in Calls /\ Ops[i] # Op /\ Ops[i] # NoCall
    BY <1>1, <2>1, BatchedCalls DEF Op
  <2>3. heap[o].req = Ops[i]
    BY <1>4, <2>2
  <2> QED
    BY <1>0, <1>4, <2>1, <2>2, <2>3 DEF NewInv
<1>8. CASE Len(requestsChan') > Len(requestsChan)
  <2>1. /\ results' = [results EXCEPT ![next] = requestsChan'[Len(requestsChan')]]
        /\ next' = next + 1 /\ retries' = Retries + 1
    BY <1>8 DEF BatchIssue
  <2>2. requestsChan'[Len(requestsChan')] \in Objs
    <3>1. requestsChan' \in Seq(Objs) /\ requestsChan \in Seq(Objs)
      BY <1>0, <1>3 DEF TypeInv, TypeOK, QueueTypeOK
    <3>2. Len(requestsChan') \in Nat /\ Len(requestsChan') > 0
      BY <1>8, <3>1
    <3> QED
      BY <3>1, <3>2
  <2>3. BatchTypes'
    <3>1. next' \in 1 .. Len(Ops) + 1 /\ retries' \in 0 .. Retries + 1 /\ retries' >= 1
      BY <1>1, <2>1, BatchAssumption
    <3> QED
      BY <1>0, <1>1, <2>1, <2>2, <3>1 DEF BatchTypes
  <2>4. FlowInv'
    BY <1>0, <2>1, BatchAssumption DEF FlowInv
  <2>5. NewInv'
    BY <1>7, <2>1 DEF NewInv
  <2> QED
    BY <1>0, <1>3, <1>5, <1>6, <2>3, <2>4, <2>5 DEF BatchInv
<1>9. CASE ~(Len(requestsChan') > Len(requestsChan))
  <2>1. UNCHANGED <<results, next, retries>>
    BY <1>9 DEF BatchIssue
  <2>2. BatchTypes' /\ FlowInv'
    BY <1>0, <2>1 DEF BatchTypes, FlowInv
  <2>3. Unissued(Op)
    <3>1. next \in next .. Len(Ops)
      BY <1>1
    <3> QED
      BY <1>0, <3>1 DEF NewInv, Unissued, Op
  <2>4. /\ \A o \in Objs : heap'[o].req = Op =>
              pc'[Op] \in {"evict", "again"} /\ ref'[Op] = o
    <3>1. Unissued(Op)' /\ Op' = Op
      BY <1>0, <1>1, <1>9, <2>1, <2>3, IssueUnissued DEF Op
    <3> QED
      BY <3>1 DEF Unissued
  <2>5. \A i \in next .. Len(Ops) : i = next \/ i \in next + 1 .. Len(Ops)
    BY <1>1
  <2>6. NewInv'
    BY <1>7, <2>1, <2>4, <2>5 DEF NewInv, Op
  <2> QED
    BY <1>0, <1>3, <1>5, <1>6, <2>2, <2>6 DEF BatchInv
<1> QED
  BY <1>8, <1>9

\* A call that returned and of which the client has nothing may be made again.
LEMMA RetryIInv ==
    ASSUME IInv, NEW c \in Calls, pc[c] = "returned", \A o \in Objs : heap[o].req # c,
           pc' = [pc EXCEPT ![c] = "idle"],
           UNCHANGED <<client, stops, faults, ref, ret, cancels, heap, pool, fresh,
                       requestsChan, count, handler, writer, reader, pending, wire>>
    PROVE  TypeInv' /\ IInv'
<1>0. /\ TypeInv /\ QueueSlots /\ ConnSlots /\ QueueDistinct /\ ConnDistinct
      /\ MemInv(TRUE) /\ CallerInv(TRUE) /\ RetInv(TRUE) /\ MessageInv /\ StopInv
      /\ pc \in [Calls -> {"idle", "evict", "again", "waiting", "returned"}]
  BY CallTypes DEF IInv, OwnInv
<1>1. pc'[c] = "idle" /\ \A d \in Calls : d # c => pc'[d] = pc[d]
  BY <1>0
<1>2. \A p : Live(p) => Same(p)
  BY <1>1 DEF Live, Same
<1>3. TypeInv'
  <2>1. pc' \in [Calls -> {"idle", "evict", "again", "waiting", "returned"}] /\ CallerHolds'
    BY <1>0, <1>1 DEF TypeInv, CallerHolds
  <2>2. CallTypeOK'
    BY <1>0, <2>1 DEF TypeInv, TypeOK, CallTypeOK
  <2>3. LifeTypeOK' /\ MemTypeOK' /\ QueueTypeOK' /\ ConnTypeOK' /\ WriterHolds' /\ ReaderHolds'
    BY <1>0 DEF TypeInv, TypeOK, LifeTypeOK, MemTypeOK, QueueTypeOK, ConnTypeOK,
                WriterHolds, ReaderHolds
  <2> QED
    BY <2>1, <2>2, <2>3 DEF TypeInv, TypeOK
<1>4. ConnSlots' /\ ConnDistinct' /\ MessageInv'
  BY <1>0, <1>2, ConnFrame DEF connVars
<1>5. QueueSlots' /\ QueueDistinct' /\ MemInv(TRUE)' /\ StopInv'
  BY <1>0, <1>2 DEF QueueSlots, QueueDistinct, MemInv, StopInv, Same
<1>6. CallerInv(TRUE)'
  BY <1>0, <1>1 DEF CallerInv
<1>7. RetInv(TRUE)'
  BY <1>0, <1>1 DEF RetInv, RetOK
<1> QED
  BY <1>3, <1>4, <1>5, <1>6, <1>7 DEF IInv, OwnInv

\* The retry after an overflow, or its end.
LEMMA RetryStep ==
    ASSUME BatchInv, BatchRetry
    PROVE  BatchInv'
<1>0. /\ TypeInv /\ BatchTypes /\ FlowInv /\ batch = "issue" /\ next <= Len(Ops)
      /\ UNCHANGED <<next, results, closed>> /\ batchErr = "nil"
      /\ IInv /\ NewInv /\ ErrInv /\ retries' = retries - 1 /\ closed = {}
      /\ pc[Op] = "returned"
      /\ UNCHANGED <<client, stops, faults, ref, ret, cancels, heap, pool, fresh,
                     requestsChan, count, handler, writer, reader, pending, wire>>
  BY DEF BatchInv, BatchRetry, FlowInv, lifeVars, memVars, connVars
<1>1. /\ next \in 1 .. Len(Ops) /\ Op \in Calls /\ next \in next .. Len(Ops)
      /\ retries \in 1 .. Retries + 1 /\ Retries \in Nat
  BY <1>0, BatchedCalls, BatchAssumption DEF BatchTypes, FlowInv, Op
<1>2. \A o \in Objs : heap[o].req # Op
  BY <1>0, <1>1 DEF NewInv, Op
<1>3. ErrInv'
  BY <1>0 DEF ErrInv
<1>4. CASE MayRetry
  <2>1. pc' = [pc EXCEPT ![Op] = "idle"] /\ UNCHANGED <<batch, batchErr>>
    BY <1>4 DEF BatchRetry
  <2>2. TypeInv' /\ IInv'
    BY <1>0, <1>1, <1>2, <2>1, RetryIInv
  <2>3. BatchTypes' /\ FlowInv'
    <3>1. retries' \in 0 .. Retries + 1 /\ retries' >= 1
      BY <1>0, <1>1, <1>4 DEF MayRetry
    <3> QED
      BY <1>0, <2>1, <3>1 DEF BatchTypes, FlowInv
  <2>4. NewInv'
    <3> SUFFICES ASSUME NEW i \in next .. Len(Ops), NEW o \in Objs, heap[o].req = Ops[i]
                 PROVE  pc'[Ops[i]] \in {"evict", "again"} /\ ref[Ops[i]] = o
      BY <1>0 DEF NewInv
    <3>1. Ops[i] # Op /\ pc[Ops[i]] \in {"evict", "again"} /\ ref[Ops[i]] = o
      BY <1>0, <1>2 DEF NewInv
    <3>2. pc \in [Calls -> {"idle", "evict", "again", "waiting", "returned"}] /\ Ops[i] \in Calls
      BY <1>0, <1>1, CallTypes, BatchedCalls
    <3> QED
      BY <2>1, <3>1, <3>2
  <2>5. CollectInv'
    BY <1>0, <2>1 DEF CollectInv
  <2> QED
    BY <1>0, <1>3, <2>1, <2>2, <2>3, <2>4, <2>5 DEF BatchInv
<1>5. CASE ~MayRetry
  <2>1. batch' = "returned" /\ batchErr' = "overflow" /\ UNCHANGED pc
    BY <1>5 DEF BatchRetry
  <2>2. TypeInv' /\ IInv'
    <3>1. UNCHANGED vars
      BY <1>0, <2>1 DEF vars
    <3> QED
      BY <1>0, <3>1, ClientKept
  <2>3. BatchTypes' /\ FlowInv'
    <3>1. retries' \in 0 .. Retries + 1
      BY <1>0, <1>1
    <3> QED
      BY <1>0, <2>1, <3>1 DEF BatchTypes, FlowInv
  <2>4. NewInv' /\ CollectInv'
    BY <2>1 DEF NewInv, CollectInv
  <2> QED
    BY <1>3, <2>1, <2>2, <2>3, <2>4 DEF BatchInv
<1> QED
  BY <1>4, <1>5

-----------------------------------------------------------------------------
(* The second loop.                                                         *)

\* One turn of the second loop closes the request of the turn, if it has a response.
LEMMA ClosedNext ==
    ASSUME NEW n \in 1 .. Len(Ops)
    PROVE  ClosedBefore(n + 1) = IF WithResponse(Ops[n]) THEN ClosedBefore(n) \cup {Ops[n]}
                                                         ELSE ClosedBefore(n)
<1>1. n \in Nat /\ (n + 1) - 1 = n
  BY BatchedCalls
<1>2. {j \in 1 .. n : WithResponse(Ops[j])} =
         {j \in 1 .. n - 1 : WithResponse(Ops[j])} \cup
            (IF WithResponse(Ops[n]) THEN {n} ELSE {})
  BY <1>1
<1> QED
  BY <1>1, <1>2 DEF ClosedBefore

\* When the second loop is through, or cut short, every request with a response is closed.
LEMMA ClosedAll ==
    ASSUME NEW n \in 1 .. Len(Ops) + 1
    PROVE  /\ ClosedBefore(n) \cup
                 {c \in {Ops[i] : i \in n .. Len(Ops)} : WithResponse(c)}
                    = ClosedBefore(Len(Ops) + 1)
           /\ ClosedBefore(Len(Ops) + 1) = {c \in Batched : WithResponse(c)}
           /\ ClosedBefore(n) \subseteq Batched
<1>1. n \in Nat /\ Len(Ops) \in Nat /\ (Len(Ops) + 1) - 1 = Len(Ops)
  BY BatchedCalls
<1>2. \A i \in 1 .. Len(Ops) : i \in 1 .. n - 1 \/ i \in n .. Len(Ops)
  BY <1>1
<1>3. \A i : i \in 1 .. n - 1 \/ i \in n .. Len(Ops) => i \in 1 .. Len(Ops)
  BY <1>1
<1> QED
  BY <1>1, <1>2, <1>3 DEF ClosedBefore, Batched

\* The steps that leave the client alone: from one phase of the batch to the next.
LEMMA PhaseStep ==
    ASSUME BatchInv, BatchStart \/ BatchIssued \/ BatchReturn
    PROVE  BatchInv'
<1>0. /\ TypeInv /\ BatchTypes /\ FlowInv /\ UNCHANGED vars /\ batch # "returned"
      /\ batchErr = "nil" /\ IInv /\ NewInv /\ CollectInv /\ ErrInv
      /\ UNCHANGED <<retries, results, closed, batchErr>>
  BY DEF BatchInv, FlowInv, BatchStart, BatchIssued, BatchReturn
<1>1. TypeInv' /\ IInv'
  BY <1>0, ClientKept
<1>2. UNCHANGED <<pc, ref, ret, cancels, heap>>
  BY <1>0 DEF vars
<1>3. ErrInv'
  BY <1>0, <1>2 DEF ErrInv
<1>4. Len(Ops) \in Nat /\ Retries \in Nat /\ next \in 1 .. Len(Ops) + 1
  BY <1>0, BatchedCalls, BatchAssumption DEF BatchTypes
<1>5. CASE BatchStart
  <2>1. batch = "new" /\ batch' = "issue" /\ UNCHANGED next
    BY <1>5 DEF BatchStart
  <2>2. BatchTypes' /\ FlowInv'
    BY <1>0, <1>4, <2>1 DEF BatchTypes, FlowInv
  <2>3. NewInv' /\ CollectInv'
    BY <1>0, <1>2, <2>1 DEF NewInv, CollectInv
  <2> QED
    BY <1>0, <1>1, <1>3, <2>2, <2>3 DEF BatchInv
<1>6. CASE BatchIssued
  <2>1. batch = "issue" /\ batch' = "collect" /\ next' = 1
    BY <1>6 DEF BatchIssued
  <2>2. BatchTypes'
    BY <1>0, <1>4, <2>1 DEF BatchTypes
  <2>3. ClosedBefore(1) = {}
    BY DEF ClosedBefore
  <2>4. FlowInv'
    BY <1>0, <2>1, <2>3 DEF FlowInv, ClosedBefore
  <2>5. NewInv' /\ CollectInv'
    BY <2>1 DEF NewInv, CollectInv
  <2> QED
    BY <1>0, <1>1, <1>3, <2>2, <2>4, <2>5 DEF BatchInv
<1>7. CASE BatchReturn
  <2>1. batch = "collect" /\ batch' = "returned" /\ UNCHANGED next /\ next = Len(Ops) + 1
    BY <1>4, <1>7 DEF BatchReturn
  <2>2. BatchTypes'
    BY <1>0, <2>1 DEF BatchTypes
  <2>3. FlowInv'
    BY <1>0, <2>1 DEF FlowInv, ClosedBefore
  <2>4. NewInv' /\ CollectInv'
    BY <1>0, <1>2, <2>1 DEF NewInv, CollectInv
  <2> QED
    BY <1>0, <1>1, <1>3, <2>2, <2>3, <2>4 DEF BatchInv
<1> QED
  BY <1>5, <1>6, <1>7

\* The second loop takes the response of the request of the turn.
LEMMA CollectStep ==
    ASSUME BatchInv, BatchCollect
    PROVE  BatchInv'
<1>0. /\ TypeInv /\ BatchTypes /\ FlowInv /\ batch = "collect" /\ next <= Len(Ops)
      /\ next' = next + 1 /\ UNCHANGED <<batch, retries, results, batchErr>>
      /\ batchErr = "nil" /\ IInv /\ CollectInv /\ ErrInv
  BY DEF BatchInv, FlowInv, BatchCollect
<1>1. /\ next \in 1 .. Len(Ops) /\ Op = Ops[next] /\ Op \in Batched /\ Op \in Calls
      /\ next \in Nat /\ Len(Ops) \in Nat
  BY <1>0, BatchedCalls DEF BatchTypes, Op
<1>2. closed = ClosedBefore(next)
  BY <1>0 DEF FlowInv
<1>3. BatchTypes'
  BY <1>0, <1>1 DEF BatchTypes
<1>4. NewInv'
  BY <1>0 DEF NewInv
<1>5. \A i \in 1 .. next' - 1 : i = next \/ i \in 1 .. next - 1
  BY <1>0, <1>1
<1>6. 1 .. next - 1 \subseteq 1 .. Len(Ops)
  BY <1>1
<1>7. CASE WithResponse(Op)
  <2>1. AsyncDone(Op) /\ closed' = closed \cup {Op}
    BY <1>7 DEF BatchCollect
  <2>2. CallStep(Op)
    BY <2>1 DEF CallStep
  <2>3. TypeInv' /\ IInv'
    BY <1>0, <1>1, <2>2, ClientKept DEF Next
  <2>4. closed' = ClosedBefore(next')
    BY <1>0, <1>1, <1>2, <1>7, <2>1, ClosedNext
  <2>5. FlowInv'
    BY <1>0, <2>4 DEF FlowInv, ClosedBefore
  <2>6. /\ pc'[Op] = "returned" /\ ret'[Op].err = heap[ref[Op]].err /\ ref[Op] \in Objs
        /\ \A d \in Calls : d # Op => pc'[d] = pc[d] /\ ret'[d] = ret[d]
        /\ UNCHANGED <<heap, cancels>>
    <3>1. /\ pc \in [Calls -> {"idle", "evict", "again", "waiting", "returned"}]
          /\ ret \in [Calls -> Result] /\ pc[Op] = "waiting"
      BY <1>0, <2>1, CallTypes DEF AsyncDone
    <3>2. ref[Op] \in Objs
      BY <1>0, <1>1, <3>1 DEF TypeInv, CallerHolds
    <3>3. UNCHANGED <<heap, cancels>> /\ Return(Op, ResultOf(ref[Op]))
      BY <2>1 DEF AsyncDone, memVars
    <3> QED
      BY <1>1, <3>1, <3>2, <3>3 DEF Return, ResultOf
  <2>7. CollectInv'
    <3> SUFFICES ASSUME NEW i \in 1 .. next' - 1, WithResponse(Ops[i])
                 PROVE  pc'[Ops[i]] = "returned"
      BY DEF CollectInv
    <3>1. CASE i = next
      BY <1>1, <2>6, <3>1
    <3>2. CASE i \in 1 .. next - 1
      <4>1. pc[Ops[i]] = "returned" /\ Ops[i] \in Calls
        BY <1>0, <1>6, <3>2, BatchedCalls DEF CollectInv
      <4> QED
        BY <2>6, <4>1
    <3> QED
      BY <1>5, <3>1, <3>2
  <2>8. ErrInv'
    BY <1>0, <2>6, BatchedCalls DEF ErrInv
  <2> QED
    BY <1>0, <1>3, <1>4, <2>3, <2>5, <2>7, <2>8 DEF BatchInv
<1>8. CASE ~WithResponse(Op)
  <2>1. UNCHANGED vars /\ UNCHANGED closed
    BY <1>8 DEF BatchCollect
  <2>2. TypeInv' /\ IInv'
    BY <1>0, <2>1, ClientKept
  <2>3. closed' = ClosedBefore(next')
    BY <1>0, <1>1, <1>2, <1>8, <2>1, ClosedNext
  <2>4. FlowInv'
    BY <1>0, <2>3 DEF FlowInv, ClosedBefore
  <2>5. UNCHANGED <<pc, ret, heap, cancels>>
    BY <2>1 DEF vars
  <2>6. CollectInv'
    BY <1>0, <1>1, <1>5, <1>8, <2>5 DEF CollectInv
  <2>7. ErrInv'
    BY <1>0, <2>5 DEF ErrInv
  <2> QED
    BY <1>0, <1>3, <1>4, <2>2, <2>4, <2>6, <2>7 DEF BatchInv
<1> QED
  BY <1>7, <1>8

\* The batch gives up: whoever has the objects that it cancels, none of them changes hands.
LEMMA TimeoutOwned ==
    ASSUME IInv, TypeInv', BatchTimeout
    PROVE  OwnInv(FALSE)'
<1>0. /\ TypeInv /\ QueueSlots /\ ConnSlots /\ QueueDistinct /\ ConnDistinct
      /\ MemInv(TRUE) /\ CallerInv(TRUE) /\ RetInv(TRUE) /\ MessageInv /\ StopInv
  BY DEF IInv, OwnInv
<1>1. /\ UNCHANGED <<client, stops, pool, fresh, requestsChan, connVars>>
      /\ heap' = [o \in Objs |-> IF o \in Expired THEN [heap[o] EXCEPT !.canceled = TRUE]
                                                   ELSE heap[o]]
  BY DEF BatchTimeout, lifeVars
<1>2. \A c \in Calls : /\ pc'[c] = IF c \in Unanswered THEN "returned" ELSE pc[c]
                       /\ ref'[c] = IF c \in Unanswered THEN NoObj ELSE ref[c]
                       /\ ret'[c] = IF c \in Unanswered THEN Failed("timeout") ELSE ret[c]
  BY DEF BatchTimeout
<1>3. \A o \in Objs : /\ heap'[o].req = heap[o].req /\ heap'[o].done = heap[o].done
                      /\ heap'[o].err = heap[o].err /\ heap'[o].body = heap[o].body
                      /\ heap'[o].hdr = heap[o].hdr
                      /\ heap[o].canceled => heap'[o].canceled
  <2>1. heap \in [Objs -> AsyncResult]
    BY <1>0, CallTypes
  <2> QED
    BY <1>1, <2>1 DEF AsyncResult
<1>4. \A p \in Objs : Live(p) => Same(p)
  BY <1>1, <1>2, <1>3 DEF Live, Same
<1>5. ConnSlots' /\ ConnDistinct' /\ MessageInv'
  BY <1>0, <1>1, <1>4, ConnFrame
<1>6. QueueSlots'
  <2>1. \A i \in 1 .. Len(requestsChan) : requestsChan[i] \in Objs
    BY <1>0 DEF QueueSlots, Live
  <2> QED
    BY <1>0, <1>1, <1>4, <2>1 DEF QueueSlots, Same
<1>7. QueueDistinct' /\ StopInv'
  BY <1>0, <1>1 DEF QueueDistinct, StopInv, connVars
<1>8. MemInv(FALSE)'
  BY <1>0, <1>1, <1>3 DEF MemInv
<1>9. CallerInv(FALSE)'
  BY <1>0, <1>1, <1>2, <1>3 DEF CallerInv
<1>10. RetInv(FALSE)'
  BY <1>0, <1>1, <1>2 DEF RetInv, RetOK, Failed
<1> QED
  BY <1>5, <1>6, <1>7, <1>8, <1>9, <1>10 DEF OwnInv

\* The batch ends with a timeout.
LEMMA TimeoutStep ==
    ASSUME BatchInv, BatchTimeout
    PROVE  BatchInv'
<1>0. /\ TypeInv /\ BatchTypes /\ FlowInv /\ batch = "collect" /\ next <= Len(Ops)
      /\ batch' = "returned" /\ batchErr' = "timeout" /\ closed' = ClosedOnTimeout
      /\ UNCHANGED <<next, retries, results>>
      /\ UNCHANGED <<client, stops, faults, pool, fresh, requestsChan, count,
                     handler, writer, reader, pending, wire>>
  BY DEF BatchInv, BatchTimeout, lifeVars, connVars
<1>1. next \in 1 .. Len(Ops) + 1 /\ Len(Ops) \in Nat
  BY <1>0 DEF BatchTypes
<1>2. Unanswered \subseteq Calls
  <2>1. next .. Len(Ops) \subseteq 1 .. Len(Ops)
    BY <1>1, BatchedCalls
  <2> QED
    BY <2>1, BatchedCalls DEF Unanswered
<1>3. CallTypeOK' /\ CallerHolds'
  <2>1. /\ pc' = [c \in Calls |-> IF c \in Unanswered THEN "returned" ELSE pc[c]]
        /\ ref' = [c \in Calls |-> IF c \in Unanswered THEN NoObj ELSE ref[c]]
        /\ ret' = [c \in Calls |-> IF c \in Unanswered THEN Failed("timeout") ELSE ret[c]]
        /\ cancels' = cancels \cup Unanswered
    BY DEF BatchTimeout
  <2>2. CallTypeOK /\ CallerHolds /\ Failed("timeout") \in Result
    BY <1>0, ResultTypes, ErrorTypes DEF TypeInv, TypeOK
  <2>3. CallTypeOK'
    BY <1>2, <2>1, <2>2 DEF CallTypeOK
  <2>4. CallerHolds'
    BY <2>1, <2>2 DEF CallerHolds, CallTypeOK
  <2> QED
    BY <2>3, <2>4
<1>4. MemTypeOK'
  <2>1. heap \in [Objs -> AsyncResult] /\ pool \subseteq Objs /\ fresh \subseteq Objs
    BY <1>0 DEF TypeInv, TypeOK, MemTypeOK
  <2>2. \A o \in Objs : [heap[o] EXCEPT !.canceled = TRUE] \in AsyncResult
    BY <2>1 DEF AsyncResult
  <2>3. heap' = [o \in Objs |-> IF o \in Expired THEN [heap[o] EXCEPT !.canceled = TRUE]
                                                 ELSE heap[o]]
    BY DEF BatchTimeout
  <2> QED
    BY <1>0, <2>1, <2>2, <2>3 DEF MemTypeOK
<1>5. LifeTypeOK' /\ QueueTypeOK' /\ ConnTypeOK' /\ WriterHolds' /\ ReaderHolds'
  BY <1>0 DEF TypeInv, TypeOK, LifeTypeOK, QueueTypeOK, ConnTypeOK, WriterHolds, ReaderHolds
<1>6. TypeInv'
  BY <1>3, <1>4, <1>5 DEF TypeInv, TypeOK
<1>7. closed' = ClosedBefore(Len(Ops) + 1)
  BY <1>0, <1>1, ClosedAll DEF FlowInv, ClosedOnTimeout, Unanswered
<1>8. BatchTypes'
  BY <1>0 DEF BatchTypes
<1>9. FlowInv'
  BY <1>0, <1>7 DEF FlowInv, ClosedBefore
<1>10. OwnInv(FALSE)'
  <2>1. IInv
    BY <1>0 DEF BatchInv, FlowInv
  <2> QED
    BY <1>6, <2>1, TimeoutOwned
<1> QED
  BY <1>0, <1>6, <1>8, <1>9, <1>10 DEF BatchInv

-----------------------------------------------------------------------------
(* The batch.                                                               *)

\* The invariant holds before the batch starts.
LEMMA InitBatchInv == BatchInit => BatchInv
<1> SUFFICES ASSUME BatchInit PROVE BatchInv
  OBVIOUS
<1>1. TypeInv /\ IInv
  BY InitTypeInv, InitIInv DEF BatchInit
<1>2. BatchTypes
  BY BatchedCalls, BatchAssumption DEF BatchInit, BatchTypes
<1>3. FlowInv
  BY DEF BatchInit, FlowInv
<1>4. \A o \in Objs : heap[o].req = NoCall /\ heap[o].err = "nil"
  BY DEF BatchInit, Init, NewAsyncResult
<1>5. \A c \in Calls : c \notin cancels /\ ret[c].err = "nil"
  BY DEF BatchInit, Init, Failed
<1>6. NewInv
  <2>1. next = 1 /\ \A i \in 1 .. Len(Ops) : Ops[i] # NoCall
    BY BatchedCalls DEF BatchInit
  <2> QED
    BY <1>4, <2>1 DEF NewInv
<1>7. CollectInv
  BY DEF CollectInv, BatchInit
<1>8. ErrInv
  BY <1>4, <1>5, BatchedCalls DEF ErrInv
<1> QED
  BY <1>1, <1>2, <1>3, <1>6, <1>7, <1>8 DEF BatchInv, BatchInit

\* Every step of the batch and of everything else keeps the invariant.
LEMMA NextBatchInv == BatchInv /\ [BatchNext]_allVars => BatchInv'
<1> SUFFICES ASSUME BatchInv, [BatchNext]_allVars PROVE BatchInv'
  OBVIOUS
<1>1. CASE UNCHANGED allVars
  <2>1. /\ TypeInv /\ BatchTypes /\ FlowInv /\ UNCHANGED vars
        /\ UNCHANGED <<batch, next, retries, results, closed, batchErr>>
    BY <1>1 DEF BatchInv, allVars, batchVars
  <2>2. /\ TypeInv' /\ (batchErr # "timeout" => IInv')
        /\ batchErr = "timeout" => OwnInv(FALSE)'
    BY <2>1, ClientKept DEF BatchInv
  <2>3. BatchTypes' /\ FlowInv'
    BY <2>1 DEF BatchTypes, FlowInv, ClosedBefore
  <2>4. UNCHANGED <<pc, ref, ret, cancels, heap>>
    BY <2>1 DEF vars
  <2>5. batchErr # "timeout" => NewInv' /\ CollectInv' /\ ErrInv'
    BY <2>1, <2>4 DEF BatchInv, NewInv, CollectInv, ErrInv
  <2> QED
    BY <2>1, <2>2, <2>3, <2>5 DEF BatchInv
<1>2. CASE BatchStep
  BY <1>2, IssueStep, RetryStep, PhaseStep, CollectStep, TimeoutStep DEF BatchStep
<1>3. CASE Others /\ UNCHANGED batchVars
  BY <1>3, OthersStep
<1> QED
  BY <1>1, <1>2, <1>3 DEF BatchNext, Others

\* The invariant holds throughout.
LEMMA BatchInductive == BatchSpec => []BatchInv
BY InitBatchInv, NextBatchInv, PTL DEF BatchSpec

\* NoDoubleClose: a batch makes no close(m.done) of the client meet a closed channel, even
\* if it times out and cancels objects that others use by then, or that wait in the pool.
THEOREM BatchCloseCorrect == BatchSpec => []NoDoubleClose
<1>1. BatchInv => NoDoubleClose
  BY CloseFromInv DEF BatchInv, IInv
<1> QED
  BY <1>1, BatchInductive, PTL

\* ExclusiveOwnership with a batch, before and after its timeout: what the batch cancels
\* without owning it is still in one hand only.
THEOREM BatchOwnership == BatchSpec => []ExclusiveOwnership
<1>1. BatchInv => ExclusiveOwnership
  BY OwnershipFromInv DEF BatchInv, IInv
<1> QED
  BY <1>1, BatchInductive, PTL

\* ResponseMatchesCall with a batch, before and after its timeout: the worst that the batch
\* does to another caller is an ErrCanceled, never the body of another response.
THEOREM BatchResponses == BatchSpec => []ResponseMatchesCall
<1>1. BatchInv => ResponseMatchesCall
  BY ResponseFromInv DEF BatchInv, IInv
<1> QED
  BY <1>1, BatchInductive, PTL

\* Batch.CallTimeout keeps its types: i stays within ops, retriesCount does not fall below
\* zero, and the client's own types hold under whatever the batch does to its objects,
\* a timeout included.
THEOREM BatchTypesCorrect == BatchSpec => []BatchTypeOK
<1>1. BatchInv => BatchTypeOK
  <2> SUFFICES ASSUME BatchInv PROVE BatchTypeOK
    OBVIOUS
  <2>1. TypeOK /\ BatchTypes /\ FlowInv
    BY DEF BatchInv, TypeInv
  <2>2. Len(Ops) + 1 \in 1 .. Len(Ops) + 1
    BY BatchedCalls
  <2>3. \A n \in 1 .. Len(Ops) + 1 : ClosedBefore(n) \subseteq Batched
    BY ClosedAll
  <2>4. closed \subseteq Batched
    <3>1. CASE batch \in {"new", "issue"}
      BY <2>1, <3>1 DEF FlowInv
    <3>2. CASE batch = "collect"
      BY <2>1, <2>3, <3>2 DEF FlowInv, BatchTypes
    <3>3. CASE batch = "returned"
      BY <2>1, <2>2, <2>3, <3>3 DEF FlowInv, BatchTypes
    <3> QED
      BY <2>1, <3>1, <3>2, <3>3 DEF BatchTypes
  <2>5. batchErr \in Errors
    BY <2>1 DEF BatchTypes, Errors
  <2> QED
    BY <2>1, <2>4, <2>5 DEF BatchTypeOK, BatchTypes
<1> QED
  BY <1>1, BatchInductive, PTL

\* A batch that has sent its requests has closed the Done of exactly those that have a
\* response when Batch.CallTimeout returns, answered or timed out, and one that returns
\* nil went through all of them.
THEOREM DoneCorrect == BatchSpec => []DoneAfterCall
<1>1. BatchInv => DoneAfterCall
  <2> SUFFICES ASSUME BatchInv, batch = "returned", batchErr # "overflow"
               PROVE  /\ closed = {c \in Batched : WithResponse(c)}
                      /\ batchErr = "nil" => next > Len(Ops)
    BY DEF DoneAfterCall
  <2>1. BatchTypes /\ FlowInv
    BY DEF BatchInv
  <2>2. Len(Ops) \in Nat /\ Len(Ops) + 1 \in 1 .. Len(Ops) + 1
    BY BatchedCalls
  <2>3. closed = ClosedBefore(Len(Ops) + 1)
    BY <2>1 DEF FlowInv, BatchTypes
  <2>4. batchErr = "nil" => next > Len(Ops)
    BY <2>1, <2>2 DEF FlowInv
  <2> QED
    BY <2>2, <2>3, <2>4, ClosedAll
<1> QED
  BY <1>1, BatchInductive, PTL

\* A batch that returns nil, on a client nobody stopped, left no request behind: each
\* has the answer to itself or the error that it met, among any number of other calls
\* that use the same queue, pool and connections.
THEOREM AnsweredCorrect == BatchSpec => []BatchAnswered
<1>1. BatchInv => BatchAnswered
  <2> SUFFICES ASSUME BatchInv, batch = "returned", batchErr = "nil", stops = 0,
                      NEW c \in Batched, WithResponse(c)
               PROVE  /\ pc[c] = "returned"
                      /\ ret[c].err = "nil" => ret[c].body = c
                      /\ ret[c].err \notin {"timeout", "canceled"}
    BY DEF BatchAnswered
  <2>1. FlowInv /\ RetInv(TRUE) /\ CollectInv /\ ErrInv
    BY DEF BatchInv, IInv, OwnInv
  <2>2. PICK i \in 1 .. Len(Ops) : c = Ops[i]
    BY DEF Batched
  <2>3. i \in 1 .. next - 1
    BY <2>1, BatchedCalls DEF FlowInv
  <2>4. pc[c] = "returned" /\ c \in Calls
    BY <2>1, <2>2, <2>3, BatchedCalls DEF CollectInv
  <2>5. ret[c].err = "nil" => ret[c].body = c
    BY <2>1, <2>4 DEF RetInv, RetOK, WithResponse
  <2>6. ret[c].err # "canceled" /\ ret[c].err # "timeout"
    BY <2>1, <2>4 DEF RetInv, ErrInv
  <2> QED
    BY <2>4, <2>5, <2>6
<1> QED
  BY <1>1, BatchInductive, PTL
============================================================================
