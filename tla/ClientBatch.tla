---------------------------- MODULE ClientBatch ----------------------------
(***************************************************************************)
(* One Batch (client.go) on top of RpcClient: its requests go through the  *)
(* same callAsync, queue, pool and connections as the calls of other       *)
(* users.  An added request is of kind "async", and of kind "send" if it   *)
(* was added with AddSkipResponse.                                         *)
(***************************************************************************)
EXTENDS RpcClient

CONSTANTS
    Ops,           \* the requests of the batch, in the order of ops
    Retries        \* 5 in the code: retries after an overflow

ASSUME BatchAssumption ==
    /\ Ops \in Seq(Calls)
    /\ \A i, j \in 1 .. Len(Ops) : Ops[i] = Ops[j] => i = j
    /\ \A i \in 1 .. Len(Ops) : Kind[Ops[i]] # "call"
    /\ Retries \in Nat

VARIABLES
    batch,         \* "new", "issue", "collect", "returned"
    next,          \* i in the loops of Batch.CallTimeout
    retries,       \* retriesCount in callAsyncRetry
    results,       \* results[i]: the AsyncResult of ops[i]
    closed,        \* the requests whose BatchResult.done is closed
    batchErr       \* what Batch.CallTimeout returned

batchVars == <<batch, next, retries, results, closed, batchErr>>
allVars == <<vars, batchVars>>

Batched == {Ops[i] : i \in 1 .. Len(Ops)}
Op == Ops[next]
WithResponse(c) == Kind[c] = "async"

BatchInit ==
    /\ Init
    /\ batch = "new" /\ next = 1 /\ retries = Retries + 1
    /\ results = [i \in 1 .. Len(Ops) |-> NoObj]
    /\ closed = {} /\ batchErr = "nil"

\* Batch.CallTimeout takes the requests that were added.
BatchStart ==
    /\ batch = "new"
    /\ batch' = "issue"
    /\ UNCHANGED <<vars, next, retries, results, closed, batchErr>>

\* The first loop: callAsync for the next request.  An object that went into
\* the queue is the result, also if nobody waits for the response.
BatchIssue ==
    /\ batch = "issue"
    /\ next <= Len(Ops)
    /\ \/ callAsync(Op) \/ callAsyncSkipOverflow(Op) \/ callAsyncFull(Op)
       \/ callAsyncEvict(Op) \/ callAsyncAgain(Op)
    /\ IF Len(requestsChan') > Len(requestsChan)
       THEN /\ results' = [results EXCEPT ![next] =
                              requestsChan'[Len(requestsChan')]]
            /\ next' = next + 1
            /\ retries' = Retries + 1
       ELSE UNCHANGED <<results, next, retries>>
    /\ UNCHANGED <<batch, closed, batchErr>>

\* Mutant: one retry too many.
MayRetry_OffByOne == retries - 1 >= 0

MayRetry == retries - 1 > 0

\* callAsyncRetry after an overflow error: once more after 10ms, or Batch.
\* CallTimeout returns the error as it is.
BatchRetry ==
    /\ batch = "issue"
    /\ next <= Len(Ops)
    /\ pc[Op] = "returned" /\ ret[Op].err = "overflow"
    /\ retries' = retries - 1
    /\ IF MayRetry
       THEN /\ pc' = [pc EXCEPT ![Op] = "idle"]
            /\ UNCHANGED <<batch, batchErr>>
       ELSE /\ batch' = "returned" /\ batchErr' = "overflow"
            /\ UNCHANGED pc
    /\ UNCHANGED <<lifeVars, faults, ref, ret, cancels, memVars, requestsChan,
                   count, connVars, next, results, closed>>

BatchIssued ==
    /\ batch = "issue"
    /\ next > Len(Ops)
    /\ batch' = "collect" /\ next' = 1
    /\ UNCHANGED <<vars, retries, results, closed, batchErr>>

\* The second loop: <-m.Done, in the order of the requests.
BatchCollect ==
    /\ batch = "collect"
    /\ next <= Len(Ops)
    /\ IF WithResponse(Op)
       THEN AsyncDone(Op) /\ closed' = closed \cup {Op}
       ELSE UNCHANGED <<vars, closed>>
    /\ next' = next + 1
    /\ UNCHANGED <<batch, retries, results, batchErr>>

\* The objects of the requests that are left are canceled.
Expired == {results[i] : i \in next .. Len(Ops)}
Unanswered == {Ops[i] : i \in next .. Len(Ops)}

\* Mutant: the request the loop was waiting for is not among those closed.
ClosedOnTimeout_Rest ==
    closed \cup {Ops[i] : i \in {j \in (next + 1) .. Len(Ops) :
                                    WithResponse(Ops[j])}}

ClosedOnTimeout == closed \cup {c \in Unanswered : WithResponse(c)}

\* <-t.C: the rest gets a timeout error.
BatchTimeout ==
    /\ batch = "collect"
    /\ next <= Len(Ops)
    /\ WithResponse(Op)
    /\ heap' = [o \in Objs |-> IF o \in Expired
                               THEN [heap[o] EXCEPT !.canceled = TRUE]
                               ELSE heap[o]]
    /\ cancels' = cancels \cup Unanswered
    /\ pc' = [c \in Calls |-> IF c \in Unanswered THEN "returned" ELSE pc[c]]
    /\ ref' = [c \in Calls |-> IF c \in Unanswered THEN NoObj ELSE ref[c]]
    /\ ret' = [c \in Calls |-> IF c \in Unanswered THEN Failed("timeout")
                                                   ELSE ret[c]]
    /\ closed' = ClosedOnTimeout
    /\ batch' = "returned" /\ batchErr' = "timeout"
    /\ UNCHANGED <<lifeVars, faults, pool, fresh, requestsChan, count,
                   connVars, next, retries, results>>

BatchReturn ==
    /\ batch = "collect"
    /\ next > Len(Ops)
    /\ batch' = "returned"
    /\ UNCHANGED <<vars, next, retries, results, closed, batchErr>>

BatchStep == \/ BatchStart \/ BatchIssue \/ BatchRetry \/ BatchIssued
             \/ BatchCollect \/ BatchTimeout \/ BatchReturn

BatchNext ==
    \/ BatchStep
    \/ /\ \/ \E c \in Calls \ Batched : CallStep(c)
          \/ \E k \in Conns : \/ clientWriter(k) \/ clientReader(k)
                              \/ clientHandler(k)
          \/ Stop \/ StopReturn \/ Start
       /\ UNCHANGED batchVars

BatchSpec == BatchInit /\ [][BatchNext]_allVars

-----------------------------------------------------------------------------
BatchTypeOK ==
    /\ TypeOK
    /\ batch \in {"new", "issue", "collect", "returned"}
    /\ next \in 1 .. Len(Ops) + 1 /\ retries \in 0 .. Retries + 1
    /\ results \in [1 .. Len(Ops) -> Objs \cup {NoObj}]
    /\ closed \subseteq Batched
    /\ batchErr \in Errors

\* When Batch.CallTimeout has sent its requests, whether they were answered
\* or timed out, every BatchResult.Done that someone may wait for is closed;
\* and a batch that returns nil was not cut short.  (A batch that overflows
\* the queue closes none, although the comment on CallTimeout promises it.)
DoneAfterCall ==
    (batch = "returned" /\ batchErr # "overflow") =>
        /\ closed = {c \in Batched : WithResponse(c)}
        /\ batchErr = "nil" => next > Len(Ops)

\* A batch that returned nil, on a client nobody stopped, left no request
\* behind: each one has its own answer, or the error that it met.
BatchAnswered ==
    (batch = "returned" /\ batchErr = "nil" /\ stops = 0) =>
        \A c \in Batched : WithResponse(c) =>
            /\ pc[c] = "returned"
            /\ ret[c].err = "nil" => ret[c].body = c
            /\ ret[c].err \notin {"timeout", "canceled"}
============================================================================
