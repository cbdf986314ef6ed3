# A formal model of iorpc

TLA+ specifications of the Go package `iorpc` (an RPC library that multiplexes
requests over few connections and streams bodies with `splice(2)`), checked with
TLC on small instances and, for most of what is said about the client, its batches,
the server, the ring buffer and the pipe pairs, proved with TLAPS for all of them.

## The system

| Component | State | Operations | What is hard |
|---|---|---|---|
| Client calls (`client.go`) | `requestsChan`, `asyncResultPool`, the `AsyncResult` objects | `Call`, `CallTimeout`, `Send`, `CallAsync`, `Cancel` | pooled objects shared without locks by callers, writers and readers; eviction on overflow; timeouts racing late answers |
| Client connections (`client.go`) | per connection: `pendingRequests`, encoder buffer, `flushChan`, `msgID`; `pendingRequestsCount` | `clientHandler`, `clientHandleConnection`, `clientWriter`, `clientReader`, `Start`, `Stop` | three goroutines that end in any order; partial writes; reconnects |
| Client batches (`client.go`) | `Batch.ops`, the results, one timer | `Add`, `AddSkipResponse`, `Call`, `CallTimeout` | failure and timeout in the middle of a batch |
| Server lifecycle (`server.go`, `transport.go`) | `serverStopChan`, the listener, `stopWg` | `Start`, `Stop`, `Serve`, `serverHandler` | stop racing accept; restart |
| Server connections (`server.go`) | `responsesChan`, `workersCh`, `serverMessagePool`, encoder buffer | `serverHandleConnection`, `serverReader`, `serveRequest`, `serverWriter` | slots, full queues, closed connections and handlers that never return |
| Ring buffer (`buffer.go`) | `start`, `size`, `buf` | `Read`, `Write`, `TrySlice`, `Reset` | wrap-around and growth |
| Encoder, decoder (`encoding.go`) | `headerBuffer`, the stream, `ConnStats` | `Encode*`, `Decode*`, `Flush` | headers are buffered and bodies are not; framing without markers |
| Bodies and pipe pairs (`body.go`, `splice/`) | the pool of pipes and `usedCount` | `spliceTo`, `Pipe*`, `Close`, `Get`, `Done`, `Grow` | ownership of a pair on error paths; fallback from splicing to copying; bodies passed on |
| Timers (`common.go`) | `timerPool` | `acquireTimer`, `releaseTimer`, `getFlushChan` | stale ticks |
| Dispatcher, statistics, transports | | | little or no state of their own |

A call puts an `AsyncResult` into `requestsChan`; some connection's writer takes
it, registers it in `pendingRequests` under a fresh ID and encodes the request;
the server's reader turns it into a `serverMessage`, a worker runs the handler and
puts the message into `responsesChan`, the server's writer encodes the response;
the client's reader finds the `AsyncResult` by its ID, stores the response and
closes `done`.  Client and server share nothing but the connection, so each is
modelled against what it can observe of the other.  What the connection does with
a message (encoder, stream, decoder, bodies) is a model of its own: the
goroutines of client and server see of it only when messages are buffered, get
out and fail.

`PROJECT.json` lists, at their lines, the hazards of this code; the properties
below are aimed at them.

## Modules

* **RpcClient**: callers, queue, pool and connections of a client.
  `heap` holds the fields of each `AsyncResult`; `pool` and `fresh` are
  `asyncResultPool` and the objects not yet allocated.  `pc/ref/ret` are a
  caller's control point, object and result.  `handler/writer/reader/pending`
  belong to a connection; `wire` are the requests that the server has and has not
  answered.  A request is named by the call that issued it, and so is its
  response; headers and body are told apart because `releaseAsyncResult` clears
  only the body.  Each of these is an action: the
  three `select`s of `callAsync`, `<-Done` and the timeout of `CallTimeout`, the
  outer (non-blocking) and inner (blocking) `select` of the writer, the
  cancellation check, the locked registration, the atomic increment after the
  unlock, the encoding, the locked lookup in the reader, the atomic decrement after
  it, the completion, and in each iteration of the teardown's loop the decrement and
  the completion.  An entry that this loop has completed counts as gone, as nothing
  reads the map any more.  What is one step although the code takes several:
  `releaseAsyncResult` and the fields written before a `close` or a send on a channel
  (nobody else may look at them, which is what `ExclusiveOwnership` says), and a
  `Flush`, of which a failure may let any part escape.
* **ClientBatch** extends RpcClient by one `Batch`, whose requests go through the
  same actions.  The object that `callAsync` returned is kept in `results`, for
  requests without response too, as in the code.
* **RpcServer**: accept loop, connections, workers.  `acceptor` is `serverHandler`
  with the connection that `Accept` returned and the select has not seen.
  `conn/reader/writer` belong to a connection, `worker[r]` is the goroutine of
  request `r`, `workersCh[g]` counts the slots of the g-th `Start`.  `sock` is the
  socket: open, closed by the client (`eof`) or closed by the server; `stalled` are the
  connections whose writer is in a `write` that makes no progress, because the client does
  not read or a file body is too short.  There is no write deadline, so this lasts until
  the client reads on or the server closes the socket.  An `ok`
  handler returns headers and, for `HasBody`, a body; a panic is an error.
* **AtMostOnce** is the abstract specification of a call; RpcClient implements it
  under `Abstract`: `Stage(c)` says where the request of call `c` is (new, held by
  the client, sent, over), `AnsweredCalls` which calls the server answered,
  `HasAnswer` what the caller returned.
* **SplicePool**: the process-wide stack of unused pipe pairs, `usedCount`, and
  capacity and contents of each pair (`splice/pool.go`, `pair.go`,
  `pair_linux.go`).  Its operators are the calls `get`, `done`, `Grow`, `Load*`,
  `WriteTo`; `getFails` is a `pipe(2)` or `fcntl` that fails, the first always once
  descriptors have run out.
* **MessageCodec** extends SplicePool by one connection.  `enc` is the goroutine
  that encodes (header, then the body: `grow`, `load`, `write` are the steps of
  `Pipe*` and `spliceTo`, `copy` the `io.CopyN` that every failure before the
  first byte that is sent falls back to, `close` the deferred `Close` calls one by one),
  `wire` the units on the way, `dec` the goroutine that decodes, `delivered` the
  decoded messages with the pipe of their body.  The application reads a body,
  closes it or passes it on to the encoder, as a proxy does.  `opt` says on which
  side the connection can be spliced and whether the decoder has `CloseBody`.
  Encoder and decoder share one pool, as in a process that is both.  Bytes carry
  the message and position they are from, so that any mix-up of bodies shows.  A
  message of kind `none` has a `Size` and a nil `Reader`: its start line announces a body that
  `encode` does not write.  A load from a connection may fail half-way on both sides while
  the connection that it loads from lives: what was loaded is lost with the pair and
  `io.CopyN` goes on behind it.  The history variables `torn`, `shifted` and `missed`
  remember the messages to which this happened in the decoder and in the encoder, and the
  calls of `get` that gave no pair.
* **RingBuffer** has the fields of `ringBuffer` and the index arithmetic of
  `read`, `trySlice` and `write`; **ByteQueue** is the abstract queue that it
  implements under `queue <- Queue`.
* **RpcClientProofs** (types, flushes), **RpcClientOwnership** (who has an object),
  **RpcClientRequests** (where a request is, and AtMostOnce) are the theorems about
  RpcClient, each on top of the one before; **ClientBatchProofs** extends
  RpcClientOwnership; **MessageCodecProofs** (pairs, capacities) and
  **MessageStreamProofs** (what is in the stream, on top of it) are about MessageCodec;
  **RpcServerProofs** and **RingBufferProofs** are those of the other components.
* **MC...**: instances for TLC; each `.cfg` says what it is an instance of.

Operators named `X_Something` next to an operator `X` are plausible bugs in X's
code; replacing X by one of them must violate the property it is listed with in
`PROJECT.json`.

## Runs

| Run | Checks | Instance |
|---|---|---|
| client_ownership | `TypeOK`, `ExclusiveOwnership`, `NoDoubleClose`, `ResponseMatchesCall`, `CanceledOnlyIfAsked`, `CountExact`, `CompletedIsFinal`, `ImplementsAtMostOnce` | 2 synchronous calls and an asynchronous one, 2 objects, queue of 1, IDs modulo 2, a fault, a Stop and restart |
| client_queue | `SentOnce`, `FlushArmed`, `PendingBounded` | 4 calls, one of them a Send, queue of 1, 2 connections, pending limit 0 |
| client_live | `AcceptedEventuallyDone`, `PendingEventuallyDone`, `StopReturns` | a Call and a CallAsync, queue of 1, a fault and a reconnect, Stop at any point |
| batch_results | `BatchTypeOK`, `DoneAfterCall`, `BatchAnswered`, `NoDoubleClose` | batch of 3 and a competing Call, queue of 1, a retry, a fault, a Stop |
| server_messages | `TypeOK`, `MessageOwnership`, `PooledIsClean`, `ResponseMatchesHandler`, `SlotsExact`, `ServedOnce`, `FlushArmed` | 3 requests on a connection: a body, none, no response; 2 objects, 1 slot, a fault anywhere, a Stop |
| server_restart | `MessageOwnership`, `SlotsExact` | 2 connections that share pool and slots, Stop with running handlers, restart |
| server_live | `StopReturns`, `SlotsReturned`, `ReplyDelivered` | one connection with three requests on the way, one slot, one place in `responsesChan`, handlers that may never return, a client that stalls and reads on at any time |
| ring_buffer | `TypeOK`, `ImplementsByteQueue` | capacities 0, 2 and 3 growing to 5, two byte values |
| message_codec | `TypeOK`, `PairOwnership`, `UsedCountExact`, `UnusedIsEmpty`, `InSync`, `DeliveredInOrder`, `StatsAgree`, `Arrives` | seven sequences of 2 or 3 messages (file, short file, file larger than any pipe, connection, memory, plain reader, error, a body passed on, a body without a Reader), 2 pairs, every `opt`, a fault |

These runs end in a violation of what the repository's text says:

| Run | What the code does |
|---|---|
| batch_foreign_cancel | a batch timeout cancels somebody else's Call through a pooled object |
| server_started_again | a restarted server calls `Accept` on the closed listener |
| body_closed_twice | a `Pipe` that is passed on without `NotClose` is returned to the pool twice, and two bodies then share one pipe |

Other behaviours that the models have and that differ from a comment or a test,
without a run of their own:

* a call pending at `Client.Stop` returns an empty response and no error
  (`client.go:746`; `client.go:208` promises a response or an error), which is why
  `ResponseMatchesCall` demands the whole answer only of a client that was not
  stopped;
* a ring buffer `Write` that fits panics when the data wraps around
  (`buffer.go:164`; the action `WritePanic`);
* a body that is cut off by an orderly end of the connection is delivered as
  complete when it was spliced (`body.go:115`), and reported as an error when it
  was copied;
* the fallback copy ignores `Body.Offset` (`encoding.go:114`), which is why
  `DeliveredInOrder` allows two places for the body of a file; after a load from a
  connection that failed half-way it skips what was lost (`body.go:207`), and any place is
  allowed;
* a body with a `Size` and a nil `Reader` is announced and not sent (`encoding.go:98`
  against 147 and 195), and a load that fails within a body in the decoder is followed by a
  copy of the whole `Size` (`encoding.go:273`).  Both put the decoder out of step for the
  rest of the connection.  `Misframed` names the two; `InSync`, `DeliveredInOrder`,
  `StatsAgree` and `Arrives` say what holds as long as neither has happened;
* a file that is shorter than `Body.Size` stalls the writer for ever
  (`body.go:73`): `spliceTo` takes its empty pipe for a full connection.
  `Arrives` exempts this state, `Starved`.  In RpcServer it is one of the causes of
  `ClientStall`; RpcClient's liveness assumes that the bodies of requests are as long as
  they say;
* a client that stays connected and does not read blocks the server's writer, then
  `responsesChan`, and then its finished workers keep slots of `workersCh`, which all
  connections share (`server.go:417`): `SlotsReturned` and `ReplyDelivered` are about
  connections on which this ends;
* after a wrap-around the search for a free ID may choose 0 (`client.go:811`), which the
  server takes for a request without response: the call is over only with its timeout or its
  connection.  The model has this (`NextMsgID`, `ReaderMatch`), and client_ownership, with two IDs, reaches it;
  client_live has too few requests for it, so its properties are about calls with other IDs;
* a call that fails, or that Stop ends, may return the headers of an earlier call, which
  `releaseAsyncResult` leaves in the object (`client.go:252`); `ResponseMatchesCall` is about the
  body, and about the headers of calls that succeed;
* `Pipe.Read` on an emptied pipe is an error, not `io.EOF`; the model's
  application reads only what is there;
* a call canceled after the writer's check is still sent (`client.go:317`);
* a batch that overflows returns with `Done` channels blocked (`client.go:540`),
  which is why `DoneAfterCall` exempts the overflow;
* after a restart the handlers of the old and the new run together may exceed
  `Concurrency` (`server.go:65`), which is why `SlotsExact` counts per run;
* a `Start` that failed in `Listener.Init` leaves `serverStopChan` set, and the
  next one would panic.

`ImplementsAtMostOnce` answers what reconnects, flush failures and cancellation
leave open for the single properties: whatever ends a connection with requests in
its buffer, no request reaches the server a second time, and no answer is
reported that was not given.

### Bounds

`MaxFaults`, `MaxStops` and `MaxStarts` bound failures and lifecycles; `Objs` is
the heap (an object that the program drops is garbage in the model, so more
objects than calls are not needed).  Queues of one and objects that are fewer
than calls make overflow, blocking and reuse happen in a few steps.  `IDModulus`
stands for 2^64 and is small enough for IDs to wrap around and collide;
`HeaderLimit` = 2 makes both the buffered and the full encoder occur;
`PendingFactor` is 10 in the code.  Calls and requests are issued at most once
each, in any order.  Objects are interchangeable, which the safety runs use as
symmetry; so are the connections in client_queue and server_restart (there
together with their requests) and the asynchronous calls without body in
client_queue.

In message_codec two pairs are the least with which encoder and decoder both
splice, and one more user (a delivered body, a leaked pair) already runs the pool
empty, so that `get` fails and bodies are copied.  `PageSize` = 2, a pipe of 1
that grows to at most 8 and bodies of 1, 2 and 4 bytes put `Grow` before, at and
beyond its limit and a body on a page boundary.  `HeaderLimit` = 3 units lets one
header be buffered and the next one fill the buffer.  Three messages are enough
for a body to follow buffered headers, and for a pair to be used, returned and
used again.  One fault happens in `newSplicePair`, `Grow`, a load of the encoder or the
decoder, a write or a flush, in the codec of the headers, or ends the connection in order
or not with any part of the stream lost.

server_live starts in `MCLiveInit`, a state that the server reaches before anything can go
wrong, and has one connection, no faults and handlers with one outcome; this is what makes
room for three requests, the least with which a stalled write fills
`responsesChan` and a finished worker waits with its slot.  What other connections do meanwhile is
in the safety runs only.

The runs with liveness properties use no symmetry.  Deadlock is
not checked: once all calls have returned, or the client or server is stopped,
these systems rest.

### Fairness

Weak fairness for every goroutine that is runnable (the Go scheduler) and for
the server's answers in the client's model, since completion without timeout
depends on them.  `AcceptorStop` is weakly fair by itself, because Go's `select`
chooses among ready cases at random and so does not ignore a closed channel for
ever.  The server's writer is weakly fair as a goroutine, but a write of its ends only if the
client reads (`CanWrite`): no fairness makes `ClientResume` happen.  `SlotsReturned` and
`ReplyDelivered` have `Reads(k)` as their hypothesis, that from some time on no write on
the connection is blocked, because the client reads or because one of the two closed the
connection.  `StopReturns` needs no such hypothesis.  Nothing is assumed of the users: new calls, timeouts, cancellation, Start
and Stop; in the server also not of the handlers, so `StopReturns` holds with
handlers that never return.  Faults are bounded, so a connection is eventually
established.  `AcceptedEventuallyDone` exempts a client that was stopped: requests
that are in the queue when it stops are completed by nobody.  In the server
failures of Accept and of the handshake are not bounded; the liveness properties
hold in spite of them.  In MessageCodec the encoding and the decoding goroutine
are weakly fair, and nothing is assumed of the application: `Arrives` holds
although bodies may never be read or closed, because copying needs no pair.

## Proofs

Every theorem is about the specification of its module for arbitrary constants, under
the assumptions that the module states and TLC evaluates: `ClientAssumption` (any set
of calls, objects and connections, any queue size, ID width and bounds),
`BatchAssumption` (a sequence of distinct calls), `ServerAssumption`,
`BufferAssumption`, `PoolAssumption` and `CodecAssumption`.  The theorems of
MessageCodecProofs and MessageStreamProofs have further hypotheses, named below.

### Client

* `TypeCorrect` (RpcClientProofs): `TypeOK` is not inductive by itself; `TypeInv`
  adds that a caller, writer or reader that is about to use its object has one.
* `NothingForgotten` (RpcClientProofs): `FlushInv` says that outside of the step
  after a flush a non-empty encoder buffer has its flush scheduled.
* `OwnershipCorrect`, `CloseCorrect`, `ResponseCorrect`, `CanceledCorrect`
  (RpcClientOwnership) follow from one inductive invariant, `IInv`.  Its centre is
  `Live(o)`: an object that is queued, held by a writer, pending or matched is
  outside the pool, belongs to an accepted call and is not completed.
  `QueueSlots`/`ConnSlots` say that whatever is in these places is live,
  `QueueDistinct`/`ConnDistinct` that no object is in two of them, `MemInv` what a
  pooled object's fields hold, `CallerInv` and `RetInv` what callers find and
  return, `MessageInv` that a message in the encoder or on the wire is pending
  under its ID, and `StopInv` that only Stop ends a connection without error.
  Frame lemmas (`ConnFrame`, `SlotFrame`) reduce each action to the object it
  touches.  `MessageInv` is what makes IDs that wrap around safe, and the clause
  of `MemInv` that only objects with a `done` channel are ever marked canceled is
  what makes the unreset flag harmless here; a batch breaks exactly this clause.
  The invariant therefore has two forms: `OwnInv(TRUE)`, which is `IInv`, has the clauses
  about who sets the flag, and `OwnInv(FALSE)` leaves them out.  Each is inductive, and
  only `CanceledCorrect` needs the first.
* `ResultFinal` (RpcClientRequests), an action property: an object whose `done` is
  closed is not live, and goroutines write only to live objects (`Settled`), so only
  its own caller is left to touch it.
* `CountCorrect`, `PendingLimited` (RpcClientRequests): map and counter change in
  separate steps, and `pendingRequestsCount` can be read between them.  `CountInv` relates
  four finite sets: the registered (connection, ID) pairs (`Entries`), the writers that have
  inserted and not yet counted (`Uncounted`), the readers that have deleted and not yet
  counted (`Overcounted`), and the teardowns that have counted an entry that they have not
  completed (`Dropping`).  Each step adds an element to one of them or takes one away.  That
  the counter does not fall below zero needs `OwedInv`: what is owed to the counter is still
  in the map, because no answer can come to a request that was not sent, so there is an
  entry for each element of `Uncounted` and `Dropping`.  `IdleInv` says that a connection that is not served has an empty
  map, which `Connect` needs.  `BoundInv` keeps one place in reserve while the writer
  lives, because it ends only after the insertion that exceeds the limit.
* `RequestOnce` (RpcClientRequests): `MessageInv` knows a message by its ID, which a
  request without response does not have, so `PlaceInv` knows it by its call: a call has
  one object (`OneObject`), a request that became a message is not held as an object
  any more (`Encoded`), and it is one message in one encoder or on one wire
  (`OneMessage`); `HandsFree` says that the writer's message variable is empty
  between two requests.
* `AtMostOnceCorrect` (RpcClientRequests): `StageOf` and the lemmas after it turn the
  mapping `Abstract` into predicates of one call.  Requests travel in one direction
  (`Forward`), and an answer is with a reader, then in a completed object, then with
  the caller, while the request is nowhere any more (`AnswerInv`).  Each action then is
  a step of the abstract call it is about, or changes no stage.

### Batch

`BatchTypesCorrect`, `DoneCorrect`, `AnsweredCorrect`, `BatchCloseCorrect`,
`BatchOwnership` and `BatchResponses` (ClientBatchProofs) follow from `BatchInv`.  `FlowInv` says what is closed by how far the loops have come
(`ClosedBefore`), `CollectInv` that the requests which the second loop has passed have
their result, `ErrInv` that no timeout and no cancellation comes from anywhere but the
batch's own timer.  A request that overflowed is issued again by the same call, which
RpcClient by itself never does: `NewInv` says that the client has nothing left of it,
and `RetryIInv` that the client's invariant survives that.  `BatchInv` keeps the client's `IInv`
only until the batch times out: the timeout may cancel objects that are pooled or that
another call uses by then, which is what batch_foreign_cancel shows.  After that it keeps
`OwnInv(FALSE)` (`TimeoutOwned`).  So an `ErrCanceled` that nobody asked for is all that
the timeout does to others: no channel is closed twice, no object gets into two
hands, and no caller gets another one's body.

### Server

All seven theorems of RpcServerProofs (`ServerTypes`, `ServerOwnership`,
`ServerServedOnce`, `ServerPool`, `ServerResponses`, `ServerSlots`, `ServerFlush`) follow
from one invariant.  `OwnerInv` gives a `serverMessage` to one reader, one worker or one
place of one `responsesChan`, outside the pool.  `StreamInv` and `ReaderInv` say that a
request in a stream or with its reader has no worker yet; `WorkerInv` what a worker
finds in its message at each point, `ChanInv` and `WriterInv` that what is on its way
to the client is the outcome of the handler of a request of that connection.  This
needs that the message which the writer encodes from is empty between two
responses, so it is part of `WriterInv`.  `OnceInv` says
that an answer is in one of queue, encoder, buffer and connection.  `SlotsInv` equates
the slots of a `Start` with the cardinality of its running workers, and `LifeInv`
excludes connections before the first `Start`, so that every worker has one to count for.

### Ring buffer

`BufferTypes` and `BufferIsQueue` (RingBufferProofs).  `TypeOK` is inductive.  The i-th
byte of the queue is at `Place(i)`, with one wrap-around at most, which replaces the
modulo; the one or two slices that `read` copies from are the first bytes of the queue, and
`write` appends behind the last place or, after growing, behind a copy that starts at
0.  So every `Read`, `Write` and `Reset` is that of ByteQueue.

### Pipe pairs

`PairsOwned`, `PoolEmpty`, `PoolCount` (MessageCodecProofs) assume `PassedOnKept`: bodies that are
passed on are marked `NotClose`.  Without it they are false, as body_closed_twice shows.
`Lone(p)` says that a pair which was made is with the pool, the encoder, the decoder,
a delivered body or lost, and with one of them only; `EncInv` and `DecInv` say at
which points encoder and decoder have a pair, and that the deferred calls of
`Close` which are left close it at most once.  The calls of SplicePool have a lemma each
(`GetPair` and its neighbours), so that every action is about one pair.  For `PoolCount`
every action is one of four things to the pool (`PoolStep`): nothing that is counted, `get`,
a `get` that fails, `done`; the third is why `UsedCountExact` has `missed` in it.

`CodecTypes` also assumes `BuffersFit`: the memory behind an `IsBuffer` is not larger than
twice the aligned `Size`, because `PipeBuffer` writes all of it and looks at no count.
`FitInv` then says that a pipe holds no more than its capacity; it needs that a pipe
that is grown is empty (`PoolEmpty`) and that what was loaded so far is counted.

### Stream

`SyncCorrect`, `OrderCorrect` and `StatsCorrect` (MessageStreamProofs) assume `PassedOnKept`
as well: a body that is closed while the encoder still has it may send bytes of
another.  All three, and their invariants `StreamInv` and `TallyInv`, speak of behaviours
that are not `Misframed`; `HistoryGrows` says that what is misframed stays so, so that each
step may be taken from a state that is not.  The three properties compare what was written with what is read, and in
between the stream is cut at places that have nothing to do with messages: headers wait in
the encoder's buffer, bodies go around it, and either end may have any part of a message.

`StreamInv` therefore speaks of a tape that is no variable of the model: all messages
taken so far, one after the other.  `A[i]` is the position where message i begins,
`P[i]` the place in its source where its body begins, `X` the units; `Tape` says how the
three belong together.  `EncAt` and `DecAt` give the positions that encoder and
decoder have reached, and `Travel` says that wire and buffer hold the tape between the two.
The rest is what makes this inductive:

* `EncShape` and `DecShape`: the buffer is empty while a body is under way, a body that
  ends without an error has all its `Size` units, and the decoder reads the message after the
  last that it delivered;
* `EncBytes`, `DecBytes`, `Bodies`: what lies in the pairs of encoder and decoder and in
  delivered bodies is of the right body and contiguous.  A passed-on body needs the last
  for the first: its encoder sends what an earlier decoder delivered;
* `Unsent`: as long as the encoder loads, nobody has a byte of that body.  Whether a file is read
  from its `Offset` or from the reader's position is settled only when it is first
  spliced or copied, so `P` may still be replaced at that point, and only then
  (`NewPlace`).  `Placed` says which places there are; after a load that failed half-way it
  is the one that the reader has reached (`EncodeLoadConnFailGood`).  A message that is taken makes the tape longer (`LongerTape`).

When a connection ends, `Travel` is given up for what was lost, and the remaining clauses
keep what was delivered.  `SyncCorrect` is a clause of `DecShape`; `OrderCorrect` reads
`DecShape` and `Bodies`.  For `StatsCorrect`, `TallyInv` adds the sums `G` and `T` of the
units of headers and bodies before each message; `WriteTally` and `ReadTally` tie the counters
of each end to its position.  If nothing is on the way both ends are at the same
position, and because `A` grows strictly they are then at the same message.

### Only model-checked

Liveness (`AcceptedEventuallyDone`, `PendingEventuallyDone`, both `StopReturns`,
`SlotsReturned`, `ReplyDelivered`, `Arrives`): fairness and ENABLED are out of the
prover's reach.

## Not modelled

Logging, default configuration values, dialers and TLS, system calls and the
non-Linux stubs.  Of the statistics, what the encoder and the decoder count is
modelled and the rest (calls, times, averages) is not: nothing reads it;
`conn_stats_386.go` names fields that do not exist and does not compile.  The
Dispatcher is a table that is filled before the server starts and a handler as
far as the server can tell.  `Drop`, `ClearSplicePool` and `LoadBuffer`, which
nothing calls, and `CopyFds` are left out of SplicePool, and so is the number of
buffers of a pipe, which the kernel limits besides their size.  The pool of
timers is not a module: a timeout and a flush may happen at any time in the
models, early ones included, so a stale tick of a reused timer adds no behaviour.
The sockets that are leaked when Stop races a dial or an accept appear as steps,
but no property is stated about them.  `Batch.Add` during `CallTimeout` and two
batches at once are not modelled.

## Plan

1. RpcClient with its proofs, ClientBatch, RpcServer, RingBuffer (done).
2. SplicePool, MessageCodec; RpcClient implements AtMostOnce (done).
3. Proofs: the rest of RpcClient's safety and its refinement of AtMostOnce, ClientBatch,
   RpcServer, RingBuffer as a ByteQueue, the pairs and capacities of MessageCodec (done).
4. Proofs: `InSync`, `DeliveredInOrder` and `StatsAgree` of MessageCodec (done).
5. Proofs: the client with a batch that timed out (done).
