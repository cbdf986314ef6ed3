-------------------------- MODULE RpcClientRequests --------------------------
(***************************************************************************)
(* RpcClient: what happens to a request.  From the invariant of            *)
(* RpcClientOwnership: a completed result is final (CompletedIsFinal); the *)
(* counter and the limit of the pending maps (CountExact, PendingBounded); *)
(* a request is never in two places (SentOnce).  From where a request is:  *)
(* RpcClient implements AtMostOnce, every step of the client being a step  *)
(* of the abstract calls or none at all.                                   *)
(***************************************************************************)
EXTENDS RpcClientOwnership

-----------------------------------------------------------------------------
(* A completed result is final: every goroutine writes only to objects that *)
(* are still live, and every caller only to its own.                        *)

\* The fields that a caller reads after <-Done.
ResultKept(o) == /\ heap'[o].hdr = heap[o].hdr
                 /\ heap'[o].body = heap[o].body
                 /\ heap'[o].err = heap[o].err

\* Who has no business with the completed object of a waiting caller.
LEMMA Settled ==
    ASSUME IInv, NEW c \in Calls, pc[c] = "waiting",
           heap[ref[c]].done = "closed"
    PROVE  /\ ref[c] \in Objs /\ ref[c] \notin pool \cup fresh
           /\ \A p : Live(p) => p # ref[c]
           /\ \A d \in Calls : d # c /\ pc[d] \in {"evict", "again", "waiting"}
                                  => ref[d] # ref[c]
BY DEF IInv, OwnInv, CallerInv, Live

\* A call other than c: it writes to an object it just acquired, to the head
\* of the queue or to its own.  Cancel by c leaves the result alone.
LEMMA CallFinal ==
    ASSUME IInv, NEW c \in Calls, pc[c] = "waiting",
           heap[ref[c]].done = "closed", pc'[c] = "waiting",
           NEW d \in Calls, CallStep(d)
    PROVE  ref'[c] = ref[c] /\ ResultKept(ref[c])
<1>0. /\ heap \in [Objs -> AsyncResult] /\ requestsChan \in Seq(Objs)
      /\ pc \in [Calls -> {"idle", "evict", "again", "waiting", "returned"}]
      /\ ref \in [Calls -> Objs \cup {NoObj}] /\ heap[ref[c]] \in AsyncResult
  BY CallTypes, Settled DEF IInv, OwnInv
<1>1. /\ ref[c] \in Objs /\ ref[c] \notin pool \cup fresh
      /\ \A p : Live(p) => p # ref[c]
      /\ \A b \in Calls : b # c /\ pc[b] \in {"evict", "again", "waiting"}
                             => ref[b] # ref[c]
  BY Settled
<1>2. CASE callAsync(d)
  BY <1>0, <1>1, <1>2 DEF callAsync, Acquirable, Enqueued, Return, ResultKept
<1>3. CASE callAsyncSkipOverflow(d)
  BY <1>0, <1>1, <1>3 DEF callAsyncSkipOverflow, Acquirable, Return, ResultKept
<1>4. CASE callAsyncFull(d)
  BY <1>0, <1>1, <1>4 DEF callAsyncFull, Acquirable, ResultKept
<1>5. CASE callAsyncEvict(d)
  <2>1. ref' = ref
    BY <1>5 DEF callAsyncEvict
  <2>2. CASE requestsChan = <<>>
    BY <1>5, <2>1, <2>2 DEF callAsyncEvict, ResultKept
  <2>3. CASE requestsChan # <<>>
    <3>1. Head(requestsChan) # ref[c]
      <4>1. 1 \in 1 .. Len(requestsChan) /\ Head(requestsChan) = requestsChan[1]
        BY <1>0, <2>3
      <4> QED
        BY <1>1, <4>1 DEF IInv, OwnInv, QueueSlots
    <3> QED
      BY <1>0, <1>1, <1>5, <2>1, <2>3, <3>1
         DEF callAsyncEvict, Discard, ResultKept
  <2> QED
    BY <2>2, <2>3, <2>1
<1>6. CASE callAsyncAgain(d)
  BY <1>0, <1>1, <1>6 DEF callAsyncAgain, Enqueued, Return, ResultKept
<1>7. CASE CallDone(d)
  BY <1>0, <1>1, <1>7 DEF CallDone, Return, ResultKept
<1>8. CASE CallTimeout(d)
  BY <1>0, <1>1, <1>8 DEF CallTimeout, Abandon, Return, ResultKept
<1>9. CASE AsyncDone(d)
  BY <1>0, <1>1, <1>9 DEF AsyncDone, memVars, Return, ResultKept
<1>10. CASE Cancel(d)
  <2>1. ref' = ref /\ heap' = [heap EXCEPT ![ref[d]].canceled = TRUE]
    BY <1>10 DEF Cancel
  <2>2. CASE d = c
    BY <1>0, <1>1, <2>1, <2>2 DEF ResultKept, AsyncResult
  <2>3. CASE d # c
    BY <1>0, <1>1, <1>10, <2>1, <2>3 DEF Cancel, ResultKept
  <2> QED
    BY <2>2, <2>3
<1> QED
  BY <1>2, <1>3, <1>4, <1>5, <1>6, <1>7, <1>8, <1>9, <1>10 DEF CallStep

\* The goroutines of a connection write to live objects only.
LEMMA ConnFinal ==
    ASSUME IInv, NEW c \in Calls, pc[c] = "waiting",
           heap[ref[c]].done = "closed",
           NEW k \in Conns, clientWriter(k) \/ clientReader(k) \/ clientHandler(k)
    PROVE  ref'[c] = ref[c] /\ ResultKept(ref[c])
<1> USE DEF sharedVars, callVars, memVars
<1>0. heap \in [Objs -> AsyncResult]
  BY CallTypes DEF IInv, OwnInv
<1>1. /\ ref[c] \in Objs
      /\ \A p : Live(p) => p # ref[c]
  BY Settled
<1>2. ref' = ref
  BY DEF clientWriter, clientReader, clientHandler, WriterTake, WriterBlock,
         WriterStop, WriterFlush, WriterFlushFail, WriterCanceled, WriterSkip,
         WriterRegister, WriterCount, WriterBuffer, WriterSend,
         WriterEncodeFail, ReaderMatch, ReaderCount, ReaderComplete, ReaderFail,
         HandlerConnect, HandlerDialFail, HandlerSetupFail, HandlerRedial,
         HandlerStop, HandlerClose, HandlerCount, HandlerDrop, HandlerTeardown
<1>3. writer[k].pc = "got" => Live(writer[k].m)
  BY ClientAssumption DEF IInv, OwnInv, ConnSlots, TypeInv, WriterHolds
<1>4. reader[k].pc = "got" => Live(reader[k].m)
  BY ClientAssumption DEF IInv, OwnInv, ConnSlots, TypeInv, ReaderHolds
<1>5. CASE WriterCanceled(k)
  BY <1>0, <1>1, <1>2, <1>3, <1>5 DEF WriterCanceled, Discard, ResultKept
<1>6. CASE WriterSkip(k)
  BY <1>0, <1>1, <1>2, <1>3, <1>6 DEF WriterSkip, ResultKept
<1>7. CASE ReaderComplete(k)
  BY <1>0, <1>1, <1>2, <1>4, <1>7 DEF ReaderComplete, ResultKept
<1>8. CASE HandlerDrop(k)
  <2>1. PICK id \in IDs : /\ heap' = [heap EXCEPT ![pending[k][id]] =
                                       Completed(@, handler[k].err)]
                         /\ pending[k][id] # NoObj
    BY <1>8 DEF HandlerDrop, Left, PendingIDs
  <2>2. ref[c] # pending[k][id]
    BY <1>1, <2>1 DEF IInv, OwnInv, ConnSlots
  <2> QED
    BY <1>0, <1>1, <1>2, <2>1, <2>2 DEF ResultKept
<1>9. CASE ~(\/ WriterCanceled(k) \/ WriterSkip(k) \/ ReaderComplete(k)
             \/ HandlerDrop(k))
  <2>1. heap' = heap
    BY <1>9 DEF clientWriter, clientReader, clientHandler, WriterTake,
         WriterBlock, WriterStop, WriterFlush, WriterFlushFail,
         WriterRegister, WriterCount, WriterBuffer, WriterSend,
         WriterEncodeFail, ReaderMatch, ReaderCount, ReaderFail,
         HandlerConnect, HandlerDialFail, HandlerSetupFail, HandlerRedial,
         HandlerStop, HandlerClose, HandlerCount, HandlerTeardown
  <2> QED
    BY <1>2, <2>1 DEF ResultKept
<1> QED
  BY <1>5, <1>6, <1>7, <1>8, <1>9

\* CompletedIsFinal: after close(m.done) neither the writer, the reader, an
\* eviction, a teardown nor another caller changes Response or Error before
\* the caller has read them.
THEOREM ResultFinal == Spec => CompletedIsFinal
<1>1. ASSUME IInv, [Next]_vars, NEW c \in Calls, pc[c] = "waiting",
             heap[ref[c]].done = "closed", pc'[c] = "waiting"
      PROVE  ResultOf(ref[c])' = ResultOf(ref[c])
  <2>1. ref'[c] = ref[c] /\ ResultKept(ref[c])
    <3>1. CASE UNCHANGED vars
      BY <3>1 DEF vars, ResultKept
    <3>2. CASE Stop \/ StopReturn \/ Start
      BY <3>2 DEF Stop, StopReturn, Start, callVars, memVars, ResultKept
    <3> QED
      BY <1>1, <3>1, <3>2, CallFinal, ConnFinal DEF Next
  <2> QED
    BY <2>1 DEF ResultOf, ResultKept
<1>2. IInv /\ [Next]_vars =>
        [\A c \in Calls :
          (pc[c] = "waiting" /\ heap[ref[c]].done = "closed"
              /\ pc'[c] = "waiting") => ResultOf(ref[c])' = ResultOf(ref[c])]_vars
  BY <1>1
<1> QED
  BY <1>2, Inductive, PTL DEF Spec, CompletedIsFinal

-----------------------------------------------------------------------------
(* The pending maps.  A connection that is not served has an empty map, so   *)
(* the map that Connect starts with is empty.  The counter follows the maps  *)
(* with the steps that some goroutines still owe it.                         *)

Served(k) == handler[k].pc \in {"serving", "closing", "dropping"}

CountInv ==
    /\ IsFiniteSet(Entries) /\ IsFiniteSet(Uncounted)
    /\ IsFiniteSet(Overcounted) /\ IsFiniteSet(Dropping)
    /\ count + Cardinality(Uncounted) + Cardinality(Dropping)
          = Cardinality(Entries) + Cardinality(Overcounted)
\* What is not counted yet is still in the map: a response cannot come before
\* the request was sent.
OwedInv == \A k \in Conns :
    /\ writer[k].pc \in {"count", "stuck"} =>
          pending[k][writer[k].wr.id] # NoObj
    /\ handler[k].pc = "dropping" =>
          writer[k].pc = "done" /\ \E id \in IDs : pending[k][id] # NoObj
IdleInv ==
    /\ client = "stopped" => \A k \in Conns : handler[k].pc = "stopped"
    /\ \A k \in Conns : ~Served(k) =>
          /\ writer[k].pc = "off" /\ reader[k].pc = "off"
          /\ \A id \in IDs : pending[k][id] = NoObj

\* The limit, and the place that only the writer's last insertion takes.
Limit == PendingFactor * PendingRequests
BoundInv == \A k \in Conns :
    /\ Cardinality(PendingIDs(k)) <= Limit + 2
    /\ writer[k].pc \notin {"stuck", "done"} =>
          Cardinality(PendingIDs(k)) <= Limit + 1

MapInv == CountInv /\ OwedInv /\ IdleInv /\ BoundInv

\* The map of a connection is a finite set of IDs.
LEMMA PendingFinite ==
    ASSUME NEW k \in Conns
    PROVE  IsFiniteSet(PendingIDs(k)) /\ Cardinality(PendingIDs(k)) \in Nat
<1>1. IsFiniteSet(IDs)
  BY ClientAssumption, FS_Interval DEF IDs
<1>2. PendingIDs(k) \subseteq IDs
  BY DEF PendingIDs
<1> QED
  BY <1>1, <1>2, FS_Subset, FS_CardinalityType

\* The limit is a number.
LEMMA LimitType == Limit \in Nat
BY ClientAssumption DEF Limit

\* The numbers in CountInv.
LEMMA CountTypes ==
    ASSUME TypeInv, CountInv
    PROVE  /\ count \in Int
           /\ Cardinality(Entries) \in Nat /\ Cardinality(Uncounted) \in Nat
           /\ Cardinality(Overcounted) \in Nat /\ Cardinality(Dropping) \in Nat
<1>1. count \in Int
  BY DEF TypeInv, TypeOK, LifeTypeOK
<1> QED
  BY <1>1, FS_CardinalityType DEF CountInv

\* A map that only lost entries stays within its bound.
LEMMA BoundShrinks ==
    ASSUME BoundInv,
           \A l \in Conns, i \in IDs : pending'[l][i] \in {pending[l][i], NoObj},
           \A l \in Conns : writer[l].pc \in {"stuck", "done"} =>
              \/ writer'[l].pc \in {"stuck", "done"}
              \/ \A i \in IDs : pending'[l][i] = NoObj
    PROVE  BoundInv'
<1> SUFFICES ASSUME NEW l \in Conns
             PROVE  /\ Cardinality(PendingIDs(l)') <= Limit + 2
                    /\ writer'[l].pc \notin {"stuck", "done"} =>
                          Cardinality(PendingIDs(l)') <= Limit + 1
  BY DEF BoundInv, Limit
<1>1. PendingIDs(l)' \subseteq PendingIDs(l)
  BY DEF PendingIDs
<1>2. /\ Cardinality(PendingIDs(l)') <= Cardinality(PendingIDs(l))
      /\ Cardinality(PendingIDs(l)') \in Nat /\ Cardinality(PendingIDs(l)) \in Nat
  BY <1>1, PendingFinite, FS_Subset, FS_CardinalityType
<1>3. CASE \A i \in IDs : pending'[l][i] = NoObj
  <2>1. PendingIDs(l)' = {}
    BY <1>3 DEF PendingIDs
  <2>2. Cardinality(PendingIDs(l)') = 0
    BY <2>1, FS_EmptySet
  <2> QED
    BY <2>2, LimitType
<1>4. CASE ~\A i \in IDs : pending'[l][i] = NoObj
  BY <1>2, <1>4, LimitType DEF BoundInv
<1> QED
  BY <1>3, <1>4

\* A step that leaves the maps, the counter and the debts alone.
LEMMA MapFrame ==
    ASSUME TypeInv, MapInv, UNCHANGED <<count, pending>>, IdleInv',
           \A k \in Conns :
              /\ \/ writer'[k].pc = writer[k].pc /\ writer'[k].wr = writer[k].wr
                 \/ /\ writer[k].pc \notin {"count", "stuck", "done"}
                    /\ writer'[k].pc \notin {"count", "stuck"}
                    /\ handler[k].pc # "dropping"
              /\ reader'[k].pc = "match" <=> reader[k].pc = "match"
              /\ handler'[k].pc = "dropping" <=> handler[k].pc = "dropping"
    PROVE  MapInv'
<1>1. Entries' = Entries
  BY DEF Entries
<1>2. /\ Uncounted' = Uncounted /\ Overcounted' = Overcounted
      /\ Dropping' = Dropping
  BY DEF Uncounted, Overcounted, Dropping
<1>3. CountInv'
  BY <1>1, <1>2 DEF MapInv, CountInv
<1>4. OwedInv'
  BY DEF MapInv, OwedInv
<1>5. BoundInv'
  BY BoundShrinks DEF MapInv
<1> QED
  BY <1>3, <1>4, <1>5 DEF MapInv

\* The steps of the callers, and those of Stop and Start.
LEMMA CallerMap ==
    ASSUME TypeInv, MapInv,
           \/ \E c \in Calls : CallStep(c)
           \/ Stop \/ StopReturn \/ Start
    PROVE  MapInv'
<1>1. UNCHANGED <<count, writer, reader, pending>>
  BY DEF CallStep, callAsync, callAsyncSkipOverflow, callAsyncFull,
         callAsyncEvict, callAsyncAgain, CallDone, CallTimeout, AsyncDone,
         Cancel, connVars, Stop, StopReturn, Start
<1>2. \/ client' = client /\ handler' = handler
      \/ client' = "stopping" /\ handler' = handler
      \/ StopReturn \/ Start
  BY DEF CallStep, callAsync, callAsyncSkipOverflow, callAsyncFull,
         callAsyncEvict, callAsyncAgain, CallDone, CallTimeout, AsyncDone,
         Cancel, connVars, lifeVars, Stop
<1>3. IdleInv'
  <2>1. CASE StopReturn
    BY <1>1, <2>1 DEF StopReturn, connVars, MapInv, IdleInv, Served
  <2>2. CASE Start
    BY <1>1, <2>2 DEF Start, MapInv, IdleInv, Served
  <2>3. CASE client' \in {client, "stopping"} /\ handler' = handler
    BY <1>1, <2>3 DEF MapInv, IdleInv, Served
  <2> QED
    BY <1>2, <2>1, <2>2, <2>3
<1>4. \A k \in Conns : handler'[k].pc = "dropping" <=> handler[k].pc = "dropping"
  <2>1. CASE Start
    BY <2>1 DEF Start, MapInv, IdleInv
  <2>2. CASE handler' = handler
    BY <2>2
  <2> QED
    BY <1>2, <2>1, <2>2 DEF StopReturn, connVars
<1> QED
  BY <1>1, <1>3, <1>4, MapFrame

\* The locked section of clientWriter adds one entry that is not counted yet.
\* It is the last one of this connection when the map was over the limit before.
LEMMA RegisterMap ==
    ASSUME TypeInv, MapInv, NEW k \in Conns, WriterRegister(k)
    PROVE  MapInv'
<1>0. /\ writer \in [Conns -> Writer] /\ handler \in [Conns -> Handler]
      /\ pending \in [Conns -> [IDs -> Objs \cup {NoObj}]]
      /\ writer[k].m \in Objs /\ writer[k].pc = "got"
  BY ConnTypes DEF TypeInv, WriterHolds, WriterRegister
<1>1. PICK id \in IDs :
        /\ NextMsgID(k, id)
        /\ pending' = [pending EXCEPT ![k][id] = writer[k].m]
        /\ writer' = [writer EXCEPT
              ![k].pc = IF Stuck(k) THEN "stuck" ELSE "count",
              ![k].m = NoObj, ![k].msgID = id,
              ![k].wr = [id |-> id, call |-> heap[writer[k].m].req]]
  BY DEF WriterRegister
<1>2. UNCHANGED <<count, client, handler, reader>>
  BY DEF WriterRegister, sharedVars, lifeVars
<1>3. pending[k][id] = NoObj
  BY <1>1, NextMsgIDFree
<1>4. /\ pending'[k][id] = writer[k].m /\ writer[k].m # NoObj
      /\ \A i \in IDs : i # id => pending'[k][i] = pending[k][i]
      /\ \A l \in Conns : l # k => pending'[l] = pending[l]
  BY <1>0, <1>1, ClientAssumption
<1>5. /\ \A l \in Conns : l # k => writer'[l] = writer[l]
      /\ writer'[k].pc = IF Stuck(k) THEN "stuck" ELSE "count"
      /\ writer'[k].wr.id = id
  BY <1>0, <1>1 DEF Writer
<1>6. CountInv'
  <2>1. Entries' = Entries \cup {<<k, id>>} /\ <<k, id>> \notin Entries
    BY <1>3, <1>4 DEF Entries
  <2>2. Uncounted' = Uncounted \cup {k} /\ k \notin Uncounted
    BY <1>0, <1>5 DEF Uncounted
  <2>3. Overcounted' = Overcounted /\ Dropping' = Dropping
    BY <1>2 DEF Overcounted, Dropping
  <2>4. /\ IsFiniteSet(Entries') /\ Cardinality(Entries') = Cardinality(Entries) + 1
        /\ IsFiniteSet(Uncounted')
        /\ Cardinality(Uncounted') = Cardinality(Uncounted) + 1
    BY <2>1, <2>2, FS_AddElement DEF MapInv, CountInv
  <2> QED
    BY <1>2, <2>3, <2>4, CountTypes DEF MapInv, CountInv
<1>7. IdleInv' /\ OwedInv'
  <2>1. Served(k) /\ handler[k].pc # "dropping"
    BY <1>0 DEF MapInv, IdleInv, OwedInv
  <2>2. IdleInv'
    BY <1>2, <1>4, <1>5, <2>1 DEF MapInv, IdleInv, Served
  <2>3. OwedInv'
    BY <1>2, <1>4, <1>5, <2>1 DEF MapInv, OwedInv
  <2> QED
    BY <2>2, <2>3
<1>8. BoundInv'
  <2>1. /\ PendingIDs(k)' = PendingIDs(k) \cup {id} /\ id \notin PendingIDs(k)
        /\ \A l \in Conns : l # k => PendingIDs(l)' = PendingIDs(l)
    BY <1>3, <1>4 DEF PendingIDs
  <2>2. /\ Cardinality(PendingIDs(k)') = Cardinality(PendingIDs(k)) + 1
        /\ Cardinality(PendingIDs(k)) \in Nat
    BY <2>1, PendingFinite, FS_AddElement
  <2>3. Cardinality(PendingIDs(k)) <= Limit + 1
    BY <1>0 DEF MapInv, BoundInv
  <2>4. /\ Cardinality(PendingIDs(k)') <= Limit + 2
        /\ writer'[k].pc # "stuck" => Cardinality(PendingIDs(k)') <= Limit + 1
    BY <1>5, <2>2, <2>3, LimitType DEF Stuck, Limit
  <2>5. \A l \in Conns : l # k =>
          /\ Cardinality(PendingIDs(l)') <= Limit + 2
          /\ writer'[l].pc \notin {"stuck", "done"} =>
                Cardinality(PendingIDs(l)') <= Limit + 1
    BY <1>5, <2>1 DEF MapInv, BoundInv
  <2> QED
    BY <2>4, <2>5 DEF BoundInv, Limit
<1> QED
  BY <1>6, <1>7, <1>8 DEF MapInv

\* The writer counts what it registered.
LEMMA WriterCountMap ==
    ASSUME TypeInv, MapInv, NEW k \in Conns, WriterCount(k)
    PROVE  MapInv'
<1>0. /\ writer \in [Conns -> Writer] /\ writer[k].pc \in {"count", "stuck"}
      /\ UNCHANGED <<client, handler, reader, pending>> /\ count' = count + 1
  BY ConnTypes DEF WriterCount, lifeVars
<1>1. /\ \A l \in Conns : l # k => writer'[l] = writer[l]
      /\ writer'[k].pc = IF writer[k].pc = "stuck" THEN "done" ELSE "encode"
  BY <1>0 DEF WriterCount, Writer
<1>2. CountInv'
  <2>1. Entries' = Entries /\ Overcounted' = Overcounted /\ Dropping' = Dropping
    BY <1>0 DEF Entries, Overcounted, Dropping
  <2>2. Uncounted' = Uncounted \ {k} /\ k \in Uncounted
    BY <1>0, <1>1 DEF Uncounted
  <2>3. /\ IsFiniteSet(Uncounted')
        /\ Cardinality(Uncounted') = Cardinality(Uncounted) - 1
    BY <2>2, FS_RemoveElement DEF MapInv, CountInv
  <2> QED
    BY <1>0, <2>1, <2>3, CountTypes DEF MapInv, CountInv
<1>3. IdleInv' /\ OwedInv'
  <2>1. Served(k) /\ handler[k].pc # "dropping"
    BY <1>0 DEF MapInv, IdleInv, OwedInv
  <2>2. IdleInv'
    BY <1>0, <1>1, <2>1 DEF MapInv, IdleInv, Served
  <2>3. OwedInv'
    BY <1>0, <1>1, <2>1 DEF MapInv, OwedInv
  <2> QED
    BY <2>2, <2>3
<1>4. BoundInv'
  BY <1>0, <1>1, BoundShrinks DEF MapInv
<1> QED
  BY <1>2, <1>3, <1>4 DEF MapInv

\* The other steps of clientWriter.
LEMMA WriterMap ==
    ASSUME TypeInv, MapInv, NEW k \in Conns, clientWriter(k)
    PROVE  MapInv'
<1>0. writer \in [Conns -> Writer]
  BY ConnTypes
<1>1. CASE WriterRegister(k) \/ WriterCount(k)
  BY <1>1, RegisterMap, WriterCountMap
<1>2. CASE ~(WriterRegister(k) \/ WriterCount(k))
  <2> USE DEF lifeVars, sharedVars
  <2>1. UNCHANGED <<client, count, handler, reader, pending>>
    BY <1>2 DEF clientWriter, WriterTake, WriterBlock, WriterStop,
       WriterFlush, WriterFlushFail, WriterCanceled, WriterSkip,
       WriterBuffer, WriterSend, WriterEncodeFail
  <2>2. /\ \A l \in Conns : l # k => writer'[l] = writer[l]
        /\ writer[k].pc \in {"select", "block", "got", "encode"}
    BY <1>0, <1>2 DEF clientWriter, WriterTake, WriterBlock, WriterStop,
       WriterFlush, WriterFlushFail, WriterCanceled, WriterSkip,
       WriterBuffer, WriterSend, WriterEncodeFail, TakeHead, Flushed
  <2>3. writer'[k].pc \in {"select", "block", "got", "encode", "done"}
    <3>1. CASE WriterTake(k) \/ WriterBlock(k) \/ WriterStop(k)
      BY <1>0, <3>1 DEF WriterTake, TakeHead, WriterBlock, WriterStop, Writer
    <3>2. CASE WriterFlush(k) \/ WriterFlushFail(k) \/ WriterCanceled(k)
      BY <1>0, <3>2
         DEF WriterFlush, Flushed, WriterFlushFail, WriterCanceled, Writer
    <3>3. CASE WriterSkip(k)
      BY <1>0, <3>3 DEF WriterSkip, Writer
    <3>4. CASE WriterBuffer(k) \/ WriterSend(k) \/ WriterEncodeFail(k)
      BY <1>0, <3>4 DEF WriterBuffer, WriterSend, WriterEncodeFail, Writer
    <3> QED
      BY <1>2, <3>1, <3>2, <3>3, <3>4 DEF clientWriter
  <2>4. Served(k) /\ handler[k].pc # "dropping"
    BY <2>2 DEF MapInv, IdleInv, OwedInv
  <2>5. IdleInv'
    BY <2>1, <2>2, <2>4 DEF MapInv, IdleInv, Served
  <2> QED
    BY <2>1, <2>2, <2>3, <2>4, <2>5, MapFrame
<1> QED
  BY <1>1, <1>2

\* A response is matched: its entry is gone, and is counted until the reader
\* comes to the counter.  It is not the entry the writer has yet to count.
LEMMA MatchMap ==
    ASSUME IInv, MapInv, NEW k \in Conns, ReaderMatch(k)
    PROVE  MapInv'
<1>0. /\ reader \in [Conns -> Reader] /\ wire \in [Conns -> SUBSET Message]
      /\ pending \in [Conns -> [IDs -> Objs \cup {NoObj}]]
      /\ TypeInv /\ MessageInv
  BY ConnTypes DEF IInv, OwnInv
<1>1. /\ UNCHANGED <<client, count, handler, writer>> /\ handler[k].pc = "serving"
      /\ reader[k].pc = "read"
  BY DEF ReaderMatch, sharedVars, lifeVars, ConnOpen
<1>2. PICK w \in wire[k], e \in {"nil", "server"} : ReaderMatch(k)!3!(w, e)
  BY DEF ReaderMatch
<1>3. w \in Message /\ w.id \in IDs /\ w.call \in Payload
  <2>1. w \in Message
    BY <1>0
  <2> QED
    BY <2>1 DEF Message
<1>4. /\ pending'[k][w.id] = NoObj
      /\ \A i \in IDs : i # w.id => pending'[k][i] = pending[k][i]
      /\ \A l \in Conns : l # k => pending'[l] = pending[l]
  BY <1>0, <1>2, <1>3 DEF Deleted
<1>5. /\ \A l \in Conns : l # k => reader'[l] = reader[l]
      /\ reader'[k].pc = "match"
  BY <1>0, <1>2
<1>6. CountInv'
  <2>1. Entries' = Entries \ {<<k, w.id>>} /\ <<k, w.id>> \in Entries
    BY <1>2, <1>3, <1>4 DEF Entries
  <2>2. Overcounted' = Overcounted \cup {k} /\ k \notin Overcounted
    BY <1>1, <1>5 DEF Overcounted
  <2>3. Uncounted' = Uncounted /\ Dropping' = Dropping
    BY <1>1 DEF Uncounted, Dropping
  <2>4. /\ IsFiniteSet(Entries') /\ Cardinality(Entries') = Cardinality(Entries) - 1
        /\ IsFiniteSet(Overcounted')
        /\ Cardinality(Overcounted') = Cardinality(Overcounted) + 1
    BY <2>1, <2>2, FS_AddElement, FS_RemoveElement DEF MapInv, CountInv
  <2> QED
    BY <1>0, <1>1, <2>3, <2>4, CountTypes DEF MapInv, CountInv
<1>7. IdleInv'
  BY <1>1, <1>4, <1>5 DEF MapInv, IdleInv, Served
<1>8. OwedInv'
  <2>1. ASSUME writer[k].pc \in {"count", "stuck"}
        PROVE  writer[k].wr.id # w.id
    <3>1. SUFFICES ASSUME writer[k].wr.id = w.id PROVE FALSE
      OBVIOUS
    <3>2. writer[k].wr.id # 0 /\ writer[k].wr \in Message
      BY <1>0, <1>2, <3>1, MessageTypes
    <3>3. /\ Registered(k, writer[k].wr) /\ writer[k].wr \notin wire[k]
          /\ Registered(k, w)
      BY <1>0, <1>1, <2>1, <3>2 DEF MessageInv, Ended
    <3>4. writer[k].wr.call = w.call
      BY <1>2, <3>1, <3>2, <3>3 DEF Registered
    <3>5. writer[k].wr = w
      BY <1>3, <3>1, <3>2, <3>4 DEF Message
    <3> QED
      BY <3>3, <3>5
  <2>2. writer[k].wr.id \in IDs
    BY <1>0, MessageTypes DEF Message
  <2> QED
    BY <1>1, <1>4, <2>1, <2>2 DEF MapInv, OwedInv
<1>9. BoundInv'
  BY <1>1, <1>3, <1>4, BoundShrinks DEF MapInv
<1> QED
  BY <1>6, <1>7, <1>8, <1>9 DEF MapInv

\* The steps of clientReader.
LEMMA ReaderMap ==
    ASSUME IInv, MapInv, NEW k \in Conns, clientReader(k)
    PROVE  MapInv'
<1>0. reader \in [Conns -> Reader] /\ TypeInv
  BY ConnTypes DEF IInv, OwnInv
<1>1. UNCHANGED <<client, handler, writer>>
  BY DEF clientReader, ReaderMatch, ReaderCount, ReaderComplete, ReaderFail,
         lifeVars, sharedVars
<1>2. /\ \A l \in Conns : l # k => reader'[l] = reader[l]
      /\ reader[k].pc \in {"read", "match", "got"}
  BY <1>0 DEF clientReader, ReaderMatch, ReaderCount, ReaderComplete, ReaderFail
<1>3. Served(k)
  BY <1>2 DEF MapInv, IdleInv
<1>4. CASE ReaderMatch(k)
  BY <1>4, MatchMap
<1>5. CASE ReaderCount(k)
  <2>1. /\ UNCHANGED pending /\ count' = count - 1
        /\ reader[k].pc = "match" /\ reader'[k].pc = "got"
    BY <1>0, <1>5 DEF ReaderCount, Reader
  <2>2. CountInv'
    <3>1. Entries' = Entries /\ Uncounted' = Uncounted /\ Dropping' = Dropping
      BY <1>1, <2>1 DEF Entries, Uncounted, Dropping
    <3>2. Overcounted' = Overcounted \ {k} /\ k \in Overcounted
      BY <1>2, <2>1 DEF Overcounted
    <3>3. /\ IsFiniteSet(Overcounted')
          /\ Cardinality(Overcounted') = Cardinality(Overcounted) - 1
      BY <3>2, FS_RemoveElement DEF MapInv, CountInv
    <3>4. /\ CountInv /\ count \in Int
          /\ Cardinality(Entries) \in Nat /\ Cardinality(Uncounted) \in Nat
          /\ Cardinality(Overcounted) \in Nat /\ Cardinality(Dropping) \in Nat
      BY <1>0, CountTypes DEF MapInv
    <3> QED
      BY <2>1, <3>1, <3>3, <3>4 DEF CountInv
  <2>3. IdleInv' /\ OwedInv'
    BY <1>1, <1>2, <1>3, <2>1 DEF MapInv, IdleInv, OwedInv, Served
  <2>4. BoundInv'
    BY <1>1, <2>1, BoundShrinks DEF MapInv
  <2> QED
    BY <2>2, <2>3, <2>4 DEF MapInv
<1>6. CASE ReaderComplete(k) \/ ReaderFail(k)
  <2>1. UNCHANGED <<count, pending>>
    BY <1>6 DEF ReaderComplete, ReaderFail, sharedVars
  <2>2. IdleInv'
    BY <1>1, <1>2, <1>3, <2>1 DEF MapInv, IdleInv, Served
  <2>3. reader[k].pc # "match" /\ reader'[k].pc # "match"
    BY <1>0, <1>6 DEF ReaderComplete, ReaderFail, Reader, NewReader
  <2> QED
    BY <1>0, <1>1, <1>2, <2>1, <2>2, <2>3, MapFrame
<1> QED
  BY <1>4, <1>5, <1>6 DEF clientReader

\* The final loop of a connection: an entry is counted off, and then gone.
LEMMA DropMap ==
    ASSUME TypeInv, MapInv, NEW k \in Conns, HandlerCount(k) \/ HandlerDrop(k)
    PROVE  MapInv'
<1>0. /\ handler \in [Conns -> Handler]
      /\ pending \in [Conns -> [IDs -> Objs \cup {NoObj}]]
  BY ConnTypes
<1>1. /\ UNCHANGED <<client, writer, reader>> /\ writer[k].pc = "done"
      /\ handler[k].pc \in {"closing", "dropping"}
  BY DEF HandlerCount, HandlerDrop, lifeVars
<1>2. CASE HandlerCount(k)
  <2>1. /\ handler[k].pc = "closing" /\ handler'[k].pc = "dropping"
        /\ \A l \in Conns : l # k => handler'[l] = handler[l]
        /\ count' = count - 1 /\ UNCHANGED pending
    BY <1>0, <1>2 DEF HandlerCount, Handler
  <2>2. CountInv'
    <3>1. /\ Entries' = Entries /\ Uncounted' = Uncounted
          /\ Overcounted' = Overcounted
      BY <1>1, <2>1 DEF Entries, Uncounted, Overcounted
    <3>2. Dropping' = Dropping \cup {k} /\ k \notin Dropping
      BY <2>1 DEF Dropping
    <3>3. /\ IsFiniteSet(Dropping')
          /\ Cardinality(Dropping') = Cardinality(Dropping) + 1
      BY <3>2, FS_AddElement DEF MapInv, CountInv
    <3> QED
      BY <2>1, <3>1, <3>3, CountTypes DEF MapInv, CountInv
  <2>3. IdleInv'
    BY <1>1, <2>1 DEF MapInv, IdleInv, Served
  <2>4. OwedInv'
    <3>1. \E id \in IDs : pending[k][id] # NoObj
      BY <1>2 DEF HandlerCount, Left, PendingIDs
    <3> QED
      BY <1>1, <2>1, <3>1 DEF MapInv, OwedInv
  <2>5. BoundInv'
    BY <1>1, <2>1, BoundShrinks DEF MapInv
  <2> QED
    BY <2>2, <2>3, <2>4, <2>5 DEF MapInv
<1>3. CASE HandlerDrop(k)
  <2>1. PICK id \in IDs : pending[k][id] # NoObj /\ pending' = Deleted(k, id)
    BY <1>3 DEF HandlerDrop, Left, PendingIDs
  <2>2. /\ handler[k].pc = "dropping" /\ handler'[k].pc = "closing"
        /\ \A l \in Conns : l # k => handler'[l] = handler[l]
        /\ UNCHANGED count
    BY <1>0, <1>3 DEF HandlerDrop, Handler
  <2>3. /\ pending'[k][id] = NoObj
        /\ \A i \in IDs : i # id => pending'[k][i] = pending[k][i]
        /\ \A l \in Conns : l # k => pending'[l] = pending[l]
    BY <1>0, <2>1 DEF Deleted
  <2>4. CountInv'
    <3>1. Uncounted' = Uncounted /\ Overcounted' = Overcounted
      BY <1>1 DEF Uncounted, Overcounted
    <3>2. Dropping' = Dropping \ {k} /\ k \in Dropping
      BY <2>2 DEF Dropping
    <3>3. Entries' = Entries \ {<<k, id>>} /\ <<k, id>> \in Entries
      BY <2>1, <2>3 DEF Entries
    <3>4. /\ IsFiniteSet(Entries') /\ Cardinality(Entries') = Cardinality(Entries) - 1
          /\ IsFiniteSet(Dropping')
          /\ Cardinality(Dropping') = Cardinality(Dropping) - 1
      BY <3>2, <3>3, FS_RemoveElement DEF MapInv, CountInv
    <3> QED
      BY <2>2, <3>1, <3>4, CountTypes DEF MapInv, CountInv
  <2>5. IdleInv'
    BY <1>1, <2>2, <2>3 DEF MapInv, IdleInv, Served
  <2>6. OwedInv'
    BY <1>1, <2>2, <2>3 DEF MapInv, OwedInv
  <2>7. BoundInv'
    BY <1>1, <2>3, BoundShrinks DEF MapInv
  <2> QED
    BY <2>4, <2>5, <2>6, <2>7 DEF MapInv
<1> QED
  BY <1>2, <1>3

\* clientHandler connects with an empty map and ends with one.
LEMMA HandlerMap ==
    ASSUME TypeInv, MapInv, NEW k \in Conns, clientHandler(k)
    PROVE  MapInv'
<1> USE DEF sharedVars, lifeVars
<1>0. /\ handler \in [Conns -> Handler] /\ writer \in [Conns -> Writer]
      /\ reader \in [Conns -> Reader]
      /\ pending \in [Conns -> [IDs -> Objs \cup {NoObj}]]
  BY ConnTypes
<1>1. CASE HandlerCount(k) \/ HandlerDrop(k)
  BY <1>1, DropMap
<1>2. CASE HandlerTeardown(k)
  <2>1. /\ UNCHANGED <<client, count>> /\ handler[k].pc = "closing"
        /\ writer[k].pc = "done" /\ reader[k].pc = "done"
        /\ writer'[k].pc = "off" /\ reader'[k].pc = "off"
        /\ handler'[k].pc \in {"stopped", "dial"}
        /\ \A l \in Conns : l # k => /\ handler'[l] = handler[l]
                                     /\ writer'[l] = writer[l]
                                     /\ reader'[l] = reader[l]
    BY <1>0, <1>2 DEF HandlerTeardown, NewWriter, NewReader
  <2>2. /\ \A id \in IDs : pending[k][id] = NoObj /\ pending'[k][id] = NoObj
        /\ \A l \in Conns : l # k => pending'[l] = pending[l]
    BY <1>0, <1>2 DEF HandlerTeardown, NonePending, Left, PendingIDs
  <2>3. CountInv'
    <3>1. Entries' = Entries
      BY <2>2 DEF Entries
    <3>2. /\ Uncounted' = Uncounted /\ Overcounted' = Overcounted
          /\ Dropping' = Dropping
      BY <2>1 DEF Uncounted, Overcounted, Dropping
    <3> QED
      BY <2>1, <3>1, <3>2 DEF MapInv, CountInv
  <2>4. IdleInv'
    BY <2>1, <2>2 DEF MapInv, IdleInv, Served
  <2>5. OwedInv'
    BY <2>1, <2>2 DEF MapInv, OwedInv
  <2>6. BoundInv'
    BY <2>1, <2>2, BoundShrinks DEF MapInv
  <2> QED
    BY <2>3, <2>4, <2>5, <2>6 DEF MapInv
<1>3. CASE ~(HandlerCount(k) \/ HandlerDrop(k) \/ HandlerTeardown(k))
  <2>1. /\ UNCHANGED <<client, count, pending>>
        /\ handler[k].pc \in {"dial", "backoff", "serving"}
    BY <1>3 DEF clientHandler, HandlerConnect, HandlerDialFail,
       HandlerSetupFail, HandlerRedial, HandlerStop, HandlerClose
  <2>2. \A l \in Conns : l # k => /\ handler'[l] = handler[l]
                                  /\ writer'[l] = writer[l]
                                  /\ reader'[l] = reader[l]
    BY <1>0, <1>3 DEF clientHandler, HandlerConnect, HandlerDialFail,
       HandlerSetupFail, HandlerRedial, HandlerStop, HandlerClose
  <2>3. client # "stopped"
    BY <2>1 DEF MapInv, IdleInv
  <2>4. CASE HandlerConnect(k)
    <3>1. /\ handler'[k].pc = "serving" /\ handler[k].pc = "dial"
          /\ writer'[k].pc = "select" /\ reader'[k].pc = "read"
      BY <1>0, <2>4 DEF HandlerConnect, NewWriter, NewReader
    <3>2. writer[k].pc = "off" /\ reader[k].pc = "off"
      BY <3>1 DEF MapInv, IdleInv, Served
    <3>3. IdleInv'
      BY <2>1, <2>2, <2>3, <3>1 DEF MapInv, IdleInv, Served
    <3> QED
      BY <2>1, <2>2, <3>1, <3>2, <3>3, MapFrame
  <2>5. CASE ~HandlerConnect(k)
    <3>1. UNCHANGED <<writer, reader>>
      BY <1>3, <2>5 DEF clientHandler, HandlerDialFail,
         HandlerSetupFail, HandlerRedial, HandlerStop, HandlerClose
    <3>2. CASE HandlerClose(k)
      <4>1. handler'[k].pc = "closing" /\ handler[k].pc = "serving"
        BY <1>0, <3>2 DEF HandlerClose
      <4>2. IdleInv'
        BY <2>1, <2>2, <2>3, <3>1, <4>1 DEF MapInv, IdleInv, Served
      <4> QED
        BY <2>1, <2>2, <3>1, <4>1, <4>2, MapFrame
    <3>3. CASE ~HandlerClose(k)
      <4>1. /\ handler'[k].pc \in {"dial", "backoff", "stopped"}
            /\ handler[k].pc \in {"dial", "backoff"}
        BY <1>0, <1>3, <2>5, <3>3 DEF clientHandler, HandlerDialFail,
           HandlerSetupFail, HandlerRedial, HandlerStop, Handler
      <4>2. IdleInv'
        BY <2>1, <2>2, <2>3, <3>1, <4>1 DEF MapInv, IdleInv, Served
      <4> QED
        BY <2>1, <2>2, <3>1, <4>1, <4>2, MapFrame
    <3> QED
      BY <3>2, <3>3
  <2> QED
    BY <2>4, <2>5
<1> QED
  BY <1>1, <1>2, <1>3

\* The invariant of the pending maps, over reconnects, stops and restarts.
LEMMA MapInductive == Spec => [](TypeInv /\ MapInv)
<1>1. Init => MapInv
  <2> SUFFICES ASSUME Init PROVE MapInv
    OBVIOUS
  <2>1. /\ \A k \in Conns : /\ writer[k].pc = "off" /\ reader[k].pc = "off"
                            /\ handler[k].pc = "dial"
                            /\ \A id \in IDs : pending[k][id] = NoObj
        /\ client = "running" /\ count = 0
    BY DEF Init, NewWriter, NewReader, NonePending
  <2>2. /\ Entries = {} /\ \A k \in Conns : PendingIDs(k) = {}
        /\ Uncounted = {} /\ Overcounted = {} /\ Dropping = {}
    BY <2>1 DEF Entries, PendingIDs, Uncounted, Overcounted, Dropping
  <2>3. CountInv
    BY <2>1, <2>2, FS_EmptySet DEF CountInv
  <2>4. IdleInv /\ OwedInv
    BY <2>1 DEF IdleInv, OwedInv
  <2>5. BoundInv
    BY <2>2, FS_EmptySet, LimitType DEF BoundInv
  <2> QED
    BY <2>3, <2>4, <2>5 DEF MapInv
<1>2. IInv /\ MapInv /\ [Next]_vars => MapInv'
  <2> SUFFICES ASSUME IInv, MapInv, [Next]_vars PROVE MapInv'
    OBVIOUS
  <2>0. TypeInv
    BY DEF IInv, OwnInv
  <2>1. CASE UNCHANGED vars
    <3>1. IdleInv'
      BY <2>1 DEF vars, MapInv, IdleInv, Served
    <3> QED
      BY <2>0, <2>1, <3>1, MapFrame DEF vars
  <2> QED
    BY <2>0, <2>1, CallerMap, WriterMap, ReaderMap, HandlerMap DEF Next
<1>3. IInv => TypeInv
  BY DEF IInv, OwnInv
<1> QED
  BY <1>1, <1>2, <1>3, Inductive, PTL DEF Spec

\* Every connection that owes the counter something has an entry of its own.
LEMMA CountNatural ==
    ASSUME TypeInv, MapInv
    PROVE  count >= 0
<1>0. /\ count \in Int
      /\ Cardinality(Entries) \in Nat /\ Cardinality(Uncounted) \in Nat
      /\ Cardinality(Overcounted) \in Nat /\ Cardinality(Dropping) \in Nat
  BY CountTypes DEF MapInv
<1>1. Uncounted \cap Dropping = {}
  BY DEF MapInv, OwedInv, Uncounted, Dropping
<1> DEFINE Owing == Uncounted \cup Dropping
           First == [x \in {y \in Entries : y[1] \in Owing} |-> x[1]]
<1>2. /\ IsFiniteSet(Owing)
      /\ Cardinality(Owing) = Cardinality(Uncounted) + Cardinality(Dropping)
  <2>1. Cardinality(Uncounted \cap Dropping) = 0
    BY <1>1, FS_EmptySet
  <2>2. IsFiniteSet(Uncounted) /\ IsFiniteSet(Dropping)
    BY DEF MapInv, CountInv
  <2>3. /\ IsFiniteSet(Owing)
        /\ Cardinality(Owing) = Cardinality(Uncounted) + Cardinality(Dropping)
                                - Cardinality(Uncounted \cap Dropping)
    BY <2>2, FS_Union
  <2> QED
    BY <1>0, <2>1, <2>3
<1>3. \A k \in Owing : \E id \in IDs : <<k, id>> \in Entries
  <2>1. \A k \in Conns : writer[k].wr.id \in IDs
    BY MessageTypes DEF Message
  <2> QED
    BY <2>1 DEF MapInv, OwedInv, Uncounted, Dropping, Entries
<1>4. First \in Surjection({y \in Entries : y[1] \in Owing}, Owing)
  <2>1. First \in [{y \in Entries : y[1] \in Owing} -> Owing]
    OBVIOUS
  <2>2. ASSUME NEW k \in Owing
        PROVE  \E x \in {y \in Entries : y[1] \in Owing} : First[x] = k
    <3>1. PICK id \in IDs : <<k, id>> \in Entries
      BY <1>3
    <3>2. <<k, id>>[1] = k
      OBVIOUS
    <3> HIDE DEF Owing
    <3>3. <<k, id>> \in {y \in Entries : y[1] \in Owing}
      BY <3>1, <3>2
    <3>4. First[<<k, id>>] = k
      BY <3>3, <3>2
    <3> QED
      BY <3>3, <3>4
  <2> QED
    BY <2>1, <2>2 DEF Surjection
<1>5. /\ IsFiniteSet({y \in Entries : y[1] \in Owing})
      /\ Cardinality({y \in Entries : y[1] \in Owing}) <= Cardinality(Entries)
      /\ Cardinality({y \in Entries : y[1] \in Owing}) \in Nat
  BY FS_Subset, FS_CardinalityType DEF MapInv, CountInv
<1>6. Cardinality(Owing) <= Cardinality({y \in Entries : y[1] \in Owing})
  BY <1>4, <1>5, FS_Surjection
<1> QED
  BY <1>0, <1>2, <1>5, <1>6 DEF MapInv, CountInv

\* CountExact: PendingRequestsCount differs from the number of requests in the
\* pending maps by exactly the goroutines between a map and the counter, for
\* any number of connections, and is never below zero.
THEOREM CountCorrect == Spec => []CountExact
<1>1. TypeInv /\ MapInv => CountExact
  BY CountNatural DEF MapInv, CountInv, CountExact
<1> QED
  BY <1>1, MapInductive, PTL

\* PendingBounded: a server that answers nothing makes the client keep at
\* most two requests more than PendingFactor queues of them.
THEOREM PendingLimited == Spec => []PendingBounded
<1>1. TypeInv /\ MapInv => PendingBounded
  BY DEF MapInv, BoundInv, PendingBounded, Limit
<1> QED
  BY <1>1, MapInductive, PTL

-----------------------------------------------------------------------------
(* Where a request is.  MessageInv knows a message by its ID, which a        *)
(* request without response does not have; here it is known by its call.     *)

\* o is in the queue or in the hands of a writer.
Held(o) == \/ \E i \in 1 .. Len(requestsChan) : requestsChan[i] = o
           \/ \E k \in Conns : writer[k].m = o
\* w is being encoded or waits in the buffer of an encoder that works.
InEncoder(k, w) == writer[k].pc # "done" /\ w \in Outgoing(k)

\* A call has one object, from its first step on.
OneObject == \A o, p \in Objs : heap[o].req \in Calls =>
    pc[heap[o].req] # "idle" /\ (heap[o].req = heap[p].req => o = p)

\* A request that became a message is not held as an object any more.
Encoded == \A k \in Conns, w \in Message :
    ((InEncoder(k, w) \/ w \in wire[k]) /\ w.call \in Calls) =>
        /\ pc[w.call] \in {"waiting", "returned"}
        /\ \A o \in Objs : Held(o) => heap[o].req # w.call

\* It is one message, in one encoder or on one wire.
OneMessage == \A k, l \in Conns, v, w \in Message :
    (v.call = w.call /\ v.call \in Calls) =>
        /\ (InEncoder(k, v) /\ InEncoder(l, w)) => (k = l /\ v = w)
        /\ (v \in wire[k] /\ w \in wire[l]) => (k = l /\ v = w)
        /\ ~(InEncoder(k, v) /\ w \in wire[l])

\* Between two requests the writer has no message in hand.
HandsFree == \A k \in Conns :
    writer[k].pc \notin {"count", "stuck", "encode", "done"} =>
        writer[k].wr = NoMessage

PlaceInv == OneObject /\ Encoded /\ OneMessage /\ HandsFree

\* The request of c is on its way inside the client, or at the server.
Carried(c) == \/ \E o \in Objs : Held(o) /\ heap[o].req = c
              \/ \E k \in Conns, w \in Message : InEncoder(k, w) /\ w.call = c
OnWire(c) == \E k \in Conns, w \in Message : w \in wire[k] /\ w.call = c

\* Requests travel in one direction.
Forward == \A c \in Calls : /\ Carried(c)' => Carried(c)
                            /\ OnWire(c)' => OnWire(c) \/ Carried(c)

\* A call that started does not start again, an accepted one stays accepted.
PcForward == PcKept /\ \A c \in Calls : pc'[c] = "idle" => pc[c] = "idle"

\* A step that sends messages from an encoder, loses some, or drops objects.
LEMMA PlaceFrame ==
    ASSUME PlaceInv, PcForward, HandsFree',
           \A o \in Objs : heap'[o].req \in {heap[o].req, NoCall},
           \A o \in Objs : Held(o)' => Held(o),
           \A l \in Conns, w \in Message : w.call \in Calls =>
              /\ InEncoder(l, w)' => InEncoder(l, w)
              /\ w \in wire'[l] => \/ w \in wire[l]
                                   \/ InEncoder(l, w) /\ ~InEncoder(l, w)'
    PROVE  PlaceInv' /\ Forward
<1>1. OneObject'
  BY ClientAssumption DEF PlaceInv, OneObject, PcForward
<1>2. Encoded'
  <2> SUFFICES ASSUME NEW l \in Conns, NEW w \in Message, w.call \in Calls,
                      InEncoder(l, w)' \/ w \in wire'[l]
               PROVE  /\ pc'[w.call] \in {"waiting", "returned"}
                      /\ \A o \in Objs : Held(o)' => heap'[o].req # w.call
    BY DEF Encoded
  <2>1. InEncoder(l, w) \/ w \in wire[l]
    OBVIOUS
  <2> QED
    BY <2>1, ClientAssumption DEF PlaceInv, Encoded, PcForward, PcKept
<1>3. OneMessage'
  <2> SUFFICES ASSUME NEW k \in Conns, NEW l \in Conns, NEW v \in Message,
                      NEW w \in Message, v.call = w.call, v.call \in Calls
               PROVE  /\ (InEncoder(k, v)' /\ InEncoder(l, w)') => (k = l /\ v = w)
                      /\ (v \in wire'[k] /\ w \in wire'[l]) => (k = l /\ v = w)
                      /\ ~(InEncoder(k, v)' /\ w \in wire'[l])
    BY DEF OneMessage
  <2>1. /\ (InEncoder(k, v) /\ InEncoder(l, w)) => (k = l /\ v = w)
        /\ (v \in wire[k] /\ w \in wire[l]) => (k = l /\ v = w)
        /\ ~(InEncoder(k, v) /\ w \in wire[l])
        /\ ~(InEncoder(l, w) /\ v \in wire[k])
    BY DEF PlaceInv, OneMessage
  <2>2. /\ InEncoder(k, v)' => InEncoder(k, v)
        /\ InEncoder(l, w)' => InEncoder(l, w)
        /\ v \in wire'[k] => \/ v \in wire[k]
                             \/ InEncoder(k, v) /\ ~InEncoder(k, v)'
        /\ w \in wire'[l] => \/ w \in wire[l]
                             \/ InEncoder(l, w) /\ ~InEncoder(l, w)'
    OBVIOUS
  <2> QED
    BY <2>1, <2>2
<1>4. Forward
  BY ClientAssumption DEF Forward, Carried, OnWire
<1> QED
  BY <1>1, <1>2, <1>3, <1>4 DEF PlaceInv

\* A step that puts the object of a call that was not accepted yet into the
\* queue, or just gives it to the call.
LEMMA PlaceEnter ==
    ASSUME PlaceInv, NEW c \in Calls, NEW o \in Objs,
           pc[c] \notin {"waiting", "returned"}, pc'[c] # "idle",
           \A d \in Calls : d # c => pc'[d] = pc[d],
           heap'[o].req = c, pc[c] = "idle" \/ heap[o].req = c,
           \A p \in Objs : p # o => heap'[p] = heap[p],
           \A p \in Objs : Held(p)' => Held(p) \/ p = o,
           UNCHANGED <<writer, wire>>
    PROVE  PlaceInv'
<1>1. OneObject'
  BY DEF PlaceInv, OneObject
<1>2. \A l \in Conns, w \in Message : /\ InEncoder(l, w)' = InEncoder(l, w)
                                      /\ wire'[l] = wire[l]
  BY DEF InEncoder, Outgoing
<1>3. OneMessage' /\ HandsFree'
  BY <1>2 DEF PlaceInv, OneMessage, HandsFree
<1>4. Encoded'
  <2> SUFFICES ASSUME NEW l \in Conns, NEW w \in Message, w.call \in Calls,
                      InEncoder(l, w)' \/ w \in wire'[l]
               PROVE  /\ pc'[w.call] \in {"waiting", "returned"}
                      /\ \A p \in Objs : Held(p)' => heap'[p].req # w.call
    BY DEF Encoded
  <2>1. InEncoder(l, w) \/ w \in wire[l]
    BY <1>2
  <2>2. /\ pc[w.call] \in {"waiting", "returned"}
        /\ \A p \in Objs : Held(p) => heap[p].req # w.call
    BY <2>1 DEF PlaceInv, Encoded
  <2> QED
    BY <2>2
<1> QED
  BY <1>1, <1>3, <1>4 DEF PlaceInv

\* A step in which the writer of k turns the request it holds into a message.
LEMMA PlaceEncode ==
    ASSUME PlaceInv, NEW k \in Conns, NEW o \in Objs, NEW m \in Message,
           Held(o), heap[o].req = m.call, m.call \in Calls,
           pc[m.call] \in {"waiting", "returned"},
           UNCHANGED <<pc, wire>>, HandsFree',
           \A p \in Objs : heap'[p].req \in {heap[p].req, NoCall},
           \A p \in Objs : Held(p)' => Held(p) /\ p # o,
           \A l \in Conns, w \in Message : w.call \in Calls =>
              (InEncoder(l, w)' => InEncoder(l, w) \/ (l = k /\ w = m))
    PROVE  PlaceInv' /\ Forward
<1>1. OneObject'
  BY ClientAssumption DEF PlaceInv, OneObject
<1>2. \A l \in Conns, w \in Message :
        w.call = m.call => ~InEncoder(l, w) /\ w \notin wire[l]
  BY DEF PlaceInv, Encoded
<1>3. Encoded'
  <2> SUFFICES ASSUME NEW l \in Conns, NEW w \in Message, w.call \in Calls,
                      InEncoder(l, w)' \/ w \in wire'[l]
               PROVE  /\ pc'[w.call] \in {"waiting", "returned"}
                      /\ \A p \in Objs : Held(p)' => heap'[p].req # w.call
    BY DEF Encoded
  <2>1. CASE w = m
    BY <2>1, ClientAssumption DEF PlaceInv, OneObject
  <2>2. CASE w # m
    <3>1. InEncoder(l, w) \/ w \in wire[l]
      BY <2>2
    <3> QED
      BY <3>1, ClientAssumption DEF PlaceInv, Encoded
  <2> QED
    BY <2>1, <2>2
<1>4. OneMessage'
  <2> SUFFICES ASSUME NEW i \in Conns, NEW l \in Conns, NEW v \in Message,
                      NEW w \in Message, v.call = w.call, v.call \in Calls
               PROVE  /\ (InEncoder(i, v)' /\ InEncoder(l, w)') => (i = l /\ v = w)
                      /\ (v \in wire'[i] /\ w \in wire'[l]) => (i = l /\ v = w)
                      /\ ~(InEncoder(i, v)' /\ w \in wire'[l])
    BY DEF OneMessage
  <2>1. /\ (InEncoder(i, v) /\ InEncoder(l, w)) => (i = l /\ v = w)
        /\ (v \in wire[i] /\ w \in wire[l]) => (i = l /\ v = w)
        /\ ~(InEncoder(i, v) /\ w \in wire[l])
    BY DEF PlaceInv, OneMessage
  <2>2. /\ InEncoder(i, v)' => InEncoder(i, v) \/ (i = k /\ v = m)
        /\ InEncoder(l, w)' => InEncoder(l, w) \/ (l = k /\ w = m)
    OBVIOUS
  <2> QED
    BY <1>2, <2>1, <2>2
<1>5. Forward
  BY ClientAssumption DEF Forward, Carried, OnWire
<1> QED
  BY <1>1, <1>3, <1>4, <1>5 DEF PlaceInv

\* What the ends of the queue do to the objects held.
LEMMA QueueHeld ==
    ASSUME TypeInv
    PROVE  /\ \A p, o \in Objs :
                requestsChan' = Append(requestsChan, o) /\ UNCHANGED writer =>
                    (Held(p)' => Held(p) \/ p = o)
           /\ \A p \in Objs :
                /\ requestsChan # <<>> /\ requestsChan' = Tail(requestsChan)
                /\ UNCHANGED writer
                => (Held(p)' => Held(p))
<1>0. requestsChan \in Seq(Objs)
  BY CallTypes
<1>1. ASSUME NEW p \in Objs, NEW o \in Objs,
             requestsChan' = Append(requestsChan, o), UNCHANGED writer, Held(p)'
      PROVE  Held(p) \/ p = o
  <2>1. /\ Len(requestsChan') = Len(requestsChan) + 1
        /\ \A i \in 1 .. Len(requestsChan) : requestsChan'[i] = requestsChan[i]
        /\ requestsChan'[Len(requestsChan) + 1] = o
        /\ Len(requestsChan) \in Nat
    BY <1>0, <1>1
  <2> QED
    BY <1>1, <2>1 DEF Held
<1>2. ASSUME NEW p \in Objs, requestsChan # <<>>,
             requestsChan' = Tail(requestsChan), UNCHANGED writer, Held(p)'
      PROVE  Held(p)
  <2>1. /\ Len(requestsChan') = Len(requestsChan) - 1
        /\ \A i \in 1 .. Len(requestsChan') : requestsChan'[i] = requestsChan[i + 1]
        /\ Len(requestsChan) \in Nat
    BY <1>0, <1>2
  <2> QED
    BY <1>2, <2>1 DEF Held
<1> QED
  BY <1>1, <1>2

\* Dropping an object gives its request to nobody else.
LEMMA DiscardReq ==
    ASSUME heap \in [Objs -> AsyncResult], NEW o \in Objs,
           NEW e, Discard(o, e)
    PROVE  \A p \in Objs : heap'[p].req \in {heap[p].req, NoCall}
<1>1. /\ \A p \in Objs : p # o => heap'[p] = heap[p]
      /\ heap'[o] \in {Completed(heap[o], e), Released(heap[o])}
  BY DEF Discard
<1>2. heap[o] \in AsyncResult
  OBVIOUS
<1>3. heap'[o].req \in {heap[o].req, NoCall}
  BY <1>1, <1>2 DEF Completed, Released, AsyncResult
<1> QED
  BY <1>1, <1>3

\* A step of a caller that queues nothing.
LEMMA CallPlaceFrame ==
    ASSUME PlaceInv, PcForward, UNCHANGED connVars,
           \A o \in Objs : heap'[o].req \in {heap[o].req, NoCall},
           \A o \in Objs : Held(o)' => Held(o)
    PROVE  PlaceInv' /\ Forward
<1>1. UNCHANGED <<writer, wire>>
  BY DEF connVars
<1>2. \A l \in Conns, w \in Message : InEncoder(l, w)' = InEncoder(l, w)
  BY <1>1 DEF InEncoder, Outgoing
<1>3. HandsFree'
  BY <1>1 DEF PlaceInv, HandsFree
<1> QED
  BY <1>1, <1>2, <1>3, PlaceFrame

\* The entries of callAsync.
LEMMA EnterPlace ==
    ASSUME IInv, PlaceInv, NEW c \in Calls,
           callAsync(c) \/ callAsyncSkipOverflow(c) \/ callAsyncFull(c)
    PROVE  PlaceInv'
<1>0. /\ heap \in [Objs -> AsyncResult] /\ pool \subseteq Objs /\ fresh \subseteq Objs
      /\ pc \in [Calls -> {"idle", "evict", "again", "waiting", "returned"}]
      /\ TypeInv
  BY CallTypes DEF IInv, OwnInv
<1>1. UNCHANGED connVars /\ pc[c] = "idle"
  BY DEF callAsync, callAsyncSkipOverflow, callAsyncFull
<1>2. CASE callAsync(c)
  <2>1. PICK o \in Objs : /\ heap' = [heap EXCEPT ![o] = Filled(@, c)]
                          /\ requestsChan' = Append(requestsChan, o)
                          /\ Enqueued(c, o)
    BY <1>0, <1>2 DEF callAsync, Acquirable
  <2>2. /\ \A p \in Objs : p # o => heap'[p] = heap[p]
        /\ heap'[o].req = c
    BY <1>0, <2>1 DEF Filled, AsyncResult
  <2>3. /\ pc'[c] # "idle"
        /\ \A d \in Calls : d # c => pc'[d] = pc[d]
    BY <1>0, <2>1 DEF Enqueued, Return
  <2>4. \A p \in Objs : Held(p)' => Held(p) \/ p = o
    BY <1>0, <1>1, <2>1, QueueHeld DEF connVars
  <2> QED
    BY <1>1, <2>2, <2>3, <2>4, PlaceEnter DEF connVars
<1>3. CASE callAsyncFull(c)
  <2>1. PICK o \in Objs : heap' = [heap EXCEPT ![o] = Filled(@, c)]
    BY <1>0, <1>3 DEF callAsyncFull, Acquirable
  <2>2. /\ \A p \in Objs : p # o => heap'[p] = heap[p]
        /\ heap'[o].req = c
    BY <1>0, <2>1 DEF Filled, AsyncResult
  <2>3. /\ pc'[c] # "idle" /\ requestsChan' = requestsChan
        /\ \A d \in Calls : d # c => pc'[d] = pc[d]
    BY <1>0, <1>3 DEF callAsyncFull
  <2>4. \A p \in Objs : Held(p)' => Held(p) \/ p = o
    BY <1>1, <2>3 DEF Held, connVars
  <2> QED
    BY <1>1, <2>2, <2>3, <2>4, PlaceEnter DEF connVars
<1>4. CASE callAsyncSkipOverflow(c)
  <2>1. PICK o \in Objs : heap' = [heap EXCEPT ![o] = Released(Filled(@, c))]
    BY <1>0, <1>4 DEF callAsyncSkipOverflow, Acquirable
  <2>2. \A p \in Objs : heap'[p].req \in {heap[p].req, NoCall}
    BY <1>0, <2>1 DEF Filled, Released, AsyncResult
  <2>3. PcForward /\ requestsChan' = requestsChan
    BY <1>0, <1>4 DEF callAsyncSkipOverflow, Return, PcForward, PcKept
  <2>4. \A p \in Objs : Held(p)' => Held(p)
    BY <1>1, <2>3 DEF Held, connVars
  <2> QED
    BY <1>1, <2>2, <2>3, <2>4, CallPlaceFrame
<1> QED
  BY <1>2, <1>3, <1>4

\* The second half of an overflowing call makes room.
LEMMA EvictPlace ==
    ASSUME IInv, PlaceInv, NEW c \in Calls, callAsyncEvict(c)
    PROVE  PlaceInv' /\ Forward
<1>0. /\ heap \in [Objs -> AsyncResult] /\ requestsChan \in Seq(Objs)
      /\ pc \in [Calls -> {"idle", "evict", "again", "waiting", "returned"}]
      /\ TypeInv
  BY CallTypes DEF IInv, OwnInv
<1>1. UNCHANGED connVars
  BY DEF callAsyncEvict
<1>2. PcForward
  BY <1>0 DEF callAsyncEvict, PcForward, PcKept
<1>3. CASE requestsChan = <<>>
  <2>1. UNCHANGED <<heap, requestsChan>>
    BY <1>3 DEF callAsyncEvict
  <2> QED
    BY <1>1, <1>2, <2>1, CallPlaceFrame DEF Held, connVars
<1>4. CASE requestsChan # <<>>
  <2>1. PICK h \in Objs : h = Head(requestsChan)
    BY <1>0, <1>4
  <2>2. /\ Discard(h, "overflow")
        /\ requestsChan' = Tail(requestsChan)
    BY <1>4, <2>1 DEF callAsyncEvict
  <2>3. \A p \in Objs : heap'[p].req \in {heap[p].req, NoCall}
    BY <1>0, <2>2, DiscardReq
  <2>4. \A p \in Objs : Held(p)' => Held(p)
    BY <1>0, <1>1, <1>4, <2>2, QueueHeld DEF connVars
  <2> QED
    BY <1>1, <1>2, <2>3, <2>4, CallPlaceFrame
<1> QED
  BY <1>3, <1>4

\* Then it tries again.
LEMMA AgainPlace ==
    ASSUME IInv, PlaceInv, NEW c \in Calls, callAsyncAgain(c)
    PROVE  PlaceInv'
<1>0. /\ heap \in [Objs -> AsyncResult] /\ requestsChan \in Seq(Objs)
      /\ pc \in [Calls -> {"idle", "evict", "again", "waiting", "returned"}]
      /\ TypeInv
  BY CallTypes DEF IInv, OwnInv
<1>1. UNCHANGED connVars
  BY DEF callAsyncAgain
<1>2. pc[c] = "again" /\ ref[c] \in Objs /\ heap[ref[c]].req = c
  BY DEF callAsyncAgain, IInv, OwnInv, CallerInv
<1>3. CASE Full
  <2>1. /\ heap' = [heap EXCEPT ![ref[c]] = Released(@)]
        /\ requestsChan' = requestsChan
    BY <1>3 DEF callAsyncAgain
  <2>2. PcForward
    BY <1>0, <1>3 DEF callAsyncAgain, Return, PcForward, PcKept
  <2>3. \A p \in Objs : heap'[p].req \in {heap[p].req, NoCall}
    BY <1>0, <1>2, <2>1 DEF Released, AsyncResult
  <2> QED
    BY <1>1, <2>1, <2>2, <2>3, CallPlaceFrame DEF Held, connVars
<1>4. CASE ~Full
  <2>1. PICK o \in Objs : o = ref[c]
    BY <1>2
  <2>2. /\ requestsChan' = Append(requestsChan, o)
        /\ UNCHANGED heap /\ Enqueued(c, o)
    BY <1>4, <2>1 DEF callAsyncAgain
  <2>3. /\ pc'[c] # "idle"
        /\ \A d \in Calls : d # c => pc'[d] = pc[d]
    BY <1>0, <2>2 DEF Enqueued, Return
  <2>4. \A p \in Objs : Held(p)' => Held(p) \/ p = o
    BY <1>0, <1>1, <2>2, QueueHeld DEF connVars
  <2> QED
    BY <1>1, <1>2, <2>1, <2>2, <2>3, <2>4, PlaceEnter DEF connVars
<1> QED
  BY <1>3, <1>4

\* A caller that returns, or cancels.
LEMMA ReturnPlace ==
    ASSUME IInv, PlaceInv, NEW c \in Calls,
           CallDone(c) \/ CallTimeout(c) \/ AsyncDone(c) \/ Cancel(c)
    PROVE  PlaceInv' /\ Forward
<1>0. /\ heap \in [Objs -> AsyncResult]
      /\ pc \in [Calls -> {"idle", "evict", "again", "waiting", "returned"}]
  BY CallTypes DEF IInv, OwnInv
<1>1. /\ UNCHANGED <<requestsChan, connVars>>
      /\ pc[c] = "waiting"
  BY DEF CallDone, CallTimeout, AsyncDone, Cancel
<1>2. ref[c] \in Objs
  BY <1>1 DEF IInv, OwnInv, CallerInv
<1>3. PcForward
  BY <1>0, <1>1 DEF CallDone, CallTimeout, AsyncDone, Cancel, Return,
                    PcForward, PcKept
<1>4. \A p \in Objs : heap'[p].req \in {heap[p].req, NoCall}
  <2>1. CASE CallDone(c)
    BY <1>0, <1>2, <2>1 DEF CallDone, Released, AsyncResult
  <2>2. CASE CallTimeout(c) \/ Cancel(c)
    BY <1>0, <1>2, <2>2 DEF CallTimeout, Cancel, Abandon, AsyncResult
  <2>3. CASE AsyncDone(c)
    BY <2>3 DEF AsyncDone, memVars
  <2> QED
    BY <2>1, <2>2, <2>3
<1>5. \A p \in Objs : Held(p)' => Held(p)
  BY <1>1 DEF Held, connVars
<1> QED
  BY <1>1, <1>3, <1>4, <1>5, CallPlaceFrame

\* The steps of clientWriter between two requests: it takes one from the
\* queue, waits, flushes or stops.
LEMMA WaitPlace ==
    ASSUME IInv, PlaceInv, NEW k \in Conns,
           \/ WriterTake(k) \/ WriterBlock(k) \/ WriterStop(k)
           \/ WriterFlush(k) \/ WriterFlushFail(k)
    PROVE  PlaceInv' /\ Forward
<1> USE DEF sharedVars, callVars, memVars
<1>0. /\ writer \in [Conns -> Writer] /\ requestsChan \in Seq(Objs)
      /\ wire \in [Conns -> SUBSET Message]
  BY ConnTypes, CallTypes DEF IInv, OwnInv
<1>1. /\ UNCHANGED <<pc, heap>>
      /\ writer[k].pc \notin {"count", "stuck", "encode", "done"}
  BY DEF WriterTake, WriterBlock, WriterStop, WriterFlush, WriterFlushFail
<1>2. PcForward /\ \A o \in Objs : heap'[o].req \in {heap[o].req, NoCall}
  BY <1>1 DEF PcForward, PcKept
<1>3. /\ \A l \in Conns : l # k => writer'[l] = writer[l] /\ wire'[l] = wire[l]
      /\ writer'[k].wr = writer[k].wr
      /\ writer'[k].buf \in {writer[k].buf, {}}
      /\ writer[k].wr = NoMessage
  BY <1>0, <1>1 DEF WriterTake, WriterBlock, WriterStop, WriterFlush,
     WriterFlushFail, TakeHead, Flushed, Writer, PlaceInv, HandsFree
<1>4. HandsFree'
  BY <1>3 DEF PlaceInv, HandsFree
<1>5. \A o \in Objs : Held(o)' => Held(o)
  <2>1. CASE WriterTake(k)
    <3>1. PICK h \in Objs : /\ h = requestsChan[1] /\ h = Head(requestsChan)
                            /\ 1 \in 1 .. Len(requestsChan)
      BY <1>0, <2>1 DEF WriterTake
    <3>2. /\ Len(requestsChan') = Len(requestsChan) - 1
          /\ \A i \in 1 .. Len(requestsChan') :
                requestsChan'[i] = requestsChan[i + 1]
          /\ Len(requestsChan) \in Nat
      BY <1>0, <2>1 DEF WriterTake
    <3>3. writer'[k].m = h
      BY <1>0, <2>1, <3>1 DEF WriterTake, TakeHead, Writer
    <3> QED
      BY <1>3, <3>1, <3>2, <3>3 DEF Held
  <2>2. CASE ~WriterTake(k)
    <3>1. requestsChan' = requestsChan /\ writer'[k].m = writer[k].m
      BY <1>0, <2>2 DEF WriterBlock, WriterStop, WriterFlush,
         WriterFlushFail, Flushed, Writer
    <3> QED
      BY <1>3, <3>1 DEF Held
  <2> QED
    BY <2>1, <2>2
<1>6. \A l \in Conns, w \in Message :
        InEncoder(l, w)' => InEncoder(l, w)
  BY <1>1, <1>3 DEF InEncoder, Outgoing
<1>7. \A w \in Message : w.call \in Calls /\ w \in wire'[k] =>
        w \in wire[k] \/ (InEncoder(k, w) /\ ~InEncoder(k, w)')
  <2> SUFFICES ASSUME NEW w \in Message, w.call \in Calls,
                      w \in wire'[k], w \notin wire[k]
               PROVE  InEncoder(k, w) /\ ~InEncoder(k, w)'
    OBVIOUS
  <2>1. w # NoMessage
    BY ClientAssumption DEF NoMessage
  <2>2. /\ w \in writer[k].buf
        /\ writer'[k].pc = "done" \/ writer'[k].buf = {}
    <3>1. CASE WriterFlush(k)
      BY <1>0, <3>1 DEF WriterFlush, Flushed, Writer
    <3>2. CASE WriterFlushFail(k)
      BY <1>0, <3>2 DEF WriterFlushFail, Escaped, Writer
    <3>3. CASE ~(WriterFlush(k) \/ WriterFlushFail(k))
      BY <3>3 DEF WriterTake, WriterBlock, WriterStop
    <3> QED
      BY <3>1, <3>2, <3>3
  <2> QED
    BY <1>1, <1>3, <2>1, <2>2 DEF InEncoder, Outgoing
<1>8. \A l \in Conns, w \in Message : w.call \in Calls =>
        /\ InEncoder(l, w)' => InEncoder(l, w)
        /\ w \in wire'[l] => \/ w \in wire[l]
                             \/ InEncoder(l, w) /\ ~InEncoder(l, w)'
  BY <1>3, <1>6, <1>7
<1> QED
  BY <1>2, <1>4, <1>5, <1>8, PlaceFrame

\* EncodeRequest leaves the message in the buffer, sends it with what was
\* buffered before, or fails.
LEMMA EncodePlace ==
    ASSUME IInv, PlaceInv, NEW k \in Conns,
           WriterBuffer(k) \/ WriterSend(k) \/ WriterEncodeFail(k)
    PROVE  PlaceInv' /\ Forward
<1> USE DEF sharedVars, callVars, memVars
<1>0. /\ writer \in [Conns -> Writer]
      /\ wire \in [Conns -> SUBSET Message]
  BY ConnTypes DEF IInv, OwnInv
<1>1. UNCHANGED <<pc, heap, requestsChan>> /\ writer[k].pc = "encode"
  BY DEF WriterBuffer, WriterSend, WriterEncodeFail
<1>2. PcForward /\ \A o \in Objs : heap'[o].req \in {heap[o].req, NoCall}
  BY <1>1 DEF PcForward, PcKept
<1>3. /\ \A l \in Conns : l # k => writer'[l] = writer[l] /\ wire'[l] = wire[l]
      /\ writer'[k].m = writer[k].m
      /\ writer'[k].pc = "done" \/ writer'[k].wr = NoMessage
  BY <1>0 DEF WriterBuffer, WriterSend, WriterEncodeFail, Writer
<1>4. HandsFree'
  BY <1>3 DEF PlaceInv, HandsFree
<1>5. \A o \in Objs : Held(o)' => Held(o)
  BY <1>1, <1>3 DEF Held
<1>6. \A w \in Message : w.call \in Calls => w # NoMessage
  BY ClientAssumption DEF NoMessage
<1>7. \A w \in Message : w.call \in Calls =>
        /\ InEncoder(k, w)' => InEncoder(k, w)
        /\ w \in wire'[k] => \/ w \in wire[k]
                             \/ InEncoder(k, w) /\ ~InEncoder(k, w)'
  <2>1. CASE WriterBuffer(k)
    BY <1>0, <1>1, <1>6, <2>1 DEF WriterBuffer, InEncoder, Outgoing, Writer
  <2>2. CASE WriterSend(k)
    <3>1. /\ writer'[k].buf = {} /\ writer'[k].wr = NoMessage
          /\ wire'[k] = wire[k] \cup Outgoing(k)
      BY <1>0, <2>2 DEF WriterSend, Writer
    <3> QED
      BY <1>1, <1>6, <3>1 DEF InEncoder, Outgoing
  <2>3. CASE WriterEncodeFail(k)
    <3>1. writer'[k].pc = "done" /\ wire'[k] \subseteq wire[k] \cup Outgoing(k)
      BY <1>0, <2>3 DEF WriterEncodeFail, Escaped, Writer
    <3> QED
      BY <1>1, <3>1 DEF InEncoder
  <2> QED
    BY <2>1, <2>2, <2>3
<1>8. \A l \in Conns : l # k => \A w \in Message : InEncoder(l, w)' = InEncoder(l, w)
  BY <1>3 DEF InEncoder, Outgoing
<1>9. \A l \in Conns, w \in Message : w.call \in Calls =>
        /\ InEncoder(l, w)' => InEncoder(l, w)
        /\ w \in wire'[l] => \/ w \in wire[l]
                             \/ InEncoder(l, w) /\ ~InEncoder(l, w)'
  BY <1>3, <1>7, <1>8
<1> QED
  BY <1>2, <1>4, <1>5, <1>9, PlaceFrame

\* The writer turns the request in its hands into a message, or drops it.
LEMMA TurnPlace ==
    ASSUME IInv, PlaceInv, NEW k \in Conns,
           WriterCanceled(k) \/ WriterSkip(k) \/ WriterRegister(k)
    PROVE  PlaceInv' /\ Forward
<1> USE DEF sharedVars, callVars, memVars
<1>0. /\ writer \in [Conns -> Writer] /\ heap \in [Objs -> AsyncResult]
      /\ wire \in [Conns -> SUBSET Message]
  BY ConnTypes, CallTypes DEF IInv, OwnInv
<1>1. /\ UNCHANGED <<pc, requestsChan, wire>> /\ writer[k].pc = "got"
      /\ writer[k].wr = NoMessage
  BY DEF WriterCanceled, WriterSkip, WriterRegister, PlaceInv, HandsFree
<1>2. PICK o \in Objs : o = writer[k].m
  BY <1>1 DEF IInv, OwnInv, TypeInv, WriterHolds
<1>3. Live(o) /\ Held(o)
  BY <1>2, ClientAssumption DEF IInv, OwnInv, ConnSlots, Held
<1>4. /\ \A l \in Conns : l # k => writer'[l] = writer[l]
      /\ writer'[k].m = NoObj /\ writer'[k].buf = writer[k].buf
  <2>1. CASE WriterCanceled(k)
    BY <1>0, <2>1 DEF WriterCanceled, Writer
  <2>2. CASE WriterSkip(k)
    BY <1>0, <2>2 DEF WriterSkip, Writer
  <2>3. CASE WriterRegister(k)
    <3>1. PICK id \in IDs :
            writer' = [writer EXCEPT
              ![k].pc = IF Stuck(k) THEN "stuck" ELSE "count",
              ![k].m = NoObj, ![k].msgID = id,
              ![k].wr = [id |-> id, call |-> heap[writer[k].m].req]]
      BY <2>3 DEF WriterRegister
    <3> QED
      BY <1>0, <3>1 DEF Writer
  <2> QED
    BY <2>1, <2>2, <2>3
<1>5. \A p \in Objs : Held(p)' => Held(p) /\ p # o
  <2>1. /\ \A i \in 1 .. Len(requestsChan) : requestsChan[i] # o
        /\ \A l \in Conns : l # k => writer[l].m # o
        /\ o # NoObj
    BY <1>2, ClientAssumption DEF IInv, OwnInv, QueueDistinct, ConnDistinct
  <2> QED
    BY <1>1, <1>4, <2>1, ClientAssumption DEF Held
<1>6. PcForward
  BY <1>1 DEF PcForward, PcKept
<1>7. CASE WriterCanceled(k)
  <2>1. writer'[k].wr = NoMessage /\ writer'[k].pc = "select"
    BY <1>0, <1>1, <1>7 DEF WriterCanceled, Writer
  <2>2. \A p \in Objs : heap'[p].req \in {heap[p].req, NoCall}
    BY <1>0, <1>2, <1>7, DiscardReq DEF WriterCanceled
  <2>3. HandsFree'
    BY <1>4, <2>1 DEF PlaceInv, HandsFree
  <2>4. \A l \in Conns, w \in Message : w.call \in Calls =>
          /\ InEncoder(l, w)' => InEncoder(l, w)
          /\ w \in wire'[l] => w \in wire[l]
    BY <1>1, <1>4, <2>1 DEF InEncoder, Outgoing
  <2> QED
    BY <1>5, <1>6, <2>2, <2>3, <2>4, PlaceFrame
<1>8. CASE WriterSkip(k) \/ WriterRegister(k)
  <2>1. PICK m \in Message : /\ m = writer'[k].wr
                             /\ m.call = heap[o].req
                             /\ writer'[k].pc \in {"encode", "count", "stuck"}
    <3>1. heap[o].req \in Payload /\ 0 \in IDs
      BY <1>0, ClientAssumption DEF AsyncResult, IDs
    <3>2. CASE WriterSkip(k)
      <4>1. /\ [id |-> 0, call |-> heap[o].req] = writer'[k].wr
            /\ writer'[k].pc = "encode"
        BY <1>0, <1>2, <3>2 DEF WriterSkip, Writer
      <4> QED
        BY <3>1, <4>1 DEF Message
    <3>3. CASE WriterRegister(k)
      <4>1. PICK id \in IDs :
              writer' = [writer EXCEPT
                ![k].pc = IF Stuck(k) THEN "stuck" ELSE "count",
                ![k].m = NoObj, ![k].msgID = id,
                ![k].wr = [id |-> id, call |-> heap[o].req]]
        BY <1>2, <3>3 DEF WriterRegister
      <4>2. /\ [id |-> id, call |-> heap[o].req] = writer'[k].wr
            /\ writer'[k].pc \in {"encode", "count", "stuck"}
        BY <1>0, <4>1 DEF Writer
      <4> QED
        BY <3>1, <4>2 DEF Message
    <3> QED
      BY <1>8, <3>2, <3>3
  <2>2. \A p \in Objs : heap'[p].req \in {heap[p].req, NoCall}
    <3>1. CASE WriterSkip(k)
      BY <1>0, <1>2, <3>1 DEF WriterSkip, Released, AsyncResult
    <3>2. CASE WriterRegister(k)
      BY <3>2 DEF WriterRegister
    <3> QED
      BY <1>8, <3>1, <3>2
  <2>3. HandsFree'
    BY <1>4, <2>1 DEF PlaceInv, HandsFree
  <2>4. \A l \in Conns, w \in Message : w.call \in Calls =>
          (InEncoder(l, w)' => InEncoder(l, w) \/ (l = k /\ w = m))
    BY <1>1, <1>4, <2>1 DEF InEncoder, Outgoing
  <2>5. m.call \in Calls /\ pc[m.call] \in {"waiting", "returned"}
    BY <1>3, <2>1 DEF Live
  <2> QED
    BY <1>1, <1>3, <1>5, <2>1, <2>2, <2>3, <2>4, <2>5, PlaceEncode
<1> QED
  BY <1>7, <1>8

\* It counts the request, and gives up if the server is stuck.
LEMMA CountPlace ==
    ASSUME IInv, PlaceInv, NEW k \in Conns, WriterCount(k)
    PROVE  PlaceInv' /\ Forward
<1>0. writer \in [Conns -> Writer]
  BY ConnTypes DEF IInv, OwnInv
<1>1. /\ UNCHANGED <<pc, heap, requestsChan, wire>>
      /\ \A l \in Conns : l # k => writer'[l] = writer[l]
      /\ writer[k].pc \in {"count", "stuck"} /\ writer'[k].pc \in {"encode", "done"}
      /\ writer'[k].m = writer[k].m /\ writer'[k].wr = writer[k].wr
      /\ writer'[k].buf = writer[k].buf
  BY <1>0 DEF WriterCount, Writer, callVars, memVars
<1>2. PcForward /\ \A o \in Objs : heap'[o].req \in {heap[o].req, NoCall}
  BY <1>1 DEF PcForward, PcKept
<1>3. \A o \in Objs : Held(o)' => Held(o)
  BY <1>1 DEF Held
<1>4. HandsFree'
  BY <1>1 DEF PlaceInv, HandsFree
<1>5. \A l \in Conns, w \in Message : w.call \in Calls =>
        /\ InEncoder(l, w)' => InEncoder(l, w)
        /\ w \in wire'[l] => w \in wire[l]
  BY <1>1 DEF InEncoder, Outgoing
<1> QED
  BY <1>2, <1>3, <1>4, <1>5, PlaceFrame

\* A step that leaves the writers' messages alone, or forgets them.
LEMMA ForgetPlace ==
    ASSUME PlaceInv, UNCHANGED pc,
           \A o \in Objs : heap'[o].req = heap[o].req,
           UNCHANGED requestsChan \/ requestsChan' = <<>>,
           \A l \in Conns :
              /\ wire'[l] \subseteq wire[l]
              /\ \/ writer'[l] = writer[l]
                 \/ writer'[l] \in {NewWriter("off"), NewWriter("select")}
    PROVE  PlaceInv' /\ Forward
<1>1. \A l \in Conns : writer'[l] # writer[l] =>
        /\ writer'[l].m = NoObj /\ writer'[l].buf = {}
        /\ writer'[l].wr = NoMessage
  BY DEF NewWriter
<1>2. \A o \in Objs : Held(o)' => Held(o)
  BY <1>1, ClientAssumption DEF Held
<1>3. \A w \in Message : w.call \in Calls => w # NoMessage
  BY ClientAssumption DEF NoMessage
<1>4. \A l \in Conns, w \in Message : w.call \in Calls =>
        /\ InEncoder(l, w)' => InEncoder(l, w)
        /\ w \in wire'[l] => w \in wire[l]
  BY <1>1, <1>3 DEF InEncoder, Outgoing
<1>5. HandsFree'
  BY <1>1 DEF PlaceInv, HandsFree
<1>6. PcForward
  BY DEF PcForward, PcKept
<1> QED
  BY <1>2, <1>4, <1>5, <1>6, PlaceFrame

\* clientReader, clientHandler, Stop and Start send nothing.
LEMMA RestPlace ==
    ASSUME IInv, PlaceInv,
           \/ \E k \in Conns : clientReader(k) \/ clientHandler(k)
           \/ Stop \/ StopReturn \/ Start
    PROVE  PlaceInv' /\ Forward
<1> USE DEF sharedVars, callVars, memVars, connVars
<1>0. /\ writer \in [Conns -> Writer] /\ heap \in [Objs -> AsyncResult]
      /\ wire \in [Conns -> SUBSET Message]
  BY ConnTypes, CallTypes DEF IInv, OwnInv
<1>1. UNCHANGED pc /\ (UNCHANGED requestsChan \/ requestsChan' = <<>>)
  BY DEF clientReader, clientHandler, ReaderMatch, ReaderCount, ReaderComplete,
     ReaderFail, HandlerConnect, HandlerDialFail, HandlerSetupFail,
     HandlerRedial, HandlerStop, HandlerClose, HandlerCount, HandlerDrop,
     HandlerTeardown, Stop, StopReturn, Start
<1>2. \A o \in Objs : heap'[o].req = heap[o].req
  <2>1. CASE \E k \in Conns : ReaderComplete(k)
    <3>1. PICK k \in Conns : ReaderComplete(k)
      BY <2>1
    <3>2. reader[k].m \in Objs
      BY <3>1 DEF ReaderComplete, IInv, OwnInv, TypeInv, ReaderHolds
    <3> QED
      BY <1>0, <3>1, <3>2 DEF ReaderComplete, Answered, AsyncResult
  <2>2. CASE \E k \in Conns : HandlerDrop(k)
    <3>1. PICK k \in Conns : HandlerDrop(k)
      BY <2>2
    <3>2. \A o \in Objs :
            /\ heap[o] \in AsyncResult
            /\ heap'[o] \in {heap[o], Completed(heap[o], handler[k].err)}
      BY <1>0, <3>1 DEF HandlerDrop
    <3> QED
      BY <3>2 DEF Completed, AsyncResult
  <2>3. CASE ~\E k \in Conns : ReaderComplete(k) \/ HandlerDrop(k)
    BY <2>3 DEF clientReader, clientHandler, ReaderMatch, ReaderCount,
     ReaderFail, HandlerConnect, HandlerDialFail, HandlerSetupFail,
     HandlerRedial, HandlerStop, HandlerClose, HandlerCount, HandlerTeardown,
     Stop, StopReturn, Start
  <2> QED
    BY <2>1, <2>2, <2>3
<1>3. \A l \in Conns :
        /\ wire'[l] \subseteq wire[l]
        /\ \/ writer'[l] = writer[l]
           \/ writer'[l] \in {NewWriter("off"), NewWriter("select")}
  BY <1>0 DEF clientReader, clientHandler, ReaderMatch, ReaderCount,
     ReaderComplete, ReaderFail, HandlerConnect, HandlerDialFail,
     HandlerSetupFail, HandlerRedial, HandlerStop, HandlerClose, HandlerCount,
     HandlerDrop, HandlerTeardown, Stop, StopReturn, Start
<1> QED
  BY <1>1, <1>2, <1>3, ForgetPlace

\* The invariant of the places, and the one of the objects with it.
LEMMA PlaceInductive == Spec => [](IInv /\ PlaceInv)
<1>1. Init => PlaceInv
  <2> SUFFICES ASSUME Init PROVE PlaceInv
    OBVIOUS
  <2>1. /\ \A k \in Conns : /\ writer[k].buf = {} /\ writer[k].wr = NoMessage
                            /\ wire[k] = {}
        /\ \A o \in Objs : heap[o].req = NoCall
    BY DEF Init, NewWriter, NewAsyncResult
  <2>2. \A k \in Conns, w \in Message : w.call \in Calls =>
          ~InEncoder(k, w) /\ w \notin wire[k]
    BY <2>1, ClientAssumption DEF InEncoder, Outgoing, NoMessage
  <2>3. OneObject
    BY <2>1, ClientAssumption DEF OneObject
  <2>4. Encoded /\ OneMessage
    BY <2>2 DEF Encoded, OneMessage
  <2>5. HandsFree
    BY <2>1 DEF HandsFree
  <2> QED
    BY <2>3, <2>4, <2>5 DEF PlaceInv
<1>2. IInv /\ PlaceInv /\ [Next]_vars => PlaceInv'
  <2> SUFFICES ASSUME IInv, PlaceInv, [Next]_vars PROVE PlaceInv'
    OBVIOUS
  <2>1. CASE UNCHANGED vars
    BY <2>1, ForgetPlace DEF vars
  <2>2. CASE \E c \in Calls : CallStep(c)
    BY <2>2, EnterPlace, EvictPlace, AgainPlace, ReturnPlace DEF CallStep
  <2>3. CASE \E k \in Conns : clientWriter(k)
    BY <2>3, WaitPlace, EncodePlace, TurnPlace, CountPlace DEF clientWriter
  <2> QED
    BY <2>1, <2>2, <2>3, RestPlace DEF Next
<1> QED
  BY <1>1, <1>2, Inductive, InitIInv, NextIInv, PTL DEF Spec

\* The places of a request, one kind at a time.
LEMMA PlacesOf ==
    ASSUME NEW c \in Calls, NEW x \in Whereabouts(c)
    PROVE  \/ \E i \in 1 .. Len(requestsChan) :
                 heap[requestsChan[i]].req = c /\ x = <<"queue", i>>
           \/ \E k \in Conns : /\ writer[k].m # NoObj
                               /\ heap[writer[k].m].req = c
                               /\ x = <<"writer", k>>
           \/ \E k \in Conns : \E w \in Outgoing(k) :
                 InEncoder(k, w) /\ w.call = c /\ x = <<"encoder", k, w.id>>
           \/ \E k \in Conns : \E w \in wire[k] :
                 w.call = c /\ x = <<"wire", k, w.id>>
BY DEF Whereabouts, Taken, InEncoder

\* A place where the request of c is an object, and one where it is a message.
AsObject(c, x) ==
    \/ \E i \in 1 .. Len(requestsChan) :
          heap[requestsChan[i]].req = c /\ x = <<"queue", i>>
    \/ \E k \in Conns : /\ writer[k].m # NoObj
                        /\ heap[writer[k].m].req = c
                        /\ x = <<"writer", k>>
AsMessage(c, x) ==
    \/ \E k \in Conns : \E w \in Message :
          InEncoder(k, w) /\ w.call = c /\ x = <<"encoder", k, w.id>>
    \/ \E k \in Conns : \E w \in Message :
          w \in wire[k] /\ w.call = c /\ x = <<"wire", k, w.id>>

\* SentOnce follows from the invariants.
LEMMA OncePlaced ==
    ASSUME IInv, PlaceInv, NEW c \in Calls
    PROVE  Cardinality(Whereabouts(c)) <= 1
<1>1. \A l \in Conns : wire[l] \subseteq Message /\ Outgoing(l) \subseteq Message
  BY MessageTypes DEF IInv, OwnInv, Outgoing
<1>2. \A x \in Whereabouts(c) : AsObject(c, x) \/ AsMessage(c, x)
  BY <1>1, PlacesOf DEF AsObject, AsMessage
<1>3. \A x, y : AsObject(c, x) /\ AsObject(c, y) => x = y
  <2> SUFFICES ASSUME NEW x, NEW y, AsObject(c, x), AsObject(c, y)
               PROVE  x = y
    OBVIOUS
  <2>1. /\ \A i \in 1 .. Len(requestsChan) : requestsChan[i] \in Objs
        /\ \A k \in Conns : writer[k].m # NoObj => writer[k].m \in Objs
    BY DEF IInv, OwnInv, QueueSlots, ConnSlots, Live
  <2>2. \A o, p \in Objs : heap[o].req = c /\ heap[p].req = c => o = p
    BY DEF PlaceInv, OneObject
  <2>3. /\ \A i, j \in 1 .. Len(requestsChan) :
             requestsChan[i] = requestsChan[j] => i = j
        /\ \A i \in 1 .. Len(requestsChan), k \in Conns :
             requestsChan[i] # writer[k].m
        /\ \A k, l \in Conns :
             writer[k].m # NoObj /\ writer[k].m = writer[l].m => k = l
    BY DEF IInv, OwnInv, QueueDistinct, ConnDistinct
  <2> QED
    BY <2>1, <2>2, <2>3 DEF AsObject
<1>4. \A x, y : AsMessage(c, x) /\ AsMessage(c, y) => x = y
  <2> SUFFICES ASSUME NEW x, NEW y, AsMessage(c, x), AsMessage(c, y)
               PROVE  x = y
    OBVIOUS
  <2>1. PICK k \in Conns, v \in Message :
          /\ v.call = c
          /\ \/ InEncoder(k, v) /\ x = <<"encoder", k, v.id>>
             \/ v \in wire[k] /\ x = <<"wire", k, v.id>>
    BY DEF AsMessage
  <2>2. PICK l \in Conns, w \in Message :
          /\ w.call = c
          /\ \/ InEncoder(l, w) /\ y = <<"encoder", l, w.id>>
             \/ w \in wire[l] /\ y = <<"wire", l, w.id>>
    BY DEF AsMessage
  <2>3. /\ (InEncoder(k, v) /\ InEncoder(l, w)) => (k = l /\ v = w)
        /\ (v \in wire[k] /\ w \in wire[l]) => (k = l /\ v = w)
        /\ ~(InEncoder(k, v) /\ w \in wire[l])
        /\ ~(InEncoder(l, w) /\ v \in wire[k])
    BY <2>1, <2>2 DEF PlaceInv, OneMessage
  <2> QED
    BY <2>1, <2>2, <2>3
<1>5. \A x, y : ~(AsObject(c, x) /\ AsMessage(c, y))
  <2> SUFFICES ASSUME NEW x, NEW y, AsObject(c, x), AsMessage(c, y)
               PROVE  FALSE
    OBVIOUS
  <2>1. PICK o \in Objs : Held(o) /\ heap[o].req = c
    BY DEF AsObject, Held, IInv, OwnInv, QueueSlots, ConnSlots, Live
  <2>2. PICK l \in Conns, w \in Message :
          w.call = c /\ (InEncoder(l, w) \/ w \in wire[l])
    BY DEF AsMessage
  <2> QED
    BY <2>1, <2>2 DEF PlaceInv, Encoded
<1>6. \A x, y \in Whereabouts(c) : x = y
  BY <1>2, <1>3, <1>4, <1>5
<1>7. CASE Whereabouts(c) = {}
  BY <1>7, FS_EmptySet
<1>8. CASE Whereabouts(c) # {}
  <2>1. PICK x : Whereabouts(c) = {x}
    BY <1>6, <1>8
  <2>2. Cardinality({x}) = 1
    BY FS_Singleton
  <2> QED
    BY <2>1, <2>2
<1> QED
  BY <1>7, <1>8

\* SentOnce: from the queue over a writer and its encoder to the wire, the
\* request of a call is in one place, whatever is evicted, canceled, flushed
\* in part or reconnected; no request is handed to the server twice.
THEOREM RequestOnce == Spec => []SentOnce
<1>1. IInv /\ PlaceInv => SentOnce
  BY OncePlaced DEF SentOnce
<1> QED
  BY <1>1, PlaceInductive, PTL


-----------------------------------------------------------------------------
(* The refinement mapping, one call at a time.                              *)

Outcome(c) == IF pc[c] # "returned" THEN "none"
              ELSE IF HasAnswer(ret[c], c) THEN "answer" ELSE "nothing"

\* The three places of an answer: with a reader, in a completed object, and
\* with the caller.
WithReader(c) == \E k \in Conns : /\ reader[k].pc \in {"match", "got"}
                                  /\ heap[reader[k].m].req = c
Bears(o, c) == /\ heap[o].req = c /\ heap[o].done = "closed"
               /\ HasAnswer(heap[o], c)
WithCaller(c) == pc[c] = "returned" /\ HasAnswer(ret[c], c)

\* A request that was answered does not travel any more.
AnswerInv == \A c \in AnsweredCalls : Stage(c) = "over"

\* Where the request of c is, from the invariants of its places.
StageIs(c) ==
    IF pc[c] = "idle" THEN "new"
    ELSE IF OnWire(c) THEN "sent"
    ELSE IF Carried(c) \/ pc[c] \in {"evict", "again"} THEN "held"
    ELSE "over"

\* Stage, by those predicates.
LEMMA StageOf == IInv => \A c \in Calls : Stage(c) = StageIs(c)
<1> SUFFICES ASSUME IInv, NEW c \in Calls PROVE Stage(c) = StageIs(c)
  OBVIOUS
<1>1. \A l \in Conns : wire[l] \subseteq Message /\ Outgoing(l) \subseteq Message
  BY MessageTypes DEF IInv, OwnInv, Outgoing
<1>2. (\E k \in Conns : \E w \in wire[k] : w.call = c) <=> OnWire(c)
  BY <1>1 DEF OnWire
<1>3. ASSUME Whereabouts(c) # {}, ~OnWire(c)
      PROVE  Carried(c)
  <2>1. PICK x : x \in Whereabouts(c)
    BY <1>3
  <2>2. \A o : Live(o) => o \in Objs
    BY DEF Live
  <2>3. CASE \E i \in 1 .. Len(requestsChan) : heap[requestsChan[i]].req = c
    BY <2>2, <2>3 DEF Carried, Held, IInv, OwnInv, QueueSlots
  <2>4. CASE \E k \in Conns : writer[k].m # NoObj /\ heap[writer[k].m].req = c
    BY <2>2, <2>4 DEF Carried, Held, IInv, OwnInv, ConnSlots
  <2>5. CASE \E k \in Conns : \E w \in Outgoing(k) : InEncoder(k, w) /\ w.call = c
    BY <1>1, <2>5 DEF Carried
  <2>6. CASE \E k \in Conns : \E w \in wire[k] : w.call = c
    BY <1>2, <1>3, <2>6
  <2> QED
    BY <2>1, <2>3, <2>4, <2>5, <2>6, PlacesOf
<1>4. ASSUME Carried(c)
      PROVE  Whereabouts(c) # {}
  <2>1. CASE \E i \in 1 .. Len(requestsChan) : heap[requestsChan[i]].req = c
    <3>1. PICK i \in 1 .. Len(requestsChan) : heap[requestsChan[i]].req = c
      BY <2>1
    <3>2. <<"queue", i>> \in Whereabouts(c)
      BY <3>1 DEF Whereabouts
    <3> QED
      BY <3>2
  <2>2. CASE \E k \in Conns : writer[k].m \in Objs /\ heap[writer[k].m].req = c
    <3>1. PICK k \in Conns : writer[k].m \in Objs /\ heap[writer[k].m].req = c
      BY <2>2
    <3>2. writer[k].m \in {p \in Taken(k) : heap[p].req = c}
      BY <3>1, ClientAssumption DEF Taken
    <3>3. <<"writer", k>> \in Whereabouts(c)
      BY <3>2 DEF Whereabouts
    <3> QED
      BY <3>3
  <2>3. CASE \E k \in Conns, w \in Message : InEncoder(k, w) /\ w.call = c
    <3>1. PICK k \in Conns, w \in Message : InEncoder(k, w) /\ w.call = c
      BY <2>3
    <3>2. <<"encoder", k, w.id>> \in Whereabouts(c)
      BY <3>1 DEF Whereabouts, InEncoder
    <3> QED
      BY <3>2
  <2> QED
    BY <1>4, <2>1, <2>2, <2>3 DEF Carried, Held
<1> QED
  BY <1>2, <1>3, <1>4 DEF Stage, StageIs

\* The same in the next state.
LEMMA StageOfNext == IInv' => \A c \in Calls : Stage(c)' = StageIs(c)'
<1>1. (IInv => \A c \in Calls : Stage(c) = StageIs(c))'
  BY StageOf, PTL
<1> QED
  BY <1>1

\* AnsweredCalls, by the three places.
LEMMA AnsweredAre ==
    AnsweredCalls = {c \in Calls : \/ WithReader(c)
                                   \/ \E o \in Objs : Bears(o, c)
                                   \/ WithCaller(c)}
BY DEF AnsweredCalls, WithReader, Bears, WithCaller

\* What the writers and the queue hold is live.
LEMMA HeldLive == IInv => \A o \in Objs : Held(o) => Live(o)
BY ClientAssumption DEF IInv, OwnInv, QueueSlots, ConnSlots, Held

\* A call that was not accepted has no request inside the client, and one
\* whose request is at the server has none left there.
LEMMA Exclusive ==
    ASSUME IInv, PlaceInv, NEW c \in Calls
    PROVE  /\ pc[c] \notin {"waiting", "returned"} => ~Carried(c) /\ ~OnWire(c)
           /\ OnWire(c) => ~Carried(c) /\ pc[c] \in {"waiting", "returned"}
<1>1. \A o \in Objs : Held(o) /\ heap[o].req = c => pc[c] \in {"waiting", "returned"}
  BY HeldLive DEF Live
<1>2. \A k \in Conns, w \in Message :
        (InEncoder(k, w) \/ w \in wire[k]) /\ w.call = c =>
            pc[c] \in {"waiting", "returned"}
  BY DEF PlaceInv, Encoded
<1>3. OnWire(c) => ~Carried(c)
  BY DEF PlaceInv, Encoded, OneMessage, OnWire, Carried
<1> QED
  BY <1>1, <1>2, <1>3 DEF Carried, OnWire

-----------------------------------------------------------------------------
(* Steps of the abstract calls.                                             *)

\* Requests move on, and nothing else happens.
LEMMA MoveStep ==
    ASSUME IInv, IInv', PlaceInv, Forward, UNCHANGED ret,
           \A d \in Calls : \/ pc'[d] = pc[d]
                            \/ pc[d] = "evict" /\ pc'[d] = "again",
           AnsweredCalls' = AnsweredCalls
    PROVE  Abstract!Next
<1>1. \A d \in Calls : Stage(d) = StageIs(d)
  BY StageOf
<1>2. \A d \in Calls : Stage(d)' = StageIs(d)'
  BY StageOfNext
<1>3. \A d \in Calls : /\ Stage(d)' \in {"new", "held", "sent", "over"}
                       /\ Stage(d)' \in Abstract!Later(Stage(d))
  <2> SUFFICES ASSUME NEW d \in Calls
               PROVE  /\ Stage(d)' \in {"new", "held", "sent", "over"}
                      /\ Stage(d)' \in Abstract!Later(Stage(d))
    OBVIOUS
  <2>1. /\ Carried(d)' => Carried(d)
        /\ OnWire(d)' => OnWire(d) \/ Carried(d)
        /\ pc[d] \notin {"waiting", "returned"} => ~Carried(d) /\ ~OnWire(d)
        /\ OnWire(d) => ~Carried(d) /\ pc[d] \in {"waiting", "returned"}
    BY Exclusive DEF Forward
  <2> QED
    BY <1>1, <1>2, <2>1 DEF StageIs, Abstract!Later
<1>4. \A d \in Calls : Outcome(d)' = Outcome(d)
  BY DEF Outcome
<1>5. Abstract!Move
  BY <1>3, <1>4 DEF Abstract!Move, Outcome
<1> QED
  BY <1>5 DEF Abstract!Next

-----------------------------------------------------------------------------
(* Answers.                                                                 *)

\* The fields that tell whether an object bears an answer, and whose.
SameAnswer(o) == /\ heap'[o].req = heap[o].req /\ heap'[o].done = heap[o].done
                 /\ heap'[o].body = heap[o].body /\ heap'[o].err = heap[o].err
\* o bears no answer, before and after, and no reader has matched it.
NoAnswer(o) == /\ \A c \in Calls : ~Bears(o, c) /\ ~Bears(o, c)'
               /\ \A k \in Conns :
                     reader[k].pc \in {"match", "got"} => reader[k].m # o

\* A step that makes no answer and loses none.
LEMMA AnswerFrame ==
    ASSUME IInv, \A o \in Objs : SameAnswer(o) \/ NoAnswer(o),
           \A c \in Calls : WithCaller(c)' <=> WithCaller(c),
           \A k \in Conns :
              /\ reader'[k].pc \in {"match", "got"}
                    <=> reader[k].pc \in {"match", "got"}
              /\ reader[k].pc \in {"match", "got"} => reader'[k].m = reader[k].m
    PROVE  AnsweredCalls' = AnsweredCalls
<1>1. \A k \in Conns : reader[k].pc \in {"match", "got"} =>
        reader[k].m \in Objs /\ heap'[reader[k].m].req = heap[reader[k].m].req
  BY DEF IInv, OwnInv, TypeInv, ReaderHolds, NoAnswer, SameAnswer
<1>2. \A c \in Calls : WithReader(c)' <=> WithReader(c)
  BY <1>1 DEF WithReader
<1>3. \A c \in Calls, o \in Objs : Bears(o, c)' <=> Bears(o, c)
  BY DEF Bears, HasAnswer, SameAnswer, NoAnswer
<1>4. AnsweredCalls' = {c \in Calls : \/ WithReader(c)'
                                      \/ \E o \in Objs : Bears(o, c)'
                                      \/ WithCaller(c)'}
  BY DEF AnsweredCalls, WithReader, Bears, WithCaller
<1> QED
  BY <1>2, <1>3, <1>4, AnsweredAre

\* A live object that no reader has, and an unused one, bear no answer.
LEMMA NotMatched ==
    ASSUME IInv, NEW o \in Objs
    PROVE  /\ (Live(o) \/ o \in pool \cup fresh \/ heap[o].done # "closed") =>
                 \A c \in Calls : ~Bears(o, c)
           /\ (~Live(o) \/ Held(o)) =>
                 \A k \in Conns : reader[k].pc \in {"match", "got"} => reader[k].m # o
<1>1. \A k \in Conns : reader[k].pc \in {"match", "got"} => reader[k].m \in Objs
  BY DEF IInv, OwnInv, TypeInv, ReaderHolds
<1>2. \A k \in Conns : reader[k].pc \in {"match", "got"} => Live(reader[k].m)
  BY <1>1, ClientAssumption DEF IInv, OwnInv, ConnSlots
<1>3. Held(o) => \A k \in Conns : reader[k].pc \in {"match", "got"} => reader[k].m # o
  BY <1>1, ClientAssumption DEF Held, IInv, OwnInv, QueueDistinct, ConnDistinct
<1>4. o \in pool \cup fresh => heap[o].done = "nil"
  BY DEF IInv, OwnInv, MemInv
<1> QED
  BY <1>2, <1>3, <1>4 DEF Bears, Live

\* Dropping a held object makes no answer: ErrOverflow and ErrCanceled come
\* without a response.
LEMMA DiscardAnswers ==
    ASSUME IInv, NEW o \in Objs, Held(o), NEW e \in {"overflow", "canceled"},
           Discard(o, e)
    PROVE  \A p \in Objs : SameAnswer(p) \/ NoAnswer(p)
<1>0. heap \in [Objs -> AsyncResult] /\ heap[o] \in AsyncResult
  BY CallTypes DEF IInv, OwnInv
<1>1. Live(o)
  BY HeldLive
<1>2. \A p \in Objs : p # o => heap'[p] = heap[p]
  BY <1>0 DEF Discard
<1>3. heap'[o] \in {Completed(heap[o], e), Released(heap[o])}
  BY <1>0 DEF Discard
<1>4. /\ heap'[o].body = NoCall
      /\ heap'[o].err # "server"
  BY <1>0, <1>1, <1>3 DEF Completed, Released, Live, AsyncResult
<1>5. NoAnswer(o)
  <2>1. \A c \in Calls : ~Bears(o, c)'
    BY <1>4, ClientAssumption DEF Bears, HasAnswer
  <2>2. /\ \A c \in Calls : ~Bears(o, c)
        /\ \A k \in Conns : reader[k].pc \in {"match", "got"} => reader[k].m # o
    BY <1>1, NotMatched
  <2> QED
    BY <2>1, <2>2 DEF NoAnswer
<1> QED
  BY <1>2, <1>5 DEF SameAnswer

-----------------------------------------------------------------------------
(* The callers.                                                             *)

\* A step of caller c with its object o is nothing to the other calls.
LEMMA OthersKept ==
    ASSUME IInv, IInv', NEW c \in Calls, NEW o \in Objs,
           heap[o].req \in {c, NoCall}, heap'[o].req \in {c, NoCall},
           \A p \in Objs : p # o => heap'[p] = heap[p] /\ (Held(p)' <=> Held(p)),
           UNCHANGED <<writer, wire>>,
           \A d \in Calls : d # c => pc'[d] = pc[d] /\ ret'[d] = ret[d]
    PROVE  /\ \A d \in Calls : d # c => /\ Stage(d)' = Stage(d)
                                        /\ Outcome(d)' = Outcome(d)
           /\ \A d \in Calls : OnWire(d)' <=> OnWire(d)
           /\ Stage(c) = StageIs(c) /\ Stage(c)' = StageIs(c)'
<1>1. \A d \in Calls : Stage(d) = StageIs(d) /\ Stage(d)' = StageIs(d)'
  BY StageOf, StageOfNext
<1>2. \A l \in Conns, w \in Message : InEncoder(l, w)' <=> InEncoder(l, w)
  BY DEF InEncoder, Outgoing
<1>3. \A d \in Calls : OnWire(d)' <=> OnWire(d)
  BY DEF OnWire
<1>4. \A d \in Calls : d # c => (Carried(d)' <=> Carried(d))
  BY <1>2, ClientAssumption DEF Carried
<1>5. \A d \in Calls : d # c => StageIs(d)' = StageIs(d)
  BY <1>3, <1>4 DEF StageIs
<1> QED
  BY <1>1, <1>3, <1>5 DEF Outcome

\* The queue and the writers hold what they held before.
LEMMA HeldSame ==
    ASSUME UNCHANGED <<requestsChan, writer>>
    PROVE  \A p \in Objs : Held(p)' <=> Held(p)
BY DEF Held

\* At the end of the queue: one object more, and none less.
LEMMA HeldAppended ==
    ASSUME requestsChan \in Seq(Objs), NEW o \in Objs,
           requestsChan' = Append(requestsChan, o), UNCHANGED writer
    PROVE  Held(o)' /\ \A p \in Objs : p # o => (Held(p)' <=> Held(p))
<1>1. /\ Len(requestsChan') = Len(requestsChan) + 1
      /\ \A i \in 1 .. Len(requestsChan) : requestsChan'[i] = requestsChan[i]
      /\ requestsChan'[Len(requestsChan) + 1] = o
      /\ Len(requestsChan) \in Nat
  OBVIOUS
<1>2. Len(requestsChan) + 1 \in 1 .. Len(requestsChan')
  BY <1>1
<1>3. Held(o)'
  BY <1>1, <1>2 DEF Held
<1>4. ASSUME NEW p \in Objs, p # o
      PROVE  Held(p)' <=> Held(p)
  <2>1. 1 .. Len(requestsChan') = (1 .. Len(requestsChan)) \cup {Len(requestsChan) + 1}
    BY <1>1
  <2> QED
    BY <1>1, <1>4, <2>1 DEF Held
<1> QED
  BY <1>3, <1>4

\* callAsync accepts a call, at once or after an eviction.
LEMMA AcceptStep ==
    ASSUME IInv, IInv', PlaceInv, NEW c \in Calls,
           callAsync(c) \/ callAsyncFull(c)
    PROVE  Abstract!Accept(c)
<1>0. /\ heap \in [Objs -> AsyncResult] /\ pool \subseteq Objs /\ fresh \subseteq Objs
      /\ pc \in [Calls -> {"idle", "evict", "again", "waiting", "returned"}]
      /\ ret \in [Calls -> Result] /\ requestsChan \in Seq(Objs)
  BY CallTypes DEF IInv, OwnInv
<1>1. /\ UNCHANGED connVars /\ pc[c] = "idle"
  BY DEF callAsync, callAsyncFull
<1>2. PICK o \in Objs :
        /\ o \in pool \cup fresh
        /\ heap' = [heap EXCEPT ![o] = Filled(@, c)]
        /\ \/ requestsChan' = Append(requestsChan, o) /\ Enqueued(c, o)
           \/ requestsChan' = requestsChan /\ pc' = [pc EXCEPT ![c] = "evict"]
              /\ ret' = ret
  BY <1>0 DEF callAsync, callAsyncFull, Acquirable
<1>3. /\ \A p \in Objs : p # o => heap'[p] = heap[p]
      /\ heap'[o].req = c /\ heap'[o].done # "closed" /\ heap[o].req = NoCall
  BY <1>0, <1>2 DEF Filled, AsyncResult, IInv, OwnInv, MemInv
<1>4. /\ \A d \in Calls : d # c => pc'[d] = pc[d] /\ ret'[d] = ret[d]
      /\ pc'[c] \in {"waiting", "returned", "evict"}
      /\ pc'[c] = "returned" => ret'[c] = Failed("nil")
      /\ pc'[c] # "evict" => requestsChan' = Append(requestsChan, o)
      /\ pc'[c] = "evict" => requestsChan' = requestsChan
  <2>1. CASE requestsChan' = Append(requestsChan, o) /\ Enqueued(c, o)
    BY <1>0, <2>1 DEF Enqueued, Return
  <2>2. CASE requestsChan' = requestsChan /\ pc' = [pc EXCEPT ![c] = "evict"]
             /\ ret' = ret
    BY <1>0, <2>2
  <2> QED
    BY <1>2, <2>1, <2>2
<1>5. /\ \A p \in Objs : p # o => (Held(p)' <=> Held(p))
      /\ pc'[c] # "evict" => Held(o)'
  BY <1>0, <1>1, <1>4, HeldSame, HeldAppended DEF connVars
<1>6. /\ \A d \in Calls : d # c => /\ Stage(d)' = Stage(d)
                                   /\ Outcome(d)' = Outcome(d)
      /\ OnWire(c)' <=> OnWire(c)
      /\ Stage(c) = StageIs(c) /\ Stage(c)' = StageIs(c)'
  BY <1>1, <1>3, <1>4, <1>5, OthersKept DEF connVars
<1>7. Stage(c) = "new"
  BY <1>1, <1>6 DEF StageIs
<1>8. Stage(c)' = "held"
  <2>1. ~OnWire(c)'
    BY <1>1, <1>6, Exclusive
  <2>2. pc'[c] # "evict" => Carried(c)'
    BY <1>3, <1>5 DEF Carried
  <2> QED
    BY <1>4, <1>6, <2>1, <2>2 DEF StageIs
<1>9. Outcome(c) = "none" /\ Outcome(c)' \in {"none", "nothing"}
  <2>1. ~HasAnswer(Failed("nil"), c)
    BY ClientAssumption DEF HasAnswer, Failed
  <2> QED
    BY <1>1, <1>4, <2>1 DEF Outcome
<1>10. AnsweredCalls' = AnsweredCalls
  <2>1. NoAnswer(o)
    <3>1. ~Live(o)
      BY <1>2 DEF Live
    <3> QED
      BY <1>2, <1>3, <3>1, NotMatched DEF NoAnswer, Bears
  <2>2. \A d \in Calls : WithCaller(d)' <=> WithCaller(d)
    <3>1. ~HasAnswer(Failed("nil"), c)
      BY ClientAssumption DEF HasAnswer, Failed
    <3> QED
      BY <1>1, <1>4, <3>1 DEF WithCaller
  <2> QED
    BY <1>1, <1>3, <2>1, <2>2, AnswerFrame DEF SameAnswer, connVars
<1> QED
  BY <1>6, <1>7, <1>8, <1>9, <1>10 DEF Abstract!Accept, Outcome

\* A call that overflows is refused: a Send at once, the others when they
\* found no place after the eviction.
LEMMA RefuseStep ==
    ASSUME IInv, IInv', PlaceInv, NEW c \in Calls,
           callAsyncSkipOverflow(c) \/ (callAsyncAgain(c) /\ Full)
    PROVE  Abstract!Refuse(c)
<1>0. /\ heap \in [Objs -> AsyncResult] /\ pool \subseteq Objs /\ fresh \subseteq Objs
      /\ pc \in [Calls -> {"idle", "evict", "again", "waiting", "returned"}]
      /\ ret \in [Calls -> Result]
  BY CallTypes DEF IInv, OwnInv
<1>1. /\ UNCHANGED <<requestsChan, connVars>> /\ pc[c] \in {"idle", "again"}
      /\ Return(c, Failed("overflow"))
  BY DEF callAsyncSkipOverflow, callAsyncAgain
<1>2. PICK o \in Objs : /\ heap[o].req \in {c, NoCall}
                        /\ heap[o].done # "closed" /\ ~Live(o)
                        /\ heap'[o].req = NoCall /\ heap'[o].done = "nil"
                        /\ \A p \in Objs : p # o => heap'[p] = heap[p]
                        /\ pc[c] = "idle" \/ heap[o].req = c
  <2>1. CASE callAsyncSkipOverflow(c)
    <3>1. PICK o \in Objs : /\ o \in pool \cup fresh
                            /\ heap' = [heap EXCEPT ![o] = Released(Filled(@, c))]
      BY <1>0, <2>1 DEF callAsyncSkipOverflow, Acquirable
    <3>2. heap[o].req = NoCall /\ heap[o].done = "nil" /\ ~Live(o)
      BY <3>1 DEF IInv, OwnInv, MemInv, Live
    <3>3. heap'[o].req = NoCall /\ heap'[o].done = "nil"
      BY <1>0, <3>1 DEF Released, Filled, AsyncResult
    <3>4. pc[c] = "idle"
      BY <2>1 DEF callAsyncSkipOverflow
    <3> QED
      BY <1>0, <3>1, <3>2, <3>3, <3>4
  <2>2. CASE callAsyncAgain(c) /\ Full
    <3>1. PICK o \in Objs : /\ o = ref[c]
                            /\ heap' = [heap EXCEPT ![o] = Released(@)]
      BY <2>2 DEF callAsyncAgain, IInv, OwnInv, CallerInv
    <3>2. pc[c] = "again"
      BY <2>2 DEF callAsyncAgain
    <3>3. heap[o].req = c /\ heap[o].done = "open" /\ ~Live(o)
      BY <3>1, <3>2 DEF IInv, OwnInv, CallerInv, Live
    <3>4. heap'[o].req = NoCall /\ heap'[o].done = "nil"
      BY <1>0, <3>1 DEF Released, AsyncResult
    <3> QED
      BY <1>0, <3>1, <3>3, <3>4
  <2> QED
    BY <2>1, <2>2
<1>3. /\ \A d \in Calls : d # c => pc'[d] = pc[d] /\ ret'[d] = ret[d]
      /\ pc'[c] = "returned" /\ ret'[c] = Failed("overflow")
  BY <1>0, <1>1 DEF Return
<1>4. \A p \in Objs : Held(p)' <=> Held(p)
  BY <1>1, HeldSame DEF connVars
<1>5. /\ \A d \in Calls : d # c => /\ Stage(d)' = Stage(d)
                                   /\ Outcome(d)' = Outcome(d)
      /\ OnWire(c)' <=> OnWire(c)
      /\ Stage(c) = StageIs(c) /\ Stage(c)' = StageIs(c)'
  BY <1>1, <1>2, <1>3, <1>4, OthersKept DEF connVars
<1>6. ~OnWire(c) /\ ~Carried(c)
  BY <1>1, Exclusive
<1>7. Stage(c) \in {"new", "held"}
  BY <1>1, <1>5, <1>6 DEF StageIs
<1>8. Stage(c)' = "over"
  <2>1. \A l \in Conns, w \in Message : InEncoder(l, w)' <=> InEncoder(l, w)
    BY <1>1 DEF InEncoder, Outgoing, connVars
  <2>2. ~Carried(c)'
    BY <1>2, <1>4, <1>6, <2>1, ClientAssumption DEF Carried
  <2> QED
    BY <1>3, <1>5, <1>6, <2>2 DEF StageIs
<1>9. Outcome(c) = "none" /\ Outcome(c)' = "nothing"
  <2>1. ~HasAnswer(Failed("overflow"), c)
    BY ClientAssumption DEF HasAnswer, Failed
  <2> QED
    BY <1>1, <1>3, <2>1 DEF Outcome
<1>10. AnsweredCalls' = AnsweredCalls
  <2>1. NoAnswer(o)
    BY <1>2, NotMatched DEF NoAnswer, Bears
  <2>2. \A d \in Calls : WithCaller(d)' <=> WithCaller(d)
    <3>1. ~HasAnswer(Failed("overflow"), c)
      BY ClientAssumption DEF HasAnswer, Failed
    <3> QED
      BY <1>1, <1>3, <3>1 DEF WithCaller
  <2> QED
    BY <1>1, <1>2, <2>1, <2>2, AnswerFrame DEF SameAnswer, connVars
<1> QED
  BY <1>5, <1>7, <1>8, <1>9, <1>10 DEF Abstract!Refuse, Outcome

\* A call that found a place after the eviction was held all the time.
LEMMA AgainStep ==
    ASSUME IInv, IInv', PlaceInv, NEW c \in Calls,
           callAsyncAgain(c), ~Full
    PROVE  Abstract!Next
<1>0. /\ heap \in [Objs -> AsyncResult] /\ requestsChan \in Seq(Objs)
      /\ pc \in [Calls -> {"idle", "evict", "again", "waiting", "returned"}]
      /\ ret \in [Calls -> Result]
  BY CallTypes DEF IInv, OwnInv
<1>1. PICK o \in Objs : o = ref[c] /\ heap[o].req = c /\ ~SkipResponse(c)
  BY DEF callAsyncAgain, IInv, OwnInv, CallerInv, SkipResponse
<1>2. /\ requestsChan' = Append(requestsChan, o)
      /\ UNCHANGED <<heap, connVars, ret>>
      /\ pc[c] = "again" /\ pc'[c] = "waiting"
      /\ \A d \in Calls : d # c => pc'[d] = pc[d] /\ ret'[d] = ret[d]
  BY <1>0, <1>1 DEF callAsyncAgain, Enqueued
<1>3. /\ Held(o)' /\ \A p \in Objs : p # o => (Held(p)' <=> Held(p))
  BY <1>0, <1>2, HeldAppended DEF connVars
<1>4. /\ \A d \in Calls : d # c => Stage(d)' = Stage(d)
      /\ OnWire(c)' <=> OnWire(c)
      /\ Stage(c) = StageIs(c) /\ Stage(c)' = StageIs(c)'
  BY <1>1, <1>2, <1>3, OthersKept DEF connVars
<1>5. Stage(c) = "held" /\ Stage(c)' = "held"
  <2>1. ~OnWire(c)
    BY <1>2, Exclusive
  <2>2. Carried(c)'
    BY <1>1, <1>2, <1>3 DEF Carried
  <2> QED
    BY <1>2, <1>4, <2>1, <2>2 DEF StageIs
<1>6. \A d \in Calls : Stage(d) \in {"new", "held", "sent", "over"}
  BY StageOf DEF StageIs
<1>7. \A d \in Calls : WithCaller(d)' <=> WithCaller(d)
  BY <1>2 DEF WithCaller
<1>8. AnsweredCalls' = AnsweredCalls
  BY <1>2, <1>7, AnswerFrame DEF SameAnswer, connVars
<1>9. \A d \in Calls : Outcome(d)' = Outcome(d)
  BY <1>2 DEF Outcome
<1>10. Abstract!Move
  <2>1. \A d \in Calls : Stage(d)' = Stage(d)
    BY <1>4, <1>5
  <2>2. \A s \in {"new", "held", "sent", "over"} : s \in Abstract!Later(s)
    BY DEF Abstract!Later
  <2> QED
    BY <1>6, <1>8, <1>9, <2>1, <2>2 DEF Abstract!Move, Outcome
<1> QED
  BY <1>10 DEF Abstract!Next

\* A waiting caller returns: its request stays where it is.
LEMMA Returning ==
    ASSUME IInv, IInv', PlaceInv, NEW c \in Calls, NEW o \in Objs,
           UNCHANGED <<requestsChan, connVars>>,
           pc[c] = "waiting", pc'[c] = "returned",
           \A d \in Calls : d # c => pc'[d] = pc[d] /\ ret'[d] = ret[d],
           \A p \in Objs : p # o => heap'[p] = heap[p],
           heap[o].req = c,
           heap'[o].req = c \/ (heap'[o].req = NoCall /\ ~Held(o)),
           AnsweredCalls' = AnsweredCalls,
           HasAnswer(ret'[c], c) => c \in AnsweredCalls
    PROVE  Abstract!Return(c)
<1>1. \A p \in Objs : Held(p)' <=> Held(p)
  BY HeldSame DEF connVars
<1>2. /\ \A d \in Calls : d # c => /\ Stage(d)' = Stage(d)
                                   /\ Outcome(d)' = Outcome(d)
      /\ OnWire(c)' <=> OnWire(c)
      /\ Stage(c) = StageIs(c) /\ Stage(c)' = StageIs(c)'
  BY <1>1, OthersKept DEF connVars
<1>3. Carried(c)' <=> Carried(c)
  <2>1. \A l \in Conns, w \in Message : InEncoder(l, w)' <=> InEncoder(l, w)
    BY DEF InEncoder, Outgoing, connVars
  <2>2. \A p \in Objs : Held(p) => (heap'[p].req = c <=> heap[p].req = c)
    OBVIOUS
  <2> QED
    BY <1>1, <2>1, <2>2 DEF Carried
<1>4. Stage(c)' = Stage(c)
  BY <1>2, <1>3 DEF StageIs
<1>5. /\ Outcome(c) = "none" /\ Outcome(c)' \in {"answer", "nothing"}
      /\ Outcome(c)' = "answer" => c \in AnsweredCalls
  BY DEF Outcome
<1> QED
  BY <1>2, <1>4, <1>5, ZenonT(30) DEF Abstract!Return, Outcome

\* What the three ways to return have in common.
LEMMA CallerReturns ==
    ASSUME IInv, NEW c \in Calls,
           CallDone(c) \/ CallTimeout(c) \/ AsyncDone(c)
    PROVE  /\ UNCHANGED <<requestsChan, connVars>>
           /\ pc[c] = "waiting" /\ pc'[c] = "returned"
           /\ \A d \in Calls : d # c => pc'[d] = pc[d] /\ ret'[d] = ret[d]
           /\ ref[c] \in Objs /\ heap[ref[c]].req = c
           /\ heap \in [Objs -> AsyncResult] /\ ret \in [Calls -> Result]
           /\ \A d \in Calls : d # c => (WithCaller(d)' <=> WithCaller(d))
           /\ WithCaller(c)' <=> HasAnswer(ret'[c], c)
           /\ ~WithCaller(c)
<1>0. /\ heap \in [Objs -> AsyncResult]
      /\ pc \in [Calls -> {"idle", "evict", "again", "waiting", "returned"}]
      /\ ret \in [Calls -> Result]
  BY CallTypes DEF IInv, OwnInv
<1>1. /\ UNCHANGED <<requestsChan, connVars>> /\ pc[c] = "waiting"
  BY DEF CallDone, CallTimeout, AsyncDone
<1>2. ref[c] \in Objs /\ heap[ref[c]].req = c
  BY <1>1 DEF IInv, OwnInv, CallerInv
<1>3. /\ \A d \in Calls : d # c => pc'[d] = pc[d] /\ ret'[d] = ret[d]
      /\ pc'[c] = "returned"
  BY <1>0 DEF CallDone, CallTimeout, AsyncDone, Return
<1>4. /\ \A d \in Calls : d # c => (WithCaller(d)' <=> WithCaller(d))
      /\ WithCaller(c)' <=> HasAnswer(ret'[c], c)
      /\ ~WithCaller(c)
  BY <1>1, <1>3 DEF WithCaller
<1> QED
  BY <1>0, <1>1, <1>2, <1>3, <1>4

\* After a timeout: an answer that came too late stays in the object.
LEMMA TimeoutStep ==
    ASSUME IInv, IInv', PlaceInv, NEW c \in Calls, CallTimeout(c)
    PROVE  Abstract!Return(c)
<1>1. PICK o \in Objs : o = ref[c]
  BY CallerReturns
<1>2. /\ ret'[c] = Failed("timeout")
      /\ heap' = [heap EXCEPT ![o].canceled = TRUE]
  BY <1>1, CallerReturns DEF CallTimeout, Abandon, Return
<1>3. /\ \A p \in Objs : p # o => heap'[p] = heap[p]
      /\ SameAnswer(o) /\ heap[o].req = c /\ heap'[o].req = c
  BY <1>1, <1>2, CallerReturns DEF AsyncResult, SameAnswer
<1>4. ~HasAnswer(ret'[c], c)
  BY <1>2, ClientAssumption DEF HasAnswer, Failed
<1>5. \A d \in Calls : WithCaller(d)' <=> WithCaller(d)
  BY <1>4, CallerReturns
<1>6. reader' = reader
  BY CallerReturns DEF connVars
<1>7. AnsweredCalls' = AnsweredCalls
  BY <1>3, <1>5, <1>6, AnswerFrame DEF SameAnswer
<1>8. /\ UNCHANGED <<requestsChan, connVars>>
      /\ pc[c] = "waiting" /\ pc'[c] = "returned"
      /\ \A d \in Calls : d # c => pc'[d] = pc[d] /\ ret'[d] = ret[d]
  BY CallerReturns
<1> QED
  BY <1>3, <1>4, <1>7, <1>8, Returning

\* After <-Done: what the object bears goes to the caller, and the object of
\* CallTimeout back to the pool.
LEMMA DoneStep ==
    ASSUME IInv, IInv', PlaceInv, NEW c \in Calls, CallDone(c) \/ AsyncDone(c)
    PROVE  Abstract!Return(c)
<1>1. PICK o \in Objs : o = ref[c]
  BY CallerReturns
<1>2. ret'[c] = ResultOf(o) /\ heap[o].done = "closed" /\ heap[o].req = c
  BY <1>1, CallerReturns DEF CallDone, AsyncDone, Return
<1>3. /\ \A p \in Objs : p # o => heap'[p] = heap[p]
      /\ \/ heap'[o] = heap[o]
         \/ heap'[o].req = NoCall /\ heap'[o].done = "nil"
  <2>1. CASE CallDone(c)
    <3>1. heap \in [Objs -> AsyncResult] /\ heap[o] \in AsyncResult
      BY CallerReturns
    <3>2. heap' = [heap EXCEPT ![o] = Released(@)]
      BY <1>1, <2>1 DEF CallDone
    <3> QED
      BY <3>1, <3>2 DEF Released, AsyncResult
  <2>2. CASE AsyncDone(c)
    BY <2>2 DEF AsyncDone, memVars
  <2> QED
    BY <2>1, <2>2
<1>4. HasAnswer(ret'[c], c) <=> Bears(o, c)
  BY <1>2 DEF HasAnswer, ResultOf, Bears
<1>5. ~Live(o) /\ ~Held(o)
  BY <1>2, HeldLive DEF Live
<1>6. reader' = reader
  BY CallerReturns DEF connVars
<1>7. AnsweredCalls' = AnsweredCalls
  <2>1. \A k \in Conns : reader[k].pc \in {"match", "got"} =>
          reader[k].m \in Objs /\ reader[k].m # o
    BY <1>5, NotMatched DEF IInv, OwnInv, TypeInv, ReaderHolds
  <2>2. \A d \in Calls : WithReader(d)' <=> WithReader(d)
    BY <1>3, <1>6, <2>1 DEF WithReader
  <2>3. \A d \in Calls, p \in Objs :
          d # c \/ p # o => (Bears(p, d)' <=> Bears(p, d))
    BY <1>2, <1>3, ClientAssumption DEF Bears, HasAnswer
  <2>4. Bears(o, c)' => Bears(o, c)
    BY <1>3, ClientAssumption DEF Bears, HasAnswer
  <2>5. /\ \A d \in Calls : d # c => (WithCaller(d)' <=> WithCaller(d))
        /\ WithCaller(c)' <=> Bears(o, c)
        /\ ~WithCaller(c)
    BY <1>4, CallerReturns
  <2>6. AnsweredCalls' = {d \in Calls : \/ WithReader(d)'
                                        \/ \E p \in Objs : Bears(p, d)'
                                        \/ WithCaller(d)'}
    BY DEF AnsweredCalls, WithReader, Bears, WithCaller
  <2> QED
    BY <2>2, <2>3, <2>4, <2>5, <2>6, AnsweredAre
<1>8. HasAnswer(ret'[c], c) => c \in AnsweredCalls
  BY <1>4, AnsweredAre
<1>9. /\ UNCHANGED <<requestsChan, connVars>>
      /\ pc[c] = "waiting" /\ pc'[c] = "returned"
      /\ \A d \in Calls : d # c => pc'[d] = pc[d] /\ ret'[d] = ret[d]
  BY CallerReturns
<1> QED
  BY <1>2, <1>3, <1>5, <1>7, <1>8, <1>9, Returning

\* Eviction completes a request that was not sent.
LEMMA EvictStep ==
    ASSUME IInv, IInv', PlaceInv, NEW c \in Calls, callAsyncEvict(c)
    PROVE  Abstract!Next
<1>0. /\ requestsChan \in Seq(Objs)
      /\ pc \in [Calls -> {"idle", "evict", "again", "waiting", "returned"}]
  BY CallTypes DEF IInv, OwnInv
<1>1. /\ UNCHANGED <<ret, connVars>>
      /\ \A d \in Calls : \/ pc'[d] = pc[d]
                          \/ pc[d] = "evict" /\ pc'[d] = "again"
  BY <1>0 DEF callAsyncEvict
<1>2. \A p \in Objs : SameAnswer(p) \/ NoAnswer(p)
  <2>1. CASE requestsChan = <<>>
    BY <2>1 DEF callAsyncEvict, SameAnswer
  <2>2. CASE requestsChan # <<>>
    <3>1. PICK h \in Objs : /\ h = Head(requestsChan) /\ h = requestsChan[1]
                            /\ 1 \in 1 .. Len(requestsChan)
      BY <1>0, <2>2
    <3>2. Held(h) /\ Discard(h, "overflow")
      BY <2>2, <3>1 DEF Held, callAsyncEvict
    <3> QED
      BY <3>2, DiscardAnswers
  <2> QED
    BY <2>1, <2>2
<1>3. \A d \in Calls : WithCaller(d)' <=> WithCaller(d)
  BY <1>1 DEF WithCaller
<1>4. AnsweredCalls' = AnsweredCalls
  BY <1>1, <1>2, <1>3, AnswerFrame DEF connVars
<1>5. Forward
  BY EvictPlace
<1> QED
  BY <1>1, <1>4, <1>5, MoveStep

\* AsyncResult.Cancel by itself changes nothing.
LEMMA CancelStep ==
    ASSUME IInv, IInv', PlaceInv, NEW c \in Calls, Cancel(c)
    PROVE  Abstract!Next
<1>0. heap \in [Objs -> AsyncResult]
  BY CallTypes DEF IInv, OwnInv
<1>1. UNCHANGED <<pc, ret, connVars>>
  BY DEF Cancel
<1>2. PICK o \in Objs : heap' = [heap EXCEPT ![o].canceled = TRUE]
  BY DEF Cancel, IInv, OwnInv, CallerInv
<1>3. \A p \in Objs : SameAnswer(p)
  BY <1>0, <1>2 DEF SameAnswer, AsyncResult
<1>4. \A d \in Calls : WithCaller(d)' <=> WithCaller(d)
  BY <1>1 DEF WithCaller
<1>5. AnsweredCalls' = AnsweredCalls
  BY <1>1, <1>3, <1>4, AnswerFrame DEF connVars
<1>6. Forward
  BY ReturnPlace
<1> QED
  BY <1>1, <1>5, <1>6, MoveStep

\* The steps of a caller.
LEMMA CallStepAbstract ==
    ASSUME IInv, IInv', PlaceInv, NEW c \in Calls, CallStep(c)
    PROVE  Abstract!Next
<1>1. CASE callAsync(c) \/ callAsyncFull(c)
  BY <1>1, AcceptStep DEF Abstract!Next
<1>2. CASE callAsyncSkipOverflow(c) \/ (callAsyncAgain(c) /\ Full)
  BY <1>2, RefuseStep DEF Abstract!Next
<1>3. CASE callAsyncAgain(c) /\ ~Full
  BY <1>3, AgainStep
<1>4. CASE CallTimeout(c)
  BY <1>4, TimeoutStep DEF Abstract!Next
<1>5. CASE CallDone(c) \/ AsyncDone(c)
  BY <1>5, DoneStep DEF Abstract!Next
<1> QED
  BY <1>1, <1>2, <1>3, <1>4, <1>5, EvictStep, CancelStep DEF CallStep

-----------------------------------------------------------------------------
(* The goroutines of a connection.                                          *)

\* clientWriter moves requests on, and drops canceled ones.
LEMMA WriterStep ==
    ASSUME IInv, IInv', PlaceInv, NEW k \in Conns, clientWriter(k)
    PROVE  Abstract!Next
<1> USE DEF sharedVars, callVars, memVars
<1>0. heap \in [Objs -> AsyncResult]
  BY CallTypes DEF IInv, OwnInv
<1>1. UNCHANGED <<pc, ret, reader>>
  BY DEF clientWriter, WriterTake, WriterBlock, WriterStop, WriterFlush,
         WriterFlushFail, WriterCanceled, WriterSkip, WriterRegister,
         WriterCount, WriterBuffer, WriterSend, WriterEncodeFail
<1>2. \A p \in Objs : SameAnswer(p) \/ NoAnswer(p)
  <2>1. CASE WriterCanceled(k) \/ WriterSkip(k)
    <3>1. PICK o \in Objs : o = writer[k].m /\ Held(o)
      BY <2>1 DEF WriterCanceled, WriterSkip, IInv, OwnInv, TypeInv, WriterHolds, Held
    <3>2. CASE WriterCanceled(k)
      BY <3>1, <3>2, DiscardAnswers DEF WriterCanceled
    <3>3. CASE WriterSkip(k)
      <4>1. /\ \A p \in Objs : p # o => heap'[p] = heap[p]
            /\ heap'[o].done = "nil"
        BY <1>0, <3>1, <3>3 DEF WriterSkip, Released, AsyncResult
      <4>2. Live(o)
        BY <3>1, HeldLive
      <4>3. NoAnswer(o)
        BY <3>1, <4>1, <4>2, NotMatched DEF NoAnswer, Bears
      <4> QED
        BY <4>1, <4>3 DEF SameAnswer
    <3> QED
      BY <2>1, <3>2, <3>3
  <2>2. CASE ~(WriterCanceled(k) \/ WriterSkip(k))
    <3>1. heap' = heap
      BY <2>2 DEF clientWriter, WriterTake, WriterBlock, WriterStop,
         WriterFlush, WriterFlushFail, WriterRegister, WriterCount,
         WriterBuffer, WriterSend, WriterEncodeFail
    <3> QED
      BY <3>1 DEF SameAnswer
  <2> QED
    BY <2>1, <2>2
<1>3. \A d \in Calls : WithCaller(d)' <=> WithCaller(d)
  BY <1>1 DEF WithCaller
<1>4. AnsweredCalls' = AnsweredCalls
  BY <1>1, <1>2, <1>3, AnswerFrame
<1>5. Forward
  BY WaitPlace, EncodePlace, TurnPlace, CountPlace DEF clientWriter
<1> QED
  BY <1>1, <1>4, <1>5, MoveStep

\* A response is matched: the server answered what it had received, once.
LEMMA MatchStep ==
    ASSUME IInv, IInv', PlaceInv, AnswerInv, NEW k \in Conns, ReaderMatch(k)
    PROVE  Abstract!Next
<1> USE DEF sharedVars, callVars, memVars
<1>0. /\ reader \in [Conns -> Reader] /\ wire \in [Conns -> SUBSET Message]
  BY ConnTypes DEF IInv, OwnInv
<1>1. /\ UNCHANGED <<pc, ret, heap, requestsChan, writer>>
      /\ reader[k].pc = "read"
  BY DEF ReaderMatch
<1>2. PICK w \in wire[k], e \in {"nil", "server"} : ReaderMatch(k)!3!(w, e)
  BY DEF ReaderMatch
<1>3. w \in Message /\ w.id \in IDs
  <2>1. w \in Message
    BY <1>0, <1>2
  <2> QED
    BY <2>1 DEF Message
<1>4. heap[pending[k][w.id]].req = w.call /\ w.call \in Calls
  <2>1. ~Ended(k)
    BY DEF ReaderMatch, ConnOpen, Ended
  <2>2. pending[k][w.id] # NoObj /\ w.id # 0
    BY <1>2
  <2>3. Live(pending[k][w.id])
    BY <1>3, <2>2 DEF IInv, OwnInv, ConnSlots
  <2>4. heap[pending[k][w.id]].req = w.call
    <3>1. Registered(k, w)
      BY <2>1 DEF IInv, OwnInv, MessageInv
    <3> QED
      BY <2>2, <3>1 DEF Registered
  <2> QED
    BY <2>3, <2>4 DEF Live
<1>5. PICK c \in Calls : c = w.call
  BY <1>4
<1>6. /\ \A l \in Conns : l # k => wire'[l] = wire[l] /\ reader'[l] = reader[l]
      /\ wire'[k] = wire[k] \ {w}
      /\ reader'[k].pc \in {"match", "got"} /\ reader'[k].m = pending[k][w.id]
  BY <1>0, <1>2
<1>7. \A d \in Calls : Carried(d)' <=> Carried(d)
  BY <1>1 DEF Carried, Held, InEncoder, Outgoing
<1>8. \A d \in Calls : d # c => (OnWire(d)' <=> OnWire(d))
  BY <1>5, <1>6 DEF OnWire
<1>9. OnWire(c) /\ ~OnWire(c)'
  <2>1. OnWire(c)
    BY <1>2, <1>3, <1>5 DEF OnWire
  <2>2. \A l \in Conns, v \in Message :
          v \in wire[l] /\ v.call = c => l = k /\ v = w
    BY <1>2, <1>3, <1>5 DEF PlaceInv, OneMessage
  <2> QED
    BY <1>6, <2>1, <2>2 DEF OnWire
<1>10. ~Carried(c) /\ pc[c] \in {"waiting", "returned"}
  BY <1>9, Exclusive
<1>11. /\ \A d \in Calls : d # c => Stage(d)' = Stage(d)
       /\ Stage(c) = "sent" /\ Stage(c)' = "over"
  <2>1. \A d \in Calls : Stage(d) = StageIs(d) /\ Stage(d)' = StageIs(d)'
    BY StageOf, StageOfNext
  <2> QED
    BY <1>1, <1>7, <1>8, <1>9, <1>10, <2>1 DEF StageIs
<1>12. c \notin AnsweredCalls
  BY <1>11 DEF AnswerInv
<1>13. AnsweredCalls' = AnsweredCalls \cup {c}
  <2>1. \A d \in Calls : WithReader(d)' <=> WithReader(d) \/ d = c
    BY <1>1, <1>4, <1>5, <1>6 DEF WithReader
  <2>2. /\ \A d \in Calls, p \in Objs : Bears(p, d)' <=> Bears(p, d)
        /\ \A d \in Calls : WithCaller(d)' <=> WithCaller(d)
    BY <1>1 DEF Bears, HasAnswer, WithCaller
  <2>3. AnsweredCalls' = {d \in Calls : \/ WithReader(d)'
                                        \/ \E p \in Objs : Bears(p, d)'
                                        \/ WithCaller(d)'}
    BY DEF AnsweredCalls, WithReader, Bears, WithCaller
  <2> QED
    BY <2>1, <2>2, <2>3, AnsweredAre
<1>14. \A d \in Calls : Outcome(d)' = Outcome(d)
  BY <1>1 DEF Outcome
<1>15. Abstract!Answer(c)
  BY <1>11, <1>12, <1>13, <1>14 DEF Abstract!Answer, Outcome
<1> QED
  BY <1>15 DEF Abstract!Next

\* The answer goes from the reader into the object.
LEMMA CompleteStep ==
    ASSUME IInv, IInv', PlaceInv, NEW k \in Conns, ReaderComplete(k)
    PROVE  Abstract!Next
<1> USE DEF callVars
<1>0. /\ reader \in [Conns -> Reader] /\ heap \in [Objs -> AsyncResult]
  BY ConnTypes, CallTypes DEF IInv, OwnInv
<1>1. /\ UNCHANGED <<pc, ret>> /\ reader[k].pc = "got"
  BY DEF ReaderComplete
<1>2. PICK o \in Objs : o = reader[k].m
  BY <1>1 DEF IInv, OwnInv, TypeInv, ReaderHolds
<1>3. /\ heap[o].req \in Calls /\ heap[o].done # "closed"
      /\ reader[k].err = "nil" => reader[k].call = heap[o].req
  BY <1>1, <1>2, ClientAssumption DEF IInv, OwnInv, ConnSlots, Live
<1>4. PICK c \in Calls : c = heap[o].req
  BY <1>3
<1>5. /\ \A p \in Objs : p # o => heap'[p] = heap[p]
      /\ heap'[o].req = c /\ heap'[o].done = "closed"
      /\ heap'[o].body = c \/ heap'[o].err = "server"
  <2>1. heap'[o] = Answered(heap[o], reader[k].call, reader[k].err)
    BY <1>0, <1>2 DEF ReaderComplete
  <2>2. heap[o] \in AsyncResult
    BY <1>0
  <2>3. \A p \in Objs : p # o => heap'[p] = heap[p]
    BY <1>0, <1>2 DEF ReaderComplete
  <2> QED
    BY <1>3, <1>4, <2>1, <2>2, <2>3 DEF Answered, AsyncResult
<1>6. /\ \A l \in Conns : l # k => reader'[l] = reader[l]
      /\ reader'[k].pc = "read"
  BY <1>0 DEF ReaderComplete, NewReader
<1>7. \A l \in Conns : l # k /\ reader[l].pc \in {"match", "got"} =>
        reader[l].m \in Objs /\ reader[l].m # o
  BY <1>2, ClientAssumption DEF IInv, OwnInv, TypeInv, ReaderHolds, ConnDistinct
<1>8. AnsweredCalls' = AnsweredCalls
  <2>1. /\ WithReader(c)
        /\ \A d \in Calls : d # c => (WithReader(d)' <=> WithReader(d))
    BY <1>1, <1>2, <1>4, <1>5, <1>6, <1>7 DEF WithReader
  <2>2. /\ Bears(o, c)'
        /\ \A d \in Calls, p \in Objs : d # c => (Bears(p, d)' <=> Bears(p, d))
    BY <1>3, <1>4, <1>5 DEF Bears, HasAnswer
  <2>3. \A d \in Calls : WithCaller(d)' <=> WithCaller(d)
    BY <1>1 DEF WithCaller
  <2>4. AnsweredCalls' = {d \in Calls : \/ WithReader(d)'
                                        \/ \E p \in Objs : Bears(p, d)'
                                        \/ WithCaller(d)'}
    BY DEF AnsweredCalls, WithReader, Bears, WithCaller
  <2> QED
    BY <2>1, <2>2, <2>3, <2>4, AnsweredAre
<1>9. Forward
  BY RestPlace DEF clientReader
<1> QED
  BY <1>1, <1>8, <1>9, MoveStep

\* Teardown completes without an answer, and starts and stops lose requests.
LEMMA HandlerStep ==
    ASSUME IInv, IInv', PlaceInv, MapInv,
           \/ \E k \in Conns : \/ ReaderCount(k) \/ ReaderFail(k)
                              \/ clientHandler(k)
           \/ Stop \/ StopReturn \/ Start
    PROVE  Abstract!Next
<1> USE DEF sharedVars, callVars, memVars, connVars
<1>0. /\ reader \in [Conns -> Reader] /\ heap \in [Objs -> AsyncResult]
      /\ handler \in [Conns -> Handler]
  BY ConnTypes, CallTypes DEF IInv, OwnInv
<1>1. UNCHANGED <<pc, ret>>
  BY DEF ReaderCount, ReaderFail, clientHandler, HandlerConnect,
     HandlerDialFail, HandlerSetupFail, HandlerRedial, HandlerStop,
     HandlerClose, HandlerCount, HandlerDrop, HandlerTeardown, Stop,
     StopReturn, Start
<1>2. \A l \in Conns :
        /\ reader'[l].pc \in {"match", "got"} <=> reader[l].pc \in {"match", "got"}
        /\ reader[l].pc \in {"match", "got"} => reader'[l].m = reader[l].m
  <2>1. ASSUME NEW k \in Conns,
               HandlerConnect(k) \/ HandlerTeardown(k) \/ ReaderFail(k)
        PROVE  /\ reader[k].pc \notin {"match", "got"}
               /\ reader'[k].pc \notin {"match", "got"}
               /\ \A l \in Conns : l # k => reader'[l] = reader[l]
    <3>1. reader[k].pc \notin {"match", "got"}
      BY <2>1 DEF HandlerConnect, HandlerTeardown, ReaderFail, MapInv,
                  IdleInv, Served
    <3>2. /\ reader'[k].pc \notin {"match", "got"}
          /\ \A l \in Conns : l # k => reader'[l] = reader[l]
      BY <1>0, <2>1 DEF HandlerConnect, HandlerTeardown, ReaderFail,
                        NewReader, Reader
    <3> QED
      BY <3>1, <3>2
  <2>2. ASSUME NEW k \in Conns, ReaderCount(k)
        PROVE  /\ reader[k].pc = "match" /\ reader'[k].pc = "got"
               /\ reader'[k].m = reader[k].m
               /\ \A l \in Conns : l # k => reader'[l] = reader[l]
    BY <1>0, <2>2 DEF ReaderCount, Reader
  <2>3. CASE ~\E k \in Conns : \/ HandlerConnect(k) \/ HandlerTeardown(k)
                              \/ ReaderFail(k) \/ ReaderCount(k)
    <3>1. reader' = reader
      BY <2>3 DEF clientHandler, HandlerDialFail, HandlerSetupFail,
         HandlerRedial, HandlerStop, HandlerClose, HandlerCount, HandlerDrop,
         Stop, StopReturn, Start
    <3> QED
      BY <3>1
  <2> QED
    BY <2>1, <2>2, <2>3
<1>3. \A p \in Objs : SameAnswer(p) \/ NoAnswer(p)
  <2>1. CASE \E k \in Conns : HandlerDrop(k)
    <3>1. PICK k \in Conns : HandlerDrop(k)
      BY <2>1
    <3>2. PICK id \in Left(k) :
            heap' = [heap EXCEPT ![pending[k][id]] =
                        Completed(@, handler[k].err)]
      BY <3>1 DEF HandlerDrop
    <3>3. PICK p \in Objs : p = pending[k][id] /\ id \in IDs
      BY <3>2, ConnTypes DEF Left, PendingIDs, IInv, OwnInv
    <3>4. Live(p) /\ \A l \in Conns : reader[l].m # p
      BY <3>3, ClientAssumption DEF IInv, OwnInv, ConnSlots, ConnDistinct
    <3>5. /\ heap'[p] = Completed(heap[p], handler[k].err)
          /\ heap[p] \in AsyncResult
          /\ \A o \in Objs : o # p => heap'[o] = heap[o]
      BY <1>0, <3>2, <3>3
    <3>6. heap'[p].body = NoCall /\ heap'[p].err \in {"nil", "conn"}
      BY <1>0, <3>4, <3>5 DEF Completed, AsyncResult, Live, Handler
    <3>7. \A c \in Calls : ~Bears(p, c)'
      BY <3>6, ClientAssumption DEF Bears, HasAnswer
    <3>8. NoAnswer(p)
      BY <3>4, <3>7 DEF NoAnswer, Bears, Live
    <3> QED
      BY <3>5, <3>8 DEF SameAnswer
  <2>2. CASE ~\E k \in Conns : HandlerDrop(k)
    <3>1. heap' = heap
      BY <2>2 DEF ReaderCount, ReaderFail, clientHandler, HandlerConnect,
         HandlerDialFail, HandlerSetupFail, HandlerRedial, HandlerStop,
         HandlerClose, HandlerCount, HandlerTeardown, Stop, StopReturn, Start
    <3> QED
      BY <3>1 DEF SameAnswer
  <2> QED
    BY <2>1, <2>2
<1>4. \A d \in Calls : WithCaller(d)' <=> WithCaller(d)
  BY <1>1 DEF WithCaller
<1>5. AnsweredCalls' = AnsweredCalls
  BY <1>2, <1>3, <1>4, AnswerFrame
<1>6. Forward
  BY RestPlace DEF clientReader
<1> QED
  BY <1>1, <1>5, <1>6, MoveStep

-----------------------------------------------------------------------------
(* The refinement.                                                          *)

\* Every step of the client is one of the abstract calls, or changes nothing
\* that they know of.
LEMMA NextAbstract ==
    IInv /\ IInv' /\ PlaceInv /\ MapInv /\ AnswerInv /\ [Next]_vars =>
        [Abstract!Next]_(Abstract!vars)
<1> SUFFICES ASSUME IInv, IInv', PlaceInv, MapInv, AnswerInv, [Next]_vars
             PROVE  [Abstract!Next]_(Abstract!vars)
  OBVIOUS
<1>1. CASE UNCHANGED vars
  <2>1. \A d \in Calls : Stage(d)' = Stage(d) /\ Outcome(d)' = Outcome(d)
    BY <1>1 DEF vars, Stage, Whereabouts, Taken, Outgoing, Outcome
  <2>2. AnsweredCalls' = AnsweredCalls
    BY <1>1 DEF vars, AnsweredCalls
  <2> QED
    BY <2>1, <2>2 DEF Abstract!vars, Outcome
<1>2. CASE Next
  <2>1. CASE \E c \in Calls : CallStep(c)
    BY <2>1, CallStepAbstract
  <2>2. CASE \E k \in Conns : clientWriter(k)
    BY <2>2, WriterStep
  <2>3. CASE \E k \in Conns : clientReader(k)
    BY <2>3, MatchStep, CompleteStep, HandlerStep DEF clientReader
  <2> QED
    BY <1>2, <2>1, <2>2, <2>3, HandlerStep DEF Next
<1> QED
  BY <1>1, <1>2

\* In the abstract calls, an answered request is over for good.
LEMMA AnswerOver ==
    AnswerInv /\ [Abstract!Next]_(Abstract!vars) => AnswerInv'
<1> SUFFICES ASSUME AnswerInv, [Abstract!Next]_(Abstract!vars) PROVE AnswerInv'
  OBVIOUS
<1> DEFINE stage == [c \in Calls |-> Stage(c)]
<1>1. AnsweredCalls \subseteq Calls /\ AnsweredCalls' \subseteq Calls
  BY DEF AnsweredCalls
<1>2. \A c \in AnsweredCalls : stage[c] = "over"
  BY <1>1 DEF AnswerInv
<1>3. \A c \in AnsweredCalls' : stage'[c] = "over"
  <2>1. CASE Abstract!Move
    BY <1>1, <1>2, <2>1 DEF Abstract!Move, Abstract!Later
  <2>2. CASE \E c \in Calls : Abstract!Accept(c)
    BY <1>1, <1>2, <2>2 DEF Abstract!Accept
  <2>3. CASE \E c \in Calls : Abstract!Refuse(c)
    BY <1>1, <1>2, <2>3 DEF Abstract!Refuse
  <2>4. CASE \E c \in Calls : Abstract!Answer(c)
    BY <1>1, <1>2, <2>4 DEF Abstract!Answer
  <2>5. CASE \E c \in Calls : Abstract!Return(c)
    BY <1>1, <1>2, <2>5 DEF Abstract!Return
  <2>6. CASE UNCHANGED Abstract!vars
    BY <1>1, <1>2, <2>6 DEF Abstract!vars
  <2> QED
    BY <2>1, <2>2, <2>3, <2>4, <2>5, <2>6 DEF Abstract!Next
<1> QED
  BY <1>1, <1>3 DEF AnswerInv

\* Nothing was asked yet.
LEMMA InitAbstract == Init => AnswerInv /\ Abstract!Init
<1> SUFFICES ASSUME Init PROVE AnswerInv /\ Abstract!Init
  OBVIOUS
<1>1. /\ \A c \in Calls : Stage(c) = "new" /\ Outcome(c) = "none"
  BY DEF Init, Stage, Outcome
<1>2. AnsweredCalls = {}
  <2>1. /\ \A k \in Conns : reader[k].pc = "off"
        /\ \A o \in Objs : heap[o].done = "nil"
        /\ \A c \in Calls : pc[c] = "idle"
    BY DEF Init, NewReader, NewAsyncResult
  <2> QED
    BY <2>1 DEF AnsweredCalls
<1> QED
  BY <1>1, <1>2 DEF AnswerInv, Abstract!Init, Outcome

\* ImplementsAtMostOnce: whatever happens to connections, queue, timers and
\* the objects of the pool, a request that callAsync accepted reaches the
\* server at most once, is answered at most once and only after that, and
\* the caller gets an answer only if there was one.
THEOREM AtMostOnceCorrect == Spec => ImplementsAtMostOnce
<1>1. Abstract!Spec <=> Abstract!Init /\ [][Abstract!Next]_(Abstract!vars)
  BY DEF Abstract!Spec
<1> QED
  BY <1>1, InitAbstract, NextAbstract, AnswerOver, PlaceInductive,
     MapInductive, PTL DEF Spec, ImplementsAtMostOnce
=============================================================================
