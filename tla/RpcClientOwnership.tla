------------------------- MODULE RpcClientOwnership -------------------------
(***************************************************************************)
(* RpcClient: who owns an AsyncResult.  An inductive invariant, and from   *)
(* it ExclusiveOwnership, NoDoubleClose, ResponseMatchesCall and           *)
(* CanceledOnlyIfAsked for every instance.                                 *)
(***************************************************************************)
EXTENDS RpcClientProofs

-----------------------------------------------------------------------------
(* Ownership.  The inductive invariant says where an AsyncResult may be in  *)
(* each stage of its life, and what its fields then hold.                   *)

\* o is on its way: queued, in the writer's hands, pending, or matched with
\* its response.  Nobody has completed it and its caller was accepted.
Live(o) ==
    /\ o \in Objs /\ o \notin pool /\ o \notin fresh
    /\ heap[o].req \in Calls /\ pc[heap[o].req] \in {"waiting", "returned"}
    /\ heap[o].done # "closed" /\ heap[o].err = "nil" /\ heap[o].body = NoCall

QueueSlots == \A i \in 1 .. Len(requestsChan) : Live(requestsChan[i])
ConnSlots ==
    /\ \A k \in Conns : writer[k].m # NoObj => Live(writer[k].m)
    /\ \A k \in Conns, id \in IDs : pending[k][id] # NoObj =>
          Live(pending[k][id]) /\ heap[pending[k][id]].done = "open"
    /\ \A k \in Conns : reader[k].m # NoObj =>
          /\ Live(reader[k].m) /\ heap[reader[k].m].done = "open"
          /\ reader[k].call \in {NoCall, heap[reader[k].m].req}
          /\ reader[k].err = "nil" => reader[k].call = heap[reader[k].m].req

\* No object is in two of these places.
QueueDistinct ==
    /\ \A i, j \in 1 .. Len(requestsChan) :
          requestsChan[i] = requestsChan[j] => i = j
    /\ \A i \in 1 .. Len(requestsChan), k \in Conns :
          /\ requestsChan[i] # writer[k].m
          /\ requestsChan[i] # reader[k].m
          /\ \A id \in IDs : requestsChan[i] # pending[k][id]
ConnDistinct ==
    \A k, l \in Conns :
        /\ writer[k].m # NoObj =>
              /\ writer[k].m = writer[l].m => k = l
              /\ writer[k].m # reader[l].m
              /\ \A id \in IDs : writer[k].m # pending[l][id]
        /\ reader[k].m # NoObj =>
              /\ reader[k].m = reader[l].m => k = l
              /\ \A id \in IDs : reader[k].m # pending[l][id]
        /\ \A i, j \in IDs :
              (pending[k][i] # NoObj /\ pending[k][i] = pending[l][j]) =>
                  k = l /\ i = j

\* The fields of an object, whoever holds it.  The strict part is about who sets the
\* canceled flag, here and below.
MemInv(strict) == \A o \in Objs :
    /\ o \in pool \cup fresh => /\ heap[o].req = NoCall
                                /\ heap[o].done = "nil"
                                /\ heap[o].err = "nil"
                                /\ heap[o].body = NoCall
    /\ strict /\ heap[o].done = "nil" => ~heap[o].canceled
    /\ heap[o].err = "canceled" => heap[o].canceled

\* What a caller finds in its object.
CallerInv(strict) == \A c \in Calls :
    /\ pc[c] \in {"evict", "again", "waiting"} =>
          /\ ref[c] \in Objs /\ ref[c] \notin pool /\ ref[c] \notin fresh
          /\ heap[ref[c]].req = c /\ heap[ref[c]].done # "nil"
          /\ strict /\ heap[ref[c]].canceled => c \in cancels
          /\ Kind[c] # "send"
    /\ pc[c] \in {"evict", "again"} =>
          /\ heap[ref[c]].done = "open" /\ heap[ref[c]].err = "nil"
          /\ heap[ref[c]].body = NoCall /\ (strict => ~heap[ref[c]].canceled)
    /\ pc[c] = "waiting" =>
          /\ heap[ref[c]].body \in {NoCall, c}
          /\ (heap[ref[c]].done = "closed" /\ heap[ref[c]].err = "nil"
                /\ stops = 0) => heap[ref[c]].body = c /\ heap[ref[c]].hdr = c
    /\ strict /\ c \in cancels => Kind[c] = "async"

\* What a caller returned.
RetOK(c, r, strict) ==
    /\ r.body \in {NoCall, c}
    /\ (r.err = "nil" /\ Kind[c] # "send" /\ stops = 0) =>
          r.body = c /\ r.hdr = c
    /\ strict /\ r.err = "canceled" => c \in cancels
RetInv(strict) == \A c \in Calls :
    /\ pc[c] = "returned" => RetOK(c, ret[c], strict)
    /\ strict /\ ret[c].err = "canceled" => c \in cancels

\* A request with an ID that is in the encoder or on the wire is pending
\* under that ID, and it is in one of them only, until the final loop over the
\* map.
Registered(k, w) ==
    w.id # 0 => /\ pending[k][w.id] # NoObj
                /\ heap[pending[k][w.id]].req = w.call
Ended(k) == handler[k].pc \in {"closing", "dropping"} /\ writer[k].pc = "done"
MessageInv == \A k \in Conns :
    /\ ~Ended(k) => \A w \in wire[k] : Registered(k, w)
    /\ writer[k].pc # "done" =>
          /\ \A w \in writer[k].buf : Registered(k, w)
                                      /\ (w.id # 0 => w \notin wire[k])
          /\ Registered(k, writer[k].wr)
          /\ writer[k].wr.id # 0 => writer[k].wr \notin wire[k]
          /\ writer[k].pc \notin {"count", "stuck", "encode"} =>
                writer[k].wr.id = 0

\* A connection is closed without an error by Stop only, and Stop waits for
\* all of them.
StopInv ==
    /\ client # "running" => stops > 0
    /\ client = "stopped" => \A k \in Conns : handler[k].pc = "stopped"
    /\ \A k \in Conns :
          handler[k].pc \in {"closing", "dropping"} /\ handler[k].err = "nil" =>
              stops > 0

\* The client by itself keeps the strict invariant.  Where a batch sets the canceled
\* flag of objects that are not its own any more, everything but the flag is kept.
OwnInv(strict) ==
    /\ TypeInv /\ QueueSlots /\ ConnSlots /\ QueueDistinct /\ ConnDistinct
    /\ MemInv(strict) /\ CallerInv(strict) /\ RetInv(strict) /\ MessageInv /\ StopInv

IInv == OwnInv(TRUE)

-----------------------------------------------------------------------------
(* Frames.                                                                  *)

\* An accepted caller stays accepted.
PcKept == \A c \in Calls :
    pc[c] \in {"waiting", "returned"} => pc'[c] \in {"waiting", "returned"}

\* Nothing that matters to the client's goroutines happened to p.
Same(p) == Live(p)' /\ heap'[p].req = heap[p].req /\ heap'[p].done = heap[p].done

\* No goroutine of a connection holds x.
OffConns(x) == \A k \in Conns :
    /\ writer[k].m # x /\ reader[k].m # x
    /\ \A id \in IDs : pending[k][id] # x

\* An object whose record and pool membership did not change.
LEMMA LiveKept ==
    ASSUME NEW p, Live(p), PcKept, heap'[p] = heap[p],
           p \notin pool', p \notin fresh'
    PROVE  Same(p)
BY DEF Live, PcKept, Same

\* A step of a caller that touches no object held by a connection.
LEMMA ConnFrame ==
    ASSUME TypeInv, ConnSlots, ConnDistinct, MessageInv,
           UNCHANGED connVars,
           \A p \in Objs : Live(p) => Same(p) \/ OffConns(p)
    PROVE  ConnSlots' /\ ConnDistinct' /\ MessageInv'
<1> USE DEF connVars
<1>1. \A k \in Conns :
        /\ writer[k].m # NoObj => Same(writer[k].m)
        /\ reader[k].m # NoObj => Same(reader[k].m)
        /\ \A id \in IDs : pending[k][id] # NoObj => Same(pending[k][id])
  <2>1. \A p : Live(p) => p \in Objs
    BY DEF Live
  <2> QED
    BY <2>1 DEF ConnSlots, OffConns
<1>2. ConnSlots'
  BY <1>1 DEF ConnSlots, Same
<1>3. ConnDistinct'
  BY DEF ConnDistinct
<1>4. MessageInv'
  <2>0. wire \in [Conns -> SUBSET Message] /\ writer \in [Conns -> Writer]
    BY DEF TypeInv, TypeOK, ConnTypeOK
  <2>1. \A k \in Conns, w \in Message : Registered(k, w) => Registered(k, w)'
    BY <1>1 DEF Registered, Same, Message
  <2>2. \A k \in Conns : /\ wire[k] \subseteq Message
                         /\ writer[k].buf \subseteq Message
                         /\ writer[k].wr \in Message
    BY <2>0 DEF Writer
  <2> QED
    BY <2>1, <2>2 DEF MessageInv, Ended
<1> QED
  BY <1>2, <1>3, <1>4

\* A step that touches no object on its way to the server.
LEMMA SlotFrame ==
    ASSUME NEW strict \in BOOLEAN, OwnInv(strict),
           UNCHANGED <<client, stops, requestsChan, connVars>>,
           \A p \in Objs : Live(p) => Same(p)
    PROVE  /\ QueueSlots' /\ QueueDistinct' /\ ConnSlots' /\ ConnDistinct'
           /\ MessageInv' /\ StopInv'
<1>1. ConnSlots' /\ ConnDistinct' /\ MessageInv'
  BY ConnFrame DEF OwnInv
<1>2. QueueSlots'
  BY DEF OwnInv, QueueSlots, Same, Live
<1>3. QueueDistinct' /\ StopInv'
  BY DEF OwnInv, QueueDistinct, StopInv, connVars
<1> QED
  BY <1>1, <1>2, <1>3

\* The facts about types that the steps below use.
LEMMA CallTypes ==
    ASSUME TypeInv
    PROVE  /\ heap \in [Objs -> AsyncResult] /\ pool \subseteq Objs
           /\ fresh \subseteq Objs /\ requestsChan \in Seq(Objs)
           /\ pc \in [Calls -> {"idle", "evict", "again", "waiting", "returned"}]
           /\ ref \in [Calls -> Objs \cup {NoObj}]
           /\ ret \in [Calls -> Result]
BY DEF TypeInv, TypeOK, MemTypeOK, QueueTypeOK, CallTypeOK

\* callAsync puts an unused object into the queue.
LEMMA callAsyncIInv ==
    ASSUME NEW strict \in BOOLEAN, OwnInv(strict), TypeInv', NEW c \in Calls, callAsync(c)
    PROVE  OwnInv(strict)'
<1>0. /\ TypeInv /\ QueueSlots /\ ConnSlots /\ QueueDistinct /\ ConnDistinct
      /\ MemInv(strict) /\ CallerInv(strict) /\ RetInv(strict) /\ MessageInv /\ StopInv
  BY DEF OwnInv
<1>1. PICK o \in Objs : /\ o \in pool \cup fresh
                        /\ pool' = pool \ {o} /\ fresh' = fresh \ {o}
                        /\ heap' = [heap EXCEPT ![o] = Filled(@, c)]
                        /\ requestsChan' = Append(requestsChan, o)
                        /\ Enqueued(c, o)
  BY <1>0 DEF callAsync, Acquirable, TypeInv, TypeOK, MemTypeOK
<1>2. /\ UNCHANGED <<client, stops, cancels, connVars>> /\ pc[c] = "idle"
  BY DEF callAsync, lifeVars
<1>4. /\ \A p \in Objs : p # o => heap'[p] = heap[p]
      /\ heap'[o].req = c /\ heap'[o].err = "nil" /\ heap'[o].body = NoCall
      /\ heap'[o].done = (IF SkipResponse(c) THEN "nil" ELSE "open")
      /\ strict => ~heap'[o].canceled
  BY <1>0, <1>1, CallTypes DEF Filled, MemInv, AsyncResult
<1>5. /\ \A d \in Calls : d # c =>
            pc'[d] = pc[d] /\ ref'[d] = ref[d] /\ ret'[d] = ret[d]
      /\ SkipResponse(c) => /\ pc'[c] = "returned" /\ ret'[c] = Failed("nil")
      /\ ~SkipResponse(c) => /\ pc'[c] = "waiting" /\ ref'[c] = o
                             /\ ret'[c] = ret[c]
  BY <1>0, <1>1, CallTypes DEF Enqueued, Return
<1>6. PcKept
  BY <1>5 DEF PcKept
<1>7. \A p \in Objs : Live(p) => p # o /\ Same(p)
  BY <1>1, <1>4, <1>6, LiveKept DEF Live
<1>8. Live(o)'
  BY <1>1, <1>4, <1>5 DEF Live
<1>9. OffConns(o)
  BY <1>0, <1>1, ClientAssumption DEF ConnSlots, OffConns, Live
<1>10. QueueSlots' /\ QueueDistinct'
  <2>1. /\ Len(requestsChan') = Len(requestsChan) + 1
        /\ \A i \in 1 .. Len(requestsChan) : requestsChan'[i] = requestsChan[i]
        /\ requestsChan'[Len(requestsChan) + 1] = o
        /\ Len(requestsChan) \in Nat
        /\ \A i \in 1 .. Len(requestsChan) : requestsChan[i] \in Objs
    BY <1>0, <1>1, CallTypes
  <2>2. \A i \in 1 .. Len(requestsChan) : requestsChan[i] # o
    BY <1>0, <1>1 DEF QueueSlots, Live
  <2>3. QueueSlots'
    BY <1>0, <1>7, <1>8, <2>1 DEF QueueSlots, Same
  <2>4. QueueDistinct'
    BY <1>0, <1>2, <1>9, <2>1, <2>2 DEF QueueDistinct, OffConns, connVars
  <2> QED
    BY <2>3, <2>4
<1>11. ConnSlots' /\ ConnDistinct' /\ MessageInv'
  BY <1>0, <1>2, <1>7, <1>9, ConnFrame
<1>12. MemInv(strict)'
  BY <1>0, <1>1, <1>4 DEF MemInv
<1>13. CallerInv(strict)'
  BY <1>0, <1>1, <1>2, <1>4, <1>5 DEF CallerInv, SkipResponse
<1>14. RetInv(strict)'
  BY <1>0, <1>2, <1>5 DEF RetInv, RetOK, Failed, SkipResponse
<1>15. StopInv'
  BY <1>0, <1>2 DEF StopInv, connVars
<1> QED
  BY <1>10, <1>11, <1>12, <1>13, <1>14, <1>15 DEF OwnInv

\* An overflowing Send gives its object back.
LEMMA SkipOverflowIInv ==
    ASSUME NEW strict \in BOOLEAN, OwnInv(strict),
           TypeInv', NEW c \in Calls, callAsyncSkipOverflow(c)
    PROVE  OwnInv(strict)'
<1>0. TypeInv /\ MemInv(strict) /\ CallerInv(strict) /\ RetInv(strict)
  BY DEF OwnInv
<1>1. PICK o \in Objs :
        /\ o \in pool \cup fresh
        /\ pool' = pool \cup {o} /\ fresh' = fresh \ {o}
        /\ heap' = [heap EXCEPT ![o] = Released(Filled(@, c))]
  BY <1>0, CallTypes DEF callAsyncSkipOverflow, Acquirable
<1>2. /\ UNCHANGED <<client, stops, cancels, requestsChan, connVars>>
      /\ pc[c] = "idle"
  BY DEF callAsyncSkipOverflow, lifeVars
<1>3. /\ \A p \in Objs : p # o => heap'[p] = heap[p]
      /\ heap'[o].req = NoCall /\ heap'[o].err = "nil"
      /\ heap'[o].body = NoCall /\ heap'[o].done = "nil"
      /\ strict => ~heap'[o].canceled
  BY <1>0, <1>1, CallTypes DEF Filled, Released, MemInv, AsyncResult
<1>4. /\ \A d \in Calls : d # c =>
            pc'[d] = pc[d] /\ ref'[d] = ref[d] /\ ret'[d] = ret[d]
      /\ pc'[c] = "returned" /\ ret'[c] = Failed("overflow")
  BY <1>0, CallTypes DEF callAsyncSkipOverflow, Return
<1>5. PcKept
  BY <1>4 DEF PcKept
<1>6. \A p \in Objs : Live(p) => Same(p)
  BY <1>1, <1>3, <1>5, LiveKept DEF Live
<1>7. MemInv(strict)'
  BY <1>0, <1>1, <1>3 DEF MemInv
<1>8. CallerInv(strict)'
  BY <1>0, <1>1, <1>2, <1>3, <1>4 DEF CallerInv
<1>9. RetInv(strict)'
  BY <1>0, <1>2, <1>4 DEF RetInv, RetOK, Failed
<1> QED
  BY <1>2, <1>6, <1>7, <1>8, <1>9, SlotFrame DEF OwnInv

\* The queue is full: the caller keeps its new object to itself.
LEMMA FullIInv ==
    ASSUME NEW strict \in BOOLEAN, OwnInv(strict), TypeInv', NEW c \in Calls, callAsyncFull(c)
    PROVE  OwnInv(strict)'
<1>0. TypeInv /\ MemInv(strict) /\ CallerInv(strict) /\ RetInv(strict)
  BY DEF OwnInv
<1>1. PICK o \in Objs :
        /\ o \in pool \cup fresh
        /\ pool' = pool \ {o} /\ fresh' = fresh \ {o}
        /\ heap' = [heap EXCEPT ![o] = Filled(@, c)]
        /\ ref' = [ref EXCEPT ![c] = o]
  BY <1>0, CallTypes DEF callAsyncFull, Acquirable
<1>2. /\ UNCHANGED <<client, stops, cancels, requestsChan, connVars, ret>>
      /\ pc[c] = "idle" /\ ~SkipResponse(c)
  BY DEF callAsyncFull, lifeVars
<1>3. /\ \A p \in Objs : p # o => heap'[p] = heap[p]
      /\ heap'[o].req = c /\ heap'[o].err = "nil" /\ heap'[o].body = NoCall
      /\ heap'[o].done = "open" /\ (strict => ~heap'[o].canceled)
  BY <1>0, <1>1, <1>2, CallTypes DEF Filled, MemInv, AsyncResult
<1>4. /\ \A d \in Calls : d # c => pc'[d] = pc[d] /\ ref'[d] = ref[d]
      /\ pc'[c] = "evict" /\ ref'[c] = o
  BY <1>0, <1>1, CallTypes DEF callAsyncFull
<1>5. PcKept
  BY <1>2, <1>4 DEF PcKept
<1>6. \A p \in Objs : Live(p) => Same(p)
  BY <1>1, <1>3, <1>5, LiveKept DEF Live
<1>7. MemInv(strict)'
  BY <1>0, <1>1, <1>3 DEF MemInv
<1>8. CallerInv(strict)'
  BY <1>0, <1>1, <1>2, <1>3, <1>4 DEF CallerInv, SkipResponse
<1>9. RetInv(strict)'
  BY <1>0, <1>2, <1>4 DEF RetInv, RetOK
<1> QED
  BY <1>2, <1>6, <1>7, <1>8, <1>9, SlotFrame DEF OwnInv

\* Dropping a live object, for whoever waits for it or to the pool: its
\* record is final, or clean.
LEMMA DiscardEffect ==
    ASSUME NEW strict \in BOOLEAN, TypeInv, MemInv(strict), NEW o \in Objs, Live(o),
           NEW e \in {"overflow", "canceled"}, Discard(o, e),
           e = "canceled" => heap[o].canceled,
           UNCHANGED <<ref, cancels, stops, fresh>>, CallerInv(strict),
           \A d \in Calls : \/ pc'[d] = pc[d]
                            \/ pc[d] = "evict" /\ pc'[d] = "again"
    PROVE  /\ \A p \in Objs : p # o => heap'[p] = heap[p]
           /\ \A p \in Objs : p # o => (p \in pool' <=> p \in pool)
           /\ MemInv(strict)' /\ CallerInv(strict)'
<1>0. heap \in [Objs -> AsyncResult] /\ heap[o] \in AsyncResult
  BY CallTypes
<1>1. \A p \in Objs : p # o => heap'[p] = heap[p]
  BY <1>0 DEF Discard
<1>2. CASE heap[o].done # "nil"
  <2>1. /\ heap'[o].req = heap[o].req /\ heap'[o].done = "closed"
        /\ heap'[o].err = e /\ heap'[o].body = heap[o].body
        /\ heap'[o].canceled = heap[o].canceled /\ pool' = pool
    <3>1. heap'[o] = Completed(heap[o], e) /\ pool' = pool
      BY <1>0, <1>2 DEF Discard
    <3> QED
      BY <1>0, <1>2, <3>1 DEF Completed, AsyncResult
  <2>2. MemInv(strict)'
    BY <1>1, <2>1 DEF MemInv, Live
  <2>3. CallerInv(strict)'
    BY <1>1, <2>1 DEF CallerInv, Live
  <2> QED
    BY <1>1, <2>1, <2>2, <2>3
<1>3. CASE heap[o].done = "nil"
  <2>1. /\ heap'[o].req = NoCall /\ heap'[o].done = "nil"
        /\ heap'[o].err = "nil" /\ heap'[o].body = NoCall
        /\ heap'[o].canceled = heap[o].canceled /\ pool' = pool \cup {o}
    <3>1. heap'[o] = Released(heap[o]) /\ pool' = pool \cup {o}
      BY <1>0, <1>3 DEF Discard
    <3> QED
      BY <1>0, <1>3, <3>1 DEF Released, AsyncResult
  <2>2. MemInv(strict)'
    BY <1>1, <1>3, <2>1 DEF MemInv
  <2>3. CallerInv(strict)'
    BY <1>1, <1>3, <2>1 DEF CallerInv
  <2> QED
    BY <1>1, <2>1, <2>2, <2>3
<1> QED
  BY <1>2, <1>3

\* The oldest request leaves the queue.
LEMMA Dequeue ==
    ASSUME TypeInv, QueueSlots, QueueDistinct, requestsChan # <<>>,
           requestsChan' = Tail(requestsChan)
    PROVE  /\ Head(requestsChan) \in Objs /\ Live(Head(requestsChan))
           /\ OffConns(Head(requestsChan))
           /\ Len(requestsChan') = Len(requestsChan) - 1
           /\ Len(requestsChan) \in Nat \ {0}
           /\ \A i \in 1 .. Len(requestsChan') :
                /\ requestsChan'[i] = requestsChan[i + 1]
                /\ i + 1 \in 1 .. Len(requestsChan)
                /\ requestsChan'[i] # Head(requestsChan)
                /\ requestsChan'[i] \in Objs /\ Live(requestsChan'[i])
           /\ \A i, j \in 1 .. Len(requestsChan') :
                requestsChan'[i] = requestsChan'[j] => i = j
           /\ \A i \in 1 .. Len(requestsChan') : OffConns(requestsChan'[i])
<1>1. requestsChan \in Seq(Objs)
  BY CallTypes
<1>2. /\ Len(requestsChan) \in Nat \ {0}
      /\ Len(requestsChan') = Len(requestsChan) - 1
      /\ Head(requestsChan) = requestsChan[1] /\ requestsChan[1] \in Objs
      /\ \A i \in 1 .. Len(requestsChan') :
            /\ requestsChan'[i] = requestsChan[i + 1]
            /\ i + 1 \in 1 .. Len(requestsChan)
            /\ requestsChan[i + 1] \in Objs
  BY <1>1
<1>3. 1 \in 1 .. Len(requestsChan)
  BY <1>2
<1>4. \A i \in 1 .. Len(requestsChan) :
        OffConns(requestsChan[i]) /\ Live(requestsChan[i])
  BY DEF QueueDistinct, QueueSlots, OffConns
<1>5. \A i \in 1 .. Len(requestsChan') : requestsChan[i + 1] # requestsChan[1]
  BY <1>2, <1>3 DEF QueueDistinct
<1>6. \A i, j \in 1 .. Len(requestsChan') :
        requestsChan'[i] = requestsChan'[j] => i = j
  BY <1>2 DEF QueueDistinct
<1> QED
  BY <1>2, <1>3, <1>4, <1>5, <1>6

\* callAsync evicts the oldest request, if there still is one.
LEMMA EvictIInv ==
    ASSUME NEW strict \in BOOLEAN, OwnInv(strict), TypeInv', NEW c \in Calls, callAsyncEvict(c)
    PROVE  OwnInv(strict)'
<1>0. /\ TypeInv /\ QueueSlots /\ ConnSlots /\ QueueDistinct /\ ConnDistinct
      /\ MemInv(strict) /\ CallerInv(strict) /\ RetInv(strict) /\ MessageInv /\ StopInv
  BY DEF OwnInv
<1>1. /\ UNCHANGED <<client, stops, ref, ret, cancels, fresh, connVars>>
      /\ pc[c] = "evict"
  BY DEF callAsyncEvict, lifeVars
<1>2. /\ \A d \in Calls : d # c => pc'[d] = pc[d]
      /\ pc'[c] = "again"
  BY <1>0, CallTypes DEF callAsyncEvict
<1>3. PcKept
  BY <1>1, <1>2 DEF PcKept
<1>4. RetInv(strict)'
  BY <1>0, <1>1, <1>2 DEF RetInv, RetOK
<1>5. StopInv'
  BY <1>0, <1>1 DEF StopInv, connVars
<1>6. CASE requestsChan = <<>>
  <2>1. UNCHANGED <<heap, pool, requestsChan>>
    BY <1>6 DEF callAsyncEvict
  <2>2. \A p \in Objs : Live(p) => Same(p)
    BY <1>1, <1>3, <2>1, LiveKept DEF Live
  <2>3. MemInv(strict)'
    BY <1>0, <1>1, <2>1 DEF MemInv
  <2>4. CallerInv(strict)'
    BY <1>0, <1>1, <1>2, <2>1 DEF CallerInv
  <2> QED
    BY <1>1, <1>4, <2>1, <2>2, <2>3, <2>4, SlotFrame DEF OwnInv
<1>7. CASE requestsChan # <<>>
  <2> DEFINE o == Head(requestsChan)
  <2>1. Discard(o, "overflow") /\ requestsChan' = Tail(requestsChan)
    BY <1>7 DEF callAsyncEvict
  <2> HIDE DEF o
  <2>2. /\ o \in Objs /\ Live(o) /\ OffConns(o)
        /\ \A i \in 1 .. Len(requestsChan') :
              /\ requestsChan'[i] \in Objs /\ Live(requestsChan'[i])
              /\ requestsChan'[i] # o /\ OffConns(requestsChan'[i])
        /\ \A i, j \in 1 .. Len(requestsChan') :
              requestsChan'[i] = requestsChan'[j] => i = j
    BY <1>0, <1>7, <2>1, Dequeue DEF o
  <2>3. /\ \A p \in Objs : p # o => heap'[p] = heap[p]
        /\ \A p \in Objs : p # o => (p \in pool' <=> p \in pool)
        /\ MemInv(strict)' /\ CallerInv(strict)'
    BY <1>0, <1>1, <1>2, <2>1, <2>2, DiscardEffect
  <2>4. \A p \in Objs : Live(p) /\ p # o => Same(p)
    BY <1>1, <1>3, <2>3, LiveKept DEF Live
  <2>5. ConnSlots' /\ ConnDistinct' /\ MessageInv'
    BY <1>0, <1>1, <2>2, <2>4, ConnFrame
  <2>6. QueueSlots'
    BY <2>2, <2>4 DEF QueueSlots, Same
  <2>7. QueueDistinct'
    BY <1>1, <2>2 DEF QueueDistinct, OffConns, connVars
  <2> QED
    BY <1>4, <1>5, <2>3, <2>5, <2>6, <2>7 DEF OwnInv
<1> QED
  BY <1>6, <1>7

\* The object enters the freed place, or is given back.
LEMMA AgainIInv ==
    ASSUME NEW strict \in BOOLEAN, OwnInv(strict), TypeInv', NEW c \in Calls, callAsyncAgain(c)
    PROVE  OwnInv(strict)'
<1>0. /\ TypeInv /\ QueueSlots /\ ConnSlots /\ QueueDistinct /\ ConnDistinct
      /\ MemInv(strict) /\ CallerInv(strict) /\ RetInv(strict) /\ MessageInv /\ StopInv
  BY DEF OwnInv
<1>1. /\ UNCHANGED <<client, stops, cancels, fresh, connVars>>
      /\ pc[c] = "again"
  BY DEF callAsyncAgain, lifeVars
<1>8. PICK o \in Objs : o = ref[c]
  BY <1>0, <1>1 DEF CallerInv
<1>2. /\ o \in Objs /\ o \notin pool /\ o \notin fresh /\ heap[o].req = c
      /\ heap[o].done = "open" /\ heap[o].err = "nil"
      /\ heap[o].body = NoCall /\ (strict => ~heap[o].canceled) /\ ~SkipResponse(c)
  BY <1>0, <1>1, <1>8 DEF CallerInv, SkipResponse
<1>3. ~Live(o)
  BY <1>1, <1>2 DEF Live
<1>4. \A d \in Calls : pc[d] \in {"evict", "again", "waiting"} /\ d # c =>
        ref[d] # o
  BY <1>0, <1>2 DEF CallerInv
<1>5. StopInv'
  BY <1>0, <1>1 DEF StopInv, connVars
<1>6. CASE ~Full
  <2>1. /\ UNCHANGED <<heap, pool>> /\ requestsChan' = Append(requestsChan, o)
        /\ Enqueued(c, o)
    BY <1>6, <1>8 DEF callAsyncAgain
  <2>2. /\ \A d \in Calls : d # c =>
              pc'[d] = pc[d] /\ ref'[d] = ref[d] /\ ret'[d] = ret[d]
        /\ pc'[c] = "waiting" /\ ref'[c] = o /\ ret'[c] = ret[c]
    BY <1>0, <1>2, <2>1, CallTypes DEF Enqueued
  <2>3. PcKept
    BY <2>2 DEF PcKept
  <2>4. \A p \in Objs : Live(p) => p # o /\ Same(p)
    BY <1>1, <1>3, <2>1, <2>3, LiveKept DEF Live
  <2>5. Live(o)'
    BY <1>1, <1>2, <2>1, <2>2 DEF Live
  <2>6. OffConns(o)
    BY <1>0, <1>2, <1>3, ClientAssumption DEF ConnSlots, OffConns
  <2>7. /\ Len(requestsChan') = Len(requestsChan) + 1
        /\ \A i \in 1 .. Len(requestsChan) : requestsChan'[i] = requestsChan[i]
        /\ requestsChan'[Len(requestsChan) + 1] = o
        /\ Len(requestsChan) \in Nat
        /\ \A i \in 1 .. Len(requestsChan) : requestsChan[i] \in Objs
    BY <1>0, <1>2, <2>1, CallTypes
  <2>8. \A i \in 1 .. Len(requestsChan) : requestsChan[i] # o
    BY <1>0, <1>3 DEF QueueSlots
  <2>9. QueueSlots'
    BY <1>0, <2>4, <2>5, <2>7 DEF QueueSlots, Same
  <2>10. QueueDistinct'
    BY <1>0, <1>1, <2>6, <2>7, <2>8 DEF QueueDistinct, OffConns, connVars
  <2>11. ConnSlots' /\ ConnDistinct' /\ MessageInv'
    BY <1>0, <1>1, <2>4, ConnFrame
  <2>12. MemInv(strict)'
    BY <1>0, <1>1, <2>1 DEF MemInv
  <2>13. CallerInv(strict)'
    BY <1>0, <1>1, <1>2, <2>1, <2>2 DEF CallerInv, SkipResponse
  <2>14. RetInv(strict)'
    BY <1>0, <1>1, <2>2 DEF RetInv, RetOK
  <2> QED
    BY <1>5, <2>9, <2>10, <2>11, <2>12, <2>13, <2>14 DEF OwnInv
<1>7. CASE Full
  <2>1. /\ UNCHANGED requestsChan /\ pool' = pool \cup {o}
        /\ heap' = [heap EXCEPT ![o] = Released(@)]
        /\ Return(c, Failed("overflow"))
    BY <1>7, <1>8 DEF callAsyncAgain
  <2>2. /\ \A d \in Calls : d # c =>
              pc'[d] = pc[d] /\ ref'[d] = ref[d] /\ ret'[d] = ret[d]
        /\ pc'[c] = "returned" /\ ret'[c] = Failed("overflow")
    BY <1>0, <2>1, CallTypes DEF Return
  <2>3. PcKept
    BY <2>2 DEF PcKept
  <2>4. /\ \A p \in Objs : p # o => heap'[p] = heap[p]
        /\ heap'[o].req = NoCall /\ heap'[o].err = "nil"
        /\ heap'[o].body = NoCall /\ heap'[o].done = "nil"
        /\ strict => ~heap'[o].canceled
    BY <1>0, <1>2, <2>1, CallTypes DEF Released, AsyncResult
  <2>5. \A p \in Objs : Live(p) => Same(p)
    BY <1>1, <1>3, <2>1, <2>3, <2>4, LiveKept DEF Live
  <2>6. MemInv(strict)'
    BY <1>0, <1>1, <2>1, <2>4 DEF MemInv
  <2>7. CallerInv(strict)'
    BY <1>0, <1>1, <1>4, <2>1, <2>2, <2>4 DEF CallerInv
  <2>8. RetInv(strict)'
    BY <1>0, <1>1, <2>2 DEF RetInv, RetOK, Failed
  <2> QED
    BY <1>1, <2>1, <2>5, <2>6, <2>7, <2>8, SlotFrame DEF OwnInv
<1> QED
  BY <1>6, <1>7

\* A completed object carries the caller's own answer; the pool gets it back.
LEMMA CallDoneIInv ==
    ASSUME NEW strict \in BOOLEAN, OwnInv(strict), TypeInv', NEW c \in Calls, CallDone(c)
    PROVE  OwnInv(strict)'
<1> DEFINE o == ref[c]
<1>0. TypeInv /\ MemInv(strict) /\ CallerInv(strict) /\ RetInv(strict)
  BY DEF OwnInv
<1>1. /\ UNCHANGED <<client, stops, cancels, fresh, requestsChan, connVars>>
      /\ pc[c] = "waiting" /\ Kind[c] = "call" /\ heap[o].done = "closed"
      /\ pool' = pool \cup {o} /\ heap' = [heap EXCEPT ![o] = Released(@)]
      /\ Return(c, ResultOf(o))
  BY DEF CallDone, lifeVars
<1>2. /\ o \in Objs /\ o \notin pool /\ o \notin fresh /\ heap[o].req = c
      /\ (strict => ~heap[o].canceled /\ heap[o].err # "canceled") /\ ~Live(o)
      /\ RetOK(c, ResultOf(o), strict)
  BY <1>0, <1>1 DEF CallerInv, MemInv, Live, RetOK, ResultOf
<1>3. \A d \in Calls : pc[d] \in {"evict", "again", "waiting"} /\ d # c =>
        ref[d] # o
  BY <1>0, <1>2 DEF CallerInv
<1> HIDE DEF o
<1>4. /\ \A d \in Calls : d # c =>
            pc'[d] = pc[d] /\ ref'[d] = ref[d] /\ ret'[d] = ret[d]
      /\ pc'[c] = "returned" /\ ret'[c] = ResultOf(o)
  BY <1>0, <1>1, CallTypes DEF Return
<1>5. PcKept
  BY <1>4 DEF PcKept
<1>6. /\ \A p \in Objs : p # o => heap'[p] = heap[p]
      /\ heap'[o].req = NoCall /\ heap'[o].err = "nil"
      /\ heap'[o].body = NoCall /\ heap'[o].done = "nil"
      /\ strict => ~heap'[o].canceled
  BY <1>0, <1>1, <1>2, CallTypes DEF Released, AsyncResult
<1>7. \A p \in Objs : Live(p) => Same(p)
  BY <1>1, <1>2, <1>5, <1>6, LiveKept DEF Live
<1>8. MemInv(strict)'
  BY <1>0, <1>1, <1>6 DEF MemInv
<1>9. CallerInv(strict)'
  BY <1>0, <1>1, <1>3, <1>4, <1>6 DEF CallerInv
<1>10. RetInv(strict)'
  BY <1>0, <1>1, <1>2, <1>4 DEF RetInv, RetOK
<1> QED
  BY <1>1, <1>7, <1>8, <1>9, <1>10, SlotFrame DEF OwnInv

\* Setting the canceled flag disturbs nobody else.
LEMMA CancelFlag ==
    ASSUME NEW strict \in BOOLEAN, TypeInv, NEW o \in Objs, heap[o].done # "nil",
           MemInv(strict),
           heap' = [heap EXCEPT ![o].canceled = TRUE],
           UNCHANGED <<pool, fresh>>, PcKept
    PROVE  /\ \A p \in Objs : p # o => heap'[p] = heap[p]
           /\ heap'[o].canceled
           /\ heap'[o].req = heap[o].req /\ heap'[o].done = heap[o].done
           /\ heap'[o].err = heap[o].err /\ heap'[o].body = heap[o].body
           /\ heap'[o].hdr = heap[o].hdr
           /\ MemInv(strict)' /\ \A p \in Objs : Live(p) => Same(p)
<1>0. heap \in [Objs -> AsyncResult]
  BY CallTypes
<1>1. /\ \A p \in Objs : p # o => heap'[p] = heap[p]
      /\ heap'[o].canceled
      /\ heap'[o].req = heap[o].req /\ heap'[o].done = heap[o].done
      /\ heap'[o].err = heap[o].err /\ heap'[o].body = heap[o].body
      /\ heap'[o].hdr = heap[o].hdr
  BY <1>0 DEF AsyncResult
<1>2. MemInv(strict)'
  BY <1>1 DEF MemInv
<1>3. \A p \in Objs : Live(p) => Same(p)
  BY <1>1 DEF Live, Same, PcKept
<1> QED
  BY <1>1, <1>2, <1>3

\* A timed out caller leaves; its object stays where it is.
LEMMA TimeoutIInv ==
    ASSUME NEW strict \in BOOLEAN, OwnInv(strict), TypeInv', NEW c \in Calls, CallTimeout(c)
    PROVE  OwnInv(strict)'
<1>0. TypeInv /\ MemInv(strict) /\ CallerInv(strict) /\ RetInv(strict)
  BY DEF OwnInv
<1>1. /\ UNCHANGED <<client, stops, cancels, pool, fresh, requestsChan, connVars>>
      /\ pc[c] = "waiting" /\ heap' = [heap EXCEPT ![ref[c]].canceled = TRUE]
      /\ Return(c, Failed("timeout"))
  BY DEF CallTimeout, Abandon, lifeVars
<1>2. PICK o \in Objs : o = ref[c]
  BY <1>0, <1>1 DEF CallerInv
<1>3. heap[o].done # "nil" /\ heap[o].req = c
  BY <1>0, <1>1, <1>2 DEF CallerInv
<1>4. /\ \A d \in Calls : d # c =>
            pc'[d] = pc[d] /\ ref'[d] = ref[d] /\ ret'[d] = ret[d]
      /\ pc'[c] = "returned" /\ ret'[c] = Failed("timeout")
  BY <1>0, <1>1, CallTypes DEF Return
<1>5. PcKept
  BY <1>4 DEF PcKept
<1>6. /\ \A p \in Objs : p # o => heap'[p] = heap[p]
      /\ MemInv(strict)' /\ \A p \in Objs : Live(p) => Same(p)
  BY <1>0, <1>1, <1>2, <1>3, <1>5, CancelFlag
<1>7. \A d \in Calls : pc[d] \in {"evict", "again", "waiting"} /\ d # c =>
        ref[d] # o
  BY <1>0, <1>3 DEF CallerInv
<1>8. CallerInv(strict)'
  BY <1>0, <1>1, <1>4, <1>6, <1>7 DEF CallerInv
<1>9. RetInv(strict)'
  BY <1>0, <1>1, <1>4 DEF RetInv, RetOK, Failed
<1> QED
  BY <1>1, <1>6, <1>8, <1>9, SlotFrame DEF OwnInv

\* The holder of an AsyncResult reads it.
LEMMA AsyncDoneIInv ==
    ASSUME NEW strict \in BOOLEAN, OwnInv(strict), TypeInv', NEW c \in Calls, AsyncDone(c)
    PROVE  OwnInv(strict)'
<1>0. TypeInv /\ MemInv(strict) /\ CallerInv(strict) /\ RetInv(strict)
  BY DEF OwnInv
<1>1. /\ UNCHANGED <<client, stops, cancels, memVars, requestsChan, connVars>>
      /\ pc[c] = "waiting" /\ heap[ref[c]].done = "closed"
      /\ Return(c, ResultOf(ref[c]))
  BY DEF AsyncDone, lifeVars
<1>2. RetOK(c, ResultOf(ref[c]), strict)
  BY <1>0, <1>1 DEF CallerInv, MemInv, RetOK, ResultOf
<1>3. /\ \A d \in Calls : d # c =>
            pc'[d] = pc[d] /\ ref'[d] = ref[d] /\ ret'[d] = ret[d]
      /\ pc'[c] = "returned" /\ ret'[c] = ResultOf(ref[c])
  BY <1>0, <1>1, CallTypes DEF Return
<1>4. PcKept
  BY <1>3 DEF PcKept
<1>5. \A p \in Objs : Live(p) => Same(p)
  BY <1>1, <1>4, LiveKept DEF Live, memVars
<1>6. MemInv(strict)'
  BY <1>0, <1>1 DEF MemInv, memVars
<1>7. CallerInv(strict)'
  BY <1>0, <1>1, <1>3 DEF CallerInv, memVars
<1>8. RetInv(strict)'
  BY <1>0, <1>1, <1>2, <1>3 DEF RetInv, RetOK
<1> QED
  BY <1>1, <1>5, <1>6, <1>7, <1>8, SlotFrame DEF OwnInv

\* The holder of an AsyncResult cancels it.
LEMMA CancelIInv ==
    ASSUME NEW strict \in BOOLEAN, OwnInv(strict), TypeInv', NEW c \in Calls, Cancel(c)
    PROVE  OwnInv(strict)'
<1>0. TypeInv /\ MemInv(strict) /\ CallerInv(strict) /\ RetInv(strict)
  BY DEF OwnInv
<1>1. /\ UNCHANGED <<client, stops, pc, ref, ret, pool, fresh, requestsChan>>
      /\ UNCHANGED connVars /\ pc[c] = "waiting" /\ Kind[c] = "async"
      /\ heap' = [heap EXCEPT ![ref[c]].canceled = TRUE]
      /\ cancels' = cancels \cup {c}
  BY DEF Cancel, lifeVars
<1>2. PICK o \in Objs : o = ref[c]
  BY <1>0, <1>1 DEF CallerInv
<1>3. heap[o].done # "nil" /\ heap[o].req = c
  BY <1>0, <1>1, <1>2 DEF CallerInv
<1>4. PcKept
  BY <1>1 DEF PcKept
<1>5. /\ \A p \in Objs : p # o => heap'[p] = heap[p]
      /\ heap'[o].req = heap[o].req /\ heap'[o].done = heap[o].done
      /\ heap'[o].err = heap[o].err /\ heap'[o].body = heap[o].body
      /\ heap'[o].hdr = heap[o].hdr
      /\ MemInv(strict)' /\ \A p \in Objs : Live(p) => Same(p)
  BY <1>0, <1>1, <1>2, <1>3, <1>4, CancelFlag
<1>6. CallerInv(strict)'
  BY <1>0, <1>1, <1>2, <1>3, <1>5 DEF CallerInv
<1>7. RetInv(strict)'
  BY <1>0, <1>1 DEF RetInv, RetOK
<1> QED
  BY <1>1, <1>5, <1>6, <1>7, SlotFrame DEF OwnInv

\* No step of a caller breaks the invariant.
LEMMA CallStepIInv ==
    ASSUME NEW strict \in BOOLEAN, OwnInv(strict), TypeInv', NEW c \in Calls, CallStep(c)
    PROVE  OwnInv(strict)'
BY callAsyncIInv, SkipOverflowIInv, FullIInv, EvictIInv, AgainIInv,
   CallDoneIInv, TimeoutIInv, AsyncDoneIInv, CancelIInv DEF CallStep

-----------------------------------------------------------------------------
(* The goroutines of a connection.                                          *)

\* The facts about types that the steps of a connection use.
LEMMA ConnTypes ==
    ASSUME TypeInv
    PROVE  /\ writer \in [Conns -> Writer] /\ reader \in [Conns -> Reader]
           /\ pending \in [Conns -> [IDs -> Objs \cup {NoObj}]]
           /\ wire \in [Conns -> SUBSET Message]
           /\ handler \in [Conns -> Handler]
BY DEF TypeInv, TypeOK, ConnTypeOK

\* A step that only moves messages, or forgets an object.
LEMMA MessageFrame ==
    ASSUME NEW strict \in BOOLEAN, OwnInv(strict),
           TypeInv', MessageInv', StopInv', UNCHANGED sharedVars,
           UNCHANGED pending,
           \A k \in Conns : writer'[k].m \in {writer[k].m, NoObj},
           \A k \in Conns : \/ reader'[k].m = NoObj
                            \/ /\ reader'[k].m = reader[k].m
                               /\ reader'[k].call = reader[k].call
                               /\ reader'[k].err = reader[k].err
    PROVE  OwnInv(strict)'
<1> USE DEF sharedVars, lifeVars, callVars, memVars
<1>0. /\ QueueSlots /\ ConnSlots /\ QueueDistinct /\ ConnDistinct
      /\ MemInv(strict) /\ CallerInv(strict) /\ RetInv(strict)
  BY DEF OwnInv
<1>1. \A p : Live(p) => Live(p)'
  BY DEF Live
<1>2. QueueSlots'
  BY <1>0, <1>1 DEF QueueSlots
<1>3. ConnSlots'
  BY <1>0, <1>1 DEF ConnSlots
<1>4. QueueDistinct'
  <2>1. \A i \in 1 .. Len(requestsChan) : requestsChan[i] # NoObj
    BY <1>0, ClientAssumption DEF QueueSlots, Live
  <2> QED
    BY <1>0, <2>1 DEF QueueDistinct
<1>5. ConnDistinct'
  BY <1>0 DEF ConnDistinct
<1>6. MemInv(strict)' /\ CallerInv(strict)' /\ RetInv(strict)'
  <2>1. MemInv(strict)'
    BY <1>0 DEF MemInv
  <2>2. CallerInv(strict)'
    BY <1>0 DEF CallerInv
  <2>3. RetInv(strict)'
    BY <1>0 DEF RetInv, RetOK
  <2> QED
    BY <2>1, <2>2, <2>3
<1> QED
  BY <1>2, <1>3, <1>4, <1>5, <1>6 DEF OwnInv

\* The messages of the other connections, and k's wire, need no proof when
\* the step happens on k's encoder.
LEMMA MessageKept ==
    ASSUME NEW strict \in BOOLEAN, OwnInv(strict),
           TypeInv', NEW k \in Conns, UNCHANGED <<heap, handler, pending>>,
           writer[k].pc # "done",
           \A l \in Conns : l # k => writer'[l] = writer[l] /\ wire'[l] = wire[l],
           \A w \in wire'[k] : w \in wire[k] \/ Registered(k, w),
           writer'[k].pc # "done" =>
              /\ \A w \in writer'[k].buf : Registered(k, w)
                                           /\ (w.id # 0 => w \notin wire'[k])
              /\ Registered(k, writer'[k].wr)
              /\ writer'[k].wr.id # 0 => writer'[k].wr \notin wire'[k]
              /\ writer'[k].pc \notin {"count", "stuck", "encode"} =>
                    writer'[k].wr.id = 0
    PROVE  MessageInv'
<1>1. \A l \in Conns : \A w : Registered(l, w) => Registered(l, w)'
  BY DEF Registered
<1>2. MessageInv
  BY DEF OwnInv
<1> QED
  BY <1>1, <1>2 DEF MessageInv, Ended

\* The steps of the writer that handle no object.
LEMMA EncoderIInv ==
    ASSUME NEW strict \in BOOLEAN, OwnInv(strict), TypeInv', NEW k \in Conns,
           \/ WriterBlock(k) \/ WriterStop(k) \/ WriterFlush(k)
           \/ WriterFlushFail(k) \/ WriterBuffer(k) \/ WriterSend(k)
           \/ WriterEncodeFail(k)
    PROVE  OwnInv(strict)'
<1>0. /\ writer \in [Conns -> Writer] /\ wire \in [Conns -> SUBSET Message]
      /\ writer[k] \in Writer /\ wire[k] \subseteq Message
  BY ConnTypes DEF OwnInv
<1>1. /\ writer[k].pc # "done"
      /\ \A w \in wire[k] : Registered(k, w)
      /\ writer[k].pc # "done" =>
          /\ \A w \in writer[k].buf : Registered(k, w)
                                      /\ (w.id # 0 => w \notin wire[k])
          /\ Registered(k, writer[k].wr)
          /\ writer[k].wr.id # 0 => writer[k].wr \notin wire[k]
          /\ writer[k].pc \notin {"count", "stuck", "encode"} =>
                writer[k].wr.id = 0
  <2>1. writer[k].pc # "done"
    BY DEF WriterBlock, WriterStop, WriterFlush, WriterFlushFail, WriterBuffer,
           WriterSend, WriterEncodeFail
  <2> QED
    BY <2>1 DEF OwnInv, MessageInv, Ended
<1>2. ASSUME UNCHANGED <<sharedVars, handler, reader, pending>>,
             \A l \in Conns : l # k => writer'[l] = writer[l],
             writer'[k].m = writer[k].m, MessageInv'
      PROVE  OwnInv(strict)'
  <2>1. StopInv'
    BY <1>2 DEF OwnInv, StopInv, sharedVars, lifeVars
  <2> QED
    BY <1>2, <2>1, MessageFrame
<1>3. ASSUME UNCHANGED <<sharedVars, handler, reader, pending>>,
             \A l \in Conns : l # k =>
                writer'[l] = writer[l] /\ wire'[l] = wire[l],
             writer'[k].m = writer[k].m,
             \A w \in wire'[k] : w \in wire[k] \/ Registered(k, w),
             writer'[k].pc # "done" =>
                /\ \A w \in writer'[k].buf :
                      Registered(k, w) /\ (w.id # 0 => w \notin wire'[k])
                /\ Registered(k, writer'[k].wr)
                /\ writer'[k].wr.id # 0 => writer'[k].wr \notin wire'[k]
                /\ writer'[k].pc \notin {"count", "stuck", "encode"} =>
                      writer'[k].wr.id = 0
      PROVE  OwnInv(strict)'
  <2>1. MessageInv'
    BY <1>1, <1>3, MessageKept DEF sharedVars, memVars
  <2> QED
    BY <1>2, <1>3, <2>1
<1>4. NoMessage.id = 0 /\ Registered(k, NoMessage)
  BY DEF NoMessage, Registered
<1>5. CASE WriterBlock(k)
  BY <1>0, <1>1, <1>3, <1>5 DEF WriterBlock, Writer
<1>6. CASE WriterStop(k)
  BY <1>0, <1>1, <1>3, <1>6 DEF WriterStop, Writer
<1>7. CASE WriterFlush(k)
  BY <1>0, <1>1, <1>3, <1>7 DEF WriterFlush, Flushed, Writer
<1>8. CASE WriterFlushFail(k)
  BY <1>0, <1>1, <1>3, <1>8 DEF WriterFlushFail, Escaped, Writer
<1>9. CASE WriterBuffer(k)
  BY <1>0, <1>1, <1>3, <1>4, <1>9 DEF WriterBuffer, Outgoing, Writer
<1>10. CASE WriterSend(k)
  BY <1>0, <1>1, <1>3, <1>4, <1>10 DEF WriterSend, Outgoing, Writer
<1>11. CASE WriterEncodeFail(k)
  BY <1>0, <1>1, <1>3, <1>11 DEF WriterEncodeFail, Escaped, Outgoing, Writer
<1> QED
  BY <1>5, <1>6, <1>7, <1>8, <1>9, <1>10, <1>11

\* The oldest request moves from the queue into the writer's hands.
LEMMA TakeIInv ==
    ASSUME NEW strict \in BOOLEAN, OwnInv(strict), TypeInv', NEW k \in Conns, WriterTake(k)
    PROVE  OwnInv(strict)'
<1> USE DEF lifeVars, callVars, memVars
<1>0. /\ TypeInv /\ QueueSlots /\ ConnSlots /\ QueueDistinct /\ ConnDistinct
      /\ MemInv(strict) /\ CallerInv(strict) /\ RetInv(strict) /\ MessageInv /\ StopInv
  BY DEF OwnInv
<1>1. /\ requestsChan # <<>> /\ requestsChan' = Tail(requestsChan)
      /\ UNCHANGED <<lifeVars, callVars, memVars, handler, reader, pending, wire>>
      /\ writer[k].pc \in {"select", "block"} /\ writer' = TakeHead(k)
  BY DEF WriterTake
<1>2. PICK o \in Objs : o = Head(requestsChan)
  BY <1>0, <1>1, Dequeue
<1>3. /\ Live(o) /\ OffConns(o)
      /\ \A i \in 1 .. Len(requestsChan') :
            /\ requestsChan'[i] \in Objs /\ Live(requestsChan'[i])
            /\ requestsChan'[i] # o /\ OffConns(requestsChan'[i])
      /\ \A i, j \in 1 .. Len(requestsChan') :
            requestsChan'[i] = requestsChan'[j] => i = j
  BY <1>0, <1>1, <1>2, Dequeue
<1>4. /\ \A l \in Conns : l # k => writer'[l] = writer[l]
      /\ writer'[k].m = o /\ writer'[k].pc = "got"
      /\ writer'[k].buf = writer[k].buf /\ writer'[k].wr = writer[k].wr
  BY <1>0, <1>1, <1>2, ConnTypes DEF TakeHead, Writer
<1>5. \A p : Live(p) => Live(p)'
  BY <1>1 DEF Live
<1>6. QueueSlots'
  BY <1>3, <1>5 DEF QueueSlots
<1>7. ConnSlots'
  BY <1>0, <1>1, <1>3, <1>4, <1>5 DEF ConnSlots
<1>8. QueueDistinct'
  <2>1. UNCHANGED <<reader, pending>>
    BY <1>1
  <2> QED
    BY <1>3, <1>4, <2>1 DEF QueueDistinct, OffConns
<1>9. ConnDistinct'
  BY <1>0, <1>1, <1>3, <1>4 DEF ConnDistinct, OffConns
<1>10. MessageInv'
  BY <1>0, <1>1, <1>4 DEF MessageInv, Ended, Registered
<1>11. MemInv(strict)'
  BY <1>0, <1>1 DEF MemInv
<1>12. CallerInv(strict)'
  BY <1>0, <1>1 DEF CallerInv
<1>13. RetInv(strict)' /\ StopInv'
  BY <1>0, <1>1 DEF RetInv, RetOK, StopInv
<1> QED
  BY <1>6, <1>7, <1>8, <1>9, <1>10, <1>11, <1>12, <1>13 DEF OwnInv

\* The writer or the reader lets go of x and changes nothing else that the
\* goroutines share.
LEMMA DropFrame ==
    ASSUME NEW strict \in BOOLEAN, OwnInv(strict),
           TypeInv', UNCHANGED <<client, stops, callVars, requestsChan>>,
           UNCHANGED <<handler, pending, wire>>,
           NEW x \in Objs,
           \A i \in 1 .. Len(requestsChan) : requestsChan[i] # x,
           \A l \in Conns, id \in IDs : pending[l][id] # x,
           \A l \in Conns : /\ writer'[l].m \in {writer[l].m, NoObj}
                            /\ reader'[l] = reader[l] \/ reader'[l].m = NoObj
                            /\ writer'[l].m # x /\ reader'[l].m # x,
           \A p \in Objs : p # x => /\ heap'[p] = heap[p]
                                    /\ (p \in pool' <=> p \in pool)
                                    /\ (p \in fresh' <=> p \in fresh)
    PROVE  /\ QueueSlots' /\ ConnSlots' /\ QueueDistinct' /\ ConnDistinct'
           /\ StopInv' /\ RetInv(strict)'
           /\ \A l \in Conns, w \in Message :
                Registered(l, w) => Registered(l, w)'
<1> USE DEF callVars
<1>0. /\ QueueSlots /\ ConnSlots /\ QueueDistinct /\ ConnDistinct
      /\ RetInv(strict) /\ StopInv
  BY DEF OwnInv
<1>1. PcKept
  BY DEF PcKept
<1>2. \A p : Live(p) /\ p # x => Same(p)
  BY <1>1, LiveKept DEF Live
<1>3. QueueSlots'
  BY <1>0, <1>2 DEF QueueSlots, Same
<1>4. ConnSlots'
  BY <1>0, <1>2 DEF ConnSlots, Same
<1>5. QueueDistinct'
  <2>1. \A i \in 1 .. Len(requestsChan) : requestsChan[i] # NoObj
    BY <1>0, ClientAssumption DEF QueueSlots, Live
  <2> QED
    BY <1>0, <2>1 DEF QueueDistinct
<1>6. ConnDistinct'
  BY <1>0 DEF ConnDistinct
<1>7. StopInv' /\ RetInv(strict)'
  BY <1>0 DEF StopInv, RetInv, RetOK
<1>8. \A l \in Conns, w \in Message : Registered(l, w) => Registered(l, w)'
  <2>1. \A l \in Conns, id \in IDs :
          pending[l][id] # NoObj => heap'[pending[l][id]] = heap[pending[l][id]]
    BY <1>0 DEF ConnSlots, Live
  <2> QED
    BY <2>1 DEF Registered, Message
<1> QED
  BY <1>3, <1>4, <1>5, <1>6, <1>7, <1>8

\* The types of the messages, for DropFrame.
LEMMA MessageTypes ==
    ASSUME TypeInv
    PROVE  \A l \in Conns : /\ wire[l] \subseteq Message
                            /\ writer[l].buf \subseteq Message
                            /\ writer[l].wr \in Message
BY ConnTypes DEF Writer

\* A canceled request is dropped.
LEMMA CanceledIInv ==
    ASSUME NEW strict \in BOOLEAN, OwnInv(strict), TypeInv', NEW k \in Conns, WriterCanceled(k)
    PROVE  OwnInv(strict)'
<1> USE DEF lifeVars, callVars
<1>0. /\ TypeInv /\ QueueSlots /\ ConnSlots /\ QueueDistinct /\ ConnDistinct
      /\ MemInv(strict) /\ CallerInv(strict) /\ RetInv(strict) /\ MessageInv /\ StopInv
  BY DEF OwnInv
<1>1. PICK o \in Objs : o = writer[k].m
  BY <1>0 DEF WriterCanceled, TypeInv, WriterHolds
<1>2. /\ writer[k].pc = "got" /\ heap[o].canceled /\ Discard(o, "canceled")
      /\ UNCHANGED <<lifeVars, callVars, fresh, requestsChan>>
      /\ UNCHANGED <<handler, reader, pending, wire>>
  BY <1>1 DEF WriterCanceled
<1>3. /\ \A l \in Conns : l # k => writer'[l] = writer[l]
      /\ writer'[k].m = NoObj /\ writer'[k].pc = "select"
      /\ writer'[k].buf = writer[k].buf /\ writer'[k].wr = writer[k].wr
  BY <1>0, ConnTypes DEF WriterCanceled, Writer
<1>4. Live(o) /\ o # NoObj
  BY <1>0, <1>1, ClientAssumption DEF ConnSlots
<1>5. /\ \A i \in 1 .. Len(requestsChan) : requestsChan[i] # o
      /\ \A l \in Conns, id \in IDs : pending[l][id] # o
      /\ \A l \in Conns : reader[l].m # o
      /\ \A l \in Conns : l # k => writer[l].m # o
  BY <1>0, <1>1, <1>4 DEF QueueDistinct, ConnDistinct
<1>6. /\ \A p \in Objs : p # o => heap'[p] = heap[p]
      /\ \A p \in Objs : p # o => (p \in pool' <=> p \in pool)
      /\ MemInv(strict)' /\ CallerInv(strict)'
  BY <1>0, <1>2, <1>4, DiscardEffect
<1>7. /\ QueueSlots' /\ ConnSlots' /\ QueueDistinct' /\ ConnDistinct'
      /\ StopInv' /\ RetInv(strict)'
      /\ \A l \in Conns, w \in Message : Registered(l, w) => Registered(l, w)'
  BY <1>2, <1>3, <1>4, <1>5, <1>6, DropFrame
<1>8. MessageInv'
  BY <1>0, <1>2, <1>3, <1>7, MessageTypes DEF MessageInv, Ended
<1> QED
  BY <1>6, <1>7, <1>8 DEF OwnInv

\* A request without response is encoded and its object released.
LEMMA SkipIInv ==
    ASSUME NEW strict \in BOOLEAN, OwnInv(strict), TypeInv', NEW k \in Conns, WriterSkip(k)
    PROVE  OwnInv(strict)'
<1> USE DEF lifeVars, callVars
<1>0. /\ TypeInv /\ QueueSlots /\ ConnSlots /\ QueueDistinct /\ ConnDistinct
      /\ MemInv(strict) /\ CallerInv(strict) /\ RetInv(strict) /\ MessageInv /\ StopInv
  BY DEF OwnInv
<1>1. PICK o \in Objs : o = writer[k].m
  BY <1>0 DEF WriterSkip, TypeInv, WriterHolds
<1>2. /\ writer[k].pc = "got" /\ ~heap[o].canceled /\ heap[o].done = "nil"
      /\ heap' = [heap EXCEPT ![o] = Released(@)] /\ pool' = pool \cup {o}
      /\ UNCHANGED <<lifeVars, callVars, fresh, requestsChan>>
      /\ UNCHANGED <<handler, reader, pending, wire>>
  BY <1>1 DEF WriterSkip
<1>3. /\ \A l \in Conns : l # k => writer'[l] = writer[l]
      /\ writer'[k].m = NoObj /\ writer'[k].pc = "encode"
      /\ writer'[k].buf = writer[k].buf /\ writer'[k].wr.id = 0
  BY <1>0, ConnTypes DEF WriterSkip, Writer
<1>4. Live(o) /\ o # NoObj
  BY <1>0, <1>1, ClientAssumption DEF ConnSlots
<1>5. /\ \A i \in 1 .. Len(requestsChan) : requestsChan[i] # o
      /\ \A l \in Conns, id \in IDs : pending[l][id] # o
      /\ \A l \in Conns : reader[l].m # o
      /\ \A l \in Conns : l # k => writer[l].m # o
  BY <1>0, <1>1, <1>4 DEF QueueDistinct, ConnDistinct
<1>6. /\ \A p \in Objs : p # o => heap'[p] = heap[p]
      /\ heap'[o].req = NoCall /\ heap'[o].err = "nil"
      /\ heap'[o].body = NoCall /\ heap'[o].done = "nil"
      /\ ~heap'[o].canceled
  BY <1>0, <1>2, CallTypes DEF Released, AsyncResult
<1>7. MemInv(strict)'
  BY <1>0, <1>2, <1>6 DEF MemInv
<1>8. CallerInv(strict)'
  BY <1>0, <1>2, <1>6 DEF CallerInv
<1>9. /\ QueueSlots' /\ ConnSlots' /\ QueueDistinct' /\ ConnDistinct'
      /\ StopInv' /\ RetInv(strict)'
      /\ \A l \in Conns, w \in Message : Registered(l, w) => Registered(l, w)'
  BY <1>2, <1>3, <1>4, <1>5, <1>6, DropFrame
<1>10. Registered(k, writer[k].wr)'
  BY <1>3 DEF Registered
<1>11. MessageInv'
  BY <1>0, <1>2, <1>3, <1>9, <1>10, MessageTypes DEF MessageInv, Ended
<1> QED
  BY <1>7, <1>8, <1>9, <1>11 DEF OwnInv

\* The search for a free ID ends at one that is not pending.
LEMMA NextMsgIDFree ==
    ASSUME NEW k \in Conns, NEW id \in IDs, NextMsgID(k, id)
    PROVE  pending[k][id] = NoObj
BY DEF NextMsgID

\* A request moves from the writer's hands into the pending map.
LEMMA RegisterIInv ==
    ASSUME NEW strict \in BOOLEAN, OwnInv(strict), TypeInv', NEW k \in Conns, WriterRegister(k)
    PROVE  OwnInv(strict)'
<1> USE DEF lifeVars, callVars, memVars
<1>0. /\ TypeInv /\ QueueSlots /\ ConnSlots /\ QueueDistinct /\ ConnDistinct
      /\ MemInv(strict) /\ CallerInv(strict) /\ RetInv(strict) /\ MessageInv /\ StopInv
  BY DEF OwnInv
<1>1. PICK o \in Objs : o = writer[k].m
  BY <1>0 DEF WriterRegister, TypeInv, WriterHolds
<1>2. /\ writer[k].pc = "got" /\ heap[o].done # "nil"
      /\ UNCHANGED <<lifeVars, callVars, memVars, requestsChan>>
      /\ UNCHANGED <<handler, reader, wire>>
  BY <1>1 DEF WriterRegister, sharedVars
<1>3. PICK id \in IDs :
        /\ NextMsgID(k, id)
        /\ pending' = [pending EXCEPT ![k][id] = o]
        /\ writer' = [writer EXCEPT
              ![k].pc = IF Stuck(k) THEN "stuck" ELSE "count",
              ![k].m = NoObj, ![k].msgID = id,
              ![k].wr = [id |-> id, call |-> heap[o].req]]
  BY <1>1 DEF WriterRegister
<1>4. /\ \A l \in Conns : l # k => writer'[l] = writer[l]
      /\ writer'[k].m = NoObj /\ writer'[k].pc \in {"stuck", "count"}
      /\ writer'[k].buf = writer[k].buf
      /\ writer'[k].wr = [id |-> id, call |-> heap[o].req]
  BY <1>0, <1>3, ConnTypes DEF Writer
<1>5. /\ pending[k][id] = NoObj /\ pending'[k][id] = o
      /\ \A i \in IDs : i # id => pending'[k][i] = pending[k][i]
      /\ \A l \in Conns : l # k => pending'[l] = pending[l]
  BY <1>0, <1>3, ConnTypes, NextMsgIDFree
<1>6. Live(o) /\ o # NoObj /\ heap[o].done = "open"
  <2>1. heap[o].done \in {"nil", "open", "closed"}
    BY <1>0, CallTypes DEF AsyncResult
  <2> QED
    BY <1>0, <1>1, <1>2, <2>1, ClientAssumption DEF ConnSlots, Live
<1>7. /\ \A i \in 1 .. Len(requestsChan) : requestsChan[i] # o
      /\ \A l \in Conns, i \in IDs : pending[l][i] # o
      /\ \A l \in Conns : reader[l].m # o
      /\ \A l \in Conns : l # k => writer[l].m # o
      /\ \A i \in 1 .. Len(requestsChan) : requestsChan[i] # NoObj
  BY <1>0, <1>1, <1>6, ClientAssumption
     DEF QueueDistinct, ConnDistinct, QueueSlots, Live
<1>8. \A p : Live(p) => Live(p)'
  BY <1>2 DEF Live
<1>9. QueueSlots'
  BY <1>0, <1>2, <1>8 DEF QueueSlots
<1>10. ConnSlots'
  BY <1>0, <1>2, <1>4, <1>5, <1>6, <1>8 DEF ConnSlots
<1>11. QueueDistinct'
  BY <1>0, <1>2, <1>4, <1>5, <1>7 DEF QueueDistinct
<1>12. ConnDistinct'
  BY <1>0, <1>2, <1>4, <1>5, <1>6, <1>7 DEF ConnDistinct
<1>13. MessageInv'
  <2>1. \A l \in Conns, w \in Message :
          (l # k \/ w.id # id \/ w.id = 0) /\ Registered(l, w) =>
              Registered(l, w)'
    BY <1>2, <1>5 DEF Registered, Message
  <2>2. \A w \in Message : w.id = id /\ w.id # 0 => ~Registered(k, w)
    BY <1>5 DEF Registered
  <2>3. writer'[k].wr.id = id /\ Registered(k, writer[k].wr)'
    <3>1. writer'[k].wr.id = id /\ writer'[k].wr.call = heap[o].req
      BY <1>4
    <3>2. heap' = heap
      BY <1>2
    <3> QED
      BY <1>5, <1>6, <3>1, <3>2 DEF Registered
  <2>4. writer'[k].wr \in Message
    BY <1>0, <1>4, CallTypes DEF Message, AsyncResult
  <2> QED
    BY <1>0, <1>2, <1>4, <2>1, <2>2, <2>3, <2>4, MessageTypes
       DEF MessageInv, Ended
<1>14. MemInv(strict)'
  BY <1>0, <1>2 DEF MemInv
<1>15. CallerInv(strict)'
  BY <1>0, <1>2 DEF CallerInv
<1>16. RetInv(strict)' /\ StopInv'
  BY <1>0, <1>2 DEF RetInv, RetOK, StopInv
<1> QED
  BY <1>9, <1>10, <1>11, <1>12, <1>13, <1>14, <1>15, <1>16 DEF OwnInv

\* The counter of the writer and of the reader, and of the final loop, is
\* nobody's object.
LEMMA CountIInv ==
    ASSUME NEW strict \in BOOLEAN, OwnInv(strict), TypeInv', NEW k \in Conns,
           WriterCount(k) \/ ReaderCount(k) \/ HandlerCount(k)
    PROVE  OwnInv(strict)'
<1> USE DEF lifeVars, callVars, memVars
<1>0. /\ TypeInv /\ QueueSlots /\ ConnSlots /\ QueueDistinct /\ ConnDistinct
      /\ MemInv(strict) /\ CallerInv(strict) /\ RetInv(strict) /\ MessageInv /\ StopInv
  BY DEF OwnInv
<1>1. UNCHANGED <<lifeVars, callVars, memVars, requestsChan, pending, wire>>
  BY DEF WriterCount, ReaderCount, HandlerCount
<1>2. \A l \in Conns :
        /\ writer'[l].m = writer[l].m /\ writer'[l].wr = writer[l].wr
        /\ writer'[l].buf = writer[l].buf
        /\ writer'[l].pc # writer[l].pc =>
              writer[l].pc # "done" /\ writer'[l].pc \in {"done", "encode"}
  <2>1. CASE WriterCount(k)
    BY <1>0, <2>1, ConnTypes DEF WriterCount, Writer
  <2>2. CASE UNCHANGED writer
    BY <2>2
  <2> QED
    BY <2>1, <2>2 DEF ReaderCount, HandlerCount
<1>3. \A l \in Conns : /\ reader'[l].m = reader[l].m
                       /\ reader'[l].call = reader[l].call
                       /\ reader'[l].err = reader[l].err
  <2>1. CASE ReaderCount(k)
    BY <1>0, <2>1, ConnTypes DEF ReaderCount, Reader
  <2>2. CASE UNCHANGED reader
    BY <2>2
  <2> QED
    BY <2>1, <2>2 DEF WriterCount, HandlerCount
<1>4. \A l \in Conns :
        /\ handler'[l].err = handler[l].err
        /\ handler'[l].pc # handler[l].pc =>
              handler[l].pc = "closing" /\ handler'[l].pc = "dropping"
  <2>1. CASE HandlerCount(k)
    BY <1>0, <2>1, ConnTypes DEF HandlerCount, Handler
  <2>2. CASE UNCHANGED handler
    BY <2>2
  <2> QED
    BY <2>1, <2>2 DEF ReaderCount, WriterCount
<1>5. \A p : Live(p) => Live(p)'
  BY <1>1 DEF Live
<1>6. QueueSlots' /\ QueueDistinct'
  BY <1>0, <1>1, <1>2, <1>3, <1>5 DEF QueueSlots, QueueDistinct
<1>7. ConnSlots'
  BY <1>0, <1>1, <1>2, <1>3, <1>5 DEF ConnSlots
<1>8. ConnDistinct'
  BY <1>0, <1>1, <1>2, <1>3 DEF ConnDistinct
<1>9. MessageInv'
  <2>1. \A l \in Conns : \A w : Registered(l, w) => Registered(l, w)'
    BY <1>1 DEF Registered
  <2> QED
    BY <1>0, <1>1, <1>2, <1>4, <2>1 DEF MessageInv, Ended
<1>10. MemInv(strict)'
  BY <1>0, <1>1 DEF MemInv
<1>11. CallerInv(strict)'
  BY <1>0, <1>1 DEF CallerInv
<1>12. RetInv(strict)' /\ StopInv'
  BY <1>0, <1>1, <1>4 DEF RetInv, RetOK, StopInv
<1> QED
  BY <1>6, <1>7, <1>8, <1>9, <1>10, <1>11, <1>12 DEF OwnInv

\* No step of clientWriter breaks the invariant.
LEMMA WriterIInv ==
    ASSUME NEW strict \in BOOLEAN, OwnInv(strict), TypeInv', NEW k \in Conns, clientWriter(k)
    PROVE  OwnInv(strict)'
BY EncoderIInv, TakeIInv, CanceledIInv, SkipIInv, RegisterIInv, CountIInv
   DEF clientWriter

\* A response meets its request: the message IDs lead to the right object.
LEMMA MatchIInv ==
    ASSUME NEW strict \in BOOLEAN, OwnInv(strict), TypeInv', NEW k \in Conns, ReaderMatch(k)
    PROVE  OwnInv(strict)'
<1> USE DEF lifeVars, callVars, memVars
<1>0. /\ TypeInv /\ QueueSlots /\ ConnSlots /\ QueueDistinct /\ ConnDistinct
      /\ MemInv(strict) /\ CallerInv(strict) /\ RetInv(strict) /\ MessageInv /\ StopInv
  BY DEF OwnInv
<1>1. /\ UNCHANGED <<lifeVars, callVars, memVars, requestsChan, handler, writer>>
      /\ handler[k].pc = "serving"
  BY DEF ReaderMatch, sharedVars, ConnOpen
<1>2. PICK w \in wire[k], e \in {"nil", "server"} : ReaderMatch(k)!3!(w, e)
  BY DEF ReaderMatch
<1>3. w \in Message /\ w.id \in IDs
  <2>1. w \in Message
    BY <1>0, <1>2, ConnTypes
  <2> QED
    BY <2>1 DEF Message
<1>4. PICK o \in Objs : o = pending[k][w.id]
  BY <1>0, <1>2, <1>3, ConnTypes
<1>5. /\ Live(o) /\ heap[o].done = "open" /\ o # NoObj /\ heap[o].req = w.call
  BY <1>0, <1>1, <1>2, <1>3, <1>4 DEF ConnSlots, MessageInv, Registered, Ended
<1>6. /\ pending'[k][w.id] = NoObj
      /\ \A i \in IDs : i # w.id => pending'[k][i] = pending[k][i]
      /\ \A l \in Conns : l # k => pending'[l] = pending[l]
  BY <1>0, <1>2, <1>3, ConnTypes DEF Deleted
<1>7. /\ \A l \in Conns : l # k => reader'[l] = reader[l]
      /\ reader'[k].m = o /\ reader'[k].err = e
      /\ reader'[k].call = IF e = "nil" THEN w.call ELSE NoCall
  BY <1>0, <1>2, <1>4, ConnTypes
<1>8. /\ \A l \in Conns : l # k => wire'[l] = wire[l]
      /\ wire'[k] = wire[k] \ {w}
  BY <1>0, <1>2, ConnTypes
<1>9. \A p : Live(p) => Live(p)'
  BY <1>1 DEF Live
<1>10. /\ \A i \in 1 .. Len(requestsChan) : requestsChan[i] # o
       /\ \A l \in Conns, i \in IDs : pending'[l][i] # o
       /\ \A l \in Conns : writer[l].m # o
       /\ \A l \in Conns : reader[l].m # o
       /\ \A i \in 1 .. Len(requestsChan) : requestsChan[i] # NoObj
  <2>1. \A l \in Conns, i \in IDs : pending'[l][i] # o
    BY <1>0, <1>3, <1>4, <1>5, <1>6 DEF ConnDistinct
  <2>2. /\ \A l \in Conns : writer[l].m # o
        /\ \A l \in Conns : reader[l].m # o
    BY <1>0, <1>3, <1>4, <1>5 DEF ConnDistinct
  <2>3. \A i \in 1 .. Len(requestsChan) :
          requestsChan[i] # o /\ requestsChan[i] # NoObj
    BY <1>0, <1>3, <1>4, ClientAssumption DEF QueueDistinct, QueueSlots, Live
  <2> QED
    BY <2>1, <2>2, <2>3
<1>11. \A l \in Conns, i \in IDs : pending'[l][i] \in {pending[l][i], NoObj}
  BY <1>3, <1>6
<1>12. QueueSlots'
  BY <1>0, <1>1, <1>9 DEF QueueSlots
<1>13. ConnSlots'
  BY <1>0, <1>1, <1>5, <1>7, <1>9, <1>11 DEF ConnSlots
<1>14. QueueDistinct'
  BY <1>0, <1>1, <1>7, <1>10, <1>11 DEF QueueDistinct
<1>15. ConnDistinct'
  BY <1>0, <1>1, <1>7, <1>10, <1>11 DEF ConnDistinct
<1>16. MessageInv'
  <2>1. \A l \in Conns, v \in Message :
          (l # k \/ v.id # w.id \/ v.id = 0) /\ Registered(l, v) =>
              Registered(l, v)'
    BY <1>1, <1>6 DEF Registered, Message
  <2>2. ASSUME NEW v \in Message, Registered(k, v), v.id = w.id, v.id # 0
        PROVE  v = w
    <3>1. v.call = w.call
      BY <1>4, <1>5, <2>2 DEF Registered
    <3> QED
      BY <1>3, <2>2, <3>1 DEF Message
  <2>3. /\ \A v \in wire[k] : Registered(k, v) /\ v \in Message
        /\ writer[k].pc # "done" =>
            /\ \A v \in writer[k].buf : /\ Registered(k, v) /\ v \in Message
                                        /\ (v.id # 0 => v \notin wire[k])
            /\ Registered(k, writer[k].wr) /\ writer[k].wr \in Message
            /\ writer[k].wr.id # 0 => writer[k].wr \notin wire[k]
    BY <1>0, <1>1, MessageTypes DEF MessageInv, Ended
  <2>4. \A v \in wire'[k] : Registered(k, v)'
    BY <1>8, <2>1, <2>2, <2>3
  <2>5. writer[k].pc # "done" =>
            /\ \A v \in writer[k].buf : Registered(k, v)'
            /\ Registered(k, writer[k].wr)'
    <3>1. writer'[k] = writer[k]
      BY <1>1
    <3> QED
      BY <1>2, <2>1, <2>2, <2>3, <3>1
  <2> QED
    BY <1>0, <1>1, <1>8, <2>1, <2>4, <2>5, MessageTypes DEF MessageInv, Ended
<1>17. MemInv(strict)'
  BY <1>0, <1>1 DEF MemInv
<1>18. CallerInv(strict)'
  BY <1>0, <1>1 DEF CallerInv
<1>19. RetInv(strict)' /\ StopInv'
  BY <1>0, <1>1 DEF RetInv, RetOK, StopInv
<1> QED
  BY <1>12, <1>13, <1>14, <1>15, <1>16, <1>17, <1>18, <1>19 DEF OwnInv

\* The reader completes the object it matched.
LEMMA CompleteIInv ==
    ASSUME NEW strict \in BOOLEAN, OwnInv(strict), TypeInv', NEW k \in Conns, ReaderComplete(k)
    PROVE  OwnInv(strict)'
<1> USE DEF lifeVars, callVars
<1>0. /\ TypeInv /\ QueueSlots /\ ConnSlots /\ QueueDistinct /\ ConnDistinct
      /\ MemInv(strict) /\ CallerInv(strict) /\ RetInv(strict) /\ MessageInv /\ StopInv
  BY DEF OwnInv
<1>1. PICK o \in Objs : o = reader[k].m
  BY <1>0 DEF ReaderComplete, TypeInv, ReaderHolds
<1>2. /\ heap' = [heap EXCEPT ![o] = Answered(@, reader[k].call, reader[k].err)]
      /\ UNCHANGED <<lifeVars, callVars, pool, fresh, requestsChan>>
      /\ UNCHANGED <<handler, writer, pending, wire>>
  BY <1>1 DEF ReaderComplete
<1>3. /\ \A l \in Conns : l # k => reader'[l] = reader[l]
      /\ reader'[k].m = NoObj
  BY <1>0, ConnTypes DEF ReaderComplete, NewReader
<1>4. /\ Live(o) /\ o # NoObj /\ heap[o].done = "open"
      /\ reader[k].call \in {NoCall, heap[o].req}
      /\ reader[k].err = "nil" => reader[k].call = heap[o].req
  BY <1>0, <1>1, ClientAssumption DEF ConnSlots
<1>5. /\ \A i \in 1 .. Len(requestsChan) : requestsChan[i] # o
      /\ \A l \in Conns, id \in IDs : pending[l][id] # o
      /\ \A l \in Conns : writer[l].m # o
      /\ \A l \in Conns : l # k => reader[l].m # o
  <2>1. \A l \in Conns : writer[l].m # o
    BY <1>0, <1>1, <1>4 DEF ConnDistinct
  <2> QED
    BY <1>0, <1>1, <1>4, <2>1 DEF QueueDistinct, ConnDistinct
<1>6. /\ \A p \in Objs : p # o => heap'[p] = heap[p]
      /\ heap'[o].req = heap[o].req /\ heap'[o].done = "closed"
      /\ heap'[o].hdr = reader[k].call /\ heap'[o].body = reader[k].call
      /\ heap'[o].err = (IF reader[k].err = "nil" THEN heap[o].err ELSE "server")
      /\ heap'[o].canceled = heap[o].canceled
  <2>1. heap \in [Objs -> AsyncResult] /\ heap[o] \in AsyncResult
    BY <1>0, CallTypes
  <2>2. heap'[o] = Answered(heap[o], reader[k].call, reader[k].err)
    BY <1>2, <2>1
  <2>3. \A p \in Objs : p # o => heap'[p] = heap[p]
    BY <1>2, <2>1
  <2> QED
    BY <2>1, <2>2, <2>3 DEF Answered, AsyncResult
<1>7. MemInv(strict)'
  BY <1>0, <1>2, <1>4, <1>6 DEF MemInv, Live
<1>8. CallerInv(strict)'
  BY <1>0, <1>2, <1>4, <1>6 DEF CallerInv, Live
<1>9. /\ QueueSlots' /\ ConnSlots' /\ QueueDistinct' /\ ConnDistinct'
      /\ StopInv' /\ RetInv(strict)'
      /\ \A l \in Conns, w \in Message : Registered(l, w) => Registered(l, w)'
  BY <1>2, <1>3, <1>4, <1>5, <1>6, DropFrame
<1>10. MessageInv'
  BY <1>0, <1>2, <1>9, MessageTypes DEF MessageInv, Ended
<1> QED
  BY <1>7, <1>8, <1>9, <1>10 DEF OwnInv

\* No step of clientReader breaks the invariant.
LEMMA ReaderIInv ==
    ASSUME NEW strict \in BOOLEAN, OwnInv(strict), TypeInv', NEW k \in Conns, clientReader(k)
    PROVE  OwnInv(strict)'
<1>1. CASE ReaderFail(k)
  <2>1. UNCHANGED <<sharedVars, handler, writer, pending, wire>>
    BY <1>1 DEF ReaderFail
  <2>2. \A l \in Conns : /\ reader'[l].m = reader[l].m
                         /\ reader'[l].call = reader[l].call
                         /\ reader'[l].err = reader[l].err
    BY <1>1, ConnTypes DEF ReaderFail, Reader, OwnInv
  <2>3. MessageInv'
    BY <2>1 DEF OwnInv, MessageInv, Ended, Registered, sharedVars, memVars
  <2>4. StopInv'
    BY <2>1 DEF OwnInv, StopInv, sharedVars, lifeVars
  <2> QED
    BY <2>1, <2>2, <2>3, <2>4, MessageFrame
<1> QED
  BY <1>1, MatchIInv, CountIInv, CompleteIInv DEF clientReader

\* The steps of the handler before and while a connection serves.
LEMMA DialIInv ==
    ASSUME NEW strict \in BOOLEAN, OwnInv(strict), TypeInv', NEW k \in Conns,
           \/ HandlerConnect(k) \/ HandlerDialFail(k) \/ HandlerSetupFail(k)
           \/ HandlerRedial(k) \/ HandlerStop(k) \/ HandlerClose(k)
    PROVE  OwnInv(strict)'
<1>0. handler \in [Conns -> Handler]
  BY ConnTypes DEF OwnInv
<1>1. CASE HandlerConnect(k)
  <2>1. UNCHANGED <<sharedVars, pending, wire>>
    BY <1>1 DEF HandlerConnect
  <2>2. /\ \A l \in Conns : l # k => /\ reader'[l] = reader[l]
                                     /\ writer'[l] = writer[l]
        /\ reader'[k].m = NoObj /\ writer'[k].m = NoObj
        /\ writer'[k].buf = {} /\ writer'[k].wr = NoMessage
    BY <1>1, ConnTypes DEF HandlerConnect, NewReader, NewWriter, OwnInv
  <2>3. MessageInv'
    <3>1. Registered(k, NoMessage)' /\ NoMessage.id = 0
      BY DEF Registered, NoMessage
    <3> QED
      BY <1>0, <1>1, <2>1, <2>2, <3>1
         DEF HandlerConnect, OwnInv, MessageInv, Ended, Registered, sharedVars, memVars
  <2>4. StopInv'
    BY <1>0, <1>1, <2>1
       DEF HandlerConnect, OwnInv, StopInv, sharedVars, lifeVars
  <2> QED
    BY <2>1, <2>2, <2>3, <2>4, MessageFrame
<1>2. CASE ~HandlerConnect(k)
  <2>1. UNCHANGED <<sharedVars, writer, reader, pending, wire>>
    BY <1>2 DEF HandlerDialFail, HandlerSetupFail, HandlerRedial, HandlerStop,
                HandlerClose
  <2>2. MessageInv'
    <3>1. \A l \in Conns : handler[l].pc \in {"closing", "dropping"} =>
                               handler'[l].pc = handler[l].pc
      BY <1>0, <1>2 DEF HandlerDialFail, HandlerSetupFail, HandlerRedial,
         HandlerStop, HandlerClose, Handler
    <3> QED
      BY <2>1, <3>1 DEF OwnInv, MessageInv, Ended, Registered, sharedVars, memVars
  <2>3. /\ \A l \in Conns : l # k => handler'[l] = handler[l]
        /\ handler[k].pc # "stopped"
        /\ handler'[k].pc \in {"closing", "dropping"} =>
              handler'[k].err \in CloseReasons(k)
    <3>1. CASE HandlerClose(k)
      BY <1>0, <3>1 DEF HandlerClose
    <3>2. CASE ~HandlerClose(k)
      BY <1>0, <1>2, <3>2 DEF HandlerDialFail, HandlerSetupFail,
         HandlerRedial, HandlerStop, Handler
    <3> QED
      BY <3>1, <3>2
  <2>4. StopInv'
    BY <2>1, <2>3
       DEF OwnInv, StopInv, CloseReasons, Stopping, sharedVars, lifeVars
  <2> QED
    BY <2>1, <2>2, <2>4, MessageFrame
<1> QED
  BY <1>1, <1>2

\* The connection's error completes a request that is still pending on it.
LEMMA DropIInv ==
    ASSUME NEW strict \in BOOLEAN, OwnInv(strict),
           TypeInv', NEW k \in Conns, HandlerDrop(k)
    PROVE  OwnInv(strict)'
<1> USE DEF lifeVars, callVars
<1>0. /\ TypeInv /\ QueueSlots /\ ConnSlots /\ QueueDistinct /\ ConnDistinct
      /\ MemInv(strict) /\ CallerInv(strict) /\ RetInv(strict) /\ MessageInv /\ StopInv
  BY DEF OwnInv
<1>1. /\ UNCHANGED <<lifeVars, callVars, pool, fresh, requestsChan>>
      /\ UNCHANGED <<writer, reader, wire>>
      /\ handler[k].pc = "dropping" /\ writer[k].pc = "done"
  BY DEF HandlerDrop
<1>2. PICK id \in IDs : HandlerDrop(k)!3!(id) /\ pending[k][id] # NoObj
  BY DEF HandlerDrop, Left, PendingIDs
<1>3. PICK o \in Objs : o = pending[k][id]
  BY <1>0, <1>2, ConnTypes
<1>4. /\ \A l \in Conns : l # k => handler'[l] = handler[l] /\ pending'[l] = pending[l]
      /\ handler'[k].pc = "closing" /\ handler'[k].err = handler[k].err
      /\ pending'[k][id] = NoObj
      /\ \A i \in IDs : i # id => pending'[k][i] = pending[k][i]
  BY <1>0, <1>2, ConnTypes DEF HandlerDrop, Deleted, Handler
<1>5. /\ \A p \in Objs : p # o => heap'[p] = heap[p]
      /\ heap'[o].req = heap[o].req /\ heap'[o].done = "closed"
      /\ heap'[o].body = heap[o].body /\ heap'[o].hdr = heap[o].hdr
      /\ heap'[o].err = handler[k].err
      /\ heap'[o].canceled = heap[o].canceled
  <2>1. heap \in [Objs -> AsyncResult] /\ heap[o] \in AsyncResult
    BY <1>0, CallTypes
  <2>2. /\ heap'[o] = Completed(heap[o], handler[k].err)
        /\ \A p \in Objs : p # o => heap'[p] = heap[p]
    BY <1>2, <1>3, <2>1
  <2> QED
    BY <2>1, <2>2 DEF Completed, AsyncResult
<1>6. Live(o) /\ o # NoObj /\ heap[o].done = "open"
  BY <1>0, <1>2, <1>3 DEF ConnSlots
<1>7. /\ \A i \in 1 .. Len(requestsChan) :
            requestsChan[i] # o /\ requestsChan[i] # NoObj
      /\ \A l \in Conns : writer[l].m # o /\ reader[l].m # o
      /\ \A l \in Conns, i \in IDs : pending'[l][i] # o
      /\ \A l \in Conns, i \in IDs : pending'[l][i] \in {pending[l][i], NoObj}
  <2>1. \A i \in 1 .. Len(requestsChan) :
            requestsChan[i] # o /\ requestsChan[i] # NoObj
    BY <1>0, <1>3, ClientAssumption DEF QueueDistinct, QueueSlots, Live
  <2>2. \A l \in Conns : writer[l].m # o /\ reader[l].m # o
    BY <1>0, <1>3, <1>6 DEF ConnDistinct
  <2>3. \A l \in Conns, i \in IDs : pending'[l][i] # o
    BY <1>0, <1>3, <1>4, <1>6 DEF ConnDistinct
  <2>4. \A l \in Conns, i \in IDs : pending'[l][i] \in {pending[l][i], NoObj}
    BY <1>4
  <2> QED
    BY <2>1, <2>2, <2>3, <2>4
<1>8. \A p : Live(p) /\ p # o => Same(p)
  BY <1>1, <1>5 DEF Live, Same
<1>9. QueueSlots'
  BY <1>0, <1>1, <1>7, <1>8 DEF QueueSlots, Same
<1>10. ConnSlots'
  BY <1>0, <1>1, <1>7, <1>8 DEF ConnSlots, Same
<1>11. QueueDistinct'
  BY <1>0, <1>1, <1>7 DEF QueueDistinct
<1>12. ConnDistinct'
  BY <1>0, <1>1, <1>7 DEF ConnDistinct
<1>13. MessageInv'
  <2>1. \A l \in Conns, w \in Message :
          l # k /\ Registered(l, w) => Registered(l, w)'
    <3>1. \A l \in Conns, i \in IDs : l # k /\ pending[l][i] # NoObj =>
            heap'[pending[l][i]].req = heap[pending[l][i]].req
      BY <1>0, <1>5 DEF ConnSlots, Live
    <3> QED
      BY <1>4, <3>1 DEF Registered, Message
  <2> QED
    BY <1>0, <1>1, <1>4, <2>1, MessageTypes DEF MessageInv, Ended
<1>14. handler[k].err = "nil" => stops > 0
  BY <1>0, <1>1 DEF StopInv
<1>15. handler[k].err # "canceled"
  BY <1>0, ConnTypes DEF Handler
<1>16. StopInv'
  BY <1>0, <1>1, <1>4, <1>14 DEF StopInv
<1>17. RetInv(strict)'
  BY <1>0, <1>1 DEF RetInv, RetOK
<1>18. MemInv(strict)'
  BY <1>0, <1>1, <1>5, <1>6, <1>15 DEF MemInv, Live
<1>19. CallerInv(strict)'
  BY <1>0, <1>1, <1>5, <1>6, <1>14 DEF CallerInv, Live
<1> QED
  BY <1>9, <1>10, <1>11, <1>12, <1>13, <1>16, <1>17, <1>18, <1>19 DEF OwnInv

\* The next connection starts from nothing.
LEMMA TeardownIInv ==
    ASSUME NEW strict \in BOOLEAN, OwnInv(strict),
           TypeInv', NEW k \in Conns, HandlerTeardown(k)
    PROVE  OwnInv(strict)'
<1>0. TypeInv /\ MessageInv /\ StopInv
  BY DEF OwnInv
<1>1. UNCHANGED sharedVars
  BY DEF HandlerTeardown
<1>2. UNCHANGED pending
  <2>1. \A id \in IDs : pending[k][id] = NoObj
    BY DEF HandlerTeardown, Left, PendingIDs
  <2>2. pending \in [Conns -> [IDs -> Objs \cup {NoObj}]]
    BY <1>0, ConnTypes
  <2>3. pending[k] = NonePending
    BY <2>1, <2>2 DEF NonePending
  <2> QED
    BY <2>2, <2>3 DEF HandlerTeardown
<1>3. /\ \A l \in Conns : l # k => /\ reader'[l] = reader[l]
                                   /\ writer'[l] = writer[l]
                                   /\ wire'[l] = wire[l]
                                   /\ handler'[l] = handler[l]
      /\ reader'[k].m = NoObj /\ writer'[k].m = NoObj
      /\ writer'[k].buf = {} /\ writer'[k].wr = NoMessage
      /\ wire'[k] = {} /\ handler'[k].pc \in {"stopped", "dial"}
      /\ handler[k].pc = "closing"
  BY <1>0, ConnTypes DEF HandlerTeardown, NewReader, NewWriter
<1>4. MessageInv'
  <2>1. Registered(k, NoMessage)' /\ NoMessage.id = 0
    BY DEF Registered, NoMessage
  <2>2. \A l \in Conns : \A w : Registered(l, w) => Registered(l, w)'
    BY <1>1, <1>2 DEF Registered, sharedVars, memVars
  <2> QED
    BY <1>0, <1>3, <2>1, <2>2 DEF MessageInv, Ended
<1>5. StopInv'
  BY <1>0, <1>1, <1>3 DEF StopInv, sharedVars, lifeVars
<1> QED
  BY <1>1, <1>2, <1>3, <1>4, <1>5, MessageFrame

\* Stop, its return, and Start.
LEMMA LifeIInv ==
    ASSUME NEW strict \in BOOLEAN, OwnInv(strict), TypeInv', Stop \/ StopReturn \/ Start
    PROVE  OwnInv(strict)'
<1> USE DEF lifeVars, callVars, memVars
<1>0. /\ TypeInv /\ QueueSlots /\ ConnSlots /\ QueueDistinct /\ ConnDistinct
      /\ MemInv(strict) /\ CallerInv(strict) /\ RetInv(strict) /\ MessageInv /\ StopInv
  BY DEF OwnInv
<1>1. /\ UNCHANGED <<callVars, memVars, writer, reader, pending, wire>>
      /\ UNCHANGED requestsChan \/ requestsChan' = <<>>
      /\ stops' = stops \/ stops' > 0
      /\ stops' = 0 => stops = 0
  BY <1>0 DEF Stop, StopReturn, Start, connVars, TypeInv, TypeOK, LifeTypeOK
<1>2. \A p : Live(p) => Live(p)'
  BY <1>1 DEF Live
<1>3. QueueSlots' /\ QueueDistinct'
  BY <1>0, <1>1, <1>2 DEF QueueSlots, QueueDistinct
<1>4. ConnSlots'
  BY <1>0, <1>1, <1>2 DEF ConnSlots
<1>5. ConnDistinct'
  BY <1>0, <1>1 DEF ConnDistinct
<1>6. MessageInv'
  BY <1>0, <1>1
     DEF MessageInv, Registered, Ended, StopInv, Stop, StopReturn, Start, connVars
<1>7. MemInv(strict)'
  BY <1>0, <1>1 DEF MemInv
<1>8. CallerInv(strict)'
  BY <1>0, <1>1 DEF CallerInv
<1>9. RetInv(strict)'
  BY <1>0, <1>1 DEF RetInv, RetOK
<1>10. StopInv'
  BY <1>0 DEF StopInv, Stop, StopReturn, Start, connVars, TypeInv, TypeOK,
              LifeTypeOK
<1> QED
  BY <1>3, <1>4, <1>5, <1>6, <1>7, <1>8, <1>9, <1>10 DEF OwnInv

-----------------------------------------------------------------------------
(* The theorems.                                                            *)

\* A client that was just started owns nothing but unused objects.
LEMMA InitIInv == Init => IInv
<1> SUFFICES ASSUME Init PROVE OwnInv(TRUE)
  BY DEF IInv
<1>1. TypeInv
  BY InitTypeInv
<1>2. /\ \A k \in Conns : /\ writer[k].m = NoObj /\ reader[k].m = NoObj
                          /\ writer[k].buf = {} /\ writer[k].wr.id = 0
                          /\ wire[k] = {} /\ handler[k].pc = "dial"
                          /\ \A id \in IDs : pending[k][id] = NoObj
      /\ requestsChan = <<>> /\ client = "running" /\ cancels = {}
  BY DEF Init, NewWriter, NewReader, NoMessage, NonePending
<1>3. QueueSlots /\ QueueDistinct
  BY <1>2 DEF QueueSlots, QueueDistinct
<1>4. ConnSlots /\ ConnDistinct
  BY <1>2 DEF ConnSlots, ConnDistinct
<1>5. MemInv(TRUE)
  BY DEF Init, MemInv, NewAsyncResult
<1>6. CallerInv(TRUE) /\ RetInv(TRUE)
  BY DEF Init, CallerInv, RetInv, Failed
<1>7. MessageInv /\ StopInv
  BY <1>2 DEF MessageInv, Ended, Registered, StopInv
<1> QED
  BY <1>1, <1>3, <1>4, <1>5, <1>6, <1>7 DEF OwnInv

\* No step of the client breaks the invariant.
LEMMA NextOwnInv ==
    ASSUME NEW strict \in BOOLEAN, OwnInv(strict), [Next]_vars
    PROVE  OwnInv(strict)'
<1>0. TypeInv'
  BY NextTypeInv DEF OwnInv
<1>1. CASE UNCHANGED vars
  <2>1. UNCHANGED <<sharedVars, connVars>>
    BY <1>1 DEF vars, sharedVars, lifeVars, callVars, memVars, connVars
  <2>2. MessageInv' /\ StopInv'
    BY <2>1 DEF OwnInv, MessageInv, Ended, Registered, StopInv, sharedVars, lifeVars,
                memVars, connVars
  <2> QED
    BY <1>0, <2>1, <2>2, MessageFrame DEF connVars
<1>2. CASE Next
  BY <1>0, <1>2, CallStepIInv, WriterIInv, ReaderIInv, DialIInv, CountIInv,
     DropIInv, TeardownIInv, LifeIInv DEF Next, clientHandler
<1> QED
  BY <1>1, <1>2

\* In particular the strict one.
LEMMA NextIInv == IInv /\ [Next]_vars => IInv'
BY NextOwnInv DEF IInv

\* The invariant behind the four theorems below.
LEMMA Inductive == Spec => []IInv
BY InitIInv, NextIInv, PTL DEF Spec

\* What the invariant says of the places of an AsyncResult, as sets.
LEMMA OwnershipFromInv ==
    ASSUME NEW strict \in BOOLEAN, OwnInv(strict)
    PROVE  ExclusiveOwnership
<1>0. /\ QueueSlots /\ ConnSlots /\ QueueDistinct /\ ConnDistinct
      /\ MemInv(strict) /\ CallerInv(strict)
  BY DEF OwnInv
<1>1. \A i, j \in 1 .. Len(requestsChan) :
          requestsChan[i] = requestsChan[j] => i = j
  BY <1>0 DEF QueueDistinct
<1>2. \A k \in Conns : \A i, j \in PendingIDs(k) :
          pending[k][i] = pending[k][j] => i = j
  BY <1>0 DEF ConnDistinct, PendingIDs
<1>3. \A k, l \in Conns :
          /\ k # l => /\ Taken(k) \cap Taken(l) = {}
                      /\ Pending(k) \cap Pending(l) = {}
                      /\ Matched(k) \cap Matched(l) = {}
          /\ Taken(k) \cap (Pending(l) \cup Matched(l)) = {}
          /\ Pending(k) \cap Matched(l) = {}
  BY <1>0 DEF ConnDistinct, PendingIDs, Taken, Pending, Matched
<1>4. \A k \in Conns :
          (Taken(k) \cup Pending(k) \cup Matched(k)) \cap Queued = {}
  BY <1>0 DEF QueueDistinct, PendingIDs, Taken, Pending, Matched, Queued
<1>5. \A c, d \in Calls : (/\ pc[c] \in {"evict", "again", "waiting"}
                           /\ pc[d] \in {"evict", "again", "waiting"}
                           /\ ref[c] = ref[d]) => c = d
  BY <1>0 DEF CallerInv
<1>6. \A p \in Offered : /\ p \in Objs /\ heap[p].req \in Calls
                         /\ pc[heap[p].req] \in {"evict", "again"}
  BY <1>0 DEF Offered, CallerInv
<1>7. /\ \A p \in Queued : Live(p)
      /\ \A k \in Conns : \A p \in Taken(k) \cup Pending(k) \cup Matched(k) :
            Live(p)
  BY <1>0 DEF Queued, Taken, Pending, PendingIDs, Matched, QueueSlots, ConnSlots
<1>8. \A p : Live(p) => p \notin Offered /\ p \notin Unused
  BY <1>6 DEF Live, Unused
<1>9. \A c \in Calls :
          pc[c] \in {"evict", "again", "waiting"} => ref[c] \notin Unused
  BY <1>0 DEF CallerInv, Unused
<1> QED
  BY <1>1, <1>2, <1>3, <1>4, <1>5, <1>7, <1>8, <1>9 DEF ExclusiveOwnership

\* ExclusiveOwnership: an AsyncResult that callAsync, clientWriter,
\* clientReader, the teardown or the pool holds is held by nobody else.
THEOREM OwnershipCorrect == Spec => []ExclusiveOwnership
<1>1. IInv => ExclusiveOwnership
  BY OwnershipFromInv DEF IInv
<1> QED
  BY <1>1, Inductive, PTL

\* What the invariant says of the objects that someone is going to complete.
LEMMA CloseFromInv ==
    ASSUME NEW strict \in BOOLEAN, OwnInv(strict)
    PROVE  NoDoubleClose
<1>0. QueueSlots /\ ConnSlots
  BY DEF OwnInv
<1>1. \A p \in Queued : heap[p].done # "closed"
  BY <1>0 DEF QueueSlots, Queued, Live
<1>2. \A k \in Conns :
        /\ \A p \in Taken(k) : heap[p].done # "closed"
        /\ \A p \in Pending(k) \cup Matched(k) : heap[p].done = "open"
  BY <1>0 DEF ConnSlots, Taken, Pending, PendingIDs, Matched, Live
<1> QED
  BY <1>1, <1>2 DEF NoDoubleClose

\* NoDoubleClose: no close(m.done) of the client meets a closed channel, and
\* the one in clientReader no nil channel.
THEOREM CloseCorrect == Spec => []NoDoubleClose
<1>1. IInv => NoDoubleClose
  BY CloseFromInv DEF IInv
<1> QED
  BY <1>1, Inductive, PTL

\* What the invariant says of results.
LEMMA ResponseFromInv ==
    ASSUME NEW strict \in BOOLEAN, OwnInv(strict)
    PROVE  ResponseMatchesCall
BY DEF OwnInv, RetInv, RetOK, ResponseMatchesCall

\* ResponseMatchesCall: no caller of Call, CallTimeout or CallAsync gets the
\* body of another one's response, and without Stop no success is empty.
THEOREM ResponseCorrect == Spec => []ResponseMatchesCall
<1>1. IInv => ResponseMatchesCall
  BY ResponseFromInv DEF IInv
<1> QED
  BY <1>1, Inductive, PTL

\* CanceledOnlyIfAsked: ErrCanceled reaches only callers of Cancel, although
\* releaseAsyncResult leaves the canceled flag as it is.
THEOREM CanceledCorrect == Spec => []CanceledOnlyIfAsked
<1>1. IInv => CanceledOnlyIfAsked
  BY DEF IInv, OwnInv, RetInv, CanceledOnlyIfAsked
<1> QED
  BY <1>1, Inductive, PTL
=============================================================================
