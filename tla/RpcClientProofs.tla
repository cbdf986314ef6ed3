-------------------------- MODULE RpcClientProofs --------------------------
(***************************************************************************)
(* Proofs about RpcClient, for every number of calls, objects and          *)
(* connections, every queue size and every width of the message ID.        *)
(***************************************************************************)
EXTENDS RpcClient, FiniteSetTheorems, TLAPS

-----------------------------------------------------------------------------
(* Types.  TypeOK is not inductive by itself: a caller, writer or reader    *)
(* that is about to touch "its" object must have one.                       *)

CallerHolds == \A c \in Calls :
    pc[c] \in {"evict", "again", "waiting"} => ref[c] \in Objs
WriterHolds == \A k \in Conns : writer[k].pc = "got" => writer[k].m \in Objs
ReaderHolds == \A k \in Conns :
    reader[k].pc \in {"match", "got"} => reader[k].m \in Objs

TypeInv == TypeOK /\ CallerHolds /\ WriterHolds /\ ReaderHolds

-----------------------------------------------------------------------------
(* What the helpers return.                                                 *)

\* The record operations of AsyncResult stay within the record type.
LEMMA ObjectTypes ==
    \A m \in AsyncResult :
        /\ \A c \in Calls : Filled(m, c) \in AsyncResult
        /\ Released(m) \in AsyncResult
        /\ \A e \in Errors : Completed(m, e) \in AsyncResult
BY ZenonT(30) DEF AsyncResult, Filled, Released, Completed, Errors, Payload

\* What a call returns is a Result.
LEMMA ResultTypes ==
    /\ \A e \in Errors : Failed(e) \in Result
    /\ MemTypeOK => \A o \in Objs : ResultOf(o) \in Result
<1>1. \A e \in Errors : Failed(e) \in Result
  BY DEF Result, Failed, Payload
<1>2. MemTypeOK => \A o \in Objs : ResultOf(o) \in Result
  BY DEF Result, ResultOf, MemTypeOK, AsyncResult
<1> QED
  BY <1>1, <1>2

\* The errors the client makes up itself.
LEMMA ErrorTypes == {"nil", "conn", "server", "timeout", "overflow", "canceled"}
                         \subseteq Errors
BY DEF Errors

\* Dropping a queued request, by eviction or cancellation.
LEMMA DiscardType ==
    ASSUME MemTypeOK, NEW o \in Objs, NEW e \in Errors, Discard(o, e)
    PROVE  heap' \in [Objs -> AsyncResult] /\ pool' \subseteq Objs
BY ObjectTypes DEF Discard, MemTypeOK

\* A caller returns.
LEMMA ReturnType ==
    ASSUME CallTypeOK, CallerHolds, NEW c \in Calls, NEW r \in Result, Return(c, r)
    PROVE  /\ pc' \in [Calls -> {"idle", "evict", "again", "waiting", "returned"}]
           /\ ref' \in [Calls -> Objs \cup {NoObj}]
           /\ ret' \in [Calls -> Result]
           /\ CallerHolds'
BY DEF CallTypeOK, CallerHolds, Return

\* A caller whose request was accepted.
LEMMA EnqueuedType ==
    ASSUME CallTypeOK, CallerHolds, NEW c \in Calls, NEW o \in Objs, Enqueued(c, o)
    PROVE  /\ pc' \in [Calls -> {"idle", "evict", "again", "waiting", "returned"}]
           /\ ref' \in [Calls -> Objs \cup {NoObj}]
           /\ ret' \in [Calls -> Result]
           /\ CallerHolds'
<1>1. CASE SkipResponse(c)
  BY <1>1, ReturnType, ResultTypes, ErrorTypes DEF Enqueued
<1>2. CASE ~SkipResponse(c)
  BY <1>2 DEF CallTypeOK, CallerHolds, Enqueued
<1> QED
  BY <1>1, <1>2

\* A send on requestsChan that does not block.
LEMMA EnqueueType ==
    ASSUME QueueTypeOK, ~Full, NEW o \in Objs,
           requestsChan' = Append(requestsChan, o)
    PROVE  QueueTypeOK'
BY ClientAssumption DEF QueueTypeOK, Full

\* A receive from requestsChan.
LEMMA DequeueType ==
    ASSUME QueueTypeOK, requestsChan # <<>>, requestsChan' = Tail(requestsChan)
    PROVE  QueueTypeOK' /\ Head(requestsChan) \in Objs
BY ClientAssumption DEF QueueTypeOK

\* len(pendingRequests) is a number: the IDs are finitely many.
LEMMA PendingIDsFinite ==
    ASSUME NEW k \in Conns
    PROVE  Cardinality(PendingIDs(k)) \in Nat
<1>1. IsFiniteSet(IDs)
  BY ClientAssumption, FS_Interval DEF IDs
<1>2. PendingIDs(k) \subseteq IDs
  BY DEF PendingIDs
<1> QED
  BY <1>1, <1>2, FS_Subset, FS_CardinalityType

\* The states a connection starts and ends in.
LEMMA FreshTypes ==
    /\ \A p \in {"off", "select"} : NewWriter(p) \in Writer
    /\ \A p \in {"off", "read"} : NewReader(p) \in Reader
    /\ NonePending \in [IDs -> Objs \cup {NoObj}]
    /\ NoMessage \in Message
<1>1. 0 \in IDs
  BY ClientAssumption DEF IDs
<1>2. NoMessage \in Message
  BY <1>1 DEF NoMessage, Message, Payload
<1>3. \A p \in {"off", "select"} : NewWriter(p) \in Writer
  BY <1>1, <1>2 DEF NewWriter, Writer
<1>4. \A p \in {"off", "read"} : NewReader(p) \in Reader
  BY DEF NewReader, Reader, Payload, Errors
<1>5. NonePending \in [IDs -> Objs \cup {NoObj}]
  BY DEF NonePending
<1> QED
  BY <1>2, <1>3, <1>4, <1>5

-----------------------------------------------------------------------------
(* Every step keeps them.                                                      *)

\* A client that was just started has well-typed state.
LEMMA InitTypeInv == Init => TypeInv
<1> SUFFICES ASSUME Init PROVE TypeInv
  OBVIOUS
<1>1. LifeTypeOK
  BY DEF Init, LifeTypeOK
<1>2. CallTypeOK
  BY ResultTypes, ErrorTypes DEF Init, CallTypeOK
<1>3. MemTypeOK
  BY DEF Init, MemTypeOK, NewAsyncResult, AsyncResult, Payload, Errors
<1>4. QueueTypeOK
  BY ClientAssumption DEF Init, QueueTypeOK
<1>5. ConnTypeOK
  BY FreshTypes, ErrorTypes DEF Init, ConnTypeOK, Handler
<1>6. CallerHolds /\ WriterHolds /\ ReaderHolds
  BY DEF Init, CallerHolds, WriterHolds, ReaderHolds, NewWriter, NewReader
<1> QED
  BY <1>1, <1>2, <1>3, <1>4, <1>5, <1>6 DEF TypeInv, TypeOK

\* A step of a caller.
LEMMA CallStepTypeInv ==
    ASSUME TypeInv, NEW c \in Calls, CallStep(c)
    PROVE  TypeInv'
<1> USE DEF lifeVars, memVars, connVars
<1>0. /\ LifeTypeOK /\ CallTypeOK /\ MemTypeOK /\ QueueTypeOK /\ ConnTypeOK
      /\ CallerHolds /\ WriterHolds /\ ReaderHolds
  BY DEF TypeInv, TypeOK
<1>1. ASSUME UNCHANGED <<lifeVars, faults, count, connVars>>
      PROVE  LifeTypeOK' /\ ConnTypeOK' /\ WriterHolds' /\ ReaderHolds'
  BY <1>0, <1>1 DEF LifeTypeOK, ConnTypeOK, WriterHolds, ReaderHolds
<1>2. UNCHANGED requestsChan => QueueTypeOK'
  BY <1>0 DEF QueueTypeOK
<1>3. CASE callAsync(c)
  <2>1. PICK o \in Objs : callAsync(c)!3!(o)
    BY <1>0, <1>3 DEF callAsync, Acquirable, MemTypeOK
  <2>2. MemTypeOK'
    BY <1>0, <2>1, ObjectTypes DEF MemTypeOK
  <2>3. QueueTypeOK'
    BY <1>0, <1>3, <2>1, EnqueueType DEF callAsync
  <2>4. CallTypeOK' /\ CallerHolds'
    BY <1>0, <1>3, <2>1, EnqueuedType DEF callAsync, CallTypeOK
  <2> QED
    BY <1>1, <1>3, <2>2, <2>3, <2>4 DEF TypeInv, TypeOK, callAsync
<1>4. CASE callAsyncSkipOverflow(c)
  <2>1. PICK o \in Objs : callAsyncSkipOverflow(c)!4!(o)
    BY <1>0, <1>4 DEF callAsyncSkipOverflow, Acquirable, MemTypeOK
  <2>2. MemTypeOK'
    BY <1>0, <2>1, ObjectTypes DEF MemTypeOK
  <2>3. CallTypeOK' /\ CallerHolds'
    BY <1>0, <1>4, ReturnType, ResultTypes, ErrorTypes
       DEF callAsyncSkipOverflow, CallTypeOK
  <2> QED
    BY <1>1, <1>2, <1>4, <2>2, <2>3 DEF TypeInv, TypeOK, callAsyncSkipOverflow
<1>5. CASE callAsyncFull(c)
  <2>1. PICK o \in Objs : callAsyncFull(c)!4!(o)
    BY <1>0, <1>5 DEF callAsyncFull, Acquirable, MemTypeOK
  <2>2. MemTypeOK'
    BY <1>0, <2>1, ObjectTypes DEF MemTypeOK
  <2>3. CallTypeOK' /\ CallerHolds'
    BY <1>0, <1>5, <2>1 DEF callAsyncFull, CallTypeOK, CallerHolds
  <2> QED
    BY <1>1, <1>2, <1>5, <2>2, <2>3 DEF TypeInv, TypeOK, callAsyncFull
<1>6. CASE callAsyncEvict(c)
  <2>1. MemTypeOK' /\ QueueTypeOK'
    <3>1. CASE requestsChan # <<>>
      BY <1>0, <1>6, <3>1, DequeueType, DiscardType, ErrorTypes
         DEF callAsyncEvict, MemTypeOK
    <3>2. CASE requestsChan = <<>>
      BY <1>0, <1>2, <1>6, <3>2 DEF callAsyncEvict, MemTypeOK
    <3> QED
      BY <3>1, <3>2
  <2>2. CallTypeOK' /\ CallerHolds'
    BY <1>0, <1>6 DEF callAsyncEvict, CallTypeOK, CallerHolds
  <2> QED
    BY <1>1, <1>6, <2>1, <2>2 DEF TypeInv, TypeOK, callAsyncEvict
<1>7. CASE callAsyncAgain(c)
  <2>0. ref[c] \in Objs
    BY <1>0, <1>7 DEF callAsyncAgain, CallerHolds
  <2>1. QueueTypeOK'
    BY <1>0, <1>2, <1>7, <2>0, EnqueueType DEF callAsyncAgain
  <2>2. MemTypeOK'
    BY <1>0, <1>7, <2>0, ObjectTypes DEF callAsyncAgain, MemTypeOK
  <2>3. CallTypeOK' /\ CallerHolds'
    BY <1>0, <1>7, <2>0, EnqueuedType, ReturnType, ResultTypes, ErrorTypes
       DEF callAsyncAgain, CallTypeOK
  <2> QED
    BY <1>1, <1>7, <2>1, <2>2, <2>3 DEF TypeInv, TypeOK, callAsyncAgain
<1>8. CASE CallDone(c)
  <2>0. ref[c] \in Objs
    BY <1>0, <1>8 DEF CallDone, CallerHolds
  <2>1. MemTypeOK'
    BY <1>0, <1>8, <2>0, ObjectTypes DEF CallDone, MemTypeOK
  <2>2. CallTypeOK' /\ CallerHolds'
    BY <1>0, <1>8, <2>0, ReturnType, ResultTypes DEF CallDone, CallTypeOK
  <2> QED
    BY <1>1, <1>2, <1>8, <2>1, <2>2 DEF TypeInv, TypeOK, CallDone
<1>9. CASE CallTimeout(c)
  <2>0. ref[c] \in Objs
    BY <1>0, <1>9 DEF CallTimeout, CallerHolds
  <2>1. MemTypeOK'
    BY <1>0, <1>9, <2>0 DEF CallTimeout, Abandon, MemTypeOK, AsyncResult
  <2>2. CallTypeOK' /\ CallerHolds'
    BY <1>0, <1>9, ReturnType, ResultTypes, ErrorTypes
       DEF CallTimeout, CallTypeOK
  <2> QED
    BY <1>1, <1>2, <1>9, <2>1, <2>2 DEF TypeInv, TypeOK, CallTimeout
<1>10. CASE AsyncDone(c)
  <2>0. ref[c] \in Objs
    BY <1>0, <1>10 DEF AsyncDone, CallerHolds
  <2>1. MemTypeOK'
    BY <1>0, <1>10 DEF AsyncDone, MemTypeOK
  <2>2. CallTypeOK' /\ CallerHolds'
    BY <1>0, <1>10, <2>0, ReturnType, ResultTypes DEF AsyncDone, CallTypeOK
  <2> QED
    BY <1>1, <1>2, <1>10, <2>1, <2>2 DEF TypeInv, TypeOK, AsyncDone
<1>11. CASE Cancel(c)
  <2>0. ref[c] \in Objs
    BY <1>0, <1>11 DEF Cancel, CallerHolds
  <2>1. MemTypeOK'
    BY <1>0, <1>11, <2>0 DEF Cancel, MemTypeOK, AsyncResult
  <2>2. CallTypeOK' /\ CallerHolds'
    BY <1>0, <1>11 DEF Cancel, CallTypeOK, CallerHolds
  <2> QED
    BY <1>1, <1>2, <1>11, <2>1, <2>2 DEF TypeInv, TypeOK, Cancel
<1> QED
  BY <1>3, <1>4, <1>5, <1>6, <1>7, <1>8, <1>9, <1>10, <1>11 DEF CallStep

\* A write, read or dial that fails leaves faults a number.
LEMMA FailType ==
    ASSUME LifeTypeOK, NEW k \in Conns, Fail(k) \/ Fault
    PROVE  faults' \in Nat
BY DEF LifeTypeOK, Fail, Fault

\* What a failed write leaves on the wire, and what the encoder sends.
LEMMA WireTypes ==
    ASSUME ConnTypeOK, NEW k \in Conns
    PROVE  /\ Outgoing(k) \subseteq Message
           /\ writer[k].buf \subseteq Message
           /\ \A x \in SUBSET Message :
                [wire EXCEPT ![k] = @ \cup x] \in [Conns -> SUBSET Message]
           /\ \A msgs \in SUBSET Message :
                Escaped(k, msgs) \subseteq SUBSET Message
<1>1. writer[k] \in Writer
  BY DEF ConnTypeOK
<1>2. writer[k].buf \subseteq Message /\ writer[k].wr \in Message
  BY <1>1 DEF Writer
<1>3. Outgoing(k) \subseteq Message
  BY <1>2 DEF Outgoing
<1>4. \A x \in SUBSET Message :
        [wire EXCEPT ![k] = @ \cup x] \in [Conns -> SUBSET Message]
  BY DEF ConnTypeOK
<1>5. \A msgs \in SUBSET Message : Escaped(k, msgs) \subseteq SUBSET Message
  BY DEF Escaped
<1> QED
  BY <1>2, <1>3, <1>4, <1>5

\* A step of a connection's writer.
LEMMA WriterTypeInv ==
    ASSUME TypeInv, NEW k \in Conns, clientWriter(k)
    PROVE  TypeInv'
<1> USE DEF lifeVars, callVars, memVars, sharedVars
<1> DEFINE WType == writer' \in [Conns -> Writer] /\ WriterHolds'
<1>0. /\ LifeTypeOK /\ CallTypeOK /\ MemTypeOK /\ QueueTypeOK /\ ConnTypeOK
      /\ CallerHolds /\ WriterHolds /\ ReaderHolds
  BY DEF TypeInv, TypeOK
<1>1. /\ UNCHANGED <<lifeVars, count, faults>> => LifeTypeOK'
      /\ UNCHANGED <<lifeVars, count>> /\ faults' \in Nat => LifeTypeOK'
  BY <1>0 DEF LifeTypeOK
<1>2. UNCHANGED callVars => CallTypeOK' /\ CallerHolds'
  BY <1>0 DEF CallTypeOK, CallerHolds
<1>3. UNCHANGED memVars => MemTypeOK'
  BY <1>0 DEF MemTypeOK
<1>4. UNCHANGED requestsChan => QueueTypeOK'
  BY <1>0 DEF QueueTypeOK
<1>5. ASSUME WType, UNCHANGED <<handler, reader>>,
             pending' \in [Conns -> [IDs -> Objs \cup {NoObj}]],
             wire' \in [Conns -> SUBSET Message]
      PROVE  ConnTypeOK' /\ WriterHolds' /\ ReaderHolds'
  BY <1>0, <1>5 DEF ConnTypeOK, ReaderHolds
<1>6. /\ wire \in [Conns -> SUBSET Message]
      /\ pending \in [Conns -> [IDs -> Objs \cup {NoObj}]]
      /\ writer \in [Conns -> Writer] /\ writer[k] \in Writer
  BY <1>0 DEF ConnTypeOK
<1>7. CASE WriterTake(k)
  <2>1. QueueTypeOK' /\ Head(requestsChan) \in Objs
    BY <1>0, <1>7, DequeueType DEF WriterTake
  <2>2. WType
    <3>1. writer' \in [Conns -> Writer]
      BY <1>6, <1>7, <2>1 DEF WriterTake, TakeHead, Writer
    <3>2. WriterHolds'
      BY <1>0, <1>6, <1>7, <2>1 DEF WriterTake, TakeHead, WriterHolds
    <3> QED
      BY <3>1, <3>2
  <2> QED
    BY <1>1, <1>2, <1>3, <1>5, <1>6, <1>7, <2>1, <2>2
       DEF TypeInv, TypeOK, WriterTake
<1>8. CASE WriterBlock(k)
  <2>1. WType
    BY <1>0, <1>6, <1>8 DEF WriterBlock, Writer, WriterHolds
  <2> QED
    BY <1>1, <1>2, <1>3, <1>4, <1>5, <1>6, <1>8, <2>1
       DEF TypeInv, TypeOK, WriterBlock
<1>17. CASE WriterStop(k)
  <2>1. WType
    BY <1>0, <1>6, <1>17 DEF WriterStop, Writer, WriterHolds
  <2> QED
    BY <1>1, <1>2, <1>3, <1>4, <1>5, <1>6, <1>17, <2>1
       DEF TypeInv, TypeOK, WriterStop
<1>9. CASE WriterFlush(k)
  <2>1. WType
    BY <1>0, <1>6, <1>9 DEF WriterFlush, Flushed, Writer, WriterHolds
  <2>2. wire' \in [Conns -> SUBSET Message]
    BY <1>0, <1>9, WireTypes DEF WriterFlush
  <2> QED
    BY <1>1, <1>2, <1>3, <1>4, <1>5, <1>6, <1>9, <2>1, <2>2
       DEF TypeInv, TypeOK, WriterFlush
<1>10. CASE WriterFlushFail(k)
  <2>1. WType
    BY <1>0, <1>6, <1>10 DEF WriterFlushFail, Writer, WriterHolds
  <2>2. wire' \in [Conns -> SUBSET Message]
    BY <1>0, <1>10, WireTypes DEF WriterFlushFail
  <2>3. faults' \in Nat
    BY <1>0, <1>10, FailType DEF WriterFlushFail
  <2> QED
    BY <1>1, <1>2, <1>3, <1>4, <1>5, <1>6, <1>10, <2>1, <2>2, <2>3
       DEF TypeInv, TypeOK, WriterFlushFail
<1>11. CASE WriterCanceled(k)
  <2>1. writer[k].m \in Objs
    BY <1>0, <1>11 DEF WriterCanceled, WriterHolds
  <2>2. MemTypeOK'
    BY <1>0, <1>11, <2>1, DiscardType, ErrorTypes DEF WriterCanceled, MemTypeOK
  <2>3. WType
    BY <1>0, <1>6, <1>11 DEF WriterCanceled, Writer, WriterHolds
  <2> QED
    BY <1>1, <1>2, <1>4, <1>5, <1>6, <1>11, <2>2, <2>3
       DEF TypeInv, TypeOK, WriterCanceled
<1>12. CASE WriterSkip(k)
  <2>1. writer[k].m \in Objs
    BY <1>0, <1>12 DEF WriterSkip, WriterHolds
  <2>2. MemTypeOK'
    BY <1>0, <1>12, <2>1, ObjectTypes DEF WriterSkip, MemTypeOK
  <2>3. [id |-> 0, call |-> heap[writer[k].m].req] \in Message
    BY <1>0, <2>1, ClientAssumption DEF Message, IDs, MemTypeOK, AsyncResult
  <2>4. WType
    BY <1>0, <1>6, <1>12, <2>3 DEF WriterSkip, Writer, WriterHolds
  <2> QED
    BY <1>1, <1>2, <1>4, <1>5, <1>6, <1>12, <2>2, <2>4
       DEF TypeInv, TypeOK, WriterSkip
<1>13. CASE WriterRegister(k)
  <2>1. writer[k].m \in Objs
    BY <1>0, <1>13 DEF WriterRegister, WriterHolds
  <2>2. PICK id \in IDs :
          /\ pending' = [pending EXCEPT ![k][id] = writer[k].m]
          /\ writer' = [writer EXCEPT
                ![k].pc = IF Stuck(k) THEN "stuck" ELSE "count",
                ![k].m = NoObj, ![k].msgID = id,
                ![k].wr = [id |-> id, call |-> heap[writer[k].m].req]]
    BY <1>13 DEF WriterRegister
  <2>3. [id |-> id, call |-> heap[writer[k].m].req] \in Message
    BY <1>0, <2>1 DEF Message, MemTypeOK, AsyncResult
  <2>4. WType
    BY <1>0, <1>6, <2>2, <2>3 DEF Writer, WriterHolds
  <2>5. pending' \in [Conns -> [IDs -> Objs \cup {NoObj}]]
    BY <1>6, <2>1, <2>2
  <2>6. LifeTypeOK'
    BY <1>0, <1>13 DEF WriterRegister, LifeTypeOK
  <2> QED
    BY <1>2, <1>3, <1>4, <1>5, <1>6, <1>13, <2>4, <2>5, <2>6
       DEF TypeInv, TypeOK, WriterRegister
<1>18. CASE WriterCount(k)
  <2>1. WType
    BY <1>0, <1>6, <1>18 DEF WriterCount, Writer, WriterHolds
  <2>2. LifeTypeOK'
    BY <1>0, <1>18 DEF WriterCount, LifeTypeOK
  <2> QED
    BY <1>2, <1>3, <1>4, <1>5, <1>6, <1>18, <2>1, <2>2
       DEF TypeInv, TypeOK, WriterCount
<1>14. CASE WriterBuffer(k)
  <2>1. WType
    BY <1>0, <1>6, <1>14, WireTypes, FreshTypes
       DEF WriterBuffer, Writer, WriterHolds
  <2> QED
    BY <1>1, <1>2, <1>3, <1>4, <1>5, <1>6, <1>14, <2>1
       DEF TypeInv, TypeOK, WriterBuffer
<1>15. CASE WriterSend(k)
  <2>1. WType
    BY <1>0, <1>6, <1>15, FreshTypes DEF WriterSend, Writer, WriterHolds
  <2>2. wire' \in [Conns -> SUBSET Message]
    BY <1>0, <1>15, WireTypes DEF WriterSend
  <2> QED
    BY <1>1, <1>2, <1>3, <1>4, <1>5, <1>6, <1>15, <2>1, <2>2
       DEF TypeInv, TypeOK, WriterSend
<1>16. CASE WriterEncodeFail(k)
  <2>1. WType
    BY <1>0, <1>6, <1>16 DEF WriterEncodeFail, Writer, WriterHolds
  <2>2. wire' \in [Conns -> SUBSET Message]
    BY <1>0, <1>16, WireTypes DEF WriterEncodeFail
  <2>3. faults' \in Nat
    BY <1>0, <1>16, FailType DEF WriterEncodeFail
  <2> QED
    BY <1>1, <1>2, <1>3, <1>4, <1>5, <1>6, <1>16, <2>1, <2>2, <2>3
       DEF TypeInv, TypeOK, WriterEncodeFail
<1> QED
  BY <1>7, <1>8, <1>9, <1>10, <1>11, <1>12, <1>13, <1>14, <1>15, <1>16,
     <1>17, <1>18 DEF clientWriter

\* A step of a connection's reader.
LEMMA ReaderTypeInv ==
    ASSUME TypeInv, NEW k \in Conns, clientReader(k)
    PROVE  TypeInv'
<1> USE DEF lifeVars, callVars, memVars, sharedVars
<1> DEFINE RType == reader' \in [Conns -> Reader] /\ ReaderHolds'
<1>0. /\ LifeTypeOK /\ CallTypeOK /\ MemTypeOK /\ QueueTypeOK /\ ConnTypeOK
      /\ CallerHolds /\ WriterHolds /\ ReaderHolds
  BY DEF TypeInv, TypeOK
<1>1. UNCHANGED <<callVars, requestsChan>> =>
        CallTypeOK' /\ CallerHolds' /\ QueueTypeOK'
  BY <1>0 DEF CallTypeOK, CallerHolds, QueueTypeOK
<1>2. ASSUME RType, UNCHANGED <<handler, writer>>,
             pending' \in [Conns -> [IDs -> Objs \cup {NoObj}]],
             wire' \in [Conns -> SUBSET Message]
      PROVE  ConnTypeOK' /\ WriterHolds' /\ ReaderHolds'
  BY <1>0, <1>2 DEF ConnTypeOK, WriterHolds
<1>3. /\ wire \in [Conns -> SUBSET Message]
      /\ pending \in [Conns -> [IDs -> Objs \cup {NoObj}]]
      /\ reader \in [Conns -> Reader] /\ reader[k] \in Reader
  BY <1>0 DEF ConnTypeOK
<1>4. CASE ReaderMatch(k)
  <2>1. PICK w \in wire[k], e \in {"nil", "server"} :
          ReaderMatch(k)!3!(w, e)
    BY <1>4 DEF ReaderMatch
  <2>2. w \in Message /\ w.id \in IDs /\ w.call \in Payload
    <3>1. w \in Message
      BY <1>3, <2>1
    <3> QED
      BY <3>1 DEF Message
  <2>3. pending[k][w.id] \in Objs
    BY <1>3, <2>1, <2>2
  <2>4. [pc |-> "match", m |-> pending[k][w.id], err |-> e,
         call |-> IF e = "nil" THEN w.call ELSE NoCall] \in Reader
    BY <2>2, <2>3, ErrorTypes DEF Reader, Payload
  <2>5. RType
    BY <1>0, <1>3, <2>1, <2>3, <2>4 DEF ReaderHolds
  <2>6. pending' \in [Conns -> [IDs -> Objs \cup {NoObj}]]
    BY <1>3, <2>1, <2>2 DEF Deleted
  <2>7. wire' \in [Conns -> SUBSET Message]
    BY <1>3, <2>1
  <2>8. LifeTypeOK' /\ MemTypeOK'
    BY <1>0, <1>4 DEF ReaderMatch, LifeTypeOK, MemTypeOK
  <2> QED
    BY <1>1, <1>2, <1>4, <2>5, <2>6, <2>7, <2>8 DEF TypeInv, TypeOK, ReaderMatch
<1>7. CASE ReaderCount(k)
  <2>1. RType
    BY <1>0, <1>3, <1>7 DEF ReaderCount, Reader, ReaderHolds
  <2>2. LifeTypeOK' /\ MemTypeOK'
    BY <1>0, <1>7 DEF ReaderCount, LifeTypeOK, MemTypeOK
  <2> QED
    BY <1>1, <1>2, <1>3, <1>7, <2>1, <2>2 DEF TypeInv, TypeOK, ReaderCount
<1>5. CASE ReaderComplete(k)
  <2>1. reader[k].m \in Objs /\ reader[k].call \in Payload
    BY <1>0, <1>3, <1>5 DEF ReaderComplete, ReaderHolds, Reader
  <2>2. heap[reader[k].m] \in AsyncResult
    BY <1>0, <2>1 DEF MemTypeOK
  <2>3. Answered(heap[reader[k].m], reader[k].call, reader[k].err)
          \in AsyncResult
    BY <2>1, <2>2, ErrorTypes DEF Answered, AsyncResult
  <2>4. MemTypeOK'
    BY <1>0, <1>5, <2>1, <2>3 DEF ReaderComplete, MemTypeOK
  <2>5. NewReader("read").pc \notin {"match", "got"}
    BY DEF NewReader
  <2>6. RType
    BY <1>0, <1>3, <1>5, <2>5, FreshTypes DEF ReaderComplete, ReaderHolds
  <2>7. LifeTypeOK'
    BY <1>0, <1>5 DEF ReaderComplete, LifeTypeOK
  <2> QED
    BY <1>1, <1>2, <1>3, <1>5, <2>4, <2>6, <2>7
       DEF TypeInv, TypeOK, ReaderComplete
<1>6. CASE ReaderFail(k)
  <2>1. RType
    BY <1>0, <1>3, <1>6 DEF ReaderFail, Reader, ReaderHolds
  <2>2. LifeTypeOK' /\ MemTypeOK'
    BY <1>0, <1>6, FailType DEF ReaderFail, LifeTypeOK, MemTypeOK
  <2> QED
    BY <1>1, <1>2, <1>3, <1>6, <2>1, <2>2 DEF TypeInv, TypeOK, ReaderFail
<1> QED
  BY <1>4, <1>5, <1>6, <1>7 DEF clientReader

\* A step of a connection's handler, of Stop or of Start.
LEMMA HandlerTypeInv ==
    ASSUME TypeInv,
           (\E k \in Conns : clientHandler(k)) \/ Stop \/ StopReturn \/ Start
    PROVE  TypeInv'
<1> USE DEF lifeVars, callVars, memVars, sharedVars, connVars
<1>0. /\ LifeTypeOK /\ CallTypeOK /\ MemTypeOK /\ QueueTypeOK /\ ConnTypeOK
      /\ CallerHolds /\ WriterHolds /\ ReaderHolds
  BY DEF TypeInv, TypeOK
<1>1. UNCHANGED callVars => CallTypeOK' /\ CallerHolds'
  BY <1>0 DEF CallTypeOK, CallerHolds
<1>2. UNCHANGED memVars => MemTypeOK'
  BY <1>0 DEF MemTypeOK
<1>3. UNCHANGED requestsChan => QueueTypeOK'
  BY <1>0 DEF QueueTypeOK
<1>4. ASSUME handler' \in [Conns -> Handler],
             UNCHANGED <<writer, reader, pending, wire>>
      PROVE  ConnTypeOK' /\ WriterHolds' /\ ReaderHolds'
  BY <1>0, <1>4 DEF ConnTypeOK, WriterHolds, ReaderHolds
<1>5. /\ handler \in [Conns -> Handler] /\ wire \in [Conns -> SUBSET Message]
      /\ pending \in [Conns -> [IDs -> Objs \cup {NoObj}]]
      /\ writer \in [Conns -> Writer] /\ reader \in [Conns -> Reader]
  BY <1>0 DEF ConnTypeOK
<1>6. ASSUME NEW k \in Conns, NEW p \in {"off", "select"},
             NEW q \in {"off", "read"},
             writer' = [writer EXCEPT ![k] = NewWriter(p)],
             reader' = [reader EXCEPT ![k] = NewReader(q)]
      PROVE  /\ writer' \in [Conns -> Writer] /\ reader' \in [Conns -> Reader]
             /\ WriterHolds' /\ ReaderHolds'
  <2>1. NewWriter(p).pc # "got" /\ NewReader(q).pc \notin {"match", "got"}
    BY DEF NewWriter, NewReader
  <2> QED
    BY <1>0, <1>5, <1>6, <2>1, FreshTypes DEF WriterHolds, ReaderHolds
<1>7. ASSUME NEW k \in Conns, HandlerConnect(k)
      PROVE  TypeInv'
  <2>1. handler' \in [Conns -> Handler]
    BY <1>5, <1>7, ErrorTypes DEF HandlerConnect, Handler
  <2>2. ConnTypeOK' /\ WriterHolds' /\ ReaderHolds'
    BY <1>5, <1>6, <1>7, <2>1 DEF HandlerConnect, ConnTypeOK
  <2>3. LifeTypeOK'
    BY <1>0, <1>7 DEF HandlerConnect, LifeTypeOK
  <2> QED
    BY <1>1, <1>2, <1>3, <1>7, <2>2, <2>3 DEF TypeInv, TypeOK, HandlerConnect
<1>8. ASSUME NEW k \in Conns,
             HandlerDialFail(k) \/ HandlerSetupFail(k) \/ HandlerRedial(k)
             \/ HandlerStop(k) \/ HandlerClose(k)
      PROVE  TypeInv'
  <2>1. handler' \in [Conns -> Handler]
    <3>1. CASE HandlerDialFail(k)
      BY <1>5, <3>1 DEF HandlerDialFail, Handler
    <3>2. CASE HandlerSetupFail(k)
      BY <1>5, <3>2 DEF HandlerSetupFail, Handler
    <3>3. CASE HandlerRedial(k)
      BY <1>5, <3>3 DEF HandlerRedial, Handler
    <3>4. CASE HandlerStop(k)
      BY <1>5, <3>4 DEF HandlerStop, Handler
    <3>5. CASE HandlerClose(k)
      BY <1>5, <3>5, ErrorTypes DEF HandlerClose, CloseReasons, Handler
    <3> QED
      BY <1>8, <3>1, <3>2, <3>3, <3>4, <3>5
  <2>2. LifeTypeOK'
    BY <1>0, <1>8, FailType
       DEF HandlerDialFail, HandlerSetupFail, HandlerRedial, HandlerStop,
           HandlerClose, LifeTypeOK
  <2> QED
    BY <1>1, <1>2, <1>3, <1>4, <1>8, <2>1, <2>2
       DEF TypeInv, TypeOK, HandlerDialFail, HandlerSetupFail, HandlerRedial,
           HandlerStop, HandlerClose
<1>9. ASSUME NEW k \in Conns, HandlerTeardown(k)
      PROVE  TypeInv'
  <2>1. handler' \in [Conns -> Handler]
    BY <1>5, <1>9, ErrorTypes DEF HandlerTeardown, Handler
  <2>2. ConnTypeOK' /\ WriterHolds' /\ ReaderHolds'
    <3>1. pending' \in [Conns -> [IDs -> Objs \cup {NoObj}]]
      BY <1>5, <1>9, FreshTypes DEF HandlerTeardown
    <3>2. wire' \in [Conns -> SUBSET Message]
      BY <1>5, <1>9 DEF HandlerTeardown
    <3> QED
      BY <1>6, <1>9, <2>1, <3>1, <3>2 DEF HandlerTeardown, ConnTypeOK
  <2>3. LifeTypeOK'
    BY <1>0, <1>9 DEF HandlerTeardown, LifeTypeOK
  <2> QED
    BY <1>1, <1>2, <1>3, <1>9, <2>2, <2>3 DEF TypeInv, TypeOK, HandlerTeardown
<1>12. ASSUME NEW k \in Conns, HandlerCount(k)
       PROVE  TypeInv'
  <2>1. handler' \in [Conns -> Handler]
    BY <1>5, <1>12 DEF HandlerCount, Handler
  <2>2. LifeTypeOK'
    BY <1>0, <1>12 DEF HandlerCount, LifeTypeOK
  <2> QED
    BY <1>1, <1>2, <1>3, <1>4, <1>12, <2>1, <2>2
       DEF TypeInv, TypeOK, HandlerCount
<1>13. ASSUME NEW k \in Conns, HandlerDrop(k)
       PROVE  TypeInv'
  <2>1. handler' \in [Conns -> Handler]
    BY <1>5, <1>13 DEF HandlerDrop, Handler
  <2>2. PICK id \in IDs : HandlerDrop(k)!3!(id) /\ pending[k][id] # NoObj
    BY <1>13 DEF HandlerDrop, Left, PendingIDs
  <2>3. ConnTypeOK' /\ WriterHolds' /\ ReaderHolds'
    <3>1. pending' \in [Conns -> [IDs -> Objs \cup {NoObj}]]
      BY <1>5, <2>2 DEF Deleted
    <3> QED
      BY <1>0, <1>5, <1>13, <2>1, <3>1
         DEF HandlerDrop, ConnTypeOK, WriterHolds, ReaderHolds
  <2>4. MemTypeOK'
    <3>1. handler[k].err \in Errors /\ pending[k][id] \in Objs
      BY <1>5, <2>2 DEF Handler, Errors
    <3> QED
      BY <1>0, <1>13, <2>2, <3>1, ObjectTypes DEF HandlerDrop, MemTypeOK
  <2>5. LifeTypeOK'
    BY <1>0, <1>13 DEF HandlerDrop, LifeTypeOK
  <2> QED
    BY <1>1, <1>3, <1>13, <2>3, <2>4, <2>5 DEF TypeInv, TypeOK, HandlerDrop
<1>10. CASE Stop \/ StopReturn
  <2>1. LifeTypeOK'
    BY <1>0, <1>10 DEF Stop, StopReturn, LifeTypeOK
  <2> QED
    BY <1>1, <1>2, <1>3, <1>4, <1>5, <1>10, <2>1
       DEF TypeInv, TypeOK, Stop, StopReturn
<1>11. CASE Start
  <2>1. LifeTypeOK' /\ QueueTypeOK'
    BY <1>0, <1>11, ClientAssumption DEF Start, LifeTypeOK, QueueTypeOK
  <2>2. handler' \in [Conns -> Handler]
    BY <1>11, ErrorTypes DEF Start, Handler
  <2> QED
    BY <1>1, <1>2, <1>4, <1>11, <2>1, <2>2 DEF TypeInv, TypeOK, Start
<1> QED
  BY <1>7, <1>8, <1>9, <1>10, <1>11, <1>12, <1>13 DEF clientHandler

\* Every step, or a stutter.
LEMMA NextTypeInv == TypeInv /\ [Next]_vars => TypeInv'
<1> SUFFICES ASSUME TypeInv, [Next]_vars PROVE TypeInv'
  OBVIOUS
<1>1. CASE UNCHANGED vars
  BY <1>1 DEF vars, TypeInv, TypeOK, LifeTypeOK, CallTypeOK, MemTypeOK,
              QueueTypeOK, ConnTypeOK, CallerHolds, WriterHolds, ReaderHolds
<1>2. CASE Next
  BY <1>2, CallStepTypeInv, WriterTypeInv, ReaderTypeInv, HandlerTypeInv
     DEF Next
<1> QED
  BY <1>1, <1>2

\* Type correctness of the client, for every instance: no step of a caller,
\* writer, reader or handler leaves the state space, and a goroutine that
\* uses an AsyncResult has one.
THEOREM TypeCorrect == Spec => []TypeOK
<1>1. Init => TypeInv
  BY InitTypeInv
<1>2. TypeInv /\ [Next]_vars => TypeInv'
  BY NextTypeInv
<1>3. TypeInv => TypeOK
  BY DEF TypeInv
<1> QED
  BY <1>1, <1>2, <1>3, PTL DEF Spec

-----------------------------------------------------------------------------
(* Nothing that is buffered is forgotten.  Between taking a request and     *)
(* encoding it the flush must already be scheduled.                         *)

FlushInv == \A k \in Conns :
    /\ writer[k].pc \in {"got", "count", "stuck", "encode"} => writer[k].armed
    /\ (writer[k].pc \in {"select", "block"} /\ writer[k].buf # {}) =>
          writer[k].armed

\* No step forgets to schedule the flush of what it buffers.
LEMMA NextFlushInv == ConnTypeOK /\ FlushInv /\ [Next]_vars => FlushInv'
<1> SUFFICES ASSUME ConnTypeOK, FlushInv, [Next]_vars PROVE FlushInv'
  OBVIOUS
<1> USE DEF lifeVars, callVars, memVars, sharedVars, connVars
<1>0. writer \in [Conns -> Writer]
  BY DEF ConnTypeOK
<1>1. UNCHANGED writer => FlushInv'
  BY DEF FlushInv
<1>2. ASSUME NEW k \in Conns, clientWriter(k)
      PROVE  FlushInv'
  <2>0. \A l \in Conns \ {k} : writer'[l] = writer[l]
    BY <1>0, <1>2 DEF clientWriter, WriterTake, TakeHead, WriterBlock,
       WriterStop, WriterFlush, Flushed, WriterFlushFail, WriterCanceled,
       WriterSkip, WriterRegister, WriterCount, WriterBuffer, WriterSend,
       WriterEncodeFail
  <2>1. ASSUME /\ writer'[k].pc \in {"got", "count", "stuck", "encode"} =>
                     writer'[k].armed
               /\ (/\ writer'[k].pc \in {"select", "block"}
                   /\ writer'[k].buf # {}) => writer'[k].armed
        PROVE  FlushInv'
    BY <2>0, <2>1 DEF FlushInv
  <2>2. CASE WriterTake(k)
    BY <1>0, <2>1, <2>2 DEF WriterTake, TakeHead, Writer
  <2>3. CASE WriterBlock(k)
    BY <1>0, <2>1, <2>3 DEF WriterBlock, Writer, FlushInv
  <2>4. CASE WriterStop(k)
    BY <1>0, <2>1, <2>4 DEF WriterStop, Writer
  <2>5. CASE WriterFlush(k)
    BY <1>0, <2>1, <2>5 DEF WriterFlush, Flushed, Writer
  <2>6. CASE WriterFlushFail(k)
    BY <1>0, <2>1, <2>6 DEF WriterFlushFail, Writer
  <2>7. CASE WriterCanceled(k)
    BY <1>0, <2>1, <2>7 DEF WriterCanceled, Writer, FlushInv
  <2>8. CASE WriterSkip(k)
    BY <1>0, <2>1, <2>8 DEF WriterSkip, Writer, FlushInv
  <2>9. CASE WriterRegister(k)
    BY <1>0, <2>1, <2>9 DEF WriterRegister, Writer, FlushInv
  <2>13. CASE WriterCount(k)
    BY <1>0, <2>1, <2>13 DEF WriterCount, Writer, FlushInv
  <2>10. CASE WriterBuffer(k)
    BY <1>0, <2>1, <2>10 DEF WriterBuffer, Writer, FlushInv
  <2>11. CASE WriterSend(k)
    BY <1>0, <2>1, <2>11 DEF WriterSend, Writer
  <2>12. CASE WriterEncodeFail(k)
    BY <1>0, <2>1, <2>12 DEF WriterEncodeFail, Writer
  <2> QED
    BY <1>2, <2>2, <2>3, <2>4, <2>5, <2>6, <2>7, <2>8, <2>9, <2>10, <2>11,
       <2>12, <2>13 DEF clientWriter
<1>3. ASSUME NEW k \in Conns, clientHandler(k)
      PROVE  FlushInv'
  <2>1. CASE UNCHANGED writer
    BY <1>1, <2>1
  <2>2. ASSUME NEW p \in {"off", "select"},
               writer' = [writer EXCEPT ![k] = NewWriter(p)]
        PROVE  FlushInv'
    BY <1>0, <2>2 DEF FlushInv, NewWriter
  <2> QED
    BY <1>3, <2>1, <2>2
       DEF clientHandler, HandlerConnect, HandlerDialFail, HandlerSetupFail,
           HandlerRedial, HandlerStop, HandlerClose, HandlerCount,
           HandlerDrop, HandlerTeardown
<1>4. ASSUME NEW c \in Calls, CallStep(c)
      PROVE  UNCHANGED writer
  BY <1>4 DEF CallStep, callAsync, callAsyncSkipOverflow, callAsyncFull,
     callAsyncEvict, callAsyncAgain, CallDone, CallTimeout, AsyncDone, Cancel
<1>5. ASSUME NEW k \in Conns, clientReader(k)
      PROVE  UNCHANGED writer
  BY <1>5 DEF clientReader, ReaderMatch, ReaderCount, ReaderComplete,
     ReaderFail
<1>6. ASSUME Stop \/ StopReturn \/ Start \/ UNCHANGED vars
      PROVE  UNCHANGED writer
  BY <1>6 DEF Stop, StopReturn, Start, vars
<1> QED
  BY <1>1, <1>2, <1>3, <1>4, <1>5, <1>6 DEF Next

\* A writer that waits for work with requests in the encoder's buffer has a
\* flush scheduled, whatever mix of full buffers, bodies, canceled calls and
\* reconnects came before.
THEOREM NothingForgotten == Spec => []FlushArmed
<1>1. Init => TypeInv /\ FlushInv
  <2>1. Init => FlushInv
    BY DEF Init, FlushInv, NewWriter
  <2> QED
    BY <2>1, InitTypeInv
<1>2. TypeInv /\ FlushInv /\ [Next]_vars => TypeInv' /\ FlushInv'
  BY NextTypeInv, NextFlushInv DEF TypeInv, TypeOK
<1>3. FlushInv => FlushArmed
  BY DEF FlushInv, FlushArmed
<1> QED
  BY <1>1, <1>2, <1>3, PTL DEF Spec
============================================================================
