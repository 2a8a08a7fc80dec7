-------------------------- MODULE AggregatorLists ---------------------------
(***************************************************************************)
(* Aggregator is well typed, for every set of messages, every buffer size  *)
(* and timeout, and any number of batches; no step puts a batch in two     *)
(* lists, the evictor never meets a batch that it has already removed, and *)
(* a message is in one place.                                              *)
(***************************************************************************)
EXTENDS Aggregator, TLAPS

\* A remainder is below the divisor.
LEMMA ModRange ==
    ASSUME NEW n \in Int, NEW m \in Nat \ {0}
    PROVE  n % m \in 0 .. m - 1
  OBVIOUS

\* 2^16 is positive.  (Uint16 stays folded in what follows.)
LEMMA Uint16Pos == Uint16 \in Nat \ {0}
  BY DEF Uint16

\* PayloadLen, a uint16, is in its range.
LEMMA PayloadLenRange ==
    ASSUME NEW w \in Int
    PROVE  PayloadLen(w) \in 0 .. Uint16 - 1
  <1>1. w - 24 \in Int
    OBVIOUS
  <1> QED
    BY <1>1, Uint16Pos, ModRange, Zenon DEF PayloadLen, HeaderSize

\* What a message's fields are.
LEMMA MsgType ==
    ASSUME NEW m \in Msgs
    PROVE  /\ m.routingKey \in Keys /\ m.port \in Ports
           /\ m.userID \in Nat /\ m.len \in Nat /\ m.emerge \in BOOLEAN
           /\ HeaderOf(m) \in Headers
           /\ SubSize(m) \in Nat \ {0}
  BY AggAssumption DEF AggAssumption, HeaderOf, Headers, SubSize, SubHeader

\* The bucket picked from a list of batches is one of them.
LEMMA PickType ==
    ASSUME NEW list \in Seq(BatchIds), list # <<>>, NEW m \in Msgs
    PROVE  Pick(list, m) \in BatchIds
  <1>1. Len(list) \in Nat \ {0}
    OBVIOUS
  <1>2. m.userID \in Int
    BY MsgType
  <1>3. (m.userID % Len(list)) \in 0 .. Len(list) - 1
    BY <1>1, <1>2, ModRange, Zenon
  <1>4. (m.userID % Len(list)) + 1 \in 1 .. Len(list)
    BY <1>1, <1>3
  <1> QED
    BY <1>4 DEF Pick

-----------------------------------------------------------------------------
\* Type correctness.

\* The members of an interval from 0 are natural numbers.
LEMMA IntervalNat ==
    ASSUME NEW m \in Nat, NEW n \in 0 .. m - 1
    PROVE  n \in Nat
  OBVIOUS

\* A uint16 is a natural number.
LEMMA Uint16Nat ==
    ASSUME NEW n \in 0 .. Uint16 - 1
    PROVE  n \in Nat
  BY Uint16Pos, IntervalNat, Zenon

\* A packet made from a header, messages and a payload length is one of Packets.
LEMMA PacketType ==
    ASSUME NEW h \in Headers \cup {None}, NEW ms \in Seq(Msgs), NEW n \in Nat
    PROVE  Packet(h, ms, n) \in Packets
  BY DEF Packet, Packets, HeaderSize

\* Allocating batches for the handler's message keeps the batch types.
LEMMA AllocateType ==
    ASSUME TypeOK, hpc # "idle", NEW n \in Nat \ {0}, Allocate(n)
    PROVE  BatchType' /\ created' = created + n /\ created' \in BatchIds
  <1>1. created + n \in 1 .. MaxBatches /\ created' = created + n
    BY AggAssumption DEF AggAssumption, TypeOK, BatchType, Allocate
  <1>2. HeaderOf(hmsg) \in Headers
    BY MsgType, Zenon DEF TypeOK, HandlerType
  <1>3. header' \in [BatchIds -> Headers \cup {None}]
    BY <1>2, Zenon DEF TypeOK, BatchType, Allocate
  <1>4. createTime' \in [BatchIds -> Nat]
    BY Zenon DEF TypeOK, BatchType, InputType, Allocate
  <1>5. created' \in 0 .. MaxBatches /\ created' \in BatchIds
    BY <1>1 DEF BatchIds
  <1>6. UNCHANGED <<held, wp, payloadLen, heapItem, deadline>>
    BY Zenon DEF Allocate
  <1> QED
    BY <1>1, <1>3, <1>4, <1>5, <1>6, Zenon DEF TypeOK, BatchType

\* Appending a message to a batch keeps the types of the packet's fields.
LEMMA PutMessageType ==
    ASSUME TypeOK, NEW b \in BatchIds, NEW m \in Msgs, PutMessage(b, m)
    PROVE  /\ held' \in [BatchIds -> Seq(Msgs)] /\ wp' \in [BatchIds -> Nat]
           /\ payloadLen' \in [BatchIds -> 0 .. Uint16 - 1]
  <1>1. SubSize(m) \in Nat /\ wp[b] \in Nat /\ held[b] \in Seq(Msgs)
    BY MsgType, Zenon DEF TypeOK, BatchType
  <1>2. wp[b] + SubSize(m) \in Nat
    BY <1>1
  <1>3. PayloadLen(wp[b] + SubSize(m)) \in 0 .. Uint16 - 1
    BY <1>2, PayloadLenRange
  <1> QED
    BY <1>1, <1>2, <1>3 DEF TypeOK, BatchType, PutMessage

\* What appending to a list gives.
LEMMA AppendType ==
    ASSUME NEW S, NEW l \in Seq(S), NEW e \in S
    PROVE  Append(l, e) \in Seq(S) /\ Append(l, e) # <<>>
  <1> DEFINE s == Append(l, e)
  <1>1. s \in Seq(S)
    OBVIOUS
  <1>2. Len(s) = Len(l) + 1 /\ Len(l) \in Nat /\ Len(<<>>) = 0
    OBVIOUS
  <1> HIDE DEF s
  <1>3. s # <<>>
    BY <1>2
  <1> QED
    BY <1>1, <1>3, Zenon DEF s

\* What a step leaves alone keeps its type.
LEMMA TypeUnchanged ==
    ASSUME TypeOK
    PROVE  /\ UNCHANGED input => InputType'
           /\ UNCHANGED worker => WorkerType'
           /\ UNCHANGED batchVars => BatchType'
           /\ UNCHANGED <<handler, created>> => HandlerType'
           /\ UNCHANGED timer => TimerType'
           /\ UNCHANGED evictor => EvictorType'
           /\ UNCHANGED out => OutType'
  <1>1. UNCHANGED input => InputType'
    BY Zenon DEF TypeOK, input, InputType
  <1>2. UNCHANGED worker => WorkerType'
    BY Zenon DEF TypeOK, worker, WorkerType
  <1>3. UNCHANGED batchVars => BatchType'
    BY Zenon DEF TypeOK, batchVars, BatchType
  <1>4. UNCHANGED <<handler, created>> => HandlerType'
    BY Zenon DEF TypeOK, handler, HandlerType
  <1>5. UNCHANGED timer => TimerType'
    BY Zenon DEF TypeOK, timer, TimerType
  <1>6. UNCHANGED evictor => EvictorType'
    BY Zenon DEF TypeOK, evictor, EvictorType
  <1>7. UNCHANGED out => OutType'
    BY Zenon DEF TypeOK, out, OutType
  <1> QED
    BY <1>1, <1>2, <1>3, <1>4, <1>5, <1>6, <1>7, Zenon

\* Every step of the worker keeps TypeOK.
LEMMA TypeStep == TypeOK /\ [Next]_vars => TypeOK'
  <1> SUFFICES ASSUME TypeOK, [Next]_vars PROVE TypeOK'
    BY Zenon
  <1>1. CASE Tick
    <2>1. InputType'
      BY <1>1, AggAssumption
         DEF Tick, TypeOK, InputType, AggAssumption
    <2> QED
      BY <1>1, <2>1, TypeUnchanged, Zenon
         DEF Tick, TypeOK, batchVars
  <1>2. ASSUME NEW m \in toAdd, AddToBatch(m) PROVE TypeOK'
    <2>1. InputType'
      BY <1>2
         DEF AddToBatch, TypeOK, InputType
    <2> QED
      BY <1>2, <2>1, TypeUnchanged, Zenon
         DEF AddToBatch, TypeOK, batchVars
  <1>3. CASE Receive
    <2>1. InputType'
      BY <1>3
         DEF Receive, TypeOK, InputType
    <2>2. HandlerType'
      <3>1. Head(inputChan) \in Msgs
        BY <1>3 DEF Receive, TypeOK, InputType
      <3>2. \/ hpc' = "idle"
            \/ hpc' \in {"lookup", "flush"} /\ hmsg' = Head(inputChan)
        BY <1>3, Zenon DEF Receive, HandlerDone, HandlerAt
      <3> QED
        BY <3>1, <3>2, Zenon DEF HandlerType
    <2>3. OutType'
      <3>1. Head(inputChan) \in Msgs
        BY <1>3 DEF Receive, TypeOK, InputType
      <3>2. /\ dropped' = dropped \/ dropped' = dropped \cup {Head(inputChan)}
            /\ sending' = sending /\ sent' = sent
        BY <1>3, Zenon DEF Receive
      <3> QED
        BY <3>1, <3>2, Zenon DEF TypeOK, OutType
    <2> QED
      BY <1>3, <2>1, <2>2, <2>3, TypeUnchanged, Zenon
         DEF Receive, TypeOK
  <1>4. CASE FlushEmerge
    <2>1. HandlerType'
      BY <1>4, Zenon
         DEF FlushEmerge, TypeOK, HandlerType, EmergeDone, HandlerDone, HandlerAt
    <2>2. OutType'
      <3>1. SubSize(hmsg) \in Nat /\ HeaderOf(hmsg) \in Headers /\ <<hmsg>> \in Seq(Msgs)
        BY <1>4, MsgType DEF FlushEmerge, TypeOK, HandlerType
      <3>2. HeaderSize + SubSize(hmsg) \in Int
        BY <3>1 DEF HeaderSize
      <3>3. PayloadLen(HeaderSize + SubSize(hmsg)) \in Nat
        BY <3>2, PayloadLenRange, Uint16Nat, Zenon
      <3> QED
        BY <1>4, <3>1, <3>3, PacketType, Zenon DEF FlushEmerge, TypeOK, OutType
    <2> QED
      BY <1>4, <2>1, <2>2, TypeUnchanged, Zenon
         DEF FlushEmerge, TypeOK
  <1>5. CASE Lookup
    <2>1. HandlerType'
      BY <1>5, MsgType, PickType, Zenon
         DEF Lookup, TypeOK, HandlerType, WorkerType, HandlerDone, HandlerAt
    <2> QED
      BY <1>5, <2>1, TypeUnchanged, Zenon
         DEF Lookup, TypeOK
  <1>6. CASE NewBatches
    <2>1. BatchType'
      BY <1>6, AllocateType, MsgType, AggAssumption, Zenon
         DEF NewBatches, TypeOK, BatchType, AggAssumption, HandlerType
    <2>2. HandlerType'
      <3>1. /\ hpc # "idle" /\ Allocate(BatchNum[hmsg.port])
            /\ hpc' = "create" /\ hmsg' = hmsg /\ hmsg \in Msgs
        BY <1>6, Zenon DEF NewBatches, HandlerAt, TypeOK, HandlerType
      <3>2. PICK n : n = BatchNum[hmsg.port]
        OBVIOUS
      <3>3. n \in Nat \ {0}
        <4>1. hmsg.port \in Ports
          BY ONLY <3>1, MsgType, Zenon
        <4>2. BatchNum \in [Ports -> Nat \ {0}]
          BY AggAssumption, Zenon DEF AggAssumption
        <4> QED
          BY ONLY <3>2, <4>1, <4>2
      <3>4. created \in Nat /\ created' = created + n
        <4>1. created \in 0 .. MaxBatches /\ created' = created + n
          BY ONLY TypeOK, <3>1, <3>2, Zenon DEF TypeOK, BatchType, Allocate
        <4>2. \A i \in 0 .. MaxBatches : i \in Nat
          OBVIOUS
        <4> QED
          BY ONLY <4>1, <4>2, Zenon
      <3>5. created' >= n
        BY ONLY <3>3, <3>4
      <3>6. BatchNum[hmsg.port]' = n
        BY ONLY <3>1, <3>2, Zenon
      <3> QED
        BY ONLY <3>1, <3>5, <3>6 DEF HandlerType
    <2> QED
      BY <1>6, <2>1, <2>2, TypeUnchanged, Zenon
         DEF NewBatches, TypeOK
  <1>7. CASE CreateBatches
    <2> DEFINE k == hmsg.routingKey
    <2> DEFINE n == BatchNum[hmsg.port]
    <2> DEFINE fresh == [i \in 1 .. n |-> created - n + i]
    <2> DEFINE list == IF batches[k] = <<>> THEN fresh ELSE batches[k]
    <2>1. hmsg \in Msgs /\ k \in Keys /\ n \in Nat \ {0} /\ created >= n
      BY <1>7, MsgType, AggAssumption, Zenon DEF CreateBatches, TypeOK, HandlerType, AggAssumption
    <2>2. \A i \in 1 .. n : created - n + i \in BatchIds
      <3>1. created \in 0 .. MaxBatches /\ MaxBatches \in Nat
        BY ONLY TypeOK, AggAssumption, Zenon DEF TypeOK, BatchType, AggAssumption
      <3>2. PICK c, x : c = created /\ x = n
        OBVIOUS
      <3>3. x \in Nat /\ c >= x /\ c \in 0 .. MaxBatches
        BY ONLY <2>1, <3>1, <3>2, Zenon
      <3>4. \A i \in 1 .. x : c - x + i \in 1 .. MaxBatches
        BY ONLY <3>1, <3>3
      <3> QED
        BY ONLY <3>2, <3>4, Zenon DEF BatchIds
    <2>3. fresh \in Seq(BatchIds) /\ fresh # <<>>
      BY <2>1, <2>2
    <2>4. list \in Seq(BatchIds) /\ list # <<>>
      BY <2>1, <2>3, Zenon DEF TypeOK, WorkerType
    <2>5. Pick(list, hmsg) \in BatchIds
      BY <2>1, <2>4, PickType, Zenon
    <2>6. batches' = [batches EXCEPT ![k] = list] /\ HandlerAt("append", hmsg, Pick(list, hmsg))
      BY <1>7, Zenon DEF CreateBatches
    <2>7. WorkerType'
      BY <1>7, <2>1, <2>4, <2>6, Zenon DEF CreateBatches, TypeOK, WorkerType
    <2>8. HandlerType'
      BY <2>1, <2>5, <2>6, Zenon DEF HandlerAt, HandlerType
    <2> QED
      BY <1>7, <2>7, <2>8, TypeUnchanged, Zenon DEF CreateBatches, TypeOK
  <1>8. CASE AppendToBatch
    <2>1. BatchType'
      BY <1>8, PutMessageType, Zenon
         DEF AppendToBatch, TypeOK, BatchType, HandlerType
    <2>2. HandlerType'
      BY <1>8, Zenon
         DEF AppendToBatch, TypeOK, HandlerType, Schedule, HandlerDone, HandlerAt
    <2> QED
      BY <1>8, <2>1, <2>2, TypeUnchanged, Zenon
         DEF AppendToBatch, TypeOK
  <1>9. CASE ReplaceBatch
    <2>1. BatchType'
      BY <1>9, AllocateType DEF ReplaceBatch
    <2>2. HandlerType'
      BY <1>9, AllocateType
         DEF ReplaceBatch, TypeOK, HandlerType, HandlerDone, HandlerAt
    <2> QED
      BY <1>9, <2>1, <2>2, TypeUnchanged, Zenon
         DEF ReplaceBatch, TypeOK
  <1>10. CASE LinkBatch
    <2>1. WorkerType'
      <3> DEFINE k == hmsg.routingKey
      <3>1. hb \in BatchIds /\ hmsg \in Msgs
        BY <1>10, Zenon DEF LinkBatch, TypeOK, HandlerType
      <3>2. k \in Keys
        BY <3>1, MsgType, Zenon
      <3>3. batches \in [Keys -> Seq(BatchIds)] /\ heap \subseteq BatchIds
        BY Zenon DEF TypeOK, WorkerType
      <3>4. batches' = [batches EXCEPT ![k] = Append(batches[k], hb)] /\ heap' = heap
        BY <1>10, Zenon DEF LinkBatch
      <3> HIDE DEF k
      <3>5. Append(batches[k], hb) \in Seq(BatchIds)
        BY <3>1, <3>2, <3>3, AppendType, Zenon
      <3> QED
        BY <3>3, <3>4, <3>5, Zenon DEF WorkerType
    <2>2. BatchType'
      BY <1>10, PutMessageType, Zenon
         DEF LinkBatch, TypeOK, BatchType, HandlerType
    <2>3. HandlerType'
      BY <1>10, Zenon
         DEF LinkBatch, TypeOK, HandlerType, Schedule, HandlerDone, HandlerAt
    <2>4. OutType'
      BY <1>10, Zenon
         DEF LinkBatch, TypeOK, OutType, HandlerType
    <2> QED
      BY <1>10, <2>1, <2>2, <2>3, <2>4, TypeUnchanged, Zenon
         DEF LinkBatch, TypeOK
  <1>11. CASE NewItem
    <2>1. BatchType'
      <3>1. now + BatchTimeout \in Nat
        BY AggAssumption DEF TypeOK, InputType, AggAssumption
      <3> QED
        BY <1>11, <3>1, Zenon DEF NewItem, TypeOK, BatchType, HandlerType
    <2>2. HandlerType'
      BY <1>11, Zenon
         DEF NewItem, TypeOK, HandlerType, HandlerDone, HandlerAt
    <2> QED
      BY <1>11, <2>1, <2>2, TypeUnchanged, Zenon
         DEF NewItem, TypeOK
  <1>12. CASE PushItem
    <2>1. WorkerType'
      BY <1>12, Zenon
         DEF PushItem, TypeOK, WorkerType, HandlerType
    <2>2. HandlerType'
      BY <1>12, Zenon
         DEF PushItem, TypeOK, HandlerType, batchVars, HandlerDone, HandlerAt
    <2> QED
      BY <1>12, <2>1, <2>2, TypeUnchanged, Zenon
         DEF PushItem, TypeOK
  <1>13. CASE AssignItem
    <2>1. BatchType'
      BY <1>13, Zenon
         DEF AssignItem, TypeOK, BatchType, HandlerType
    <2>2. HandlerType'
      BY <1>13, Zenon
         DEF AssignItem, TypeOK, HandlerType, HandlerDone, HandlerAt
    <2> QED
      BY <1>13, <2>1, <2>2, TypeUnchanged, Zenon
         DEF AssignItem, TypeOK
  <1>14. CASE StartCheck
    <2>1. TimerType'
      BY <1>14, Zenon
         DEF StartCheck, TypeOK, TimerType, InputType
    <2> QED
      BY <1>14, <2>1, TypeUnchanged, Zenon
         DEF StartCheck, TypeOK, batchVars
  <1>15. CASE PopExpired
    <2>1. WorkerType'
      BY <1>15, Zenon
         DEF PopExpired, TypeOK, WorkerType
    <2>2. TimerType'
      BY <1>15
         DEF PopExpired, TypeOK, TimerType, WorkerType
    <2> QED
      BY <1>15, <2>1, <2>2, TypeUnchanged, Zenon
         DEF PopExpired, TypeOK, batchVars
  <1>16. ASSUME NEW b \in expired, Serialize(b) PROVE TypeOK'
    <2>1. BatchType'
      BY <1>16
         DEF Serialize, TypeOK, BatchType, TimerType, ResetBatch, HeaderSize
    <2>2. TimerType'
      <3>1. Packet(header[b], held[b], payloadLen[b]) \in Packets
        <4>1. b \in BatchIds
          BY Zenon DEF TypeOK, TimerType
        <4>2. header[b] \in Headers \cup {None} /\ held[b] \in Seq(Msgs) /\ payloadLen[b] \in Nat
          BY <4>1, Uint16Nat, Zenon DEF TypeOK, BatchType
        <4> QED
          BY <4>2, PacketType, Zenon
      <3>2. /\ toSend \in Seq(Packets) /\ expired \subseteq BatchIds /\ tnow \in Nat
            /\ tpc = "serialize"
        BY <1>16, Zenon DEF Serialize, TypeOK, TimerType
      <3>3. /\ toSend' = Append(toSend, Packet(header[b], held[b], payloadLen[b]))
            /\ expired' = expired \ {b}
            /\ \/ expired = {b} /\ tpc' = "flush" /\ tnow' = 0
               \/ tpc' = tpc /\ tnow' = tnow
        BY <1>16, Zenon DEF Serialize
      <3>4. toSend' \in Seq(Packets) /\ toSend' # <<>>
        BY <3>1, <3>2, <3>3, AppendType, Zenon
      <3> QED
        BY <3>2, <3>3, <3>4 DEF TimerType
    <2> QED
      BY <1>16, <2>1, <2>2, TypeUnchanged, Zenon
         DEF Serialize, TypeOK, handler
  <1>17. CASE FlushNext
    <2>1. TimerType'
      <3>1. toSend \in Seq(Packets) /\ toSend # <<>>
        BY <1>17, Zenon DEF FlushNext, TypeOK, TimerType
      <3>2. Tail(toSend) \in Seq(Packets) /\ Len(Tail(toSend)) = Len(toSend) - 1
        BY <3>1
      <3>3. Len(toSend) # 1 => Tail(toSend) # <<>>
        BY <3>1, <3>2
      <3> QED
        BY <1>17, <3>2, <3>3, Zenon DEF FlushNext, TypeOK, TimerType, AfterFlush
    <2>2. OutType'
      BY <1>17
         DEF FlushNext, TypeOK, OutType, TimerType
    <2> QED
      BY <1>17, <2>1, <2>2, TypeUnchanged, Zenon
         DEF FlushNext, TypeOK, batchVars
  <1>18. ASSUME NEW p \in sending, SendOk(p) PROVE TypeOK'
    <2>1. OutType'
      BY <1>18, Zenon
         DEF SendOk, TypeOK, OutType
    <2> QED
      BY <1>18, <2>1, TypeUnchanged, Zenon
         DEF SendOk, TypeOK, batchVars
  <1>19. ASSUME NEW p \in sending, SendError(p) PROVE TypeOK'
    <2>1. OutType'
      <3>1. sending \subseteq Packets /\ sent \subseteq Packets /\ dropped \subseteq Msgs
        BY Zenon DEF TypeOK, OutType
      <3>2. p.msgs \in Seq(Msgs)
        BY <3>1, Zenon DEF Packets
      <3>3. \A i \in DOMAIN p.msgs : p.msgs[i] \in Msgs
        BY <3>2
      <3>4. /\ sending' = sending \ {p} /\ sent' = sent
            /\ dropped' = dropped \cup {p.msgs[i] : i \in DOMAIN p.msgs}
        BY <1>19, Zenon DEF SendError
      <3> QED
        BY <3>1, <3>3, <3>4, Zenon DEF OutType
    <2> QED
      BY <1>19, <2>1, TypeUnchanged, Zenon
         DEF SendError, TypeOK, batchVars
  <1>20. CASE EvictCopy
    <2>1. EvictorType'
      BY <1>20, Zenon
         DEF EvictCopy, TypeOK, EvictorType, InputType, WorkerType
    <2> QED
      BY <1>20, <2>1, TypeUnchanged, Zenon
         DEF EvictCopy, TypeOK, batchVars
  <1>21. ASSUME NEW k \in Keys, EvictSkip(k) PROVE TypeOK'
    <2>1. EvictorType'
      BY <1>21
         DEF EvictSkip, TypeOK, EvictorType, AfterKey
    <2> QED
      BY <1>21, <2>1, TypeUnchanged, Zenon
         DEF EvictSkip, TypeOK, batchVars
  <1>22. ASSUME NEW k \in Keys, EvictMark(k) PROVE TypeOK'
    <2>1. EvictorType'
      BY <1>22, Zenon
         DEF EvictMark, TypeOK, EvictorType
    <2> QED
      BY <1>22, <2>1, TypeUnchanged, Zenon
         DEF EvictMark, TypeOK, batchVars
  <1>23. CASE EvictLock
    <2>1. EvictorType'
      BY <1>23, Zenon
         DEF EvictLock, TypeOK, EvictorType
    <2> QED
      BY <1>23, <2>1, TypeUnchanged, Zenon
         DEF EvictLock, TypeOK, batchVars
  <1>24. CASE EvictItem
    <2>1. WorkerType'
      BY <1>24, Zenon
         DEF EvictItem, TypeOK, WorkerType
    <2>2. EvictorType'
      <3>1. ekey \in Keys /\ snap[ekey] \in Seq(BatchIds) /\ snap[ekey] # <<>>
        BY <1>24, Zenon DEF EvictItem, TypeOK, EvictorType
      <3>2. Head(snap[ekey]) \in BatchIds /\ Tail(snap[ekey]) \in Seq(BatchIds)
        BY <3>1
      <3> QED
        BY <1>24, <3>1, <3>2, Zenon DEF EvictItem, TypeOK, EvictorType
    <2> QED
      BY <1>24, <2>1, <2>2, TypeUnchanged, Zenon
         DEF EvictItem, TypeOK, batchVars
  <1>27. CASE EvictTest
    <2>1. EvictorType'
      <3>1. ekey \in Keys /\ snap[ekey] \in Seq(BatchIds) /\ snap[ekey] # <<>>
        BY <1>27, Zenon DEF EvictTest, TypeOK, EvictorType
      <3>2. Tail(snap[ekey]) \in Seq(BatchIds)
        BY <3>1
      <3> QED
        BY <1>27, <3>1, <3>2, Zenon DEF EvictTest, TypeOK, EvictorType
    <2> QED
      BY <1>27, <2>1, TypeUnchanged, Zenon
         DEF EvictTest, TypeOK, batchVars
  <1>25. CASE EvictKey
    <2>1. WorkerType'
      BY <1>25, Zenon
         DEF EvictKey, TypeOK, WorkerType, EvictorType
    <2>2. EvictorType'
      BY <1>25
         DEF EvictKey, TypeOK, EvictorType, AfterKey
    <2> QED
      BY <1>25, <2>1, <2>2, TypeUnchanged, Zenon
         DEF EvictKey, TypeOK, batchVars
  <1>26. CASE UNCHANGED vars
    BY <1>26, TypeUnchanged, Zenon DEF TypeOK, vars, batchVars
  <1> QED
    BY <1>1, <1>2, <1>3, <1>4, <1>5, <1>6, <1>7, <1>8, <1>9, <1>10, <1>11, <1>12,
       <1>13, <1>14, <1>15, <1>16, <1>17, <1>18, <1>19, <1>20, <1>21, <1>22, <1>23, <1>24, <1>25, <1>26, <1>27, Zenon
       DEF Next, Handler, Timer, Sender, Evictor

\* TypeOK holds in every reachable state.
THEOREM TypeCorrect == Spec => []TypeOK
  <1>1. Init => TypeOK
    <2> SUFFICES ASSUME Init PROVE TypeOK
      BY Zenon
    <2>1. InputType /\ WorkerType
      BY AggAssumption DEF AggAssumption, Init, InputType, WorkerType
    <2>2. BatchType
      BY AggAssumption, Uint16Pos DEF AggAssumption, Init, BatchType, HeaderSize
    <2>3. HandlerType
      BY Zenon DEF Init, HandlerType
    <2>4. TimerType
      BY DEF Init, TimerType
    <2>5. EvictorType
      <3>1. panicked \in BOOLEAN
        BY Zenon DEF Init
      <3> QED
        BY <3>1 DEF Init, EvictorType
    <2>6. OutType
      BY Zenon DEF Init, OutType
    <2> QED
      BY <2>1, <2>2, <2>3, <2>4, <2>5, <2>6, Zenon DEF TypeOK
  <1> QED
    BY <1>1, TypeStep, PTL DEF Spec

-----------------------------------------------------------------------------
\* Lists of batches.

\* Putting another list at a key keeps the batches apart, if they are apart in it
\* and those that were not at the key are nowhere else.
LEMMA ReplaceList ==
    ASSUME NEW f \in [Keys -> Seq(BatchIds)], NEW k \in Keys, NEW s \in Seq(BatchIds),
           Distinct(f),
           \A x, y \in DOMAIN s : s[x] = s[y] => x = y,
           \A x \in DOMAIN s : s[x] \in Listed(f) => \E y \in DOMAIN f[k] : f[k][y] = s[x]
    PROVE  /\ Distinct([f EXCEPT ![k] = s])
           /\ \A b \in Listed([f EXCEPT ![k] = s]) :
                 b \in Listed(f) \/ \E x \in DOMAIN s : s[x] = b
  <1> DEFINE g == [f EXCEPT ![k] = s]
  <1>1. g[k] = s /\ \A j \in Keys \ {k} : g[j] = f[j]
    BY Zenon
  <1>2. \A j \in Keys \ {k} : \A x \in DOMAIN s, y \in DOMAIN f[j] : s[x] # f[j][y]
    <2> SUFFICES ASSUME NEW j \in Keys \ {k}, NEW x \in DOMAIN s, NEW y \in DOMAIN f[j],
                        s[x] = f[j][y]
                 PROVE  FALSE
      BY Zenon
    <2>1. s[x] \in Listed(f)
      BY SMTT(40) DEF Listed
    <2>2. PICK z \in DOMAIN f[k] : f[k][z] = s[x]
      BY <2>1, Zenon
    <2> QED
      BY <2>2, SMTT(40) DEF Distinct
  <1>3. Distinct(g)
    <2> SUFFICES ASSUME NEW i \in Keys, NEW j \in Keys, NEW x \in DOMAIN g[i], NEW y \in DOMAIN g[j],
                        g[i][x] = g[j][y]
                 PROVE  i = j /\ x = y
      BY Zenon DEF Distinct
    <2>1. CASE i = k /\ j = k
      BY <1>1, <2>1, Zenon
    <2>2. CASE i = k /\ j # k
      BY <1>1, <1>2, <2>2
    <2>3. CASE i # k /\ j = k
      BY <1>1, <1>2, <2>3
    <2>4. CASE i # k /\ j # k
      BY <1>1, <2>4 DEF Distinct
    <2> QED
      BY <2>1, <2>2, <2>3, <2>4, Zenon
  <1>4. \A b \in Listed(g) : b \in Listed(f) \/ \E x \in DOMAIN s : s[x] = b
    BY <1>1 DEF Listed
  <1> QED
    BY <1>3, <1>4, Zenon

\* Each list of a map without repetitions has none.
LEMMA DistinctList ==
  ASSUME NEW f, Distinct(f), NEW k \in Keys
  PROVE  \A x, y \in DOMAIN f[k] : f[k][x] = f[k][y] => x = y
  BY Zenon DEF Distinct

\* A map with fewer entries has no repetitions either.
LEMMA LessDistinct ==
  ASSUME NEW f, NEW g, Distinct(f),
         \A j \in Keys : \A x \in DOMAIN g[j] :
             j # ekey /\ x \in DOMAIN f[j] /\ g[j][x] = f[j][x]
  PROVE  Distinct(g)
  <1> SUFFICES ASSUME NEW k \in Keys, NEW j \in Keys, NEW x \in DOMAIN g[k],
                      NEW y \in DOMAIN g[j], g[k][x] = g[j][y]
               PROVE  k = j /\ x = y
    BY Zenon DEF Distinct
  <1>1. x \in DOMAIN f[k] /\ y \in DOMAIN f[j] /\ f[k][x] = f[j][y]
    BY Zenon
  <1> QED
    BY <1>1 DEF Distinct

\* A list without repetitions has none after a new element is appended.
LEMMA AppendDistinct ==
  ASSUME NEW S, NEW l \in Seq(S), NEW e \in S,
         \A x, y \in DOMAIN l : l[x] = l[y] => x = y,
         \A x \in DOMAIN l : l[x] # e
  PROVE  \A x, y \in DOMAIN Append(l, e) : Append(l, e)[x] = Append(l, e)[y] => x = y
  <1> DEFINE s == Append(l, e)
  <1>1. Len(l) \in Nat /\ DOMAIN l = 1 .. Len(l) /\ DOMAIN s = 1 .. Len(l) + 1
    OBVIOUS
  <1>2. s[Len(l) + 1] = e /\ \A x \in DOMAIN l : s[x] = l[x]
    OBVIOUS
  <1> HIDE DEF s
  <1>3. \A x \in DOMAIN s : x = Len(l) + 1 \/ x \in DOMAIN l
    BY <1>1
  <1>4. \A x, y \in DOMAIN s : s[x] = s[y] => x = y
    BY <1>2, <1>3, Zenon
  <1> QED
    BY <1>4, Zenon DEF s

\* Batch ids are integers, and so is what a list holds.
LEMMA IdsInt == \A b \in BatchIds : b \in Int
  BY DEF BatchIds

\* A list holds batch ids.
LEMMA ListedIds == ASSUME NEW f PROVE Listed(f) \subseteq BatchIds
  BY Zenon DEF Listed

\* Listed and Distinct of the next state's lists.
LEMMA ListsPrime ==
    /\ Listed(batches)' = Listed(batches') /\ Listed(snap)' = Listed(snap')
    /\ Distinct(batches)' <=> Distinct(batches')
    /\ Distinct(snap)' <=> Distinct(snap')
  BY Zenon DEF Listed, Distinct

\* What the list invariant is about.
lists == <<batches, snap, evicted, epc, ekey, created, hpc, hmsg, hb>>

\* A step that touches none of it keeps the list invariant.
LEMMA ListsUnchanged ==
    ASSUME ListsFresh, UNCHANGED lists
    PROVE  ListsFresh'
  BY DEF ListsFresh, lists, Listed, Distinct, Published, WMuFree

\* Nor does the evictor on its way from the test of an item to its removal.
LEMMA ListsStill ==
    ASSUME ListsFresh, ~WMuFree, ~WMuFree',
           UNCHANGED <<batches, snap, ekey, evicted, created, hpc, hmsg, hb>>
    PROVE  ListsFresh'
  BY SMTT(30) DEF ListsFresh, Listed, Distinct, Published

\* A handler step that touches no list keeps it too, if no batch is withdrawn.
LEMMA ListsHandler ==
    ASSUME TypeOK, ListsFresh, UNCHANGED <<batches, snap, evicted, epc, ekey>>,
           Published \in Int, Published' \in Int, Published <= Published',
           hpc' = "link" => hb' = created'
    PROVE  ListsFresh'
  <1>1. /\ Listed(batches)' = Listed(batches) /\ Listed(snap)' = Listed(snap)
        /\ Distinct(batches)' /\ Distinct(snap)'
    BY SMTT(40) DEF ListsFresh, Listed, Distinct
  <1>2. \A b \in Listed(batches) \cup Listed(snap) \cup evicted : b \in Int
    BY IdsInt, ListedIds, Zenon DEF TypeOK, EvictorType
  <1>3. \A b \in (Listed(batches) \cup Listed(snap) \cup evicted)' : b <= Published'
    BY <1>1, <1>2, SMTT(40) DEF ListsFresh
  <1> QED
    BY <1>1, <1>3 DEF ListsFresh, WMuFree

\* Published is a number.
LEMMA PublishedType ==
    ASSUME TypeOK
    PROVE  Published \in Int /\ Published <= created /\ created \in Nat
  <1>1. created \in Nat
    BY AggAssumption DEF AggAssumption, TypeOK, BatchType
  <1>2. hpc = "create" => BatchNum[hmsg.port] \in Nat
    BY MsgType, AggAssumption, Zenon DEF AggAssumption, TypeOK, HandlerType
  <1> QED
    BY <1>1, <1>2 DEF Published

\* An unchanged copy has the same batches.
LEMMA SnapSame ==
    ASSUME ListsFresh, UNCHANGED snap
    PROVE  Listed(snap') = Listed(snap) /\ Distinct(snap')
  <1>1. Distinct(snap)
    BY Zenon DEF ListsFresh
  <1> QED
    BY <1>1, Zenon

\* What the lists hold was published.
LEMMA ListsBelow ==
    ASSUME TypeOK, ListsFresh
    PROVE  \A b \in Listed(batches) \cup Listed(snap) \cup evicted : b \in Int /\ b <= Published
  <1>1. \A b \in Listed(batches) \cup Listed(snap) \cup evicted : b <= Published
    BY Zenon DEF ListsFresh
  <1>2. \A b \in Listed(batches) \cup Listed(snap) \cup evicted : b \in BatchIds
    BY ListedIds, Zenon DEF TypeOK, EvictorType
  <1> QED
    BY <1>1, <1>2, IdsInt, Zenon

\* The list that CreateBatches makes of the n last ids.
LEMMA LastIds ==
    ASSUME NEW c \in Nat, NEW n \in Nat, NEW B, \A i \in 1 .. n : c - n + i \in B,
           NEW s, s = [i \in 1 .. n |-> c - n + i]
    PROVE  /\ s \in Seq(B) /\ DOMAIN s = 1 .. n
           /\ \A x \in DOMAIN s : s[x] \in Int /\ s[x] > c - n /\ s[x] <= c
           /\ \A x, y \in DOMAIN s : s[x] = s[y] => x = y
  <1>1. DOMAIN s = 1 .. n /\ \A x \in 1 .. n : s[x] = c - n + x
    BY Zenon
  <1>2. s \in Seq(B)
    OBVIOUS
  <1>3. \A x \in 1 .. n : s[x] \in Int /\ s[x] > c - n /\ s[x] <= c
    BY <1>1
  <1>4. \A x, y \in 1 .. n : s[x] = s[y] => x = y
    BY <1>1
  <1> QED
    BY <1>1, <1>2, <1>3, <1>4, Zenon

\* A key's list may grow by batches that are in no list and were never evicted.
LEMMA ListsGrow ==
    ASSUME TypeOK, ListsFresh, NEW k \in Keys, NEW s \in Seq(BatchIds),
           batches' = [batches EXCEPT ![k] = s], UNCHANGED <<snap, evicted, epc, ekey>>,
           \A x, y \in DOMAIN s : s[x] = s[y] => x = y,
           \A x \in DOMAIN s :
               \/ \E y \in DOMAIN batches[k] : batches[k][y] = s[x]
               \/ s[x] \notin Listed(batches) \cup Listed(snap) \cup evicted /\ s[x] <= Published',
           Published \in Int, Published' \in Int, Published <= Published', hpc' # "link"
    PROVE  ListsFresh'
  <1>0. batches \in [Keys -> Seq(BatchIds)]
    BY Zenon DEF TypeOK, WorkerType
  <1>1. /\ Distinct(batches')
        /\ \A b \in Listed(batches') : b \in Listed(batches) \/ \E x \in DOMAIN s : s[x] = b
    BY <1>0, ReplaceList, Zenon DEF ListsFresh
  <1>2. batches'[k] = s /\ \A j \in Keys \ {k} : batches'[j] = batches[j]
    BY <1>0, Zenon
  <1>3. Listed(snap') = Listed(snap) /\ Distinct(snap')
    BY SnapSame, Zenon
  <1>4. \A x \in DOMAIN batches[k] : batches[k][x] \in Listed(batches)
    BY <1>0, SMTT(40) DEF Listed
  <1>5. \A b \in Listed(batches) \cup Listed(snap) \cup evicted : b \in Int /\ b <= Published
    BY ListsBelow, Zenon
  <1>6. \A b \in Listed(batches') \cup Listed(snap') \cup evicted' : b <= Published'
    <2>1. \A b \in Listed(batches) \cup Listed(snap) \cup evicted : b <= Published'
      BY <1>5
    <2>2. \A x \in DOMAIN s : s[x] <= Published'
      BY <1>4, <2>1, Zenon
    <2>3. ASSUME NEW b \in Listed(batches') PROVE b <= Published'
      <3>1. CASE b \in Listed(batches)
        BY <2>1, <3>1, Zenon
      <3>2. CASE \E x \in DOMAIN s : s[x] = b
        BY <2>2, <3>2, Zenon
      <3> QED
        BY <1>1, <3>1, <3>2, Zenon
    <2> QED
      BY <1>3, <2>1, <2>3, Zenon
  <1>7. \A i, j \in Keys : \A x \in DOMAIN snap'[i], y \in DOMAIN batches'[j] :
            snap'[i][x] = batches'[j][y] => i = j
    <2> SUFFICES ASSUME NEW i \in Keys, NEW j \in Keys, NEW x \in DOMAIN snap[i],
                        NEW y \in DOMAIN batches'[j], snap[i][x] = batches'[j][y]
                 PROVE  i = j
      OBVIOUS
    <2>1. snap[i][x] \in Listed(snap)
      BY DEF Listed, TypeOK, EvictorType
    <2>2. CASE j # k
      BY <1>2, <2>2, SMTT(40) DEF ListsFresh
    <2>3. CASE j = k
      BY <1>2, <2>1, <2>3, SMTT(40) DEF ListsFresh
    <2> QED
      BY <2>2, <2>3, Zenon
  <1>8. \A j \in Keys : \A x \in DOMAIN batches'[j] :
            batches'[j][x] \in evicted => ~WMuFree /\ ekey = j
    <2> SUFFICES ASSUME NEW j \in Keys, NEW x \in DOMAIN batches'[j], batches'[j][x] \in evicted
                 PROVE  ~WMuFree /\ ekey = j
      BY Zenon
    <2>1. CASE j # k
      BY <1>2, <2>1, Zenon DEF ListsFresh
    <2>2. CASE j = k
      BY <1>2, <2>2, Zenon DEF ListsFresh
    <2> QED
      BY <2>1, <2>2, Zenon
  <1> QED
    <2>1. Listed(snap') \cap evicted' = {}
      BY <1>3, Zenon DEF ListsFresh
    <2>2. \A b \in (Listed(batches) \cup Listed(snap) \cup evicted)' : b <= Published'
      BY <1>6, ListsPrime, Zenon
    <2>3. \A j \in Keys : \A x \in DOMAIN batches'[j] :
              batches'[j][x] \in evicted' => ~WMuFree' /\ ekey' = j
      BY <1>8, Zenon DEF WMuFree
    <2>4. hpc' = "link" => hb' = created'
      BY Zenon
    <2>5. Distinct(batches)' /\ Distinct(snap)' /\ Listed(snap)' \cap evicted' = {}
      BY <1>1, <1>3, <2>1, ListsPrime, Zenon
    <2> QED
      BY <1>7, <2>2, <2>3, <2>4, <2>5, Zenon DEF ListsFresh

\* The evictor's copy may shrink, and what it drops may be evicted meanwhile.
LEMMA CopyShrinks ==
    ASSUME TypeOK, ListsFresh, NEW k \in Keys, NEW s \in Seq(BatchIds),
           snap' = [snap EXCEPT ![k] = s],
           UNCHANGED <<batches, created, hpc, hmsg, hb>>,
           \A x, y \in DOMAIN s : s[x] = s[y] => x = y,
           \A x \in DOMAIN s : \E y \in DOMAIN snap[k] : snap[k][y] = s[x],
           evicted' \subseteq evicted \cup {snap[k][y] : y \in DOMAIN snap[k]},
           \A x \in DOMAIN s : s[x] \notin evicted',
           \/ WMuFree /\ evicted' = evicted
           \/ ~WMuFree' /\ ekey' = k /\ ekey = k
    PROVE  ListsFresh'
  <1>0. snap \in [Keys -> Seq(BatchIds)]
    BY Zenon DEF TypeOK, EvictorType
  <1>1. /\ Distinct(snap')
        /\ \A b \in Listed(snap') : b \in Listed(snap) \/ \E x \in DOMAIN s : s[x] = b
    <2>1. Distinct(snap)
      BY Zenon DEF ListsFresh
    <2>2. /\ Distinct([snap EXCEPT ![k] = s])
          /\ \A b \in Listed([snap EXCEPT ![k] = s]) :
                b \in Listed(snap) \/ \E x \in DOMAIN s : s[x] = b
      BY <1>0, <2>1, ReplaceList, ZenonT(60)
    <2> QED
      BY <2>2, ZenonT(60)
  <1>2. snap'[k] = s /\ \A j \in Keys \ {k} : snap'[j] = snap[j]
    BY <1>0, Zenon
  <1>3. \A x \in DOMAIN snap[k] : snap[k][x] \in Listed(snap)
    BY <1>0, SMTT(40) DEF Listed
  <1>4. Published' = Published /\ Listed(batches)' = Listed(batches) /\ Distinct(batches)'
    BY DEF Published, Listed, Distinct, ListsFresh
  <1>5. \A b \in (Listed(batches) \cup Listed(snap) \cup evicted)' : b <= Published'
    <2>1. \A b \in Listed(snap') : b \in Listed(snap)
      <3> SUFFICES ASSUME NEW b \in Listed(snap'), NEW x \in DOMAIN s, s[x] = b
                   PROVE  b \in Listed(snap)
        BY <1>1, Zenon
      <3>1. PICK y \in DOMAIN snap[k] : snap[k][y] = s[x]
        BY Zenon
      <3> QED
        BY <1>3, <3>1, Zenon
    <2>2. \A b \in evicted' : b \in evicted \/ b \in Listed(snap)
      BY <1>3
    <2> QED
      BY <1>4, <2>1, <2>2, ListsPrime, Zenon DEF ListsFresh
  <1>6. \A i, j \in Keys : \A x \in DOMAIN snap'[i], y \in DOMAIN batches'[j] :
            snap'[i][x] = batches'[j][y] => i = j
    BY <1>2 DEF ListsFresh
  <1>7. Listed(snap') \cap evicted' = {}
    <2> SUFFICES ASSUME NEW i \in Keys, NEW x \in DOMAIN snap'[i], snap'[i][x] \in evicted'
                 PROVE  FALSE
      BY Zenon DEF Listed
    <2>1. CASE i = k
      BY <1>2, <2>1, Zenon
    <2>2. CASE i # k
      <3>1. snap[i][x] \in Listed(snap) /\ snap'[i][x] = snap[i][x] /\ x \in DOMAIN snap[i]
        BY <1>0, <1>2, <2>2, SMTT(40) DEF Listed
      <3>2. PICK y \in DOMAIN snap[k] : snap[i][x] = snap[k][y]
        BY <3>1 DEF ListsFresh
      <3> QED
        BY <2>2, <3>1, <3>2 DEF ListsFresh, Distinct
    <2> QED
      BY <2>1, <2>2, Zenon
  <1>8. \A j \in Keys : \A x \in DOMAIN batches[j] :
            batches[j][x] \in evicted' => ~WMuFree' /\ ekey' = j
    <2> SUFFICES ASSUME NEW j \in Keys, NEW x \in DOMAIN batches[j], batches[j][x] \in evicted'
                 PROVE  ~WMuFree' /\ ekey' = j
      BY Zenon
    <2>1. CASE batches[j][x] \in evicted
      BY <2>1, Zenon DEF ListsFresh
    <2>2. CASE batches[j][x] \notin evicted
      BY <2>2 DEF ListsFresh
    <2> QED
      BY <2>1, <2>2, Zenon
  <1> QED
    BY <1>1, <1>4, <1>5, <1>6, <1>7, <1>8, ListsPrime, Zenon DEF ListsFresh

\* Every step keeps the list invariant.
LEMMA ListsStep ==
    ASSUME TypeOK, TypeOK', ListsFresh, [Next]_vars
    PROVE  ListsFresh'
  <1> USE PublishedType
  <1>1. CASE Tick
    BY <1>1, ListsUnchanged, Zenon
       DEF Tick, lists, batchVars, worker, handler, evictor
  <1>2. ASSUME NEW m \in toAdd, AddToBatch(m) PROVE ListsFresh'
    BY <1>2, ListsUnchanged, Zenon
       DEF AddToBatch, lists, batchVars, worker, handler, evictor
  <1>3. CASE Receive
    <2>1. /\ UNCHANGED <<batches, snap, evicted, epc, ekey, created>>
          /\ hpc \notin {"create", "link"} /\ hpc' \notin {"create", "link"}
      BY <1>3, Zenon DEF Receive, HandlerDone, HandlerAt, worker, batchVars, evictor
    <2>2. Published = created /\ Published' = created
      BY <2>1, Zenon DEF Published
    <2> QED
      BY <2>1, <2>2, ListsHandler, Zenon
  <1>4. CASE FlushEmerge
    <2>1. /\ UNCHANGED <<batches, snap, evicted, epc, ekey, created>>
          /\ hpc \notin {"create", "link"} /\ hpc' \notin {"create", "link"}
      BY <1>4, Zenon DEF FlushEmerge, EmergeDone, HandlerDone, HandlerAt, worker, batchVars, evictor
    <2>2. Published = created /\ Published' = created
      BY <2>1 DEF Published
    <2> QED
      BY <2>1, <2>2, ListsHandler
  <1>5. CASE Lookup
    <2>1. /\ UNCHANGED <<batches, snap, evicted, epc, ekey, created>>
          /\ hpc \notin {"create", "link"} /\ hpc' \notin {"create", "link"}
      BY <1>5, Zenon DEF Lookup, HandlerDone, HandlerAt, worker, batchVars, evictor
    <2>2. Published = created /\ Published' = created
      BY <2>1 DEF Published
    <2> QED
      BY <2>1, <2>2, ListsHandler
  <1>6. CASE NewBatches
    <2> DEFINE n == BatchNum[hmsg.port]
    <2>1. n \in Nat \ {0}
      BY <1>6, MsgType, AggAssumption, Zenon DEF NewBatches, TypeOK, HandlerType, AggAssumption
    <2>2. created' = created + n /\ hpc = "alloc" /\ hpc' = "create" /\ hmsg' = hmsg
      BY <1>6, Zenon DEF NewBatches, Allocate, HandlerAt
    <2>3. Published = created /\ Published' = created
      BY <2>1, <2>2 DEF Published
    <2> QED
      BY <1>6, <2>2, <2>3, ListsHandler, Zenon DEF NewBatches, worker, evictor
  <1>7. CASE CreateBatches
    <2> DEFINE k == hmsg.routingKey
    <2> DEFINE n == BatchNum[hmsg.port]
    <2> DEFINE s == [i \in 1 .. n |-> created - n + i]
    <2>1. hmsg \in Msgs /\ k \in Keys /\ n \in Nat \ {0} /\ created >= n /\ created \in Nat
      BY <1>7, MsgType, AggAssumption, Zenon DEF CreateBatches, TypeOK, HandlerType, AggAssumption
    <2>2. /\ created' = created /\ hpc = "create" /\ hpc' = "append"
          /\ UNCHANGED <<snap, evicted, epc, ekey>>
      BY <1>7, Zenon DEF CreateBatches, HandlerAt, batchVars, evictor
    <2>3. Published = created - n /\ Published' = created
      BY <2>1, <2>2, Zenon DEF Published
    <2>4. CASE batches[k] = <<>>
      <3>1. batches' = [batches EXCEPT ![k] = s]
        BY <1>7, <2>4, Zenon DEF CreateBatches
      <3>2. s = [i \in 1 .. n |-> created - n + i]
        BY Zenon
      <3> HIDE DEF s, k, n
      <3>3. /\ s \in Seq(BatchIds)
            /\ \A x \in DOMAIN s : s[x] \in Int /\ s[x] > created - n /\ s[x] <= created
            /\ \A x, y \in DOMAIN s : s[x] = s[y] => x = y
        <4>1. created <= MaxBatches /\ MaxBatches \in Nat
          BY AggAssumption, SMTT(40) DEF TypeOK, BatchType, AggAssumption
        <4>2. \A i \in 1 .. n : created - n + i \in BatchIds
          BY <2>1, <4>1 DEF BatchIds
        <4> QED
          BY <2>1, <3>2, <4>2, LastIds
      <3>4. \A x \in DOMAIN s : s[x] \in Int /\ s[x] > Published /\ s[x] <= Published'
        BY <2>3, <3>3, Zenon
      <3>5. Published \in Int /\ Published' \in Int /\ Published <= Published' /\ hpc' # "link"
        BY <2>1, <2>2, <2>3
      <3>6. \A x \in DOMAIN s : s[x] \notin Listed(batches) \cup Listed(snap) \cup evicted
        BY <3>4, <3>5, ListsBelow
      <3>7. \A x \in DOMAIN s :
                \/ \E y \in DOMAIN batches[k] : batches[k][y] = s[x]
                \/ s[x] \notin Listed(batches) \cup Listed(snap) \cup evicted /\ s[x] <= Published'
        BY <3>4, <3>6, Zenon
      <3> QED
        BY <2>1, <2>2, <3>1, <3>3, <3>5, <3>7, ListsGrow, Zenon
    <2>5. CASE batches[k] # <<>>
      <3>1. batches' = batches
        BY <1>7, <2>1, <2>5, Zenon DEF CreateBatches, TypeOK, WorkerType
      <3> QED
        BY <2>1, <2>2, <2>3, <3>1, ListsHandler
    <2> QED
      BY <2>4, <2>5, Zenon
  <1>8. CASE AppendToBatch
    <2>1. /\ UNCHANGED <<batches, snap, evicted, epc, ekey, created>>
          /\ hpc \notin {"create", "link"} /\ hpc' \notin {"create", "link"}
      BY <1>8, Zenon DEF AppendToBatch, PutMessage, Schedule, HandlerDone, HandlerAt, worker, batchVars, evictor
    <2>2. Published = created /\ Published' = created
      BY <2>1 DEF Published
    <2> QED
      BY <2>1, <2>2, ListsHandler
  <1>9. CASE ReplaceBatch
    <2>1. /\ created' = created + 1 /\ hpc = "append" /\ hpc' = "link" /\ hb' = created + 1
      BY <1>9, Zenon DEF ReplaceBatch, Allocate, HandlerAt
    <2>2. Published = created /\ Published' = created
      BY <2>1 DEF Published
    <2> QED
      BY <1>9, <2>1, <2>2, ListsHandler, Zenon DEF ReplaceBatch, worker, evictor
  <1>10. CASE LinkBatch
    <2> DEFINE k == hmsg.routingKey
    <2> DEFINE s == Append(batches[k], hb)
    <2>1. k \in Keys /\ created \in Nat /\ hb = created /\ hb \in BatchIds
      BY <1>10, MsgType, Zenon DEF LinkBatch, TypeOK, HandlerType, ListsFresh
    <2>2. /\ created' = created /\ hpc = "link" /\ hpc' \in {"idle", "item"}
          /\ UNCHANGED <<snap, evicted, epc, ekey>>
          /\ batches' = [batches EXCEPT ![k] = s]
      BY <1>10, Zenon DEF LinkBatch, Schedule, HandlerDone, HandlerAt, evictor
    <2>3. Published = created - 1 /\ Published' = created
      BY <2>1, <2>2, Zenon DEF Published
    <2>4. hb \notin Listed(batches) \cup Listed(snap) \cup evicted
      <3>1. \A b \in Listed(batches) \cup Listed(snap) \cup evicted : b <= Published
        BY Zenon DEF ListsFresh
      <3>2. ~(hb <= Published)
        BY <2>1, <2>3
      <3> QED
        BY <3>1, <3>2, Zenon
    <2>5. batches[k] \in Seq(BatchIds) /\ s \in Seq(BatchIds)
      BY <2>1 DEF TypeOK, WorkerType
    <2>6. \A x \in DOMAIN s :
              \/ s[x] = hb /\ x = Len(s)
              \/ x \in DOMAIN batches[k] /\ s[x] = batches[k][x]
      <3>1. Len(s) = Len(batches[k]) + 1 /\ DOMAIN s = 1 .. Len(s) /\ s[Len(s)] = hb
        BY <2>1, <2>5
      <3>2. \A x \in 1 .. Len(batches[k]) : s[x] = batches[k][x] /\ x \in DOMAIN batches[k]
        BY <2>1, <2>5
      <3>3. Len(batches[k]) \in Nat
        BY <2>5
      <3> HIDE DEF s, k
      <3> TAKE x \in DOMAIN s
      <3>4. CASE x = Len(s)
        BY <3>1, <3>4, Zenon
      <3>5. CASE x # Len(s)
        <4>1. x \in 1 .. Len(batches[k])
          BY <3>1, <3>3, <3>5
        <4> QED
          BY <3>2, <4>1, Zenon
      <3> QED
        BY <3>4, <3>5, Zenon
    <2>7. \A x \in DOMAIN batches[k] : batches[k][x] \in Listed(batches)
      BY <2>1, <2>5 DEF Listed
    <2>8. \A x, y \in DOMAIN s : s[x] = s[y] => x = y
      <3>1. hb \in BatchIds /\ k \in Keys
        BY <2>1, Zenon
      <3>2. \A x, y \in DOMAIN batches[k] : batches[k][x] = batches[k][y] => x = y
        <4>1. Distinct(batches)
          BY Zenon DEF ListsFresh
        <4> HIDE DEF k
        <4> QED
          BY <3>1, <4>1, DistinctList, Zenon
      <3>3. \A x \in DOMAIN batches[k] : batches[k][x] # hb
        BY <2>4, <2>7, Zenon
      <3> HIDE DEF k
      <3> QED
        BY <2>5, <3>1, <3>2, <3>3, AppendDistinct, Zenon
    <2>9. /\ Published \in Int /\ Published' \in Int /\ Published <= Published'
          /\ hpc' # "link" /\ hb <= Published'
      BY <2>1, <2>2, <2>3
    <2>10. \A x \in DOMAIN s :
             \/ \E y \in DOMAIN batches[k] : batches[k][y] = s[x]
             \/ s[x] \notin Listed(batches) \cup Listed(snap) \cup evicted /\ s[x] <= Published'
      BY <2>4, <2>6, <2>9, Zenon
    <2> HIDE DEF s, k
    <2> QED
      BY <2>1, <2>2, <2>5, <2>8, <2>9, <2>10, ListsGrow, Zenon
  <1>11. CASE NewItem
    <2>1. /\ UNCHANGED <<batches, snap, evicted, epc, ekey, created>>
          /\ hpc \notin {"create", "link"} /\ hpc' \notin {"create", "link"}
      BY <1>11, Zenon DEF NewItem, HandlerDone, HandlerAt, worker, batchVars, evictor
    <2>2. Published = created /\ Published' = created
      BY <2>1 DEF Published
    <2> QED
      BY <2>1, <2>2, ListsHandler
  <1>12. CASE PushItem
    <2>1. /\ UNCHANGED <<batches, snap, evicted, epc, ekey, created>>
          /\ hpc \notin {"create", "link"} /\ hpc' \notin {"create", "link"}
      BY <1>12, Zenon DEF PushItem, HandlerDone, HandlerAt, worker, batchVars, evictor
    <2>2. Published = created /\ Published' = created
      BY <2>1 DEF Published
    <2> QED
      BY <2>1, <2>2, ListsHandler
  <1>13. CASE AssignItem
    <2>1. /\ UNCHANGED <<batches, snap, evicted, epc, ekey, created>>
          /\ hpc \notin {"create", "link"} /\ hpc' \notin {"create", "link"}
      BY <1>13, Zenon DEF AssignItem, HandlerDone, HandlerAt, worker, batchVars, evictor
    <2>2. Published = created /\ Published' = created
      BY <2>1 DEF Published
    <2> QED
      BY <2>1, <2>2, ListsHandler
  <1>14. CASE StartCheck
    BY <1>14, ListsUnchanged, Zenon
       DEF StartCheck, lists, batchVars, worker, handler, evictor
  <1>15. CASE PopExpired
    BY <1>15, ListsUnchanged, Zenon
       DEF PopExpired, lists, batchVars, worker, handler, evictor
  <1>16. ASSUME NEW b \in expired, Serialize(b) PROVE ListsFresh'
    BY <1>16, ListsUnchanged, Zenon
       DEF Serialize, lists, batchVars, worker, handler, evictor
  <1>17. CASE FlushNext
    BY <1>17, ListsUnchanged, Zenon
       DEF FlushNext, lists, batchVars, worker, handler, evictor
  <1>18. ASSUME NEW p \in sending, SendOk(p) PROVE ListsFresh'
    BY <1>18, ListsUnchanged, Zenon
       DEF SendOk, lists, batchVars, worker, handler, evictor
  <1>19. ASSUME NEW p \in sending, SendError(p) PROVE ListsFresh'
    BY <1>19, ListsUnchanged, Zenon
       DEF SendError, lists, batchVars, worker, handler, evictor
  <1>20. CASE EvictCopy
    BY <1>20 DEF EvictCopy, ListsFresh, Listed, Distinct, Published, WMuFree, worker, batchVars, handler
  <1>21. ASSUME NEW k \in Keys, EvictSkip(k) PROVE ListsFresh'
    <2>1. snap' = [snap EXCEPT ![k] = <<>>] /\ WMuFree /\ evicted' = evicted
      BY <1>21, Zenon DEF EvictSkip, WMuFree
    <2>2. UNCHANGED <<batches, created, hpc, hmsg, hb>>
      BY <1>21, Zenon DEF EvictSkip, worker, batchVars, handler
    <2>3. <<>> \in Seq(BatchIds) /\ DOMAIN <<>> = {}
      OBVIOUS
    <2> QED
      BY <2>1, <2>2, <2>3, CopyShrinks, Zenon
  <1>22. ASSUME NEW k \in Keys, EvictMark(k) PROVE ListsFresh'
    BY <1>22 DEF EvictMark, ListsFresh, Listed, Distinct, Published, WMuFree, worker, batchVars, handler
  <1>23. CASE EvictLock
    BY <1>23 DEF EvictLock, ListsFresh, Listed, Distinct, Published, WMuFree, worker, batchVars, handler
  <1>24. ASSUME ekey \in Keys, snap[ekey] # <<>>, ~WMuFree', ekey' = ekey,
                snap' = [snap EXCEPT ![ekey] = Tail(@)],
                evicted' \subseteq evicted \cup {Head(snap[ekey])},
                UNCHANGED <<batches, created, hpc, hmsg, hb>>
         PROVE  ListsFresh'
    <2> DEFINE list == snap[ekey]
    <2> DEFINE s == Tail(list)
    <2>1. ekey \in Keys /\ list \in Seq(BatchIds) /\ list # <<>> /\ s \in Seq(BatchIds)
      <3>1. list \in Seq(BatchIds) /\ list # <<>>
        BY <1>24, Zenon DEF TypeOK, EvictorType
      <3> QED
        BY <1>24, <3>1
    <2>2. /\ snap' = [snap EXCEPT ![ekey] = s] /\ ~WMuFree' /\ ekey' = ekey
          /\ evicted' \subseteq evicted \cup {Head(list)}
          /\ UNCHANGED <<batches, created, hpc, hmsg, hb>>
      BY <1>24, Zenon
    <2>3. \A x \in DOMAIN s : x + 1 \in DOMAIN list /\ s[x] = list[x + 1] /\ x \in Nat
      BY <2>1
    <2>4. Head(list) = list[1] /\ 1 \in DOMAIN list
      BY <2>1, SMTT(20)
    <2>5. \A x, y \in DOMAIN list : list[x] = list[y] => x = y
      BY <2>1, Zenon DEF ListsFresh, Distinct
    <2>6. \A x \in DOMAIN list : list[x] \notin evicted
      <3>1. Listed(snap) \cap evicted = {}
        BY Zenon DEF ListsFresh
      <3>2. \A x \in DOMAIN list : list[x] \in BatchIds
        BY <2>1
      <3>3. \A x \in DOMAIN list : list[x] \in Listed(snap)
        BY <2>1, <3>2, Zenon DEF Listed
      <3> QED
        BY <3>1, <3>3, Zenon
    <2>7. \A x \in DOMAIN s : s[x] # Head(list) /\ s[x] \notin evicted'
      BY <2>2, <2>3, <2>4, <2>5, <2>6
    <2>8. \A x, y \in DOMAIN s : s[x] = s[y] => x = y
      BY <2>3, <2>5, SMTT(40)
    <2>9. \A x \in DOMAIN s : \E y \in DOMAIN list : list[y] = s[x]
      BY <2>3, Zenon
    <2>10. evicted' \subseteq evicted \cup {list[y] : y \in DOMAIN list}
      BY <2>2, <2>4, Zenon
    <2> HIDE DEF s
    <2> QED
      BY <2>1, <2>2, <2>7, <2>8, <2>9, <2>10, CopyShrinks, Zenon
  <1>27. CASE EvictTest
    <2>1. ekey \in Keys /\ snap[ekey] # <<>> /\ ~WMuFree' /\ ekey' = ekey
      BY <1>27, Zenon DEF EvictTest, TypeOK, EvictorType, WMuFree
    <2>2. UNCHANGED <<batches, created, hpc, hmsg, hb, evicted>>
      BY <1>27, Zenon DEF EvictTest, worker, batchVars, handler
    <2>3. CASE snap' = snap
      <3>1. ~WMuFree /\ snap' = snap
        BY <1>27, <2>3, Zenon DEF EvictTest, WMuFree
      <3> QED
        BY <2>1, <2>2, <3>1, ListsStill, Zenon
    <2>4. CASE snap' = [snap EXCEPT ![ekey] = Tail(@)]
      BY <1>24, <2>1, <2>2, <2>4, Zenon
    <2> QED
      BY <1>27, <2>3, <2>4, Zenon DEF EvictTest
  <1>28. CASE EvictItem
    <2>1. ekey \in Keys /\ snap[ekey] # <<>> /\ ~WMuFree /\ ~WMuFree' /\ ekey' = ekey
      BY <1>28, Zenon DEF EvictItem, TypeOK, EvictorType, WMuFree
    <2>2. UNCHANGED <<batches, created, hpc, hmsg, hb>>
      BY <1>28, Zenon DEF EvictItem, batchVars, handler
    <2>3. CASE UNCHANGED <<snap, evicted>>
      BY <2>1, <2>2, <2>3, ListsStill, Zenon
    <2>4. CASE snap' = [snap EXCEPT ![ekey] = Tail(@)] /\ evicted' = evicted \cup {Head(snap[ekey])}
      BY <1>24, <2>1, <2>2, <2>4, Zenon
    <2> QED
      BY <1>28, <2>3, <2>4, Zenon DEF EvictItem
  <1>25. CASE EvictKey
    <2>1. /\ ekey \in Keys /\ epc = "remove" /\ batches' = [batches EXCEPT ![ekey] = <<>>]
          /\ UNCHANGED <<snap, evicted, created, hpc, hmsg, hb>>
      BY <1>25, Zenon DEF EvictKey, TypeOK, EvictorType, batchVars, handler
    <2>2. batches \in [Keys -> Seq(BatchIds)] /\ batches'[ekey] = <<>>
      BY <2>1, Zenon DEF TypeOK, WorkerType
    <2>3. \A j \in Keys \ {ekey} : batches'[j] = batches[j]
      BY <2>1, <2>2, Zenon
    <2>4. Published' = Published /\ Listed(snap') = Listed(snap) /\ Distinct(snap')
      <3>1. Published' = Published
        BY <2>1, Zenon DEF Published
      <3> QED
        BY <2>1, <3>1, SnapSame, Zenon
    <2>5. Listed(batches') \subseteq Listed(batches)
      BY <2>2, <2>3 DEF Listed
    <2>6. \A j \in Keys : \A x \in DOMAIN batches'[j] :
              j # ekey /\ x \in DOMAIN batches[j] /\ batches'[j][x] = batches[j][x]
      <3>1. DOMAIN <<>> = {}
        OBVIOUS
      <3> QED
        BY <2>2, <2>3, <3>1, Zenon
    <2>7. Distinct(batches')
      <3>1. Distinct(batches)
        BY DEF ListsFresh
      <3> QED
        BY <2>6, <3>1, LessDistinct, Zenon
    <2>8. \A j \in Keys : \A x \in DOMAIN batches'[j] : batches'[j][x] \notin evicted'
      <3>1. \A j \in Keys : \A x \in DOMAIN batches[j] : batches[j][x] \in evicted => ekey = j
        BY Zenon DEF ListsFresh
      <3>2. evicted' = evicted
        BY <2>1, Zenon
      <3> QED
        BY <2>6, <3>1, <3>2, Zenon
    <2>9. \A i, j \in Keys : \A x \in DOMAIN snap'[i], y \in DOMAIN batches'[j] :
              snap'[i][x] = batches'[j][y] => i = j
      <3>1. \A i, j \in Keys : \A x \in DOMAIN snap[i], y \in DOMAIN batches[j] :
                snap[i][x] = batches[j][y] => i = j
        BY Zenon DEF ListsFresh
      <3>2. snap' = snap
        BY <2>1, Zenon
      <3>3. \A i, j \in Keys : \A x \in DOMAIN snap[i], y \in DOMAIN batches'[j] :
                snap[i][x] = batches'[j][y] => i = j
        <4> TAKE i, j \in Keys
        <4> TAKE x \in DOMAIN snap[i], y \in DOMAIN batches'[j]
        <4>1. y \in DOMAIN batches[j] /\ batches'[j][y] = batches[j][y]
          BY <2>6, Zenon
        <4> QED
          BY <3>1, <4>1, Zenon
      <3> QED
        BY <3>2, <3>3, SMTT(20)
    <2> QED
      BY <2>1, <2>4, <2>5, <2>7, <2>8, <2>9, Zenon DEF ListsFresh
  <1>26. CASE UNCHANGED vars
    BY <1>26, ListsUnchanged, Zenon DEF vars, lists, batchVars, worker, handler, evictor
  <1> QED
    BY <1>1, <1>2, <1>3, <1>4, <1>5, <1>6, <1>7, <1>8, <1>9, <1>10, <1>11, <1>12,
       <1>13, <1>14, <1>15, <1>16, <1>17, <1>18, <1>19, <1>20, <1>21, <1>22, <1>23, <1>25, <1>26, <1>27,
       <1>28, ZenonT(60)
       DEF Next, Handler, Timer, Sender, Evictor

-----------------------------------------------------------------------------
\* Places: where a message is.

Stages == {"add", "chan", "hand", "batch", "toSend", "packet", "dropped"}
Handling == {"flush", "lookup", "alloc", "create", "append", "link"}

\* Messages m that are somewhere: in a list, in the batches, in packets.
InList(m, ms) == \E i \in DOMAIN ms : ms[i] = m
InBatch(m, hs) == \E b \in BatchIds : InList(m, hs[b])
InQueue(m, ps) == \E j \in DOMAIN ps : InList(m, ps[j].msgs)
InSome(m, ps) == \E p \in ps : InList(m, p.msgs)

\* Message m is at stage s of its way; each message is at exactly one.
At(m, s) ==
    \/ s = "add" /\ m \in toAdd
    \/ s = "chan" /\ InList(m, inputChan)
    \/ s = "hand" /\ hpc \in Handling /\ hmsg = m
    \/ s = "batch" /\ InBatch(m, held)
    \/ s = "toSend" /\ InQueue(m, toSend)
    \/ s = "packet" /\ InSome(m, sending \cup sent)
    \/ s = "dropped" /\ m \in dropped

Tracked == \A m \in Msgs : \E s \in Stages : \A t \in Stages : At(m, t) <=> t = s

\* No message is at two places of one stage.
Once(ms) == \A i, j \in DOMAIN ms : ms[i] = ms[j] => i = j
OnceInBatches(hs) ==
    \A b, c \in BatchIds : \A i \in DOMAIN hs[b], j \in DOMAIN hs[c] :
        hs[b][i] = hs[c][j] => b = c /\ i = j
OnceInQueue(ps) ==
    \A k, l \in DOMAIN ps : \A i \in DOMAIN ps[k].msgs, j \in DOMAIN ps[l].msgs :
        ps[k].msgs[i] = ps[l].msgs[j] => k = l /\ i = j
OnceInSome(ps) ==
    \A p, q \in ps : \A i \in DOMAIN p.msgs, j \in DOMAIN q.msgs :
        p.msgs[i] = q.msgs[j] => p = q /\ i = j

OnceInv ==
    /\ Once(inputChan) /\ OnceInBatches(held) /\ OnceInQueue(toSend)
    /\ OnceInSome(sending \cup sent) /\ \A p \in sending \cap sent : p.msgs = <<>>

\* The indices of a sequence that has grown at its end or lost its front.
LEMMA AppendIndices ==
    ASSUME NEW S, NEW s \in Seq(S), NEW e \in S
    PROVE  \E x \in Nat :
               /\ DOMAIN Append(s, e) = DOMAIN s \cup {x} /\ x \notin DOMAIN s
               /\ Append(s, e)[x] = e
               /\ \A i \in DOMAIN s : Append(s, e)[i] = s[i]
  <1>1. Len(s) \in Nat /\ DOMAIN s = 1 .. Len(s)
    OBVIOUS
  <1>2. /\ DOMAIN Append(s, e) = 1 .. Len(s) + 1 /\ Append(s, e)[Len(s) + 1] = e
        /\ \A i \in 1 .. Len(s) : Append(s, e)[i] = s[i]
    OBVIOUS
  <1>3. 1 .. Len(s) + 1 = (1 .. Len(s)) \cup {Len(s) + 1} /\ Len(s) + 1 \notin 1 .. Len(s)
    BY ONLY <1>1
  <1>4. Len(s) + 1 \in Nat
    BY <1>1
  <1> QED
    BY ONLY <1>1, <1>2, <1>3, <1>4, Zenon

LEMMA TailIndices ==
    ASSUME NEW S, NEW s \in Seq(S), s # <<>>
    PROVE  /\ 1 \in DOMAIN s /\ Head(s) = s[1]
           /\ \A i \in DOMAIN Tail(s) :
                  i + 1 \in DOMAIN s /\ i + 1 # 1 /\ Tail(s)[i] = s[i + 1]
           /\ \A i \in DOMAIN s : i = 1 \/ \E j \in DOMAIN Tail(s) : i = j + 1
           /\ \A i, j \in DOMAIN Tail(s) : i + 1 = j + 1 => i = j
  <1>1. Len(s) \in Nat /\ Len(s) # 0 /\ DOMAIN s = 1 .. Len(s)
    OBVIOUS
  <1>2. DOMAIN Tail(s) = 1 .. Len(s) - 1
    OBVIOUS
  <1>3. 1 \in DOMAIN s /\ Head(s) = s[1]
    OBVIOUS
  <1>4. \A i \in DOMAIN Tail(s) : i + 1 \in DOMAIN s /\ Tail(s)[i] = s[i + 1]
    OBVIOUS
  <1>5. \A i \in DOMAIN Tail(s) : i \in Nat /\ i + 1 # 1
    BY <1>1, <1>2
  <1>6. \A i, j \in DOMAIN Tail(s) : i + 1 = j + 1 => i = j
    BY ONLY <1>5
  <1>7. ASSUME NEW i \in DOMAIN s, i # 1 PROVE \E j \in DOMAIN Tail(s) : i = j + 1
    <2>1. i - 1 \in DOMAIN Tail(s) /\ i = (i - 1) + 1
      BY <1>1, <1>2, <1>7
    <2> QED
      BY <2>1, Zenon
  <1> QED
    BY ONLY <1>3, <1>4, <1>5, <1>6, <1>7, Zenon

\* What is in a list after an element is added at its end or taken from its front.
LEMMA ListGrows ==
    ASSUME NEW s \in Seq(Msgs), NEW e \in Msgs
    PROVE  /\ \A m : InList(m, Append(s, e)) <=> InList(m, s) \/ m = e
           /\ Once(s) /\ ~InList(e, s) => Once(Append(s, e))
  <1>1. PICK x \in Nat :
               /\ DOMAIN Append(s, e) = DOMAIN s \cup {x} /\ x \notin DOMAIN s
               /\ Append(s, e)[x] = e
               /\ \A i \in DOMAIN s : Append(s, e)[i] = s[i]
    BY AppendIndices
  <1> QED
    BY ONLY <1>1, Zenon DEF InList, Once

LEMMA ListShrinks ==
    ASSUME NEW s \in Seq(Msgs), s # <<>>
    PROVE  /\ \A m : InList(m, s) <=> InList(m, Tail(s)) \/ m = Head(s)
           /\ Once(s) => Once(Tail(s)) /\ ~InList(Head(s), Tail(s))
  <1>1. /\ 1 \in DOMAIN s /\ Head(s) = s[1]
        /\ \A i \in DOMAIN Tail(s) :
               i + 1 \in DOMAIN s /\ i + 1 # 1 /\ Tail(s)[i] = s[i + 1]
        /\ \A i \in DOMAIN s : i = 1 \/ \E j \in DOMAIN Tail(s) : i = j + 1
        /\ \A i, j \in DOMAIN Tail(s) : i + 1 = j + 1 => i = j
    BY TailIndices, Zenon
  <1>2. \A m : InList(m, s) <=> InList(m, Tail(s)) \/ m = Head(s)
    BY ONLY <1>1 DEF InList
  <1>3. Once(s) => Once(Tail(s)) /\ ~InList(Head(s), Tail(s))
    BY ONLY <1>1 DEF InList, Once
  <1> QED
    BY <1>2, <1>3, Zenon

\* The same for the queue of serialized packets.
LEMMA QueueGrows ==
    ASSUME NEW q \in Seq(Packets), NEW p \in Packets
    PROVE  /\ \A m : InQueue(m, Append(q, p)) <=> InQueue(m, q) \/ InList(m, p.msgs)
           /\ /\ OnceInQueue(q) /\ Once(p.msgs)
              /\ \A i \in DOMAIN p.msgs : ~InQueue(p.msgs[i], q)
              => OnceInQueue(Append(q, p))
  <1>1. PICK x \in Nat :
               /\ DOMAIN Append(q, p) = DOMAIN q \cup {x} /\ x \notin DOMAIN q
               /\ Append(q, p)[x] = p
               /\ \A i \in DOMAIN q : Append(q, p)[i] = q[i]
    BY AppendIndices
  <1>2. \A m : InQueue(m, Append(q, p)) <=> InQueue(m, q) \/ InList(m, p.msgs)
    BY ONLY <1>1, Zenon DEF InQueue
  <1>3. ASSUME OnceInQueue(q), Once(p.msgs), \A i \in DOMAIN p.msgs : ~InQueue(p.msgs[i], q)
        PROVE  OnceInQueue(Append(q, p))
    <2>1. SUFFICES ASSUME NEW k \in DOMAIN Append(q, p), NEW l \in DOMAIN Append(q, p),
                          NEW i \in DOMAIN Append(q, p)[k].msgs,
                          NEW j \in DOMAIN Append(q, p)[l].msgs,
                          Append(q, p)[k].msgs[i] = Append(q, p)[l].msgs[j]
                   PROVE  k = l /\ i = j
      BY ZenonT(60) DEF OnceInQueue
    <2>2. CASE k \in DOMAIN q /\ l \in DOMAIN q
      BY ONLY <1>1, <1>3, <2>1, <2>2, i \in DOMAIN Append(q, p)[k].msgs,
              j \in DOMAIN Append(q, p)[l].msgs DEF OnceInQueue
    <2>3. CASE k \in DOMAIN q /\ l = x
      BY ONLY <1>1, <1>3, <2>1, <2>3, i \in DOMAIN Append(q, p)[k].msgs,
              j \in DOMAIN Append(q, p)[l].msgs DEF InQueue, InList
    <2>4. CASE k = x /\ l \in DOMAIN q
      BY ONLY <1>1, <1>3, <2>1, <2>4, i \in DOMAIN Append(q, p)[k].msgs,
              j \in DOMAIN Append(q, p)[l].msgs DEF InQueue, InList
    <2>5. CASE k = x /\ l = x
      BY ONLY <1>1, <1>3, <2>1, <2>5, i \in DOMAIN Append(q, p)[k].msgs,
              j \in DOMAIN Append(q, p)[l].msgs, Zenon DEF Once
    <2> QED
      BY ONLY <1>1, <2>2, <2>3, <2>4, <2>5, k \in DOMAIN Append(q, p),
              l \in DOMAIN Append(q, p), Zenon
  <1> QED
    BY <1>2, <1>3, Zenon

LEMMA QueueShrinks ==
    ASSUME NEW q \in Seq(Packets), q # <<>>
    PROVE  /\ \A m : InQueue(m, q) <=> InQueue(m, Tail(q)) \/ InList(m, Head(q).msgs)
           /\ OnceInQueue(q) =>
                  /\ OnceInQueue(Tail(q)) /\ Once(Head(q).msgs)
                  /\ \A i \in DOMAIN Head(q).msgs : ~InQueue(Head(q).msgs[i], Tail(q))
  <1>1. /\ 1 \in DOMAIN q /\ Head(q) = q[1]
        /\ \A i \in DOMAIN Tail(q) :
               i + 1 \in DOMAIN q /\ i + 1 # 1 /\ Tail(q)[i] = q[i + 1]
        /\ \A i \in DOMAIN q : i = 1 \/ \E j \in DOMAIN Tail(q) : i = j + 1
        /\ \A i, j \in DOMAIN Tail(q) : i + 1 = j + 1 => i = j
    BY TailIndices, Zenon
  <1>2. \A m : InQueue(m, q) <=> InQueue(m, Tail(q)) \/ InList(m, Head(q).msgs)
    BY ONLY <1>1 DEF InQueue
  <1>3. ASSUME OnceInQueue(q) PROVE OnceInQueue(Tail(q))
    <2>1. SUFFICES ASSUME NEW k \in DOMAIN Tail(q), NEW l \in DOMAIN Tail(q),
                          NEW i \in DOMAIN Tail(q)[k].msgs, NEW j \in DOMAIN Tail(q)[l].msgs,
                          Tail(q)[k].msgs[i] = Tail(q)[l].msgs[j]
                   PROVE  k = l /\ i = j
      BY Zenon DEF OnceInQueue
    <2>2. /\ k + 1 \in DOMAIN q /\ l + 1 \in DOMAIN q
          /\ i \in DOMAIN q[k + 1].msgs /\ j \in DOMAIN q[l + 1].msgs
          /\ q[k + 1].msgs[i] = q[l + 1].msgs[j]
      BY ONLY <1>1, <2>1, k \in DOMAIN Tail(q), l \in DOMAIN Tail(q),
              i \in DOMAIN Tail(q)[k].msgs, j \in DOMAIN Tail(q)[l].msgs, Zenon
    <2>3. k + 1 = l + 1 /\ i = j
      BY ONLY <1>3, <2>2 DEF OnceInQueue
    <2> QED
      BY ONLY <1>1, <2>3, k \in DOMAIN Tail(q), l \in DOMAIN Tail(q), Zenon
  <1>4. ASSUME OnceInQueue(q) PROVE Once(Head(q).msgs)
    BY ONLY <1>1, <1>4 DEF OnceInQueue, Once
  <1>5. ASSUME OnceInQueue(q), NEW i \in DOMAIN Head(q).msgs
        PROVE  ~InQueue(Head(q).msgs[i], Tail(q))
    BY ONLY <1>1, <1>5 DEF OnceInQueue, InQueue, InList
  <1> QED
    BY <1>2, <1>3, <1>4, <1>5, Zenon

\* The same for a batch that takes a message, or is emptied.
LEMMA BatchGrows ==
    ASSUME NEW hs \in [BatchIds -> Seq(Msgs)], NEW b \in BatchIds, NEW e \in Msgs, NEW gs,
           gs[b] = Append(hs[b], e), \A c \in BatchIds : c # b => gs[c] = hs[c]
    PROVE  /\ \A m : InBatch(m, gs) <=> InBatch(m, hs) \/ m = e
           /\ OnceInBatches(hs) /\ ~InBatch(e, hs) => OnceInBatches(gs)
  <1>1. /\ gs[b] = Append(hs[b], e) /\ \A c \in BatchIds : c # b => gs[c] = hs[c]
        /\ hs[b] \in Seq(Msgs)
    BY Zenon
  <1>2. PICK x \in Nat :
               /\ DOMAIN gs[b] = DOMAIN hs[b] \cup {x} /\ x \notin DOMAIN hs[b]
               /\ gs[b][x] = e
               /\ \A i \in DOMAIN hs[b] : gs[b][i] = hs[b][i]
    BY <1>1, AppendIndices
  <1>3. \A m : InBatch(m, gs) <=> InBatch(m, hs) \/ m = e
    BY ONLY <1>1, <1>2, b \in BatchIds, ZenonT(60) DEF InBatch, InList
  <1>4. ASSUME OnceInBatches(hs), ~InBatch(e, hs) PROVE OnceInBatches(gs)
    <2>1. SUFFICES ASSUME NEW c \in BatchIds, NEW d \in BatchIds,
                          NEW i \in DOMAIN gs[c], NEW j \in DOMAIN gs[d], gs[c][i] = gs[d][j]
                   PROVE  c = d /\ i = j
      BY ZenonT(60) DEF OnceInBatches
    <2>2. \A k \in DOMAIN gs[c] : (k \in DOMAIN hs[c] /\ gs[c][k] = hs[c][k])
                                  \/ (c = b /\ k = x /\ gs[c][k] = e)
      BY ONLY <1>1, <1>2, c \in BatchIds, Zenon
    <2>3. \A k \in DOMAIN gs[d] : (k \in DOMAIN hs[d] /\ gs[d][k] = hs[d][k])
                                  \/ (d = b /\ k = x /\ gs[d][k] = e)
      BY ONLY <1>1, <1>2, d \in BatchIds, Zenon
    <2>4. \A a \in BatchIds : \A k \in DOMAIN hs[a] : hs[a][k] # e
      BY ONLY <1>4, Zenon DEF InBatch, InList
    <2>5. \A k \in DOMAIN hs[c], l \in DOMAIN hs[d] : hs[c][k] = hs[d][l] => c = d /\ k = l
      BY ONLY <1>4, c \in BatchIds, d \in BatchIds, Zenon DEF OnceInBatches
    <2> QED
      BY ONLY <2>1, <2>2, <2>3, <2>4, <2>5, c \in BatchIds, d \in BatchIds,
              i \in DOMAIN gs[c], j \in DOMAIN gs[d], ZenonT(60)
  <1> QED
    BY <1>3, <1>4, ZenonT(60)

LEMMA BatchEmptied ==
    ASSUME NEW hs \in [BatchIds -> Seq(Msgs)], NEW b \in BatchIds, NEW gs,
           gs = [hs EXCEPT ![b] = <<>>], OnceInBatches(hs)
    PROVE  /\ \A m : InBatch(m, gs) <=> InBatch(m, hs) /\ ~InList(m, hs[b])
           /\ OnceInBatches(gs) /\ Once(hs[b])
  <1>1. /\ DOMAIN gs[b] = {} /\ \A c \in BatchIds : c # b => gs[c] = hs[c]
    OBVIOUS
  <1>2. ASSUME NEW m PROVE InBatch(m, gs) <=> InBatch(m, hs) /\ ~InList(m, hs[b])
    <2>1. InList(m, hs[b]) => \A c \in BatchIds : InList(m, hs[c]) => c = b
      BY ONLY b \in BatchIds, OnceInBatches(hs), ZenonT(60) DEF InList, OnceInBatches
    <2>2. ~InList(m, gs[b]) /\ \A c \in BatchIds : c # b => (InList(m, gs[c]) <=> InList(m, hs[c]))
      BY ONLY <1>1, Zenon DEF InList
    <2> QED
      BY ONLY <2>1, <2>2, b \in BatchIds, Zenon DEF InBatch
  <1>3. OnceInBatches(gs) /\ Once(hs[b])
    BY ONLY <1>1, b \in BatchIds, OnceInBatches(hs) DEF OnceInBatches, Once
  <1> QED
    BY <1>2, <1>3, Zenon

\* A step leaves message m where it is, or moves it from one stage to another.
Steady(m) == \A t \in Stages : At(m, t)' <=> At(m, t)
Moved(m, from, to) ==
    /\ At(m, from) /\ ~At(m, from)' /\ At(m, to)'
    /\ \A t \in Stages \ {from, to} : At(m, t)' <=> At(m, t)

LEMMA TrackedStep ==
    ASSUME Tracked,
           \A m \in Msgs : Steady(m) \/ \E from, to \in Stages : Moved(m, from, to)
    PROVE  Tracked'
  <1>1. SUFFICES ASSUME NEW m \in Msgs
                 PROVE  \E s \in Stages : \A t \in Stages : At(m, t)' <=> t = s
    BY Zenon DEF Tracked, Stages
  <1>2. PICK s \in Stages : \A t \in Stages : At(m, t) <=> t = s
    BY Zenon DEF Tracked
  <1>3. CASE Steady(m)
    BY <1>2, <1>3, Zenon DEF Steady
  <1>4. ASSUME NEW from \in Stages, NEW to \in Stages, Moved(m, from, to)
        PROVE  \A t \in Stages : At(m, t)' <=> t = to
    BY <1>2, <1>4, Zenon DEF Moved
  <1> QED
    BY <1>3, <1>4, Zenon

\* A message is at one stage only.
LEMMA OneStage ==
    ASSUME Tracked, NEW m \in Msgs, NEW s \in Stages, At(m, s)
    PROVE  \A t \in Stages : t # s => ~At(m, t)
  BY Zenon DEF Tracked

\* Where each operation moves messages: AddToBatch to the channel,
LEMMA AddMoves ==
    ASSUME TypeOK, OnceInv, Tracked, NEW n \in toAdd, AddToBatch(n)
    PROVE  OnceInv' /\ Tracked'
  <1> n \in Msgs /\ inputChan \in Seq(Msgs)
    BY Zenon DEF TypeOK, InputType
  <1>1. /\ toAdd' = toAdd \ {n} /\ inputChan' = Append(inputChan, n)
        /\ UNCHANGED <<hpc, hmsg, held, toSend, sending, sent, dropped>>
    BY Zenon DEF AddToBatch, batchVars, handler, timer, out
  <1>2. At(n, "add") /\ ~InList(n, inputChan)
    <2>1. At(n, "add")
      BY Zenon DEF At
    <2>2. ~At(n, "chan")
      BY <2>1, OneStage, Zenon DEF Stages
    <2> QED
      BY <2>1, <2>2, Zenon DEF At
  <1>3. /\ \A m : InList(m, inputChan') <=> InList(m, inputChan) \/ m = n
        /\ Once(inputChan')
    BY <1>1, <1>2, ListGrows, Zenon DEF OnceInv
  <1>4. ASSUME NEW m \in Msgs, m # n PROVE Steady(m)
    BY <1>1, <1>3, <1>4 DEF Steady, At
  <1>5. Moved(n, "add", "chan")
    BY <1>1, <1>2, <1>3, Zenon DEF Moved, At
  <1>6. Tracked'
    BY <1>4, <1>5, TrackedStep, Zenon DEF Stages
  <1> QED
    BY <1>1, <1>3, <1>6, Zenon DEF OnceInv

\* the handler from the channel to its hand, unless it gives the message up,
LEMMA ReceiveMoves ==
    ASSUME TypeOK, OnceInv, Tracked, Receive
    PROVE  OnceInv' /\ Tracked'
  <1>0. inputChan \in Seq(Msgs) /\ inputChan # <<>>
    BY Zenon DEF TypeOK, InputType, Receive
  <1>1. PICK n \in Msgs : n = Head(inputChan)
    BY <1>0
  <1>2. /\ hpc = "idle" /\ inputChan' = Tail(inputChan)
        /\ \/ hpc' \in Handling /\ hmsg' = n /\ dropped' = dropped
           \/ hpc' = "idle" /\ dropped' = dropped \cup {n}
        /\ UNCHANGED <<toAdd, held, toSend, sending, sent>>
    BY <1>1, Zenon DEF Receive, HandlerAt, HandlerDone, batchVars, timer, Handling
  <1>3. /\ \A m : InList(m, inputChan) <=> InList(m, inputChan') \/ m = n
        /\ Once(inputChan') /\ ~InList(n, inputChan')
    BY <1>0, <1>1, <1>2, ListShrinks, Zenon DEF OnceInv
  <1>4. At(n, "chan")
    BY <1>3, Zenon DEF At
  <1>5. ~At(n, "dropped")
    BY <1>4, OneStage, Zenon DEF Stages
  <1>6. ASSUME NEW m \in Msgs, m # n PROVE Steady(m)
    BY <1>2, <1>3, <1>6, ZenonT(60) DEF Steady, At, Handling
  <1>7. Moved(n, "chan", "hand") \/ Moved(n, "chan", "dropped")
    BY <1>2, <1>3, <1>4, <1>5, ZenonT(60) DEF Moved, At, Handling
  <1>8. Tracked'
    BY <1>6, <1>7, TrackedStep, ZenonT(60) DEF Stages
  <1> QED
    BY <1>2, <1>3, <1>8, ZenonT(60) DEF OnceInv

\* from the hand to a packet of its own,
LEMMA EmergeMoves ==
    ASSUME TypeOK, OnceInv, Tracked, FlushEmerge
    PROVE  OnceInv' /\ Tracked'
  <1>0. PICK n \in Msgs : n = hmsg /\ hpc = "flush"
    BY Zenon DEF TypeOK, HandlerType, FlushEmerge
  <1>1. PICK p : p.msgs = <<n>> /\ sending' = sending \cup {p}
    BY <1>0, Zenon DEF FlushEmerge, Packet
  <1>2. hpc' = "idle" /\ UNCHANGED <<toAdd, inputChan, held, toSend, sent, dropped>>
    BY Zenon DEF FlushEmerge, EmergeDone, HandlerDone, input, batchVars, timer
  <1>3. At(n, "hand") /\ ~InSome(n, sending \cup sent)
    <2>1. At(n, "hand")
      BY <1>0, Zenon DEF At, Handling
    <2>2. ~At(n, "packet")
      BY <1>0, <2>1, OneStage, Zenon DEF Stages
    <2> QED
      BY <2>1, <2>2, Zenon DEF At
  <1>4. DOMAIN p.msgs = {1} /\ p.msgs[1] = n
    BY <1>1
  <1>5. \A m : InSome(m, sending' \cup sent') <=> InSome(m, sending \cup sent) \/ m = n
    BY <1>1, <1>2, <1>4, ZenonT(60) DEF InSome, InList
  <1>6. OnceInSome(sending' \cup sent')
    BY <1>1, <1>2, <1>3, <1>4 DEF InSome, InList, OnceInSome, OnceInv
  <1>7. \A q \in sending' \cap sent' : q.msgs = <<>>
    BY <1>1, <1>2, <1>3, <1>4, Zenon DEF InSome, InList, OnceInv
  <1>8. ASSUME NEW m \in Msgs, m # n PROVE Steady(m)
    BY <1>0, <1>2, <1>5, <1>8, ZenonT(60) DEF Steady, At, Handling
  <1>9. Moved(n, "hand", "packet")
    BY <1>0, <1>2, <1>3, <1>5, ZenonT(60) DEF Moved, At, Handling
  <1>10. Tracked'
    BY <1>0, <1>8, <1>9, TrackedStep, Zenon DEF Stages
  <1> QED
    BY <1>2, <1>6, <1>7, <1>10, Zenon DEF OnceInv

\* from the hand to a batch,
LEMMA PutMoves ==
    ASSUME TypeOK, OnceInv, Tracked, hpc \in {"append", "link"}, PutMessage(hb, hmsg),
           hpc' \in {"idle", "item"},
           UNCHANGED <<toAdd, inputChan, toSend, sending, sent, dropped>>
    PROVE  OnceInv' /\ Tracked'
  <1>0. PICK n \in Msgs : n = hmsg
    BY Zenon DEF TypeOK, HandlerType
  <1>1. hb \in BatchIds /\ held \in [BatchIds -> Seq(Msgs)]
    BY Zenon DEF TypeOK, HandlerType, BatchType
  <1>2. At(n, "hand") /\ ~InBatch(n, held)
    <2>1. At(n, "hand")
      BY <1>0, Zenon DEF At, Handling
    <2>2. ~At(n, "batch")
      BY <1>0, <2>1, OneStage, Zenon DEF Stages
    <2> QED
      BY <2>1, <2>2, Zenon DEF At
  <1>3. /\ \A m : InBatch(m, held') <=> InBatch(m, held) \/ m = n
        /\ OnceInBatches(held')
    <2>1. held'[hb] = Append(held[hb], n) /\ \A c \in BatchIds : c # hb => held'[c] = held[c]
      BY <1>0, <1>1, Zenon DEF PutMessage
    <2>2. OnceInBatches(held)
      BY Zenon DEF OnceInv
    <2> QED
      BY ONLY <1>1, <1>2, <2>1, <2>2, BatchGrows, n \in Msgs, Zenon
  <1>4. ASSUME NEW m \in Msgs, m # n PROVE Steady(m)
    BY <1>0, <1>3, <1>4 DEF Steady, At, Handling
  <1>5. Moved(n, "hand", "batch")
    BY <1>2, <1>3, Zenon DEF Moved, At, Handling
  <1>6. Tracked'
    BY <1>4, <1>5, TrackedStep, Zenon DEF Stages
  <1> QED
    BY <1>3, <1>6, Zenon DEF OnceInv

\* or given up when the fresh batch is too small for it,
LEMMA DropMoves ==
    ASSUME TypeOK, OnceInv, Tracked, hpc = "link", dropped' = dropped \cup {hmsg},
           hpc' \in {"idle", "item"},
           UNCHANGED <<toAdd, inputChan, held, toSend, sending, sent>>
    PROVE  OnceInv' /\ Tracked'
  <1>0. PICK n \in Msgs : n = hmsg
    BY Zenon DEF TypeOK, HandlerType
  <1>1. At(n, "hand")
    BY <1>0, Zenon DEF At, Handling
  <1>2. ASSUME NEW m \in Msgs, m # n PROVE Steady(m)
    BY <1>0, <1>2 DEF Steady, At, Handling
  <1>3. Moved(n, "hand", "dropped")
    BY <1>0, <1>1, ZenonT(60) DEF Moved, At, Handling
  <1>4. Tracked'
    BY <1>2, <1>3, TrackedStep, Zenon DEF Stages
  <1> QED
    BY <1>4, Zenon DEF OnceInv

\* the timer from a batch to a serialized packet,
LEMMA SerializeMoves ==
    ASSUME TypeOK, OnceInv, Tracked, NEW b \in BatchIds, Serialize(b)
    PROVE  OnceInv' /\ Tracked'
  <1>1. PICK p \in Packets : p.msgs = held[b] /\ toSend' = Append(toSend, p)
    <2>1. header[b] \in Headers \cup {None} /\ held[b] \in Seq(Msgs)
          /\ payloadLen[b] \in 0 .. Uint16 - 1
      BY ZenonT(60) DEF TypeOK, BatchType
    <2>2. Packet(header[b], held[b], payloadLen[b]) \in Packets
      BY <2>1, Uint16Nat, PacketType, ZenonT(60)
    <2> QED
      BY <2>2, Zenon DEF Serialize, Packet
  <1>2. /\ held \in [BatchIds -> Seq(Msgs)] /\ held' = [held EXCEPT ![b] = <<>>]
        /\ toSend \in Seq(Packets)
        /\ UNCHANGED <<toAdd, inputChan, hpc, hmsg, sending, sent, dropped>>
    BY Zenon DEF TypeOK, BatchType, TimerType, Serialize, ResetBatch, input, handler, out
  <1>3. OnceInBatches(held) /\ OnceInQueue(toSend)
    BY Zenon DEF OnceInv
  <1>4. /\ \A m : InBatch(m, held') <=> InBatch(m, held) /\ ~InList(m, held[b])
        /\ OnceInBatches(held') /\ Once(held[b])
    BY ONLY <1>2, <1>3, BatchEmptied, b \in BatchIds, Zenon
  <1>5. ASSUME NEW m \in Msgs, InList(m, held[b]) PROVE At(m, "batch") /\ ~InQueue(m, toSend)
    <2>1. At(m, "batch")
      BY <1>5, Zenon DEF At, InBatch
    <2>2. ~At(m, "toSend")
      BY <2>1, OneStage, ZenonT(60) DEF Stages
    <2> QED
      BY <2>1, <2>2, Zenon DEF At
  <1>6. \A i \in DOMAIN p.msgs : ~InQueue(p.msgs[i], toSend)
    BY <1>1, <1>2, <1>5 DEF InList
  <1>7. /\ \A m : InQueue(m, toSend') <=> InQueue(m, toSend) \/ InList(m, held[b])
        /\ OnceInQueue(toSend')
    BY ONLY <1>1, <1>2, <1>3, <1>4, <1>6, QueueGrows, Zenon
  <1>8. ASSUME NEW m \in Msgs, ~InList(m, held[b]) PROVE Steady(m)
    BY <1>2, <1>4, <1>7, <1>8, ZenonT(60) DEF Steady, At
  <1>9. ASSUME NEW m \in Msgs, InList(m, held[b]) PROVE Moved(m, "batch", "toSend")
    BY <1>2, <1>4, <1>5, <1>7, <1>9, ZenonT(60) DEF Moved, At
  <1>10. Tracked'
    BY <1>8, <1>9, TrackedStep, Zenon DEF Stages
  <1> QED
    BY <1>2, <1>4, <1>7, <1>10, Zenon DEF OnceInv

\* from a serialized packet to one that is being sent,
LEMMA FlushMoves ==
    ASSUME TypeOK, OnceInv, Tracked, FlushNext
    PROVE  OnceInv' /\ Tracked'
  <1>1. toSend \in Seq(Packets) /\ toSend # <<>>
    BY Zenon DEF TypeOK, TimerType, FlushNext
  <1>2. PICK p \in Packets : p = Head(toSend)
    BY <1>1
  <1>3. /\ toSend' = Tail(toSend) /\ sending' = sending \cup {p}
        /\ UNCHANGED <<toAdd, inputChan, hpc, hmsg, held, sent, dropped>>
    BY <1>2, Zenon DEF FlushNext, input, batchVars, handler
  <1>4. /\ \A m : InQueue(m, toSend) <=> InQueue(m, toSend') \/ InList(m, p.msgs)
        /\ OnceInQueue(toSend') /\ Once(p.msgs)
        /\ \A i \in DOMAIN p.msgs : ~InQueue(p.msgs[i], toSend')
    <2>1. OnceInQueue(toSend)
      BY Zenon DEF OnceInv
    <2> QED
      BY ONLY <1>1, <1>2, <1>3, <2>1, QueueShrinks, Zenon
  <1>5. ASSUME NEW m \in Msgs, InList(m, p.msgs)
        PROVE  At(m, "toSend") /\ ~InQueue(m, toSend') /\ ~InSome(m, sending \cup sent)
    <2>1. At(m, "toSend")
      BY <1>4, <1>5, Zenon DEF At
    <2>2. ~At(m, "packet")
      BY <2>1, OneStage, Zenon DEF Stages
    <2>3. ~InQueue(m, toSend')
      BY ONLY <1>4, <1>5, Zenon DEF InList
    <2> QED
      BY <2>1, <2>2, <2>3, Zenon DEF At
  <1>6. \A m : InSome(m, sending' \cup sent') <=> InSome(m, sending \cup sent) \/ InList(m, p.msgs)
    BY ONLY <1>3, Zenon DEF InSome
  <1>7. \A i \in DOMAIN p.msgs : p.msgs[i] \in Msgs /\ ~InSome(p.msgs[i], sending \cup sent)
    <2>1. p.msgs \in Seq(Msgs)
      BY Zenon DEF Packets
    <2>2. \A i \in DOMAIN p.msgs : p.msgs[i] \in Msgs /\ InList(p.msgs[i], p.msgs)
      BY ONLY <2>1 DEF InList
    <2> QED
      BY <1>5, <2>2, Zenon
  <1>8. OnceInSome(sending' \cup sent')
    <2>1. OnceInSome(sending \cup sent)
      BY Zenon DEF OnceInv
    <2>2. SUFFICES ASSUME NEW q \in sending' \cup sent', NEW r \in sending' \cup sent',
                          NEW i \in DOMAIN q.msgs, NEW j \in DOMAIN r.msgs,
                          q.msgs[i] = r.msgs[j]
                   PROVE  q = r /\ i = j
      BY Zenon DEF OnceInSome
    <2>3. CASE q \in sending \cup sent /\ r \in sending \cup sent
      BY ONLY <2>1, <2>2, <2>3, i \in DOMAIN q.msgs, j \in DOMAIN r.msgs, ZenonT(60) DEF OnceInSome
    <2>4. CASE q \in sending \cup sent /\ r = p
      BY ONLY <1>7, <2>2, <2>4, i \in DOMAIN q.msgs, j \in DOMAIN r.msgs, ZenonT(60) DEF InSome, InList
    <2>5. CASE q = p /\ r \in sending \cup sent
      BY ONLY <1>7, <2>2, <2>5, i \in DOMAIN q.msgs, j \in DOMAIN r.msgs, Zenon DEF InSome, InList
    <2>6. CASE q = p /\ r = p
      BY ONLY <1>4, <2>2, <2>6, i \in DOMAIN q.msgs, j \in DOMAIN r.msgs, Zenon DEF Once
    <2> QED
      BY <1>3, <2>3, <2>4, <2>5, <2>6, Zenon
  <1>9. \A q \in sending' \cap sent' : q.msgs = <<>>
    <2>1. SUFFICES ASSUME p \in sent PROVE p.msgs = <<>>
      BY <1>3, Zenon DEF OnceInv
    <2>2. DOMAIN p.msgs = {}
      BY <1>7, <2>1, Zenon DEF InSome, InList
    <2>3. p.msgs \in Seq(Msgs)
      BY DEF Packets
    <2>4. Len(p.msgs) \in Nat /\ DOMAIN p.msgs = 1 .. Len(p.msgs)
      BY ONLY <2>3
    <2>5. Len(p.msgs) # 0 => 1 \in DOMAIN p.msgs
      BY ONLY <2>4
    <2> QED
      BY ONLY <2>2, <2>3, <2>5
  <1>10. ASSUME NEW m \in Msgs, ~InList(m, p.msgs) PROVE Steady(m)
    BY <1>3, <1>4, <1>6, <1>10, ZenonT(60) DEF Steady, At
  <1>11. ASSUME NEW m \in Msgs, InList(m, p.msgs) PROVE Moved(m, "toSend", "packet")
    BY <1>3, <1>5, <1>6, <1>11, ZenonT(60) DEF Moved, At
  <1>12. Tracked'
    BY <1>10, <1>11, TrackedStep, Zenon DEF Stages
  <1> QED
    BY <1>3, <1>4, <1>8, <1>9, <1>12, Zenon DEF OnceInv

\* and a send that fails gives up the messages of its packet.
LEMMA ErrorMoves ==
    ASSUME TypeOK, OnceInv, Tracked, NEW p \in sending, SendError(p)
    PROVE  OnceInv' /\ Tracked'
  <1>1. /\ sending' = sending \ {p} /\ sent' = sent
        /\ dropped' = dropped \cup {p.msgs[i] : i \in DOMAIN p.msgs}
        /\ UNCHANGED <<toAdd, inputChan, hpc, hmsg, held, toSend>>
    BY Zenon DEF SendError, input, batchVars, handler, timer
  <1>2. \A m : m \in dropped' <=> m \in dropped \/ InList(m, p.msgs)
    BY <1>1, Zenon DEF InList
  <1>3. OnceInSome(sending \cup sent) /\ (p \in sent => p.msgs = <<>>)
    BY Zenon DEF OnceInv
  <1>4. ASSUME NEW m
        PROVE  InSome(m, sending' \cup sent') <=>
                   InSome(m, sending \cup sent) /\ ~InList(m, p.msgs)
    <2>1. InList(m, p.msgs) => \A q \in sending \cup sent : InList(m, q.msgs) => q = p
      BY ONLY <1>3, p \in sending, ZenonT(60) DEF InList, OnceInSome
    <2>2. InList(m, p.msgs) => p \notin sent
      BY <1>3 DEF InList
    <2> QED
      BY <1>1, <2>1, <2>2, ZenonT(60) DEF InSome
  <1>5. OnceInSome(sending' \cup sent') /\ \A q \in sending' \cap sent' : q.msgs = <<>>
    <2>1. sending' \cup sent' \subseteq sending \cup sent
      BY <1>1, Zenon
    <2>2. OnceInSome(sending' \cup sent')
      BY ONLY <1>3, <2>1, Zenon DEF OnceInSome
    <2> QED
      BY <1>1, <2>2, Zenon DEF OnceInv
  <1>6. ASSUME NEW m \in Msgs, ~InList(m, p.msgs) PROVE Steady(m)
    BY <1>1, <1>2, <1>4, <1>6, ZenonT(60) DEF Steady, At
  <1>7. ASSUME NEW m \in Msgs, InList(m, p.msgs) PROVE Moved(m, "packet", "dropped")
    <2>1. InSome(m, sending \cup sent)
      BY <1>7, ZenonT(60) DEF InSome
    <2> QED
      BY <1>1, <1>2, <1>4, <1>7, <2>1, ZenonT(60) DEF Moved, At
  <1>8. Tracked'
    BY <1>6, <1>7, TrackedStep, Zenon DEF Stages
  <1> QED
    BY <1>1, <1>5, <1>8, Zenon DEF OnceInv

\* Every other step leaves the messages where they are.
LEMMA MessagesStay ==
    ASSUME OnceInv, Tracked, hpc \in Handling <=> hpc' \in Handling,
           hpc \in Handling => hmsg' = hmsg, sending' \cup sent' = sending \cup sent,
           \A p \in sending' \cap sent' : p.msgs = <<>>,
           UNCHANGED <<toAdd, inputChan, held, toSend, dropped>>
    PROVE  OnceInv' /\ Tracked'
  <1>1. ASSUME NEW m \in Msgs PROVE Steady(m)
    BY ZenonT(60) DEF Steady, At
  <1>2. Tracked'
    BY <1>1, TrackedStep, ZenonT(60)
  <1> QED
    BY <1>2, Zenon DEF OnceInv

LEMMA TrackStep ==
    ASSUME TypeOK, OnceInv, Tracked, [Next]_vars
    PROVE  OnceInv' /\ Tracked'
  <1>0. \A p \in sending \cap sent : p.msgs = <<>>
    BY Zenon DEF OnceInv
  <1>1. CASE UNCHANGED vars
    BY <1>0, <1>1, MessagesStay, Zenon DEF vars, input, batchVars, handler, timer, out
  <1>2. CASE Tick
    BY <1>0, <1>2, MessagesStay, Zenon DEF Tick, batchVars, handler, timer, out
  <1>3. CASE \E m \in toAdd : AddToBatch(m)
    BY <1>3, AddMoves, Zenon
  <1>4. CASE Receive \/ FlushEmerge
    BY <1>4, ReceiveMoves, EmergeMoves, Zenon
  <1>5. CASE Lookup \/ NewBatches \/ CreateBatches \/ ReplaceBatch
    <2>1. /\ hpc \in Handling /\ hpc' \in Handling /\ hmsg' = hmsg
          /\ UNCHANGED <<toAdd, inputChan, held, toSend, sending, sent, dropped>>
      BY <1>5, Zenon DEF Lookup, NewBatches, CreateBatches, ReplaceBatch, Allocate, HandlerAt,
                  Handling, input, batchVars, timer, out
    <2> QED
      BY <1>0, <2>1, MessagesStay, Zenon
  <1>6. CASE AppendToBatch
    <2>1. /\ hpc = "append" /\ PutMessage(hb, hmsg) /\ hpc' \in {"idle", "item"}
          /\ UNCHANGED <<toAdd, inputChan, toSend, sending, sent, dropped>>
      BY <1>6, Zenon DEF AppendToBatch, Schedule, HandlerDone, HandlerAt, input, timer, out
    <2> QED
      BY <2>1, PutMoves, Zenon
  <1>7. CASE LinkBatch
    <2>1. /\ hpc = "link" /\ hpc' \in {"idle", "item"}
          /\ UNCHANGED <<toAdd, inputChan, toSend, sending, sent>>
          /\ \/ PutMessage(hb, hmsg) /\ dropped' = dropped
             \/ dropped' = dropped \cup {hmsg} /\ held' = held
      BY <1>7, Zenon DEF LinkBatch, Schedule, HandlerDone, HandlerAt, input, timer
    <2> QED
      BY <2>1, PutMoves, DropMoves, Zenon
  <1>8. CASE NewItem \/ PushItem \/ AssignItem
    <2>1. /\ hpc \notin Handling /\ hpc' \notin Handling
          /\ UNCHANGED <<toAdd, inputChan, held, toSend, sending, sent, dropped>>
      BY <1>8, Zenon DEF NewItem, PushItem, AssignItem, HandlerDone, HandlerAt, Handling, input,
                  batchVars, timer, out
    <2> QED
      BY <1>0, <2>1, MessagesStay, Zenon
  <1>9. CASE StartCheck \/ PopExpired
    BY <1>0, <1>9, MessagesStay, Zenon DEF StartCheck, PopExpired, input, batchVars, handler, out
  <1>10. CASE \E b \in expired : Serialize(b)
    BY <1>10, SerializeMoves, Zenon DEF TypeOK, TimerType
  <1>11. CASE FlushNext
    BY <1>11, FlushMoves, Zenon
  <1>12. ASSUME NEW p \in sending, SendOk(p) PROVE OnceInv' /\ Tracked'
    <2>1. /\ sending' = sending \ {p} /\ sent' = sent \cup {p}
          /\ UNCHANGED <<toAdd, inputChan, hpc, hmsg, held, toSend, dropped>>
      BY <1>12, Zenon DEF SendOk, input, batchVars, handler, timer
    <2>2. sending' \cup sent' = sending \cup sent /\ \A q \in sending' \cap sent' : q.msgs = <<>>
      BY <1>0, <2>1, Zenon
    <2> QED
      BY <2>1, <2>2, MessagesStay, Zenon
  <1>13. ASSUME NEW p \in sending, SendError(p) PROVE OnceInv' /\ Tracked'
    BY <1>13, ErrorMoves, Zenon
  <1>14. CASE Evictor
    <2>1. UNCHANGED <<toAdd, inputChan, hpc, hmsg, held, toSend, sending, sent, dropped>>
      BY <1>14, Zenon DEF Evictor, EvictCopy, EvictSkip, EvictMark, EvictLock, EvictTest,
                   EvictItem, EvictKey, input, worker, batchVars, handler, timer, out
    <2> QED
      BY <1>0, <2>1, MessagesStay, Zenon
  <1> QED
    BY <1>1, <1>2, <1>3, <1>4, <1>5, <1>6, <1>7, <1>8, <1>9, <1>10, <1>11, <1>12, <1>13,
       <1>14, Zenon DEF Next, Handler, Timer, Sender

LEMMA TrackInit == Init => OnceInv /\ Tracked
  <1> SUFFICES ASSUME Init PROVE OnceInv /\ Tracked
    BY Zenon
  <1>1. /\ toAdd = Msgs /\ inputChan = <<>> /\ held = [b \in BatchIds |-> <<>>]
        /\ hpc = "idle" /\ toSend = <<>> /\ sending = {} /\ sent = {} /\ dropped = {}
    BY ZenonT(60) DEF Init
  <1>2. OnceInv
    BY <1>1 DEF OnceInv, Once, OnceInBatches, OnceInQueue, OnceInSome
  <1>3. ASSUME NEW m \in Msgs PROVE \A t \in Stages : At(m, t) <=> t = "add"
    BY <1>1 DEF At, Stages, InList, InBatch, InQueue, InSome, Handling
  <1> QED
    BY <1>2, <1>3, Zenon DEF Tracked, Stages

LEMMA TrackedAlways == Spec => [](OnceInv /\ Tracked)
  <1>1. TypeOK /\ OnceInv /\ Tracked /\ [Next]_vars => (OnceInv /\ Tracked)'
    BY TrackStep, Zenon
  <1> QED
    BY <1>1, TrackInit, TypeCorrect, PTL DEF Spec

\* The elements of Places(m).
LEMMA PlacesAre ==
    ASSUME NEW m, NEW x
    PROVE  x \in Places(m) <=>
             \/ \E i \in DOMAIN inputChan : inputChan[i] = m /\ x = <<"chan", 0, i>>
             \/ hpc \in Handling /\ hmsg = m /\ x = <<"handler", 0, 1>>
             \/ \E b \in BatchIds : \E i \in DOMAIN held[b] :
                    held[b][i] = m /\ x = <<"batch", b, i>>
             \/ \E j \in DOMAIN toSend : \E i \in DOMAIN toSend[j].msgs :
                    toSend[j].msgs[i] = m /\ x = <<"toSend", j, i>>
             \/ \E p \in sending \cup sent : \E i \in DOMAIN p.msgs :
                    p.msgs[i] = m /\ x = <<"packet", p, i>>
  <1> DEFINE C == {<<"chan", 0, i>> : i \in {j \in DOMAIN inputChan : inputChan[j] = m}}
             hand == IF hpc \in {"flush", "lookup", "alloc", "create", "append", "link"}
                     THEN <<hmsg>> ELSE <<>>
             H == {<<"handler", 0, i>> : i \in {j \in DOMAIN hand : hand[j] = m}}
             B == UNION {{<<"batch", b, i>> : i \in {j \in DOMAIN held[b] : held[b][j] = m}} :
                             b \in BatchIds}
             Q == UNION {{<<"toSend", k, i>> :
                              i \in {j \in DOMAIN toSend[k].msgs : toSend[k].msgs[j] = m}} :
                             k \in DOMAIN toSend}
             P == UNION {{<<"packet", p, i>> : i \in {j \in DOMAIN p.msgs : p.msgs[j] = m}} :
                             p \in sending \cup sent}
  <1>1. Places(m) = C \cup H \cup B \cup Q \cup P
    BY Zenon DEF Places
  <1>2. x \in C <=> \E i \in DOMAIN inputChan : inputChan[i] = m /\ x = <<"chan", 0, i>>
    BY Zenon
  <1>3. x \in H <=> hpc \in Handling /\ hmsg = m /\ x = <<"handler", 0, 1>>
    BY DEF Handling
  <1>4. x \in B <=> \E b \in BatchIds : \E i \in DOMAIN held[b] :
                        held[b][i] = m /\ x = <<"batch", b, i>>
    OBVIOUS
  <1>5. x \in Q <=> \E j \in DOMAIN toSend : \E i \in DOMAIN toSend[j].msgs :
                        toSend[j].msgs[i] = m /\ x = <<"toSend", j, i>>
    OBVIOUS
  <1>6. x \in P <=> \E p \in sending \cup sent : \E i \in DOMAIN p.msgs :
                        p.msgs[i] = m /\ x = <<"packet", p, i>>
    OBVIOUS
  <1> HIDE DEF C, H, B, Q, P
  <1> QED
    BY ONLY <1>1, <1>2, <1>3, <1>4, <1>5, <1>6, Zenon

\* The part of InOnePlace that is about the lists alone: a message is in one place.
OncePlaced ==
    \A m \in Msgs : IF m \in toAdd \cup dropped
                    THEN Places(m) = {}
                    ELSE \E q \in Places(m) : Places(m) = {q}

LEMMA PlacedAlways == Spec => []OncePlaced
  <1>1. OnceInv /\ Tracked => OncePlaced
    <2> SUFFICES ASSUME OnceInv, Tracked, NEW m \in Msgs
                 PROVE  IF m \in toAdd \cup dropped THEN Places(m) = {}
                                                   ELSE \E q \in Places(m) : Places(m) = {q}
      BY Zenon DEF OncePlaced
    <2>1. PICK s \in Stages : \A t \in Stages : At(m, t) <=> t = s
      BY Zenon DEF Tracked
    <2>2. /\ m \in toAdd <=> s = "add"
          /\ InList(m, inputChan) <=> s = "chan"
          /\ (hpc \in Handling /\ hmsg = m) <=> s = "hand"
          /\ InBatch(m, held) <=> s = "batch"
          /\ InQueue(m, toSend) <=> s = "toSend"
          /\ InSome(m, sending \cup sent) <=> s = "packet"
          /\ m \in dropped <=> s = "dropped"
      BY <2>1, Zenon DEF At, Stages
    <2>3. CASE s \in {"add", "dropped"}
      <3>1. Places(m) = {}
        BY <2>2, <2>3, PlacesAre, Zenon DEF InList, InBatch, InQueue, InSome
      <3> QED
        BY <2>2, <2>3, <3>1, Zenon
    <2>4. CASE s = "chan"
      <3>N. /\ ~(hpc \in Handling /\ hmsg = m) /\ ~InBatch(m, held)
            /\ ~InQueue(m, toSend) /\ ~InSome(m, sending \cup sent)
        BY <2>2, <2>4, Zenon
      <3>1. PICK i \in DOMAIN inputChan : inputChan[i] = m
        BY <2>2, <2>4, Zenon DEF InList
      <3>2. ASSUME NEW x PROVE x \in Places(m) <=> x = <<"chan", 0, i>>
        <4>1. x \in Places(m) <=>
                  \E j \in DOMAIN inputChan : inputChan[j] = m /\ x = <<"chan", 0, j>>
          BY ONLY <3>N, PlacesAre DEF InList, InBatch, InQueue, InSome
        <4>2. \A j \in DOMAIN inputChan : inputChan[j] = m => j = i
          BY <3>1, Zenon DEF OnceInv, Once
        <4> QED
          BY ONLY <3>1, <4>1, <4>2, i \in DOMAIN inputChan, ZenonT(60)
      <3>3. Places(m) = {<<"chan", 0, i>>}
        BY ONLY <3>2, Zenon
      <3> QED
        BY <2>2, <2>4, <3>3, Zenon
    <2>5. CASE s = "hand"
      <3>N. /\ ~InList(m, inputChan) /\ ~InBatch(m, held)
            /\ ~InQueue(m, toSend) /\ ~InSome(m, sending \cup sent)
        BY ONLY <2>2, <2>5, ZenonT(60)
      <3>1. ASSUME NEW x PROVE x \in Places(m) <=> x = <<"handler", 0, 1>>
        BY ONLY <2>2, <2>5, <3>N, PlacesAre DEF InList, InBatch, InQueue, InSome
      <3>2. Places(m) = {<<"handler", 0, 1>>}
        BY ONLY <3>1, ZenonT(60)
      <3> QED
        BY <2>2, <2>5, <3>2, Zenon
    <2>6. CASE s = "batch"
      <3>N. /\ ~InList(m, inputChan) /\ ~(hpc \in Handling /\ hmsg = m)
            /\ ~InQueue(m, toSend) /\ ~InSome(m, sending \cup sent)
        BY <2>2, <2>6, Zenon
      <3>1. PICK b \in BatchIds : \E i \in DOMAIN held[b] : held[b][i] = m
        BY <2>2, <2>6, Zenon DEF InBatch, InList
      <3>2. PICK i \in DOMAIN held[b] : held[b][i] = m
        BY <3>1, Zenon
      <3>3. ASSUME NEW x PROVE x \in Places(m) <=> x = <<"batch", b, i>>
        <4>1. x \in Places(m) <=>
                  \E c \in BatchIds : \E l \in DOMAIN held[c] :
                      held[c][l] = m /\ x = <<"batch", c, l>>
          BY ONLY <3>N, PlacesAre DEF InList, InBatch, InQueue, InSome
        <4>2. \A c \in BatchIds : \A l \in DOMAIN held[c] :
                  held[c][l] = m => c = b /\ l = i
          BY <3>2, ZenonT(60) DEF OnceInv, OnceInBatches
        <4> QED
          BY ONLY <3>2, <4>1, <4>2, b \in BatchIds, i \in DOMAIN held[b], ZenonT(60)
      <3>4. Places(m) = {<<"batch", b, i>>}
        BY ONLY <3>3, ZenonT(60)
      <3> QED
        BY <2>2, <2>6, <3>4, ZenonT(60)
    <2>7. CASE s = "toSend"
      <3>N. /\ ~InList(m, inputChan) /\ ~(hpc \in Handling /\ hmsg = m)
            /\ ~InBatch(m, held) /\ ~InSome(m, sending \cup sent)
        BY <2>2, <2>7, Zenon
      <3>1. PICK j \in DOMAIN toSend : \E i \in DOMAIN toSend[j].msgs : toSend[j].msgs[i] = m
        BY <2>2, <2>7, Zenon DEF InQueue, InList
      <3>2. PICK i \in DOMAIN toSend[j].msgs : toSend[j].msgs[i] = m
        BY <3>1, Zenon
      <3>3. ASSUME NEW x PROVE x \in Places(m) <=> x = <<"toSend", j, i>>
        <4>1. x \in Places(m) <=>
                  \E k \in DOMAIN toSend : \E l \in DOMAIN toSend[k].msgs :
                      toSend[k].msgs[l] = m /\ x = <<"toSend", k, l>>
          BY ONLY <3>N, PlacesAre DEF InList, InBatch, InQueue, InSome
        <4>2. \A k \in DOMAIN toSend : \A l \in DOMAIN toSend[k].msgs :
                  toSend[k].msgs[l] = m => k = j /\ l = i
          BY <3>2, ZenonT(60) DEF OnceInv, OnceInQueue
        <4> QED
          BY ONLY <3>2, <4>1, <4>2, j \in DOMAIN toSend, i \in DOMAIN toSend[j].msgs, ZenonT(60)
      <3>4. Places(m) = {<<"toSend", j, i>>}
        BY ONLY <3>3, ZenonT(60)
      <3> QED
        BY <2>2, <2>7, <3>4, ZenonT(60)
    <2>8. CASE s = "packet"
      <3>N. /\ ~InList(m, inputChan) /\ ~(hpc \in Handling /\ hmsg = m)
            /\ ~InBatch(m, held) /\ ~InQueue(m, toSend)
        BY <2>2, <2>8, Zenon
      <3>1. PICK p \in sending \cup sent : \E i \in DOMAIN p.msgs : p.msgs[i] = m
        BY <2>2, <2>8, Zenon DEF InSome, InList
      <3>2. PICK i \in DOMAIN p.msgs : p.msgs[i] = m
        BY <3>1, Zenon
      <3>3. ASSUME NEW x PROVE x \in Places(m) <=> x = <<"packet", p, i>>
        <4>1. x \in Places(m) <=>
                  \E q \in sending \cup sent : \E l \in DOMAIN q.msgs :
                      q.msgs[l] = m /\ x = <<"packet", q, l>>
          BY ONLY <3>N, PlacesAre DEF InList, InBatch, InQueue, InSome
        <4>2. \A q \in sending \cup sent : \A l \in DOMAIN q.msgs :
                  q.msgs[l] = m => q = p /\ l = i
          BY <3>2, ZenonT(60) DEF OnceInv, OnceInSome
        <4> QED
          BY ONLY <3>2, <4>1, <4>2, p \in sending \cup sent, i \in DOMAIN p.msgs, ZenonT(60)
      <3>4. Places(m) = {<<"packet", p, i>>}
        BY ONLY <3>3, Zenon
      <3> QED
        BY <2>2, <2>8, <3>4, Zenon
    <2> QED
      BY <2>3, <2>4, <2>5, <2>6, <2>7, <2>8, Zenon DEF Stages
  <1> QED
    BY <1>1, TrackedAlways, PTL

=============================================================================
