-------------------------- MODULE AggregatorProofs --------------------------
(***************************************************************************)
(* The safety theorems of Aggregator, for every set of messages, every     *)
(* buffer size and timeout, and any number of batches.                     *)
(***************************************************************************)
EXTENDS AggregatorLists, WellFoundedInduction

\* Totals of the sizes of messages.

\* n is the end of the running total of the sizes of ms.
AddsUp(ms, n) ==
    \E total \in [0 .. Len(ms) -> Nat] :
        /\ total[0] = 0 /\ total[Len(ms)] = n
        /\ \A i \in 1 .. Len(ms) : total[i] = total[i - 1] + SubSize(ms[i])

\* One batch is a number of batches.
LEMMA OneIsSome == \E n \in Nat \ {0} : n = 1
  OBVIOUS

\* A set of natural numbers has a least one.
LEMMA LeastNat ==
    ASSUME NEW T, T \subseteq Nat, T # {}
    PROVE  \E x \in T : \A y \in T : x <= y
  <1>1. PICK R : R = OpToRel(<, Nat)
    BY Zenon
  <1>2. IsWellFoundedOn(R, Nat)
    BY <1>1, NatLessThanWellFounded, Zenon
  <1>3. PICK x \in T : \A y \in T : ~(<<y, x>> \in R)
    BY <1>2, WFMin, Zenon
  <1>4. \A y \in Nat, z \in Nat : y < z => <<y, z>> \in R
    BY <1>1, Zenon DEF OpToRel
  <1>5. \A y \in T : ~(y < x)
    BY <1>3, <1>4, Zenon
  <1>6. \A y \in T : x <= y
    BY <1>5
  <1> QED
    BY <1>6, Zenon

\* SumSizes is the end of any running total: at the least index where two of them
\* differ, they agree on the index before.
LEMMA SumIsTotal ==
    ASSUME NEW ms \in Seq(Msgs), NEW n, AddsUp(ms, n)
    PROVE  SumSizes(ms) = n
  <1> DEFINE Is(f) == f = [i \in 0 .. Len(ms) |-> IF i = 0 THEN 0 ELSE f[i - 1] + SubSize(ms[i])]
  <1>1. Len(ms) \in Nat
    OBVIOUS
  <1>2. PICK t \in [0 .. Len(ms) -> Nat] :
            /\ t[0] = 0 /\ t[Len(ms)] = n
            /\ \A i \in 1 .. Len(ms) : t[i] = t[i - 1] + SubSize(ms[i])
    BY Zenon DEF AddsUp
  <1>3. PICK f : f = CHOOSE g : Is(g)
    BY Zenon
  <1>4. SumSizes(ms) = f[Len(ms)]
    BY ONLY <1>3, Zenon DEF SumSizes
  <1>5. Is(t)
    BY <1>1, <1>2
  <1>6. Is(f)
    BY <1>3, <1>5, Zenon
  <1>7. f[0] = 0 /\ \A i \in 1 .. Len(ms) : f[i] = f[i - 1] + SubSize(ms[i])
    BY ONLY <1>1, <1>6
  <1> DEFINE bad == {i \in 0 .. Len(ms) : f[i] # t[i]}
  <1>8. bad = {}
    <2> SUFFICES ASSUME bad # {} PROVE FALSE
      BY Zenon
    <2>1. PICK x \in bad : \A y \in bad : x <= y
      <3>1. bad \subseteq Nat
        BY SMTT(20)
      <3> HIDE DEF bad
      <3> QED
        BY <3>1, LeastNat, Zenon
    <2>2. x \in 1 .. Len(ms) /\ x - 1 \in 0 .. Len(ms)
      BY ONLY <1>1, <1>2, <1>7, <2>1
    <2>3. x - 1 \notin bad
      BY ONLY <1>1, <2>1
    <2> QED
      BY ONLY <1>2, <1>7, <2>1, <2>2, <2>3, ZenonT(60)
  <1> QED
    BY <1>1, <1>2, <1>4, <1>8

\* Totals of no message, of one, and of one more.
LEMMA TotalOfNone == AddsUp(<<>>, 0)
  <1>1. PICK t \in [0 .. 0 -> Nat] : t[0] = 0
    <2> DEFINE f == [i \in 0 .. 0 |-> 0]
    <2>1. f \in [0 .. 0 -> Nat] /\ f[0] = 0
      OBVIOUS
    <2> HIDE DEF f
    <2> QED
      BY <2>1, Zenon
  <1>2. Len(<<>>) = 0 /\ 1 .. 0 = {}
    BY SMTT(20)
  <1> QED
    BY <1>1, <1>2, Zenon DEF AddsUp

LEMMA TotalOfMore ==
    ASSUME NEW ms \in Seq(Msgs), NEW m \in Msgs, NEW n \in Nat, AddsUp(ms, n)
    PROVE  n + SubSize(m) \in Nat /\ AddsUp(Append(ms, m), n + SubSize(m))
  <1>1. SubSize(m) \in Nat
    BY MsgType, Zenon
  <1>2. PICK k \in Nat : k = Len(ms)
    OBVIOUS
  <1>3. PICK s \in Seq(Msgs) : s = Append(ms, m)
    <2>1. Append(ms, m) \in Seq(Msgs)
      BY SMTT(20)
    <2> QED
      BY <2>1, Zenon
  <1>4. Len(s) = k + 1 /\ s[k + 1] = m /\ \A i \in 1 .. k : s[i] = ms[i]
    BY <1>2, <1>3
  <1>5. PICK t \in [0 .. k -> Nat] :
            /\ t[0] = 0 /\ t[k] = n
            /\ \A i \in 1 .. k : t[i] = t[i - 1] + SubSize(ms[i])
    BY <1>2, Zenon DEF AddsUp
  <1>6. PICK u \in [0 .. k + 1 -> Nat] :
            u[k + 1] = n + SubSize(m) /\ \A i \in 0 .. k : u[i] = t[i]
    <2> DEFINE v == [i \in 0 .. k + 1 |-> IF i = k + 1 THEN n + SubSize(m) ELSE t[i]]
    <2>1. /\ v \in [0 .. k + 1 -> Nat] /\ v[k + 1] = n + SubSize(m)
          /\ \A i \in 0 .. k : v[i] = t[i]
      BY <1>1, <1>2, <1>5, SMTT(20)
    <2> QED
      BY <2>1, Zenon
  <1>7. \A i \in 1 .. k + 1 : u[i] = u[i - 1] + SubSize(s[i])
    <2> SUFFICES ASSUME NEW i \in 1 .. k + 1 PROVE u[i] = u[i - 1] + SubSize(s[i])
      BY Zenon
    <2>1. CASE i = k + 1
      BY ONLY <1>2, <1>4, <1>5, <1>6, <2>1
    <2>2. CASE i # k + 1
      <3>1. i \in 1 .. k /\ i \in 0 .. k /\ i - 1 \in 0 .. k
        BY ONLY <1>2, <2>2
      <3> QED
        BY ONLY <1>4, <1>5, <1>6, <3>1, ZenonT(60)
    <2> QED
      BY ONLY <2>1, <2>2, Zenon
  <1>8. u[0] = 0
    BY <1>2, <1>5, <1>6
  <1>9. AddsUp(s, n + SubSize(m))
    BY <1>4, <1>6, <1>7, <1>8, ZenonT(60) DEF AddsUp
  <1> QED
    BY ONLY <1>1, <1>3, <1>9

-----------------------------------------------------------------------------
\* Buffered messages and heap items.

\* What the two invariants below are about.
sched == <<held, wp, heapItem, heap, expired, evicted, hpc, hb>>

\* A step that touches none of it keeps both invariants.
LEMMA SchedUnchanged ==
    ASSUME UnscheduledIsEmpty, ItemsAccounted, UNCHANGED sched
    PROVE  UnscheduledIsEmpty' /\ ItemsAccounted'
  BY Zenon DEF UnscheduledIsEmpty, ItemsAccounted, Locked, Leftover, sched

\* A message appended to a batch puts its write position past the header.
LEMMA PutMessageGrows ==
    ASSUME TypeOK, ItemsAccounted, NEW b \in BatchIds, NEW m \in Msgs, PutMessage(b, m)
    PROVE  /\ wp' = [wp EXCEPT ![b] = wp'[b]] /\ wp'[b] > HeaderSize /\ wp'[b] >= HeaderSize
           /\ held' = [held EXCEPT ![b] = held'[b]]
  <1>1. SubSize(m) \in Nat \ {0} /\ wp[b] \in Nat /\ wp[b] >= 24
    BY MsgType, Zenon DEF TypeOK, BatchType, ItemsAccounted, HeaderSize
  <1>2. wp'[b] = wp[b] + SubSize(m)
    BY Zenon DEF PutMessage, TypeOK, BatchType
  <1> QED
    BY <1>1, <1>2 DEF PutMessage, TypeOK, BatchType, HeaderSize

\* Changing the handler's batch alone keeps both invariants: either it has a heap
\* item, or the handler keeps its lock and goes on to give it one.
LEMMA Scheduled ==
    ASSUME TypeOK, UnscheduledIsEmpty, ItemsAccounted, hb \in BatchIds,
           hpc \in {"append", "link"}, UNCHANGED <<heapItem, heap, expired, evicted>>,
           wp' = [wp EXCEPT ![hb] = wp'[hb]], held' = [held EXCEPT ![hb] = held'[hb]],
           wp'[hb] >= HeaderSize, held'[hb] # <<>> => wp'[hb] > HeaderSize,
           \/ heapItem[hb] /\ hpc' = "idle"
           \/ ~heapItem[hb] /\ hpc' = "item" /\ hb' = hb
    PROVE  UnscheduledIsEmpty' /\ ItemsAccounted'
  <1>1. \A b \in BatchIds \ {hb} : wp'[b] = wp[b] /\ held'[b] = held[b]
    BY Zenon DEF TypeOK, BatchType
  <1>2. UnscheduledIsEmpty'
    BY <1>1, Zenon DEF UnscheduledIsEmpty, Locked, Leftover
  <1>3. ItemsAccounted'
    BY <1>1, Zenon DEF ItemsAccounted
  <1> QED
    BY <1>2, <1>3, Zenon

\* Every step keeps both invariants.
LEMMA SchedStep ==
    ASSUME TypeOK, UnscheduledIsEmpty, ItemsAccounted, [Next]_vars
    PROVE  UnscheduledIsEmpty' /\ ItemsAccounted'
  <1>1. CASE Tick
    BY <1>1, SchedUnchanged, Zenon
       DEF Tick, sched, batchVars, worker, handler, timer, evictor
  <1>2. ASSUME NEW m \in toAdd, AddToBatch(m) PROVE UnscheduledIsEmpty' /\ ItemsAccounted'
    BY <1>2, SchedUnchanged, Zenon
       DEF AddToBatch, sched, batchVars, worker, handler, timer, evictor
  <1>3. CASE Receive
    BY <1>3, Zenon
       DEF UnscheduledIsEmpty, ItemsAccounted, Locked, Leftover, Receive, HandlerDone, HandlerAt,
           batchVars, worker, timer, evictor, TypeOK, BatchType, HandlerType
  <1>4. CASE FlushEmerge
    BY <1>4, Zenon
       DEF UnscheduledIsEmpty, ItemsAccounted, Locked, Leftover, FlushEmerge, EmergeDone, HandlerDone, HandlerAt,
           batchVars, worker, timer, evictor, TypeOK, BatchType, HandlerType
  <1>5. CASE Lookup
    BY <1>5, Zenon
       DEF UnscheduledIsEmpty, ItemsAccounted, Locked, Leftover, Lookup, HandlerDone, HandlerAt,
           batchVars, worker, timer, evictor, TypeOK, BatchType, HandlerType
  <1>6. CASE NewBatches
    BY <1>6, Zenon
       DEF UnscheduledIsEmpty, ItemsAccounted, Locked, Leftover, NewBatches, Allocate, HandlerDone, HandlerAt,
           batchVars, worker, timer, evictor, TypeOK, BatchType, HandlerType
  <1>7. CASE CreateBatches
    BY <1>7, Zenon
       DEF UnscheduledIsEmpty, ItemsAccounted, Locked, Leftover, CreateBatches, HandlerDone, HandlerAt,
           batchVars, worker, timer, evictor, TypeOK, BatchType, HandlerType
  <1>8. CASE AppendToBatch
    <2>1. PutMessage(hb, hmsg) /\ hb \in BatchIds /\ hmsg \in Msgs
      BY <1>8, Zenon DEF AppendToBatch, TypeOK, HandlerType
    <2>2. /\ wp' = [wp EXCEPT ![hb] = wp'[hb]] /\ wp'[hb] > HeaderSize /\ wp'[hb] >= HeaderSize
          /\ held' = [held EXCEPT ![hb] = held'[hb]]
      BY <2>1, PutMessageGrows, Zenon
    <2>3. /\ UNCHANGED <<heapItem, heap, expired, evicted>> /\ hpc = "append"
          /\ \/ heapItem[hb] /\ hpc' = "idle"
             \/ ~heapItem[hb] /\ hpc' = "item" /\ hb' = hb
      BY <1>8, Zenon DEF AppendToBatch, Schedule, HandlerDone, HandlerAt, worker, timer, evictor
    <2> QED
      BY <2>1, <2>2, <2>3, Scheduled, Zenon
  <1>9. CASE ReplaceBatch
    BY <1>9, Zenon
       DEF UnscheduledIsEmpty, ItemsAccounted, Locked, Leftover, ReplaceBatch, Allocate, HandlerDone, HandlerAt,
           batchVars, worker, timer, evictor, TypeOK, BatchType, HandlerType
  <1>10. CASE LinkBatch
    <2>1. hb \in BatchIds /\ hmsg \in Msgs
      BY <1>10, Zenon DEF LinkBatch, TypeOK, HandlerType
    <2>2. /\ wp' = [wp EXCEPT ![hb] = wp'[hb]] /\ wp'[hb] >= HeaderSize
          /\ held' = [held EXCEPT ![hb] = held'[hb]]
          /\ held'[hb] # <<>> => wp'[hb] > HeaderSize
      <3>1. CASE PutMessage(hb, hmsg)
        BY <2>1, <3>1, PutMessageGrows, Zenon
      <3>2. CASE UNCHANGED <<held, wp>>
        <4>1. wp = [wp EXCEPT ![hb] = wp[hb]] /\ held = [held EXCEPT ![hb] = held[hb]]
          BY <2>1, Zenon DEF TypeOK, BatchType
        <4> QED
          BY <2>1, <3>2, <4>1, Zenon DEF ItemsAccounted
      <3> QED
        BY <1>10, <3>1, <3>2, Zenon DEF LinkBatch
    <2>3. /\ UNCHANGED <<heapItem, heap, expired, evicted>> /\ hpc = "link"
          /\ \/ heapItem[hb] /\ hpc' = "idle"
             \/ ~heapItem[hb] /\ hpc' = "item" /\ hb' = hb
      BY <1>10, Zenon DEF LinkBatch, Schedule, HandlerDone, HandlerAt, timer, evictor
    <2> QED
      BY <2>1, <2>2, <2>3, Scheduled, Zenon
  <1>11. CASE NewItem
    BY <1>11, Zenon
       DEF UnscheduledIsEmpty, ItemsAccounted, Locked, Leftover, NewItem, HandlerDone, HandlerAt,
           batchVars, worker, timer, evictor, TypeOK, BatchType, HandlerType
  <1>12. CASE PushItem
    BY <1>12, Zenon
       DEF UnscheduledIsEmpty, ItemsAccounted, Locked, Leftover, PushItem, HandlerDone, HandlerAt,
           batchVars, worker, timer, evictor, TypeOK, BatchType, HandlerType
  <1>13. CASE AssignItem
    BY <1>13, Zenon
       DEF UnscheduledIsEmpty, ItemsAccounted, Locked, Leftover, AssignItem, HandlerDone, HandlerAt,
           batchVars, worker, timer, evictor, TypeOK, BatchType, HandlerType
  <1>14. CASE StartCheck
    BY <1>14, SchedUnchanged, Zenon
       DEF StartCheck, sched, batchVars, worker, handler, timer, evictor
  <1>15. CASE PopExpired
    <2>1. /\ heap' \cup expired' = heap /\ expired = {}
          /\ UNCHANGED <<held, wp, heapItem, evicted, hpc, hb>>
      BY <1>15, Zenon DEF PopExpired, TypeOK, TimerType, batchVars, handler, evictor
    <2> QED
      BY <2>1, Zenon DEF UnscheduledIsEmpty, ItemsAccounted, Locked, Leftover
  <1>16. ASSUME NEW b \in expired, Serialize(b) PROVE UnscheduledIsEmpty' /\ ItemsAccounted'
    <2>1. b \in BatchIds /\ ~Locked(b)
      BY <1>16, Zenon DEF Serialize, TypeOK, TimerType
    <2>2. /\ held' = [held EXCEPT ![b] = <<>>] /\ wp' = [wp EXCEPT ![b] = HeaderSize]
          /\ heapItem' = [heapItem EXCEPT ![b] = FALSE] /\ expired' = expired \ {b}
          /\ UNCHANGED <<heap, evicted, hpc, hb>>
      BY <1>16, Zenon DEF Serialize, ResetBatch, worker, handler, evictor
    <2>3. UnscheduledIsEmpty'
      BY <2>1, <2>2 DEF UnscheduledIsEmpty, Locked, Leftover, TypeOK, BatchType, HeaderSize
    <2>4. ItemsAccounted'
      BY <2>1, <2>2 DEF ItemsAccounted, Locked, TypeOK, BatchType, HeaderSize
    <2> QED
      BY <2>3, <2>4, Zenon
  <1>17. CASE FlushNext
    BY <1>17, SchedUnchanged, Zenon
       DEF FlushNext, sched, batchVars, worker, handler, timer, evictor
  <1>18. ASSUME NEW p \in sending, SendOk(p) PROVE UnscheduledIsEmpty' /\ ItemsAccounted'
    BY <1>18, SchedUnchanged, Zenon
       DEF SendOk, sched, batchVars, worker, handler, timer, evictor
  <1>19. ASSUME NEW p \in sending, SendError(p) PROVE UnscheduledIsEmpty' /\ ItemsAccounted'
    BY <1>19, SchedUnchanged, Zenon
       DEF SendError, sched, batchVars, worker, handler, timer, evictor
  <1>20. CASE EvictCopy
    BY <1>20, SchedUnchanged, Zenon
       DEF EvictCopy, sched, batchVars, worker, handler, timer, evictor
  <1>21. ASSUME NEW k \in Keys, EvictSkip(k) PROVE UnscheduledIsEmpty' /\ ItemsAccounted'
    BY <1>21, SchedUnchanged, Zenon
       DEF EvictSkip, sched, batchVars, worker, handler, timer, evictor
  <1>22. ASSUME NEW k \in Keys, EvictMark(k) PROVE UnscheduledIsEmpty' /\ ItemsAccounted'
    BY <1>22, SchedUnchanged, Zenon
       DEF EvictMark, sched, batchVars, worker, handler, timer, evictor
  <1>23. CASE EvictLock
    BY <1>23, SchedUnchanged, Zenon
       DEF EvictLock, sched, batchVars, worker, handler, timer, evictor
  <1>24. CASE EvictItem
    <2>1. /\ heap' \cup evicted' = heap \cup evicted
          /\ UNCHANGED <<held, wp, heapItem, expired, hpc, hb>>
      BY <1>24, Zenon DEF EvictItem, batchVars, handler, timer
    <2> QED
      BY <2>1, Zenon DEF UnscheduledIsEmpty, ItemsAccounted, Locked, Leftover
  <1>31. CASE EvictTest
    BY <1>31, SchedUnchanged, Zenon
       DEF EvictTest, sched, batchVars, worker, handler, timer, evictor
  <1>25. CASE EvictKey
    BY <1>25, SchedUnchanged, Zenon
       DEF EvictKey, sched, batchVars, worker, handler, timer, evictor
  <1>26. CASE UNCHANGED vars
    BY <1>26, SchedUnchanged, Zenon DEF vars, sched, batchVars, worker, handler, timer, evictor
  <1>27. CASE Handler
    BY <1>3, <1>4, <1>5, <1>6, <1>7, <1>8, <1>9, <1>10, <1>11, <1>12, <1>13, <1>27, Zenon DEF Handler
  <1>28. CASE Timer
    BY <1>14, <1>15, <1>16, <1>17, <1>28, Zenon DEF Timer
  <1>29. CASE Sender
    BY <1>18, <1>19, <1>29, Zenon DEF Sender
  <1>30. CASE Evictor
    BY <1>20, <1>21, <1>22, <1>23, <1>24, <1>25, <1>30, <1>31, Zenon DEF Evictor
  <1> QED
    BY <1>1, <1>2, <1>26, <1>27, <1>28, <1>29, <1>30, Zenon DEF Next

-----------------------------------------------------------------------------
\* The safety theorems.

\* What the evictor is about to remove.
removal == <<epc, snap, ekey, evicted>>

\* A step that pushes no item, and changes no batch that has one in the heap.
LEMMA ItemsStay ==
    ASSUME TypeOK, ItemsLeaveOnce, UNCHANGED removal,
           heap' \subseteq heap, heap' \cap expired' = {}, heap' \cup expired' \subseteq heap \cup expired,
           \A b \in BatchIds : b \in heap \cup expired' \cup evicted => heapItem'[b] = heapItem[b],
           \A b \in heap \cup expired : hpc = "assign" /\ hb = b => hpc' = "assign" /\ hb' = b,
           hpc' \in {"item", "push", "assign"} => ~heapItem'[hb']
    PROVE  ItemsLeaveOnce'
  <1>1. ASSUME NEW b \in evicted' PROVE heapItem'[b] /\ b \notin heap' \cup expired'
    BY <1>1, Zenon DEF ItemsLeaveOnce, TypeOK, EvictorType, removal
  <1>2. ASSUME epc' = "index", Head(snap'[ekey']) \in heap' PROVE heapItem'[Head(snap'[ekey'])]
    <2>1. epc = "index" /\ Head(snap[ekey]) \in heap /\ Head(snap'[ekey']) = Head(snap[ekey])
      BY <1>2, Zenon DEF removal
    <2> QED
      BY <2>1, Zenon DEF ItemsLeaveOnce, TypeOK, WorkerType
  <1>3. ASSUME NEW b \in heap' \cup expired' PROVE heapItem'[b] \/ (hpc' = "assign" /\ hb' = b)
    <2>1. b \in BatchIds /\ b \in heap \cup expired /\ b \in heap \cup expired' \cup evicted
      BY <1>3, Zenon DEF TypeOK, WorkerType, TimerType
    <2> QED
      BY <2>1, Zenon DEF ItemsLeaveOnce
  <1> QED
    BY <1>1, <1>2, <1>3, Zenon DEF ItemsLeaveOnce

LEMMA LeaveStep ==
    ASSUME TypeOK, ItemsLeaveOnce, [Next]_vars
    PROVE  ItemsLeaveOnce'
  <1> DEFINE items == <<heap, expired, heapItem>>
  <1>0. ASSUME UNCHANGED <<removal, items>>, hpc # "assign" \/ UNCHANGED <<hpc, hb>>,
               hpc' \in {"item", "push", "assign"} => ~heapItem[hb']
        PROVE  ItemsLeaveOnce'
    BY <1>0, ItemsStay, ZenonT(60) DEF ItemsLeaveOnce
  <1>1. CASE Tick \/ StartCheck \/ FlushNext
    BY <1>0, <1>1, ZenonT(60) DEF Tick, StartCheck, FlushNext, removal, ItemsLeaveOnce, worker, batchVars,
             handler, timer, evictor
  <1>2. ASSUME NEW m \in toAdd, AddToBatch(m) PROVE ItemsLeaveOnce'
    BY <1>0, <1>2, ZenonT(60) DEF AddToBatch, removal, ItemsLeaveOnce, worker, batchVars, handler, timer, evictor
  <1>3. ASSUME NEW p \in sending, SendOk(p) \/ SendError(p) PROVE ItemsLeaveOnce'
    BY <1>0, <1>3, ZenonT(60) DEF SendOk, SendError, removal, ItemsLeaveOnce, worker, batchVars, handler,
             timer, evictor
  <1>4. CASE UNCHANGED vars
    BY <1>0, <1>4, ZenonT(60) DEF vars, removal, ItemsLeaveOnce, worker, batchVars, handler, timer, evictor
  <1>5. CASE Receive \/ FlushEmerge \/ Lookup \/ NewBatches \/ CreateBatches \/ ReplaceBatch
    <2>1. UNCHANGED <<removal, items>> /\ hpc # "assign" /\ hpc' \notin {"item", "push", "assign"}
      BY <1>5, ZenonT(60) DEF Receive, FlushEmerge, EmergeDone, Lookup, NewBatches, CreateBatches, ReplaceBatch,
               Allocate, HandlerDone, HandlerAt, removal, worker, batchVars, timer, evictor
    <2> QED
      BY <1>0, <2>1, Zenon
  <1>6. CASE AppendToBatch \/ LinkBatch
    <2>1. UNCHANGED <<removal, items>> /\ hpc # "assign" /\ (hpc' = "idle" \/ (~heapItem[hb] /\ hb' = hb))
      BY <1>6, ZenonT(60) DEF AppendToBatch, LinkBatch, Schedule, HandlerDone, HandlerAt, removal, worker,
               batchVars, timer, evictor
    <2> QED
      BY <1>0, <2>1, Zenon
  <1>7. CASE NewItem
    <2>1. UNCHANGED <<removal, items, hb>> /\ hpc = "item"
      BY <1>7, Zenon DEF NewItem, HandlerAt, removal, worker, batchVars, timer, evictor
    <2> QED
      BY <1>0, <2>1, Zenon DEF ItemsLeaveOnce
  <1>8. CASE PushItem
    <2>1. /\ UNCHANGED <<removal, expired, heapItem, hb>> /\ heap' = heap \cup {hb}
          /\ hpc = "push" /\ epc # "index"
      BY <1>8, Zenon DEF PushItem, WMuFree, HandlerAt, removal, batchVars, timer, evictor
    <2>2. hb \notin evicted /\ ~heapItem[hb]
      BY <2>1, Zenon DEF ItemsLeaveOnce
    <2>3. hb \notin expired /\ hpc' = "assign"
      BY <1>8, <2>1, <2>2, Zenon DEF ItemsLeaveOnce, PushItem, HandlerAt
    <2> QED
      BY <2>1, <2>2, <2>3, ZenonT(60) DEF ItemsLeaveOnce, removal
  <1>9. CASE AssignItem
    <2>1. /\ UNCHANGED <<removal, heap, expired>> /\ hpc = "assign" /\ hpc' = "idle"
          /\ heapItem' = [heapItem EXCEPT ![hb] = TRUE]
      BY <1>9, Zenon DEF AssignItem, HandlerDone, removal, worker, timer, evictor
    <2>2. hb \in BatchIds /\ \A b \in BatchIds : heapItem'[b] = (heapItem[b] \/ b = hb)
      BY <2>1, Zenon DEF TypeOK, BatchType, HandlerType
    <2>3. ASSUME NEW b \in heap' \cup expired' PROVE heapItem'[b]
      BY <2>1, <2>2, <2>3, Zenon DEF ItemsLeaveOnce, TypeOK, WorkerType, TimerType
    <2>4. ASSUME NEW b \in evicted' PROVE heapItem'[b] /\ b \notin heap' \cup expired'
      BY <2>1, <2>2, <2>4, Zenon DEF ItemsLeaveOnce, TypeOK, EvictorType, removal
    <2>5. Head(snap'[ekey']) \in heap' => heapItem'[Head(snap'[ekey'])]
      BY <2>3, Zenon
    <2>6. heap' \cap expired' = {}
      BY <2>1, Zenon DEF ItemsLeaveOnce
    <2> QED
      BY <2>1, <2>3, <2>4, <2>5, <2>6, Zenon DEF ItemsLeaveOnce
  <1>10. CASE PopExpired
    <2>1. UNCHANGED <<removal, heapItem, hpc, hb>>
      BY <1>10, Zenon DEF PopExpired, removal, batchVars, handler, evictor
    <2>2. heap' \subseteq heap /\ heap' \cup expired' \subseteq heap \cup expired /\ heap' \cap expired' = {}
      BY <1>10, Zenon DEF PopExpired
    <2> QED
      BY <2>1, <2>2, ItemsStay, ZenonT(60) DEF ItemsLeaveOnce
  <1>11. ASSUME NEW b \in expired, Serialize(b) PROVE ItemsLeaveOnce'
    <2>1. /\ UNCHANGED <<removal, heap, hpc, hb>> /\ expired' = expired \ {b} /\ ~Locked(b)
          /\ heapItem' = [heapItem EXCEPT ![b] = FALSE]
      BY <1>11, Zenon DEF Serialize, ResetBatch, removal, worker, handler, evictor
    <2>2. b \notin heap \cup expired' \cup evicted
      BY <1>11, <2>1, Zenon DEF ItemsLeaveOnce
    <2>3. \A c \in BatchIds \ {b} : heapItem'[c] = heapItem[c]
      BY <2>1, Zenon DEF TypeOK, BatchType
    <2>4. hpc' \in {"item", "push", "assign"} => ~heapItem'[hb']
      <3> SUFFICES ASSUME hpc \in {"item", "push", "assign"} PROVE ~heapItem'[hb]
        BY <2>1, Zenon
      <3>1. hb \in BatchIds /\ hb # b /\ ~heapItem[hb]
        BY <2>1, Zenon DEF ItemsLeaveOnce, TypeOK, HandlerType, Locked
      <3> QED
        BY <2>3, <3>1, Zenon
    <2> QED
      BY <2>1, <2>2, <2>3, <2>4, ItemsStay, ZenonT(60) DEF ItemsLeaveOnce
  <1>12. CASE EvictCopy \/ EvictLock \/ EvictKey
    <2>1. UNCHANGED <<items, hpc, hb, evicted>> /\ epc' # "index"
      BY <1>12, ZenonT(60) DEF EvictCopy, EvictLock, EvictKey, AfterKey, worker, batchVars, handler, timer
    <2> QED
      BY <2>1, Zenon DEF ItemsLeaveOnce
  <1>13. ASSUME NEW k \in Keys, EvictSkip(k) \/ EvictMark(k) PROVE ItemsLeaveOnce'
    <2>1. UNCHANGED <<items, hpc, hb, evicted>> /\ epc' # "index"
      BY <1>13, ZenonT(60) DEF EvictSkip, EvictMark, AfterKey, worker, batchVars, handler, timer
    <2> QED
      BY <2>1, Zenon DEF ItemsLeaveOnce
  <1>14. CASE EvictTest
    <2>1. UNCHANGED <<items, hpc, hb, evicted, ekey>>
      BY <1>14, Zenon DEF EvictTest, worker, batchVars, handler, timer
    <2>2. epc' = "index" => heapItem'[Head(snap'[ekey'])]
      BY <1>14, <2>1, Zenon DEF EvictTest
    <2> QED
      BY <2>1, <2>2, Zenon DEF ItemsLeaveOnce
  <1>15. CASE EvictItem
    <2>1. UNCHANGED <<expired, heapItem, hpc, hb, ekey>>
      BY <1>15, Zenon DEF EvictItem, batchVars, handler, timer
    <2>2. CASE UNCHANGED <<heap, evicted, epc, snap>>
      BY <2>1, <2>2, Zenon DEF ItemsLeaveOnce
    <2>3. ASSUME NEW b, b = Head(snap[ekey]), heapItem[b], b \in heap, epc' = "remove",
                 heap' = heap \ {b}, evicted' = evicted \cup {b}
          PROVE  ItemsLeaveOnce'
      BY <2>1, <2>3, ZenonT(60) DEF ItemsLeaveOnce
    <2> QED
      BY <1>15, <2>2, <2>3, Zenon DEF EvictItem
  <1> HIDE DEF items
  <1> QED
    BY <1>1, <1>2, <1>3, <1>4, <1>5, <1>6, <1>7, <1>8, <1>9, <1>10, <1>11, <1>12, <1>13, <1>14, <1>15,
       ZenonT(60) DEF Next, Handler, Timer, Sender, Evictor

\* A panic of heap.Remove finds the item popped by the timer, and perhaps reset since.
LEMMA PanicStep ==
    ASSUME TypeOK, ItemsAccounted, ItemsLeaveOnce, ListsFresh, PanicOnlyInTimeoutRace, [Next]_vars
    PROVE  PanicOnlyInTimeoutRace'
  <1>1. CASE EvictItem /\ ~panicked
    <2> SUFFICES ASSUME panicked' PROVE PanicOnlyInTimeoutRace'
      BY Zenon DEF PanicOnlyInTimeoutRace
    <2> DEFINE b == Head(snap[ekey])
    <2>1. ekey \in Keys /\ snap[ekey] \in Seq(BatchIds) /\ snap[ekey] # <<>>
      BY <1>1, Zenon DEF EvictItem, TypeOK, EvictorType
    <2>2. b \in BatchIds /\ b \in Listed(snap)
      BY <2>1 DEF Listed
    <2>3. b \notin evicted
      BY <2>2, Zenon DEF ListsFresh
    <2>4. /\ epc = "index" /\ ~(heapItem[b] /\ b \in heap)
          /\ UNCHANGED <<heap, evicted, epc, snap, ekey, expired, heapItem>>
      BY <1>1, Zenon DEF EvictItem, timer, batchVars
    <2>5. b \notin heap
      BY <2>4, Zenon DEF ItemsLeaveOnce
    <2>6. heapItem[b] => b \in expired
      BY <2>2, <2>3, <2>5, Zenon DEF ItemsAccounted
    <2> QED
      BY <2>3, <2>4, <2>5, <2>6, Zenon DEF PanicOnlyInTimeoutRace
  <1>2. CASE Next /\ ~EvictItem
    <2>1. ~panicked /\ panicked' = panicked
      BY <1>2, ZenonT(60) DEF Next, Tick, AddToBatch, Handler, Receive, FlushEmerge, Lookup, NewBatches,
            CreateBatches, AppendToBatch, ReplaceBatch, LinkBatch, NewItem, PushItem, AssignItem,
            Timer, StartCheck, PopExpired, Serialize, FlushNext, Sender, SendOk, SendError,
            Evictor, EvictCopy, EvictSkip, EvictMark, EvictLock, EvictTest, EvictKey, evictor
    <2> QED
      BY ONLY <2>1, Zenon DEF PanicOnlyInTimeoutRace
  <1>3. CASE UNCHANGED vars
    BY <1>3, Zenon DEF vars, worker, evictor, timer, batchVars, PanicOnlyInTimeoutRace
  <1> QED
    BY <1>1, <1>2, <1>3, Zenon DEF Next

\* The invariant that makes the safety properties inductive.
THEOREM InductiveInvariant == Spec => [](TypeOK /\ Inductive)
  <1>1. Init => Inductive
    <2> SUFFICES ASSUME Init PROVE Inductive
      BY Zenon
    <2>1. UnscheduledIsEmpty /\ ItemsAccounted
      BY DEF Init, UnscheduledIsEmpty, Locked, Leftover, ItemsAccounted, HeaderSize
    <2>4. ItemsLeaveOnce /\ PanicOnlyInTimeoutRace
      BY Zenon DEF Init, ItemsLeaveOnce, PanicOnlyInTimeoutRace
    <2>2. Listed(batches) = {} /\ Listed(snap) = {} /\ Distinct(batches) /\ Distinct(snap)
      BY DEF Init, Listed, Distinct
    <2>3. ListsFresh
      BY <2>2, SMTT(40) DEF Init, ListsFresh
    <2> QED
      BY <2>1, <2>3, <2>4, Zenon DEF Inductive
  <1>2. TypeOK /\ TypeOK' /\ Inductive /\ [Next]_vars => Inductive'
    BY SchedStep, LeaveStep, ListsStep, PanicStep, Zenon DEF Inductive
  <1> QED
    BY <1>1, <1>2, TypeCorrect, PTL DEF Spec

\* handleMsg's guard on a flushed batch that is not empty never fires.
THEOREM FlushedIsEmpty == Spec => []UnscheduledIsEmpty
  <1>1. Inductive => UnscheduledIsEmpty
    BY Zenon DEF Inductive
  <1> QED
    BY <1>1, InductiveInvariant, PTL

\* No buffered message is forgotten by the timer, unless it was evicted.
THEOREM NothingForgotten == Spec => []HeldIsScheduled
  <1>1. TypeOK /\ Inductive => HeldIsScheduled
    <2> SUFFICES ASSUME TypeOK, Inductive, NEW b \in BatchIds, ~Locked(b), held[b] # <<>>
                 PROVE  b \in heap \cup expired \cup evicted
      BY Zenon DEF HeldIsScheduled
    <2>1. wp[b] > HeaderSize
      BY Zenon DEF Inductive, ItemsAccounted
    <2>2. heapItem[b]
      BY <2>1, Zenon DEF Inductive, UnscheduledIsEmpty, Leftover
    <2> QED
      BY <2>2, Zenon DEF Inductive, ItemsAccounted
  <1> QED
    BY <1>1, InductiveInvariant, PTL

\* Of the interleavings of handler, timer, evictor and senders none duplicates a message
\* that AddToBatch took, and the timer's and the handler's lose none: a message is in one
\* place, and on its way, unless the evictor took the batch that holds it from the heap;
\* there it stays for good.
THEOREM MessagesStayInOnePlace == Spec => []InOnePlace
  <1>1. TypeOK /\ Inductive /\ HeldIsScheduled /\ OncePlaced => InOnePlace
    <2> SUFFICES ASSUME TypeOK, Inductive, HeldIsScheduled, NEW m \in Msgs, NEW q \in Places(m)
                 PROVE  OnItsWay(q) <=> ~Stranded(q)
      BY Zenon DEF OncePlaced, InOnePlace
    <2> SUFFICES ASSUME q[1] = "batch"
                 PROVE  (Locked(q[2]) \/ q[2] \in heap \cup expired) <=> q[2] \notin evicted
      BY Zenon DEF OnItsWay, Stranded
    <2>1. PICK b \in BatchIds : \E i \in DOMAIN held[b] : held[b][i] = m /\ q = <<"batch", b, i>>
      BY PlacesAre
    <2>2. q[2] = b /\ held[b] # <<>>
      BY <2>1
    <2>3. Locked(b) \/ b \in heap \cup expired \cup evicted
      BY <2>2, Zenon DEF HeldIsScheduled
    <2>4. ASSUME b \in evicted PROVE ~Locked(b) /\ b \notin heap \cup expired
      <3>1. heapItem[b] /\ b \notin heap \cup expired
        BY <2>4, Zenon DEF Inductive, ItemsLeaveOnce
      <3>2. ASSUME hpc = "link" PROVE hb # b
        <4>1. hb = created /\ b <= Published
          BY <2>4, <3>2, Zenon DEF Inductive, ListsFresh
        <4>2. Published = created - 1 /\ created \in Nat
          BY <3>2 DEF Published, TypeOK, BatchType
        <4> QED
          BY <4>1, <4>2
      <3> QED
        BY <3>1, <3>2, Zenon DEF Inductive, ItemsLeaveOnce, Locked
    <2> QED
      BY <2>2, <2>3, <2>4, Zenon
  <1> QED
    BY <1>1, InductiveInvariant, NothingForgotten, PlacedAlways, PTL

\* The evictor panics only on a batch that the timer has popped since it was looked up.
THEOREM PanicsOnlyInRace == Spec => []PanicOnlyInTimeoutRace
  <1>1. Inductive => PanicOnlyInTimeoutRace
    BY Zenon DEF Inductive
  <1> QED
    BY <1>1, InductiveInvariant, PTL

-----------------------------------------------------------------------------
\* Headers: under which hops and port a message travels.

Alone(m) == m.emerge \/ NoDelay(m)

\* A batch with header h was made for a message that is not waiting to be added.
Batched(h, waiting) == \E n \in Msgs \ waiting : HeaderOf(n) = h /\ ~Alone(n)

\* Message m may travel in a batch with header h.
Shares(h, m, waiting) == h.routingKey = m.routingKey /\ ~Alone(m) /\ Batched(h, waiting)

OwnHeader(p, waiting) ==
    \A i \in DOMAIN p.msgs : p.hdr = HeaderOf(p.msgs[i]) \/ Shares(p.hdr, p.msgs[i], waiting)

AddedInv ==
    /\ \A i \in DOMAIN inputChan : inputChan[i] \notin toAdd
    /\ hpc # "idle" => hmsg \notin toAdd
    /\ hpc \notin {"idle", "flush"} => ~Alone(hmsg)

HandInv ==
    /\ hpc \in {"append", "link"} => hb <= created /\ Shares(header[hb], hmsg, toAdd)
    /\ hpc = "create" => \A b \in BatchIds :
           b > created - BatchNum[hmsg.port] /\ b <= created => header[b] = HeaderOf(hmsg)

ListInv ==
    \A k \in Keys : \A x \in DOMAIN batches[k] :
        /\ batches[k][x] <= created /\ header[batches[k][x]].routingKey = k
        /\ Batched(header[batches[k][x]], toAdd)

HeldInv ==
    \A b \in BatchIds : /\ held[b] # <<>> => b <= created
                        /\ \A i \in DOMAIN held[b] : Shares(header[b], held[b][i], toAdd)

PacketsInv == \A p \in PacketsOut : OwnHeader(p, toAdd)

HeaderInv == AddedInv /\ HandInv /\ ListInv /\ HeldInv /\ PacketsInv

-----------------------------------------------------------------------------
\* What a list has after an element is added at its end or taken from its front.
LEMMA AppendElements ==
    ASSUME NEW S, NEW s \in Seq(S), NEW e \in S
    PROVE  \A i \in DOMAIN Append(s, e) :
               (i \in DOMAIN s /\ Append(s, e)[i] = s[i]) \/ Append(s, e)[i] = e
  OBVIOUS

LEMMA TailElements ==
    ASSUME NEW S, NEW s \in Seq(S), s # <<>>
    PROVE  /\ \A i \in DOMAIN Tail(s) : i + 1 \in DOMAIN s /\ Tail(s)[i] = s[i + 1]
           /\ 1 \in DOMAIN s /\ Head(s) = s[1]
  OBVIOUS

LEMMA PickIn ==
    ASSUME NEW list \in Seq(BatchIds), list # <<>>, NEW m \in Msgs
    PROVE  \E x \in DOMAIN list : Pick(list, m) = list[x]
  <1>1. Len(list) \in Nat \ {0}
    OBVIOUS
  <1>2. m.userID \in Int
    BY MsgType
  <1>3. (m.userID % Len(list)) \in 0 .. Len(list) - 1
    BY <1>1, <1>2, ModRange, Zenon
  <1>4. (m.userID % Len(list)) + 1 \in DOMAIN list
    BY <1>1, <1>3
  <1> QED
    BY <1>4, Zenon DEF Pick

\* A header that has a message keeps it.
LEMMA HeadersKeep ==
    ASSUME NEW A, NEW B \in SUBSET A
    PROVE  /\ \A h : Batched(h, A) => Batched(h, B)
           /\ \A h, m : Shares(h, m, A) => Shares(h, m, B)
           /\ \A p : OwnHeader(p, A) => OwnHeader(p, B)
  <1>1. \A h : Batched(h, A) => Batched(h, B)
    BY Zenon DEF Batched
  <1>2. \A h, m : Shares(h, m, A) => Shares(h, m, B)
    BY <1>1, Zenon DEF Shares
  <1>3. \A p : OwnHeader(p, A) => OwnHeader(p, B)
    BY ONLY <1>2, Zenon DEF OwnHeader
  <1> QED
    BY <1>1, <1>2, <1>3, Zenon

\* The packets that are out change by what is added to toSend and sending.
LEMMA PacketsUnchanged ==
    ASSUME PacketsInv, UNCHANGED <<toAdd, toSend, sending, sent>>
    PROVE  PacketsInv'
  BY Zenon DEF PacketsInv, PacketsOut

\* A step of the handler that only moves on: its message and the batches are as before.
LEMMA HeadersMove ==
    ASSUME HeaderInv,
           UNCHANGED <<toAdd, inputChan, created, header, held, batches, toSend, sending, sent>>,
           \/ hpc' = "idle"
           \/ hpc' = hpc /\ hmsg' = hmsg /\ hb' = hb
           \/ hpc \notin {"idle", "flush"} /\ hpc' \in {"alloc", "item", "push", "assign"} /\ hmsg' = hmsg
           \/ /\ hpc \notin {"idle", "flush"} /\ hpc' = "append" /\ hmsg' = hmsg
              /\ hb' <= created /\ Shares(header[hb'], hmsg, toAdd)
    PROVE  HeaderInv'
  <1>1. AddedInv'
    BY Zenon DEF HeaderInv, AddedInv
  <1>2. HandInv'
    BY Zenon DEF HeaderInv, HandInv
  <1>3. ListInv' /\ HeldInv'
    BY Zenon DEF HeaderInv, ListInv, HeldInv
  <1> QED
    BY <1>1, <1>2, <1>3, PacketsUnchanged, Zenon DEF HeaderInv

LEMMA AddHeaders ==
    ASSUME TypeOK, HeaderInv, NEW m \in toAdd, AddToBatch(m)
    PROVE  HeaderInv'
  <1>1. /\ toAdd' = toAdd \ {m} /\ inputChan' = Append(inputChan, m)
        /\ UNCHANGED <<hpc, hmsg, hb, created, header, held, batches, toSend, sending, sent>>
    BY Zenon DEF AddToBatch, worker, batchVars, handler, timer, out
  <1>2. AddedInv'
    <2>1. m \in Msgs /\ inputChan \in Seq(Msgs)
      BY Zenon DEF TypeOK, InputType
    <2>2. \A i \in DOMAIN inputChan' : inputChan'[i] \notin toAdd'
      BY <1>1, <2>1, AppendElements DEF HeaderInv, AddedInv
    <2> QED
      BY <1>1, <2>2, Zenon DEF HeaderInv, AddedInv
  <1>3. /\ \A h : Batched(h, toAdd) => Batched(h, toAdd')
        /\ \A h, n : Shares(h, n, toAdd) => Shares(h, n, toAdd')
        /\ \A p : OwnHeader(p, toAdd) => OwnHeader(p, toAdd')
    <2>1. toAdd' \in SUBSET toAdd
      BY <1>1, Zenon
    <2> QED
      BY <2>1, HeadersKeep, Zenon
  <1>4. HandInv'
    BY <1>1, <1>3, Zenon DEF HeaderInv, HandInv
  <1>5. ListInv'
    BY <1>1, <1>3, Zenon DEF HeaderInv, ListInv
  <1>6. HeldInv'
    BY <1>1, <1>3, Zenon DEF HeaderInv, HeldInv
  <1>7. PacketsInv'
    BY <1>1, <1>3, Zenon DEF HeaderInv, PacketsInv, PacketsOut
  <1> QED
    BY <1>2, <1>4, <1>5, <1>6, <1>7, Zenon DEF HeaderInv

LEMMA ReceiveHeaders ==
    ASSUME TypeOK, HeaderInv, Receive
    PROVE  HeaderInv'
  <1>1. /\ inputChan # <<>> /\ inputChan' = Tail(inputChan)
        /\ UNCHANGED <<toAdd, created, header, held, batches, toSend, sending, sent>>
        /\ \/ hpc' = "idle"
           \/ hpc' = "flush" /\ hmsg' = Head(inputChan)
           \/ hpc' = "lookup" /\ hmsg' = Head(inputChan) /\ ~Alone(Head(inputChan))
    BY Zenon DEF Receive, HandlerDone, HandlerAt, Alone, worker, batchVars, timer, out
  <1>2. inputChan \in Seq(Msgs)
    BY Zenon DEF TypeOK, InputType
  <1>3. AddedInv'
    BY <1>1, <1>2, TailElements, Zenon DEF HeaderInv, AddedInv
  <1>4. HandInv'
    BY <1>1, Zenon DEF HandInv
  <1>5. ListInv' /\ HeldInv'
    BY <1>1, Zenon DEF HeaderInv, ListInv, HeldInv
  <1> QED
    BY <1>1, <1>3, <1>4, <1>5, PacketsUnchanged, Zenon DEF HeaderInv

LEMMA LookupHeaders ==
    ASSUME TypeOK, HeaderInv, Lookup
    PROVE  HeaderInv'
  <1>1. /\ hpc = "lookup" /\ hmsg \in Msgs /\ hmsg.routingKey \in Keys
        /\ batches[hmsg.routingKey] \in Seq(BatchIds)
    BY MsgType, Zenon DEF Lookup, TypeOK, HandlerType, WorkerType
  <1>2. /\ UNCHANGED <<toAdd, inputChan, created, header, held, batches, toSend, sending, sent>>
        /\ hmsg' = hmsg
    BY Zenon DEF Lookup, HandlerAt, input, worker, batchVars, timer, out
  <1>3. CASE batches[hmsg.routingKey] = <<>>
    <2>1. hpc' = "alloc"
      BY <1>3, Zenon DEF Lookup, HandlerAt
    <2> QED
      BY <1>1, <1>2, <2>1, HeadersMove, Zenon
  <1>4. CASE batches[hmsg.routingKey] # <<>>
    <2>1. hpc' = "append" /\ hb' = Pick(batches[hmsg.routingKey], hmsg)
      BY <1>4, Zenon DEF Lookup, HandlerAt
    <2>2. PICK x \in DOMAIN batches[hmsg.routingKey] : hb' = batches[hmsg.routingKey][x]
      BY <1>1, <1>4, <2>1, PickIn, Zenon
    <2>3. hb' <= created /\ Shares(header[hb'], hmsg, toAdd)
      BY <1>1, <2>2, Zenon DEF HeaderInv, ListInv, AddedInv, Shares
    <2> QED
      BY <1>1, <1>2, <2>1, <2>3, HeadersMove, Zenon
  <1> QED
    BY <1>3, <1>4, Zenon

\* Fresh batches get the header of the handler's message.
LEMMA AllocateHeaders ==
    ASSUME TypeOK, HeaderInv, hpc \notin {"idle", "flush"}, NEW n \in Nat \ {0}, Allocate(n),
           UNCHANGED <<toAdd, inputChan, hmsg, batches, toSend, sending, sent>>,
           \/ hpc' = "create" /\ n = BatchNum[hmsg.port]
           \/ hpc' = "link" /\ hb' = created + n
    PROVE  HeaderInv'
  <1>1. /\ created' = created + n /\ created \in Nat /\ held' = held
        /\ \A b \in BatchIds : b \in Nat
        /\ created + n \in BatchIds
    <2>1. created' = created + n /\ created' \in BatchIds
      BY AllocateType, Zenon
    <2>2. created \in Nat /\ \A b \in BatchIds : b \in Nat
      BY IdsInt DEF TypeOK, BatchType, BatchIds
    <2>3. held' = held
      BY Zenon DEF Allocate
    <2> QED
      BY <2>1, <2>2, <2>3, Zenon
  <1>2. \A b \in BatchIds : /\ b <= created => header'[b] = header[b] /\ b <= created'
                            /\ b > created /\ b <= created' => header'[b] = HeaderOf(hmsg)
    <2>1. \A b \in BatchIds : header'[b] = IF b \in created + 1 .. created + n
                                           THEN HeaderOf(hmsg) ELSE header[b]
      BY Zenon DEF Allocate
    <2> QED
      BY ONLY <1>1, <2>1, n \in Nat \ {0}
  <1>3. hmsg \in Msgs /\ Shares(HeaderOf(hmsg), hmsg, toAdd)
    BY Zenon DEF HeaderInv, AddedInv, TypeOK, HandlerType, Shares, Batched, HeaderOf
  <1>4. AddedInv'
    BY Zenon DEF HeaderInv, AddedInv
  <1>5. HandInv'
    <2>1. CASE hpc' = "create" /\ n = BatchNum[hmsg.port]
      BY <1>1, <1>2, <2>1, SMTT(20) DEF HandInv
    <2>2. CASE hpc' = "link" /\ hb' = created + n
      <3>1. hb' = created' /\ hb' \in BatchIds /\ hb' > created /\ hb' <= created'
        BY <1>1, <2>2
      <3>2. header'[hb'] = HeaderOf(hmsg)
        BY <1>2, <3>1, Zenon
      <3> QED
        BY <1>3, <2>2, <3>1, <3>2, Zenon DEF HandInv
    <2> QED
      BY <2>1, <2>2, Zenon
  <1>6. ListInv'
    <2>1. \A k \in Keys : \A x \in DOMAIN batches[k] : batches[k][x] \in BatchIds
      <3>1. \A k \in Keys : batches[k] \in Seq(BatchIds)
        BY Zenon DEF TypeOK, WorkerType
      <3> QED
        BY ONLY <3>1
    <2> QED
      BY <1>2, <2>1 DEF HeaderInv, ListInv
  <1>7. HeldInv'
    <2>1. \A b \in BatchIds : \A i \in DOMAIN held[b] : held[b] # <<>>
      BY ONLY TRUE
    <2> QED
      BY <1>1, <1>2, <2>1, Zenon DEF HeaderInv, HeldInv
  <1> QED
    BY <1>4, <1>5, <1>6, <1>7, PacketsUnchanged, Zenon DEF HeaderInv

LEMMA CreateHeaders ==
    ASSUME TypeOK, HeaderInv, CreateBatches
    PROVE  HeaderInv'
  <1> PICK k \in {hmsg.routingKey} : TRUE
    BY Zenon
  <1> PICK n \in {BatchNum[hmsg.port]} : TRUE
    BY Zenon
  <1> PICK fresh \in {[i \in 1 .. n |-> created - n + i]} : TRUE
    BY Zenon
  <1> PICK list \in {IF batches[k] = <<>> THEN fresh ELSE batches[k]} : TRUE
    BY Zenon
  <1>1. /\ hpc = "create" /\ hmsg \in Msgs /\ k \in Keys /\ n \in Nat \ {0} /\ created >= n
        /\ created \in Nat /\ batches[k] \in Seq(BatchIds) /\ k = hmsg.routingKey
    BY MsgType, AggAssumption
       DEF CreateBatches, TypeOK, HandlerType, BatchType, WorkerType, AggAssumption
  <1>2. /\ batches' = [batches EXCEPT ![k] = list] /\ hpc' = "append" /\ hmsg' = hmsg
        /\ hb' = Pick(list, hmsg)
        /\ UNCHANGED <<toAdd, inputChan, created, header, held, toSend, sending, sent>>
    BY Zenon DEF CreateBatches, HandlerAt, input, batchVars, timer, out
  <1>3. \A i \in 1 .. n : /\ created - n + i \in BatchIds
                           /\ created - n + i > created - n /\ created - n + i <= created
    <2>1. PICK c \in Nat : c = created /\ c <= MaxBatches /\ c >= n
      BY <1>1 DEF TypeOK, BatchType
    <2>2. MaxBatches \in Nat
      BY AggAssumption, Zenon DEF AggAssumption
    <2>3. \A i \in 1 .. n : c - n + i \in 1 .. MaxBatches /\ c - n + i > c - n /\ c - n + i <= c
      BY ONLY <1>1, <2>1, <2>2, c \in Nat
    <2> QED
      BY <2>1, <2>3, Zenon DEF BatchIds
  <1>4. fresh \in Seq(BatchIds) /\ fresh # <<>> /\ \A i \in DOMAIN fresh : i \in 1 .. n /\ fresh[i] = created - n + i
    <2> DEFINE f == [i \in 1 .. n |-> created - n + i]
    <2>1. f \in Seq(BatchIds) /\ f # <<>> /\ \A i \in DOMAIN f : i \in 1 .. n /\ f[i] = created - n + i
      <3>0. \A i \in 1 .. n : created - n + i \in BatchIds
        BY <1>3, Zenon
      <3>1. f \in [1 .. n -> BatchIds]
        BY ONLY <3>0, Zenon
      <3>2. n \in Nat /\ n >= 1
        BY ONLY <1>1
      <3> QED
        BY ONLY <3>1, <3>2
    <2>2. fresh = f
      BY Zenon
    <2> HIDE DEF f
    <2> QED
      BY <2>1, <2>2, Zenon
  <1>5. /\ list \in Seq(BatchIds) /\ list # <<>>
        /\ list = IF batches[k] = <<>> THEN fresh ELSE batches[k]
    <2>1. list = IF batches[k] = <<>> THEN fresh ELSE batches[k]
      BY Zenon
    <2> QED
      BY <1>1, <1>4, <2>1, Zenon
  <1>6. Shares(HeaderOf(hmsg), hmsg, toAdd)
    BY <1>1, Zenon DEF HeaderInv, AddedInv, Shares, Batched, HeaderOf
  <1>7. \A x \in DOMAIN list :
            /\ list[x] <= created /\ header[list[x]].routingKey = k
            /\ Batched(header[list[x]], toAdd)
    <2>1. CASE batches[k] = <<>>
      <3>1. ASSUME NEW x \in DOMAIN list
            PROVE  list[x] <= created /\ header[list[x]] = HeaderOf(hmsg)
        <4>1. x \in 1 .. n /\ list[x] = created - n + x
          BY <1>4, <1>5, <2>1, <3>1, Zenon
        <4>2. list[x] \in BatchIds /\ list[x] > created - n /\ list[x] <= created
          BY <1>3, <4>1, Zenon
        <4> QED
          BY <1>1, <4>2, Zenon DEF HeaderInv, HandInv
      <3> QED
        BY <1>1, <1>6, <3>1, Zenon DEF Shares
    <2>2. CASE batches[k] # <<>>
      BY <1>1, <1>5, <2>2, ZenonT(60) DEF HeaderInv, ListInv
    <2> QED
      BY <2>1, <2>2, Zenon
  <1>8. AddedInv'
    BY <1>1, <1>2, Zenon DEF HeaderInv, AddedInv
  <1>9. HandInv'
    <2>1. PICK x \in DOMAIN list : hb' = list[x]
      BY <1>1, <1>2, <1>5, PickIn, ZenonT(60)
    <2>2. hb' <= created /\ Shares(header[hb'], hmsg, toAdd)
      BY <1>1, <1>6, <1>7, <2>1, Zenon DEF Shares
    <2> QED
      BY <1>2, <2>2, Zenon DEF HandInv
  <1>10. ListInv'
    <2>1. \A j \in Keys : batches'[j] = IF j = k THEN list ELSE batches[j]
      BY <1>1, <1>2, Zenon DEF TypeOK, WorkerType
    <2>2. created' = created /\ header' = header /\ toAdd' = toAdd
      BY <1>2, Zenon
    <2> SUFFICES ASSUME NEW j \in Keys, NEW x \in DOMAIN batches'[j]
                 PROVE  /\ batches'[j][x] <= created /\ header[batches'[j][x]].routingKey = j
                        /\ Batched(header[batches'[j][x]], toAdd)
      BY <2>2, Zenon DEF ListInv
    <2>3. CASE j = k
      BY <1>7, <2>1, <2>3, Zenon
    <2>4. CASE j # k
      BY <2>1, <2>4, Zenon DEF HeaderInv, ListInv
    <2> QED
      BY <2>3, <2>4, Zenon
  <1>11. HeldInv'
    BY <1>2, Zenon DEF HeaderInv, HeldInv
  <1> QED
    BY <1>2, <1>8, <1>9, <1>10, <1>11, PacketsUnchanged, ZenonT(60) DEF HeaderInv

LEMMA PutHeaders ==
    ASSUME TypeOK, HeaderInv, hpc \in {"append", "link"}, PutMessage(hb, hmsg),
           UNCHANGED <<toAdd, created, header>>
    PROVE  HeldInv'
  <1>1. /\ hb \in BatchIds /\ hmsg \in Msgs /\ held[hb] \in Seq(Msgs)
        /\ hb <= created /\ Shares(header[hb], hmsg, toAdd)
    BY Zenon DEF TypeOK, HandlerType, BatchType, HeaderInv, HandInv
  <1>2. \A b \in BatchIds : held'[b] = IF b = hb THEN Append(held[hb], hmsg) ELSE held[b]
    BY <1>1, Zenon DEF PutMessage, TypeOK, BatchType
  <1> SUFFICES ASSUME NEW b \in BatchIds
               PROVE  /\ held'[b] # <<>> => b <= created
                      /\ \A i \in DOMAIN held'[b] : Shares(header[b], held'[b][i], toAdd)
    BY Zenon DEF HeldInv
  <1>3. CASE b = hb
    <2>1. held'[b] = Append(held[hb], hmsg)
      BY <1>2, <1>3, Zenon
    <2>2. \A i \in DOMAIN Append(held[hb], hmsg) :
              \/ i \in DOMAIN held[hb] /\ Append(held[hb], hmsg)[i] = held[hb][i]
              \/ Append(held[hb], hmsg)[i] = hmsg
      BY <1>1, AppendElements, Zenon
    <2>3. \A i \in DOMAIN held'[b] :
              (i \in DOMAIN held[b] /\ held'[b][i] = held[b][i]) \/ held'[b][i] = hmsg
      BY <1>3, <2>1, <2>2, Zenon
    <2> QED
      BY <1>1, <1>3, <2>3, Zenon DEF HeaderInv, HeldInv
  <1>4. CASE b # hb
    BY <1>2, <1>4, Zenon DEF HeaderInv, HeldInv
  <1> QED
    BY <1>3, <1>4, Zenon

LEMMA AppendHeaders ==
    ASSUME TypeOK, HeaderInv, AppendToBatch
    PROVE  HeaderInv'
  <1>1. /\ hpc = "append" /\ PutMessage(hb, hmsg)
        /\ UNCHANGED <<toAdd, inputChan, created, header, batches, toSend, sending, sent>>
        /\ hpc' = "idle" \/ (hpc' = "item" /\ hmsg' = hmsg)
    BY Zenon DEF AppendToBatch, Schedule, HandlerDone, HandlerAt, input, worker, timer, out
  <1>2. AddedInv' /\ HandInv'
    BY <1>1, Zenon DEF HeaderInv, AddedInv, HandInv
  <1>3. ListInv'
    BY <1>1, Zenon DEF HeaderInv, ListInv
  <1> QED
    BY <1>1, <1>2, <1>3, PutHeaders, PacketsUnchanged, Zenon DEF HeaderInv

LEMMA LinkHeaders ==
    ASSUME TypeOK, HeaderInv, LinkBatch
    PROVE  HeaderInv'
  <1>1. /\ hpc = "link" /\ (PutMessage(hb, hmsg) \/ held' = held)
        /\ batches' = [batches EXCEPT ![hmsg.routingKey] = Append(@, hb)]
        /\ UNCHANGED <<toAdd, inputChan, created, header, toSend, sending, sent>>
        /\ hpc' = "idle" \/ (hpc' = "item" /\ hmsg' = hmsg)
    BY Zenon DEF LinkBatch, Schedule, HandlerDone, HandlerAt, input, timer
  <1>2. AddedInv' /\ HandInv'
    BY <1>1, Zenon DEF HeaderInv, AddedInv, HandInv
  <1>3. HeldInv'
    <2>1. CASE held' = held
      BY <1>1, <2>1, Zenon DEF HeaderInv, HeldInv
    <2> QED
      BY <1>1, <2>1, PutHeaders, Zenon
  <1>4. ListInv'
    <2>1. PICK k \in Keys : k = hmsg.routingKey
      BY <1>1, MsgType, Zenon DEF TypeOK, HandlerType
    <2>2. /\ hb \in BatchIds /\ batches[k] \in Seq(BatchIds)
          /\ hb <= created /\ header[hb].routingKey = k /\ Batched(header[hb], toAdd)
      BY <1>1, <2>1, Zenon DEF HeaderInv, HandInv, Shares, TypeOK, HandlerType, WorkerType
    <2>3. \A j \in Keys : batches'[j] = IF j = k THEN Append(batches[k], hb) ELSE batches[j]
      BY <1>1, <2>1, Zenon DEF TypeOK, WorkerType
    <2> SUFFICES ASSUME NEW j \in Keys, NEW x \in DOMAIN batches'[j]
                 PROVE  /\ batches'[j][x] <= created /\ header[batches'[j][x]].routingKey = j
                        /\ Batched(header[batches'[j][x]], toAdd)
      <3>1. created' = created /\ header' = header /\ toAdd' = toAdd
        BY <1>1, Zenon
      <3> QED
        BY <3>1, Zenon DEF ListInv
    <2>4. CASE j = k
      <3>1. PICK list \in Seq(BatchIds) : list = batches[k]
        BY <2>2, Zenon
      <3>2. batches'[j] = Append(list, hb)
        BY <2>3, <2>4, <3>1, Zenon
      <3>3. \A i \in DOMAIN Append(list, hb) :
                (i \in DOMAIN list /\ Append(list, hb)[i] = list[i]) \/ Append(list, hb)[i] = hb
        BY <2>2, AppendElements, Zenon
      <3>4. (x \in DOMAIN list /\ batches'[j][x] = list[x]) \/ batches'[j][x] = hb
        BY <3>2, <3>3, Zenon
      <3> QED
        BY <2>2, <2>4, <3>1, <3>4, ZenonT(60) DEF HeaderInv, ListInv
    <2>5. CASE j # k
      BY <2>3, <2>5, Zenon DEF HeaderInv, ListInv
    <2> QED
      BY <2>4, <2>5, Zenon
  <1> QED
    BY <1>1, <1>2, <1>3, <1>4, PacketsUnchanged, Zenon DEF HeaderInv

\* A packet of one message has the header of that message.
LEMMA EmergeHeaders ==
    ASSUME TypeOK, HeaderInv, FlushEmerge
    PROVE  HeaderInv'
  <1>1. PICK p \in {Packet(HeaderOf(hmsg), <<hmsg>>, PayloadLen(HeaderSize + SubSize(hmsg)))} :
            sending' = sending \cup {p}
    BY Zenon DEF FlushEmerge
  <1>2. OwnHeader(p, toAdd)
    BY ONLY DEF OwnHeader, Packet
  <1>3. /\ hpc' = "idle"
        /\ UNCHANGED <<toAdd, inputChan, created, header, held, batches, toSend, sent>>
    BY Zenon DEF FlushEmerge, EmergeDone, HandlerDone, input, worker, batchVars, timer
  <1>4. AddedInv' /\ HandInv'
    BY <1>3, Zenon DEF HeaderInv, AddedInv, HandInv
  <1>5. ListInv' /\ HeldInv'
    BY <1>3, Zenon DEF HeaderInv, ListInv, HeldInv
  <1>6. PacketsInv'
    BY <1>1, <1>2, <1>3, Zenon DEF HeaderInv, PacketsInv, PacketsOut
  <1> QED
    BY <1>4, <1>5, <1>6, Zenon DEF HeaderInv

\* The packets that are out once a packet is flushed, sent, or made of a batch.
LEMMA FlushedOut ==
    ASSUME TypeOK, FlushNext
    PROVE  PacketsOut' \subseteq PacketsOut
  <1>1. /\ toSend \in Seq(Packets) /\ toSend # <<>> /\ toSend' = Tail(toSend)
        /\ sending' = sending \cup {Head(toSend)} /\ sent' = sent
    BY Zenon DEF FlushNext, TypeOK, TimerType
  <1>2. {toSend'[i] : i \in DOMAIN toSend'} \subseteq {toSend[i] : i \in DOMAIN toSend}
    BY <1>1, TailElements
  <1>3. Head(toSend) \in {toSend[i] : i \in DOMAIN toSend}
    BY <1>1, TailElements, Zenon
  <1> QED
    BY <1>1, <1>2, <1>3, Zenon DEF PacketsOut

LEMMA SerializedOut ==
    ASSUME TypeOK, NEW b \in expired, Serialize(b)
    PROVE  PacketsOut' \subseteq PacketsOut \cup {Packet(header[b], held[b], payloadLen[b])}
  <1>1. PICK p \in {Packet(header[b], held[b], payloadLen[b])} : toSend' = Append(toSend, p)
    BY Zenon DEF Serialize
  <1>2. p \in Packets /\ toSend \in Seq(Packets)
    <2>1. /\ b \in BatchIds /\ header[b] \in Headers \cup {None} /\ held[b] \in Seq(Msgs)
          /\ payloadLen[b] \in Nat
      BY Uint16Nat, Zenon DEF TypeOK, BatchType, TimerType
    <2> QED
      BY <2>1, PacketType, ZenonT(60) DEF TypeOK, TimerType
  <1>3. ASSUME NEW i \in DOMAIN toSend'
        PROVE  toSend'[i] \in {toSend[j] : j \in DOMAIN toSend} \cup {p}
    <2>1. (i \in DOMAIN toSend /\ toSend'[i] = toSend[i]) \/ toSend'[i] = p
      BY <1>1, <1>2, AppendElements, Zenon
    <2> QED
      BY <2>1, Zenon
  <1>4. sending' = sending /\ sent' = sent
    BY Zenon DEF Serialize, out
  <1> QED
    BY <1>3, <1>4, Zenon DEF PacketsOut

LEMMA SerializeHeaders ==
    ASSUME TypeOK, HeaderInv, NEW b \in expired, Serialize(b)
    PROVE  HeaderInv'
  <1>1. PICK p \in {Packet(header[b], held[b], payloadLen[b])} :
            PacketsOut' \subseteq PacketsOut \cup {p}
    BY SerializedOut, Zenon
  <1>2. b \in BatchIds
    BY Zenon DEF TypeOK, TimerType
  <1>3. OwnHeader(p, toAdd)
    <2>1. p.hdr = header[b] /\ p.msgs = held[b]
      <3>1. p = Packet(header[b], held[b], payloadLen[b])
        BY Zenon
      <3> QED
        BY ONLY <3>1, Zenon DEF Packet
    <2> QED
      BY <1>2, <2>1, Zenon DEF OwnHeader, HeaderInv, HeldInv
  <1>4. /\ UNCHANGED <<toAdd, inputChan, hpc, hmsg, hb, created, header, batches>>
        /\ held' = [held EXCEPT ![b] = <<>>]
    BY Zenon DEF Serialize, ResetBatch, input, worker, handler
  <1>5. AddedInv' /\ HandInv'
    BY <1>4, Zenon DEF HeaderInv, AddedInv, HandInv
  <1>6. ListInv'
    BY <1>4, Zenon DEF HeaderInv, ListInv
  <1>7. HeldInv'
    <2>1. \A c \in BatchIds : held'[c] = IF c = b THEN <<>> ELSE held[c]
      BY <1>4, Zenon DEF TypeOK, BatchType
    <2> QED
      BY <1>4, <2>1 DEF HeaderInv, HeldInv
  <1>8. PacketsInv'
    BY <1>1, <1>3, <1>4, Zenon DEF HeaderInv, PacketsInv
  <1> QED
    BY <1>5, <1>6, <1>7, <1>8, Zenon DEF HeaderInv

\* A step that only takes packets on, or lists away.
LEMMA HeadersStay ==
    ASSUME HeaderInv, UNCHANGED <<toAdd, inputChan, hpc, hmsg, hb, created, header, held>>,
           \A k \in Keys : batches'[k] = batches[k] \/ batches'[k] = <<>>,
           PacketsOut' \subseteq PacketsOut
    PROVE  HeaderInv'
  <1>1. AddedInv' /\ HandInv'
    BY Zenon DEF HeaderInv, AddedInv, HandInv
  <1>2. ListInv'
    <2> SUFFICES ASSUME NEW k \in Keys, NEW x \in DOMAIN batches'[k]
                 PROVE  /\ batches'[k][x] <= created /\ header[batches'[k][x]].routingKey = k
                        /\ Batched(header[batches'[k][x]], toAdd)
      BY Zenon DEF ListInv
    <2>1. batches'[k] # <<>>
      BY ONLY x \in DOMAIN batches'[k]
    <2>2. batches'[k] = batches[k]
      BY <2>1, Zenon
    <2> QED
      BY <2>2, Zenon DEF HeaderInv, ListInv
  <1>3. HeldInv' /\ PacketsInv'
    BY Zenon DEF HeaderInv, HeldInv, PacketsInv
  <1> QED
    BY <1>1, <1>2, <1>3, Zenon DEF HeaderInv

LEMMA HeadersUnchanged ==
    ASSUME HeaderInv, UNCHANGED <<toAdd, inputChan, handler, created, header, held, batches>>,
           UNCHANGED <<toSend, sending, sent>>
    PROVE  HeaderInv'
  <1>1. PacketsOut' \subseteq PacketsOut
    BY Zenon DEF PacketsOut
  <1> QED
    BY <1>1, HeadersStay, Zenon DEF handler

\* Every step keeps the headers right.
LEMMA HeaderStep ==
    ASSUME TypeOK, HeaderInv, [Next]_vars
    PROVE  HeaderInv'
  <1>1. CASE Tick
    BY <1>1, HeadersUnchanged, Zenon DEF Tick, input, worker, batchVars, handler, timer, out
  <1>2. CASE StartCheck
    BY <1>2, HeadersUnchanged, Zenon DEF StartCheck, input, worker, batchVars, handler, timer, out
  <1>3. CASE PopExpired
    BY <1>3, HeadersUnchanged, Zenon DEF PopExpired, input, worker, batchVars, handler, timer, out
  <1>4. CASE EvictCopy
    BY <1>4, HeadersUnchanged, Zenon DEF EvictCopy, input, worker, batchVars, handler, timer, out
  <1>5. ASSUME NEW k \in Keys, EvictSkip(k) PROVE HeaderInv'
    BY <1>5, HeadersUnchanged, Zenon DEF EvictSkip, input, worker, batchVars, handler, timer, out
  <1>6. ASSUME NEW k \in Keys, EvictMark(k) PROVE HeaderInv'
    BY <1>6, HeadersUnchanged, Zenon DEF EvictMark, input, worker, batchVars, handler, timer, out
  <1>7. CASE EvictLock
    BY <1>7, HeadersUnchanged, Zenon DEF EvictLock, input, worker, batchVars, handler, timer, out
  <1>8. CASE EvictItem
    BY <1>8, HeadersUnchanged, Zenon DEF EvictItem, input, worker, batchVars, handler, timer, out
  <1>9. ASSUME NEW m \in toAdd, AddToBatch(m) PROVE HeaderInv'
    BY <1>9, AddHeaders, Zenon
  <1>10. CASE Receive
    BY <1>10, ReceiveHeaders, Zenon
  <1>11. CASE FlushEmerge
    BY <1>11, EmergeHeaders, Zenon
  <1>12. CASE Lookup
    BY <1>12, LookupHeaders
  <1>13. CASE NewBatches
    <2>1. PICK n \in Nat \ {0} : n = BatchNum[hmsg.port]
      BY <1>13, MsgType, AggAssumption, Zenon DEF NewBatches, TypeOK, HandlerType, AggAssumption
    <2> QED
      BY <1>13, <2>1, AllocateHeaders, Zenon
         DEF NewBatches, HandlerAt, input, worker, timer, out
  <1>14. CASE ReplaceBatch
    <2>1. PICK n \in Nat \ {0} : n = 1
      BY OneIsSome, Zenon
    <2> QED
      BY <1>14, <2>1, AllocateHeaders, Zenon
         DEF ReplaceBatch, HandlerAt, input, worker, timer, out
  <1>15. CASE CreateBatches
    BY <1>15, CreateHeaders
  <1>16. CASE AppendToBatch
    BY <1>16, AppendHeaders
  <1>17. CASE LinkBatch
    BY <1>17, LinkHeaders
  <1>18. CASE NewItem \/ PushItem \/ AssignItem
    BY <1>18, HeadersMove
       DEF NewItem, PushItem, AssignItem, HandlerAt, HandlerDone, input, worker, batchVars, timer, out
  <1>19. ASSUME NEW b \in expired, Serialize(b) PROVE HeaderInv'
    BY <1>19, SerializeHeaders
  <1>20. CASE FlushNext
    BY <1>20, FlushedOut, HeadersStay, Zenon DEF FlushNext, input, worker, batchVars, handler
  <1>21. ASSUME NEW p \in sending, SendOk(p) \/ SendError(p) PROVE HeaderInv'
    <2>1. PacketsOut' \subseteq PacketsOut
      BY <1>21, Zenon DEF PacketsOut, SendOk, SendError, timer
    <2> QED
      BY <1>21, <2>1, HeadersStay, Zenon DEF SendOk, SendError, input, worker, batchVars, handler
  <1>27. CASE EvictTest
    BY <1>27, HeadersUnchanged, Zenon DEF EvictTest, input, worker, batchVars, handler, timer, out
  <1>22. CASE EvictKey
    <2>1. PacketsOut' \subseteq PacketsOut
      BY <1>22, Zenon DEF PacketsOut, EvictKey, timer, out
    <2>2. \A k \in Keys : batches'[k] = batches[k] \/ batches'[k] = <<>>
      BY <1>22, Zenon DEF EvictKey, TypeOK, WorkerType
    <2> QED
      BY <1>22, <2>1, <2>2, HeadersStay, Zenon DEF EvictKey, input, batchVars, handler
  <1>23. CASE UNCHANGED vars
    BY <1>23, HeadersUnchanged, Zenon DEF vars, input, worker, batchVars, handler, timer, out
  <1>24. CASE Handler
    BY <1>24, <1>10, <1>11, <1>12, <1>13, <1>14, <1>15, <1>16, <1>17, <1>18, ZenonT(60) DEF Handler
  <1>25. CASE Timer
    BY <1>25, <1>2, <1>3, <1>19, <1>20, ZenonT(60) DEF Timer
  <1>26. CASE Evictor
    BY <1>26, <1>4, <1>5, <1>6, <1>7, <1>8, <1>22, <1>27, ZenonT(60) DEF Evictor
  <1> QED
    BY <1>1, <1>9, <1>21, <1>23, <1>24, <1>25, <1>26, ZenonT(60) DEF Next, Sender

LEMMA HeaderInit == Init => HeaderInv
  <1> SUFFICES ASSUME Init PROVE HeaderInv
    OBVIOUS
  <1>1. AddedInv /\ HandInv
    <2>1. hpc = "idle" /\ inputChan = <<>>
      BY Zenon DEF Init
    <2> QED
      BY ONLY <2>1 DEF AddedInv, HandInv
  <1>2. ListInv
    <2>1. batches = [k \in Keys |-> <<>>]
      BY Zenon DEF Init
    <2> QED
      BY ONLY <2>1 DEF ListInv
  <1>3. HeldInv
    <2>1. held = [b \in BatchIds |-> <<>>]
      BY Zenon DEF Init
    <2> QED
      BY ONLY <2>1 DEF HeldInv
  <1>4. PacketsInv
    <2>1. toSend = <<>> /\ sending = {} /\ sent = {}
      BY Zenon DEF Init
    <2> QED
      BY ONLY <2>1 DEF PacketsInv, PacketsOut
  <1> QED
    BY <1>1, <1>2, <1>3, <1>4, Zenon DEF HeaderInv

LEMMA HeadersAlways == Spec => [](TypeOK /\ HeaderInv)
  <1>1. TypeOK /\ HeaderInv /\ [Next]_vars => HeaderInv'
    BY HeaderStep, Zenon
  <1> QED
    BY <1>1, HeaderInit, TypeCorrect, PTL DEF Spec

\* handleMsg keys batches by the hops alone: for any messages and interleaving, a
\* message leaves under its own port, or under that of a batched message of its key
\* that was added before.
THEOREM PortsComeFromOwnKey == Spec => []PortOfOwnKey
  <1>1. TypeOK /\ HeaderInv => PortOfOwnKey
    <2> SUFFICES ASSUME TypeOK, HeaderInv, NEW p \in PacketsOut, NEW i \in DOMAIN p.msgs,
                        p.msgs[i].port # p.hdr.port
                 PROVE  /\ ~Alone(p.msgs[i])
                        /\ \E n \in Msgs \ (toAdd \cup {p.msgs[i]}) :
                               HeaderOf(n) = p.hdr /\ ~Alone(n)
      BY Zenon DEF PortOfOwnKey, Alone
    <2>1. p.hdr # HeaderOf(p.msgs[i])
      <3>1. \A m : HeaderOf(m).port = m.port
        BY ONLY Zenon DEF HeaderOf
      <3> QED
        BY <3>1, Zenon
    <2>2. Shares(p.hdr, p.msgs[i], toAdd)
      BY <2>1, Zenon DEF HeaderInv, PacketsInv, OwnHeader
    <2> QED
      BY <2>1, <2>2, Zenon DEF Shares, Batched
  <1> QED
    BY <1>1, HeadersAlways, PTL

-----------------------------------------------------------------------------
\* Lengths: the bytes of a packet are those of its messages.

\* The header's length field is the one of the messages in the batch.
Current(b) == payloadLen[b] = PayloadLen(wp[b])

BytesInv ==
    \A b \in BatchIds :
        /\ \E n \in Nat : wp[b] = HeaderSize + n /\ AddsUp(held[b], n)
        /\ wp[b] = HeaderSize \/ wp[b] <= BufferSize
        /\ b > created => wp[b] = HeaderSize /\ payloadLen[b] = 0

PlaceInv ==
    /\ hpc \in {"link", "item", "push"} => Current(hb)
    /\ hpc \in {"item", "push"} => ~heapItem[hb]
    /\ hpc = "link" => hb = created
    /\ hpc = "flush" => Fits(HeaderSize, hmsg, EmergeBuf(hmsg))

ItemInv ==
    /\ heap \cap expired = {}
    /\ \A b \in heap \cup expired : Current(b) /\ (heapItem[b] \/ (hpc = "assign" /\ hb = b))

LengthInv == BytesInv /\ PlaceInv /\ ItemInv

\* A packet is whole, its length taken modulo 2^16; and how long it can be.
Whole(p) ==
    \E n \in Nat :
        /\ AddsUp(p.msgs, n) /\ p.bytes = HeaderSize + (n % Uint16)
        /\ n = 0 \/ HeaderSize + n <= BufferSize \/ \E m \in Msgs : n = SubSize(m)

WholeInv == \A p \in PacketsOut : Whole(p)

-----------------------------------------------------------------------------
\* Steps that leave the contents of the batches alone.
LEMMA LengthsUnchanged ==
    ASSUME LengthInv, UNCHANGED <<held, wp, payloadLen, created, heapItem, hpc, hmsg, hb>>,
           heap' \cup expired' \subseteq heap \cup expired, heap' \cap expired' = {}
    PROVE  LengthInv'
  <1>1. BytesInv'
    BY Zenon DEF LengthInv, BytesInv
  <1>2. PlaceInv'
    BY Zenon DEF LengthInv, PlaceInv, Current
  <1>3. ItemInv'
    BY Zenon DEF LengthInv, ItemInv, Current
  <1> QED
    BY <1>1, <1>2, <1>3, ZenonT(60) DEF LengthInv

LEMMA LengthsMove ==
    ASSUME LengthInv, hpc # "assign", UNCHANGED <<held, wp, payloadLen, created, heapItem>>,
           UNCHANGED <<heap, expired>>,
           \/ hpc' \in {"idle", "lookup", "alloc", "append"}
           \/ hpc' = "flush" /\ Fits(HeaderSize, hmsg', EmergeBuf(hmsg'))
    PROVE  LengthInv'
  <1>1. BytesInv'
    BY Zenon DEF LengthInv, BytesInv
  <1>2. PlaceInv'
    BY Zenon DEF LengthInv, PlaceInv
  <1>3. ItemInv'
    BY Zenon DEF LengthInv, ItemInv, Current
  <1> QED
    BY <1>1, <1>2, <1>3, ZenonT(60) DEF LengthInv

LEMMA EmptyPayload == PayloadLen(HeaderSize) = 0
  BY ONLY DEF PayloadLen, HeaderSize, Uint16

LEMMA AllocateLengths ==
    ASSUME TypeOK, LengthInv, hpc # "assign", NEW n \in Nat \ {0}, Allocate(n), hpc # "idle",
           UNCHANGED <<heap, expired>>,
           hpc' = "create" \/ (hpc' = "link" /\ hb' = created + n)
    PROVE  LengthInv'
  <1>1. /\ created' = created + n /\ created \in Nat /\ created + n \in BatchIds
        /\ \A b \in BatchIds : b \in Nat
        /\ UNCHANGED <<held, wp, payloadLen, heapItem>>
    <2>1. created' = created + n /\ created' \in BatchIds
      BY AllocateType, Zenon
    <2>2. created \in Nat /\ \A b \in BatchIds : b \in Nat
      BY IdsInt, SMTT(20) DEF TypeOK, BatchType, BatchIds
    <2>3. UNCHANGED <<held, wp, payloadLen, heapItem>>
      BY Zenon DEF Allocate
    <2> QED
      BY <2>1, <2>2, <2>3, Zenon
  <1>2. \A b \in BatchIds : b > created' => b > created
    BY ONLY <1>1
  <1>3. BytesInv'
    BY <1>1, <1>2, Zenon DEF LengthInv, BytesInv
  <1>4. PlaceInv'
    <2>1. hpc' = "link" => hb' = created' /\ Current(hb)'
      <3>1. created' \in BatchIds /\ created' > created
        BY ONLY <1>1
      <3>2. wp[created'] = HeaderSize /\ payloadLen[created'] = 0
        BY <3>1, Zenon DEF LengthInv, BytesInv
      <3> QED
        BY <1>1, <3>2, EmptyPayload, Zenon DEF Current
    <2> QED
      BY <2>1, Zenon DEF PlaceInv
  <1>5. ItemInv'
    BY <1>1, Zenon DEF LengthInv, ItemInv, Current
  <1> QED
    BY <1>3, <1>4, <1>5 DEF LengthInv

\* AppendUserPacket counts the message in Wp and PayloadLen.
LEMMA PutLengths ==
    ASSUME TypeOK, HeaderInv, LengthInv, hpc \in {"append", "link"}, PutMessage(hb, hmsg),
           Fits(wp[hb], hmsg, BufferSize), UNCHANGED created
    PROVE  /\ BytesInv' /\ payloadLen'[hb] = PayloadLen(wp'[hb])
           /\ \A b \in BatchIds \ {hb} : wp'[b] = wp[b] /\ payloadLen'[b] = payloadLen[b]
  <1>1. /\ hb \in BatchIds /\ hmsg \in Msgs /\ held[hb] \in Seq(Msgs) /\ hb <= created
        /\ SubSize(hmsg) \in Nat
    BY MsgType, Zenon DEF TypeOK, HandlerType, BatchType, HeaderInv, HandInv
  <1>2. /\ held'[hb] = Append(held[hb], hmsg) /\ wp'[hb] = wp[hb] + SubSize(hmsg)
        /\ payloadLen'[hb] = PayloadLen(wp[hb] + SubSize(hmsg))
    BY <1>1, Zenon DEF PutMessage, TypeOK, BatchType
  <1>3. \A b \in BatchIds \ {hb} :
            held'[b] = held[b] /\ wp'[b] = wp[b] /\ payloadLen'[b] = payloadLen[b]
    BY Zenon DEF PutMessage, TypeOK, BatchType
  <1>4. payloadLen'[hb] = PayloadLen(wp'[hb])
    BY <1>2, Zenon
  <1>5. BytesInv'
    <2> SUFFICES ASSUME NEW b \in BatchIds
                 PROVE  /\ \E n \in Nat : wp'[b] = HeaderSize + n /\ AddsUp(held'[b], n)
                        /\ wp'[b] = HeaderSize \/ wp'[b] <= BufferSize
                        /\ b > created => wp'[b] = HeaderSize /\ payloadLen'[b] = 0
      BY Zenon DEF BytesInv
    <2>1. CASE b = hb
      <3>1. PICK n \in Nat : wp[hb] = HeaderSize + n /\ AddsUp(held[hb], n)
        BY <1>1, Zenon DEF LengthInv, BytesInv
      <3>2. n + SubSize(hmsg) \in Nat /\ AddsUp(held'[hb], n + SubSize(hmsg))
        BY <1>1, <1>2, <3>1, TotalOfMore, ZenonT(60)
      <3>3. wp'[hb] = HeaderSize + (n + SubSize(hmsg))
        BY <1>1, <1>2, <3>1 DEF HeaderSize
      <3>4. wp'[hb] <= BufferSize
        BY <1>2, Zenon DEF Fits
      <3>5. ~(b > created)
        <4>1. created \in Int /\ hb \in Int
          BY <1>1, IdsInt DEF TypeOK, BatchType
        <4> QED
          BY ONLY <1>1, <2>1, <4>1
      <3> QED
        BY <2>1, <3>2, <3>3, <3>4, <3>5, ZenonT(60)
    <2>2. CASE b # hb
      BY <1>3, <2>2, Zenon DEF LengthInv, BytesInv
    <2> QED
      BY <2>1, <2>2, Zenon
  <1> QED
    BY <1>3, <1>4, <1>5, Zenon

\* A message put in the handler's batch, or dropped for its size; then Schedule.
LEMMA ScheduleLengths ==
    ASSUME TypeOK, LengthInv, hpc \in {"append", "link"}, BytesInv', Schedule(hb),
           payloadLen'[hb] = PayloadLen(wp'[hb]),
           \A b \in BatchIds \ {hb} : wp'[b] = wp[b] /\ payloadLen'[b] = payloadLen[b],
           UNCHANGED <<heapItem, heap, expired>>
    PROVE  LengthInv'
  <1>1. hb \in BatchIds /\ heap \cup expired \subseteq BatchIds
    BY Zenon DEF TypeOK, HandlerType, WorkerType, TimerType
  <1>2. \/ hpc' = "idle"
        \/ hpc' = "item" /\ hb' = hb /\ ~heapItem[hb]
    BY Zenon DEF Schedule, HandlerDone, HandlerAt
  <1>3. PlaceInv'
    BY <1>2, Zenon DEF PlaceInv, Current
  <1>4. ItemInv'
    BY <1>1, Zenon DEF LengthInv, ItemInv, Current
  <1> QED
    BY <1>3, <1>4, ZenonT(60) DEF LengthInv

LEMMA AppendLengths ==
    ASSUME TypeOK, HeaderInv, LengthInv, AppendToBatch
    PROVE  LengthInv'
  <1>1. /\ hpc = "append" /\ PutMessage(hb, hmsg) /\ Fits(wp[hb], hmsg, BufferSize)
        /\ Schedule(hb) /\ UNCHANGED <<created, heapItem, heap, expired>>
    BY Zenon DEF AppendToBatch, worker, timer
  <1> QED
    BY <1>1, PutLengths, ScheduleLengths, ZenonT(60)

LEMMA LinkLengths ==
    ASSUME TypeOK, HeaderInv, LengthInv, LinkBatch
    PROVE  LengthInv'
  <1>1. /\ hpc = "link" /\ Schedule(hb) /\ UNCHANGED <<created, heapItem, heap, expired>>
        /\ \/ PutMessage(hb, hmsg) /\ Fits(wp[hb], hmsg, BufferSize)
           \/ UNCHANGED <<held, wp, payloadLen>>
    BY Zenon DEF LinkBatch, timer
  <1>2. CASE PutMessage(hb, hmsg) /\ Fits(wp[hb], hmsg, BufferSize)
    BY <1>1, <1>2, PutLengths, ScheduleLengths, ZenonT(60)
  <1>3. CASE UNCHANGED <<held, wp, payloadLen>>
    <2>1. BytesInv'
      BY <1>1, <1>3, Zenon DEF LengthInv, BytesInv
    <2>2. payloadLen'[hb] = PayloadLen(wp'[hb])
      BY <1>1, <1>3, Zenon DEF LengthInv, PlaceInv, Current
    <2> QED
      BY <1>1, <1>3, <2>1, <2>2, ScheduleLengths, ZenonT(60)
  <1> QED
    BY <1>1, <1>2, <1>3, ZenonT(60)

\* The item of a batch is in the heap or popped, never both, until b.heapItem is reset.
LEMMA ItemLengths ==
    ASSUME TypeOK, LengthInv, NewItem \/ PushItem \/ AssignItem
    PROVE  LengthInv'
  <1>1. /\ UNCHANGED <<held, wp, payloadLen, created, expired>> /\ hb \in BatchIds
        /\ \/ hpc = "item" /\ hpc' = "push" /\ hb' = hb /\ UNCHANGED <<heapItem, heap>>
           \/ /\ hpc = "push" /\ hpc' = "assign" /\ hb' = hb /\ UNCHANGED heapItem
              /\ heap' = heap \cup {hb}
           \/ /\ hpc = "assign" /\ hpc' = "idle" /\ UNCHANGED heap
              /\ heapItem' = [heapItem EXCEPT ![hb] = TRUE]
    BY Zenon DEF NewItem, PushItem, AssignItem, HandlerAt, HandlerDone, worker, batchVars, timer,
           TypeOK, HandlerType
  <1>2. BytesInv'
    BY <1>1, Zenon DEF LengthInv, BytesInv
  <1>3. PlaceInv'
    BY <1>1, Zenon DEF LengthInv, PlaceInv, Current
  <1>4. ItemInv'
    <2>1. CASE hpc = "item"
      BY <1>1, <2>1, ZenonT(60) DEF LengthInv, ItemInv, Current
    <2>2. CASE hpc = "push"
      <3>1. Current(hb) /\ ~heapItem[hb]
        BY <2>2, Zenon DEF LengthInv, PlaceInv
      <3>2. hb \notin expired
        BY <2>2, <3>1, Zenon DEF LengthInv, ItemInv
      <3> QED
        BY <1>1, <2>2, <3>1, <3>2 DEF LengthInv, ItemInv, Current
    <2>3. CASE hpc = "assign"
      <3>1. \A b \in BatchIds : heapItem[b] \/ b = hb => heapItem'[b]
        BY <1>1, <2>3, Zenon DEF TypeOK, BatchType
      <3>2. heap \cup expired \subseteq BatchIds
        BY Zenon DEF TypeOK, WorkerType, TimerType
      <3> QED
        BY <1>1, <2>3, <3>1, <3>2, ZenonT(60) DEF LengthInv, ItemInv, Current
    <2> QED
      BY <1>1, <2>1, <2>2, <2>3, ZenonT(60)
  <1> QED
    BY <1>2, <1>3, <1>4 DEF LengthInv

LEMMA SerializeLengths ==
    ASSUME TypeOK, LengthInv, NEW b \in expired, Serialize(b)
    PROVE  LengthInv'
  <1>1. /\ held' = [held EXCEPT ![b] = <<>>] /\ wp' = [wp EXCEPT ![b] = HeaderSize]
        /\ heapItem' = [heapItem EXCEPT ![b] = FALSE] /\ expired' = expired \ {b}
        /\ UNCHANGED <<created, payloadLen, heap, hpc, hmsg, hb>> /\ ~Locked(b)
    BY Zenon DEF Serialize, ResetBatch, worker, handler
  <1>2. b \in BatchIds /\ heap \cup expired \subseteq BatchIds
    BY Zenon DEF TypeOK, TimerType, WorkerType
  <1>3. /\ held'[b] = <<>> /\ wp'[b] = HeaderSize
        /\ \A c \in BatchIds \ {b} :
               held'[c] = held[c] /\ wp'[c] = wp[c] /\ heapItem'[c] = heapItem[c]
    BY <1>1, <1>2, ZenonT(60) DEF TypeOK, BatchType
  <1>4. BytesInv'
    <2>1. 0 \in Nat /\ HeaderSize = HeaderSize + 0
      BY ONLY DEF HeaderSize
    <2> SUFFICES ASSUME NEW c \in BatchIds
                 PROVE  /\ \E n \in Nat : wp'[c] = HeaderSize + n /\ AddsUp(held'[c], n)
                        /\ wp'[c] = HeaderSize \/ wp'[c] <= BufferSize
                        /\ c > created => wp'[c] = HeaderSize /\ payloadLen[c] = 0
      BY <1>1, Zenon DEF BytesInv
    <2>2. CASE c = b
      BY <1>3, <2>1, <2>2, TotalOfNone, ZenonT(60) DEF LengthInv, BytesInv
    <2>3. CASE c # b
      BY <1>3, <2>3, Zenon DEF LengthInv, BytesInv
    <2> QED
      BY <2>2, <2>3, Zenon
  <1>5. PlaceInv'
    <2>1. hpc \in {"link", "item", "push"} => hb \in BatchIds /\ hb # b
      BY <1>1, Zenon DEF Locked, TypeOK, HandlerType
    <2> QED
      BY <1>1, <1>3, <2>1, ZenonT(60) DEF LengthInv, PlaceInv, Current
  <1>6. ItemInv'
    BY <1>1, <1>2, <1>3, ZenonT(60) DEF LengthInv, ItemInv, Current
  <1> QED
    BY <1>4, <1>5, <1>6, ZenonT(60) DEF LengthInv

\* Every step keeps the lengths right.
LEMMA LengthStep ==
    ASSUME TypeOK, HeaderInv, LengthInv, [Next]_vars
    PROVE  LengthInv'
  <1> DEFINE quiet == UNCHANGED <<held, wp, payloadLen, created, heapItem, hpc, hmsg, hb>>
  <1>1. CASE quiet /\ UNCHANGED <<heap, expired>>
    <2>1. heap' \cup expired' \subseteq heap \cup expired /\ heap' \cap expired' = {}
      BY <1>1, Zenon DEF LengthInv, ItemInv
    <2> QED
      BY <1>1, <2>1, LengthsUnchanged, Zenon
  <1>2. CASE Tick \/ StartCheck \/ FlushNext
    BY <1>2, <1>1, ZenonT(60) DEF Tick, StartCheck, FlushNext, worker, batchVars, handler, timer
  <1>3. CASE EvictCopy \/ EvictLock \/ EvictTest \/ EvictKey
    BY <1>3, <1>1, Zenon DEF EvictCopy, EvictLock, EvictTest, EvictKey, worker, batchVars, handler, timer
  <1>4. ASSUME NEW k \in Keys, EvictSkip(k) \/ EvictMark(k) PROVE LengthInv'
    BY <1>4, <1>1, Zenon DEF EvictSkip, EvictMark, worker, batchVars, handler, timer
  <1>5. ASSUME NEW m \in toAdd, AddToBatch(m) PROVE LengthInv'
    BY <1>5, <1>1, Zenon DEF AddToBatch, worker, batchVars, handler, timer
  <1>6. ASSUME NEW p \in sending, SendOk(p) \/ SendError(p) PROVE LengthInv'
    BY <1>6, <1>1, Zenon DEF SendOk, SendError, worker, batchVars, handler, timer
  <1>7. CASE UNCHANGED vars
    BY <1>7, <1>1, Zenon DEF vars, worker, batchVars, handler, timer
  <1>8. CASE EvictItem
    <2>1. quiet /\ expired' = expired /\ heap' \subseteq heap
      BY ONLY <1>8, Zenon DEF EvictItem, batchVars, handler, timer
    <2>2. heap' \cup expired' \subseteq heap \cup expired /\ heap' \cap expired' = {}
      BY <2>1, Zenon DEF LengthInv, ItemInv
    <2> QED
      BY <2>1, <2>2, LengthsUnchanged, ZenonT(60)
  <1>9. CASE PopExpired
    <2>1. quiet
      BY <1>9, Zenon DEF PopExpired, batchVars, handler
    <2>2. heap' \cup expired' \subseteq heap \cup expired /\ heap' \cap expired' = {}
      BY <1>9, Zenon DEF PopExpired
    <2> QED
      BY <2>1, <2>2, LengthsUnchanged, ZenonT(60)
  <1>10. CASE Receive
    <2>1. /\ hpc = "idle" /\ UNCHANGED <<held, wp, payloadLen, created, heapItem, heap, expired>>
          /\ \/ hpc' \in {"idle", "lookup"}
             \/ hpc' = "flush" /\ Fits(HeaderSize, hmsg', EmergeBuf(hmsg'))
      BY ONLY <1>10, Zenon DEF Receive, HandlerAt, HandlerDone, worker, batchVars, timer
    <2> QED
      BY <2>1, LengthsMove, ZenonT(60)
  <1>11. CASE FlushEmerge \/ Lookup \/ CreateBatches
    <2>1. /\ hpc # "assign" /\ UNCHANGED <<held, wp, payloadLen, created, heapItem, heap, expired>>
          /\ hpc' \in {"idle", "alloc", "append"}
      BY <1>11, ZenonT(60) DEF FlushEmerge, Lookup, CreateBatches, EmergeDone, HandlerAt, HandlerDone, worker,
               batchVars, timer
    <2> QED
      BY <2>1, LengthsMove, ZenonT(60)
  <1>12. CASE NewBatches
    <2>1. PICK n \in Nat \ {0} : n = BatchNum[hmsg.port]
      BY <1>12, MsgType, AggAssumption, ZenonT(60) DEF NewBatches, TypeOK, HandlerType, AggAssumption
    <2> QED
      BY <1>12, <2>1, AllocateLengths, ZenonT(60) DEF NewBatches, HandlerAt, worker, timer
  <1>13. CASE ReplaceBatch
    <2>1. PICK n \in Nat \ {0} : n = 1
      BY OneIsSome, Zenon
    <2> QED
      BY <1>13, <2>1, AllocateLengths, ZenonT(60) DEF ReplaceBatch, HandlerAt, worker, timer
  <1>14. CASE AppendToBatch \/ LinkBatch
    BY <1>14, AppendLengths, LinkLengths, ZenonT(60)
  <1>15. CASE NewItem \/ PushItem \/ AssignItem
    BY <1>15, ItemLengths, Zenon
  <1>16. ASSUME NEW b \in expired, Serialize(b) PROVE LengthInv'
    BY <1>16, SerializeLengths, ZenonT(60)
  <1> HIDE DEF quiet
  <1> QED
    BY <1>2, <1>3, <1>4, <1>5, <1>6, <1>7, <1>8, <1>9,
       <1>10, <1>11, <1>12, <1>13, <1>14, <1>15, <1>16, Zenon
       DEF Next, Handler, Timer, Sender, Evictor

\* The packet of a batch, and one of a single message, are whole.
LEMMA WholeStep ==
    ASSUME TypeOK, LengthInv, WholeInv, [Next]_vars
    PROVE  WholeInv'
  <1>1. ASSUME NEW b \in expired, Serialize(b) PROVE WholeInv'
    <2>1. PICK p \in {Packet(header[b], held[b], payloadLen[b])} :
              PacketsOut' \subseteq PacketsOut \cup {p}
      BY <1>1, SerializedOut, Zenon
    <2>2. /\ b \in BatchIds /\ p.msgs = held[b] /\ p.bytes = HeaderSize + payloadLen[b]
          /\ payloadLen[b] = PayloadLen(wp[b])
      <3>1. b \in BatchIds
        BY Zenon DEF TypeOK, TimerType
      <3>2. payloadLen[b] = PayloadLen(wp[b])
        BY ZenonT(60) DEF LengthInv, ItemInv, Current
      <3>3. p.msgs = held[b] /\ p.bytes = HeaderSize + payloadLen[b]
        <4>1. p = Packet(header[b], held[b], payloadLen[b])
          BY Zenon
        <4> QED
          BY ONLY <4>1, Zenon DEF Packet
      <3> QED
        BY <3>1, <3>2, <3>3, ZenonT(60)
    <2>3. PICK n \in Nat : wp[b] = HeaderSize + n /\ AddsUp(held[b], n)
      BY <2>2, Zenon DEF LengthInv, BytesInv
    <2>4. PayloadLen(wp[b]) = n % Uint16
      <3>1. wp[b] - HeaderSize = n
        BY ONLY <2>3, n \in Nat DEF HeaderSize
      <3> QED
        BY <3>1, Zenon DEF PayloadLen
    <2>5. n = 0 \/ HeaderSize + n <= BufferSize
      <3>1. wp[b] = HeaderSize => n = 0
        BY ONLY <2>3, n \in Nat DEF HeaderSize
      <3> QED
        BY <2>2, <2>3, <3>1, ZenonT(60) DEF LengthInv, BytesInv
    <2>6. Whole(p)
      BY <2>2, <2>3, <2>4, <2>5, Zenon DEF Whole
    <2> QED
      BY <2>1, <2>6, Zenon DEF WholeInv
  <1>2. CASE FlushEmerge
    <2>1. PICK p \in {Packet(HeaderOf(hmsg), <<hmsg>>, PayloadLen(HeaderSize + SubSize(hmsg)))} :
              sending' = sending \cup {p}
      BY <1>2, Zenon DEF FlushEmerge
    <2>2. PacketsOut' \subseteq PacketsOut \cup {p}
      BY <1>2, <2>1, Zenon DEF PacketsOut, FlushEmerge, timer
    <2>3. hmsg \in Msgs /\ SubSize(hmsg) \in Nat
      BY <1>2, MsgType, Zenon DEF FlushEmerge, TypeOK, HandlerType
    <2>4. AddsUp(<<hmsg>>, SubSize(hmsg))
      <3>1. <<>> \in Seq(Msgs) /\ Append(<<>>, hmsg) = <<hmsg>> /\ 0 + SubSize(hmsg) = SubSize(hmsg)
        BY <2>3
      <3>2. AddsUp(Append(<<>>, hmsg), 0 + SubSize(hmsg))
        <4>1. PICK ms \in Seq(Msgs) : ms = <<>> /\ AddsUp(ms, 0)
          BY <3>1, TotalOfNone, Zenon
        <4>2. AddsUp(Append(ms, hmsg), 0 + SubSize(hmsg))
          BY <2>3, <4>1, TotalOfMore, Zenon
        <4> QED
          BY <4>1, <4>2, Zenon
      <3> QED
        BY <3>1, <3>2, Zenon
    <2>5. PayloadLen(HeaderSize + SubSize(hmsg)) = SubSize(hmsg) % Uint16
      <3>1. PICK w \in Nat : w = HeaderSize + SubSize(hmsg) /\ w - HeaderSize = SubSize(hmsg)
        BY ONLY <2>3 DEF HeaderSize
      <3> QED
        BY <3>1, Zenon DEF PayloadLen
    <2>6. p.msgs = <<hmsg>> /\ p.bytes = HeaderSize + (SubSize(hmsg) % Uint16)
      BY <2>5 DEF Packet
    <2>7. Whole(p)
      BY <2>3, <2>4, <2>6, Zenon DEF Whole
    <2> QED
      BY <2>2, <2>7, Zenon DEF WholeInv
  <1>3. CASE FlushNext
    BY <1>3, FlushedOut, Zenon DEF WholeInv
  <1>4. ASSUME NEW p \in sending, SendOk(p) \/ SendError(p) PROVE WholeInv'
    <2>1. PacketsOut' \subseteq PacketsOut
      BY <1>4, Zenon DEF PacketsOut, SendOk, SendError, timer
    <2> QED
      BY <2>1, Zenon DEF WholeInv
  <1>5. CASE UNCHANGED <<toSend, sending, sent>>
    BY <1>5, Zenon DEF WholeInv, PacketsOut
  <1> QED
    BY <1>1, <1>2, <1>3, <1>4, <1>5, ZenonT(60)
       DEF Next, Tick, AddToBatch, Handler, Receive, Lookup, NewBatches, CreateBatches,
           AppendToBatch, ReplaceBatch, LinkBatch, NewItem, PushItem, AssignItem,
           Timer, StartCheck, PopExpired, Sender, Evictor, EvictCopy, EvictSkip, EvictMark,
           EvictLock, EvictTest, EvictItem, EvictKey, vars, timer, out

LEMMA LengthInit == Init => LengthInv /\ WholeInv
  <1> SUFFICES ASSUME Init PROVE LengthInv /\ WholeInv
    BY Zenon
  <1>1. 0 \in Nat /\ HeaderSize = HeaderSize + 0
    BY DEF HeaderSize
  <1>2. BytesInv
    BY <1>1, TotalOfNone, ZenonT(60) DEF Init, BytesInv
  <1>3. PlaceInv /\ ItemInv
    BY Zenon DEF Init, PlaceInv, ItemInv
  <1>4. WholeInv
    BY DEF Init, WholeInv, PacketsOut
  <1> QED
    BY <1>2, <1>3, <1>4, ZenonT(60) DEF LengthInv

LEMMA LengthsAlways == Spec => [](LengthInv /\ WholeInv)
  <1>1. TypeOK /\ HeaderInv /\ LengthInv /\ WholeInv /\ [Next]_vars => LengthInv' /\ WholeInv'
    BY LengthStep, WholeStep
  <1> QED
    BY <1>1, LengthInit, HeadersAlways, PTL DEF Spec

\* No length overflows the header's uint16: neither a full batch nor a lone message.
NoOverflow == BufferSize < HeaderSize + Uint16 /\ \A m \in Msgs : SubSize(m) < Uint16

\* A length that fits in a uint16 is kept.
LEMMA FitsUint16 ==
    ASSUME NEW n \in Nat, n < Uint16
    PROVE  n % Uint16 = n
  BY DEF Uint16

\* If no length overflows PayloadLen, every packet that handleMsg and checkTimeout hand
\* to SendPacket has exactly the bytes of the messages appended since the batch was
\* reset, and all of them have the hops of its header.
THEOREM PacketsAreWhole == NoOverflow => (Spec => []PacketIsWhole)
  <1> SUFFICES ASSUME NoOverflow PROVE Spec => []PacketIsWhole
    BY Zenon
  <1>1. ASSUME TypeOK, HeaderInv, WholeInv PROVE PacketIsWhole
    <2> SUFFICES ASSUME NEW p \in PacketsOut
                 PROVE  /\ p.bytes = HeaderSize + SumSizes(p.msgs)
                        /\ \A i \in DOMAIN p.msgs : p.msgs[i].routingKey = p.hdr.routingKey
      BY Zenon DEF PacketIsWhole
    <2>1. p.msgs \in Seq(Msgs)
      <3>1. PacketsOut \subseteq Packets
        <4>1. toSend \in Seq(Packets) /\ sending \subseteq Packets /\ sent \subseteq Packets
          BY <1>1, ZenonT(60) DEF TypeOK, TimerType, OutType
        <4>2. {toSend[i] : i \in DOMAIN toSend} \subseteq Packets
          BY <4>1
        <4> QED
          BY <4>1, <4>2 DEF PacketsOut
      <3> QED
        BY <3>1, Zenon DEF Packets
    <2>2. PICK n \in Nat :
              /\ AddsUp(p.msgs, n) /\ p.bytes = HeaderSize + (n % Uint16)
              /\ n = 0 \/ HeaderSize + n <= BufferSize \/ \E m \in Msgs : n = SubSize(m)
      BY <1>1, Zenon DEF WholeInv, Whole
    <2>3. n < Uint16
      <3>1. CASE n = 0
        BY <3>1 DEF Uint16
      <3>2. CASE HeaderSize + n <= BufferSize
        <4>1. BufferSize \in Int /\ BufferSize < HeaderSize + Uint16
          BY AggAssumption DEF AggAssumption, NoOverflow
        <4> QED
          BY <3>2, <4>1 DEF HeaderSize, Uint16
      <3>3. CASE \E m \in Msgs : n = SubSize(m)
        BY <3>3, Zenon DEF NoOverflow
      <3> QED
        BY <2>2, <3>1, <3>2, <3>3, ZenonT(60)
    <2>4. SumSizes(p.msgs) = n
      BY <2>1, <2>2, SumIsTotal, ZenonT(60)
    <2>5. ASSUME NEW i \in DOMAIN p.msgs
          PROVE  p.msgs[i].routingKey = p.hdr.routingKey
      <3>1. p.hdr = HeaderOf(p.msgs[i]) \/ Shares(p.hdr, p.msgs[i], toAdd)
        BY <1>1, Zenon DEF HeaderInv, PacketsInv, OwnHeader
      <3> QED
        BY ONLY <3>1 DEF HeaderOf, Shares
    <2> QED
      BY <2>2, <2>3, <2>4, <2>5, FitsUint16, ZenonT(60)
  <1> QED
    BY <1>1, HeadersAlways, LengthsAlways, PTL

=============================================================================
