----------------------------- MODULE Aggregator -----------------------------
(***************************************************************************)
(* One worker of data-proxy/aggregator/aggregator.go.  User messages that  *)
(* leave over the same hops are packed into batches; a batch is sent when  *)
(* its deadline passes.  Three goroutines share the worker's state: the    *)
(* message handler, the 20 ms timer (checkTimeout) and the 10 s evictor    *)
(* (evictStaleBatches); each packet sent runs in a goroutine of its own.   *)
(*                                                                         *)
(* A step is what a goroutine does between two points where another one    *)
(* can get in.  The mutex w.mu is held across steps by the evictor only;   *)
(* b.mu is held across steps by the handler only (see Locked).  The        *)
(* evictor reads b.heapItem without b.mu, twice, as the code does.         *)
(*                                                                         *)
(* The workers of an Aggregator share nothing but inputChan, so one worker *)
(* is modelled: Msgs are the messages that this worker's handler receives. *)
(***************************************************************************)
EXTENDS Integers, Sequences, FiniteSets

CONSTANTS
    Keys,         \* routing keys: the hops of a path, joined (no port in them)
    Ports,        \* destination ports
    Msgs,         \* aggregatorMsg records, each added at most once
    BatchNum,     \* config.BatchNumMap: batches created at once for a port
    BufferSize,   \* config Aggregator.BufferSize
    BatchTimeout, \* config Aggregator.BatchTimeoutMs
    BatchMaxAge,  \* batchMaxAge, in the same unit
    SendSlots,    \* capacity of sendSem
    ClockTick,    \* how far one Tick moves the clock
    MaxTime,      \* bound: the clock stops here unless a deadline is ahead
    MaxBatches,   \* bound: batches created in a behaviour
    None          \* no message, no key

HeaderSize == 24
SubHeader == 4 + 2
Uint16 == 65536
SmallMessage == 128
NoDelayTimeout == 20
BatchIds == 1 .. MaxBatches
Headers == [routingKey : Keys, port : Ports]

ASSUME AggAssumption ==
    /\ Msgs \subseteq [userID : Nat, routingKey : Keys, port : Ports,
                       len : Nat, emerge : BOOLEAN]
    /\ None \notin Msgs \cup Keys
    /\ BatchNum \in [Ports -> Nat \ {0}]
    /\ {BufferSize, BatchTimeout, BatchMaxAge, MaxTime, MaxBatches} \subseteq Nat
    /\ SendSlots \in Nat \ {0} /\ ClockTick \in Nat \ {0}

VARIABLES
    now,        \* time.Now()
    toAdd,      \* messages AddToBatch has not been called with yet
    inputChan,  \* the channel to the handler
    batches,    \* w.batches: key -> list of batches, <<>> when the key is absent
    heap,       \* batches whose HeapItem is in w.heap (index # -1)
    created,    \* number of batches allocated
    header,     \* batch -> routing key and port of its packet header
    held,       \* batch -> the messages between HeaderSize and pkt.Wp
    wp,         \* batch -> pkt.Wp
    payloadLen, \* batch -> pkt.PayloadLen
    heapItem,   \* batch -> b.heapItem # nil
    deadline,   \* batch -> deadline of its HeapItem
    createTime, \* batch -> b.createTime
    hpc, hmsg, hb,              \* handler: where it is, its message, its batch
    tpc, tnow, expired, toSend, \* timer: where it is, now, expired, toSend
    epc, enow, snap, ekey,      \* evictor: where it is, now, batches copy, key
    evicted,    \* history: batches whose HeapItem the evictor removed
    panicked,   \* the evictor panicked, which ends the process
    sending,    \* packets whose send goroutine runs (each holds a sendSem slot)
    sent,       \* packets SendPacket returned nil for
    dropped     \* messages given up: too large, or SendPacket failed

input == <<now, toAdd, inputChan>>
worker == <<batches, heap>>
batchVars == <<created, header, held, wp, payloadLen, heapItem, deadline, createTime>>
handler == <<hpc, hmsg, hb>>
timer == <<tpc, tnow, expired, toSend>>
evictor == <<epc, enow, snap, ekey, evicted, panicked>>
out == <<sending, sent, dropped>>
vars == <<input, worker, batchVars, handler, timer, evictor, out>>

-----------------------------------------------------------------------------
\* Packet arithmetic (tunnel-packet.go).

SubSize(m) == SubHeader + m.len

\* AppendUserPacket succeeds: p.Wp + subSize <= p.BuffSize.
Fits(w, m, size) == w + SubSize(m) <= size

\* PayloadLen once p.Wp is w, a uint16.
PayloadLen(w) == (w - HeaderSize) % Uint16

\* The bytes sent: header and TotalBytes() - HeaderSize bytes of payload.
Packet(hdr, ms, plen) == [hdr |-> hdr, msgs |-> ms, bytes |-> HeaderSize + plen]

\* A message sent on its own, and the buffer its packet gets.
NoDelay(m) == m.len < SmallMessage \/ BatchTimeout <= NoDelayTimeout
EmergeBuf(m) == IF NoDelay(m) THEN HeaderSize + SubSize(m) ELSE BufferSize

HeaderOf(m) == [routingKey |-> m.routingKey, port |-> m.port]

\* The bucket of the list that a user's messages go to.
Pick(list, m) == list[(m.userID % Len(list)) + 1]

\* The handler holds b.mu from the append to the assignment of b.heapItem.
Locked(b) == hpc \in {"link", "item", "push", "assign"} /\ hb = b

\* The evictor holds w.mu while it removes the items of a key.
WMuFree == epc \notin {"remove", "index"}

-----------------------------------------------------------------------------
Init ==
    /\ now = 0 /\ toAdd = Msgs /\ inputChan = <<>>
    /\ batches = [k \in Keys |-> <<>>] /\ heap = {}
    /\ created = 0
    /\ header = [b \in BatchIds |-> None]
    /\ held = [b \in BatchIds |-> <<>>] /\ wp = [b \in BatchIds |-> HeaderSize]
    /\ payloadLen = [b \in BatchIds |-> 0]
    /\ heapItem = [b \in BatchIds |-> FALSE]
    /\ deadline = [b \in BatchIds |-> 0]
    /\ createTime = [b \in BatchIds |-> 0]
    /\ hpc = "idle" /\ hmsg = None /\ hb = 0
    /\ tpc = "idle" /\ tnow = 0 /\ expired = {} /\ toSend = <<>>
    /\ epc = "idle" /\ enow = 0 /\ snap = [k \in Keys |-> <<>>] /\ ekey = None
    /\ evicted = {} /\ panicked = FALSE
    /\ sending = {} /\ sent = {} /\ dropped = {}

\* Time passes.
Tick ==
    /\ now < MaxTime \/ \E b \in heap : deadline[b] > now
    /\ now' = now + ClockTick
    /\ UNCHANGED <<toAdd, inputChan, worker, batchVars, handler, timer, evictor, out>>

\* A connection handler calls AddToBatch.
AddToBatch(m) ==
    /\ toAdd' = toAdd \ {m}
    /\ inputChan' = Append(inputChan, m)
    /\ UNCHANGED <<now, worker, batchVars, handler, timer, evictor, out>>

-----------------------------------------------------------------------------
\* The handler goroutine: handleMsg.

HandlerDone == hpc' = "idle" /\ hmsg' = None /\ hb' = 0
HandlerAt(pc, m, b) == hpc' = pc /\ hmsg' = m /\ hb' = b

\* Take a message.  One that is not to wait gets a packet of its own, or is
\* given up when it does not fit there.
Receive ==
    LET m == Head(inputChan)
        emerge == m.emerge \/ NoDelay(m)
    IN  /\ hpc = "idle" /\ inputChan # <<>>
        /\ inputChan' = Tail(inputChan)
        /\ \/ ~emerge /\ HandlerAt("lookup", m, 0) /\ UNCHANGED dropped
           \/ /\ emerge /\ Fits(HeaderSize, m, EmergeBuf(m))
              /\ HandlerAt("flush", m, 0) /\ UNCHANGED dropped
           \/ /\ emerge /\ ~Fits(HeaderSize, m, EmergeBuf(m))
              /\ HandlerDone /\ dropped' = dropped \cup {m}
        /\ UNCHANGED <<now, toAdd, worker, batchVars, timer, evictor, sending, sent>>

\* handleMsg returns after an emerge packet.
EmergeDone == HandlerDone

\* Mutant: an emerge packet takes the header of the key's first batch.
FlushEmerge_BatchHeader ==
    LET list == batches[hmsg.routingKey]
        hdr == IF list = <<>> THEN HeaderOf(hmsg) ELSE header[list[1]]
    IN  /\ hpc = "flush" /\ Cardinality(sending) < SendSlots
        /\ sending' = sending \cup {Packet(hdr, <<hmsg>>, PayloadLen(HeaderSize + SubSize(hmsg)))}
        /\ EmergeDone
        /\ UNCHANGED <<input, worker, batchVars, timer, evictor, sent, dropped>>

\* flush of an emerge packet: wait for a sendSem slot, start the sender.
FlushEmerge ==
    /\ hpc = "flush" /\ Cardinality(sending) < SendSlots
    /\ sending' = sending \cup {Packet(HeaderOf(hmsg), <<hmsg>>, PayloadLen(HeaderSize + SubSize(hmsg)))}
    /\ EmergeDone
    /\ UNCHANGED <<input, worker, batchVars, timer, evictor, sent, dropped>>

\* Under w.mu.RLock: the user's bucket of the key, if the key is present.
Lookup ==
    LET list == batches[hmsg.routingKey]
    IN  /\ hpc = "lookup" /\ WMuFree
        /\ IF list = <<>> THEN HandlerAt("alloc", hmsg, 0)
                          ELSE HandlerAt("append", hmsg, Pick(list, hmsg))
        /\ UNCHANGED <<input, worker, batchVars, timer, evictor, out>>

\* Fresh batches for the handler's message get the header of that message.
Allocate(n) ==
    LET fresh == created + 1 .. created + n
    IN  /\ created + n <= MaxBatches
        /\ created' = created + n
        /\ header' = [b \in BatchIds |-> IF b \in fresh THEN HeaderOf(hmsg) ELSE header[b]]
        /\ createTime' = [b \in BatchIds |-> IF b \in fresh THEN now ELSE createTime[b]]
        /\ UNCHANGED <<held, wp, payloadLen, heapItem, deadline>>

\* The key is absent: allocate its batches.
NewBatches ==
    /\ hpc = "alloc" /\ Allocate(BatchNum[hmsg.port])
    /\ HandlerAt("create", hmsg, 0)
    /\ UNCHANGED <<input, worker, timer, evictor, out>>

\* Under w.mu: install them unless the key has appeared, and pick the user's
\* bucket.
CreateBatches ==
    LET k == hmsg.routingKey
        n == BatchNum[hmsg.port]
        list == IF batches[k] = <<>> THEN [i \in 1 .. n |-> created - n + i] ELSE batches[k]
    IN  /\ hpc = "create" /\ WMuFree
        /\ batches' = [batches EXCEPT ![k] = list]
        /\ HandlerAt("append", hmsg, Pick(list, hmsg))
        /\ UNCHANGED <<input, heap, batchVars, timer, evictor, out>>

\* Mutant: Wp does not count the sub-header.
PutMessage_NoSubHeader(b, m) ==
    /\ held' = [held EXCEPT ![b] = Append(@, m)] /\ wp' = [wp EXCEPT ![b] = @ + m.len]
    /\ payloadLen' = [payloadLen EXCEPT ![b] = PayloadLen(wp[b] + m.len)]

\* AppendUserPacket for a message that fits.
PutMessage(b, m) ==
    /\ held' = [held EXCEPT ![b] = Append(@, m)] /\ wp' = [wp EXCEPT ![b] = @ + SubSize(m)]
    /\ payloadLen' = [payloadLen EXCEPT ![b] = PayloadLen(wp[b] + SubSize(m))]

\* b.heapItem == nil && b.pkt.Wp > HeaderSize: flushed and yet not empty.
Leftover(b) == ~heapItem[b] /\ wp[b] > HeaderSize

\* Mutant: a batch that has been flushed is not scheduled again.
Schedule_Never(b) == HandlerDone

\* A batch without a heap item gets one, still under b.mu.
Schedule(b) == IF heapItem[b] THEN HandlerDone ELSE HandlerAt("item", hmsg, b)

\* Under b.mu: append, then schedule.
AppendToBatch ==
    /\ hpc = "append" /\ ~Leftover(hb) /\ Fits(wp[hb], hmsg, BufferSize)
    /\ PutMessage(hb, hmsg)
    /\ Schedule(hb)
    /\ UNCHANGED <<input, worker, created, header, heapItem, deadline, createTime,
                   timer, evictor, out>>

\* The batch cannot take the message: go on with a fresh one.
ReplaceBatch ==
    /\ hpc = "append" /\ (Leftover(hb) \/ ~Fits(wp[hb], hmsg, BufferSize))
    /\ Allocate(1)
    /\ HandlerAt("link", hmsg, created + 1)
    /\ UNCHANGED <<input, worker, timer, evictor, out>>

\* Under w.mu: add the fresh batch to the key's list; then append the message,
\* whose failure the code ignores, and schedule.
LinkBatch ==
    /\ hpc = "link" /\ WMuFree
    /\ batches' = [batches EXCEPT ![hmsg.routingKey] = Append(@, hb)]
    /\ IF Fits(wp[hb], hmsg, BufferSize)
       THEN PutMessage(hb, hmsg) /\ UNCHANGED dropped
       ELSE dropped' = dropped \cup {hmsg} /\ UNCHANGED <<held, wp, payloadLen>>
    /\ Schedule(hb)
    /\ UNCHANGED <<input, heap, created, header, heapItem, deadline, createTime,
                   timer, evictor, sending, sent>>

\* item := &HeapItem{...}
NewItem ==
    /\ hpc = "item"
    /\ deadline' = [deadline EXCEPT ![hb] = now + BatchTimeout]
    /\ HandlerAt("push", hmsg, hb)
    /\ UNCHANGED <<input, worker, created, header, held, wp, payloadLen, heapItem,
                   createTime, timer, evictor, out>>

\* Under w.mu: heap.Push.
PushItem ==
    /\ hpc = "push" /\ WMuFree
    /\ heap' = heap \cup {hb}
    /\ HandlerAt("assign", hmsg, hb)
    /\ UNCHANGED <<input, batches, batchVars, timer, evictor, out>>

\* b.heapItem = item; b.mu.Unlock().
AssignItem ==
    /\ hpc = "assign"
    /\ heapItem' = [heapItem EXCEPT ![hb] = TRUE]
    /\ HandlerDone
    /\ UNCHANGED <<input, worker, created, header, held, wp, payloadLen, deadline,
                   createTime, timer, evictor, out>>

-----------------------------------------------------------------------------
\* The timer goroutine: checkTimeout.

\* The ticker fires: now := time.Now().  A tick with nothing due is left out.
StartCheck ==
    /\ tpc = "idle" /\ \E b \in heap : deadline[b] <= now
    /\ tpc' = "pop" /\ tnow' = now
    /\ UNCHANGED <<input, worker, batchVars, handler, expired, toSend, evictor, out>>

\* Mutant: the items that are due are read and not popped.
PopExpired_Peeks ==
    LET due == {b \in heap : deadline[b] <= tnow}
    IN  /\ tpc = "pop" /\ WMuFree
        /\ heap' = heap /\ expired' = due
        /\ IF due = {} THEN tpc' = "idle" /\ tnow' = 0 ELSE tpc' = "serialize" /\ tnow' = tnow
        /\ UNCHANGED <<input, batches, batchVars, handler, toSend, evictor, out>>

\* Under w.mu: pop every item whose deadline has passed.
PopExpired ==
    LET due == {b \in heap : deadline[b] <= tnow}
    IN  /\ tpc = "pop" /\ WMuFree
        /\ heap' = heap \ due /\ expired' = due
        /\ IF due = {} THEN tpc' = "idle" /\ tnow' = 0 ELSE tpc' = "serialize" /\ tnow' = tnow
        /\ UNCHANGED <<input, batches, batchVars, handler, toSend, evictor, out>>

\* Mutants: b.heapItem = nil is missing; pkt.Wp = HeaderSize is missing.
ResetBatch_KeepsItem(b) ==
    /\ held' = [held EXCEPT ![b] = <<>>] /\ wp' = [wp EXCEPT ![b] = HeaderSize]
    /\ createTime' = [createTime EXCEPT ![b] = tnow] /\ heapItem' = heapItem
ResetBatch_KeepsWp(b) ==
    /\ held' = held /\ wp' = wp /\ heapItem' = [heapItem EXCEPT ![b] = FALSE]
    /\ createTime' = [createTime EXCEPT ![b] = tnow]

\* Empty the batch for its next messages; PayloadLen is left as it is.
ResetBatch(b) ==
    /\ held' = [held EXCEPT ![b] = <<>>] /\ wp' = [wp EXCEPT ![b] = HeaderSize]
    /\ createTime' = [createTime EXCEPT ![b] = tnow]
    /\ heapItem' = [heapItem EXCEPT ![b] = FALSE]

\* Under b.mu, in the order of the deadlines: copy the packet out, reset the batch.
Serialize(b) ==
    /\ tpc = "serialize" /\ ~Locked(b)
    /\ \A c \in expired : deadline[b] <= deadline[c]
    /\ toSend' = Append(toSend, Packet(header[b], held[b], payloadLen[b]))
    /\ ResetBatch(b)
    /\ expired' = expired \ {b}
    /\ IF expired = {b} THEN tpc' = "flush" /\ tnow' = 0 ELSE UNCHANGED <<tpc, tnow>>
    /\ UNCHANGED <<input, worker, created, header, payloadLen, deadline, handler,
                   evictor, out>>

\* Mutant: one turn too many of the loop over toSend.
AfterFlush_OneMore == tpc' = IF Len(toSend) = 0 THEN "idle" ELSE "flush"

\* checkTimeout returns after the last packet.
AfterFlush == tpc' = IF Len(toSend) = 1 THEN "idle" ELSE "flush"

\* flush of the next packet: wait for a sendSem slot, start the sender.
FlushNext ==
    /\ tpc = "flush" /\ Cardinality(sending) < SendSlots
    /\ sending' = sending \cup {Head(toSend)}
    /\ toSend' = Tail(toSend)
    /\ AfterFlush
    /\ UNCHANGED <<input, worker, batchVars, handler, tnow, expired, evictor, sent, dropped>>

-----------------------------------------------------------------------------
\* A send goroutine: TunnelMgr.SendPacket returns, the sendSem slot is released.

SendOk(p) ==
    /\ sending' = sending \ {p}
    /\ sent' = sent \cup {p}
    /\ UNCHANGED <<input, worker, batchVars, handler, timer, evictor, dropped>>

SendError(p) ==
    /\ sending' = sending \ {p}
    /\ dropped' = dropped \cup {p.msgs[i] : i \in DOMAIN p.msgs}
    /\ UNCHANGED <<input, worker, batchVars, handler, timer, evictor, sent>>

-----------------------------------------------------------------------------
\* The evictor goroutine: evictStaleBatches.

\* Under w.mu.RLock: copy the map.
EvictCopy ==
    /\ epc = "idle" /\ \E k \in Keys : batches[k] # <<>>
    /\ epc' = "check" /\ enow' = now /\ snap' = batches /\ ekey' = ekey
    /\ UNCHANGED <<input, worker, batchVars, handler, timer, evicted, panicked, out>>

\* bDel: some batch of the key has not been flushed for BatchMaxAge.
HasStale(k) == \E i \in DOMAIN snap[k] : enow - createTime[snap[k][i]] > BatchMaxAge

\* Done with key k of the copy: go on to another key, or return.
AfterKey(k) ==
    IF \A j \in Keys \ {k} : snap[j] = <<>>
    THEN epc' = "idle" /\ enow' = 0
    ELSE epc' = "check" /\ enow' = enow

EvictSkip(k) ==
    /\ epc = "check" /\ snap[k] # <<>> /\ ~HasStale(k)
    /\ AfterKey(k) /\ snap' = [snap EXCEPT ![k] = <<>>]
    /\ UNCHANGED <<input, worker, batchVars, handler, timer, ekey, evicted, panicked, out>>

EvictMark(k) ==
    /\ epc = "check" /\ snap[k] # <<>> /\ HasStale(k)
    /\ epc' = "lock" /\ ekey' = k
    /\ UNCHANGED <<input, worker, batchVars, handler, timer, enow, snap, evicted, panicked, out>>

\* w.mu.Lock(), by when the batch may have been flushed and filled again.
EvictLock ==
    /\ epc = "lock" /\ epc' = "remove"
    /\ UNCHANGED <<input, worker, batchVars, handler, timer, enow, snap, ekey, evicted, panicked, out>>

\* The first read of b.heapItem, without b.mu, for the next batch of the key.
EvictTest ==
    LET b == Head(snap[ekey])
    IN  /\ epc = "remove" /\ snap[ekey] # <<>>
        /\ IF heapItem[b]
           THEN epc' = "index" /\ snap' = snap
           ELSE epc' = "remove" /\ snap' = [snap EXCEPT ![ekey] = Tail(@)]
        /\ UNCHANGED <<input, worker, batchVars, handler, timer, enow, ekey, evicted, panicked, out>>

\* heap.Remove(&w.heap, b.heapItem.index), with the second read.  If the timer has
\* popped the item, its index is -1, on which heap.Remove panics; if the timer has reset
\* the batch since the first read, b.heapItem is nil.
EvictItem ==
    LET b == Head(snap[ekey])
    IN  /\ epc = "index"
        /\ IF heapItem[b] /\ b \in heap
           THEN /\ heap' = heap \ {b} /\ evicted' = evicted \cup {b} /\ panicked' = panicked
                /\ epc' = "remove" /\ snap' = [snap EXCEPT ![ekey] = Tail(@)]
           ELSE panicked' = TRUE /\ UNCHANGED <<heap, evicted, epc, snap>>
        /\ UNCHANGED <<input, batches, batchVars, handler, timer, enow, ekey, out>>

\* delete(w.batches, k); w.mu.Unlock().
EvictKey ==
    /\ epc = "remove" /\ snap[ekey] = <<>>
    /\ batches' = [batches EXCEPT ![ekey] = <<>>]
    /\ AfterKey(ekey) /\ ekey' = None
    /\ UNCHANGED <<input, heap, batchVars, handler, timer, snap, evicted, panicked, out>>

-----------------------------------------------------------------------------
Handler ==
    \/ Receive \/ FlushEmerge \/ Lookup \/ NewBatches \/ CreateBatches
    \/ AppendToBatch \/ ReplaceBatch \/ LinkBatch
    \/ NewItem \/ PushItem \/ AssignItem

Timer == StartCheck \/ PopExpired \/ (\E b \in expired : Serialize(b)) \/ FlushNext

Sender == \E p \in sending : SendOk(p) \/ SendError(p)

Evictor ==
    \/ EvictCopy \/ (\E k \in Keys : EvictSkip(k) \/ EvictMark(k))
    \/ EvictLock \/ EvictTest \/ EvictItem \/ EvictKey

Next ==
    /\ ~panicked
    /\ Tick \/ (\E m \in toAdd : AddToBatch(m)) \/ Handler \/ Timer \/ Sender \/ Evictor

Spec == Init /\ [][Next]_vars

\* The Go scheduler runs every goroutine that can proceed, and the timer's ticker
\* keeps firing.  That SendPacket returns is not assumed: it has no deadline.
LiveSpec ==
    /\ Spec
    /\ WF_vars(~panicked /\ Tick)
    /\ WF_vars(~panicked /\ Handler)
    /\ WF_vars(~panicked /\ Timer)

-----------------------------------------------------------------------------
Packets == [hdr : Headers \cup {None}, msgs : Seq(Msgs), bytes : Nat]

InputType == now \in Nat /\ toAdd \subseteq Msgs /\ inputChan \in Seq(Msgs)

WorkerType == batches \in [Keys -> Seq(BatchIds)] /\ heap \subseteq BatchIds

BatchType ==
    /\ created \in 0 .. MaxBatches /\ header \in [BatchIds -> Headers \cup {None}]
    /\ held \in [BatchIds -> Seq(Msgs)] /\ wp \in [BatchIds -> Nat]
    /\ payloadLen \in [BatchIds -> 0 .. Uint16 - 1] /\ heapItem \in [BatchIds -> BOOLEAN]
    /\ deadline \in [BatchIds -> Nat] /\ createTime \in [BatchIds -> Nat]

HandlerType ==
    /\ hpc \in {"idle", "flush", "lookup", "alloc", "create", "append", "link",
                "item", "push", "assign"}
    /\ hpc # "idle" => hmsg \in Msgs
    /\ hpc \in {"append", "link", "item", "push", "assign"} => hb \in BatchIds
    /\ hpc = "create" => created >= BatchNum[hmsg.port]

TimerType ==
    /\ tpc \in {"idle", "pop", "serialize", "flush"} /\ tnow \in Nat
    /\ expired \subseteq BatchIds /\ toSend \in Seq(Packets)
    /\ tpc = "flush" => toSend # <<>>
    /\ tpc # "serialize" => expired = {}

EvictorType ==
    /\ epc \in {"idle", "check", "lock", "remove", "index"} /\ enow \in Nat
    /\ snap \in [Keys -> Seq(BatchIds)]
    /\ (epc \in {"lock", "remove", "index"} => ekey \in Keys)
    /\ (epc = "index" => snap[ekey] # <<>>)
    /\ evicted \subseteq BatchIds /\ panicked \in BOOLEAN

OutType == sending \subseteq Packets /\ sent \subseteq Packets /\ dropped \subseteq Msgs

\* The state has the shape of the Go structs, and each goroutine has what it
\* needs where it is: a message in hand, a batch picked, packets to flush.
TypeOK ==
    /\ InputType /\ WorkerType /\ BatchType /\ HandlerType
    /\ TimerType /\ EvictorType /\ OutType

\* handleMsg's guard "b.heapItem == nil && b.pkt.Wp > HeaderSize" never fires:
\* whoever gets b.mu finds a batch without a heap item empty.
UnscheduledIsEmpty == \A b \in BatchIds : ~Locked(b) => ~Leftover(b)

\* A buffered message is never forgotten by the timer: its batch is in the heap,
\* or popped and about to be sent, or the evictor took it from the heap.
HeldIsScheduled ==
    \A b \in BatchIds : ~Locked(b) /\ held[b] # <<>> => b \in heap \cup expired \cup evicted

\* The only way to panic is evictStaleBatches meeting a batch that checkTimeout has
\* popped: not yet reset, its item has index -1; reset since the test for nil, it has no
\* item.  The evictor never removes an item twice.
PanicOnlyInTimeoutRace ==
    panicked => /\ epc = "index"
                /\ LET b == Head(snap[ekey])
                   IN  b \notin heap \cup evicted /\ (heapItem[b] => b \in expired)

-----------------------------------------------------------------------------
\* The inductive invariant behind the three properties above.

\* Every heap item is accounted for: in the heap, popped, or evicted; the
\* handler's new item too, before b.heapItem points to it.
ItemsAccounted ==
    /\ \A b \in BatchIds : heapItem[b] => b \in heap \cup expired \cup evicted
    /\ hpc = "assign" => hb \in heap \cup expired \cup evicted
    /\ \A b \in BatchIds : wp[b] >= HeaderSize /\ (held[b] # <<>> => wp[b] > HeaderSize)

\* The batches of f, a map from keys to lists; no batch is in two places of it.
Listed(f) == {b \in BatchIds : \E k \in Keys : \E x \in DOMAIN f[k] : f[k][x] = b}
Distinct(f) ==
    \A k, j \in Keys : \A x \in DOMAIN f[k], y \in DOMAIN f[j] :
        f[k][x] = f[j][y] => k = j /\ x = y

\* The last batch that has been put in a list, or could have been.
Published ==
    CASE hpc = "create" -> created - BatchNum[hmsg.port]
      [] hpc = "link" -> created - 1
      [] OTHER -> created

\* The evictor never meets a batch whose item it has already removed.
ListsFresh ==
    /\ Distinct(batches) /\ Distinct(snap)
    /\ \A k, j \in Keys : \A x \in DOMAIN snap[k], y \in DOMAIN batches[j] :
           snap[k][x] = batches[j][y] => k = j
    /\ \A b \in Listed(batches) \cup Listed(snap) \cup evicted : b <= Published
    /\ hpc = "link" => hb = created
    /\ Listed(snap) \cap evicted = {}
    /\ \A k \in Keys : \A x \in DOMAIN batches[k] :
           batches[k][x] \in evicted => ~WMuFree /\ ekey = k

\* An item that has left the heap does not come back, and its batch keeps pointing to it
\* until it is reset: the evictor does not find a new item where it has tested the old.
ItemsLeaveOnce ==
    /\ heap \cap expired = {}
    /\ \A b \in heap \cup expired : heapItem[b] \/ (hpc = "assign" /\ hb = b)
    /\ \A b \in evicted : heapItem[b] /\ b \notin heap \cup expired
    /\ hpc \in {"item", "push", "assign"} => ~heapItem[hb]
    /\ epc = "index" => LET b == Head(snap[ekey]) IN b \in heap => heapItem[b]

Inductive ==
    UnscheduledIsEmpty /\ ItemsAccounted /\ ItemsLeaveOnce /\ ListsFresh /\ PanicOnlyInTimeoutRace

-----------------------------------------------------------------------------
PacketsOut == {toSend[i] : i \in DOMAIN toSend} \cup sending \cup sent

\* The bytes that messages take in a packet.
SumSizes(ms) ==
    LET total[i \in 0 .. Len(ms)] == IF i = 0 THEN 0 ELSE total[i - 1] + SubSize(ms[i])
    IN  total[Len(ms)]

\* A packet carries exactly the bytes of the messages appended since its batch
\* was last reset (PayloadLen, which the reset leaves alone, is never stale),
\* and they all travel over the hops of its header.
PacketIsWhole ==
    \A p \in PacketsOut :
        /\ p.bytes = HeaderSize + SumSizes(p.msgs)
        /\ \A i \in DOMAIN p.msgs : p.msgs[i].routingKey = p.hdr.routingKey

\* Where message m is, between AddToBatch and the tunnel.
Places(m) ==
    LET At(tag, id, ms) == {<<tag, id, i>> : i \in {j \in DOMAIN ms : ms[j] = m}}
        inHand == hpc \in {"flush", "lookup", "alloc", "create", "append", "link"}
    IN  At("chan", 0, inputChan)
        \cup At("handler", 0, IF inHand THEN <<hmsg>> ELSE <<>>)
        \cup (UNION {At("batch", b, held[b]) : b \in BatchIds})
        \cup (UNION {At("toSend", j, toSend[j].msgs) : j \in DOMAIN toSend})
        \cup (UNION {At("packet", p, p.msgs) : p \in sending \cup sent})

\* Somebody is going to move the message at place q on: in a batch, the handler that has
\* locked it, or the timer, which finds it in the heap or has popped it.
OnItsWay(q) == q[1] = "batch" => Locked(q[2]) \/ q[2] \in heap \cup expired

\* The place q is in a batch whose heap item the evictor removed.
Stranded(q) == q[1] = "batch" /\ q[2] \in evicted

\* No interleaving of handler, timer and evictor duplicates a message, and only the
\* evictor loses one: once added, and unless given up, it is in exactly one place; and
\* it is on its way from there, except in a batch that the evictor has removed, which
\* nobody will ever send.
InOnePlace ==
    \A m \in Msgs :
        IF m \in toAdd \cup dropped
        THEN Places(m) = {}
        ELSE \E q \in Places(m) : Places(m) = {q} /\ (OnItsWay(q) <=> ~Stranded(q))

\* Batches are keyed by the hops without the port, so a message may leave under
\* the port of another request.  It does so only in a batch, and only under the
\* port of a batched message of its own key that came in before; a message sent on
\* its own keeps its port.
PortOfOwnKey ==
    \A p \in PacketsOut : \A i \in DOMAIN p.msgs :
        LET m == p.msgs[i]
            alone(n) == n.emerge \/ NoDelay(n)
        IN  m.port # p.hdr.port =>
                /\ ~alone(m)
                /\ \E n \in Msgs \ (toAdd \cup {m}) : HeaderOf(n) = p.hdr /\ ~alone(n)

\* SendPacket has been called for a packet with m.
HandedOver(m) == \E p \in sending \cup sent : \E i \in DOMAIN p.msgs : p.msgs[i] = m

\* Without evictions, every message handed to AddToBatch is handed on to the tunnel or
\* given up, unless in the end every send slot is held by a SendPacket that does not
\* return: nothing else stops the handler or the timer.
EventuallyOut ==
    \/ \A m \in Msgs : m \notin toAdd ~> m \in dropped \/ HandedOver(m)
    \/ <>[](Cardinality(sending) = SendSlots)

\* A packet without messages is sent only for a message that fits in no batch: its
\* append fails unnoticed, it is lost, and the batch opened for it is scheduled empty.
EmptyPacketHasCause ==
    \A p \in PacketsOut : p.msgs = <<>> =>
        \E m \in dropped : HeaderOf(m) = p.hdr /\ ~Fits(HeaderSize, m, BufferSize)

-----------------------------------------------------------------------------
\* What comments and the README say of batches.

\* aggregator.go:390: buckets are purged "only when requests cease completely",
\* so a bucket whose heap item is removed holds no message.
PurgedOnlyWhenQuiet == \A b \in evicted : held[b] = <<>>

=============================================================================
