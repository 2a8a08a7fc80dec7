---------------------------- MODULE EntryProofs -----------------------------
(***************************************************************************)
(* The safety theorems of EntryProxy, for any number of connections,       *)
(* datagrams, workers and streams and for every id space: the invariants   *)
(* of the waiting table, and that the entry node is a ProxyService.        *)
(***************************************************************************)
EXTENDS EntryProxy, TLAPS

\* An answer, or the request for it, that stream s has still to deliver.
At(c, s) == c \in s.rest \/ s.cur = c

\* A request between AddToBatch and the delivery of its answer.
Transit(c) == c \in network \/ \E s \in streams : At(c, s)

\* A handler that has drawn its id and not yet cleaned up.
Busy(c) == pc[c] \in {"read", "route", "register", "add", "wait", "cleanup"}

\* Handlers: what the program counter says about the other fields.
HandlerInv ==
    \A c \in Reqs :
        /\ pc[c] \in {"new", "queued", "begin"} => id[c] = None
        /\ Busy(c) => id[c] \in Ids
        /\ pc[c] \notin {"cleanup", "done"} => answer[c] = None
        /\ pc[c] = "cleanup" => answer[c] # None
        /\ c \in closed => pc[c] = "done"

\* The queue holds connections that no worker has, each once.
QueueInv ==
    \A j, k \in 1 .. Len(connChan) :
        pc[connChan[j]] = "queued" /\ (connChan[j] = connChan[k] => j = k)

\* An answer is in one place at a time, and its handler has not read it.
TransitInv ==
    \A c \in Reqs :
        /\ Transit(c) => /\ pc[c] \in {"wait", "cleanup", "done"} /\ id[c] \in Ids
                         /\ waitCh[c] = None
                         /\ pc[c] # "wait" => answer[c] = "timeout"
        /\ c \in network => \A s \in streams : ~At(c, s)
        /\ \A s, t \in streams : At(c, s) /\ At(c, t) => s = t
        /\ \A s \in streams : s.cur = c => c \notin s.rest
        /\ waitCh[c] # None => pc[c] \in {"wait", "cleanup", "done"}

\* No two requests that are being handled or answered share an id.
IdsDiffer ==
    \A c, d \in Reqs :
        (Busy(c) \/ Transit(c)) /\ (Busy(d) \/ Transit(d)) /\ id[c] = id[d] => c = d

\* Answers are paired with their own request all the way to the client.
Paired ==
    /\ \A s \in streams : s.ch \in {None, s.cur}
    /\ \A c \in Reqs : waitCh[c] \in {None, c}

EntryInv ==
    /\ TypeOK /\ HandlerInv /\ QueueInv /\ TransitInv /\ IdsDiffer /\ TableIsExact /\ Paired
    /\ OwnAnswer

-----------------------------------------------------------------------------
\* Steps before Register: only the program counter of c moves.
LEMMA BeforeRegister ==
    ASSUME EntryInv, NEW c \in Reqs, NEW l \in Labels,
           Goto(c, l), UNCHANGED <<id, answer, tableVars, tunnelVars>>,
           pc[c] \notin {"add", "wait", "cleanup", "done"}, l \notin {"add", "wait", "cleanup"},
           l \in {"read", "route", "register"} => Busy(c)
    PROVE  TransitInv' /\ IdsDiffer' /\ TableIsExact' /\ Paired' /\ OwnAnswer'
  <1>1. \A d \in Reqs : (Transit(d))' = Transit(d)
    BY Zenon DEF Transit, At, tunnelVars
  <1>2. pc' = [pc EXCEPT ![c] = l] /\ pc \in [Reqs -> Labels]
    BY Zenon DEF Goto, EntryInv, TypeOK
  <1>3. TransitInv'
    BY <1>1, <1>2 DEF EntryInv, TransitInv, Transit, At, tunnelVars, tableVars
  <1>4. IdsDiffer'
    BY <1>1, <1>2, Zenon DEF EntryInv, IdsDiffer, Busy
  <1>5. TableIsExact'
    BY <1>2 DEF EntryInv, TableIsExact, Registered, tableVars
  <1> QED
    BY <1>3, <1>4, <1>5, Zenon DEF EntryInv, Paired, OwnAnswer, tunnelVars, tableVars

LEMMA AcceptStep ==
    ASSUME EntryInv, NEW c \in Reqs, Accept(c)
    PROVE  EntryInv'
  <1>1. PICK l \in {"queued", "done"} : Goto(c, l)
    BY Zenon DEF Accept
  <1>2. pc' = [pc EXCEPT ![c] = l] /\ pc \in [Reqs -> Labels] /\ pc[c] = "new" /\ c \in TCP
    BY <1>1, Zenon DEF Goto, EntryInv, TypeOK, Accept
  <1>3. TypeOK'
    <2>1. connChan \in Seq(TCP) /\ Append(connChan, c) \in Seq(TCP)
      BY <1>2 DEF EntryInv, TypeOK
    <2>2. connChan' \in Seq(TCP)
      BY <2>1, Zenon DEF Accept
    <2>3. pc' \in [Reqs -> Labels]
      BY <1>2, Zenon DEF Labels
    <2> QED
      BY <2>2, <2>3, Zenon DEF EntryInv, TypeOK, Accept, tableVars, tunnelVars
  <1>4. HandlerInv'
    BY <1>2, Zenon DEF EntryInv, HandlerInv, Busy, Accept, tableVars
  <1>5. QueueInv'
    <2>1. \A k \in 1 .. Len(connChan) : connChan[k] \in Reqs /\ connChan[k] # c
      BY <1>2 DEF EntryInv, TypeOK, QueueInv, Reqs
    <2>2. CASE UNCHANGED connChan
      BY <1>2, <2>1, <2>2, Zenon DEF EntryInv, QueueInv
    <2>3. CASE connChan' = Append(connChan, c) /\ Goto(c, "queued")
      <3>1. /\ connChan \in Seq(TCP) /\ Len(connChan) \in Nat /\ Len(connChan') = Len(connChan) + 1
            /\ connChan'[Len(connChan) + 1] = c
            /\ \A k \in 1 .. Len(connChan) : connChan'[k] = connChan[k]
        BY <1>2, <2>3 DEF EntryInv, TypeOK
      <3>2. \A k \in 1 .. Len(connChan') : k \in 1 .. Len(connChan) \/ k = Len(connChan) + 1
        BY <3>1
      <3>3. pc'[c] = "queued" /\ \A d \in Reqs \ {c} : pc'[d] = pc[d]
        BY <1>2, <2>3, Zenon DEF Goto
      <3> QED
        BY <2>1, <3>1, <3>2, <3>3 DEF EntryInv, QueueInv
    <2> QED
      BY <2>2, <2>3, Zenon DEF Accept
  <1>6. TransitInv' /\ IdsDiffer' /\ TableIsExact' /\ Paired' /\ OwnAnswer'
    BY <1>1, <1>2, BeforeRegister, Zenon DEF Accept, Labels
  <1> QED
    BY <1>3, <1>4, <1>5, <1>6, Zenon DEF EntryInv

LEMMA TakeTaskStep ==
    ASSUME EntryInv, TakeTask
    PROVE  EntryInv'
  <1> DEFINE c == Head(connChan)
  <1>1. /\ connChan \in Seq(TCP) /\ connChan # <<>> /\ c = connChan[1]
        /\ Len(connChan) \in Nat /\ 1 \in 1 .. Len(connChan)
    BY DEF EntryInv, TypeOK, TakeTask
  <1>2. c \in TCP /\ c \in Reqs /\ pc[c] = "queued"
    BY <1>1 DEF EntryInv, QueueInv, Reqs
  <1>3. pc' = [pc EXCEPT ![c] = "begin"] /\ pc \in [Reqs -> Labels]
    BY Zenon DEF TakeTask, Goto, EntryInv, TypeOK
  <1>4. TypeOK'
    BY <1>1, <1>2, <1>3 DEF EntryInv, TypeOK, TakeTask, Labels, tableVars, tunnelVars
  <1>5. HandlerInv'
    BY <1>2, <1>3, Zenon DEF EntryInv, HandlerInv, Busy, TakeTask, tableVars
  <1>6. QueueInv'
    <2>1. /\ connChan' = Tail(connChan) /\ Len(connChan') = Len(connChan) - 1
          /\ \A k \in 1 .. Len(connChan') : connChan'[k] = connChan[k + 1]
      BY <1>1 DEF TakeTask
    <2>2. ASSUME NEW j \in 1 .. Len(connChan')
          PROVE  /\ connChan[j + 1] \in Reqs /\ connChan[j + 1] # c
                 /\ j + 1 \in 1 .. Len(connChan) /\ pc[connChan[j + 1]] = "queued"
      BY <1>1, <2>1 DEF EntryInv, QueueInv, Reqs
    <2> QED
      BY <1>1, <1>3, <2>1, <2>2 DEF EntryInv, QueueInv
  <1>7. TransitInv' /\ IdsDiffer' /\ TableIsExact' /\ Paired' /\ OwnAnswer'
    BY <1>2, BeforeRegister, Zenon DEF TakeTask, Labels
  <1> QED
    BY <1>4, <1>5, <1>6, <1>7, Zenon DEF EntryInv

\* A request outside the queue may move without disturbing the queue.
LEMMA QueueKept ==
    ASSUME EntryInv, NEW c \in Reqs, pc[c] # "queued", UNCHANGED connChan,
           pc' = [pc EXCEPT ![c] = pc'[c]]
    PROVE  QueueInv'
  <1>1. \A k \in 1 .. Len(connChan) : connChan[k] \in Reqs
    BY DEF EntryInv, TypeOK, Reqs
  <1>2. \A d \in Reqs \ {c} : pc'[d] = pc[d]
    BY Zenon DEF EntryInv, TypeOK
  <1> QED
    BY <1>1, <1>2 DEF EntryInv, QueueInv

LEMMA ReadFromUDPStep ==
    ASSUME EntryInv, NEW c \in Reqs, ReadFromUDP(c)
    PROVE  EntryInv'
  <1>1. PICK l \in {"begin", "done"} : Goto(c, l)
    BY Zenon DEF ReadFromUDP
  <1>2. /\ pc' = [pc EXCEPT ![c] = l] /\ pc'[c] = l /\ pc \in [Reqs -> Labels]
        /\ pc[c] = "new"
    BY <1>1, Zenon DEF Goto, EntryInv, TypeOK, ReadFromUDP
  <1>3. TypeOK'
    BY <1>2, Zenon DEF EntryInv, TypeOK, ReadFromUDP, Labels, tableVars, tunnelVars
  <1>4. HandlerInv'
    BY <1>2, Zenon DEF EntryInv, HandlerInv, Busy, ReadFromUDP, tableVars
  <1>5. QueueInv'
    BY <1>2, QueueKept, Zenon DEF ReadFromUDP
  <1>6. TransitInv' /\ IdsDiffer' /\ TableIsExact' /\ Paired' /\ OwnAnswer'
    BY <1>1, <1>2, BeforeRegister, Zenon DEF ReadFromUDP, Labels
  <1> QED
    BY <1>3, <1>4, <1>5, <1>6, Zenon DEF EntryInv

LEMMA ReadOrRouteStep ==
    ASSUME EntryInv, NEW c \in Reqs, ReadRequest(c) \/ ChooseRoute(c)
    PROVE  EntryInv'
  <1>1. PICK l \in {"route", "register", "done"} : Goto(c, l)
    BY Zenon DEF ReadRequest, ChooseRoute
  <1>2. /\ pc' = [pc EXCEPT ![c] = l] /\ pc'[c] = l /\ pc \in [Reqs -> Labels]
        /\ pc[c] \in {"read", "route"} /\ Busy(c)
    BY <1>1, Zenon DEF Goto, EntryInv, TypeOK, ReadRequest, ChooseRoute, Busy
  <1>u. UNCHANGED <<connChan, reqSeq, id, answer, tableVars, tunnelVars, panicked>>
    BY Zenon DEF ReadRequest, ChooseRoute
  <1>3. TypeOK'
    BY <1>2, <1>u, Zenon DEF EntryInv, TypeOK, Labels, tableVars, tunnelVars
  <1>4. HandlerInv'
    BY <1>2, <1>u, Zenon DEF EntryInv, HandlerInv, Busy, tableVars
  <1>5. QueueInv'
    BY <1>2, <1>u, QueueKept, Zenon
  <1>6. TransitInv' /\ IdsDiffer' /\ TableIsExact' /\ Paired' /\ OwnAnswer'
    BY <1>1, <1>2, <1>u, BeforeRegister, Zenon DEF Labels
  <1> QED
    BY <1>3, <1>4, <1>5, <1>6, Zenon DEF EntryInv

\* An id is drawn: by the guard, no other request in use has it.
LEMMA GenShortReqIDStep ==
    ASSUME EntryInv, NEW c \in Reqs, GenShortReqID(c)
    PROVE  EntryInv'
  <1>1. /\ pc \in [Reqs -> Labels] /\ pc[c] = "begin" /\ id[c] = None
        /\ id \in [Reqs -> Ids \cup {None}]
    BY Zenon DEF EntryInv, TypeOK, GenShortReqID, HandlerInv
  <1>2. PICK l \in {"read", "route"} : Goto(c, l)
    BY Zenon DEF GenShortReqID
  <1>3. pc' = [pc EXCEPT ![c] = l] /\ pc'[c] = l
    BY <1>1, <1>2, Zenon DEF Goto
  <1>4. NewId(c, reqSeq + 1) \in Ids
    <2>1. (reqSeq + 1) % IdSpace \in 0 .. IdSpace - 1
      BY EntryAssumption DEF EntryInv, TypeOK
    <2> QED
      BY <2>1, Zenon DEF NewId, Ids
  <1>5. id' = [id EXCEPT ![c] = NewId(c, reqSeq + 1)] /\ id'[c] = NewId(c, reqSeq + 1)
    BY <1>1, Zenon DEF GenShortReqID
  <1>6. UNCHANGED <<connChan, answer, tableVars, tunnelVars, panicked>>
    BY Zenon DEF GenShortReqID
  <1>7. TypeOK'
    BY <1>1, <1>3, <1>4, <1>5, <1>6
       DEF EntryInv, TypeOK, GenShortReqID, Labels, tableVars, tunnelVars
  <1>8. HandlerInv'
    BY <1>1, <1>3, <1>4, <1>5, <1>6, Zenon DEF EntryInv, HandlerInv, Busy, tableVars
  <1>9. QueueInv'
    BY <1>1, <1>3, <1>6, QueueKept, Zenon
  <1>10. ~Transit(c) /\ \A d \in Reqs : (Transit(d))' = Transit(d)
    BY <1>1, <1>6, Zenon DEF EntryInv, TransitInv, Transit, At, tunnelVars
  <1>11. TransitInv'
    BY <1>1, <1>3, <1>5, <1>6, <1>10 DEF EntryInv, TransitInv, Transit, At, tunnelVars, tableVars
  <1>12. IdsDiffer'
    <2>1. \A d \in Reqs : Busy(d) \/ Transit(d) => d \in Outstanding
      <3>1. ASSUME NEW d \in Reqs, Busy(d) PROVE d \in Outstanding
        BY <3>1, EntryAssumption, Zenon DEF Busy, Outstanding, Running, EntryInv, HandlerInv
      <3>2. ASSUME NEW d \in Reqs, Transit(d) PROVE d \in Outstanding
        BY <3>2, EntryAssumption DEF Transit, At, Outstanding, Undelivered
      <3> QED
        BY <3>1, <3>2, Zenon
    <2>2. \A d \in Reqs : Busy(d) \/ Transit(d) => id[d] # id'[c]
      BY <1>5, <2>1, Zenon DEF GenShortReqID
    <2>3. \A d \in Reqs \ {c} : id'[d] = id[d] /\ (Busy(d))' = Busy(d)
      BY <1>1, <1>3, <1>5, Zenon DEF Busy
    <2> QED
      BY <1>10, <2>2, <2>3, Zenon DEF EntryInv, IdsDiffer
  <1>13. TableIsExact'
    BY <1>1, <1>3, <1>5, <1>6 DEF EntryInv, TableIsExact, Registered, tableVars
  <1> QED
    BY <1>6, <1>7, <1>8, <1>9, <1>11, <1>12, <1>13, Zenon
       DEF EntryInv, Paired, OwnAnswer, tunnelVars, tableVars

LEMMA RegisterStep ==
    ASSUME EntryInv, NEW c \in Reqs, Register(c)
    PROVE  EntryInv'
  <1>1. /\ pc \in [Reqs -> Labels] /\ pc[c] = "register" /\ id[c] \in Ids /\ Busy(c)
        /\ waiters \in [Ids -> Reqs \cup {None}]
    BY Zenon DEF EntryInv, TypeOK, Register, HandlerInv, Busy
  <1>2. pc' = [pc EXCEPT ![c] = "add"] /\ pc'[c] = "add" /\ (Busy(c))'
    BY <1>1, Zenon DEF Register, Goto, Busy
  <1>3. waiters' = [waiters EXCEPT ![id[c]] = c]
    BY Zenon DEF Register
  <1>4. UNCHANGED <<connChan, reqSeq, id, answer, waitCh, closed, tunnelVars, panicked>>
    BY Zenon DEF Register
  <1>5. TypeOK'
    BY <1>1, <1>2, <1>3, <1>4, Zenon DEF EntryInv, TypeOK, Labels, tunnelVars
  <1>6. HandlerInv'
    BY <1>1, <1>2, <1>4, Zenon DEF EntryInv, HandlerInv, Busy
  <1>7. QueueInv'
    BY <1>1, <1>2, <1>4, QueueKept, Zenon
  <1>8. ~Transit(c) /\ \A d \in Reqs : (Transit(d))' = Transit(d)
    BY <1>1, <1>4, Zenon DEF EntryInv, TransitInv, Transit, At, tunnelVars
  <1>9. TransitInv'
    BY <1>1, <1>2, <1>4, <1>8 DEF EntryInv, TransitInv, Transit, At, tunnelVars
  <1>10. \A d \in Reqs \ {c} : pc'[d] = pc[d]
    BY <1>1, <1>2, Zenon
  <1>11. IdsDiffer'
    BY <1>1, <1>4, <1>8, <1>10, Zenon DEF EntryInv, IdsDiffer, Busy
  <1>12. TableIsExact'
    <2>1. \A d \in Reqs \ {c} : Registered(d) => id[d] # id[c]
      BY <1>1, Zenon DEF EntryInv, IdsDiffer, Busy, Registered
    <2> QED
      BY <1>1, <1>2, <1>3, <1>4, <1>10, <2>1 DEF EntryInv, TableIsExact, Registered
  <1> QED
    BY <1>4, <1>5, <1>6, <1>7, <1>9, <1>11, <1>12, Zenon DEF EntryInv, Paired, OwnAnswer, tunnelVars

\* Fewer requests in use keep their ids apart.
LEMMA IdsKept ==
    ASSUME EntryInv, UNCHANGED id,
           \A d \in Reqs : (Busy(d) \/ Transit(d))' => Busy(d) \/ Transit(d)
    PROVE  IdsDiffer'
  BY Zenon DEF EntryInv, IdsDiffer

LEMMA AddToBatchStep ==
    ASSUME EntryInv, NEW c \in Reqs, AddToBatch(c)
    PROVE  EntryInv'
  <1>1. /\ pc \in [Reqs -> Labels] /\ pc[c] = "add" /\ id[c] \in Ids /\ Busy(c)
        /\ ~Transit(c) /\ waitCh[c] = None
    BY Zenon DEF EntryInv, TypeOK, AddToBatch, HandlerInv, Busy, TransitInv
  <1>2. pc' = [pc EXCEPT ![c] = "wait"] /\ pc'[c] = "wait" /\ (Busy(c))'
    BY <1>1, Zenon DEF AddToBatch, Goto, Busy
  <1>3. UNCHANGED <<connChan, reqSeq, id, answer, tableVars, streams, panicked>>
    BY Zenon DEF AddToBatch
  <1>4. network' = network \cup {c}
    BY Zenon DEF AddToBatch
  <1>5. TypeOK'
    BY <1>1, <1>2, <1>3, <1>4, Zenon DEF EntryInv, TypeOK, Labels, tableVars
  <1>6. HandlerInv'
    BY <1>1, <1>2, <1>3, Zenon DEF EntryInv, HandlerInv, Busy, tableVars
  <1>7. QueueInv'
    BY <1>1, <1>2, <1>3, QueueKept, Zenon
  <1>8. \A d \in Reqs \ {c} : pc'[d] = pc[d] /\ (Transit(d))' = Transit(d)
    BY <1>1, <1>2, <1>3, <1>4, Zenon DEF Transit, At
  <1>9. TransitInv'
    BY <1>1, <1>2, <1>3, <1>4, <1>8 DEF EntryInv, TransitInv, Transit, At, tableVars
  <1>10. IdsDiffer'
    BY <1>1, <1>3, <1>8, IdsKept, Zenon DEF Busy
  <1>11. TableIsExact'
    BY <1>1, <1>2, <1>3 DEF EntryInv, TableIsExact, Registered, tableVars
  <1> QED
    BY <1>3, <1>5, <1>6, <1>7, <1>9, <1>10, <1>11, Zenon DEF EntryInv, Paired, OwnAnswer, tableVars

\* The two ends of the select.
LEMMA SelectStep ==
    ASSUME EntryInv, NEW c \in Reqs, GetAnswer(c) \/ Timeout(c)
    PROVE  EntryInv'
  <1>1. /\ pc \in [Reqs -> Labels] /\ pc[c] = "wait" /\ id[c] \in Ids /\ Busy(c)
        /\ waitCh \in [Reqs -> Reqs \cup {None}] /\ waitCh[c] \in {None, c}
        /\ answer \in [Reqs -> Reqs \cup {None, "timeout"}]
    BY Zenon DEF EntryInv, TypeOK, GetAnswer, Timeout, HandlerInv, Busy, Paired
  <1>2. pc' = [pc EXCEPT ![c] = "cleanup"] /\ pc'[c] = "cleanup" /\ (Busy(c))'
    BY <1>1, Zenon DEF GetAnswer, Timeout, Goto, Busy
  <1>3. UNCHANGED <<connChan, reqSeq, id, waiters, closed, tunnelVars, panicked>>
    BY Zenon DEF GetAnswer, Timeout, tableVars
  <1>4. PICK a \in {c, "timeout"} : /\ answer' = [answer EXCEPT ![c] = a] /\ answer'[c] = a
                                    /\ Transit(c) => a = "timeout"
    BY <1>1, Zenon DEF GetAnswer, Timeout, EntryInv, TransitInv
  <1>5. PICK w \in {None, c} : waitCh' = [waitCh EXCEPT ![c] = w] /\ (waitCh[c] = None => w = None)
    <2>1. CASE GetAnswer(c)
      BY <1>1, <2>1, Zenon DEF GetAnswer
    <2>2. CASE Timeout(c)
      BY <1>1, <2>2, Zenon DEF Timeout, tableVars
    <2> QED
      BY <2>1, <2>2, Zenon
  <1>6. TypeOK'
    BY <1>1, <1>2, <1>3, <1>4, <1>5, Zenon DEF EntryInv, TypeOK, Labels, tunnelVars
  <1>7. HandlerInv'
    BY <1>1, <1>2, <1>3, <1>4, EntryAssumption DEF EntryInv, HandlerInv, Busy
  <1>8. QueueInv'
    BY <1>1, <1>2, <1>3, QueueKept, Zenon
  <1>9. \A d \in Reqs : (Transit(d))' = Transit(d)
    BY <1>3, Zenon DEF Transit, At, tunnelVars
  <1>10. TransitInv'
    <2>1. /\ pc'[c] = "cleanup" /\ answer'[c] = a /\ (waitCh[c] = None => waitCh'[c] = None)
          /\ \A d \in Reqs \ {c} : pc'[d] = pc[d] /\ answer'[d] = answer[d] /\ waitCh'[d] = waitCh[d]
      BY <1>1, <1>2, <1>4, <1>5, Zenon
    <2>2. UNCHANGED <<id, network, streams>>
      BY <1>3, Zenon DEF tunnelVars
    <2>3. ASSUME NEW d \in Reqs, (Transit(d))'
          PROVE  /\ pc'[d] \in {"wait", "cleanup", "done"} /\ id'[d] \in Ids
                 /\ waitCh'[d] = None /\ (pc'[d] # "wait" => answer'[d] = "timeout")
      <3>1. /\ pc[d] \in {"wait", "cleanup", "done"} /\ id[d] \in Ids
            /\ waitCh[d] = None /\ (pc[d] # "wait" => answer[d] = "timeout")
        BY <1>9, <2>3, Zenon DEF EntryInv, TransitInv
      <3>2. d = c => a = "timeout"
        BY <1>4, <1>9, <2>3, Zenon
      <3> QED
        BY <2>1, <2>2, <3>1, <3>2, Zenon
    <2>4. ASSUME NEW d \in Reqs
          PROVE  /\ d \in network' => \A s \in streams' : ~At(d, s)
                 /\ \A s, t \in streams' : At(d, s) /\ At(d, t) => s = t
                 /\ \A s \in streams' : s.cur = d => d \notin s.rest
                 /\ waitCh'[d] # None => pc'[d] \in {"wait", "cleanup", "done"}
      BY <2>1, <2>2, Zenon DEF EntryInv, TransitInv
    <2> QED
      BY <2>3, <2>4, Zenon DEF TransitInv, At
  <1>11. IdsDiffer'
    BY <1>1, <1>2, <1>3, <1>9, IdsKept, Zenon DEF Busy
  <1>12. TableIsExact'
    BY <1>1, <1>2, <1>3 DEF EntryInv, TableIsExact, Registered
  <1>13. Paired' /\ OwnAnswer'
    BY <1>1, <1>3, <1>4, <1>5, Zenon DEF EntryInv, Paired, OwnAnswer, tunnelVars
  <1> QED
    BY <1>6, <1>7, <1>8, <1>10, <1>11, <1>12, <1>13, Zenon DEF EntryInv

\* By TableIsExact, the entry that cleanup deletes under the id is its own.
LEMMA CleanupStep ==
    ASSUME EntryInv, NEW c \in Reqs, Cleanup(c)
    PROVE  EntryInv'
  <1>1. /\ pc \in [Reqs -> Labels] /\ pc[c] = "cleanup" /\ id[c] \in Ids /\ Busy(c)
        /\ waiters \in [Ids -> Reqs \cup {None}] /\ answer[c] # None
    BY Zenon DEF EntryInv, TypeOK, Cleanup, HandlerInv, Busy
  <1>2. pc' = [pc EXCEPT ![c] = "done"] /\ pc'[c] = "done"
    BY <1>1, Zenon DEF Cleanup, Goto
  <1>3. UNCHANGED <<connChan, reqSeq, id, answer, waitCh, tunnelVars, panicked>>
    BY Zenon DEF Cleanup
  <1>4. waiters' = [waiters EXCEPT ![id[c]] = None] /\ closed' = closed \cup {c}
    BY Zenon DEF Cleanup, Unregister
  <1>5. TypeOK'
    BY <1>1, <1>2, <1>3, <1>4, Zenon DEF EntryInv, TypeOK, Labels, tunnelVars
  <1>6. HandlerInv'
    BY <1>1, <1>2, <1>3, <1>4, Zenon DEF EntryInv, HandlerInv, Busy
  <1>7. QueueInv'
    BY <1>1, <1>2, <1>3, QueueKept, Zenon
  <1>8. \A d \in Reqs : (Transit(d))' = Transit(d)
    BY <1>3, Zenon DEF Transit, At, tunnelVars
  <1>9. TransitInv'
    BY <1>1, <1>2, <1>3, <1>8 DEF EntryInv, TransitInv, Transit, At, tunnelVars
  <1>10. IdsDiffer'
    BY <1>1, <1>2, <1>3, <1>8, IdsKept, Zenon DEF Busy
  <1>11. TableIsExact'
    <2>1. \A d \in Reqs \ {c} : pc'[d] = pc[d] /\ (Registered(d) => id[d] # id[c])
      BY <1>1, <1>2, Zenon DEF EntryInv, IdsDiffer, Busy, Registered
    <2> QED
      BY <1>1, <1>2, <1>3, <1>4, <2>1, EntryAssumption DEF EntryInv, TableIsExact, Registered
  <1> QED
    BY <1>3, <1>5, <1>6, <1>7, <1>9, <1>10, <1>11, Zenon DEF EntryInv, Paired, OwnAnswer, tunnelVars

-----------------------------------------------------------------------------
\* The tunnels.  Their steps leave the handlers alone.
LEMMA HandlersKept ==
    ASSUME EntryInv, UNCHANGED <<serverVars, waiters, closed>>
    PROVE  HandlerInv' /\ QueueInv' /\ TableIsExact' /\ OwnAnswer'
  BY DEF EntryInv, HandlerInv, Busy, QueueInv, TableIsExact, Registered, OwnAnswer, serverVars

LEMMA LoseStep ==
    ASSUME EntryInv, NEW c \in Reqs, Lose(c)
    PROVE  EntryInv'
  <1>1. UNCHANGED <<serverVars, tableVars, streams, panicked>> /\ network' = network \ {c}
    BY Zenon DEF Lose
  <1>2. HandlerInv' /\ QueueInv' /\ TableIsExact' /\ OwnAnswer'
    BY <1>1, HandlersKept, Zenon DEF tableVars
  <1>3. \A d \in Reqs : (Transit(d))' => Transit(d)
    BY <1>1, Zenon DEF Transit, At
  <1>4. IdsDiffer'
    BY <1>1, <1>3, IdsKept, Zenon DEF Busy, serverVars
  <1>5. TransitInv'
    BY <1>1, <1>3 DEF EntryInv, TransitInv, At, serverVars, tableVars
  <1>6. TypeOK'
    BY <1>1, Zenon DEF EntryInv, TypeOK, serverVars, tableVars
  <1> QED
    BY <1>1, <1>2, <1>4, <1>5, <1>6, Zenon DEF EntryInv, Paired, tableVars

\* The answers of a packet leave the network and are in the new stream.
LEMMA AcceptUniStreamStep ==
    ASSUME EntryInv, NEW cs \in SUBSET network, AcceptUniStream(cs)
    PROVE  EntryInv'
  <1> DEFINE n == [rest |-> cs, cur |-> None, ch |-> None]
  <1>1. /\ UNCHANGED <<serverVars, tableVars, panicked>> /\ cs # {}
        /\ network' = network \ cs /\ streams' = streams \cup {n}
    BY Zenon DEF AcceptUniStream
  <1>2. HandlerInv' /\ QueueInv' /\ TableIsExact' /\ OwnAnswer'
    BY <1>1, HandlersKept, Zenon DEF tableVars
  <1>3. cs \subseteq Reqs /\ \A d \in Reqs : At(d, n) <=> d \in cs
    BY EntryAssumption, Zenon DEF EntryInv, TypeOK, At
  <1>4. \A d \in Reqs : (Transit(d))' => Transit(d)
    BY <1>1, <1>3, Zenon DEF Transit, At
  <1>5. IdsDiffer'
    BY <1>1, <1>4, IdsKept, Zenon DEF Busy, serverVars
  <1>6. TransitInv'
    <2>1. ASSUME NEW d \in Reqs, NEW s \in streams, NEW t \in streams
          PROVE  /\ d \in cs => ~At(d, s)
                 /\ At(d, s) /\ At(d, t) => s = t
                 /\ s.cur = d => d \notin s.rest
                 /\ d \in network => ~At(d, s)
      BY Zenon DEF EntryInv, TransitInv
    <2>2. ASSUME NEW d \in Reqs
          PROVE  /\ d \in network' => \A s \in streams' : ~At(d, s)
                 /\ \A s, t \in streams' : At(d, s) /\ At(d, t) => s = t
                 /\ \A s \in streams' : s.cur = d => d \notin s.rest
      <3>1. n.cur # d
        BY EntryAssumption, Zenon
      <3>2. \A s \in streams' : s \in streams \/ s = n
        BY <1>1, Zenon
      <3>3. d \in cs => d \notin network'
        BY <1>1, Zenon
      <3>4. d \in network' => d \in network
        BY <1>1, Zenon
      <3> HIDE DEF n
      <3> QED
        BY <1>3, <2>1, <3>1, <3>2, <3>3, <3>4, Zenon
    <2> QED
      BY <1>1, <1>4, <2>2, Zenon DEF EntryInv, TransitInv, At, serverVars, tableVars
  <1>7. TypeOK'
    <2>1. n \in [rest : SUBSET Reqs, cur : Reqs \cup {None}, ch : Reqs \cup {None}]
      BY <1>3, Zenon
    <2>2. n.cur = None /\ n.ch = None /\ n.rest # {}
      BY <1>1, Zenon
    <2> HIDE DEF n
    <2> QED
      BY <1>1, <2>1, <2>2 DEF EntryInv, TypeOK, serverVars, tableVars
  <1>8. Paired'
    BY <1>1 DEF EntryInv, Paired, tableVars
  <1> QED
    BY <1>2, <1>5, <1>6, <1>7, <1>8, Zenon DEF EntryInv

\* A stream goroutine, as in TypeOK.
StreamSet == [rest : SUBSET Reqs, cur : Reqs \cup {None}, ch : Reqs \cup {None}]

\* A stream gives way to one, or none, with fewer answers to deliver.
LEMMA StreamReplaced ==
    ASSUME EntryInv, NEW s \in streams, NEW R, streams' = (streams \ {s}) \cup R,
           UNCHANGED network, \A t, u \in R : t = u,
           \A t \in R, d \in Reqs : (At(d, t) => At(d, s)) /\ (t.cur = d => d \notin t.rest)
    PROVE  \A d \in Reqs :
               /\ (Transit(d))' => Transit(d)
               /\ d \in network' => \A t \in streams' : ~At(d, t)
               /\ \A t, u \in streams' : At(d, t) /\ At(d, u) => t = u
               /\ \A t \in streams' : t.cur = d => d \notin t.rest
  <1> TAKE d \in Reqs
  <1>1. (Transit(d))' => Transit(d)
    BY Zenon DEF Transit, At
  <1>2. \A t, u \in streams : /\ At(d, t) /\ At(d, u) => t = u
                              /\ t.cur = d => d \notin t.rest
                              /\ d \in network => ~At(d, t)
    BY Zenon DEF EntryInv, TransitInv
  <1> QED
    BY <1>1, <1>2, Zenon

\* The waiter found under the id of an answer is the request that it answers.
LEMMA DeliverLookupStep ==
    ASSUME EntryInv, NEW s \in streams, NEW c \in s.rest, DeliverLookup(s, c)
    PROVE  EntryInv'
  <1> DEFINE t == [s EXCEPT !.rest = @ \ {c}, !.cur = c]
             found == [t EXCEPT !.ch = waiters[id[c]]]
             rest == [t EXCEPT !.cur = None]
             R == IF waiters[id[c]] # None THEN {found} ELSE IF t.rest = {} THEN {} ELSE {rest}
  <1>1. /\ UNCHANGED <<serverVars, tableVars, network, panicked>> /\ s.cur = None
        /\ streams' = (streams \ {s}) \cup R
    BY Zenon DEF DeliverLookup
  <1>2. /\ s \in StreamSet
        /\ s.ch = None /\ c \in Reqs /\ Transit(c) /\ id[c] \in Ids
    <2>1. s \in StreamSet /\ s.ch = None
      BY <1>1, Zenon DEF EntryInv, TypeOK, StreamSet
    <2>2. c \in Reqs /\ Transit(c)
      BY <2>1, Zenon DEF Transit, At, StreamSet
    <2> QED
      BY <2>1, <2>2, Zenon DEF EntryInv, TransitInv
  <1>3. waiters[id[c]] \in {None, c}
    <2>1. waiters[id[c]] \in Reqs \cup {None}
      BY <1>2, Zenon DEF EntryInv, TypeOK
    <2>2. ASSUME waiters[id[c]] \in Reqs PROVE waiters[id[c]] = c
      <3> DEFINE w == waiters[id[c]]
      <3>1. Registered(w) /\ id[w] = id[c]
        BY <1>2, <2>2, Zenon DEF EntryInv, TableIsExact
      <3> QED
        BY <1>2, <2>2, <3>1, Zenon DEF EntryInv, IdsDiffer, Registered, Busy
    <2> QED
      BY <2>1, <2>2, Zenon
  <1>4. /\ found \in StreamSet /\ rest \in StreamSet /\ t.rest = s.rest \ {c}
        /\ found.rest = s.rest \ {c} /\ found.cur = c /\ found.ch = waiters[id[c]]
        /\ rest.rest = s.rest \ {c} /\ rest.cur = None /\ rest.ch = None
    BY <1>2, <1>3, Zenon DEF StreamSet
  <1>5. /\ \A r, u \in R : r = u
        /\ \A r \in R, d \in Reqs : (At(d, r) => At(d, s)) /\ (r.cur = d => d \notin r.rest)
    BY <1>4, EntryAssumption, Zenon DEF At
  <1>6. HandlerInv' /\ QueueInv' /\ TableIsExact' /\ OwnAnswer'
    BY <1>1, HandlersKept, Zenon DEF tableVars
  <1>7. /\ \A d \in Reqs :
               /\ (Transit(d))' => Transit(d)
               /\ d \in network' => \A r \in streams' : ~At(d, r)
               /\ \A r, u \in streams' : At(d, r) /\ At(d, u) => r = u
               /\ \A r \in streams' : r.cur = d => d \notin r.rest
    <2> HIDE DEF R
    <2> QED
      BY <1>1, <1>5, StreamReplaced, Zenon
  <1>8. TransitInv' /\ IdsDiffer'
    BY <1>1, <1>7, IdsKept, Zenon DEF EntryInv, TransitInv, Busy, At, serverVars, tableVars
  <1>9. TypeOK' /\ Paired'
    <2>1. ASSUME NEW r \in R
          PROVE  /\ r \in StreamSet
                 /\ (r.cur = None <=> r.ch = None) /\ (r.cur = None => r.rest # {})
                 /\ r.ch \in {None, r.cur}
      BY <1>2, <1>3, <1>4, EntryAssumption, Zenon
    <2> QED
      BY <1>1, <2>1 DEF EntryInv, TypeOK, StreamSet, Paired, serverVars, tableVars
  <1> QED
    BY <1>6, <1>8, <1>9, Zenon DEF EntryInv

\* A panic leaves everything as it is.
LEMMA PanicStep ==
    ASSUME EntryInv, UNCHANGED <<serverVars, tableVars, tunnelVars>>, panicked' \in BOOLEAN
    PROVE  EntryInv'
  <1>1. HandlerInv' /\ QueueInv' /\ TableIsExact' /\ OwnAnswer'
    BY HandlersKept, Zenon DEF tableVars
  <1>2. \A d \in Reqs : (Transit(d))' = Transit(d)
    BY Zenon DEF Transit, At, tunnelVars
  <1>3. TransitInv' /\ IdsDiffer'
    BY <1>2, IdsKept, Zenon DEF EntryInv, TransitInv, At, Busy, serverVars, tableVars, tunnelVars
  <1> QED
    BY <1>1, <1>3, Zenon DEF EntryInv, TypeOK, Paired, serverVars, tableVars, tunnelVars

LEMMA DeliverSendStep ==
    ASSUME EntryInv, NEW s \in streams, DeliverSend(s)
    PROVE  EntryInv'
  <1>1. CASE panicked' = TRUE /\ UNCHANGED <<waitCh, streams>>
    BY <1>1, PanicStep, Zenon DEF DeliverSend, tableVars, tunnelVars
  <1>2. CASE /\ s.ch \notin closed /\ waitCh[s.ch] = None /\ UNCHANGED panicked
             /\ waitCh' = [waitCh EXCEPT ![s.ch] = s.cur] /\ Advance(s)
    <2> DEFINE c == s.cur
               t == [s EXCEPT !.cur = None, !.ch = None]
               R == IF s.rest = {} THEN {} ELSE {t}
    <2>1. /\ UNCHANGED <<serverVars, waiters, closed, network, panicked>>
          /\ streams' = (streams \ {s}) \cup R
      BY <1>2, Zenon DEF DeliverSend, Advance
    <2>2. /\ s \in StreamSet
          /\ c \in Reqs /\ s.ch = c /\ waitCh \in [Reqs -> Reqs \cup {None}]
      BY Zenon DEF EntryInv, TypeOK, StreamSet, Paired, DeliverSend
    <2>3. t \in StreamSet /\ t.rest = s.rest /\ t.cur = None /\ t.ch = None
      BY <2>2, Zenon DEF StreamSet
    <2>4. /\ \A r, u \in R : r = u
          /\ \A r \in R, d \in Reqs : (At(d, r) => At(d, s)) /\ (r.cur = d => d \notin r.rest)
      BY <2>3, EntryAssumption, Zenon DEF At
    <2>5. HandlerInv' /\ QueueInv' /\ TableIsExact' /\ OwnAnswer'
      BY <2>1, HandlersKept, Zenon
    <2>6. \A d \in Reqs :
               /\ (Transit(d))' => Transit(d)
               /\ d \in network' => \A r \in streams' : ~At(d, r)
               /\ \A r, u \in streams' : At(d, r) /\ At(d, u) => r = u
               /\ \A r \in streams' : r.cur = d => d \notin r.rest
      <3> HIDE DEF R
      <3> QED
        BY <2>1, <2>4, StreamReplaced, Zenon
    <2>7. /\ ~(Transit(c))' /\ pc[c] \in {"wait", "cleanup", "done"}
      <3>1. /\ c \notin network /\ c \notin s.rest /\ \A r \in streams \ {s} : ~At(c, r)
            /\ pc[c] \in {"wait", "cleanup", "done"}
        BY <2>2, Zenon DEF EntryInv, TransitInv, Transit, At
      <3>2. \A r \in R : ~At(c, r)
        BY <2>2, <2>3, <3>1, EntryAssumption, Zenon DEF At
      <3> QED
        BY <2>1, <3>1, <3>2, Zenon DEF Transit, At
    <2>8. waitCh' = [waitCh EXCEPT ![c] = c]
      BY <1>2, <2>2, Zenon
    <2>9. TransitInv'
      BY <2>1, <2>2, <2>6, <2>7, <2>8, Zenon DEF EntryInv, TransitInv, At, serverVars
    <2>10. IdsDiffer'
      BY <2>1, <2>6, IdsKept, Zenon DEF Busy, serverVars
    <2>11. TypeOK' /\ Paired'
      <3>1. ASSUME NEW r \in R
            PROVE  /\ r \in StreamSet
                   /\ r.cur = None /\ r.ch = None /\ r.rest # {}
        BY <2>2, <2>3, Zenon
      <3>2. /\ streams' \subseteq StreamSet
            /\ \A r \in streams' : /\ (r.cur = None <=> r.ch = None) /\ (r.cur = None => r.rest # {})
                                   /\ r.ch \in {None, r.cur}
        BY <2>1, <3>1, Zenon DEF EntryInv, TypeOK, StreamSet, Paired
      <3>3. waitCh' \in [Reqs -> Reqs \cup {None}] /\ \A d \in Reqs : waitCh'[d] \in {None, d}
        BY <2>2, <2>8, Zenon DEF EntryInv, Paired
      <3> QED
        BY <2>1, <3>2, <3>3, Zenon DEF EntryInv, TypeOK, StreamSet, Paired, serverVars
    <2> QED
      BY <2>5, <2>9, <2>10, <2>11, Zenon DEF EntryInv
  <1> QED
    BY <1>1, <1>2, Zenon DEF DeliverSend

-----------------------------------------------------------------------------
LEMMA EntryInvInit == Init => EntryInv
  <1> SUFFICES ASSUME Init PROVE EntryInv
    BY Zenon
  <1>1. TypeOK
    <2>1. <<>> \in Seq(TCP)
      OBVIOUS
    <2>2. connChan \in Seq(TCP)
      BY <2>1, Zenon DEF Init
    <2> QED
      BY <2>2, Zenon DEF Init, TypeOK, Labels
  <1>2. QueueInv
    BY DEF Init, QueueInv
  <1>3. \A c \in Reqs : ~Busy(c) /\ ~Transit(c) /\ ~Registered(c)
    BY Zenon DEF Init, Busy, Transit, Registered
  <1>4. HandlerInv
    BY <1>3, Zenon DEF Init, HandlerInv
  <1>5. TransitInv /\ IdsDiffer
    BY <1>3, Zenon DEF Init, TransitInv, IdsDiffer
  <1>6. TableIsExact
    BY <1>3, EntryAssumption, Zenon DEF Init, TableIsExact
  <1>7. Paired /\ OwnAnswer
    BY Zenon DEF Init, Paired, OwnAnswer
  <1> QED
    BY <1>1, <1>2, <1>4, <1>5, <1>6, <1>7, Zenon DEF EntryInv

LEMMA EntryInvStep ==
    ASSUME EntryInv, [Next]_vars
    PROVE  EntryInv'
  <1>1. CASE UNCHANGED vars
    BY <1>1, PanicStep, Zenon DEF vars, EntryInv, TypeOK
  <1>2. CASE TakeTask
    BY <1>2, TakeTaskStep, Zenon
  <1>3. ASSUME NEW c \in Reqs, Accept(c) \/ ReadFromUDP(c)
        PROVE  EntryInv'
    BY <1>3, AcceptStep, ReadFromUDPStep, Zenon
  <1>4. ASSUME NEW c \in Reqs, HandlerStep(c)
        PROVE  EntryInv'
    BY <1>4, GenShortReqIDStep, ReadOrRouteStep, RegisterStep, AddToBatchStep, SelectStep,
       CleanupStep, Zenon DEF HandlerStep
  <1>5. ASSUME NEW c \in Reqs, TunnelStep(c)
        PROVE  EntryInv'
    BY <1>5, LoseStep, AcceptUniStreamStep, Zenon DEF TunnelStep
  <1>6. ASSUME NEW s \in streams, StreamStep(s)
        PROVE  EntryInv'
    BY <1>6, DeliverSendStep, DeliverLookupStep, Zenon DEF StreamStep
  <1> QED
    BY <1>1, <1>2, <1>3, <1>4, <1>5, <1>6, Zenon DEF Next

LEMMA EntryInvAlways == Spec => []EntryInv
  BY EntryInvInit, EntryInvStep, PTL DEF Spec

\* Clients get their own answers, and the waiting table of disaggregator.go is
\* exact, for any number of requests, workers and streams.
THEOREM AnswersAreOwn == Spec => [](OwnAnswer /\ TableIsExact)
  <1>1. EntryInv => OwnAnswer /\ TableIsExact
    BY Zenon DEF EntryInv
  <1> QED
    BY <1>1, EntryInvAlways, PTL

\* Deliver's send never waits on a full channel.
THEOREM SendsNeverBlock == Spec => []DeliverNeverBlocks
  <1>1. EntryInv => DeliverNeverBlocks
    <2> SUFFICES ASSUME EntryInv, NEW s \in streams, s.ch # None
                 PROVE  waitCh[s.ch] = None
      BY Zenon DEF DeliverNeverBlocks
    <2>1. s.ch = s.cur /\ s.cur \in Reqs
      BY Zenon DEF EntryInv, Paired, TypeOK
    <2> QED
      BY <2>1, Zenon DEF EntryInv, TransitInv, Transit, At
  <1> QED
    BY <1>1, EntryInvAlways, PTL

\* The send on a closed channel that ends the process, in DeliverSend.
LEMMA LateAnswer ==
    ASSUME EntryInv, NEW s \in streams, s.cur # None, s.ch \in closed
    PROVE  s.ch \in Reqs /\ answer[s.ch] = "timeout"
  <1>1. s.ch = s.cur /\ s.cur \in Reqs
    BY Zenon DEF EntryInv, Paired, TypeOK
  <1>2. Transit(s.ch) /\ pc[s.ch] = "done"
    BY <1>1, Zenon DEF Transit, At, EntryInv, HandlerInv
  <1> QED
    BY <1>1, <1>2, Zenon DEF EntryInv, TransitInv

\* The process ends in Deliver only on an answer that came after its timeout.
THEOREM PanicsAreLateAnswers == Spec => []PanicOnlyOnLateAnswer
  <1>1. Init => PanicOnlyOnLateAnswer
    BY Zenon DEF Init, PanicOnlyOnLateAnswer
  <1>2. ASSUME EntryInv, PanicOnlyOnLateAnswer, [Next]_vars
        PROVE  PanicOnlyOnLateAnswer'
    <2>1. CASE UNCHANGED vars
      BY <1>2, <2>1, Zenon DEF vars, serverVars, tableVars, tunnelVars, PanicOnlyOnLateAnswer
    <2>2. CASE Next /\ panicked'
      <3>1. PICK s \in streams : /\ s.cur # None /\ s.ch \in closed
                                 /\ UNCHANGED <<answer, closed, streams>>
        BY <2>2, Zenon DEF Next, Accept, ReadFromUDP, TakeTask, HandlerStep, GenShortReqID, ReadRequest,
           ChooseRoute, Register, AddToBatch, GetAnswer, Timeout, Cleanup, TunnelStep, Lose,
           AcceptUniStream, StreamStep, DeliverSend, DeliverLookup, serverVars
      <3> QED
        BY <1>2, <3>1, LateAnswer, Zenon DEF PanicOnlyOnLateAnswer
    <2>3. CASE Next /\ ~panicked'
      BY <2>3, Zenon DEF PanicOnlyOnLateAnswer
    <2> QED
      BY <1>2, <2>1, <2>2, <2>3, Zenon
  <1> QED
    BY <1>1, <1>2, EntryInvAlways, PTL DEF Spec

-----------------------------------------------------------------------------
\* The entry node implements ProxyService.

\* What Status says, one case at a time.
LEMMA StatusIs ==
    ASSUME NEW c \in Reqs
    PROVE  /\ answer[c] = c => Status[c] = "answered"
           /\ answer[c] = "timeout" => Status[c] = "timeout"
           /\ answer[c] = None /\ pc[c] = "new" => Status[c] = "new"
           /\ answer[c] = None /\ pc[c] = "done" => Status[c] = "dropped"
           /\ answer[c] = None /\ pc[c] \notin {"new", "done"} => Status[c] = "open"
  BY EntryAssumption, Zenon DEF Status

LEMMA StatusIsFunction == Status = [c \in Reqs |-> Status[c]] /\ Status' = [c \in Reqs |-> Status'[c]]
  BY DEF Status

\* The status of a request depends on its own handler only.
LEMMA StatusMoves ==
    ASSUME NEW c \in Reqs, \A d \in Reqs \ {c} : pc'[d] = pc[d] /\ answer'[d] = answer[d]
    PROVE  Status' = [Status EXCEPT ![c] = Status'[c]]
  <1>1. ASSUME NEW d \in Reqs \ {c} PROVE Status'[d] = Status[d]
    <2>1. pc'[d] = pc[d] /\ answer'[d] = answer[d]
      BY Zenon
    <2> QED
      BY <2>1 DEF Status
  <1> QED
    BY <1>1, StatusIsFunction, Zenon

\* A handler's step is a step of the service, or none.
LEMMA HandlerRefines ==
    ASSUME EntryInv, ~panicked, UNCHANGED panicked, NEW c \in Reqs, NEW l \in Labels,
           Goto(c, l), \A d \in Reqs \ {c} : answer'[d] = answer[d], pc[c] # "done",
           \/ answer'[c] = answer[c] /\ l # "new"
           \/ answer'[c] \in {c, "timeout"} /\ pc[c] = "wait"
    PROVE  [Service!Next]_(Service!vars)
  <1>1. pc'[c] = l /\ \A d \in Reqs \ {c} : pc'[d] = pc[d]
    BY Zenon DEF Goto, EntryInv, TypeOK
  <1>2. Status' = [Status EXCEPT ![c] = Status'[c]]
    BY <1>1, StatusMoves, Zenon
  <1>3. answer[c] \in {None, "timeout", c} /\ (pc[c] # "cleanup" => answer[c] = None)
    BY Zenon DEF EntryInv, OwnAnswer, HandlerInv
  <1>4. /\ answer'[c] = c => Status'[c] = "answered"
        /\ answer'[c] = "timeout" => Status'[c] = "timeout"
        /\ answer'[c] = None /\ l = "done" => Status'[c] = "dropped"
        /\ answer'[c] = None /\ l \notin {"new", "done"} => Status'[c] = "open"
    BY <1>1, EntryAssumption, Zenon DEF Status
  <1>5. CASE Status'[c] = Status[c]
    <2>1. Status' = Status
      BY <1>2, <1>5, StatusIsFunction, Zenon
    <2> QED
      BY <2>1, Zenon DEF Service!vars
  <1>6. CASE Status[c] \in {"new", "open"} /\ Status'[c] = "dropped"
    BY <1>2, <1>6, Zenon DEF Service!Next, Service!Drop, Service!Become
  <1>7. CASE Status[c] = "new" /\ Status'[c] = "open"
    BY <1>2, <1>7, Zenon DEF Service!Next, Service!Take, Service!Become
  <1>8. CASE Status[c] = "open" /\ Status'[c] = "answered"
    BY <1>2, <1>8, Zenon DEF Service!Next, Service!Answer, Service!Become
  <1>9. CASE Status[c] = "open" /\ Status'[c] = "timeout"
    BY <1>2, <1>9, Zenon DEF Service!Next, Service!TimeOut, Service!Become
  <1> QED
    BY <1>3, <1>4, <1>5, <1>6, <1>7, <1>8, <1>9, StatusIs, Zenon

\* Deliver's send on a closed channel is the crash of the service.
LEMMA StreamRefines ==
    ASSUME EntryInv, ~panicked, NEW s \in streams, StreamStep(s)
    PROVE  [Service!Next]_(Service!vars)
  <1>1. UNCHANGED serverVars
    BY Zenon DEF StreamStep, DeliverSend, DeliverLookup
  <1>2. Status' = Status
    BY <1>1 DEF Status, serverVars
  <1>3. CASE UNCHANGED panicked
    BY <1>2, <1>3, Zenon DEF Service!vars
  <1>4. CASE s.cur # None /\ s.ch \in closed /\ panicked' = TRUE
    <2>1. s.ch \in Reqs /\ Status[s.ch] = "timeout"
      BY <1>4, LateAnswer, StatusIs, Zenon
    <2> QED
      BY <1>2, <1>4, <2>1, Zenon DEF Service!Next, Service!Crash
  <1> QED
    BY <1>3, <1>4, Zenon DEF StreamStep, DeliverSend, DeliverLookup

LEMMA StepRefines ==
    ASSUME EntryInv, [Next]_vars
    PROVE  [Service!Next]_(Service!vars)
  <1>1. CASE UNCHANGED vars
    BY <1>1 DEF vars, serverVars, Status, Service!vars
  <1>2. CASE ~panicked /\ TakeTask
    <2>1. /\ connChan \in Seq(TCP) /\ connChan # <<>> /\ Head(connChan) = connChan[1]
          /\ 1 \in 1 .. Len(connChan)
      BY <1>2 DEF EntryInv, TypeOK, TakeTask
    <2>2. Head(connChan) \in Reqs /\ pc[Head(connChan)] = "queued"
      BY <2>1 DEF EntryInv, QueueInv, Reqs
    <2> QED
      BY <1>2, <2>2, HandlerRefines, Zenon DEF TakeTask, Labels
  <1>3. ASSUME ~panicked, NEW c \in Reqs, Accept(c) \/ ReadFromUDP(c)
        PROVE  [Service!Next]_(Service!vars)
    BY <1>3, HandlerRefines, Zenon DEF Accept, ReadFromUDP, Labels
  <1>4. ASSUME ~panicked, NEW c \in Reqs, HandlerStep(c)
        PROVE  [Service!Next]_(Service!vars)
    <2>1. CASE GenShortReqID(c) \/ ReadRequest(c) \/ ChooseRoute(c) \/ Register(c)
               \/ AddToBatch(c) \/ Cleanup(c)
      <3>1. PICK l \in Labels \ {"new"} : Goto(c, l)
        BY <2>1, Zenon DEF GenShortReqID, ReadRequest, ChooseRoute, Register, AddToBatch, Cleanup, Labels
      <3>2. pc[c] # "done" /\ UNCHANGED <<answer, panicked>>
        BY <2>1, Zenon DEF GenShortReqID, ReadRequest, ChooseRoute, Register, AddToBatch, Cleanup
      <3> QED
        BY <1>4, <3>1, <3>2, HandlerRefines, Zenon
    <2>2. CASE GetAnswer(c) \/ Timeout(c)
      <3>1. pc[c] = "wait" /\ Goto(c, "cleanup") /\ UNCHANGED panicked
        BY <2>2, Zenon DEF GetAnswer, Timeout
      <3>2. answer'[c] \in {c, "timeout"} /\ \A d \in Reqs \ {c} : answer'[d] = answer[d]
        BY <2>2, Zenon DEF GetAnswer, Timeout, EntryInv, TypeOK, Paired
      <3> QED
        BY <1>4, <3>1, <3>2, HandlerRefines, Zenon DEF Labels
    <2> QED
      BY <1>4, <2>1, <2>2, Zenon DEF HandlerStep
  <1>5. ASSUME NEW c \in Reqs, TunnelStep(c)
        PROVE  [Service!Next]_(Service!vars)
    <2>1. UNCHANGED <<serverVars, panicked>>
      BY <1>5, Zenon DEF TunnelStep, Lose, AcceptUniStream
    <2> QED
      BY <2>1 DEF serverVars, Status, Service!vars
  <1>6. ASSUME ~panicked, NEW s \in streams, StreamStep(s)
        PROVE  [Service!Next]_(Service!vars)
    BY <1>6, StreamRefines, Zenon
  <1> QED
    BY <1>1, <1>2, <1>3, <1>4, <1>5, <1>6, Zenon DEF Next

\* The safety part of ImplementsService, for every value of the constants: each
\* request is taken, answered with its own answer, timed out or dropped once, and
\* the process ends only after a timeout.
THEOREM EntryImplementsService == Spec => Service!Safe
  <1>1. Init => Service!Init
    <2> SUFFICES ASSUME Init PROVE Service!Init
      OBVIOUS
    <2>1. \A c \in Reqs : Status[c] = "new"
      BY StatusIs, Zenon DEF Init
    <2> QED
      BY <2>1, Zenon DEF Init, Service!Init, Status
  <1>2. EntryInv /\ [Next]_vars => [Service!Next]_(Service!vars)
    BY StepRefines, Zenon
  <1> QED
    BY <1>1, <1>2, EntryInvAlways, PTL DEF Spec, Service!Safe

=============================================================================
