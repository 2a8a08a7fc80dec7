---------------------------- MODULE RelayProofs ----------------------------
(***************************************************************************)
(* The safety theorems of Relay, for any requests, batches and losses.     *)
(***************************************************************************)
EXTENDS Relay, SequenceTheorems, TLAPS

Addrs == Nodes \cup Origins \cup {Zero}
Packets == [hopIP : [0 .. 3 -> Addrs], hopPos : 1 .. 3,
            port : {0} \cup {q.port : q \in Reqs}, subs : Seq(Reqs) \ {<<>>}, to : Nodes]

RelayType ==
    /\ toSend \subseteq Reqs /\ inFlight \subseteq Packets
    /\ \A t \in tasks : t.req \in Reqs
    /\ \A a \in answers : a.req \in Reqs
    /\ \A d \in delivered : d[1] \in Reqs
    /\ visits \in [Reqs -> Seq(Nodes)]

-----------------------------------------------------------------------------
\* Where a request is.

Flying(r) == \E p \in inFlight : r \in Members(p.subs)
Sourced(r) == \E t \in tasks : t.req = r
Answered(r) == \E a \in answers : a.req = r
Done(r) == \E d \in delivered : d[1] = r

OnePlace ==
    \A r \in Reqs :
        /\ r \in toSend => ~Flying(r) /\ ~Sourced(r) /\ ~Answered(r) /\ ~Done(r)
        /\ Flying(r) => ~Sourced(r) /\ ~Answered(r) /\ ~Done(r)
        /\ Sourced(r) => ~Answered(r) /\ ~Done(r)
        /\ Answered(r) => ~Done(r)

NotTwice ==
    /\ \A p, q \in inFlight : \A r \in Members(p.subs) : r \in Members(q.subs) => p = q
    /\ \A t, u \in tasks : t.req = u.req => t = u
    /\ \A a, b \in answers : a.req = b.req => a = b

-----------------------------------------------------------------------------
\* What the header and the visits v of a request r are at each place.

\* The nodes before the k-th slot of the header on the way to the origin.
Onward(path, k) ==
    IF k = 1 THEN <<>> ELSE IF k = 2 THEN <<path[2]>> ELSE <<path[2], path[3]>>

\* The nodes up to the exit node, and the hops of the answer.
Exit(path) == IF Len(path) = 3 THEN <<path[2]>> ELSE <<path[2], path[3]>>
Back(path) == IF Len(path) = 3 THEN <<path[2], path[1]>> ELSE <<path[3], path[2], path[1]>>

OfPath(r, port) == \E q \in Reqs : q.path = r.path /\ q.port = port

OnWay(p, r, v) ==
    /\ Len(r.path) >= 3 /\ p.hopIP = HopIPs(r.path) /\ p.to = p.hopIP[p.hopPos]
    /\ OfPath(r, p.port) /\ (p.port # 0 => p.hopPos <= 2)
    /\ v = Onward(r.path, p.hopPos)

OnReturn(p, r, v) ==
    /\ Len(r.path) >= 3 /\ p.hopIP = HopIPs(Back(r.path)) /\ p.to = p.hopIP[p.hopPos]
    /\ p.port = 0 /\ p.hopPos <= 2 /\ (Len(r.path) = 3 => p.hopPos = 1)
    /\ v = IF p.hopPos = 1 THEN Exit(r.path) ELSE Append(Exit(r.path), r.path[2])

AtOrigin(t, r, v) ==
    /\ Len(r.path) >= 3 /\ t.hopIP = HopIPs(r.path) /\ OfPath(r, t.port)
    /\ t.origin = IF Len(r.path) = 3 THEN r.path[3] ELSE r.path[4]
    /\ v = Exit(r.path)

AtExit(a, r, v) == Len(r.path) >= 3 /\ a.hops = Back(r.path) /\ v = Exit(r.path)

Agree ==
    /\ \A p \in inFlight : \A r \in Members(p.subs) :
           OnWay(p, r, visits[r]) \/ OnReturn(p, r, visits[r])
    /\ \A t \in tasks : AtOrigin(t, t.req, visits[t.req])
    /\ \A a \in answers : AtExit(a, a.req, visits[a.req])
    /\ \A r \in toSend : visits[r] = <<>>

VisitsFollow == \A r \in Reqs : FitsHeader(r) => IsPrefix(visits[r], Walk(r))

RightContacts ==
    \A c \in contacted :
        FitsHeader(c[1]) => c[2] = c[1].path[Len(c[1].path)] /\ OfPath(c[1], c[3])

RightDeliveries ==
    \A d \in delivered :
        /\ FitsHeader(d[1]) \/ NamesPort(d[1]) => d[2] = Head(d[1].path)
        /\ FitsHeader(d[1]) => visits[d[1]] = Walk(d[1])

RelayInv ==
    /\ RelayType /\ OnePlace /\ NotTwice /\ Agree
    /\ VisitsFollow /\ RightContacts /\ RightDeliveries /\ ~panicked

-----------------------------------------------------------------------------
\* A return of two or of three hops has a second.
LEMMA TwoOrThree ==
    \A k \in Nat : k = 2 \/ k = 3 => ~(k < 2)
  OBVIOUS

\* Short sequences are tuples of their elements.
LEMMA ShortSeqs ==
    ASSUME NEW S, NEW s \in Seq(S)
    PROVE  /\ Len(s) = 0 => s = <<>>
           /\ Len(s) = 1 => s = <<s[1]>>
           /\ Len(s) = 2 => s = <<s[1], s[2]>>
           /\ Len(s) = 3 => s = <<s[1], s[2], s[3]>>
           /\ Len(s) = 4 => s = <<s[1], s[2], s[3], s[4]>>
  <1>1. \A i \in 1 .. Len(s) : s[i] \in S
    OBVIOUS
  <1>2. Len(s) = 0 => s = <<>>
    OBVIOUS
  <1>3. ASSUME Len(s) = 1 PROVE s = <<s[1]>>
    <2>1. <<s[1]>> \in Seq(S) /\ Len(<<s[1]>>) = 1
      BY <1>1, <1>3
    <2> QED
      BY <1>3, <2>1, SeqEqual
  <1>4. ASSUME Len(s) = 2 PROVE s = <<s[1], s[2]>>
    <2>1. <<s[1], s[2]>> \in Seq(S) /\ Len(<<s[1], s[2]>>) = 2
      BY <1>1, <1>4
    <2>2. \A i \in 1 .. Len(s) : s[i] = <<s[1], s[2]>>[i]
      BY <1>4
    <2> QED
      BY <1>4, <2>1, <2>2, SeqEqual, Zenon
  <1>5. ASSUME Len(s) = 3 PROVE s = <<s[1], s[2], s[3]>>
    <2>1. <<s[1], s[2], s[3]>> \in Seq(S) /\ Len(<<s[1], s[2], s[3]>>) = 3
      BY <1>1, <1>5
    <2>2. \A i \in 1 .. Len(s) : s[i] = <<s[1], s[2], s[3]>>[i]
      BY <1>5
    <2> QED
      BY <1>5, <2>1, <2>2, SeqEqual, Zenon
  <1>6. ASSUME Len(s) = 4 PROVE s = <<s[1], s[2], s[3], s[4]>>
    <2>1. <<s[1], s[2], s[3], s[4]>> \in Seq(S) /\ Len(<<s[1], s[2], s[3], s[4]>>) = 4
      BY <1>1, <1>6
    <2>2. \A i \in 1 .. Len(s) : s[i] = <<s[1], s[2], s[3], s[4]>>[i]
      BY <1>6
    <2> QED
      BY <1>6, <2>1, <2>2, SeqEqual, Zenon
  <1> QED
    BY <1>2, <1>3, <1>4, <1>5, <1>6, Zenon

LEMMA ShortTails ==
    ASSUME NEW S, NEW s \in Seq(S)
    PROVE  /\ Len(s) = 3 => Tail(s) = <<s[2], s[3]>>
           /\ Len(s) = 4 => Tail(s) = <<s[2], s[3], s[4]>>
  <1> SUFFICES ASSUME Len(s) \in {3, 4}
               PROVE  /\ Len(s) = 3 => Tail(s) = <<s[2], s[3]>>
                      /\ Len(s) = 4 => Tail(s) = <<s[2], s[3], s[4]>>
    BY Zenon
  <1>1. /\ Tail(s) \in Seq(S) /\ Len(Tail(s)) = Len(s) - 1
        /\ \A i \in 1 .. Len(Tail(s)) : Tail(s)[i] = s[i + 1]
    BY HeadTailProperties
  <1>2. PICK t \in Seq(S) : t = Tail(s)
    BY <1>1, Zenon
  <1>3. Len(t) = Len(s) - 1 /\ \A i \in 1 .. Len(t) : t[i] = s[i + 1]
    BY <1>1, <1>2, Zenon
  <1>4. ASSUME Len(s) = 3 PROVE t = <<s[2], s[3]>>
    <2>1. Len(t) = 2 /\ t[1] = s[2] /\ t[2] = s[3]
      BY ONLY <1>3, <1>4
    <2> QED
      BY <2>1, ShortSeqs, Zenon
  <1>5. ASSUME Len(s) = 4 PROVE t = <<s[2], s[3], s[4]>>
    <2>1. Len(t) = 3 /\ t[1] = s[2] /\ t[2] = s[3] /\ t[3] = s[4]
      BY ONLY <1>3, <1>5
    <2> QED
      BY <2>1, ShortSeqs, Zenon
  <1> QED
    BY <1>2, <1>4, <1>5, Zenon

\* The addresses of a path: nodes up to the last, which is the origin.
LEMMA PathAddrs ==
    ASSUME NEW r \in Reqs
    PROVE  /\ r.path \in Seq(Nodes \cup Origins) /\ Len(r.path) \in Nat /\ Len(r.path) >= 2
           /\ \A i \in 1 .. Len(r.path) - 1 : r.path[i] \in Nodes
           /\ r.path[Len(r.path)] \in Origins
           /\ \A i \in 1 .. Len(r.path) : r.path[i] \in Addrs /\ r.path[i] # Zero
  <1>1. r.path \in Seq(Nodes \cup Origins) /\ Len(r.path) \in Nat
    BY RelayAssumption
  <1>2. r.path[Len(r.path)] \in Origins
    BY RelayAssumption, Zenon
  <1>3. \A i \in 1 .. Len(r.path) : r.path[i] \in Nodes \cup Origins
    BY <1>1
  <1> QED
    BY <1>1, <1>2, <1>3, RelayAssumption, Zenon DEF Addrs

\* The header that is written for a path.
LEMMA HeaderOfPath ==
    ASSUME NEW r \in Reqs
    PROVE  /\ HopIPs(r.path) \in [0 .. 3 -> Addrs]
           /\ HopIPs(r.path)[0] = r.path[1] /\ HopIPs(r.path)[1] = r.path[2]
           /\ HopIPs(r.path)[2] = IF Len(r.path) >= 3 THEN r.path[3] ELSE Zero
           /\ HopIPs(r.path)[3] = IF Len(r.path) >= 4 THEN r.path[4] ELSE Zero
  BY PathAddrs DEF HopIPs, MaxHops, Addrs

\* The header that is written for the way back.
LEMMA HeaderOfBack ==
    ASSUME NEW r \in Reqs, Len(r.path) >= 3
    PROVE  /\ HopIPs(Back(r.path)) \in [0 .. 3 -> Addrs]
           /\ Len(Back(r.path)) >= 2 /\ Back(r.path)[2] = HopIPs(Back(r.path))[1]
           /\ Len(r.path) = 3 => /\ HopIPs(Back(r.path))[1] = r.path[1]
                                 /\ HopIPs(Back(r.path))[2] = Zero
           /\ Len(r.path) # 3 => /\ HopIPs(Back(r.path))[1] = r.path[2]
                                 /\ HopIPs(Back(r.path))[2] = r.path[1]
                                 /\ HopIPs(Back(r.path))[3] = Zero
  <1>1. /\ r.path[1] \in Addrs /\ r.path[2] \in Addrs /\ r.path[3] \in Addrs
        /\ Zero \in Addrs
    BY PathAddrs DEF Addrs
  <1>2. CASE Len(r.path) = 3
    <2> DEFINE b == <<r.path[2], r.path[1]>>
    <2>1. Back(r.path) = b
      BY <1>2, Zenon DEF Back
    <2>2. Len(b) = 2 /\ b[1] = r.path[2] /\ b[2] = r.path[1]
      BY Zenon
    <2> HIDE DEF b
    <2> QED
      BY <1>1, <1>2, <2>1, <2>2 DEF HopIPs, MaxHops
  <1>3. CASE Len(r.path) # 3
    <2> DEFINE b == <<r.path[3], r.path[2], r.path[1]>>
    <2>1. Back(r.path) = b
      BY <1>3, Zenon DEF Back
    <2>2. Len(b) = 3 /\ b[1] = r.path[3] /\ b[2] = r.path[2] /\ b[3] = r.path[1]
      BY Zenon
    <2> HIDE DEF b
    <2> QED
      BY <1>1, <1>3, <2>1, <2>2 DEF HopIPs, MaxHops
  <1> QED
    BY <1>2, <1>3, Zenon

\* doOriginRequest turns the header of a path into the way back.
LEMMA ReturnOfHeader ==
    ASSUME NEW r \in Reqs, Len(r.path) >= 3
    PROVE  ReturnHops(HopIPs(r.path)) = Back(r.path)
  <1> DEFINE h == HopIPs(r.path)
  <1>1. h[0] = r.path[1] /\ h[1] = r.path[2] /\ h[2] = r.path[3]
    BY HeaderOfPath, Zenon
  <1>2. h[0] # Zero /\ h[1] # Zero /\ h[2] # Zero
    BY <1>1, PathAddrs
  <1>3. h[0] \in Addrs /\ h[1] \in Addrs /\ h[2] \in Addrs /\ h[3] \in Addrs
    BY HeaderOfPath
  <1>4. CASE Len(r.path) = 3
    <2>1. h[3] = Zero
      BY <1>4, HeaderOfPath
    <2> HIDE DEF h
    <2>2. SetHops(h) = Append(Append(Append(<<>>, h[2]), h[1]), h[0])
      BY <1>2, <2>1, Zenon DEF SetHops, Collect
    <2>3. /\ SetHops(h) \in Seq(Addrs) /\ Len(SetHops(h)) = 3
          /\ SetHops(h)[2] = h[1] /\ SetHops(h)[3] = h[0]
      BY <1>3, <2>2
    <2>4. ReturnHops(h) = Tail(SetHops(h))
      BY <2>3 DEF ReturnHops
    <2>5. Tail(SetHops(h)) = <<h[1], h[0]>>
      BY <2>3, ShortTails, Zenon
    <2> QED
      BY <1>1, <1>4, <2>4, <2>5, Zenon DEF Back, h
  <1>5. CASE Len(r.path) # 3
    <2>0. Len(r.path) \in Nat
      BY PathAddrs, Zenon
    <2>1. h[3] = r.path[4] /\ Len(r.path) >= 4
      BY <1>5, <2>0, HeaderOfPath
    <2>2. h[3] # Zero
      BY <2>1, PathAddrs
    <2> HIDE DEF h
    <2>3. SetHops(h) = Append(Append(Append(Append(<<>>, h[3]), h[2]), h[1]), h[0])
      BY <1>2, <2>2, Zenon DEF SetHops, Collect
    <2>4. /\ SetHops(h) \in Seq(Addrs) /\ Len(SetHops(h)) = 4
          /\ SetHops(h)[2] = h[2] /\ SetHops(h)[3] = h[1] /\ SetHops(h)[4] = h[0]
      BY <1>3, <2>3
    <2>5. ReturnHops(h) = Tail(SetHops(h))
      BY <2>4 DEF ReturnHops
    <2>6. Tail(SetHops(h)) = <<h[2], h[1], h[0]>>
      BY <2>4, ShortTails, Zenon
    <2> QED
      BY <1>1, <1>5, <2>5, <2>6, Zenon DEF Back, h
  <1> QED
    BY <1>4, <1>5, Zenon

\* The walks of the paths that fit the header.
LEMMA WalkOfPath ==
    ASSUME NEW r \in Reqs, FitsHeader(r)
    PROVE  /\ Len(r.path) = 2 => Walk(r) = <<>>
           /\ Len(r.path) = 3 => Walk(r) = <<r.path[2], r.path[1]>>
           /\ Len(r.path) = 4 => Walk(r) = <<r.path[2], r.path[3], r.path[2], r.path[1]>>
  <1> DEFINE path == r.path
             n == Len(path)
             out == SubSeq(path, 2, n - 1)
             back == [i \in 1 .. n - 2 |-> path[n - 1 - i]]
             S == Nodes \cup Origins
  <1>0. path \in Seq(S) /\ n \in Nat /\ n >= 2
    BY PathAddrs, Zenon
  <1>1. path \in Seq(S) /\ n \in 2 .. 4 /\ \A i \in 1 .. n : path[i] \in S
    <2>1. n <= 4
      BY Zenon DEF FitsHeader, MaxHops
    <2>2. \A i \in 1 .. n : path[i] \in S
      BY <1>0, ElementOfSeq, Zenon
    <2> HIDE DEF path, S, n
    <2> QED
      BY <1>0, <2>1, <2>2
  <1>2. out \in Seq(S) /\ Len(out) = n - 2 /\ \A i \in 1 .. n - 2 : out[i] = path[i + 1]
    <2> HIDE DEF path, S, n
    <2>1. \A i \in 2 .. n - 1 : path[i] \in S
      BY <1>1
    <2>2. /\ out \in Seq(S) /\ Len(out) = IF 2 <= n - 1 THEN n - 1 - 2 + 1 ELSE 0
          /\ \A i \in 1 .. n - 1 - 2 + 1 : out[i] = path[2 + i - 1]
      BY <1>1, <2>1, SubSeqProperties
    <2> QED
      BY <1>1, <2>2
  <1>3. back \in Seq(S) /\ Len(back) = n - 2 /\ \A i \in 1 .. n - 2 : back[i] = path[n - 1 - i]
    <2> HIDE DEF path, S, n
    <2>1. back \in [1 .. n - 2 -> S]
      BY <1>1
    <2> QED
      BY <1>1, <2>1
  <1>4. Walk(r) = out \o back
    BY Zenon DEF Walk
  <1> HIDE DEF back, out, n, S
  <1>6. /\ Walk(r) \in Seq(S) /\ Len(Walk(r)) = 2 * (n - 2)
        /\ \A i \in 1 .. n - 2 : Walk(r)[i] = path[i + 1]
        /\ \A i \in 1 .. n - 2 : Walk(r)[n - 2 + i] = path[n - 1 - i]
    <2>1. n - 2 \in Nat
      BY ONLY <1>1
    <2>2. PICK m \in Nat : m = n - 2
      BY ONLY <2>1, Zenon
    <2>3. PICK a \in Seq(S), b \in Seq(S) : a = out /\ b = back
      BY ONLY <1>2, <1>3, Zenon
    <2>4. Len(a) = m /\ Len(b) = m
      BY ONLY <1>2, <1>3, <2>2, <2>3, Zenon
    <2>5. /\ a \o b \in Seq(S) /\ Len(a \o b) = 2 * m
          /\ \A i \in 1 .. m : (a \o b)[i] = a[i]
          /\ \A i \in 1 .. m : (a \o b)[m + i] = b[i]
      BY ONLY m \in Nat, a \in Seq(S), b \in Seq(S), <2>4
    <2> QED
      BY ONLY <1>2, <1>3, <1>4, <2>2, <2>3, <2>5, ZenonT(60)
  <1>7. CASE n = 2
    BY <1>6, <1>7, ShortSeqs DEF n
  <1>8. CASE n = 3
    <2>1. Len(Walk(r)) = 2 /\ Walk(r)[1] = path[2] /\ Walk(r)[2] = path[1]
      BY <1>6, <1>8
    <2> QED
      BY <1>6, <1>8, <2>1, ShortSeqs DEF n
  <1>9. CASE n = 4
    <2>1. /\ Len(Walk(r)) = 4 /\ Walk(r)[1] = path[2] /\ Walk(r)[2] = path[3]
          /\ Walk(r)[3] = path[2] /\ Walk(r)[4] = path[1]
      BY <1>6, <1>9
    <2> QED
      BY <1>6, <1>9, <2>1, ShortSeqs DEF n
  <1> QED
    BY <1>1, <1>7, <1>8, <1>9, Zenon DEF n

LEMMA PrefixByElements ==
    ASSUME NEW S, NEW s \in Seq(S), NEW t \in Seq(S), Len(s) <= Len(t),
           \A i \in 1 .. Len(s) : s[i] = t[i]
    PROVE  IsPrefix(s, t)
  <1>1. /\ SubSeq(t, 1, Len(s)) \in Seq(S) /\ Len(SubSeq(t, 1, Len(s))) = Len(s)
        /\ \A i \in 1 .. Len(s) : SubSeq(t, 1, Len(s))[i] = t[i]
    <2>1. Len(s) \in Nat /\ Len(t) \in Nat /\ \A i \in 1 .. Len(t) : t[i] \in S
      OBVIOUS
    <2> QED
      BY <2>1, SubSeqProperties
  <1>2. SubSeq(t, 1, Len(s)) = s
    BY <1>1, SeqEqual, Zenon
  <1> QED
    BY <1>2, Zenon DEF IsPrefix

LEMMA TupleSeqs ==
    ASSUME NEW a \in Addrs, NEW b \in Addrs, NEW c \in Addrs, NEW d \in Addrs
    PROVE  /\ <<>> \in Seq(Addrs) /\ <<a>> \in Seq(Addrs) /\ <<a, b>> \in Seq(Addrs)
           /\ <<a, b, c>> \in Seq(Addrs) /\ <<a, b, c, d>> \in Seq(Addrs)
  OBVIOUS

LEMMA Appends ==
    ASSUME NEW a \in Addrs, NEW b \in Addrs, NEW c \in Addrs
    PROVE  /\ Append(<<>>, a) = <<a>> /\ Append(<<a>>, b) = <<a, b>>
           /\ Append(<<a, b>>, c) = <<a, b, c>>
  <1>1. Append(<<>>, a) = <<a>>
    <2>1. PICK u \in Seq(Addrs) : u = Append(<<>>, a)
      BY TupleSeqs, AppendProperties, Zenon
    <2>2. Len(u) = 1 /\ u[1] = a
      BY <2>1
    <2> QED
      BY <2>1, <2>2, ShortSeqs, Zenon
  <1>2. Append(<<a>>, b) = <<a, b>>
    <2>1. PICK u \in Seq(Addrs) : u = Append(<<a>>, b)
      BY TupleSeqs, AppendProperties, Zenon
    <2>2. Len(u) = 2 /\ u[1] = a /\ u[2] = b
      BY <2>1
    <2> QED
      BY <2>1, <2>2, ShortSeqs, Zenon
  <1>3. Append(<<a, b>>, c) = <<a, b, c>>
    <2>1. PICK u \in Seq(Addrs) : u = Append(<<a, b>>, c)
      BY TupleSeqs, AppendProperties, Zenon
    <2>2. Len(u) = 3 /\ u[1] = a /\ u[2] = b /\ u[3] = c
      BY <2>1
    <2> QED
      BY <2>1, <2>2, ShortSeqs, Zenon
  <1> QED
    BY <1>1, <1>2, <1>3, Zenon

LEMMA AppendFourth ==
    ASSUME NEW a \in Addrs, NEW b \in Addrs, NEW c \in Addrs, NEW d \in Addrs
    PROVE  Append(<<a, b, c>>, d) = <<a, b, c, d>>
  <1>1. PICK u \in Seq(Addrs) : u = Append(<<a, b, c>>, d)
    BY TupleSeqs, AppendProperties, Zenon
  <1>2. Len(u) = 4 /\ u[1] = a /\ u[2] = b /\ u[3] = c /\ u[4] = d
    BY <1>1
  <1> QED
    BY <1>1, <1>2, ShortSeqs, Zenon

LEMMA TuplePrefixes ==
    ASSUME NEW a \in Addrs, NEW b \in Addrs, NEW c \in Addrs, NEW d \in Addrs
    PROVE  /\ IsPrefix(<<>>, <<>>)
           /\ IsPrefix(<<>>, <<a, b>>) /\ IsPrefix(<<a>>, <<a, b>>) /\ IsPrefix(<<a, b>>, <<a, b>>)
           /\ IsPrefix(<<>>, <<a, b, c, d>>) /\ IsPrefix(<<a>>, <<a, b, c, d>>)
           /\ IsPrefix(<<a, b>>, <<a, b, c, d>>) /\ IsPrefix(<<a, b, c>>, <<a, b, c, d>>)
           /\ IsPrefix(<<a, b, c, d>>, <<a, b, c, d>>)
  <1>1. PICK e \in Seq(Addrs) : e = <<>>
    BY TupleSeqs, Zenon
  <1>2. PICK t \in Seq(Addrs) : t = <<a>>
    BY TupleSeqs, Zenon
  <1>3. PICK u \in Seq(Addrs) : u = <<a, b>>
    BY TupleSeqs, Zenon
  <1>4. PICK v \in Seq(Addrs) : v = <<a, b, c>>
    BY TupleSeqs, Zenon
  <1>5. PICK w \in Seq(Addrs) : w = <<a, b, c, d>>
    BY TupleSeqs, Zenon
  <1>6. Len(e) = 0 /\ Len(t) = 1 /\ Len(u) = 2 /\ Len(v) = 3 /\ Len(w) = 4
    BY <1>1, <1>2, <1>3, <1>4, <1>5, Zenon
  <1>7. /\ t[1] = a /\ u[1] = a /\ u[2] = b /\ v[1] = a /\ v[2] = b /\ v[3] = c
        /\ w[1] = a /\ w[2] = b /\ w[3] = c /\ w[4] = d
    BY <1>2, <1>3, <1>4, <1>5, Zenon
  <1>8. IsPrefix(e, e) /\ IsPrefix(u, u) /\ IsPrefix(w, w)
    BY SubSeqFull DEF IsPrefix
  <1>9. IsPrefix(e, u)
    <2>1. Len(e) <= Len(u)
      BY ONLY <1>6
    <2>2. \A i \in 1 .. Len(e) : e[i] = u[i]
      BY ONLY <1>6, <1>7
    <2> QED
      BY <2>1, <2>2, PrefixByElements, Zenon
  <1>10. IsPrefix(e, w)
    <2>1. Len(e) <= Len(w)
      BY ONLY <1>6
    <2>2. \A i \in 1 .. Len(e) : e[i] = w[i]
      BY ONLY <1>6, <1>7
    <2> QED
      BY <2>1, <2>2, PrefixByElements, Zenon
  <1>11. IsPrefix(t, u)
    <2>1. Len(t) <= Len(u)
      BY ONLY <1>6
    <2>2. \A i \in 1 .. Len(t) : t[i] = u[i]
      BY ONLY <1>6, <1>7
    <2> QED
      BY <2>1, <2>2, PrefixByElements, Zenon
  <1>12. IsPrefix(t, w)
    <2>1. Len(t) <= Len(w)
      BY ONLY <1>6
    <2>2. \A i \in 1 .. Len(t) : t[i] = w[i]
      BY ONLY <1>6, <1>7
    <2> QED
      BY <2>1, <2>2, PrefixByElements, Zenon
  <1>13. IsPrefix(u, w)
    <2>1. Len(u) <= Len(w)
      BY ONLY <1>6
    <2>2. \A i \in 1 .. Len(u) : u[i] = w[i]
      BY ONLY <1>6, <1>7
    <2> QED
      BY <2>1, <2>2, PrefixByElements, Zenon
  <1>14. IsPrefix(v, w)
    <2>1. Len(v) <= Len(w)
      BY ONLY <1>6
    <2>2. \A i \in 1 .. Len(v) : v[i] = w[i]
      BY ONLY <1>6, <1>7
    <2> QED
      BY <2>1, <2>2, PrefixByElements, Zenon
  <1> QED
    BY ONLY <1>1, <1>2, <1>3, <1>4, <1>5, <1>8, <1>9, <1>10, <1>11, <1>12, <1>13, <1>14, Zenon

\* What was visited when a packet moves on.
LEMMA VisitsGrow ==
    ASSUME NEW r \in Reqs, Len(r.path) >= 3
    PROVE  /\ Append(Onward(r.path, 1), r.path[2]) = Onward(r.path, 2)
           /\ Append(Onward(r.path, 2), r.path[3]) = Onward(r.path, 3)
           /\ Len(r.path) = 3 => Onward(r.path, 2) = Exit(r.path)
           /\ Len(r.path) # 3 => Onward(r.path, 3) = Exit(r.path)
  <1>1. r.path[1] \in Addrs /\ r.path[2] \in Addrs /\ r.path[3] \in Addrs
    BY PathAddrs
  <1>2. /\ Append(<<>>, r.path[2]) = <<r.path[2]>>
        /\ Append(<<r.path[2]>>, r.path[3]) = <<r.path[2], r.path[3]>>
    BY <1>1, Appends, Zenon
  <1> QED
    BY <1>2 DEF Onward, Exit

LEMMA VisitsArePrefixes ==
    ASSUME NEW r \in Reqs, FitsHeader(r), Len(r.path) >= 3
    PROVE  /\ IsPrefix(Onward(r.path, 1), Walk(r)) /\ IsPrefix(Onward(r.path, 2), Walk(r))
           /\ Len(r.path) # 3 => /\ IsPrefix(Onward(r.path, 3), Walk(r))
                                 /\ IsPrefix(Append(Exit(r.path), r.path[2]), Walk(r))
           /\ IsPrefix(Exit(r.path), Walk(r)) /\ IsPrefix(Walk(r), Walk(r))
           /\ Len(r.path) = 3 => Append(Exit(r.path), r.path[1]) = Walk(r)
           /\ Len(r.path) # 3 => Append(Append(Exit(r.path), r.path[2]), r.path[1]) = Walk(r)
  <1>1. Len(r.path) = 3 \/ Len(r.path) = 4
    <2>1. PICK n \in Nat : n = Len(r.path)
      BY PathAddrs, Zenon
    <2>2. n <= 4
      BY <2>1, Zenon DEF FitsHeader, MaxHops
    <2>3. n >= 3
      BY <2>1, Zenon
    <2>4. n = 3 \/ n = 4
      BY ONLY <2>2, <2>3, n \in Nat
    <2> QED
      BY <2>1, <2>4, Zenon
  <1>2. r.path[1] \in Addrs /\ r.path[2] \in Addrs /\ r.path[3] \in Addrs
    BY PathAddrs
  <1> PICK a \in Addrs : a = r.path[1]
    BY <1>2, Zenon
  <1> PICK b \in Addrs : b = r.path[2]
    BY <1>2, Zenon
  <1> PICK c \in Addrs : c = r.path[3]
    BY <1>2, Zenon
  <1>3. CASE Len(r.path) = 3
    <2>1. Walk(r) = <<b, a>>
      BY <1>3, WalkOfPath, Zenon
    <2>2. Onward(r.path, 1) = <<>> /\ Onward(r.path, 2) = <<b>> /\ Exit(r.path) = <<b>>
      BY <1>3 DEF Onward, Exit
    <2>3. Append(<<b>>, a) = <<b, a>>
      BY Appends, Zenon
    <2>4. IsPrefix(<<>>, <<b, a>>) /\ IsPrefix(<<b>>, <<b, a>>) /\ IsPrefix(<<b, a>>, <<b, a>>)
      BY TuplePrefixes, Zenon
    <2> QED
      BY <1>3, <2>1, <2>2, <2>3, <2>4, Zenon
  <1>4. CASE Len(r.path) = 4
    <2>1. Walk(r) = <<b, c, b, a>>
      BY <1>4, WalkOfPath, Zenon
    <2>2. /\ Onward(r.path, 1) = <<>> /\ Onward(r.path, 2) = <<b>>
          /\ Onward(r.path, 3) = <<b, c>> /\ Exit(r.path) = <<b, c>>
      BY <1>4 DEF Onward, Exit
    <2>3. Append(<<b, c>>, b) = <<b, c, b>>
      BY Appends, ZenonT(60)
    <2>5. Append(<<b, c, b>>, a) = <<b, c, b, a>>
      BY ONLY AppendFourth, a \in Addrs, b \in Addrs, c \in Addrs, Zenon
    <2>4. /\ IsPrefix(<<>>, <<b, c, b, a>>) /\ IsPrefix(<<b>>, <<b, c, b, a>>)
          /\ IsPrefix(<<b, c>>, <<b, c, b, a>>) /\ IsPrefix(<<b, c, b>>, <<b, c, b, a>>)
          /\ IsPrefix(<<b, c, b, a>>, <<b, c, b, a>>)
      BY TuplePrefixes, Zenon
    <2>6. Append(Exit(r.path), r.path[2]) = <<b, c, b>>
      BY <2>2, <2>3, Zenon
    <2>7. Append(Append(Exit(r.path), r.path[2]), r.path[1]) = Walk(r)
      BY <2>1, <2>5, <2>6, Zenon
    <2>9. Len(r.path) # 3
      BY <1>4
    <2> QED
      BY <2>1, <2>2, <2>4, <2>6, <2>7, <2>9, Zenon
  <1> QED
    BY <1>1, <1>3, <1>4, Zenon

-----------------------------------------------------------------------------
\* What a handler of HandleQUICPacket makes of a packet that carries r.

LEMMA ForwardedFields ==
    ASSUME NEW p \in Packets, p.hopPos <= 2
    PROVE  LET q == Forwarded(p)
           IN  /\ q.hopIP = p.hopIP /\ q.hopPos = p.hopPos + 1 /\ q.hopPos \in 2 .. 3
               /\ q.port = p.port /\ q.subs = p.subs /\ q.to = p.hopIP[q.hopPos]
               /\ q.to \in Nodes => q \in Packets
  <1>1. p.hopPos \in 1 .. 2 /\ p.hopPos + 1 \in 2 .. 3
    BY DEF Packets
  <1>2. Forwarded(p) = [p EXCEPT !.hopPos = p.hopPos + 1, !.to = p.hopIP[p.hopPos + 1]]
    <2>1. p.hopPos < MaxHops - 1
      BY <1>1 DEF MaxHops
    <2> QED
      BY <2>1, Zenon DEF Forwarded
  <1>3. PICK k \in 2 .. 3 : k = p.hopPos + 1
    BY <1>1, Zenon
  <1>4. PICK to \in {p.hopIP[k]} : TRUE
    BY Zenon
  <1>5. Forwarded(p) = [p EXCEPT !.hopPos = k, !.to = to]
    BY <1>2, <1>3, Zenon
  <1>6. LET q == [p EXCEPT !.hopPos = k, !.to = to]
        IN  /\ q.hopIP = p.hopIP /\ q.hopPos = k /\ q.port = p.port /\ q.subs = p.subs /\ q.to = to
            /\ to \in Nodes => q \in Packets
    <2> DEFINE A == [0 .. 3 -> Addrs]
               C == {0} \cup {q.port : q \in Reqs}
               D == Seq(Reqs) \ {<<>>}
    <2>1. Packets = [hopIP : A, hopPos : 1 .. 3, port : C, subs : D, to : Nodes] /\ k \in 1 .. 3
      BY DEF Packets
    <2> HIDE DEF A, C, D
    <2> QED
      BY <2>1, Zenon
  <1> QED
    BY <1>3, <1>5, <1>6, Zenon

\* A packet on its way is at a node before the last address of the path.
LEMMA WayPosition ==
    ASSUME NEW p \in Packets, NEW r \in Reqs, NEW v, OnWay(p, r, v)
    PROVE  /\ p.hopPos \in 1 .. 3 /\ p.hopPos + 1 < Len(r.path) /\ Len(r.path) \in Nat
           /\ p.to = r.path[p.hopPos + 1]
           /\ p.hopPos < 3 => p.hopIP[p.hopPos + 1] = r.path[p.hopPos + 2]
  <1>1. p.hopPos \in 1 .. 3 /\ p.to \in Nodes
    BY Zenon DEF Packets
  <1>2. PICK n \in Nat : n = Len(r.path) /\ n >= 3
    BY PathAddrs, Zenon DEF OnWay
  <1>3. /\ p.hopIP[1] = r.path[2] /\ p.hopIP[2] = r.path[3]
        /\ p.hopIP[3] = IF n >= 4 THEN r.path[4] ELSE Zero
    BY <1>2, HeaderOfPath, Zenon DEF OnWay
  <1>4. p.to = p.hopIP[p.hopPos]
    BY Zenon DEF OnWay
  <1>5. r.path[n] \notin Nodes /\ Zero \notin Nodes
    BY <1>2, PathAddrs, RelayAssumption, Zenon
  <1>6. p.hopPos + 1 < n
    BY <1>1, <1>2, <1>3, <1>4, <1>5
  <1> QED
    BY <1>1, <1>2, <1>3, <1>4, <1>6

LEMMA ForwardOnWay ==
    ASSUME NEW p \in Packets, NEW r \in Reqs, NEW v, OnWay(p, r, v),
           IF p.port # 0 THEN ~RequestAtLastHop(p) ELSE ~AnswerAtLastHop(p)
    PROVE  /\ Forwarded(p).to \in Nodes => OnWay(Forwarded(p), r, Append(v, p.to))
           /\ p.hopPos <= 2 /\ (FitsHeader(r) => IsPrefix(Append(v, p.to), Walk(r)))
  <1>1. /\ p.hopPos \in 1 .. 3 /\ p.hopPos + 1 < Len(r.path) /\ p.to = r.path[p.hopPos + 1]
        /\ Len(r.path) >= 3 /\ Len(r.path) \in Nat
    BY WayPosition, Zenon DEF OnWay
  <1>2. p.hopPos <= 2
    BY <1>1 DEF OnWay, AnswerAtLastHop, MaxHops
  <1>3. p.port # 0 => p.hopPos = 1
    BY <1>1, <1>2 DEF RequestAtLastHop
  <1>4. Append(v, p.to) = Onward(r.path, p.hopPos + 1)
    <2>1. CASE p.hopPos = 1
      BY <1>1, <2>1, VisitsGrow DEF OnWay
    <2>2. CASE p.hopPos = 2
      BY <1>1, <2>2, VisitsGrow DEF OnWay
    <2> QED
      BY <1>1, <1>2, <2>1, <2>2
  <1>5. FitsHeader(r) => IsPrefix(Append(v, p.to), Walk(r))
    <2> SUFFICES ASSUME FitsHeader(r) PROVE IsPrefix(Append(v, p.to), Walk(r))
      BY Zenon
    <2>1. CASE p.hopPos = 1
      BY <1>1, <1>4, <2>1, VisitsArePrefixes
    <2>2. CASE p.hopPos = 2
      <3>1. Len(r.path) # 3
        <4>1. PICK n \in Nat : n = Len(r.path)
          BY <1>1, Zenon
        <4>2. 2 + 1 < n
          BY <1>1, <2>2, <4>1, Zenon
        <4>3. n # 3
          BY ONLY <4>2, n \in Nat
        <4> QED
          BY <4>1, <4>3, Zenon
      <3> QED
        BY <1>1, <1>4, <2>2, <3>1, VisitsArePrefixes
    <2> QED
      BY <1>1, <1>2, <2>1, <2>2
  <1>6. ASSUME Forwarded(p).to \in Nodes PROVE OnWay(Forwarded(p), r, Append(v, p.to))
    <2> PICK q \in {Forwarded(p)} : TRUE
      BY Zenon
    <2>1. /\ q.hopIP = p.hopIP /\ q.hopPos = p.hopPos + 1 /\ q.hopPos \in 2 .. 3
          /\ q.port = p.port /\ q.to = q.hopIP[q.hopPos]
      BY <1>2, ForwardedFields
    <2>2. q.port # 0 => q.hopPos <= 2
      BY <1>3, <2>1
    <2> QED
      BY <1>4, <2>1, <2>2, Zenon DEF OnWay
  <1> QED
    BY <1>2, <1>5, <1>6, Zenon

LEMMA SubmitOnWay ==
    ASSUME NEW p \in Packets, NEW r \in Reqs, NEW v, OnWay(p, r, v),
           p.port # 0, RequestAtLastHop(p), NEW t, t.hopIP = p.hopIP, t.port = p.port,
           t.origin = p.hopIP[p.hopPos + 1]
    PROVE  /\ AtOrigin(t, r, Append(v, p.to))
           /\ FitsHeader(r) => IsPrefix(Append(v, p.to), Walk(r))
  <1>1. /\ p.hopPos \in 1 .. 2 /\ p.hopPos + 1 < Len(r.path) /\ p.to = r.path[p.hopPos + 1]
        /\ p.hopIP[p.hopPos + 1] = r.path[p.hopPos + 2] /\ Len(r.path) >= 3
        /\ v = Onward(r.path, p.hopPos) /\ Len(r.path) \in Nat
    BY WayPosition DEF OnWay
  <1>2. CASE p.hopPos = 1
    <2>1. p.hopIP[3] = Zero
      BY <1>2 DEF RequestAtLastHop, MaxHops
    <2>2. Len(r.path) = 3
      <3>1. Len(r.path) \in Nat /\ (Len(r.path) >= 4 => r.path[4] # Zero)
        BY PathAddrs
      <3>2. Len(r.path) >= 4 => p.hopIP[3] = r.path[4]
        BY HeaderOfPath, Zenon DEF OnWay
      <3>3. PICK n \in Nat : n = Len(r.path)
        BY <3>1, Zenon
      <3>4. n >= 3 /\ ~(n >= 4)
        BY <1>1, <2>1, <3>1, <3>2, <3>3, Zenon
      <3>5. n = 3
        BY ONLY <3>4, n \in Nat
      <3> QED
        BY <3>3, <3>5, Zenon
    <2>3. Append(v, p.to) = Exit(r.path)
      BY <1>1, <1>2, <2>2, VisitsGrow
    <2>4. t.origin = r.path[3]
      BY <1>1, <1>2
    <2> QED
      BY <1>1, <2>2, <2>3, <2>4, VisitsArePrefixes, Zenon DEF AtOrigin, OnWay
  <1>3. CASE p.hopPos = 2
    <2>1. Len(r.path) # 3
      BY <1>1, <1>3
    <2>2. Append(v, p.to) = Exit(r.path)
      BY <1>1, <1>3, <2>1, VisitsGrow
    <2>3. t.origin = r.path[4]
      BY <1>1, <1>3
    <2> QED
      BY <1>1, <2>1, <2>2, <2>3, VisitsArePrefixes, Zenon DEF AtOrigin, OnWay
  <1> QED
    BY <1>1, <1>2, <1>3

LEMMA ReturnPosition ==
    ASSUME NEW p \in Packets, NEW r \in Reqs, NEW v, OnReturn(p, r, v)
    PROVE  /\ Len(r.path) >= 3 /\ r.path[1] # Zero
           /\ \/ /\ Len(r.path) = 3 /\ p.hopPos = 1 /\ p.to = r.path[1] /\ p.hopIP[2] = Zero
                 /\ v = Exit(r.path)
              \/ /\ Len(r.path) # 3 /\ p.hopPos = 1 /\ p.to = r.path[2] /\ p.hopIP[2] = r.path[1]
                 /\ v = Exit(r.path)
              \/ /\ Len(r.path) # 3 /\ p.hopPos = 2 /\ p.to = r.path[1] /\ p.hopIP[3] = Zero
                 /\ v = Append(Exit(r.path), r.path[2])
  <1>1. p.hopPos = 1 \/ p.hopPos = 2
    <2>1. p.hopPos \in 1 .. 3 /\ p.hopPos <= 2
      BY Zenon DEF Packets, OnReturn
    <2> QED
      BY <2>1
  <1>2. Len(r.path) >= 3 /\ p.hopIP = HopIPs(Back(r.path)) /\ p.to = p.hopIP[p.hopPos]
    BY Zenon DEF OnReturn
  <1>3. r.path[1] # Zero
    BY <1>2, PathAddrs
  <1>4. CASE p.hopPos = 1
    BY <1>2, <1>3, <1>4, HeaderOfBack, ZenonT(60) DEF OnReturn
  <1>5. CASE p.hopPos = 2
    BY <1>2, <1>3, <1>5, HeaderOfBack DEF OnReturn
  <1> QED
    BY <1>1, <1>4, <1>5, Zenon

LEMMA ForwardOnReturn ==
    ASSUME NEW p \in Packets, NEW r \in Reqs, NEW v, OnReturn(p, r, v), ~AnswerAtLastHop(p)
    PROVE  /\ OnReturn(Forwarded(p), r, Append(v, p.to)) /\ p.hopPos <= 2
           /\ FitsHeader(r) => IsPrefix(Append(v, p.to), Walk(r))
  <1>1. /\ Len(r.path) # 3 /\ p.hopPos = 1 /\ p.to = r.path[2] /\ Len(r.path) >= 3
        /\ v = Exit(r.path)
    BY ReturnPosition DEF AnswerAtLastHop, MaxHops
  <1> PICK q \in {Forwarded(p)} : TRUE
    BY Zenon
  <1>2. q.hopIP = p.hopIP /\ q.hopPos = 2 /\ q.port = p.port /\ q.to = q.hopIP[q.hopPos]
    BY <1>1, ForwardedFields
  <1>3. OnReturn(q, r, Append(v, p.to))
    BY <1>1, <1>2 DEF OnReturn
  <1> QED
    BY <1>1, <1>3, VisitsArePrefixes

LEMMA DeliverOnReturn ==
    ASSUME NEW p \in Packets, NEW r \in Reqs, NEW v, OnReturn(p, r, v), AnswerAtLastHop(p)
    PROVE  p.to = r.path[1] /\ (FitsHeader(r) => Append(v, p.to) = Walk(r))
  <1>1. ~(p.hopPos = 1 /\ p.hopIP[2] # Zero)
    BY DEF AnswerAtLastHop, MaxHops
  <1> QED
    BY <1>1, ReturnPosition, VisitsArePrefixes, Zenon

\* A request that is taken for an answer: it names no port and its path is too long.
LEMMA DeliverOnWay ==
    ASSUME NEW p \in Packets, NEW r \in Reqs, NEW v, OnWay(p, r, v), p.port = 0,
           AnswerAtLastHop(p)
    PROVE  ~FitsHeader(r) /\ ~NamesPort(r)
  <1>1. PICK n \in Nat : n = Len(r.path)
    BY WayPosition, Zenon
  <1>2. p.hopPos \in 1 .. 3 /\ p.hopPos + 1 < n
    BY <1>1, WayPosition, Zenon
  <1>3. p.hopPos < 3 => p.hopIP[p.hopPos + 1] # Zero
    <2> SUFFICES ASSUME p.hopPos < 3 PROVE p.hopIP[p.hopPos + 1] # Zero
      BY Zenon
    <2>1. p.hopIP[p.hopPos + 1] = r.path[p.hopPos + 2]
      BY WayPosition, Zenon
    <2>2. p.hopPos + 2 \in 1 .. Len(r.path)
      BY <1>1, <1>2
    <2> QED
      BY <2>1, <2>2, PathAddrs, Zenon
  <1>4. p.hopPos = 3
    BY <1>2, <1>3 DEF AnswerAtLastHop, MaxHops
  <1>5. n > 4
    BY <1>2, <1>4
  <1> QED
    BY <1>1, <1>5 DEF FitsHeader, MaxHops, NamesPort, OnWay, OfPath

-----------------------------------------------------------------------------
\* The steps.

LEMMA MembersOf ==
    ASSUME NEW S, NEW s \in Seq(S) \ {<<>>}
    PROVE  Members(s) \subseteq S /\ s[1] \in Members(s) /\ Len(s) \in Nat /\ Len(s) >= 1
  BY DEF Members

LEMMA BatchIs ==
    ASSUME NEW S, NEW key, NEW s \in Batches(S, key)
    PROVE  /\ s \in Seq(S) \ {<<>>} /\ Members(s) \subseteq S
           /\ \A x \in Members(s) : key[x] = key[s[1]]
  <1>1. PICK n \in 1 .. PacketMax : s \in [1 .. n -> S]
    BY Zenon DEF Batches
  <1>2. n \in Nat /\ n >= 1
    BY <1>1
  <1>3. s \in Seq(S) /\ Len(s) = n /\ s # <<>>
    BY <1>1, <1>2
  <1>4. \A i \in DOMAIN s : key[s[i]] = key[s[1]]
    BY <1>1, <1>2 DEF Batches
  <1> QED
    BY <1>3, <1>4, MembersOf DEF Members

LEMMA ParsedMembers ==
    ASSUME NEW s \in Seq(Reqs) \ {<<>>}
    PROVE  Members(Parse(s)) \subseteq Members(s)
  <1>1. Len(s) \in Nat /\ Len(s) >= 1 /\ \A i \in 1 .. Len(s) : s[i] \in Reqs
    BY MembersOf
  <1>2. PICK n \in Nat : n = Len(s) /\ n >= 1
    BY <1>1, Zenon
  <1>3. \A i \in 1 .. n - 1 : s[i] \in Reqs
    BY <1>1, <1>2
  <1>4. PICK front \in Seq(Reqs) :
            /\ front = SubSeq(s, 1, n - 1) /\ Len(front) = n - 1
            /\ \A i \in 1 .. n - 1 : front[i] = s[i]
    <2>1. /\ SubSeq(s, 1, n - 1) \in Seq(Reqs)
          /\ Len(SubSeq(s, 1, n - 1)) = IF 1 <= n - 1 THEN n - 1 - 1 + 1 ELSE 0
          /\ \A i \in 1 .. n - 1 - 1 + 1 : SubSeq(s, 1, n - 1)[i] = s[1 + i - 1]
      BY <1>2, <1>3, SubSeqProperties
    <2>2. /\ Len(SubSeq(s, 1, n - 1)) = n - 1
          /\ \A i \in 1 .. n - 1 : SubSeq(s, 1, n - 1)[i] = s[i]
      BY <1>2, <2>1
    <2> QED
      BY <2>1, <2>2, Zenon
  <1>5. Members(front) \subseteq Members(s)
    BY <1>1, <1>2, <1>4 DEF Members
  <1> QED
    BY <1>2, <1>4, <1>5, Zenon DEF Parse

LEMMA RelayInit == Init => RelayInv
  <1> SUFFICES ASSUME Init PROVE RelayInv
    BY Zenon
  <1>1. RelayType
    BY DEF Init, RelayType
  <1>2. OnePlace /\ NotTwice /\ Agree /\ RightContacts /\ RightDeliveries /\ ~panicked
    BY Zenon DEF Init, OnePlace, Flying, Sourced, Answered, Done, NotTwice, Agree, RightContacts,
           RightDeliveries
  <1>3. ASSUME NEW r \in Reqs, FitsHeader(r) PROVE IsPrefix(visits[r], Walk(r))
    <2>1. visits[r] = <<>>
      BY Zenon DEF Init
    <2>2. Len(r.path) = 2 \/ Len(r.path) >= 3
      <3>1. PICK n \in Nat : n = Len(r.path)
        BY PathAddrs, Zenon
      <3>2. n >= 2
        BY <3>1, PathAddrs, Zenon
      <3>3. n = 2 \/ n >= 3
        BY ONLY <3>2, n \in Nat
      <3> QED
        BY <3>1, <3>3, Zenon
    <2>3. CASE Len(r.path) = 2
      BY <1>3, <2>1, <2>3, WalkOfPath, TuplePrefixes, Zenon DEF Addrs
    <2>4. CASE Len(r.path) >= 3
      BY <1>3, <2>1, <2>4, VisitsArePrefixes, Zenon DEF Onward
    <2> QED
      BY <2>2, <2>3, <2>4, Zenon
  <1> QED
    BY <1>1, <1>2, <1>3, Zenon DEF RelayInv, VisitsFollow

\* Requests are given up.
LEMMA DropKeepsInv ==
    ASSUME RelayInv, toSend' \subseteq toSend, inFlight' \subseteq inFlight, tasks' \subseteq tasks,
           answers' \subseteq answers, UNCHANGED <<delivered, visits, panicked>>, RightContacts'
    PROVE  RelayInv'
  <1>1. RelayType'
    BY Zenon DEF RelayInv, RelayType
  <1>2. \A r \in Reqs : /\ Flying(r)' => Flying(r)
                        /\ Sourced(r)' => Sourced(r)
                        /\ Answered(r)' => Answered(r)
                        /\ Done(r)' => Done(r)
    BY Zenon DEF Flying, Sourced, Answered, Done
  <1>3. OnePlace'
    BY <1>2, Zenon DEF RelayInv, OnePlace
  <1>4. NotTwice'
    BY Zenon DEF RelayInv, NotTwice
  <1>5. Agree'
    BY Zenon DEF RelayInv, Agree
  <1>6. VisitsFollow' /\ RightDeliveries'
    BY Zenon DEF RelayInv, VisitsFollow, RightDeliveries
  <1> QED
    BY <1>1, <1>3, <1>4, <1>5, <1>6, Zenon DEF RelayInv

\* A packet is sent with requests that leave toSend or answers.
LEMMA SendKeepsInv ==
    ASSUME RelayInv, NEW pkt \in Packets, inFlight' = inFlight \cup {pkt},
           toSend' \subseteq toSend, answers' \subseteq answers,
           UNCHANGED <<tasks, contacted, delivered, visits, panicked>>,
           \A r \in Members(pkt.subs) :
               /\ ~Flying(r) /\ ~Sourced(r) /\ ~Answered(r)' /\ ~Done(r) /\ r \notin toSend'
               /\ OnWay(pkt, r, visits[r]) \/ OnReturn(pkt, r, visits[r])
    PROVE  RelayInv'
  <1>1. RelayType'
    BY Zenon DEF RelayInv, RelayType
  <1>2. \A r \in Reqs : /\ Flying(r)' => Flying(r) \/ r \in Members(pkt.subs)
                        /\ Sourced(r)' => Sourced(r)
                        /\ Answered(r)' => Answered(r)
                        /\ Done(r)' => Done(r)
    BY Zenon DEF Flying, Sourced, Answered, Done
  <1>3. OnePlace'
    BY <1>2, Zenon DEF RelayInv, OnePlace
  <1>4. NotTwice'
    BY DEF RelayInv, NotTwice, Flying
  <1>5. Agree'
    BY Zenon DEF RelayInv, Agree
  <1>6. VisitsFollow' /\ RightDeliveries' /\ RightContacts'
    BY Zenon DEF RelayInv, VisitsFollow, RightDeliveries, RightContacts
  <1> QED
    BY <1>1, <1>3, <1>4, <1>5, <1>6, Zenon DEF RelayInv

LEMMA SendRequestsKeepsInv ==
    ASSUME RelayInv, NEW rs \in Batches(toSend, [r \in toSend |-> r.path]), SendRequests(rs)
    PROVE  RelayInv'
  <1> PICK first \in {rs[1]} : TRUE
    BY Zenon
  <1>1. /\ rs \in Seq(toSend) \ {<<>>} /\ Members(rs) \subseteq toSend /\ first \in toSend
        /\ toSend \subseteq Reqs
    BY BatchIs, MembersOf DEF RelayInv, RelayType
  <1>2. \A r \in Members(rs) : r.path = first.path
    <2>1. \A r \in Members(rs) : [x \in toSend |-> x.path][r] = [x \in toSend |-> x.path][first]
      BY BatchIs
    <2> QED
      BY <1>1, <2>1, Zenon
  <1>3. /\ toSend' = toSend \ Members(rs)
        /\ UNCHANGED <<tasks, contacted, answers, delivered, visits, panicked>>
    BY Zenon DEF SendRequests
  <1> PICK pkt \in {NewPacket(first.path, first.port, rs)} : TRUE
    BY Zenon
  <1>4. CASE inFlight' = inFlight
    BY <1>3, <1>4, DropKeepsInv, Zenon DEF RelayInv, RightContacts
  <1>5. CASE inFlight' = inFlight \cup {pkt} /\ pkt.to \in Nodes
    <2>1. /\ pkt.hopIP = HopIPs(first.path) /\ pkt.hopPos = 1 /\ pkt.port = first.port
          /\ pkt.subs = rs /\ pkt.to = first.path[2]
      BY DEF NewPacket
    <2>2. Len(first.path) >= 3
      <3>1. PICK n \in Nat : n = Len(first.path)
        BY <1>1, PathAddrs, Zenon
      <3>2. n >= 2 /\ n # 2
        BY <1>1, <1>5, <2>1, <3>1, PathAddrs, RelayAssumption, Zenon
      <3>3. n >= 3
        BY ONLY <3>2, n \in Nat
      <3> QED
        BY <3>1, <3>3, Zenon
    <2>3. pkt \in Packets
      <3>1. rs \in Seq(Reqs) \ {<<>>}
        BY <1>1
      <3>2. HopIPs(first.path) \in [0 .. 3 -> Addrs]
        BY <1>1, HeaderOfPath, Zenon
      <3> QED
        BY <1>1, <1>5, <2>1, <3>1, <3>2 DEF Packets, NewPacket
    <2>4. pkt.to = pkt.hopIP[1]
      BY <1>1, <2>1, HeaderOfPath, Zenon
    <2>5. ASSUME NEW r \in Members(pkt.subs)
          PROVE  /\ ~Flying(r) /\ ~Sourced(r) /\ ~Answered(r)' /\ ~Done(r) /\ r \notin toSend'
                 /\ OnWay(pkt, r, visits[r])
      <3>1. r \in toSend /\ r \in Reqs /\ r \notin toSend' /\ r.path = first.path
        BY <1>1, <1>2, <1>3, <2>1, Zenon
      <3>2. ~Flying(r) /\ ~Sourced(r) /\ ~Answered(r)' /\ ~Done(r)
        BY <1>3, <3>1, Zenon DEF RelayInv, OnePlace, Answered
      <3>3. visits[r] = Onward(r.path, 1)
        BY <3>1, Zenon DEF RelayInv, Agree, Onward
      <3>4. OfPath(r, pkt.port)
        BY <1>1, <2>1, <3>1, Zenon DEF OfPath
      <3>5. OnWay(pkt, r, visits[r])
        BY <2>1, <2>2, <2>4, <3>1, <3>3, <3>4 DEF OnWay
      <3> QED
        BY <3>1, <3>2, <3>5, Zenon
    <2> QED
      BY <1>3, <1>5, <2>3, <2>5, SendKeepsInv, Zenon
  <1> QED
    BY <1>4, <1>5, Zenon DEF SendRequests, Send

LEMMA SendAnswersKeepsInv ==
    ASSUME RelayInv, NEW as \in Batches(answers, [a \in answers |-> a.hops]), SendAnswers(as)
    PROVE  RelayInv'
  <1> PICK hops \in {as[1].hops} : TRUE
    BY Zenon
  <1> PICK subs \in {[i \in DOMAIN as |-> as[i].req]} : TRUE
    BY Zenon
  <1>1. /\ as \in Seq(answers) \ {<<>>} /\ Members(as) \subseteq answers
        /\ as[1] \in answers
    BY BatchIs, MembersOf, Zenon
  <1>2. \A a \in Members(as) : a.hops = hops
    <2>1. \A a \in Members(as) :
              [x \in answers |-> x.hops][a] = [x \in answers |-> x.hops][as[1]]
      BY BatchIs, Zenon
    <2> QED
      BY <1>1, <2>1, Zenon
  <1>3. /\ answers' = answers \ Members(as)
        /\ UNCHANGED <<toSend, tasks, contacted, delivered, visits, panicked>>
    BY Zenon DEF SendAnswers
  <1>4. subs \in Seq(Reqs) \ {<<>>}
    <2>1. Len(as) \in Nat /\ Len(as) >= 1 /\ DOMAIN as = 1 .. Len(as)
      BY <1>1, MembersOf, LenProperties, Zenon
    <2>2. PICK n \in Nat : n = Len(as)
      BY <2>1, Zenon
    <2>3. n >= 1 /\ DOMAIN as = 1 .. n
      BY <2>1, <2>2, Zenon
    <2>4. \A i \in 1 .. n : as[i] \in answers
      BY <1>1, <2>2, ElementOfSeq, Zenon
    <2>5. \A i \in 1 .. n : as[i].req \in Reqs
      BY <2>4, Zenon DEF RelayInv, RelayType
    <2>6. subs \in [1 .. n -> Reqs]
      BY <2>3, <2>5, Zenon
    <2>7. subs \in Seq(Reqs) /\ Len(subs) = n
      BY ONLY <2>6, n \in Nat
    <2> QED
      BY ONLY <2>3, <2>7
  <1>5. \A r \in Members(subs) : \E a \in Members(as) : a.req = r
    BY Zenon DEF Members
  <1> PICK pkt \in {NewPacket(hops, 0, subs)} : TRUE
    BY Zenon
  <1>6. CASE inFlight' = inFlight
    BY <1>3, <1>6, DropKeepsInv, Zenon DEF RelayInv, RightContacts
  <1>7. CASE inFlight' = inFlight \cup {pkt} /\ pkt.to \in Nodes
    <2>1. /\ pkt.hopIP = HopIPs(hops) /\ pkt.hopPos = 1 /\ pkt.port = 0
          /\ pkt.subs = subs /\ pkt.to = hops[2]
      BY DEF NewPacket
    <2>2. PICK r0 \in Reqs : Len(r0.path) >= 3 /\ hops = Back(r0.path)
      BY <1>1, Zenon DEF RelayInv, RelayType, Agree, AtExit
    <2>3. HopIPs(hops) \in [0 .. 3 -> Addrs] /\ hops[2] = HopIPs(hops)[1]
      BY <2>2, HeaderOfBack, Zenon
    <2>4. pkt \in Packets
      BY <1>4, <1>7, <2>1, <2>3, SMTT(20) DEF Packets, NewPacket
    <2>5. ASSUME NEW r \in Members(pkt.subs)
          PROVE  /\ ~Flying(r) /\ ~Sourced(r) /\ ~Answered(r)' /\ ~Done(r) /\ r \notin toSend'
                 /\ OnReturn(pkt, r, visits[r])
      <3>1. PICK a \in Members(as) : a.req = r
        BY <1>5, <2>1, Zenon
      <3>2. /\ a \in answers /\ a.hops = hops /\ r \in Reqs
            /\ Len(r.path) >= 3 /\ a.hops = Back(r.path) /\ visits[r] = Exit(r.path)
        BY <1>1, <1>2, <3>1, Zenon DEF RelayInv, RelayType, Agree, AtExit
      <3>3. Answered(r)
        BY <3>1, <3>2, Zenon DEF Answered
      <3>4. ~Flying(r) /\ ~Sourced(r) /\ ~Done(r) /\ r \notin toSend'
        BY <1>3, <3>2, <3>3, Zenon DEF RelayInv, OnePlace
      <3>5. ~Answered(r)'
        BY <1>3, <3>1, <3>2, Zenon DEF RelayInv, NotTwice, Answered
      <3>6. OnReturn(pkt, r, visits[r])
        BY <2>1, <2>3, <3>2, SMTT(20) DEF OnReturn
      <3> QED
        BY <3>4, <3>5, <3>6, Zenon
    <2> QED
      BY <1>3, <1>7, <2>4, <2>5, SendKeepsInv, Zenon
  <1> QED
    BY <1>6, <1>7, Zenon DEF SendAnswers, Send

\* A handler adds its node to the visits of the requests of its packet, which are
\* nowhere else.
Seen(p) ==
    /\ p \in Packets /\ Members(p.subs) \subseteq Reqs
    /\ visits' \in [Reqs -> Seq(Nodes)]
    /\ \A r \in Members(p.subs) :
           /\ visits'[r] = Append(visits[r], p.to)
           /\ OnWay(p, r, visits[r]) \/ OnReturn(p, r, visits[r])
           /\ Flying(r) /\ ~Sourced(r) /\ ~Answered(r) /\ ~Done(r) /\ r \notin toSend
    /\ \A r \in Reqs \ Members(p.subs) : visits'[r] = visits[r]
    /\ \A q \in inFlight \ {p} : \A r \in Members(q.subs) : r \notin Members(p.subs)

LEMMA HandlerVisits ==
    ASSUME RelayInv, NEW p \in inFlight, Visit(p)
    PROVE  Seen(p)
  <1>1. p \in Packets /\ p.subs \in Seq(Reqs) \ {<<>>} /\ p.to \in Nodes
    BY Zenon DEF RelayInv, RelayType, Packets
  <1>2. Members(p.subs) \subseteq Reqs
    BY <1>1, MembersOf, Zenon
  <1>3. visits' = [r \in Reqs |-> IF r \in Members(p.subs) THEN Append(visits[r], p.to)
                                                           ELSE visits[r]]
    BY Zenon DEF Visit
  <1>4. visits' \in [Reqs -> Seq(Nodes)]
    <2>1. \A r \in Reqs : visits[r] \in Seq(Nodes) /\ Append(visits[r], p.to) \in Seq(Nodes)
      BY <1>1, AppendProperties, Zenon DEF RelayInv, RelayType
    <2> QED
      BY <1>3, <2>1, Zenon
  <1>5. \A r \in Members(p.subs) : Flying(r)
    BY Zenon DEF Flying
  <1>6. \A r \in Members(p.subs) :
            ~Sourced(r) /\ ~Answered(r) /\ ~Done(r) /\ r \notin toSend
    BY <1>2, <1>5, Zenon DEF RelayInv, OnePlace
  <1>7. \A q \in inFlight \ {p} : \A r \in Members(q.subs) : r \notin Members(p.subs)
    BY Zenon DEF RelayInv, NotTwice
  <1>8. \A r \in Members(p.subs) : OnWay(p, r, visits[r]) \/ OnReturn(p, r, visits[r])
    BY Zenon DEF RelayInv, Agree
  <1> QED
    BY <1>1, <1>2, <1>3, <1>4, <1>5, <1>6, <1>7, <1>8, Zenon DEF Seen

\* What a handler leaves as it was: everything about the other requests.
Kept(p) ==
    /\ \A q \in inFlight \ {p} : \A r \in Members(q.subs) :
           OnWay(q, r, visits'[r]) \/ OnReturn(q, r, visits'[r])
    /\ \A t \in tasks : AtOrigin(t, t.req, visits'[t.req])
    /\ \A a \in answers : AtExit(a, a.req, visits'[a.req])
    /\ \A r \in toSend : visits'[r] = <<>>
    /\ \A d \in delivered :
           /\ FitsHeader(d[1]) \/ NamesPort(d[1]) => d[2] = Head(d[1].path)
           /\ FitsHeader(d[1]) => visits'[d[1]] = Walk(d[1])

LEMMA OthersKeep ==
    ASSUME RelayInv, NEW p \in inFlight, Visit(p)
    PROVE  Kept(p)
  <1>V. Seen(p)
    BY HandlerVisits, Zenon
  <1>1. \A q \in inFlight \ {p} : \A r \in Members(q.subs) : r \in Reqs /\ visits'[r] = visits[r]
    <2> TAKE q \in inFlight \ {p}
    <2>1. Members(q.subs) \subseteq Reqs
      BY MembersOf, Zenon DEF RelayInv, RelayType, Packets
    <2> QED
      BY <2>1, <1>V, Zenon DEF Seen
  <1>2. \A t \in tasks : visits'[t.req] = visits[t.req]
    BY <1>V, Zenon DEF RelayInv, RelayType, Sourced, Seen
  <1>3. \A a \in answers : visits'[a.req] = visits[a.req]
    BY <1>V, Zenon DEF RelayInv, RelayType, Answered, Seen
  <1>4. \A r \in toSend : visits'[r] = visits[r]
    BY <1>V, Zenon DEF RelayInv, RelayType, Seen
  <1>5. \A d \in delivered : visits'[d[1]] = visits[d[1]]
    BY <1>V, Zenon DEF RelayInv, RelayType, Done, Seen
  <1>6. \A q \in inFlight \ {p} : \A r \in Members(q.subs) :
                  OnWay(q, r, visits'[r]) \/ OnReturn(q, r, visits'[r])
    BY <1>1, Zenon DEF RelayInv, Agree
  <1>7. \A t \in tasks : AtOrigin(t, t.req, visits'[t.req])
    BY <1>2, Zenon DEF RelayInv, Agree
  <1>8. \A a \in answers : AtExit(a, a.req, visits'[a.req])
    BY <1>3, Zenon DEF RelayInv, Agree
  <1>9. \A r \in toSend : visits'[r] = <<>>
    BY <1>4, Zenon DEF RelayInv, Agree
  <1> QED
    BY <1>5, <1>6, <1>7, <1>8, <1>9, Zenon DEF RelayInv, RightDeliveries, Kept

LEMMA ForwardKeepsInv ==
    ASSUME RelayInv, NEW p \in inFlight, Forward(p)
    PROVE  RelayInv'
  <1>1. /\ Visit(p) /\ UNCHANGED <<toSend, tasks, contacted, answers, delivered, panicked>>
        /\ IF p.port # 0 THEN ~RequestAtLastHop(p) ELSE ~AnswerAtLastHop(p)
    BY Zenon DEF Forward
  <1>V. Seen(p)
    BY <1>1, HandlerVisits, Zenon
  <1>K. Kept(p)
    BY <1>1, OthersKeep, Zenon
  <1> PICK q \in {Forwarded(p)} : TRUE
    BY Zenon
  <1>2. ASSUME NEW r \in Members(p.subs)
        PROVE  /\ q.to \in Nodes => OnWay(q, r, visits'[r]) \/ OnReturn(q, r, visits'[r])
               /\ p.hopPos <= 2 /\ (FitsHeader(r) => IsPrefix(visits'[r], Walk(r)))
    <2>1. p \in Packets /\ r \in Reqs /\ visits'[r] = Append(visits[r], p.to)
      BY <1>1, <1>V, Zenon DEF Seen
    <2>2. CASE OnWay(p, r, visits[r])
      BY <1>1, <2>1, <2>2, ForwardOnWay, Zenon
    <2>3. CASE OnReturn(p, r, visits[r])
      <3>1. ~AnswerAtLastHop(p)
        BY <1>1, <2>3, Zenon DEF OnReturn
      <3> QED
        BY <2>1, <2>3, <3>1, ForwardOnReturn, Zenon
    <2> QED
      BY <1>1, <2>2, <2>3, <1>V, Zenon DEF Seen
  <1>3. /\ p \in Packets /\ p.hopPos <= 2 /\ q.subs = p.subs
        /\ q.to \in Nodes => q \in Packets
    <2>1. p \in Packets /\ p.subs[1] \in Members(p.subs)
      BY MembersOf, Zenon DEF RelayInv, RelayType, Packets
    <2>2. p.hopPos <= 2
      BY <1>2, <2>1, Zenon
    <2> QED
      BY <2>1, <2>2, ForwardedFields, Zenon
  <1>4. \/ q.to \in Nodes /\ inFlight' = (inFlight \ {p}) \cup {q}
        \/ inFlight' = inFlight \ {p}
    BY Zenon DEF Forward
  <1>5. RelayType'
    BY <1>1, <1>3, <1>4, <1>V, Zenon DEF RelayInv, RelayType, Seen
  <1>6. \A r \in Reqs : /\ Flying(r)' => Flying(r)
                        /\ Sourced(r)' <=> Sourced(r)
                        /\ Answered(r)' <=> Answered(r)
                        /\ Done(r)' <=> Done(r)
    BY <1>1, <1>3, <1>4, Zenon DEF Flying, Sourced, Answered, Done
  <1>7. OnePlace'
    BY <1>1, <1>6, Zenon DEF RelayInv, OnePlace
  <1>8. NotTwice'
    BY <1>1, <1>3, <1>4, <1>V, Zenon DEF RelayInv, NotTwice, Seen
  <1>9. Agree'
    <2>1. \A u \in inFlight' : \A r \in Members(u.subs) :
              OnWay(u, r, visits'[r]) \/ OnReturn(u, r, visits'[r])
      BY <1>1, <1>2, <1>3, <1>4, <1>K, Zenon DEF Kept
    <2> QED
      BY <1>1, <2>1, <1>K, Zenon DEF Agree, Kept
  <1>10. VisitsFollow'
    BY <1>1, <1>2, <1>V, Zenon DEF RelayInv, VisitsFollow, Seen
  <1>11. RightContacts' /\ RightDeliveries'
    BY <1>1, <1>K, Zenon DEF RelayInv, RightContacts, RightDeliveries, Kept
  <1> QED
    BY <1>1, <1>5, <1>7, <1>8, <1>9, <1>10, <1>11, Zenon DEF RelayInv

LEMMA SubmitTasksKeepsInv ==
    ASSUME RelayInv, NEW p \in inFlight, SubmitTasks(p)
    PROVE  RelayInv'
  <1> PICK origin \in {p.hopIP[p.hopPos + 1]} : TRUE
    BY Zenon
  <1> PICK taken \in {IF origin = Zero THEN {} ELSE Members(Parse(p.subs))} : TRUE
    BY Zenon
  <1>N. PICK new \in {{[hopIP |-> p.hopIP, origin |-> origin, port |-> p.port, req |-> r] :
                         r \in taken}} : TRUE
    BY Zenon
  <1>1. /\ Visit(p) /\ UNCHANGED <<toSend, contacted, answers, delivered, panicked>>
        /\ p.port # 0 /\ RequestAtLastHop(p)
        /\ inFlight' = inFlight \ {p} /\ tasks' = tasks \cup new
    BY <1>N, Zenon DEF SubmitTasks
  <1>V. Seen(p)
    BY <1>1, HandlerVisits, Zenon
  <1>K. Kept(p)
    BY <1>1, OthersKeep, Zenon
  <1>2. taken \subseteq Members(p.subs)
    BY <1>V, ParsedMembers, <1>1, Zenon DEF Packets, Seen
  <1>3. ASSUME NEW r \in Members(p.subs)
        PROVE  /\ \A t : /\ t.hopIP = p.hopIP /\ t.port = p.port /\ t.origin = origin
                         => AtOrigin(t, r, visits'[r])
               /\ FitsHeader(r) => IsPrefix(visits'[r], Walk(r))
    <2>1. /\ p \in Packets /\ r \in Reqs /\ visits'[r] = Append(visits[r], p.to)
          /\ OnWay(p, r, visits[r])
      BY <1>1, <1>V, Zenon DEF OnReturn, Seen
    <2>2. ASSUME NEW t, t.hopIP = p.hopIP, t.port = p.port, t.origin = origin
          PROVE  /\ AtOrigin(t, r, visits'[r])
                 /\ FitsHeader(r) => IsPrefix(visits'[r], Walk(r))
      BY <1>1, <2>1, <2>2, SubmitOnWay, Zenon
    <2>3. FitsHeader(r) => IsPrefix(visits'[r], Walk(r))
      <3>1. PICK t \in {[hopIP |-> p.hopIP, origin |-> origin, port |-> p.port]} :
                t.hopIP = p.hopIP /\ t.port = p.port /\ t.origin = origin
        BY ONLY TRUE, Zenon
      <3> QED
        BY <2>2, <3>1, Zenon
    <2> QED
      BY <2>2, <2>3, Zenon
  <1>4. \A t \in new : /\ t.req \in taken /\ t.req \in Members(p.subs) /\ t.req \in Reqs
                       /\ t.hopIP = p.hopIP /\ t.port = p.port /\ t.origin = origin
    BY <1>1, <1>2, <1>N, <1>V DEF Seen
  <1>5. \A t, u \in new : t.req = u.req => t = u
    BY ONLY <1>N
  <1>6. RelayType'
    BY <1>1, <1>4, <1>V, Zenon DEF RelayInv, RelayType, Seen
  <1>7. \A r \in Reqs : /\ Flying(r)' => Flying(r) /\ r \notin Members(p.subs)
                        /\ Sourced(r)' => Sourced(r) \/ r \in Members(p.subs)
                        /\ Answered(r)' <=> Answered(r)
                        /\ Done(r)' <=> Done(r)
    <2>1. ASSUME NEW r \in Reqs, NEW q \in inFlight', r \in Members(q.subs)
          PROVE  Flying(r) /\ r \notin Members(p.subs)
      <3>1. q \in inFlight \ {p}
        BY <1>1, Zenon
      <3>2. r \notin Members(p.subs)
        BY <1>1, <2>1, <3>1, <1>V, Zenon DEF Seen
      <3> QED
        BY <2>1, <3>1, <3>2, Zenon DEF Flying
    <2>2. \A r \in Reqs : Flying(r)' => Flying(r) /\ r \notin Members(p.subs)
      BY <2>1, Zenon DEF Flying
    <2>3. \A r \in Reqs : /\ Sourced(r)' => Sourced(r) \/ r \in Members(p.subs)
                          /\ Answered(r)' <=> Answered(r)
                          /\ Done(r)' <=> Done(r)
      BY <1>1, <1>4, Zenon DEF Sourced, Answered, Done
    <2> QED
      BY <2>2, <2>3, Zenon
  <1>8. OnePlace'
    BY <1>1, <1>7, <1>V, Zenon DEF RelayInv, OnePlace, Seen
  <1>9. NotTwice'
    <2>1. \A t \in tasks : t.req \notin Members(p.subs)
      BY <1>1, <1>V, Zenon DEF Sourced, Seen
    <2>2. \A t, u \in tasks' : t.req = u.req => t = u
      BY <1>1, <1>4, <1>5, <2>1, Zenon DEF RelayInv, NotTwice
    <2> QED
      BY <1>1, <2>2, Zenon DEF RelayInv, NotTwice
  <1>10. Agree'
    <2>1. \A t \in tasks' : AtOrigin(t, t.req, visits'[t.req])
      BY <1>1, <1>3, <1>4, <1>K, Zenon DEF Kept
    <2> QED
      BY <1>1, <2>1, <1>K, Zenon DEF Agree, Kept
  <1>11. VisitsFollow'
    BY <1>1, <1>3, <1>V, Zenon DEF RelayInv, VisitsFollow, Seen
  <1>12. RightContacts' /\ RightDeliveries'
    BY <1>1, <1>K, Zenon DEF RelayInv, RightContacts, RightDeliveries, Kept
  <1> QED
    BY <1>1, <1>6, <1>8, <1>9, <1>10, <1>11, <1>12, Zenon DEF RelayInv

LEMMA DeliverAnswersKeepsInv ==
    ASSUME RelayInv, NEW p \in inFlight, DeliverAnswers(p)
    PROVE  RelayInv'
  <1> PICK new \in {{<<r, p.to>> : r \in Members(p.subs)}} : TRUE
    BY Zenon
  <1>1. /\ Visit(p) /\ UNCHANGED <<toSend, tasks, contacted, answers, panicked>>
        /\ p.port = 0 /\ AnswerAtLastHop(p)
        /\ inFlight' = inFlight \ {p} /\ delivered' = delivered \cup new
    BY Zenon DEF DeliverAnswers
  <1>V. Seen(p)
    BY <1>1, HandlerVisits, Zenon
  <1>K. Kept(p)
    BY <1>1, OthersKeep, Zenon
  <1>2. ASSUME NEW r \in Members(p.subs)
        PROVE  /\ FitsHeader(r) \/ NamesPort(r) => p.to = Head(r.path)
               /\ FitsHeader(r) => visits'[r] = Walk(r) /\ IsPrefix(visits'[r], Walk(r))
    <2>1. p \in Packets /\ r \in Reqs /\ visits'[r] = Append(visits[r], p.to)
      BY <1>1, <1>V, Zenon DEF Seen
    <2>2. CASE OnWay(p, r, visits[r])
      BY <1>1, <2>1, <2>2, DeliverOnWay, Zenon
    <2>3. CASE OnReturn(p, r, visits[r])
      <3>1. p.to = r.path[1] /\ (FitsHeader(r) => visits'[r] = Walk(r))
        BY <1>1, <2>1, <2>3, DeliverOnReturn, Zenon
      <3>2. Head(r.path) = r.path[1]
        BY <2>1, PathAddrs
      <3>3. FitsHeader(r) => IsPrefix(Walk(r), Walk(r))
        BY <2>1, <2>3, VisitsArePrefixes, Zenon DEF OnReturn
      <3> QED
        BY <3>1, <3>2, <3>3, Zenon
    <2> QED
      BY <1>1, <2>2, <2>3, <1>V, ZenonT(60) DEF Seen
  <1>3. \A d \in new : /\ d[1] \in Members(p.subs) /\ d[1] \in Reqs /\ d[2] = p.to
    BY <1>1, <1>V DEF Seen
  <1>4. RelayType'
    BY <1>1, <1>3, <1>V, Zenon DEF RelayInv, RelayType, Seen
  <1>5. \A r \in Reqs : /\ Flying(r)' => Flying(r) /\ r \notin Members(p.subs)
                        /\ Sourced(r)' <=> Sourced(r)
                        /\ Answered(r)' <=> Answered(r)
                        /\ Done(r)' => Done(r) \/ r \in Members(p.subs)
    <2>1. ASSUME NEW r \in Reqs, NEW q \in inFlight', r \in Members(q.subs)
          PROVE  Flying(r) /\ r \notin Members(p.subs)
      <3>1. q \in inFlight \ {p}
        BY <1>1, Zenon
      <3>2. r \notin Members(p.subs)
        BY <1>1, <2>1, <3>1, <1>V, Zenon DEF Seen
      <3> QED
        BY <2>1, <3>1, <3>2, Zenon DEF Flying
    <2>2. \A r \in Reqs : Flying(r)' => Flying(r) /\ r \notin Members(p.subs)
      BY <2>1, Zenon DEF Flying
    <2>3. \A r \in Reqs : /\ Sourced(r)' <=> Sourced(r)
                          /\ Answered(r)' <=> Answered(r)
                          /\ Done(r)' => Done(r) \/ r \in Members(p.subs)
      BY <1>1, <1>3, Zenon DEF Sourced, Answered, Done
    <2> QED
      BY <2>2, <2>3, Zenon
  <1>6. OnePlace'
    BY <1>1, <1>5, <1>V, Zenon DEF RelayInv, OnePlace, Seen
  <1>7. NotTwice'
    BY <1>1, Zenon DEF RelayInv, NotTwice
  <1>8. Agree'
    BY <1>1, <1>K, Zenon DEF Agree, Kept
  <1>9. VisitsFollow'
    BY <1>1, <1>2, <1>V, Zenon DEF RelayInv, VisitsFollow, Seen
  <1>10. RightContacts'
    BY <1>1, Zenon DEF RelayInv, RightContacts
  <1>11. RightDeliveries'
    BY <1>1, <1>2, <1>3, <1>K, Zenon DEF RightDeliveries, Kept
  <1> QED
    BY <1>1, <1>4, <1>6, <1>7, <1>8, <1>9, <1>10, <1>11, Zenon DEF RelayInv

\* The origin that is asked is the one of the path, if the header holds the path.
LEMMA ContactIsRight ==
    ASSUME RelayInv, NEW t \in tasks, contacted' = contacted \cup {<<t.req, t.origin, t.port>>}
    PROVE  RightContacts'
  <1>1. t.req \in Reqs /\ AtOrigin(t, t.req, visits[t.req])
    BY Zenon DEF RelayInv, RelayType, Agree
  <1>2. ASSUME FitsHeader(t.req) PROVE t.origin = t.req.path[Len(t.req.path)]
    <2>1. PICK n \in Nat : n = Len(t.req.path)
      BY <1>1, PathAddrs, Zenon
    <2>2. n >= 3 /\ n <= 4 /\ t.origin = IF n = 3 THEN t.req.path[3] ELSE t.req.path[4]
      BY <1>1, <1>2, <2>1, Zenon DEF AtOrigin, FitsHeader, MaxHops
    <2>3. t.origin = t.req.path[n]
      BY <2>2
    <2> QED
      BY <2>1, <2>3, Zenon
  <1>3. OfPath(t.req, t.port)
    BY <1>1, Zenon DEF AtOrigin
  <1>4. PICK c \in {<<t.req, t.origin, t.port>>} : TRUE
    BY Zenon
  <1>5. c[1] = t.req /\ c[2] = t.origin /\ c[3] = t.port /\ contacted' = contacted \cup {c}
    BY <1>4
  <1> QED
    BY <1>2, <1>3, <1>5, Zenon DEF RelayInv, RightContacts

LEMMA OriginAnswersKeepsInv ==
    ASSUME RelayInv, NEW t \in tasks, OriginAnswers(t)
    PROVE  RelayInv'
  <1>1. t.req \in Reqs /\ AtOrigin(t, t.req, visits[t.req])
    BY Zenon DEF RelayInv, RelayType, Agree
  <1>2. PICK hops \in {ReturnHops(t.hopIP)} : TRUE
    BY Zenon
  <1>3. hops = Back(t.req.path) /\ ~(Len(hops) < 2)
    <2>1. hops = Back(t.req.path) /\ Len(t.req.path) >= 3
      BY <1>1, <1>2, ReturnOfHeader, Zenon DEF AtOrigin
    <2>2. Len(hops) = 2 \/ Len(hops) = 3
      <3>2. CASE Len(t.req.path) = 3
        <4>1. hops = <<t.req.path[2], t.req.path[1]>>
          BY <2>1, <3>2, Zenon DEF Back
        <4> QED
          BY ONLY <4>1, Zenon
      <3>3. CASE Len(t.req.path) # 3
        <4>1. hops = <<t.req.path[3], t.req.path[2], t.req.path[1]>>
          BY <2>1, <3>3, Zenon DEF Back
        <4> QED
          BY ONLY <4>1, Zenon
      <3> QED
        BY <3>2, <3>3, Zenon
    <2>3. PICK k \in Nat : k = Len(hops) /\ (k = 2 \/ k = 3)
      BY ONLY <2>2, Zenon
    <2>4. ~(k < 2)
      BY ONLY <2>3, k \in Nat, TwoOrThree, Zenon
    <2> QED
      BY <2>1, <2>3, <2>4, Zenon
  <1>4. PICK new \in {[hops |-> hops, req |-> t.req]} : TRUE
    BY Zenon
  <1>5. /\ tasks' = tasks \ {t} /\ answers' = answers \cup {new}
        /\ contacted' = contacted \cup {<<t.req, t.origin, t.port>>}
        /\ UNCHANGED <<toSend, inFlight, delivered, visits, panicked>>
    BY <1>2, <1>3, <1>4, Zenon DEF OriginAnswers
  <1>6. new.req = t.req /\ AtExit(new, t.req, visits[t.req])
    BY <1>1, <1>3, <1>4 DEF AtOrigin, AtExit
  <1>7. /\ t.req \notin toSend /\ ~Flying(t.req) /\ ~Answered(t.req) /\ ~Done(t.req)
    BY <1>1, Zenon DEF RelayInv, OnePlace, Sourced
  <1>8. RelayType'
    BY <1>1, <1>5, <1>6, Zenon DEF RelayInv, RelayType
  <1>9. \A r \in Reqs : /\ Flying(r)' <=> Flying(r)
                        /\ Sourced(r)' => Sourced(r) /\ r # t.req
                        /\ Answered(r)' => Answered(r) \/ r = t.req
                        /\ Done(r)' <=> Done(r)
    BY <1>5, <1>6, Zenon DEF RelayInv, NotTwice, Flying, Sourced, Answered, Done
  <1>10. OnePlace'
    BY <1>5, <1>7, <1>9, Zenon DEF RelayInv, OnePlace
  <1>11. NotTwice'
    BY <1>5, <1>6, <1>7, Zenon DEF RelayInv, NotTwice, Answered
  <1>12. Agree'
    BY <1>5, <1>6, Zenon DEF RelayInv, Agree
  <1>13. VisitsFollow' /\ RightDeliveries'
    BY <1>5, Zenon DEF RelayInv, VisitsFollow, RightDeliveries
  <1>14. RightContacts'
    BY <1>5, ContactIsRight, Zenon
  <1> QED
    BY <1>5, <1>8, <1>10, <1>11, <1>12, <1>13, <1>14, Zenon DEF RelayInv

LEMMA RelayNext ==
    ASSUME RelayInv, [Next]_vars
    PROVE  RelayInv'
  <1>1. ASSUME NEW rs \in Batches(toSend, [r \in toSend |-> r.path]), SendRequests(rs)
        PROVE  RelayInv'
    BY <1>1, SendRequestsKeepsInv, Zenon
  <1>2. ASSUME NEW p \in inFlight, LosePacket(p) PROVE RelayInv'
    <2>1. /\ inFlight' \subseteq inFlight
          /\ UNCHANGED <<toSend, tasks, contacted, answers, delivered, visits, panicked>>
      BY <1>2, Zenon DEF LosePacket
    <2>2. RightContacts'
      BY <2>1, Zenon DEF RelayInv, RightContacts
    <2> QED
      BY <2>1, <2>2, DropKeepsInv, Zenon
  <1>3. ASSUME NEW p \in inFlight, Forward(p) PROVE RelayInv'
    BY <1>3, ForwardKeepsInv, Zenon
  <1>4. ASSUME NEW p \in inFlight, SubmitTasks(p) PROVE RelayInv'
    BY <1>4, SubmitTasksKeepsInv, Zenon
  <1>5. ASSUME NEW p \in inFlight, DeliverAnswers(p) PROVE RelayInv'
    BY <1>5, DeliverAnswersKeepsInv
  <1>6. ASSUME NEW t \in tasks, OriginAnswers(t) PROVE RelayInv'
    BY <1>6, OriginAnswersKeepsInv
  <1>7. ASSUME NEW t \in tasks, OriginFails(t) PROVE RelayInv'
    <2>1. /\ tasks' \subseteq tasks /\ contacted' = contacted \cup {<<t.req, t.origin, t.port>>}
          /\ UNCHANGED <<toSend, inFlight, answers, delivered, visits, panicked>>
      BY <1>7, Zenon DEF OriginFails
    <2>2. RightContacts'
      BY <2>1, ContactIsRight, Zenon
    <2> QED
      BY <2>1, <2>2, DropKeepsInv, Zenon
  <1>8. ASSUME NEW as \in Batches(answers, [a \in answers |-> a.hops]), SendAnswers(as)
        PROVE  RelayInv'
    BY <1>8, SendAnswersKeepsInv, Zenon
  <1>9. CASE UNCHANGED vars
    <2>1. UNCHANGED <<toSend, inFlight, tasks, contacted, answers, delivered, visits, panicked>>
      BY <1>9, Zenon DEF vars
    <2>2. RightContacts'
      BY <2>1, Zenon DEF RelayInv, RightContacts
    <2> QED
      BY <2>1, <2>2, DropKeepsInv, Zenon
  <1> QED
    BY <1>1, <1>2, <1>3, <1>4, <1>5, <1>6, <1>7, <1>8, <1>9, Zenon DEF Next

-----------------------------------------------------------------------------
\* However requests are batched, lost, forwarded and answered: each is in one place, the
\* header it travels with is that of its own path or of the way back, and it has visited
\* the nodes before the one HopPos points to (HandleQUICPacket, doOriginRequest).
THEOREM RelayIsSound == Spec => []RelayInv
  <1>1. Init => RelayInv
    BY RelayInit, Zenon
  <1>2. RelayInv /\ [Next]_vars => RelayInv'
    BY RelayNext, Zenon
  <1> QED
    BY <1>1, <1>2, PTL DEF Spec

\* A packet is always on its way to the hop HopPos points to, inside the header, and a
\* request whose path fits the header visits the nodes of its path in order and the same
\* nodes in reverse (HandleQUICPacket, AdvanceRawHop).
THEOREM PacketsFollowTheirPath == Spec => []FollowsPath
  <1>1. ASSUME RelayInv PROVE FollowsPath
    <2>1. ASSUME NEW p \in inFlight
          PROVE  p.hopPos \in 1 .. MaxHops - 1 /\ p.to = p.hopIP[p.hopPos]
      <3>1. p \in Packets /\ p.subs[1] \in Members(p.subs)
        BY <1>1, MembersOf, Zenon DEF RelayInv, RelayType, Packets
      <3>2. p.to = p.hopIP[p.hopPos]
        BY <1>1, <3>1, Zenon DEF RelayInv, Agree, OnWay, OnReturn
      <3>3. p.hopPos \in 1 .. 3
        BY <3>1, Zenon DEF Packets
      <3> QED
        BY <3>2, <3>3 DEF MaxHops
    <2> QED
      BY <1>1, <2>1, Zenon DEF RelayInv, VisitsFollow, FollowsPath
  <1> QED
    BY <1>1, RelayIsSound, PTL

\* The origin that doOriginRequest asks is the last address of the request's path, and
\* its answer is delivered at the entry node of that request, after the whole walk.
THEOREM RequestsReachTheirEnds == Spec => []RightEnds
  <1>1. ASSUME RelayInv PROVE RightEnds
    BY <1>1, Zenon DEF RelayInv, RightContacts, RightDeliveries, OfPath, RightEnds
  <1> QED
    BY <1>1, RelayIsSound, PTL

\* The next hop hops[1] that doOriginRequest gives the response aggregator always
\* exists: no request makes an exit node panic, however long or short its path.
THEOREM ExitNodesDoNotPanic == Spec => []~panicked
  <1>1. RelayInv => ~panicked
    BY Zenon DEF RelayInv
  <1> QED
    BY <1>1, RelayIsSound, PTL

=============================================================================
