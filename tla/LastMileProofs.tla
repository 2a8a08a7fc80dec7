--------------------------- MODULE LastMileProofs ---------------------------
(***************************************************************************)
(* The safety theorem of LastMile, for any clients, cities and nodes, any  *)
(* number of log lines, waiting events and rebuilds, and any faults.       *)
(***************************************************************************)
EXTENDS LastMile, WellFoundedInduction, TLAPS

\* What a key of etcd, and an entry of nodeLast, may hold.
Reports == UNION {[D -> [count : Nat, avg : Nat \X Nat]] : D \in SUBSET Cities}
Values == {None, PeerReport} \cup Reports
Events == [node : Nodes, type : {"CREATE", "UPDATE", "DELETE"}, value : Values]

LogType ==
    /\ log \in Seq([cities : SUBSET Cities, rt : Nat, age : Nat])
    /\ records \in Seq(Seq(Cities)) /\ Len(records) = Len(log)
    /\ reading \in Nat
    /\ readDue \in BOOLEAN

AggregateType ==
    /\ store \in [Nodes -> Values] /\ nodeLast \in [Nodes -> Values]
    /\ events \in Seq(Events)
    /\ rebuilds \in [Rebuilders -> [step : {"idle", "started", "listed"}, listed : [Nodes -> Values]]]

\* Records that may be reported for the log: each is of a city of its line.
Kept(lines, rs) ==
    /\ rs \in Seq(Seq(Cities)) /\ Len(rs) = Len(lines)
    /\ \A i \in DOMAIN rs : \A k \in DOMAIN rs[i] : rs[i][k] \in lines[i].cities

\* A pass reads a line once, and while the line is recent there is at most one pass for
\* each tick since, and one more: those that have read it, the one that will, and the
\* one that is due.
Waits(i) == IF reading # 0 /\ i >= reading THEN 1 ELSE 0
Due == IF readDue THEN 1 ELSE 0
CopiesInv ==
    /\ reading # 0 => ~readDue
    /\ \A i \in DOMAIN log :
           log[i].age <= Window => Len(records[i]) + Waits(i) + Due <= log[i].age + 1

\* The average lies between times that the log has for the city.
Between(lines, city, avg) ==
    /\ \E i \in DOMAIN lines : city \in lines[i].cities /\ T!Round(lines[i].rt) * avg[2] <= avg[1]
    /\ \/ avg[1] <= avg[2]
       \/ \E i \in DOMAIN lines : city \in lines[i].cities /\ avg[1] <= T!Round(lines[i].rt) * avg[2]

\* A report of the node whose log is modelled, or none.
Measured(lines, r) ==
    r # None => /\ r \in Reports
                /\ \A city \in DOMAIN r : r[city].count > 0 /\ Between(lines, city, r[city].avg)

\* Wherever a report of this node is on its way, it is measured.
SentInv == Measured(log, post) /\ Measured(log, late)
StoreInv ==
    /\ Measured(log, store[Here])
    /\ \A x \in DOMAIN events : events[x].node = Here => Measured(log, events[x].value)
CacheInv ==
    /\ Measured(log, nodeLast[Here])
    /\ \A g \in Rebuilders : Measured(log, rebuilds[g].listed[Here])
    /\ \A k \in DOMAIN edgeAgg : k[2] = Here => Between(log, k[1], edgeAgg[k].avg)

LogInv == LogType /\ Kept(log, records) /\ CopiesInv
ReportsInv == AggregateType /\ SentInv /\ StoreInv /\ CacheInv
MileInv == LogInv /\ ReportsInv

-----------------------------------------------------------------------------
\* Sums.  The totals of the prefixes of a sequence of numbers:
Running(t, s, n) == t[0] = 0 /\ \A i \in 1 .. n : t[i] = t[i - 1] + s[i]

LEMMA LeastNumber ==
    ASSUME NEW S, S \subseteq Nat, S # {}
    PROVE  \E x \in S : \A y \in S : x <= y
  <1>1. PICK R : R = OpToRel(<, Nat)
    BY Zenon
  <1>2. IsWellFoundedOn(R, Nat)
    BY <1>1, NatLessThanWellFounded, Zenon
  <1>3. PICK x \in S : \A y \in S : ~(<<y, x>> \in R)
    BY <1>2, WFMin, Zenon
  <1>4. \A y \in Nat, z \in Nat : y < z => <<y, z>> \in R
    BY <1>1, Zenon DEF OpToRel
  <1>5. \A y \in S : ~(y < x)
    BY <1>3, <1>4, Zenon
  <1>6. \A y \in S : x <= y
    BY <1>5
  <1> QED
    BY <1>6, Zenon

\* One more number.
LEMMA RunningMore ==
    ASSUME NEW n \in Nat, n > 0, NEW s, s[n] \in Nat,
           NEW t \in [0 .. n - 1 -> Nat], Running(t, s, n - 1)
    PROVE  \E u \in [0 .. n -> Nat] : Running(u, s, n)
  <1>1. PICK m \in Nat : m = t[n - 1] + s[n]
    OBVIOUS
  <1> DEFINE v == [i \in 0 .. n |-> IF i = n THEN m ELSE t[i]]
  <1>2. v \in [0 .. n -> Nat]
    OBVIOUS
  <1>3. v[0] = 0 /\ v[n] = m /\ \A i \in 0 .. n - 1 : v[i] = t[i]
    BY DEF Running
  <1> HIDE DEF v
  <1>4. ASSUME NEW i \in 1 .. n PROVE v[i] = v[i - 1] + s[i]
    <2>1. CASE i = n
      <3>1. n - 1 \in 0 .. n - 1
        OBVIOUS
      <3> QED
        BY ONLY <1>1, <1>3, <2>1, <3>1, Zenon
    <2>2. CASE i # n
      <3>1. i \in 1 .. n - 1 /\ i \in 0 .. n - 1 /\ i - 1 \in 0 .. n - 1
        BY ONLY <2>2, i \in 1 .. n, n \in Nat
      <3> QED
        BY <1>3, <3>1, Zenon DEF Running
    <2> QED
      BY ONLY <2>1, <2>2, Zenon
  <1> QED
    BY <1>2, <1>3, <1>4, Zenon DEF Running

\* Induction up to n, over a set.
LEMMA UpTo ==
    ASSUME NEW n \in Nat, NEW S, 0 \in S, \A m \in 1 .. n : m - 1 \in S => m \in S
    PROVE  n \in S
  <1> DEFINE bad == {m \in 0 .. n : m \notin S}
  <1>1. bad = {}
    <2> SUFFICES ASSUME bad # {} PROVE FALSE
      BY Zenon
    <2>1. PICK x \in bad : \A y \in bad : x <= y
      <3>1. bad \subseteq Nat
        OBVIOUS
      <3> HIDE DEF bad
      <3> QED
        BY <3>1, LeastNumber, Zenon
    <2>2. x \in 0 .. n /\ x \notin S
      BY Zenon
    <2>3. x \in 1 .. n /\ x - 1 \in 0 .. n /\ ~(x <= x - 1)
      BY ONLY <2>2, 0 \in S, n \in Nat
    <2>4. x - 1 \in S
      BY <2>1, <2>3, Zenon
    <2> QED
      BY <2>2, <2>3, <2>4, Zenon
  <1> QED
    BY <1>1

LEMMA RunningTotal ==
    ASSUME NEW n \in Nat, NEW s, \A i \in 1 .. n : s[i] \in Nat
    PROVE  \E t \in [0 .. n -> Nat] : Running(t, s, n)
  <1> DEFINE Has(m) == \E t \in [0 .. m -> Nat] : Running(t, s, m)
             S == {m \in 0 .. n : Has(m)}
  <1>1. Has(0)
    <2> DEFINE z == [i \in 0 .. 0 |-> 0]
    <2>1. z \in [0 .. 0 -> Nat] /\ z[0] = 0
      OBVIOUS
    <2>2. 1 .. 0 = {}
      OBVIOUS
    <2> HIDE DEF z
    <2> QED
      BY ONLY <2>1, <2>2, Zenon DEF Running, Has
  <1>2. ASSUME NEW m \in 1 .. n, Has(m - 1) PROVE Has(m)
    <2>1. m \in Nat /\ m > 0 /\ s[m] \in Nat
      OBVIOUS
    <2> QED
      BY ONLY <1>2, <2>1, RunningMore, Zenon DEF Has
  <1> HIDE DEF Has
  <1>3. 0 \in 0 .. n /\ \A m \in 1 .. n : m \in 0 .. n
    OBVIOUS
  <1>4. 0 \in S /\ \A m \in 1 .. n : m - 1 \in S => m \in S
    BY <1>1, <1>2, <1>3, Zenon
  <1>5. n \in S
    BY ONLY <1>4, n \in Nat, UpTo, Zenon
  <1> QED
    BY <1>5, Zenon DEF Has

\* The recursive function of Sum is that of the totals.
LEMMA SumIsTotal ==
    ASSUME NEW n \in Nat, NEW s \in [1 .. n -> Nat],
           NEW t \in [0 .. n -> Nat], Running(t, s, n)
    PROVE  T!Sum(s) = t[n]
  <1> DEFINE Is(f) == f = [i \in 0 .. n |-> IF i = 0 THEN 0 ELSE f[i - 1] + s[i]]
  <1>1. Len(s) = n
    OBVIOUS
  <1>2. PICK f : f = CHOOSE g : Is(g)
    BY Zenon
  <1>3. T!Sum(s) = f[n]
    BY ONLY <1>1, <1>2, Zenon DEF T!Sum
  <1>4. Is(t)
    BY DEF Running
  <1>5. Is(f)
    BY <1>2, <1>4, Zenon
  <1>6. f[0] = 0 /\ \A i \in 1 .. n : f[i] = f[i - 1] + s[i]
    BY ONLY <1>5, n \in Nat
  <1> DEFINE S == {i \in 0 .. n : f[i] = t[i]}
  <1>7. 0 \in S
    BY <1>6 DEF Running
  <1>8. ASSUME NEW m \in 1 .. n, m - 1 \in S PROVE m \in S
    <2>1. m \in 0 .. n /\ f[m - 1] = t[m - 1]
      BY <1>8
    <2>2. f[m] = f[m - 1] + s[m] /\ t[m] = t[m - 1] + s[m]
      BY <1>6, Zenon DEF Running
    <2> QED
      BY ONLY <2>1, <2>2, Zenon
  <1>9. n \in S
    <2> HIDE DEF S
    <2> QED
      BY <1>7, <1>8, UpTo, Zenon
  <1> QED
    BY <1>3, <1>9, Zenon

\* A total is no less than each number, and zero only if they all are.
LEMMA TotalBounds ==
    ASSUME NEW n \in Nat, NEW s \in [1 .. n -> Nat],
           NEW t \in [0 .. n -> Nat], Running(t, s, n)
    PROVE  (\A i \in 1 .. n : s[i] <= t[n]) /\ (t[n] > 0 => \E i \in 1 .. n : s[i] > 0)
  <1> DEFINE Ok(m) == (\A i \in 1 .. m : s[i] <= t[m]) /\ (t[m] > 0 => \E i \in 1 .. m : s[i] > 0)
             S == {m \in 0 .. n : Ok(m)}
  <1>1. 0 \in S
    BY DEF Running
  <1>2. ASSUME NEW m \in 1 .. n, m - 1 \in S PROVE m \in S
    <2>1. /\ m \in 0 .. n /\ m - 1 \in 0 .. n /\ Ok(m - 1)
          /\ t[m] \in Nat /\ t[m - 1] \in Nat /\ s[m] \in Nat /\ t[m] = t[m - 1] + s[m]
      BY <1>2 DEF Running
    <2>2. ASSUME NEW i \in 1 .. m PROVE s[i] <= t[m]
      <3>1. CASE i = m
        BY ONLY <2>1, <3>1
      <3>2. CASE i # m
        <4>1. i \in 1 .. m - 1 /\ s[i] \in Nat
          BY <3>2
        <4>2. s[i] <= t[m - 1]
          BY ONLY <2>1, <4>1, Zenon
        <4> QED
          BY ONLY <2>1, <4>1, <4>2
      <3> QED
        BY ONLY <3>1, <3>2, Zenon
    <2>3. ASSUME t[m] > 0 PROVE \E i \in 1 .. m : s[i] > 0
      <3>1. CASE s[m] > 0
        BY <3>1
      <3>2. CASE ~(s[m] > 0)
        <4>1. t[m - 1] > 0
          BY ONLY <2>1, <2>3, <3>2
        <4>2. PICK i \in 1 .. m - 1 : s[i] > 0
          BY ONLY <2>1, <4>1, Zenon
        <4>3. i \in 1 .. m
          OBVIOUS
        <4> QED
          BY ONLY <4>2, <4>3, Zenon
      <3> QED
        BY ONLY <3>1, <3>2, Zenon
    <2> QED
      BY <2>1, <2>2, <2>3, Zenon
  <1>3. n \in S
    <2> HIDE DEF S
    <2> QED
      BY <1>1, <1>2, UpTo, Zenon
  <1> QED
    BY <1>3, Zenon

LEMMA SumBounds ==
    ASSUME NEW n \in Nat, NEW s \in [1 .. n -> Nat]
    PROVE  /\ T!Sum(s) \in Nat /\ \A i \in 1 .. n : s[i] <= T!Sum(s)
           /\ T!Sum(s) > 0 => \E i \in 1 .. n : s[i] > 0
  <1>1. PICK t \in [0 .. n -> Nat] : Running(t, s, n)
    <2>1. \A i \in 1 .. n : s[i] \in Nat
      BY Zenon
    <2> QED
      BY ONLY <2>1, n \in Nat, RunningTotal, Zenon
  <1>2. T!Sum(s) = t[n] /\ t[n] \in Nat
    BY <1>1, SumIsTotal
  <1> QED
    BY <1>1, <1>2, TotalBounds, Zenon

\* A weighted average is no less than some value that counts, and no greater than
\* some other.
LEMMA WeightedMore ==
    ASSUME NEW C \in Nat, NEW S \in Nat, NEW c \in Nat, NEW v \in Nat, NEW w \in Nat
    PROVE  /\ w * C <= S => w * (C + c) <= S + c * v \/ v * (C + c) <= S + c * v
           /\ S <= w * C => S + c * v <= w * (C + c) \/ S + c * v <= v * (C + c)
  <1>1. w * (C + c) = w * C + c * w /\ v * (C + c) = v * C + c * v
    OBVIOUS
  <1>2. w <= v => c * w <= c * v /\ w * C <= v * C
    OBVIOUS
  <1>3. v <= w => c * v <= c * w /\ v * C <= w * C
    OBVIOUS
  <1>4. /\ w * C \in Nat /\ v * C \in Nat /\ c * w \in Nat /\ c * v \in Nat
        /\ w <= v \/ v <= w
    OBVIOUS
  <1> QED
    BY <1>1, <1>2, <1>3, <1>4

LEMMA WeightedTotal ==
    ASSUME NEW n \in Nat, NEW c \in [1 .. n -> Nat], NEW w \in [1 .. n -> Nat],
           NEW p \in [1 .. n -> Nat], \A i \in 1 .. n : p[i] = c[i] * w[i],
           NEW C \in [0 .. n -> Nat], Running(C, c, n),
           NEW S \in [0 .. n -> Nat], Running(S, p, n), C[n] > 0
    PROVE  /\ \E i \in 1 .. n : c[i] > 0 /\ w[i] * C[n] <= S[n]
           /\ \E i \in 1 .. n : c[i] > 0 /\ S[n] <= w[i] * C[n]
  <1> DEFINE Low(m) == \E i \in 1 .. m : c[i] > 0 /\ w[i] * C[m] <= S[m]
             High(m) == \E i \in 1 .. m : c[i] > 0 /\ S[m] <= w[i] * C[m]
             Zero(m) == C[m] = 0 /\ S[m] = 0
             M == {m \in 0 .. n : Zero(m) \/ (Low(m) /\ High(m))}
  <1>1. 0 \in M
    <2>1. 0 \in 0 .. n /\ Zero(0)
      <3>1. 0 \in 0 .. n
        OBVIOUS
      <3> QED
        BY <3>1, Zenon DEF Running
    <2> HIDE DEF Zero, Low, High
    <2> QED
      BY <2>1, Zenon
  <1>2. ASSUME NEW m \in 1 .. n, m - 1 \in M PROVE m \in M
    <2>1. /\ m \in 0 .. n /\ m \in 1 .. m /\ \A i \in 1 .. m - 1 : i \in 1 .. m /\ i \in 1 .. n
          /\ C[m] \in Nat /\ C[m - 1] \in Nat /\ S[m] \in Nat /\ S[m - 1] \in Nat
          /\ c[m] \in Nat /\ w[m] \in Nat
      OBVIOUS
    <2>2. C[m] = C[m - 1] + c[m] /\ S[m] = S[m - 1] + c[m] * w[m]
      BY Zenon DEF Running
    <2>3. Zero(m - 1) \/ (Low(m - 1) /\ High(m - 1))
      BY <1>2, Zenon
    <2>4. CASE c[m] = 0
      <3>1. C[m] = C[m - 1] /\ S[m] = S[m - 1]
        BY ONLY <2>1, <2>2, <2>4
      <3>2. Zero(m) \/ (Low(m) /\ High(m))
        BY ONLY <2>1, <2>3, <3>1, Zenon
      <3> QED
        BY <2>1, <3>2, Zenon
    <2>5. CASE c[m] > 0 /\ Zero(m - 1)
      <3>1. S[m] = w[m] * C[m]
        BY ONLY <2>1, <2>2, <2>5
      <3>2. w[m] * C[m] <= S[m] /\ S[m] <= w[m] * C[m]
        BY ONLY <2>1, <3>1
      <3>3. Low(m) /\ High(m)
        BY ONLY <2>1, <2>5, <3>2, Zenon
      <3> QED
        BY <2>1, <3>3, Zenon
    <2>6. CASE c[m] > 0 /\ Low(m - 1) /\ High(m - 1)
      <3>1. PICK i \in 1 .. m - 1 : c[i] > 0 /\ w[i] * C[m - 1] <= S[m - 1]
        BY ONLY <2>6, Zenon
      <3>2. PICK k \in 1 .. m - 1 : c[k] > 0 /\ S[m - 1] <= w[k] * C[m - 1]
        BY ONLY <2>6, Zenon
      <3>3. i \in 1 .. m /\ k \in 1 .. m /\ w[i] \in Nat /\ w[k] \in Nat
        BY <2>1, Zenon
      <3>4. w[i] * C[m] <= S[m] \/ w[m] * C[m] <= S[m]
        <4>1. \/ w[i] * (C[m - 1] + c[m]) <= S[m - 1] + c[m] * w[m]
              \/ w[m] * (C[m - 1] + c[m]) <= S[m - 1] + c[m] * w[m]
          BY ONLY <2>1, <3>1, <3>3, WeightedMore, Zenon
        <4> QED
          BY ONLY <2>2, <4>1, Zenon
      <3>5. S[m] <= w[k] * C[m] \/ S[m] <= w[m] * C[m]
        <4>1. \/ S[m - 1] + c[m] * w[m] <= w[k] * (C[m - 1] + c[m])
              \/ S[m - 1] + c[m] * w[m] <= w[m] * (C[m - 1] + c[m])
          BY ONLY <2>1, <3>2, <3>3, WeightedMore, Zenon
        <4> QED
          BY ONLY <2>2, <4>1, Zenon
      <3>6. Low(m) /\ High(m)
        BY ONLY <2>1, <2>6, <3>1, <3>2, <3>3, <3>4, <3>5, Zenon
      <3> QED
        BY <2>1, <3>6, Zenon
    <2>7. c[m] = 0 \/ c[m] > 0
      BY ONLY <2>1
    <2> QED
      BY ONLY <2>3, <2>4, <2>5, <2>6, <2>7, Zenon
  <1>3. n \in M
    <2> HIDE DEF M
    <2> QED
      BY <1>1, <1>2, UpTo, Zenon
  <1>4. Zero(n) \/ (Low(n) /\ High(n))
    BY <1>3, Zenon
  <1>5. ~Zero(n)
    OBVIOUS
  <1> QED
    BY <1>4, <1>5, Zenon

\* The same of the sums.
LEMMA WeightedSum ==
    ASSUME NEW n \in Nat, NEW c \in [1 .. n -> Nat], NEW w \in [1 .. n -> Nat],
           NEW p \in [1 .. n -> Nat], \A i \in 1 .. n : p[i] = c[i] * w[i], T!Sum(c) > 0
    PROVE  /\ T!Sum(c) \in Nat /\ T!Sum(p) \in Nat
           /\ \E i \in 1 .. n : c[i] > 0 /\ w[i] * T!Sum(c) <= T!Sum(p)
           /\ \E i \in 1 .. n : c[i] > 0 /\ T!Sum(p) <= w[i] * T!Sum(c)
  <1>1. PICK C \in [0 .. n -> Nat] : Running(C, c, n)
    <2>1. \A i \in 1 .. n : c[i] \in Nat
      BY Zenon
    <2> QED
      BY ONLY <2>1, n \in Nat, RunningTotal, Zenon
  <1>2. PICK S \in [0 .. n -> Nat] : Running(S, p, n)
    <2>1. \A i \in 1 .. n : p[i] \in Nat
      BY Zenon
    <2> QED
      BY ONLY <2>1, n \in Nat, RunningTotal, Zenon
  <1>3. T!Sum(c) = C[n] /\ T!Sum(p) = S[n]
    BY <1>1, <1>2, SumIsTotal, Zenon
  <1>4. C[n] \in Nat /\ S[n] \in Nat
    OBVIOUS
  <1>5. C[n] > 0
    BY <1>3, Zenon
  <1>6. /\ \E i \in 1 .. n : c[i] > 0 /\ w[i] * C[n] <= S[n]
        /\ \E i \in 1 .. n : c[i] > 0 /\ S[n] <= w[i] * C[n]
    BY <1>1, <1>2, <1>5, WeightedTotal, Zenon
  <1> QED
    BY ONLY <1>3, <1>4, <1>6, Zenon

-----------------------------------------------------------------------------
\* Reports.

\* The records of a line are counted.
LEMMA CopiesCount ==
    ASSUME NEW rs, NEW i, rs[i] \in Seq(Cities), NEW city
    PROVE  /\ T!Copies(rs, i, city) \in Nat
           /\ T!Copies(rs, i, city) > 0 <=> \E k \in DOMAIN rs[i] : rs[i][k] = city
  <1>1. PICK n \in Nat : n = Len(rs[i])
    OBVIOUS
  <1>2. DOMAIN rs[i] = 1 .. n
    BY <1>1
  <1>3. PICK s : s = [k \in 1 .. n |-> IF rs[i][k] = city THEN 1 ELSE 0]
    BY Zenon
  <1>4. s \in [1 .. n -> Nat] /\ \A k \in 1 .. n : s[k] = IF rs[i][k] = city THEN 1 ELSE 0
    BY ONLY <1>3, Zenon
  <1>5. T!Copies(rs, i, city) = T!Sum(s)
    BY ONLY <1>2, <1>3, Zenon DEF T!Copies
  <1>6. /\ T!Sum(s) \in Nat /\ \A k \in 1 .. n : s[k] <= T!Sum(s)
        /\ T!Sum(s) > 0 => \E k \in 1 .. n : s[k] > 0
    BY ONLY <1>4, SumBounds, Zenon
  <1>7. \A k \in 1 .. n : (s[k] > 0 <=> rs[i][k] = city) /\ s[k] \in Nat
    BY ONLY <1>4
  <1>8. ASSUME NEW k \in 1 .. n, s[k] > 0 PROVE T!Sum(s) > 0
    BY <1>6, <1>7, <1>8
  <1> QED
    BY ONLY <1>2, <1>5, <1>6, <1>7, <1>8, Zenon

LEMMA LogLines ==
    ASSUME LogType
    PROVE  /\ Len(log) \in Nat /\ DOMAIN log = 1 .. Len(log)
           /\ \A i \in 1 .. Len(log) : /\ T!Round(log[i].rt) \in Nat
                                       /\ log[i].cities \subseteq Cities /\ log[i].age \in Nat
  <1>1. /\ Len(log) \in Nat /\ DOMAIN log = 1 .. Len(log)
        /\ \A i \in 1 .. Len(log) : log[i] \in [cities : SUBSET Cities, rt : Nat, age : Nat]
    <2>1. log \in Seq([cities : SUBSET Cities, rt : Nat, age : Nat])
      BY Zenon DEF LogType
    <2>2. \A R : log \in Seq(R) =>
              /\ Len(log) \in Nat /\ DOMAIN log = 1 .. Len(log)
              /\ \A i \in 1 .. Len(log) : log[i] \in R
      OBVIOUS
    <2> QED
      BY ONLY <2>1, <2>2, Zenon
  <1>2. \A x \in Nat : T!Round(x) \in Nat
    BY DEF T!Round
  <1>3. \A i \in 1 .. Len(log) : log[i].rt \in Nat /\ log[i].cities \subseteq Cities /\ log[i].age \in Nat
    BY <1>1, Zenon
  <1> QED
    BY ONLY <1>1, <1>2, <1>3, Zenon

\* What Stats reports of a city with a record lies between times of its lines.
LEMMA StatsMeasured ==
    ASSUME LogType, NEW rs, Kept(log, rs),
           NEW city, NEW j \in DOMAIN rs, NEW m \in DOMAIN rs[j], rs[j][m] = city
    PROVE  /\ T!Stats(rs, city) \in [count : Nat, avg : Nat \X Nat]
           /\ T!Stats(rs, city).count > 0
           /\ Between(log, city, T!Stats(rs, city).avg)
  <1>1. PICK n \in Nat : n = Len(log)
    BY LogLines, Zenon
  <1>2. /\ DOMAIN log = 1 .. n /\ DOMAIN rs = 1 .. n
        /\ \A i \in 1 .. n : T!Round(log[i].rt) \in Nat /\ rs[i] \in Seq(Cities)
    BY <1>1, LogLines DEF Kept
  <1>3. PICK c : c = [i \in 1 .. n |-> T!Copies(rs, i, city)]
    BY Zenon
  <1>4. PICK w : w = [i \in 1 .. n |-> T!Round(log[i].rt)]
    BY Zenon
  <1>5. PICK p : p = [i \in 1 .. n |-> T!Copies(rs, i, city) * T!Round(log[i].rt)]
    BY Zenon
  <1>6. \A i \in 1 .. n : T!Copies(rs, i, city) \in Nat /\ T!Round(log[i].rt) \in Nat
    BY <1>2, CopiesCount, Zenon
  <1>7. /\ c \in [1 .. n -> Nat] /\ w \in [1 .. n -> Nat] /\ p \in [1 .. n -> Nat]
        /\ \A i \in 1 .. n : c[i] = T!Copies(rs, i, city)
        /\ \A i \in 1 .. n : w[i] = T!Round(log[i].rt)
        /\ \A i \in 1 .. n : p[i] = c[i] * w[i]
    BY ONLY <1>3, <1>4, <1>5, <1>6
  <1>8. PICK count : count = T!Sum(c)
    BY Zenon
  <1>9. PICK sum : sum = T!Sum(p)
    OBVIOUS
  <1>10. count \in Nat /\ sum \in Nat /\ (\A i \in 1 .. n : c[i] <= count) /\ \A i \in 1 .. n : p[i] <= sum
    BY ONLY <1>7, <1>8, <1>9, SumBounds, n \in Nat, Zenon
  <1>11. c[j] > 0
    <2>1. j \in 1 .. n /\ rs[j] \in Seq(Cities)
      BY ONLY <1>2, j \in DOMAIN rs, Zenon
    <2>2. T!Copies(rs, j, city) > 0
      BY ONLY <2>1, m \in DOMAIN rs[j], rs[j][m] = city, CopiesCount, Zenon
    <2> QED
      BY ONLY <1>7, <2>1, <2>2, Zenon
  <1>12. count > 0
    BY <1>2, <1>7, <1>10, <1>11
  <1>13. T!Stats(rs, city) = [count |-> count, avg |-> IF sum <= 0 THEN <<1, 1>> ELSE <<sum, count>>]
    BY ONLY <1>2, <1>3, <1>5, <1>8, <1>9, Zenon DEF T!Stats
  <1>14. ASSUME NEW i \in 1 .. n, c[i] > 0 PROVE i \in DOMAIN log /\ city \in log[i].cities
    <2>1. rs[i] \in Seq(Cities) /\ T!Copies(rs, i, city) > 0 /\ i \in DOMAIN rs /\ i \in DOMAIN log
      BY ONLY <1>2, <1>7, <1>14, Zenon
    <2>2. T!Copies(rs, i, city) > 0 <=> \E k \in DOMAIN rs[i] : rs[i][k] = city
      BY ONLY <2>1, CopiesCount
    <2>3. PICK k \in DOMAIN rs[i] : rs[i][k] = city
      BY ONLY <2>1, <2>2, Zenon
    <2> QED
      BY ONLY <2>1, <2>3, k \in DOMAIN rs[i], Kept(log, rs), Zenon DEF Kept
  <1>15. CASE sum <= 0
    <2>1. T!Stats(rs, city) = [count |-> count, avg |-> <<1, 1>>]
      BY ONLY <1>13, <1>15, Zenon
    <2>2. c[j] \in Nat /\ w[j] \in Nat /\ c[j] * w[j] <= 0
      BY <1>2, <1>7, <1>10, <1>15
    <2>3. w[j] * 1 <= 1
      BY ONLY <1>11, <2>2
    <2>4. T!Round(log[j].rt) * <<1, 1>>[2] <= <<1, 1>>[1] /\ <<1, 1>>[1] <= <<1, 1>>[2]
      <3>1. w[j] = T!Round(log[j].rt)
        BY ONLY <1>2, <1>7, j \in DOMAIN rs, Zenon
      <3>2. <<1, 1>>[1] = 1 /\ <<1, 1>>[2] = 1 /\ 1 <= 1
        OBVIOUS
      <3> QED
        BY ONLY <2>3, <3>1, <3>2, Zenon
    <2>5. Between(log, city, <<1, 1>>)
      BY <1>2, <1>11, <1>14, <2>4, Zenon DEF Between
    <2>6. /\ T!Stats(rs, city) \in [count : Nat, avg : Nat \X Nat]
          /\ T!Stats(rs, city).count = count /\ T!Stats(rs, city).avg = <<1, 1>>
      BY ONLY <1>10, <2>1
    <2> QED
      BY ONLY <1>12, <2>5, <2>6, Zenon
  <1>16. CASE ~(sum <= 0)
    <2>1. T!Stats(rs, city) = [count |-> count, avg |-> <<sum, count>>]
      BY ONLY <1>13, <1>16, Zenon
    <2>2. /\ \E i \in 1 .. n : c[i] > 0 /\ w[i] * count <= sum
          /\ \E i \in 1 .. n : c[i] > 0 /\ sum <= w[i] * count
      BY ONLY <1>7, <1>8, <1>9, <1>12, WeightedSum, n \in Nat, Zenon
    <2>3. /\ \E i \in 1 .. n : c[i] > 0 /\ T!Round(log[i].rt) * count <= sum
          /\ \E i \in 1 .. n : c[i] > 0 /\ sum <= T!Round(log[i].rt) * count
      BY ONLY <1>7, <2>2, Zenon
    <2>4. <<sum, count>>[1] = sum /\ <<sum, count>>[2] = count
      BY Zenon
    <2>5. Between(log, city, <<sum, count>>)
      BY <1>14, <2>3, <2>4, Zenon DEF Between
    <2>6. /\ T!Stats(rs, city) \in [count : Nat, avg : Nat \X Nat]
          /\ T!Stats(rs, city).count = count /\ T!Stats(rs, city).avg = <<sum, count>>
      BY ONLY <1>10, <2>1
    <2> QED
      BY ONLY <1>12, <2>5, <2>6, Zenon
  <1> QED
    BY ONLY <1>15, <1>16, Zenon

LEMMA CongestionMeasured ==
    ASSUME LogType, NEW rs, Kept(log, rs)
    PROVE  Measured(log, T!Congestion(rs))
  <1> DEFINE D == UNION {{rs[i][k] : k \in DOMAIN rs[i]} : i \in DOMAIN rs}
             R == [count : Nat, avg : Nat \X Nat]
  <1>1. \A city \in D : \E i \in DOMAIN rs : \E k \in DOMAIN rs[i] : rs[i][k] = city
    BY Zenon
  <1>2. ASSUME NEW city \in D
        PROVE  /\ T!Stats(rs, city) \in R /\ T!Stats(rs, city).count > 0
               /\ Between(log, city, T!Stats(rs, city).avg)
    <2>1. PICK i \in DOMAIN rs : \E k \in DOMAIN rs[i] : rs[i][k] = city
      BY ONLY <1>1, city \in D, Zenon
    <2>2. PICK k \in DOMAIN rs[i] : rs[i][k] = city
      BY ONLY <2>1, Zenon
    <2> QED
      BY ONLY <2>2, i \in DOMAIN rs, k \in DOMAIN rs[i], LogType, Kept(log, rs), StatsMeasured, Zenon
  <1>3. D \subseteq Cities
    <2>1. ASSUME NEW i \in DOMAIN rs, NEW k \in DOMAIN rs[i] PROVE rs[i][k] \in Cities
      <3>1. rs \in Seq(Seq(Cities))
        BY Zenon DEF Kept
      <3>2. rs[i] \in Seq(Cities)
        BY ONLY <3>1, i \in DOMAIN rs
      <3> QED
        BY ONLY <3>2, k \in DOMAIN rs[i]
    <2> QED
      BY ONLY <1>1, <2>1, ZenonT(60)
  <1>4. T!Congestion(rs) = [city \in D |-> T!Stats(rs, city)]
    BY Zenon DEF T!Congestion
  <1> HIDE DEF D, R
  <1>5. /\ T!Congestion(rs) \in [D -> R] /\ DOMAIN T!Congestion(rs) = D
        /\ \A city \in D : T!Congestion(rs)[city] = T!Stats(rs, city)
    BY ONLY <1>2, <1>4, Zenon
  <1>6. T!Congestion(rs) \in Reports
    BY ONLY <1>3, <1>5, Zenon DEF Reports, R
  <1> QED
    BY ONLY <1>2, <1>5, <1>6, Zenon DEF Measured

\* calculateLastCongestion keeps the records of a line, or none of them.
LEMMA ValidKept ==
    ASSUME LogType, Kept(log, records)
    PROVE  /\ Kept(log, T!Valid)
           /\ \A i \in DOMAIN log : T!Valid[i] = records[i] \/ T!Valid[i] = <<>>
  <1>1. PICK n \in Nat : n = Len(log)
    BY LogLines, Zenon
  <1>2. DOMAIN log = 1 .. n /\ Len(records) = n /\ records \in Seq(Seq(Cities))
    BY <1>1, LogLines, Zenon DEF LogType
  <1>3. DOMAIN records = 1 .. n /\ \A i \in 1 .. n : records[i] \in Seq(Cities)
    BY ONLY <1>2, n \in Nat
  <1>4. <<>> \in Seq(Cities) /\ DOMAIN <<>> = {}
    OBVIOUS
  <1>5. ASSUME NEW lines
        PROVE  /\ Kept(log, T!Only(records, lines))
               /\ \A i \in 1 .. n : \/ T!Only(records, lines)[i] = records[i]
                                    \/ T!Only(records, lines)[i] = <<>>
    <2>1. PICK f : f = [i \in 1 .. n |-> IF i \in lines THEN records[i] ELSE <<>>]
      BY Zenon
    <2>2. T!Only(records, lines) = f
      BY ONLY <1>3, <2>1, Zenon DEF T!Only
    <2>3. /\ f \in [1 .. n -> Seq(Cities)] /\ DOMAIN f = 1 .. n
          /\ \A i \in 1 .. n : f[i] = records[i] \/ f[i] = <<>>
      BY ONLY <1>3, <1>4, <2>1, Zenon
    <2>4. f \in Seq(Seq(Cities)) /\ Len(f) = n
      BY ONLY <2>3, n \in Nat
    <2>5. \A i \in DOMAIN f : \A k \in DOMAIN f[i] : f[i][k] \in log[i].cities
      BY <1>3, <1>4, <2>3, Zenon DEF Kept
    <2> QED
      BY ONLY <1>1, <2>2, <2>3, <2>4, <2>5, Zenon DEF Kept
  <1>6. T!Valid = records \/ T!Valid = T!Only(records, T!Recent)
    BY Zenon DEF T!Valid
  <1> QED
    BY ONLY <1>2, <1>5, <1>6, Kept(log, records), Zenon

\* RebuildAggregate weighs an average with its count and divides by it again.
LEMMA RebuiltMeasured ==
    ASSUME NEW lines, NEW last \in [Nodes -> Values], Measured(lines, last[Here])
    PROVE  \A k \in DOMAIN A!Rebuilt(last) :
               k[2] = Here => Between(lines, k[1], A!Rebuilt(last)[k].avg)
  <1> DEFINE D == UNION {(DOMAIN last[n]) \X {n} : n \in {m \in Nodes : last[m] # None}}
             F(k) == LET s == last[k[2]][k[1]]
                     IN  [count |-> s.count,
                          avg |-> IF s.count > 0 THEN A!Over(A!SumRT(s), s.count) ELSE <<0, 1>>]
  <1>1. A!Rebuilt(last) = [k \in D |-> F(k)]
    BY Zenon DEF A!Rebuilt
  <1>2. SUFFICES ASSUME NEW k \in D, k[2] = Here PROVE Between(lines, k[1], F(k).avg)
    <2> HIDE DEF D, F
    <2> QED
      BY ONLY <1>1, <1>2, Zenon
  <1>3. PICK n \in Nodes : last[n] # None /\ k \in (DOMAIN last[n]) \X {n}
    BY ONLY k \in D, Zenon
  <1>4. n = Here /\ k[1] \in DOMAIN last[n]
    BY ONLY <1>2, <1>3, Zenon
  <1>5. PICK s : s = last[Here][k[1]]
    BY Zenon
  <1>6. s.count > 0 /\ Between(lines, k[1], s.avg) /\ last[Here] \in Reports
    BY ONLY <1>3, <1>4, <1>5, Measured(lines, last[Here]), Zenon DEF Measured
  <1>7. s \in [count : Nat, avg : Nat \X Nat]
    BY ONLY <1>4, <1>5, <1>6 DEF Reports
  <1>8. PICK a \in Nat, b \in Nat, c \in Nat : s.avg = <<a, b>> /\ s.count = c
    BY ONLY <1>7
  <1>9. (a * c) % c = 0 /\ (a * c) \div c = a
    BY ONLY <1>6, <1>8, a \in Nat, c \in Nat
  <1>10. A!SumRT(s) = <<a * c, b>>
    BY ONLY <1>8 DEF A!SumRT, A!Times
  <1>11. A!Over(<<a * c, b>>, c) = <<a, b>>
    BY ONLY <1>9, Zenon DEF A!Over
  <1>12. F(k) = [count |-> s.count, avg |-> s.avg]
    BY ONLY <1>2, <1>5, <1>6, <1>8, <1>10, <1>11, Zenon
  <1> HIDE DEF F
  <1>13. F(k).avg = s.avg
    BY ONLY <1>12
  <1> QED
    BY ONLY <1>6, <1>13, Zenon

\* The log grows and its lines age, but what is measured stays measured.
Later(lines, more) ==
    \A i \in DOMAIN lines : /\ i \in DOMAIN more
                            /\ more[i].cities = lines[i].cities /\ more[i].rt = lines[i].rt

LEMMA BetweenLater ==
    ASSUME NEW lines, NEW more, Later(lines, more), NEW city, NEW avg, Between(lines, city, avg)
    PROVE  Between(more, city, avg)
  <1>1. \A i \in DOMAIN lines : /\ i \in DOMAIN more
                                /\ more[i].cities = lines[i].cities /\ more[i].rt = lines[i].rt
    BY Zenon DEF Later
  <1> QED
    BY <1>1, Zenon DEF Between

LEMMA MeasuredLater ==
    ASSUME NEW lines, NEW more, Later(lines, more), NEW r, Measured(lines, r)
    PROVE  Measured(more, r)
  BY BetweenLater, Zenon DEF Measured

-----------------------------------------------------------------------------
\* The steps of the data plane.

LEMMA LaterSame == Later(log, log)
  BY Zenon DEF Later

\* The control plane does nothing meanwhile.
LEMMA CachesLater ==
    ASSUME ReportsInv, Later(log, log'), UNCHANGED aggregateVars
    PROVE  AggregateType' /\ StoreInv' /\ CacheInv'
  <1>1. UNCHANGED <<store, events, nodeLast, rebuilds, edgeAgg>>
    BY Zenon DEF aggregateVars
  <1>2. AggregateType /\ StoreInv /\ CacheInv
    BY Zenon DEF ReportsInv
  <1>3. AggregateType'
    BY ONLY <1>1, <1>2, Zenon DEF AggregateType
  <1>4. \A r : Measured(log, r) => Measured(log', r)
    BY MeasuredLater, Zenon
  <1>5. \A city, avg : Between(log, city, avg) => Between(log', city, avg)
    BY BetweenLater, Zenon
  <1>6. StoreInv'
    BY ONLY <1>1, <1>2, <1>4, Zenon DEF StoreInv
  <1>7. CacheInv'
    BY ONLY <1>1, <1>2, <1>4, <1>5, Zenon DEF CacheInv
  <1> QED
    BY ONLY <1>3, <1>6, <1>7, Zenon

\* The proxy logs a client.
LEMMA LogStep ==
    ASSUME MileInv, Log
    PROVE  MileInv'
  <1>1. LogType /\ Kept(log, records) /\ CopiesInv /\ ReportsInv
    BY Zenon DEF MileInv, LogInv
  <1>2. PICK n \in Nat : n = Len(log)
    BY <1>1, LogLines, Zenon
  <1> DEFINE L == [cities : SUBSET Cities, rt : Nat, age : Nat]
  <1>3. /\ log \in Seq(L) /\ DOMAIN log = 1 .. n
        /\ records \in Seq(Seq(Cities)) /\ Len(records) = n /\ reading \in Nat
    BY <1>1, <1>2, LogLines, Zenon DEF LogType
  <1>4. PICK c \in Traffic[n + 1] :
            log' = Append(log, [cities |-> c.cities, rt |-> c.rt, age |-> 0])
    BY <1>2, Zenon DEF Log, T!Log
  <1>5. /\ n < Len(Traffic) /\ records' = Append(records, <<>>)
        /\ UNCHANGED <<reading, readDue, post>> /\ UNCHANGED aggregateVars /\ UNCHANGED <<late, faults>>
    BY <1>2, Zenon DEF Log, T!Log, netVars
  <1>6. PICK e : e = [cities |-> c.cities, rt |-> c.rt, age |-> 0]
    BY Zenon
  <1>7. c \in [cities : SUBSET Cities, rt : Nat]
    <2>1. Traffic \in Seq(SUBSET [cities : SUBSET Cities, rt : Nat])
      BY LastMileAssumption, Zenon
    <2>2. \A S : Traffic \in Seq(SUBSET S) /\ n < Len(Traffic) => Traffic[n + 1] \subseteq S
      OBVIOUS
    <2> QED
      BY ONLY <1>5, <2>1, <2>2, c \in Traffic[n + 1], Zenon
  <1>8. e \in L /\ e.age = 0
    BY ONLY <1>6, <1>7, Zenon
  <1> HIDE DEF L
  <1>9. /\ log' \in Seq(L) /\ Len(log') = n + 1 /\ DOMAIN log' = 1 .. n + 1
        /\ log'[n + 1] = e /\ \A i \in 1 .. n : log'[i] = log[i]
    <2>1. log' = Append(log, e)
      BY ONLY <1>4, <1>6, Zenon
    <2> QED
      BY ONLY <1>2, <1>3, <1>8, <2>1, n \in Nat
  <1>10. /\ records' \in Seq(Seq(Cities)) /\ Len(records') = n + 1 /\ DOMAIN records' = 1 .. n + 1
         /\ records'[n + 1] = <<>> /\ \A i \in 1 .. n : records'[i] = records[i]
    <2>1. <<>> \in Seq(Cities)
      OBVIOUS
    <2> QED
      BY ONLY <1>3, <1>5, <2>1, n \in Nat
  <1>11. \A i \in 1 .. n + 1 : i \in 1 .. n \/ i = n + 1
    BY ONLY n \in Nat
  <1>12. LogType'
    <2>1. reading' \in Nat
      BY ONLY <1>3, <1>5, Zenon
    <2>2. readDue' \in BOOLEAN
      BY ONLY <1>1, <1>5, Zenon DEF LogType
    <2> QED
      BY ONLY <1>9, <1>10, <2>1, <2>2, Zenon DEF LogType, L
  <1>13. Kept(log, records)'
    <2>1. DOMAIN records = 1 .. n /\ DOMAIN <<>> = {}
      BY ONLY <1>3, n \in Nat
    <2>2. ASSUME NEW i \in 1 .. n + 1, NEW k \in DOMAIN records'[i]
          PROVE  records'[i][k] \in log'[i].cities
      <3>1. i \in 1 .. n
        BY ONLY <1>10, <1>11, <2>1, i \in 1 .. n + 1, k \in DOMAIN records'[i], Zenon
      <3> QED
        BY ONLY <1>1, <1>9, <1>10, <2>1, <3>1, k \in DOMAIN records'[i], Zenon DEF Kept
    <2> QED
      BY ONLY <1>9, <1>10, <2>2, Zenon DEF Kept
  <1>14. CopiesInv'
    <2>1. \A i : Waits(i)' = Waits(i)
      BY ONLY <1>5, Zenon DEF Waits
    <2>2. Due' = Due /\ reading' = reading /\ readDue' = readDue
      BY ONLY <1>5, Zenon DEF Due
    <2>3. Waits(n + 1) + Due <= 1
      <3>1. reading # 0 => ~readDue
        BY ONLY <1>1, Zenon DEF CopiesInv
      <3> QED
        BY ONLY <3>1 DEF Waits, Due
    <2>4. ASSUME NEW i \in 1 .. n + 1, log'[i].age <= Window
          PROVE  Len(records'[i]) + Waits(i)' + Due' <= log'[i].age + 1
      <3>1. CASE i \in 1 .. n
        BY ONLY <1>1, <1>3, <1>9, <1>10, <2>1, <2>2, <2>4, <3>1, Zenon DEF CopiesInv
      <3>2. CASE i = n + 1
        <4>1. Len(records'[i]) = 0 /\ Waits(i)' = Waits(n + 1) /\ log'[i].age = 0
          <5>1. Len(<<>>) = 0
            BY Zenon
          <5> QED
            BY ONLY <1>8, <1>9, <1>10, <2>1, <3>2, <5>1, Zenon
        <4>2. Waits(n + 1) \in Nat /\ Due \in Nat
          BY ONLY TRUE, Zenon DEF Waits, Due
        <4> QED
          BY ONLY <2>2, <2>3, <4>1, <4>2
      <3> QED
        BY ONLY <1>11, <3>1, <3>2, i \in 1 .. n + 1, Zenon
    <2>5. reading' # 0 => ~readDue'
      BY ONLY <1>1, <2>2, Zenon DEF CopiesInv
    <2> QED
      BY ONLY <1>9, <2>4, <2>5, Zenon DEF CopiesInv
  <1>15. Later(log, log')
    <2>1. \A i \in 1 .. n : i \in 1 .. n + 1
      BY ONLY n \in Nat
    <2> QED
      BY ONLY <1>3, <1>9, <2>1, Zenon DEF Later
  <1>16. SentInv'
    BY ONLY <1>1, <1>5, <1>15, MeasuredLater, Zenon DEF ReportsInv, SentInv
  <1> QED
    BY ONLY <1>1, <1>5, <1>12, <1>13, <1>14, <1>15, <1>16, CachesLater, Zenon DEF MileInv, LogInv, ReportsInv

\* Lines age, a pass becomes due, and a late report is gone.
LEMMA TickStep ==
    ASSUME MileInv, Tick
    PROVE  MileInv'
  <1>1. LogType /\ Kept(log, records) /\ CopiesInv /\ ReportsInv
    BY Zenon DEF MileInv, LogInv
  <1>2. PICK n \in Nat : n = Len(log)
    BY <1>1, LogLines, Zenon
  <1> DEFINE L == [cities : SUBSET Cities, rt : Nat, age : Nat]
             Older(e) == [e EXCEPT !.age = IF @ > Window THEN @ ELSE @ + 1]
  <1>3. /\ log \in Seq(L) /\ DOMAIN log = 1 .. n /\ Window \in Nat
        /\ records \in Seq(Seq(Cities)) /\ Len(records) = n /\ reading \in Nat
    BY <1>1, <1>2, LogLines, LastMileAssumption, Zenon DEF LogType
  <1>4. /\ ~readDue /\ reading = 0 /\ readDue' = TRUE
        /\ log' = [i \in 1 .. n |-> Older(log[i])]
        /\ UNCHANGED <<reading, records, post>> /\ late' = None /\ UNCHANGED aggregateVars
    BY <1>3, Zenon DEF Tick, T!Tick
  <1>5. \A e \in L : /\ Older(e) \in L /\ Older(e).cities = e.cities /\ Older(e).rt = e.rt
                     /\ Older(e).age = IF e.age > Window THEN e.age ELSE e.age + 1
                     /\ e.age \in Nat
    <2> SUFFICES ASSUME NEW e \in L
                 PROVE  /\ Older(e) \in L /\ Older(e).cities = e.cities /\ Older(e).rt = e.rt
                        /\ Older(e).age = IF e.age > Window THEN e.age ELSE e.age + 1
                        /\ e.age \in Nat
      BY Zenon
    <2>1. PICK a \in Nat : a = IF e.age > Window THEN e.age ELSE e.age + 1
      <3>1. e.age \in Nat
        BY Zenon
      <3> QED
        BY ONLY <3>1, <1>3
    <2>2. Older(e) = [e EXCEPT !.age = a]
      BY ONLY <2>1, Zenon
    <2> HIDE DEF Older
    <2> QED
      BY ONLY <2>1, <2>2, e \in L, Zenon
  <1> HIDE DEF L, Older
  <1>6. \A i \in 1 .. n : log[i] \in L
    BY ONLY <1>3
  <1>7. /\ log' \in [1 .. n -> L] /\ DOMAIN log' = 1 .. n
        /\ \A i \in 1 .. n : log'[i] = Older(log[i])
    BY ONLY <1>4, <1>5, <1>6, Zenon
  <1>8. log' \in Seq(L) /\ Len(log') = n
    BY ONLY <1>7, n \in Nat
  <1>9. LogType'
    BY ONLY <1>1, <1>2, <1>3, <1>4, <1>8, Zenon DEF LogType, L
  <1>10. DOMAIN records = 1 .. n
    BY ONLY <1>3
  <1>11. Kept(log, records)'
    BY ONLY <1>1, <1>2, <1>4, <1>5, <1>6, <1>7, <1>8, <1>10, Zenon DEF Kept
  <1>12. CopiesInv'
    <2>1. reading = 0 /\ reading' = 0
      BY ONLY <1>4, Zenon
    <2>2. Due = 0 /\ Due' = 1
      BY ONLY <1>4, Zenon DEF Due
    <2>3. \A i : Waits(i) = 0 /\ Waits(i)' = 0
      BY ONLY <2>1, Zenon DEF Waits
    <2>4. ASSUME NEW i \in 1 .. n, log'[i].age <= Window
          PROVE  Len(records'[i]) + Waits(i)' + Due' <= log'[i].age + 1
      <3>1. /\ log'[i].age = IF log[i].age > Window THEN log[i].age ELSE log[i].age + 1
            /\ log[i].age \in Nat
        BY ONLY <1>5, <1>6, <1>7, i \in 1 .. n, Zenon
      <3>2. log[i].age <= Window /\ log'[i].age = log[i].age + 1
        BY ONLY <1>3, <2>4, <3>1
      <3>3. Len(records[i]) + Waits(i) + Due <= log[i].age + 1
        BY ONLY <1>1, <1>3, <3>2, i \in 1 .. n, Zenon DEF CopiesInv
      <3>4. Len(records[i]) \in Nat /\ records' = records
        BY ONLY <1>3, <1>4, i \in 1 .. n
      <3> QED
        BY ONLY <2>2, <2>3, <3>1, <3>2, <3>3, <3>4
    <2> QED
      BY ONLY <1>7, <2>1, <2>4, Zenon DEF CopiesInv
  <1>13. Later(log, log')
    BY ONLY <1>3, <1>5, <1>6, <1>7, Zenon DEF Later
  <1>14. SentInv'
    <2>1. Measured(log', None)
      BY Zenon DEF Measured
    <2> QED
      BY ONLY <1>1, <1>4, <1>13, <2>1, MeasuredLater, Zenon DEF ReportsInv, SentInv
  <1> QED
    BY ONLY <1>1, <1>4, <1>9, <1>11, <1>12, <1>13, <1>14, CachesLater, ZenonT(60) DEF MileInv, LogInv, ReportsInv

\* The log is not touched, and no report is sent.
LEMMA ReportsRest ==
    ASSUME ReportsInv, log' = log, UNCHANGED <<post, late>>, UNCHANGED aggregateVars
    PROVE  ReportsInv'
  <1>1. Later(log, log')
    BY LaterSame, Zenon
  <1>2. SentInv'
    BY Zenon DEF ReportsInv, SentInv
  <1> QED
    BY ONLY <1>1, <1>2, ReportsInv, UNCHANGED aggregateVars, CachesLater, Zenon DEF ReportsInv

LEMMA WaitsOnce == \A i : Waits(i) \in 0 .. 1
  <1>1. \A i : Waits(i) = 0 \/ Waits(i) = 1
    BY Zenon DEF Waits
  <1> QED
    BY ONLY <1>1

\* A pass begins: it will read each line of the end of the log once.
LEMMA BeginReadStep ==
    ASSUME MileInv, T!BeginRead, UNCHANGED <<aggregateVars, netVars>>
    PROVE  MileInv'
  <1>1. LogType /\ Kept(log, records) /\ CopiesInv /\ ReportsInv
    BY Zenon DEF MileInv, LogInv
  <1>2. PICK n \in Nat : n = Len(log)
    BY <1>1, LogLines, Zenon
  <1>3. PICK s : s = T!EndStart
    BY Zenon
  <1>4. /\ readDue /\ reading = 0 /\ readDue' = FALSE /\ reading' = s
        /\ UNCHANGED <<log, records>> /\ UNCHANGED <<post, late>> /\ UNCHANGED aggregateVars
    BY <1>3, Zenon DEF T!BeginRead, netVars
  <1>5. s \in Nat
    <2>1. TailLines \in Nat \ {0}
      BY LastMileAssumption, Zenon
    <2>2. s = IF n > TailLines THEN n - TailLines + 1 ELSE 1
      BY ONLY <1>2, <1>3, Zenon DEF T!EndStart
    <2> QED
      BY ONLY <2>1, <2>2, n \in Nat
  <1>6. LogType'
    BY ONLY <1>1, <1>4, <1>5, Zenon DEF LogType
  <1>7. CopiesInv'
    <2>1. Due = 1 /\ Due' = 0
      BY ONLY <1>4, Zenon DEF Due
    <2>2. \A i : Waits(i) = 0 /\ Waits(i)' \in 0 .. 1
      <3>1. \A i : Waits(i) = 0
        BY ONLY <1>4, Zenon DEF Waits
      <3>2. \A i : Waits(i)' = 0 \/ Waits(i)' = 1
        BY ONLY Zenon DEF Waits
      <3> QED
        BY ONLY <3>1, <3>2
    <2>3. ASSUME NEW i \in DOMAIN log, log[i].age <= Window
          PROVE  Len(records[i]) + Waits(i)' + Due' <= log[i].age + 1
      <3>1. Len(records[i]) + Waits(i) + Due <= log[i].age + 1
        BY ONLY <1>1, <2>3, i \in DOMAIN log, Zenon DEF CopiesInv
      <3>2. Len(records[i]) \in Nat /\ log[i].age \in Nat
        <4>1. i \in 1 .. n /\ log[i].age \in Nat
          BY ONLY <1>1, <1>2, LogLines, i \in DOMAIN log, Zenon
        <4>2. records \in Seq(Seq(Cities)) /\ Len(records) = n
          BY ONLY <1>1, <1>2, Zenon DEF LogType
        <4>3. Len(records[i]) \in Nat
          BY ONLY <4>1, <4>2
        <4> QED
          BY ONLY <4>1, <4>3, Zenon
      <3> QED
        BY ONLY <2>1, <2>2, <3>1, <3>2
    <2> QED
      BY ONLY <1>4, <2>3, Zenon DEF CopiesInv
  <1>8. Kept(log, records)'
    BY ONLY <1>1, <1>4, Zenon
  <1> QED
    BY ONLY <1>1, <1>4, <1>6, <1>7, <1>8, ReportsRest, Zenon DEF MileInv, LogInv

\* Nothing is read, and there is less to read.
LEMMA ReadLess ==
    ASSUME MileInv, UNCHANGED <<log, records>>, UNCHANGED <<post, late>>, UNCHANGED aggregateVars,
           reading' \in {reading, 0}, readDue' \in {readDue, FALSE}
    PROVE  MileInv'
  <1>1. LogType /\ Kept(log, records) /\ CopiesInv /\ ReportsInv
    BY Zenon DEF MileInv, LogInv
  <1>2. LogType' /\ Kept(log, records)'
    <2>1. 0 \in Nat
      OBVIOUS
    <2> QED
      BY <1>1, <2>1, Zenon DEF LogType
  <1>3. ReportsInv'
    BY <1>1, ReportsRest, Zenon
  <1>4. CopiesInv'
    <2>1. Due \in 0 .. 1 /\ Due' \in 0 .. 1 /\ Due' <= Due
      <3>1. readDue' => readDue
        BY Zenon
      <3> QED
        BY ONLY <3>1 DEF Due
    <2>2. ASSUME NEW i \in DOMAIN log, log[i].age <= Window
          PROVE  Len(records[i]) + Waits(i)' + Due' <= log[i].age + 1
      <3>1. Len(records[i]) + Waits(i) + Due <= log[i].age + 1
        BY ONLY <1>1, <2>2, i \in DOMAIN log, Zenon DEF CopiesInv
      <3>2. Waits(i) \in 0 .. 1 /\ Waits(i)' \in {Waits(i), 0}
        <4>1. Waits(i)' \in {Waits(i), 0}
          BY Zenon DEF Waits
        <4> QED
          BY ONLY <4>1, WaitsOnce, Zenon
      <3>3. i \in 1 .. Len(log) /\ log[i].age \in Nat
        BY ONLY <1>1, LogLines, i \in DOMAIN log, Zenon
      <3>4. records \in Seq(Seq(Cities)) /\ Len(records) = Len(log)
        BY ONLY <1>1, Zenon DEF LogType
      <3>5. Len(records[i]) \in Nat
        BY ONLY <3>3, <3>4
      <3>6. PICK a \in Nat, z \in Nat, u \in 0 .. 1, v \in 0 .. 1, d \in 0 .. 1, e \in 0 .. 1 :
                /\ a = Len(records[i]) /\ z = log[i].age
                /\ u = Waits(i)' /\ v = Waits(i) /\ d = Due' /\ e = Due
        <4>1. Waits(i)' \in 0 .. 1
          BY ONLY <3>2
        <4> QED
          BY ONLY <2>1, <3>2, <3>3, <3>5, <4>1, Zenon
      <3>7. a + u + d <= z + 1
        <4>1. u \in {v, 0} /\ d <= e /\ a + v + e <= z + 1
          BY ONLY <2>1, <3>1, <3>2, <3>6, Zenon
        <4> QED
          BY ONLY <4>1, a \in Nat, z \in Nat, u \in 0 .. 1, v \in 0 .. 1, d \in 0 .. 1, e \in 0 .. 1
      <3> QED
        BY ONLY <3>6, <3>7, Zenon
    <2>3. reading' # 0 => ~readDue'
      BY <1>1, Zenon DEF CopiesInv
    <2>4. log' = log /\ records' = records
      BY Zenon
    <2> QED
      BY ONLY <2>2, <2>3, <2>4, Zenon DEF CopiesInv
  <1> QED
    BY ONLY <1>2, <1>3, <1>4, Zenon DEF MileInv, LogInv

\* A pass ends.
LEMMA EndReadStep ==
    ASSUME MileInv, T!EndRead, UNCHANGED <<aggregateVars, netVars>>
    PROVE  MileInv'
  <1>1. /\ UNCHANGED <<log, records>> /\ UNCHANGED <<post, late>> /\ UNCHANGED aggregateVars
        /\ reading' \in {reading, 0} /\ readDue' \in {readDue, FALSE}
    BY Zenon DEF T!EndRead, netVars
  <1> QED
    BY ONLY MileInv, <1>1, ReadLess, Zenon

\* A pass fails.
LEMMA ReadErrorStep ==
    ASSUME MileInv, ReadError
    PROVE  MileInv'
  <1>1. /\ UNCHANGED <<log, records>> /\ UNCHANGED <<post, late>> /\ UNCHANGED aggregateVars
        /\ reading' \in {reading, 0} /\ readDue' \in {readDue, FALSE}
    BY Zenon DEF ReadError, T!ReadError
  <1> QED
    BY ONLY MileInv, <1>1, ReadLess, Zenon

\* A line is read: it gets a record, or none.
LEMMA ReadLineStep ==
    ASSUME MileInv, T!ReadLine, UNCHANGED <<aggregateVars, netVars>>
    PROVE  MileInv'
  <1>1. LogType /\ Kept(log, records) /\ CopiesInv /\ ReportsInv
    BY Zenon DEF MileInv, LogInv
  <1>2. PICK n \in Nat : n = Len(log)
    BY <1>1, LogLines, Zenon
  <1>3. /\ DOMAIN log = 1 .. n /\ records \in Seq(Seq(Cities)) /\ Len(records) = n
        /\ reading \in Nat /\ \A i \in 1 .. n : log[i].age \in Nat /\ log[i].cities \subseteq Cities
    BY <1>1, <1>2, LogLines, Zenon DEF LogType
  <1>4. /\ reading \in 1 .. n /\ reading' = reading + 1
        /\ UNCHANGED <<log, readDue>> /\ UNCHANGED <<post, late>> /\ UNCHANGED aggregateVars
    BY <1>3, Zenon DEF T!ReadLine, netVars
  <1>5. PICK i \in 1 .. n : i = reading
    BY ONLY <1>4, Zenon
  <1>6. i + 1 \in Nat /\ i # 0 /\ i + 1 # 0 /\ ~(i >= i + 1) /\ i >= i
    BY ONLY n \in Nat, i \in 1 .. n
  <1>7. PICK r \in Seq(Cities) :
             /\ records' = [records EXCEPT ![i] = r]
             /\ r = records[i] \/ \E city \in log[i].cities : r = Append(records[i], city)
    <2>1. records[i] \in Seq(Cities) /\ records = [records EXCEPT ![i] = records[i]]
      BY ONLY <1>3, i \in 1 .. n
    <2>2. records' \in IF log[i].cities = {} THEN {records}
                       ELSE {[records EXCEPT ![i] = Append(@, city)] : city \in log[i].cities}
      BY <1>5, Zenon DEF T!ReadLine
    <2>3. CASE records' = records
      BY ONLY <2>1, <2>3, Zenon
    <2>4. ASSUME NEW city \in log[i].cities,
                 records' = [records EXCEPT ![i] = Append(records[i], city)]
          PROVE  \E r \in Seq(Cities) :
                     /\ records' = [records EXCEPT ![i] = r]
                     /\ r = records[i] \/ \E c \in log[i].cities : r = Append(records[i], c)
      <3>1. city \in Cities
        BY ONLY <1>3, i \in 1 .. n, city \in log[i].cities, Zenon
      <3>2. Append(records[i], city) \in Seq(Cities)
        BY ONLY <2>1, <3>1
      <3> QED
        BY ONLY <2>4, <3>2, city \in log[i].cities, Zenon
    <2> QED
      BY ONLY <2>2, <2>3, <2>4, Zenon
  <1>8. /\ records' \in Seq(Seq(Cities)) /\ Len(records') = n /\ DOMAIN records = 1 .. n
         /\ DOMAIN records' = 1 .. n
         /\ records'[i] = r /\ \A j \in 1 .. n : j # i => records'[j] = records[j]
    BY ONLY <1>3, <1>7, r \in Seq(Cities), i \in 1 .. n, n \in Nat
  <1>9. LogType'
    BY ONLY <1>1, <1>2, <1>4, <1>5, <1>6, <1>8, Zenon DEF LogType
  <1>10. /\ Len(records[i]) \in Nat /\ Len(r) \in Nat /\ Len(r) <= Len(records[i]) + 1
         /\ \A k \in DOMAIN r : (k \in DOMAIN records[i] /\ r[k] = records[i][k]) \/ r[k] \in log[i].cities
    <2>1. records[i] \in Seq(Cities)
      BY ONLY <1>3, i \in 1 .. n
    <2>2. CASE r = records[i]
      BY ONLY <2>1, <2>2
    <2>3. ASSUME NEW city \in log[i].cities, r = Append(records[i], city)
          PROVE  /\ Len(records[i]) \in Nat /\ Len(r) \in Nat /\ Len(r) <= Len(records[i]) + 1
                 /\ \A k \in DOMAIN r : \/ k \in DOMAIN records[i] /\ r[k] = records[i][k]
                                        \/ r[k] \in log[i].cities
      <3>1. /\ Len(records[i]) \in Nat /\ Len(r) = Len(records[i]) + 1
            /\ \A k \in DOMAIN r : (k \in DOMAIN records[i] /\ r[k] = records[i][k]) \/ r[k] = city
        <4>1. \A S : records[i] \in Seq(S) /\ city \in S =>
                  /\ Len(records[i]) \in Nat /\ Len(r) = Len(records[i]) + 1
                  /\ \A k \in DOMAIN r : (k \in DOMAIN records[i] /\ r[k] = records[i][k]) \/ r[k] = city
          BY ONLY <2>3
        <4>2. city \in Cities
          BY ONLY <1>3, i \in 1 .. n, city \in log[i].cities, Zenon
        <4> QED
          BY ONLY <2>1, <4>1, <4>2, Zenon
      <3>2. Len(r) \in Nat /\ Len(r) <= Len(records[i]) + 1
        BY ONLY <3>1
      <3> QED
        BY ONLY <3>1, <3>2, city \in log[i].cities, Zenon
    <2> QED
      BY ONLY <1>7, <2>2, <2>3, Zenon
  <1>11. Kept(log, records)'
    <2>1. ASSUME NEW j \in 1 .. n, NEW k \in DOMAIN records'[j]
          PROVE  records'[j][k] \in log'[j].cities
      <3>1. CASE j = i
        BY ONLY <1>1, <1>4, <1>8, <1>10, <3>1, k \in DOMAIN records'[j], j \in 1 .. n, Zenon DEF Kept
      <3>2. CASE j # i
        BY ONLY <1>1, <1>4, <1>8, <3>2, k \in DOMAIN records'[j], j \in 1 .. n, Zenon DEF Kept
      <3> QED
        BY ONLY <3>1, <3>2, Zenon
    <2> QED
      BY ONLY <1>2, <1>4, <1>8, <2>1, Zenon DEF Kept
  <1>12. CopiesInv'
    <2>1. Due' = Due /\ Due \in 0 .. 1
      BY ONLY <1>4 DEF Due
    <2>2. Waits(i) = 1 /\ Waits(i)' = 0
      BY ONLY <1>4, <1>5, <1>6, Zenon DEF Waits
    <2>3. ASSUME NEW j \in 1 .. n
          PROVE  Waits(j)' \in 0 .. 1 /\ Waits(j) \in 0 .. 1 /\ Waits(j)' <= Waits(j)
      <3>1. j >= i + 1 => j >= i
        BY ONLY n \in Nat, i \in 1 .. n, j \in 1 .. n
      <3>2. Waits(j)' = IF j >= i + 1 THEN 1 ELSE 0
        BY ONLY <1>4, <1>5, <1>6, Zenon DEF Waits
      <3>3. Waits(j) = IF j >= i THEN 1 ELSE 0
        BY ONLY <1>5, <1>6, Zenon DEF Waits
      <3> QED
        BY ONLY <3>1, <3>2, <3>3
    <2>4. ASSUME NEW j \in 1 .. n, log[j].age <= Window
          PROVE  Len(records'[j]) + Waits(j)' + Due' <= log[j].age + 1
      <3>1. Len(records[j]) + Waits(j) + Due <= log[j].age + 1 /\ log[j].age \in Nat
        BY ONLY <1>1, <1>3, <2>4, j \in 1 .. n, Zenon DEF CopiesInv
      <3>2. Len(records[j]) \in Nat
        BY ONLY <1>3, j \in 1 .. n
      <3>3. CASE j = i
        <4>1. Len(records'[j]) = Len(r) /\ Waits(j) = 1 /\ Waits(j)' = 0
          BY ONLY <1>8, <2>2, <3>3, Zenon
        <4>2. Len(r) <= Len(records[j]) + 1 /\ Len(r) \in Nat
          BY ONLY <1>10, <3>3, Zenon
        <4>3. PICK a \in Nat, b \in Nat, d \in 0 .. 1, z \in Nat :
                  a = Len(r) /\ b = Len(records[j]) /\ d = Due /\ z = log[j].age
          BY ONLY <2>1, <3>1, <3>2, <4>2, Zenon
        <4>4. a + 0 + d <= z + 1
          <5>1. a <= b + 1 /\ b + 1 + d <= z + 1
            BY ONLY <3>1, <4>1, <4>2, <4>3, Zenon
          <5> QED
            BY ONLY <5>1, a \in Nat, b \in Nat, d \in 0 .. 1, z \in Nat
        <4> QED
          BY ONLY <2>1, <4>1, <4>3, <4>4, Zenon
      <3>4. CASE j # i
        <4>1. records'[j] = records[j]
          BY ONLY <1>8, <3>4, j \in 1 .. n, Zenon
        <4>2. Waits(j)' \in 0 .. 1 /\ Waits(j) \in 0 .. 1 /\ Waits(j)' <= Waits(j)
          BY ONLY <2>3, j \in 1 .. n, Zenon
        <4>3. PICK a \in Nat, d \in 0 .. 1, z \in Nat, u \in 0 .. 1, v \in 0 .. 1 :
                  a = Len(records[j]) /\ d = Due /\ z = log[j].age /\ u = Waits(j)' /\ v = Waits(j)
          BY ONLY <2>1, <3>1, <3>2, <4>2, Zenon
        <4>4. a + u + d <= z + 1
          <5>1. u <= v /\ a + v + d <= z + 1
            BY ONLY <3>1, <4>2, <4>3, Zenon
          <5> QED
            BY ONLY <5>1, a \in Nat, d \in 0 .. 1, z \in Nat, u \in 0 .. 1, v \in 0 .. 1
        <4> QED
          BY ONLY <2>1, <4>1, <4>3, <4>4, Zenon
      <3> QED
        BY ONLY <3>3, <3>4, Zenon
    <2>5. ~readDue'
      BY ONLY <1>1, <1>4, <1>5, <1>6, Zenon DEF CopiesInv
    <2> QED
      BY ONLY <1>3, <1>4, <2>4, <2>5, Zenon DEF CopiesInv
  <1> QED
    BY ONLY <1>1, <1>4, <1>9, <1>11, <1>12, ReportsRest, ZenonT(60) DEF MileInv, LogInv

\* The averages of the recent records become a report.
LEMMA CalculateStep ==
    ASSUME MileInv, Calculate
    PROVE  MileInv'
  <1>1. LogType /\ Kept(log, records) /\ CopiesInv /\ ReportsInv
    BY Zenon DEF MileInv, LogInv
  <1>2. /\ records' = T!Valid /\ UNCHANGED <<log, reading, readDue>> /\ late' = late
        /\ post' = None \/ post' = T!Congestion(T!Valid)
        /\ UNCHANGED aggregateVars
    BY Zenon DEF Calculate, T!Calculate, netVars
  <1>3. /\ Kept(log, T!Valid)
        /\ \A i \in DOMAIN log : T!Valid[i] = records[i] \/ T!Valid[i] = <<>>
    BY ONLY <1>1, ValidKept, Zenon
  <1>4. Kept(log, records)'
    BY ONLY <1>2, <1>3, Zenon
  <1>5. LogType'
    BY ONLY <1>1, <1>2, <1>4, Zenon DEF LogType, Kept
  <1>6. Measured(log, T!Congestion(T!Valid)) /\ Measured(log, None)
    <2>1. Measured(log, None)
      BY Zenon DEF Measured
    <2> QED
      BY ONLY <1>1, <1>3, <2>1, CongestionMeasured, Zenon
  <1>7. SentInv'
    BY ONLY <1>1, <1>2, <1>6, Zenon DEF ReportsInv, SentInv
  <1>8. CopiesInv'
    <2>1. Due' = Due /\ Due \in 0 .. 1
      BY ONLY <1>2 DEF Due
    <2>2. \A i : Waits(i)' = Waits(i) /\ Waits(i) \in 0 .. 1
      <3>1. \A i : Waits(i)' = Waits(i)
        BY ONLY <1>2, Zenon DEF Waits
      <3> QED
        BY ONLY <3>1, WaitsOnce, Zenon
    <2>3. ASSUME NEW i \in DOMAIN log, log[i].age <= Window
          PROVE  Len(records'[i]) + Waits(i)' + Due' <= log[i].age + 1
      <3>1. Len(records[i]) + Waits(i) + Due <= log[i].age + 1
        BY ONLY <1>1, <2>3, i \in DOMAIN log, Zenon DEF CopiesInv
      <3>2. i \in 1 .. Len(log) /\ log[i].age \in Nat
        BY ONLY <1>1, LogLines, i \in DOMAIN log, Zenon
      <3>3. records \in Seq(Seq(Cities)) /\ Len(records) = Len(log)
        BY ONLY <1>1, Zenon DEF LogType
      <3>4. Len(records[i]) \in Nat
        BY ONLY <3>2, <3>3
      <3>5. PICK a \in Nat, d \in 0 .. 1, z \in Nat, u \in 0 .. 1 :
                a = Len(records[i]) /\ d = Due /\ z = log[i].age /\ u = Waits(i)
        BY ONLY <2>1, <2>2, <3>2, <3>4, Zenon
      <3>6. a + u + d <= z + 1
        BY ONLY <3>1, <3>5, Zenon
      <3>7. 0 + u + d <= z + 1 /\ Len(<<>>) = 0
        BY ONLY <3>6, a \in Nat, d \in 0 .. 1, z \in Nat, u \in 0 .. 1
      <3> QED
        BY ONLY <1>2, <1>3, <2>1, <2>2, <3>5, <3>6, <3>7, i \in DOMAIN log, Zenon
    <2> QED
      BY ONLY <1>1, <1>2, <2>3, Zenon DEF CopiesInv
  <1>9. Later(log, log')
    BY ONLY <1>2, LaterSame, Zenon
  <1> QED
    BY ONLY <1>1, <1>2, <1>4, <1>5, <1>7, <1>8, <1>9, CachesLater, Zenon DEF MileInv, LogInv, ReportsInv

-----------------------------------------------------------------------------
\* The steps of the control plane, and the reports between the two.

LEMMA LogRests ==
    ASSUME LogInv, UNCHANGED <<log, reading, records, readDue>>
    PROVE  LogInv'
  BY Zenon DEF LogInv, LogType, Kept, CopiesInv, Waits, Due

LEMMA ValuesHave == None \in Values /\ Reports \subseteq Values /\ A!NoReports \in [Nodes -> Values]
  <1>1. None \in Values /\ Reports \subseteq Values
    BY Zenon DEF Values
  <1> QED
    BY <1>1, Zenon DEF A!NoReports

\* etcd stores a value under a key and tells the watch of it.
LEMMA ChangeStores ==
    ASSUME AggregateType, StoreInv, CacheInv, log' = log,
           NEW n \in Nodes, NEW type \in {"CREATE", "UPDATE", "DELETE"}, NEW value \in Values,
           n = Here => Measured(log, value), A!Change(n, type, value)
    PROVE  AggregateType' /\ StoreInv' /\ CacheInv'
  <1>1. /\ store' = [store EXCEPT ![n] = value]
        /\ events' = events \/ events' = Append(events, [node |-> n, type |-> type, value |-> value])
        /\ UNCHANGED <<nodeLast, rebuilds, edgeAgg>>
    BY Zenon DEF A!Change
  <1>2. /\ store \in [Nodes -> Values] /\ events \in Seq(Events) /\ Here \in Nodes
    BY LastMileAssumption, Zenon DEF AggregateType
  <1>3. /\ store' \in [Nodes -> Values]
        /\ store'[Here] = store[Here] \/ (n = Here /\ store'[Here] = value)
    BY ONLY <1>1, <1>2, n \in Nodes, value \in Values, Zenon
  <1>4. PICK e : e = [node |-> n, type |-> type, value |-> value]
    BY Zenon
  <1>5. e \in Events /\ e.node = n /\ e.value = value
    BY ONLY <1>4, n \in Nodes, value \in Values, type \in {"CREATE", "UPDATE", "DELETE"}, Zenon DEF Events
  <1>6. /\ events' \in Seq(Events)
        /\ \A x \in DOMAIN events' : (x \in DOMAIN events /\ events'[x] = events[x]) \/ events'[x] = e
    <2>1. CASE events' = events
      BY ONLY <1>2, <2>1, Zenon
    <2>2. CASE events' = Append(events, e)
      BY ONLY <1>2, <1>5, <2>2
    <2> QED
      BY ONLY <1>1, <1>4, <2>1, <2>2, Zenon
  <1>7. AggregateType'
    BY ONLY <1>1, <1>3, <1>6, AggregateType, Zenon DEF AggregateType
  <1>8. Measured(log, store'[Here])
    BY <1>3, Zenon DEF StoreInv
  <1>9. ASSUME NEW x \in DOMAIN events', events'[x].node = Here PROVE Measured(log, events'[x].value)
    BY ONLY <1>5, <1>6, <1>9, x \in DOMAIN events', StoreInv, n = Here => Measured(log, value), Zenon
       DEF StoreInv
  <1>10. StoreInv'
    BY ONLY <1>8, <1>9, log' = log, Zenon DEF StoreInv
  <1>11. CacheInv'
    BY ONLY <1>1, log' = log, CacheInv, Zenon DEF CacheInv
  <1> QED
    BY ONLY <1>7, <1>10, <1>11, Zenon

LEMMA PutStores ==
    ASSUME AggregateType, StoreInv, CacheInv, log' = log,
           NEW report, report # None, Measured(log, report), A!Put(Here, report)
    PROVE  AggregateType' /\ StoreInv' /\ CacheInv'
  <1>1. report \in Values /\ Here \in Nodes
    BY LastMileAssumption, ValuesHave, Zenon DEF Measured
  <1>2. PICK type \in {"CREATE", "UPDATE", "DELETE"} : A!Change(Here, type, report)
    <2>1. A!Change(Here, "CREATE", report) \/ A!Change(Here, "UPDATE", report)
      BY Zenon DEF A!Put
    <2> QED
      BY <2>1, Zenon
  <1> QED
    BY <1>1, <1>2, ChangeStores, Zenon

\* A report arrives, is lost, is late, or arrives late; a key of another node expires.
LEMMA DeliverStep ==
    ASSUME MileInv, Deliver
    PROVE  MileInv'
  <1>1. LogInv /\ AggregateType /\ SentInv /\ StoreInv /\ CacheInv
    BY Zenon DEF MileInv, ReportsInv
  <1>2. /\ post # None /\ post' = None /\ UNCHANGED <<log, reading, records, readDue>> /\ late' = late
        /\ A!Put(Here, post)
    BY Zenon DEF Deliver, T!Posted, netVars
  <1>3. PICK r : r = post
    BY Zenon
  <1>4. A!Put(Here, r)
    BY ONLY <1>2, <1>3, Zenon DEF A!Put, A!Change
  <1>5. r # None /\ Measured(log, r) /\ log' = log
    BY ONLY <1>1, <1>2, <1>3, Zenon DEF SentInv
  <1>6. AggregateType' /\ StoreInv' /\ CacheInv'
    BY ONLY <1>1, <1>4, <1>5, PutStores, Zenon
  <1>7. SentInv'
    BY ONLY <1>1, <1>2, Zenon DEF SentInv, Measured
  <1>8. LogInv'
    BY ONLY <1>1, <1>2, LogRests, Zenon
  <1> QED
    BY ONLY <1>6, <1>7, <1>8, Zenon DEF MileInv, ReportsInv

LEMMA GiveUpStep ==
    ASSUME MileInv, GiveUp
    PROVE  MileInv'
  <1>1. LogInv /\ ReportsInv
    BY Zenon DEF MileInv
  <1>2. /\ UNCHANGED <<log, reading, records, readDue>> /\ late' = post /\ post' = None
        /\ UNCHANGED aggregateVars
    BY Zenon DEF GiveUp, T!Posted
  <1>3. Later(log, log')
    BY ONLY <1>2, LaterSame, Zenon
  <1>4. SentInv'
    BY ONLY <1>1, <1>2, Zenon DEF ReportsInv, SentInv, Measured
  <1>5. LogInv'
    BY ONLY <1>1, <1>2, LogRests, Zenon
  <1> QED
    BY ONLY <1>1, <1>2, <1>3, <1>4, <1>5, CachesLater, Zenon DEF MileInv, ReportsInv

LEMMA DeliverLateStep ==
    ASSUME MileInv, DeliverLate
    PROVE  MileInv'
  <1>1. LogInv /\ AggregateType /\ SentInv /\ StoreInv /\ CacheInv
    BY Zenon DEF MileInv, ReportsInv
  <1>2. /\ late # None /\ late' = None /\ UNCHANGED <<log, reading, records, readDue>> /\ post' = post
        /\ A!Put(Here, late)
    BY Zenon DEF DeliverLate, telemetryVars
  <1>3. PICK r : r = late
    OBVIOUS
  <1>4. A!Put(Here, r)
    BY ONLY <1>2, <1>3, Zenon DEF A!Put, A!Change
  <1>5. r # None /\ Measured(log, r) /\ log' = log
    BY ONLY <1>1, <1>2, <1>3, Zenon DEF SentInv
  <1>6. AggregateType' /\ StoreInv' /\ CacheInv'
    BY ONLY <1>1, <1>4, <1>5, PutStores, Zenon
  <1>7. SentInv'
    BY ONLY <1>1, <1>2, Zenon DEF SentInv, Measured
  <1>8. LogInv'
    BY ONLY <1>1, <1>2, LogRests, Zenon
  <1> QED
    BY ONLY <1>6, <1>7, <1>8, Zenon DEF MileInv, ReportsInv

LEMMA ExpireStep ==
    ASSUME MileInv, Expire
    PROVE  MileInv'
  <1>1. LogInv /\ AggregateType /\ SentInv /\ StoreInv /\ CacheInv
    BY Zenon DEF MileInv, ReportsInv
  <1>2. PICK n \in Nodes \ {Here} : A!Expire(n) /\ UNCHANGED <<telemetryVars, netVars>>
    BY Zenon DEF Expire
  <1>3. /\ UNCHANGED <<log, reading, records, readDue>> /\ UNCHANGED <<post, late>>
        /\ A!Change(n, "DELETE", None)
    BY ONLY <1>2, Zenon DEF A!Expire, telemetryVars, netVars
  <1>4. n \in Nodes /\ n # Here /\ None \in Values /\ "DELETE" \in {"CREATE", "UPDATE", "DELETE"}
        /\ log' = log
    BY ONLY <1>3, n \in Nodes \ {Here}, ValuesHave, Zenon
  <1>5. AggregateType' /\ StoreInv' /\ CacheInv'
    BY ONLY <1>1, <1>3, <1>4, ChangeStores, Zenon
  <1>6. SentInv'
    BY ONLY <1>1, <1>3, Zenon DEF SentInv
  <1>7. LogInv'
    BY ONLY <1>1, <1>3, LogRests, Zenon
  <1> QED
    BY ONLY <1>5, <1>6, <1>7, Zenon DEF MileInv, ReportsInv

\* The control plane starts: it loads what etcd holds, or nothing.
LEMMA StartStep ==
    ASSUME MileInv, Start
    PROVE  MileInv'
  <1>1. LogInv /\ AggregateType /\ SentInv /\ StoreInv /\ CacheInv
    BY Zenon DEF MileInv, ReportsInv
  <1>2. /\ UNCHANGED <<log, reading, records, readDue>> /\ UNCHANGED <<post, late>>
        /\ UNCHANGED <<store, events, rebuilds>>
        /\ \/ nodeLast' \in {store, A!NoReports} /\ edgeAgg' = A!Rebuilt(nodeLast')
           \/ nodeLast' = nodeLast /\ edgeAgg' = edgeAgg
    BY Zenon DEF Start, A!LoadReports, A!WatchPrefix, telemetryVars, netVars
  <1>3. ASSUME nodeLast' \in {store, A!NoReports}, edgeAgg' = A!Rebuilt(nodeLast')
        PROVE  AggregateType' /\ CacheInv'
    <2>1. PICK last : last = nodeLast'
      BY Zenon
    <2>2. last \in [Nodes -> Values] /\ Measured(log, last[Here])
      <3>1. CASE last = store
        BY ONLY <1>1, <3>1, Zenon DEF AggregateType, StoreInv
      <3>2. CASE last = A!NoReports
        <4>1. Here \in Nodes
          BY LastMileAssumption, Zenon
        <4>2. A!NoReports[Here] = None
          BY ONLY <4>1, Zenon DEF A!NoReports
        <4> QED
          BY ONLY <3>2, <4>2, ValuesHave, Zenon DEF Measured
      <3> QED
        BY ONLY <1>3, <2>1, <3>1, <3>2, Zenon
    <2>3. \A k \in DOMAIN A!Rebuilt(last) : k[2] = Here => Between(log, k[1], A!Rebuilt(last)[k].avg)
      BY ONLY <2>2, RebuiltMeasured, Zenon
    <2>4. AggregateType'
      BY ONLY <1>1, <1>2, <2>1, <2>2, Zenon DEF AggregateType
    <2>5. edgeAgg' = A!Rebuilt(last)
      BY ONLY <1>3, <2>1, Zenon
    <2>6. CacheInv'
      BY ONLY <1>1, <1>2, <2>1, <2>2, <2>3, <2>5, Zenon DEF CacheInv
    <2> QED
      BY ONLY <2>4, <2>6, Zenon
  <1>4. ASSUME nodeLast' = nodeLast, edgeAgg' = edgeAgg
        PROVE  AggregateType' /\ CacheInv'
    BY ONLY <1>1, <1>2, <1>4, Zenon DEF AggregateType, CacheInv
  <1>5. AggregateType' /\ CacheInv'
    BY ONLY <1>2, <1>3, <1>4, Zenon
  <1>6. SentInv' /\ StoreInv'
    BY ONLY <1>1, <1>2, Zenon DEF SentInv, StoreInv
  <1>7. LogInv'
    BY ONLY <1>1, <1>2, LogRests, Zenon
  <1> QED
    BY ONLY <1>5, <1>6, <1>7, Zenon DEF MileInv, ReportsInv

\* What a rebuild becomes: one that has listed nothing, or what the cache holds.
LEMMA RebuildsKeep ==
    ASSUME AggregateType, CacheInv, NEW g, NEW step \in {"idle", "started", "listed"}, NEW last \in [Nodes -> Values],
           Measured(log, last[Here]), log' = log,
           rebuilds' = [rebuilds EXCEPT ![g] = A!Rebuild(step, last)]
    PROVE  /\ rebuilds' \in [Rebuilders -> [step : {"idle", "started", "listed"}, listed : [Nodes -> Values]]]
           /\ \A h \in Rebuilders : Measured(log', rebuilds'[h].listed[Here])
  <1>1. PICK b : b = A!Rebuild(step, last)
    BY Zenon
  <1>2. b \in [step : {"idle", "started", "listed"}, listed : [Nodes -> Values]] /\ b.listed = last
    BY ONLY <1>1, step \in {"idle", "started", "listed"}, last \in [Nodes -> Values], Zenon DEF A!Rebuild
  <1>3. rebuilds \in [Rebuilders -> [step : {"idle", "started", "listed"}, listed : [Nodes -> Values]]]
    BY Zenon DEF AggregateType
  <1>4. PICK R : R = [step : {"idle", "started", "listed"}, listed : [Nodes -> Values]]
    BY Zenon
  <1>5. rebuilds \in [Rebuilders -> R] /\ b \in R /\ rebuilds' = [rebuilds EXCEPT ![g] = b]
    BY <1>1, <1>2, <1>3, <1>4, Zenon
  <1>6. rebuilds' \in [Rebuilders -> R] /\ \A h \in Rebuilders : rebuilds'[h] = rebuilds[h] \/ rebuilds'[h] = b
    BY ONLY <1>5, Zenon
  <1>7. ASSUME NEW h \in Rebuilders PROVE Measured(log', rebuilds'[h].listed[Here])
    <2>1. CASE rebuilds'[h] = rebuilds[h]
      BY ONLY <2>1, h \in Rebuilders, CacheInv, log' = log, Zenon DEF CacheInv
    <2>2. CASE rebuilds'[h] = b
      BY ONLY <2>2, <1>2, Measured(log, last[Here]), log' = log, Zenon
    <2> QED
      BY <1>6, <2>1, <2>2, Zenon
  <1> QED
    BY ONLY <1>4, <1>6, <1>7, Zenon

LEMMA NoneMeasured == A!NoReports \in [Nodes -> Values] /\ Measured(log, A!NoReports[Here])
  <1>1. Here \in Nodes
    BY LastMileAssumption, Zenon
  <1>2. A!NoReports[Here] = None
    BY ONLY <1>1, Zenon DEF A!NoReports
  <1> QED
    BY ONLY <1>2, ValuesHave, Zenon DEF Measured

\* The watcher takes an event into the cache and starts a rebuild.
LEMMA HandleStep ==
    ASSUME MileInv, Handle
    PROVE  MileInv'
  <1>1. LogInv /\ AggregateType /\ SentInv /\ StoreInv /\ CacheInv
    BY Zenon DEF MileInv, ReportsInv
  <1>2. PICK e, next : /\ e = Head(events) /\ events # <<>> /\ events' = Tail(events)
                       /\ nodeLast' = IF e.type = "DELETE" THEN nodeLast ELSE [nodeLast EXCEPT ![e.node] = e.value]
                       /\ rebuilds' = IF A!Rebuilds(e)
                                      THEN [rebuilds EXCEPT ![next] = A!Rebuild("started", A!NoReports)]
                                      ELSE rebuilds
                       /\ UNCHANGED <<store, edgeAgg>>
    BY Zenon DEF Handle, A!HandleLastWatchEvent
  <1>3. UNCHANGED <<log, reading, records, readDue>> /\ UNCHANGED <<post, late>>
    BY Zenon DEF Handle, telemetryVars, netVars
  <1>4. events \in Seq(Events) /\ store \in [Nodes -> Values] /\ nodeLast \in [Nodes -> Values]
    BY ONLY <1>1, Zenon DEF AggregateType
  <1>5. /\ events' \in Seq(Events)
        /\ 1 \in DOMAIN events /\ e = events[1] /\ e \in Events
        /\ \A x \in DOMAIN events' : x + 1 \in DOMAIN events /\ events'[x] = events[x + 1]
    BY ONLY <1>2, <1>4
  <1>6. Measured(log, e.value) \/ e.node # Here
    BY ONLY <1>1, <1>5, Zenon DEF StoreInv
  <1>7. e.node \in Nodes /\ e.value \in Values
    BY ONLY <1>5, Zenon DEF Events
  <1>8. nodeLast' \in [Nodes -> Values] /\ Measured(log, nodeLast'[Here])
    <2>1. CASE e.type = "DELETE"
      BY ONLY <1>1, <1>2, <1>4, <2>1, Zenon DEF CacheInv
    <2>2. CASE e.type # "DELETE"
      <3>1. nodeLast' = [nodeLast EXCEPT ![e.node] = e.value]
        BY ONLY <1>2, <2>2, Zenon
      <3>2. Here \in Nodes
        BY LastMileAssumption
      <3>3. PICK n, v : n = e.node /\ v = e.value
        BY Zenon
      <3>4. nodeLast' = [nodeLast EXCEPT ![n] = v] /\ n \in Nodes /\ v \in Values
        BY ONLY <1>7, <3>1, <3>3, Zenon
      <3>5. /\ nodeLast' \in [Nodes -> Values]
            /\ nodeLast'[Here] = IF Here = n THEN v ELSE nodeLast[Here]
        BY ONLY <1>4, <3>2, <3>4, Zenon
      <3> QED
        BY ONLY <1>1, <1>6, <3>3, <3>5, Zenon DEF CacheInv
    <2> QED
      BY ONLY <2>1, <2>2, Zenon
  <1>9. log' = log
    BY ONLY <1>3, Zenon
  <1>10. /\ rebuilds' \in [Rebuilders -> [step : {"idle", "started", "listed"}, listed : [Nodes -> Values]]]
         /\ \A h \in Rebuilders : Measured(log', rebuilds'[h].listed[Here])
    <2>1. CASE rebuilds' = rebuilds
      BY ONLY <1>1, <1>9, <2>1, Zenon DEF AggregateType, CacheInv
    <2>2. CASE rebuilds' = [rebuilds EXCEPT ![next] = A!Rebuild("started", A!NoReports)]
      BY ONLY <1>1, <1>9, <2>2, NoneMeasured, RebuildsKeep, Zenon
    <2> QED
      BY ONLY <1>2, <2>1, <2>2, Zenon
  <1>11. AggregateType'
    BY ONLY <1>2, <1>4, <1>5, <1>8, <1>10, Zenon DEF AggregateType
  <1>12. CacheInv'
    BY ONLY <1>1, <1>2, <1>8, <1>9, <1>10, Zenon DEF CacheInv
  <1>13. StoreInv'
    BY ONLY <1>1, <1>2, <1>5, <1>9, Zenon DEF StoreInv
  <1>14. SentInv'
    BY ONLY <1>1, <1>3, Zenon DEF SentInv
  <1>15. LogInv'
    BY ONLY <1>1, <1>3, LogRests, Zenon
  <1> QED
    BY ONLY <1>11, <1>12, <1>13, <1>14, <1>15, Zenon DEF MileInv, ReportsInv

\* A rebuild lists the reports, or replaces the aggregates by those of its list.
LEMMA RebuildStep ==
    ASSUME MileInv, NEW g \in Rebuilders, Rebuild(g)
    PROVE  MileInv'
  <1>1. LogInv /\ AggregateType /\ SentInv /\ StoreInv /\ CacheInv
    BY Zenon DEF MileInv, ReportsInv
  <1>2. /\ UNCHANGED <<log, reading, records, readDue>> /\ UNCHANGED <<post, late>>
        /\ A!ListReports(g) \/ A!Publish(g)
    BY Zenon DEF Rebuild, telemetryVars, netVars
  <1>3. UNCHANGED <<store, events, nodeLast>> /\ log' = log
    BY ONLY <1>2, Zenon DEF A!ListReports, A!Publish
  <1>4. /\ rebuilds' \in [Rebuilders -> [step : {"idle", "started", "listed"}, listed : [Nodes -> Values]]]
        /\ \A h \in Rebuilders : Measured(log', rebuilds'[h].listed[Here])
    <2>1. CASE A!ListReports(g)
      <3>1. rebuilds' = [rebuilds EXCEPT ![g] = A!Rebuild("listed", nodeLast)]
        BY ONLY <2>1, Zenon DEF A!ListReports
      <3>2. PICK last : last = nodeLast
        BY Zenon
      <3>3. last \in [Nodes -> Values] /\ Measured(log, last[Here])
        BY ONLY <1>1, <3>2, Zenon DEF AggregateType, CacheInv
      <3>4. rebuilds' = [rebuilds EXCEPT ![g] = A!Rebuild("listed", last)]
        BY ONLY <3>1, <3>2, Zenon DEF A!Rebuild
      <3> QED
        BY ONLY <1>1, <1>3, <3>3, <3>4, RebuildsKeep, Zenon
    <2>2. CASE A!Publish(g)
      <3>1. rebuilds' = [rebuilds EXCEPT ![g] = A!Rebuild("idle", A!NoReports)]
        BY ONLY <2>2, Zenon DEF A!Publish
      <3> QED
        BY ONLY <1>1, <1>3, <3>1, NoneMeasured, RebuildsKeep, Zenon
    <2> QED
      BY ONLY <1>2, <2>1, <2>2, Zenon
  <1>5. \A k \in DOMAIN edgeAgg' : k[2] = Here => Between(log', k[1], edgeAgg'[k].avg)
    <2>1. CASE A!ListReports(g)
      BY ONLY <1>1, <1>3, <2>1, Zenon DEF A!ListReports, CacheInv
    <2>2. CASE A!Publish(g)
      <3>1. PICK last : last = rebuilds[g].listed
        BY Zenon
      <3>2. edgeAgg' = A!Rebuilt(last)
        BY ONLY <2>2, <3>1, Zenon DEF A!Publish
      <3>3. last \in [Nodes -> Values]
        BY ONLY <1>1, <3>1, g \in Rebuilders, Zenon DEF AggregateType
      <3>4. Measured(log, last[Here])
        BY ONLY <1>1, <3>1, g \in Rebuilders, Zenon DEF CacheInv
      <3> QED
        BY ONLY <1>3, <3>2, <3>3, <3>4, RebuiltMeasured, Zenon
    <2> QED
      BY ONLY <1>2, <2>1, <2>2, Zenon
  <1>6. AggregateType' /\ StoreInv' /\ CacheInv'
    BY ONLY <1>1, <1>3, <1>4, <1>5, Zenon DEF AggregateType, StoreInv, CacheInv
  <1>7. SentInv'
    BY ONLY <1>1, <1>2, Zenon DEF SentInv
  <1>8. LogInv'
    BY ONLY <1>1, <1>2, LogRests, Zenon
  <1> QED
    BY ONLY <1>6, <1>7, <1>8, Zenon DEF MileInv, ReportsInv

LEMMA MileInit ==
    ASSUME Init
    PROVE  MileInv
  <1>1. /\ log = <<>> /\ reading = 0 /\ records = <<>> /\ post = None /\ readDue = FALSE
        /\ events = <<>> /\ nodeLast = A!NoReports /\ edgeAgg = <<>> /\ late = None
        /\ rebuilds = [g \in Rebuilders |-> A!Rebuild("idle", A!NoReports)]
        /\ store = [n \in Nodes |-> IF n = Here THEN None ELSE PeerReport]
    BY Zenon DEF Init, T!Init, A!Init
  <1>2. LogType
    <2>1. \A R : log \in Seq(R)
      BY ONLY <1>1
    <2>2. records \in Seq(Seq(Cities)) /\ Len(records) = Len(log)
      BY ONLY <1>1
    <2>3. reading \in Nat
      BY ONLY <1>1
    <2> QED
      BY ONLY <1>1, <2>1, <2>2, <2>3, Zenon DEF LogType
  <1>3. Kept(log, records) /\ CopiesInv
    BY ONLY <1>1 DEF Kept, CopiesInv
  <1>4. store \in [Nodes -> Values] /\ store[Here] = None
    <2>1. None \in Values /\ PeerReport \in Values /\ Here \in Nodes
      BY LastMileAssumption, Zenon DEF Values
    <2> QED
      BY ONLY <1>1, <2>1, Zenon
  <1>5. PICK b : b = A!Rebuild("idle", A!NoReports)
    BY Zenon
  <1>6. b \in [step : {"idle", "started", "listed"}, listed : [Nodes -> Values]] /\ b.listed = A!NoReports
    BY ONLY <1>5, NoneMeasured, Zenon DEF A!Rebuild
  <1>7. PICK R : R = [step : {"idle", "started", "listed"}, listed : [Nodes -> Values]]
    BY Zenon
  <1>8. b \in R /\ rebuilds = [g \in Rebuilders |-> b]
    BY ONLY <1>1, <1>5, <1>6, <1>7, Zenon
  <1>9. rebuilds \in [Rebuilders -> R] /\ \A g \in Rebuilders : rebuilds[g] = b
    BY ONLY <1>8, Zenon
  <1>10. events \in Seq(Events) /\ DOMAIN events = {} /\ DOMAIN edgeAgg = {}
    BY ONLY <1>1
  <1>11. AggregateType
    BY ONLY <1>1, <1>4, <1>7, <1>9, <1>10, NoneMeasured, Zenon DEF AggregateType
  <1>12. SentInv /\ StoreInv
    BY ONLY <1>1, <1>4, <1>10, Zenon DEF SentInv, StoreInv, Measured
  <1>13. CacheInv
    BY ONLY <1>1, <1>6, <1>9, <1>10, NoneMeasured, Zenon DEF CacheInv
  <1> QED
    BY ONLY <1>2, <1>3, <1>11, <1>12, <1>13, Zenon DEF MileInv, LogInv, ReportsInv

LEMMA MileStep ==
    ASSUME MileInv, [Next]_vars
    PROVE  MileInv'
  <1>1. CASE Tick
    BY <1>1, TickStep, Zenon
  <1>2. CASE Start
    BY <1>2, StartStep, Zenon
  <1>3. CASE Handle
    BY <1>3, HandleStep, Zenon
  <1>4. CASE Read
    BY <1>4, BeginReadStep, ReadLineStep, EndReadStep, Zenon DEF Read
  <1>5. CASE Calculate
    BY <1>5, CalculateStep, Zenon
  <1>6. CASE \E g \in Rebuilders : Rebuild(g)
    BY <1>6, RebuildStep, ZenonT(60)
  <1>7. CASE Log
    BY <1>7, LogStep, Zenon
  <1>8. CASE Deliver
    BY <1>8, DeliverStep, Zenon
  <1>9. CASE GiveUp
    BY <1>9, GiveUpStep, Zenon
  <1>10. CASE DeliverLate
    BY <1>10, DeliverLateStep, Zenon
  <1>11. CASE Expire
    BY <1>11, ExpireStep, Zenon
  <1>12. CASE ReadError
    BY <1>12, ReadErrorStep, Zenon
  <1>13. CASE UNCHANGED vars
    <2>1. /\ UNCHANGED <<log, reading, records, readDue>> /\ log' = log
          /\ UNCHANGED <<post, late>> /\ UNCHANGED aggregateVars
      BY ONLY <1>13, Zenon DEF vars, telemetryVars, netVars
    <2>2. LogInv /\ ReportsInv
      BY Zenon DEF MileInv
    <2> QED
      BY ONLY <2>1, <2>2, LogRests, ReportsRest, Zenon DEF MileInv
  <1> QED
    BY <1>1, <1>2, <1>3, <1>4, <1>5, <1>6, <1>7, <1>8, <1>9, <1>10, <1>11, <1>12, <1>13, ZenonT(60) DEF Next, Step

\* What the routes of the last mile are chosen by is what clients measured.  Whatever the
\* traffic, the cities, the size of the tail, and however reports are lost, overtaken,
\* stored late or rebuilt in the wrong order: the average that rebuildAggregate publishes
\* for a city at this node lies between connect times that the node's log has for that
\* city, and no recent line of the log is counted more than once for each tick of
\* readLatestLogs since, and once more.
THEOREM AggregatesMeasured == Spec => []AggregatesAreMeasured
  <1>1. Init => MileInv
    BY MileInit, Zenon
  <1>2. MileInv /\ [Next]_vars => MileInv'
    BY MileStep, Zenon
  <1>3. MileInv => AggregatesAreMeasured
    <2>1. SUFFICES ASSUME MileInv PROVE AggregatesAreMeasured
      BY Zenon
    <2>2. LogType /\ CopiesInv /\ CacheInv
      BY <2>1, Zenon DEF MileInv, LogInv, ReportsInv
    <2>3. ASSUME NEW k \in DOMAIN edgeAgg, k[2] = Here
          PROVE  LET lines == {i \in DOMAIN log : k[1] \in log[i].cities}
                     avg == edgeAgg[k].avg
                 IN  /\ \E i \in lines : T!Round(log[i].rt) * avg[2] <= avg[1]
                     /\ avg[1] <= avg[2] \/ \E i \in lines : avg[1] <= T!Round(log[i].rt) * avg[2]
      <3>1. Between(log, k[1], edgeAgg[k].avg)
        BY ONLY <2>2, <2>3, k \in DOMAIN edgeAgg, Zenon DEF CacheInv
      <3> QED
        BY ONLY <3>1, Zenon DEF Between
    <2>4. ASSUME NEW i \in DOMAIN log, log[i].age <= Window
          PROVE  Len(records[i]) <= log[i].age + 1
      <3>1. Len(records[i]) + Waits(i) + Due <= log[i].age + 1
        BY ONLY <2>2, <2>4, i \in DOMAIN log, Zenon DEF CopiesInv
      <3>2. Waits(i) \in Nat /\ Due \in Nat
        BY ONLY TRUE, Zenon DEF Waits, Due
      <3>3. PICK R : log \in Seq(R) /\ \A x \in R : x.age \in Nat
        <4>1. \A x \in [cities : SUBSET Cities, rt : Nat, age : Nat] : x.age \in Nat
          BY Zenon
        <4> QED
          BY ONLY <2>2, <4>1, Zenon DEF LogType
      <3>4. Len(records[i]) \in Nat /\ log[i].age \in Nat
        <4>1. log[i] \in R
          BY ONLY <3>3, i \in DOMAIN log
        <4>2. records \in Seq(Seq(Cities)) /\ Len(records) = Len(log)
          BY ONLY <2>2, Zenon DEF LogType
        <4>3. records[i] \in Seq(Cities)
          BY ONLY <3>3, <4>2, i \in DOMAIN log
        <4> QED
          BY ONLY <3>3, <4>1, <4>3
      <3>5. PICK l, w, d, a : l = Len(records[i]) /\ w = Waits(i) /\ d = Due /\ a = log[i].age
        BY Zenon
      <3>6. l \in Nat /\ w \in Nat /\ d \in Nat /\ a \in Nat /\ l + w + d <= a + 1
        BY ONLY <3>1, <3>2, <3>3, <3>4, <3>5, Zenon
      <3>7. l <= a + 1
        BY ONLY <3>6
      <3> QED
        BY ONLY <3>5, <3>7, Zenon
    <2> QED
      BY ONLY <2>3, <2>4, Zenon DEF AggregatesAreMeasured
  <1> QED
    BY <1>1, <1>2, <1>3, PTL DEF Spec

=============================================================================
