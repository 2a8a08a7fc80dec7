--------------------------- MODULE LastTelemetry ---------------------------
(***************************************************************************)
(* The latency reports of one data plane (data-plane/edge-domain).  The    *)
(* proxy writes the connect time of each client to its log; one goroutine  *)
(* reads the end of the log every five seconds, from the start of that end *)
(* each time, and appends what it reads to records; another averages the   *)
(* records of the last ten seconds per city, every five seconds, and sends *)
(* the averages to the control plane.                                      *)
(*                                                                         *)
(* Time passes in ticks of five seconds, the period of both tickers.  A    *)
(* ticker whose goroutine is busy holds one tick and drops the others.     *)
(* Records are kept per line of the log, for their order matters to        *)
(* nobody.  The p95 of a report is left out, for nothing reads it.         *)
(***************************************************************************)
EXTENDS Integers, Sequences

CONSTANTS
    Cities,
    Traffic,    \* what the clients' connections may log: a sequence of sets of
                \* [cities, rt], rt in tenths of a millisecond
    TailLines,  \* the lines that the end of the log holds (32 KB)
    Window,     \* ticks in which a record counts as recent (10 s)
    MaxCopies,  \* bound: records of each line, from which the end is not read again
    None

VARIABLES
    log,        \* the lines written: [cities, rt, age], age in ticks up to Window + 1
    reading,    \* the line that the pass under way reads next, 0 without a pass
    records,    \* for each line, the cities of the records made of it
    readDue,    \* a tick waits for tailFile
    reportDue,  \* a tick waits for LastTelemetryReporter
    post        \* the report being sent: city -> [count, avg]

Init ==
    /\ log = <<>> /\ reading = 0 /\ records = <<>> /\ post = None
    /\ readDue = FALSE /\ reportDue = FALSE

\* The proxy serves a client.
Log ==
    /\ Len(log) < Len(Traffic)
    /\ \E c \in Traffic[Len(log) + 1] :
           log' = Append(log, [cities |-> c.cities, rt |-> c.rt, age |-> 0])
    /\ records' = Append(records, <<>>)
    /\ UNCHANGED <<reading, readDue, reportDue, post>>

Tick ==
    /\ ~readDue /\ reading = 0 /\ (reportDue => post # None)
    /\ log' = [i \in DOMAIN log |-> [log[i] EXCEPT !.age = IF @ > Window THEN @ ELSE @ + 1]]
    /\ readDue' = TRUE /\ reportDue' = TRUE
    /\ UNCHANGED <<reading, records, post>>

-----------------------------------------------------------------------------
\* tailFile and readLatestLogs.

EndStart == IF Len(log) > TailLines THEN Len(log) - TailLines + 1 ELSE 1
LogEnd == EndStart .. Len(log)

\* On an idle node the same lines make records without end.  Once each has MaxCopies,
\* the model has the log fail to open until there is a new line.
ReadEnough == \A i \in LogEnd : log[i].cities = {} \/ Len(records[i]) >= MaxCopies

\* Open, Stat and Seek to the end of the log as it is now.
BeginRead ==
    /\ readDue /\ reading = 0 /\ ~ReadEnough
    /\ readDue' = FALSE /\ reading' = EndStart
    /\ UNCHANGED <<log, records, reportDue, post>>

\* One of the three fails.
ReadError ==
    /\ readDue /\ reading = 0
    /\ readDue' = FALSE
    /\ UNCHANGED <<log, reading, records, reportDue, post>>

\* A line becomes a record.  GetIPInfo finds no city for some addresses, which are
\* passed over, and any of several where more than one override prefix matches.
ReadLine ==
    /\ reading \in DOMAIN log
    /\ reading' = reading + 1
    /\ records' \in IF log[reading].cities = {} THEN {records}
                    ELSE {[records EXCEPT ![reading] = Append(@, city)] : city \in log[reading].cities}
    /\ UNCHANGED <<log, readDue, reportDue, post>>

\* scanner.Scan finds no further line, those written during the pass included.
EndRead ==
    /\ reading > Len(log)
    /\ reading' = 0
    /\ UNCHANGED <<log, records, readDue, reportDue, post>>

-----------------------------------------------------------------------------
\* calculateLastCongestion and SendLastTelemetry.

Only(rs, lines) == [i \in DOMAIN rs |-> IF i \in lines THEN rs[i] ELSE <<>>]
Recent == {i \in DOMAIN log : log[i].age <= Window /\ records[i] # <<>>}

\* Mutant: without a recent record there is nothing to report.
Valid_RecentOnly == Only(records, Recent)

\* The recent records, or all when there is none.
Valid == IF Recent # {} THEN Only(records, Recent) ELSE records

\* math.Round to whole milliseconds.
Round(rt) == (rt + 5) \div 10

\* The sum of a sequence of numbers.
Sum(s) ==
    LET total[i \in 0 .. Len(s)] == IF i = 0 THEN 0 ELSE total[i - 1] + s[i]
    IN  total[Len(s)]

\* The records of a line that are of this city.
Copies(rs, i, city) == Sum([k \in DOMAIN rs[i] |-> IF rs[i][k] = city THEN 1 ELSE 0])

\* Count, and AvgRT as a fraction; an average of zero becomes one.
Stats(rs, city) ==
    LET sum == Sum([i \in DOMAIN rs |-> Copies(rs, i, city) * Round(log[i].rt)])
        count == Sum([i \in DOMAIN rs |-> Copies(rs, i, city)])
    IN  [count |-> count, avg |-> IF sum <= 0 THEN <<1, 1>> ELSE <<sum, count>>]

Congestion(rs) ==
    [city \in UNION {{rs[i][k] : k \in DOMAIN rs[i]} : i \in DOMAIN rs} |-> Stats(rs, city)]

\* Nothing is sent when there is nothing to report.
Calculate ==
    /\ reportDue /\ post = None
    /\ reportDue' = FALSE
    /\ records' = Valid
    /\ post' = LET c == Congestion(Valid) IN IF DOMAIN c = {} THEN None ELSE c
    /\ UNCHANGED <<log, reading, readDue>>

\* The control plane answered, or the client gave up; the report is not kept.
Posted ==
    /\ post # None
    /\ post' = None
    /\ UNCHANGED <<log, reading, records, readDue, reportDue>>

=============================================================================
