---------------------------- MODULE ProxyService ----------------------------
(***************************************************************************)
(* What an entry node promises to the clients of data-proxy, without ids,  *)
(* tables, tunnels or streams: a request that is taken is answered, once   *)
(* and with the answer to this very request, or told of a timeout, or      *)
(* dropped.  Nothing happens to it afterwards.  The process goes down only *)
(* after some request has timed out, and then nothing happens any more.    *)
(* EntryProxy implements it.                                               *)
(***************************************************************************)
CONSTANT Requests

VARIABLES
    status,  \* of each request: "new", "open", "answered", "timeout", "dropped"
    down     \* the process has ended

vars == <<status, down>>

Init == status = [r \in Requests |-> "new"] /\ down = FALSE

Become(r, from, to) ==
    /\ status[r] \in from
    /\ status' = [status EXCEPT ![r] = to]
    /\ UNCHANGED down

Take(r) == Become(r, {"new"}, "open")
Answer(r) == Become(r, {"open"}, "answered")
TimeOut(r) == Become(r, {"open"}, "timeout")
Drop(r) == Become(r, {"new", "open"}, "dropped")

Crash ==
    /\ \E r \in Requests : status[r] = "timeout"
    /\ down' = TRUE
    /\ UNCHANGED status

Next ==
    /\ ~down
    /\ Crash \/ \E r \in Requests : Take(r) \/ Answer(r) \/ TimeOut(r) \/ Drop(r)

\* What is taken comes to an end.
Ends == \A r \in Requests : status[r] = "open" ~> status[r] # "open" \/ down

Safe == Init /\ [][Next]_vars
Spec == Safe /\ Ends

=============================================================================
