---------------------------- MODULE MCAggregator ----------------------------
(***************************************************************************)
(* Instances of Aggregator for TLC.  Times are milliseconds; batchMaxAge   *)
(* (60 s in the code) is scaled down to a few ticks.                       *)
(***************************************************************************)
EXTENDS Aggregator

CONSTANTS k1, k2

Message(id, key, port, len, emerge) ==
    [userID |-> id, routingKey |-> key, port |-> port, len |-> len, emerge |-> emerge]

\* Two messages fill a batch of BufferSize 300, the third overflows it.
OneKeyMsgs == {Message(i, k1, 80, 128, FALSE) : i \in 1 .. 3}

\* Two services of one origin behind different ports: a message for a batch, one
\* that fits in no batch, one small enough to be sent at once; and for another key
\* a UDP message too large for its packet.
FlowMsgs == {Message(1, k1, 80, 128, FALSE), Message(2, k1, 81, 400, FALSE),
             Message(3, k1, 81, 100, FALSE), Message(4, k2, 80, 400, TRUE)}

\* Behaviours in which the goroutines are fast: time passes only when the handler
\* and the timer have nothing to do.
Prompt == now' # now => hpc = "idle" /\ tpc = "idle" /\ \A b \in heap : deadline[b] > now
PromptSpec == Init /\ [][Next /\ Prompt]_vars

OneBucket == [p \in Ports |-> 1]
TwoBuckets == [p \in Ports |-> 2]

=============================================================================
