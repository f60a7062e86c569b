------------------------- MODULE MCReliableChannel -------------------------
(* Instances of ReliableChannel for TLC: two endpoints, and one or two         *)
(* messages from one of them.                                                  *)
EXTENDS ReliableChannel

CONSTANTS a, b, m1, m2

FromOneEnd == [m \in Msg |-> a]

\* What is sent and stopped while the network fails so often, with the lengths of
\* error_policy and msg_policy.
Instance(faults, sends, stops, errors, retries) ==
    [faults |-> faults, sends |-> sends, stops |-> stops,
     error_retries |-> errors, msg_retries |-> retries]

\* One message, with a fault of any kind and with the sender stopped at any time;
\* and two messages that share the budget and the queue, undisturbed.
FaultAndStopOrTwo == {Instance(1, {m1}, {a}, 1, 1), Instance(0, {m1, m2}, {}, 1, 1)}

\* One message that is retried twice, with handlers that one error ends; and one
\* that is retried once, with handlers that survive an error and end with a
\* second one.
ErrorsEndHandlers == {Instance(1, {m1}, {}, 0, 2), Instance(2, {m1}, {}, 1, 1)}

NoFault == {Instance(0, {m1}, {}, 1, 1)}
============================================================================
