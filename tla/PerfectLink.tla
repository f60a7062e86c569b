----------------------------- MODULE PerfectLink -----------------------------
(* What a reliable channel promises (README.md, "Perfect Links"): a message is *)
(* handed to the receiver's callback at most once and only if it was sent, and *)
(* the sender's future shows a value only when the receiving end has taken the *)
(* message.  It may show an error once the channel is stopped, whatever became *)
(* of the message.                                                             *)
EXTENDS Naturals

CONSTANT Msg

VARIABLES
    outcome,    \* per message: "none" before it is sent, then what the future shows
    accepted,   \* messages the receiving end has taken
    callbacks   \* per message: calls of the receiver's callback

link == <<outcome, accepted, callbacks>>

Init ==
    /\ outcome = [m \in Msg |-> "none"]
    /\ accepted = {}
    /\ callbacks = [m \in Msg |-> 0]

Send(m) ==
    /\ outcome[m] = "none"
    /\ outcome' = [outcome EXCEPT ![m] = "pending"]
    /\ UNCHANGED <<accepted, callbacks>>

Accept(m) ==
    /\ outcome[m] # "none" /\ m \notin accepted
    /\ accepted' = accepted \union {m}
    /\ UNCHANGED <<outcome, callbacks>>

Deliver(m) ==
    /\ m \in accepted /\ callbacks[m] = 0
    /\ callbacks' = [callbacks EXCEPT ![m] = 1]
    /\ UNCHANGED <<outcome, accepted>>

Confirm(m) ==
    /\ m \in accepted /\ outcome[m] = "pending"
    /\ outcome' = [outcome EXCEPT ![m] = "value"]
    /\ UNCHANGED <<accepted, callbacks>>

\* Stop gives up all the messages that are still pending, or some of them.
Abandon(failed) ==
    /\ failed # {} /\ \A m \in failed : outcome[m] = "pending"
    /\ outcome' = [m \in Msg |-> IF m \in failed THEN "error" ELSE outcome[m]]
    /\ UNCHANGED <<accepted, callbacks>>

Next ==
    \/ \E m \in Msg : Send(m) \/ Accept(m) \/ Deliver(m) \/ Confirm(m)
    \/ \E failed \in SUBSET Msg : Abandon(failed)

Spec == Init /\ [][Next]_link
============================================================================
