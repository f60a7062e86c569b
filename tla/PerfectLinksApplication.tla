----------------------- MODULE PerfectLinksApplication -----------------------
(* The perfect links application (include/applications/perfect_links.hpp): a   *)
(* sender packs its payloads into messages, a batch of messages at a time, and *)
(* waits for a batch to be acknowledged; the receiver logs what the messages   *)
(* hold.  The link is module PerfectLink: each message is accepted, confirmed  *)
(* and delivered once, in any order.                                           *)
EXTENDS Naturals, Sequences, FiniteSets

CONSTANTS
    NumMessages,  \* run_config_.num_messages
    PerMessage,   \* payloads in a PerfectLinksMessage
    BatchSize     \* messages sent before waiting

VARIABLES
    current_payload,  \* of the sender
    acks,             \* futures of the batch the sender is at
    waiting,          \* the sender is in All(...).Get()
    accepted,         \* messages the receiver's channel has taken
    confirmed,        \* messages whose future is completed
    delivered,        \* messages handed to the receiver's callback
    sent_log,         \* 'b' lines of the sender
    received_log      \* 'd' lines of the receiver

vars == <<current_payload, acks, waiting, accepted, confirmed, delivered, sent_log, received_log>>

\* A message is named by its first payload and holds the next ones as well.
Payloads(message) == [i \in 1 .. PerMessage |-> message + i - 1]
Sent == {sent_log[i] : i \in {j \in DOMAIN sent_log : (j - 1) % PerMessage = 0}}

Init ==
    /\ current_payload = 1 /\ acks = {} /\ waiting = FALSE
    /\ accepted = {} /\ confirmed = {} /\ delivered = {}
    /\ sent_log = <<>> /\ received_log = <<>>

NextPayload(payload) == payload + PerMessage

Send ==
    /\ ~waiting /\ current_payload <= NumMessages /\ Cardinality(acks) < BatchSize
    /\ sent_log' = sent_log \o Payloads(current_payload)
    /\ acks' = acks \union {current_payload}
    /\ current_payload' = NextPayload(current_payload)
    /\ UNCHANGED <<waiting, accepted, confirmed, delivered, received_log>>

Await ==
    /\ ~waiting /\ acks # {}
    /\ current_payload > NumMessages \/ Cardinality(acks) = BatchSize
    /\ waiting' = TRUE
    /\ UNCHANGED <<current_payload, acks, accepted, confirmed, delivered, sent_log, received_log>>

AllConfirmed == acks \subseteq confirmed

Proceed ==
    /\ waiting /\ AllConfirmed
    /\ waiting' = FALSE
    /\ acks' = {}
    /\ UNCHANGED <<current_payload, accepted, confirmed, delivered, sent_log, received_log>>

\* The link.
Accept(m) == /\ m \in Sent \ accepted
             /\ accepted' = accepted \union {m}
             /\ UNCHANGED <<current_payload, acks, waiting, confirmed, delivered, sent_log, received_log>>
Confirm(m) == /\ m \in accepted \ confirmed
              /\ confirmed' = confirmed \union {m}
              /\ UNCHANGED <<current_payload, acks, waiting, accepted, delivered, sent_log, received_log>>

\* The receiver's callback.
Deliver(m) ==
    /\ m \in accepted \ delivered
    /\ delivered' = delivered \union {m}
    /\ received_log' = received_log \o Payloads(m)
    /\ UNCHANGED <<current_payload, acks, waiting, accepted, confirmed, sent_log>>

\* The sender has sent everything; RunAsSender stops its transport.
Finished == /\ current_payload > NumMessages /\ acks = {} /\ delivered = Sent
            /\ UNCHANGED vars

Next ==
    \/ Send \/ Await \/ Proceed \/ Finished
    \/ \E m \in Sent : Accept(m) \/ Confirm(m) \/ Deliver(m)

----------------------------------------------------------------------------
\* The payloads 1, 2, ..., n.
UpTo(n) == [i \in 1 .. n |-> i]

\* Config format of the documentation: "Sender processes send messages 1 to m in
\* order."
LogsOneToM == \E n \in 0 .. NumMessages : sent_log = UpTo(n)

\* What the code sends instead: the last message is filled up.
Filled == UpTo(PerMessage * ((NumMessages + PerMessage - 1) \div PerMessage))
============================================================================
