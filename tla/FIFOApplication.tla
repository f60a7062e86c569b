--------------------------- MODULE FIFOApplication ---------------------------
(* The FIFO broadcast application (include/applications/fifo.hpp): the main    *)
(* thread packs the payloads 1 .. NumMessages into messages, logs and          *)
(* broadcasts them, a batch at a time, and waits for a batch to be delivered;  *)
(* the delivery callback, in the strand of the packet batcher, logs what the   *)
(* messages of all processes hold.  Both write to one log, under log_mutex.    *)
(*                                                                             *)
(* FIFO broadcast is module FIFOBroadcast: the messages of each source are     *)
(* delivered once and in order.  It completes the future of a broadcast before *)
(* it calls the callback (FIFOBroadcast::Deliver).                             *)
EXTENDS Naturals, Sequences

CONSTANTS
    NumMessages,       \* run_config_.num_messages
    kNumMessages,      \* payloads in one message
    NetworkSize,       \* at least 2: the limiter divides by NetworkSize - 1
    kLinkPacketLimit

VARIABLES
    current_payload,  \* of the main thread
    current_fire,     \* current_fire_ of the limiter
    pc,               \* "log", "submit" a logged message, or "wait" in All(...).Get()
    futures,          \* own messages whose futures the main thread waits for
    num_broadcast,    \* own messages broadcast
    num_completed,    \* own messages whose future is completed
    num_delivered,    \* per source: messages handed to the callback
    output            \* the log

main == <<current_payload, current_fire, pc, futures, num_broadcast>>
vars == <<main, num_completed, num_delivered, output>>

\* This process, and a peer that runs the same program.
Source == {"self", "peer"}

\* UniformReliableBroadcastRateLimiter.
BatchSize ==
    LET limit == kLinkPacketLimit \div (NetworkSize * (NetworkSize - 1))
    IN IF limit >= 1 THEN limit ELSE 1

\* A plausible mistake: the slot after the last payload is filled too.
OneMoreFilled(payload) == IF payload <= NumMessages + 1 THEN payload ELSE 0

\* A payload slot; zero stands for no payload.
Slot(payload) == IF payload <= NumMessages THEN payload ELSE 0

\* The FIFOMessage that starts with the given payload.
MessageFrom(payload) == [i \in 1 .. kNumMessages |-> Slot(payload + i - 1)]

\* What a message holds, as lines of the log.
Lines(kind, source, message) ==
    LET payloads == SelectSeq(message, LAMBDA x : x # 0)
    IN [i \in 1 .. Len(payloads) |-> [kind |-> kind, source |-> source, payload |-> payloads[i]]]

\* The messages of a process, the last one not necessarily full.
NumBroadcasts == (NumMessages + kNumMessages - 1) \div kNumMessages
Message(n) == MessageFrom(1 + (n - 1) * kNumMessages)

Init ==
    /\ current_payload = 1 /\ current_fire = 0 /\ pc = "log"
    /\ futures = {} /\ num_broadcast = 0 /\ num_completed = 0
    /\ num_delivered = [s \in Source |-> 0]
    /\ output = <<>>

\* limiter.Fire(), then the 'b' lines of the next message.
Log ==
    /\ pc = "log" /\ current_fire # BatchSize /\ current_payload <= NumMessages
    /\ current_fire' = current_fire + 1
    /\ output' = output \o Lines("b", "self", MessageFrom(current_payload))
    /\ pc' = "submit"
    /\ UNCHANGED <<current_payload, futures, num_broadcast, num_completed, num_delivered>>

\* The message of the last 'b' lines is broadcast.
Submit ==
    /\ pc = "submit"
    /\ current_payload' = current_payload + kNumMessages
    /\ futures' = futures \union {num_broadcast + 1}
    /\ num_broadcast' = num_broadcast + 1
    /\ pc' = "log"
    /\ UNCHANGED <<current_fire, num_completed, num_delivered, output>>

FireAfterReset == 0

\* limiter.Reset() and All(futures), which asserts that there are some.
AwaitAll ==
    /\ pc = "log" /\ futures # {}
    /\ current_payload > NumMessages \/ current_fire = BatchSize
    /\ pc' = "wait"
    /\ current_fire' = FireAfterReset
    /\ UNCHANGED <<current_payload, futures, num_broadcast, num_completed, num_delivered, output>>

AllComplete == \A n \in futures : n <= num_completed

Proceed ==
    /\ pc = "wait" /\ AllComplete
    /\ pc' = "log"
    /\ futures' = {}
    /\ UNCHANGED <<current_payload, current_fire, num_broadcast, num_completed,
                   num_delivered, output>>

\* FIFOBroadcast::Deliver has completed the future of an own message and not
\* called the callback yet; the strand then does nothing else.
OwnCallbackIsNext == num_delivered["self"] < num_completed

\* FIFOBroadcast::Deliver of an own message: the future, then the callback.
Complete ==
    /\ num_completed < num_broadcast /\ ~OwnCallbackIsNext
    /\ num_completed' = num_completed + 1
    /\ UNCHANGED <<main, num_delivered, output>>

\* The callback: one 'd' line for each payload of the message.
Callback(source) ==
    /\ IF source = "self" THEN OwnCallbackIsNext
                          ELSE ~OwnCallbackIsNext /\ num_delivered[source] < NumBroadcasts
    /\ num_delivered' = [num_delivered EXCEPT ![source] = @ + 1]
    /\ output' = output \o Lines("d", source, Message(num_delivered[source] + 1))
    /\ UNCHANGED <<main, num_completed>>

\* Everything is broadcast and delivered: the main thread runs the event loop.
Finished == /\ current_payload > NumMessages /\ futures = {} /\ pc = "log"
            /\ \A s \in Source : num_delivered[s] = NumBroadcasts
            /\ UNCHANGED vars

Next ==
    \/ Log \/ Submit \/ AwaitAll \/ Proceed \/ Complete
    \/ \E source \in Source : Callback(source)
    \/ Finished

----------------------------------------------------------------------------
\* The payloads of the lines of a kind and a source, in the order of the log.
Logged(kind, source) ==
    LET lines == SelectSeq(output, LAMBDA l : l.kind = kind /\ l.source = source)
    IN [i \in 1 .. Len(lines) |-> lines[i].payload]

IsCount(s) == /\ Len(s) <= NumMessages
              /\ \A i \in 1 .. Len(s) : s[i] = i

\* The log counts: its 'b' lines and the 'd' lines of each source are 1, 2, 3 ...
\* in order, up to NumMessages ("Processes broadcast messages 1 to m in order",
\* README.md), also when the last message is not full.  A delivery of an own
\* payload comes after its broadcast, although the two lines are written by
\* different threads.
LogCounts == /\ IsCount(Logged("b", "self"))
             /\ \A source \in Source : IsCount(Logged("d", source))
             /\ Len(Logged("d", "self")) <= Len(Logged("b", "self"))
============================================================================
