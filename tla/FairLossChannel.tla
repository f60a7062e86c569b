-------------------------- MODULE FairLossChannel --------------------------
(* The two ends of a link and the datagrams between them                      *)
(* (include/io/transport/fairloss_channel.hpp, udp_socket.hpp, budget.hpp,    *)
(* mrmw_set.hpp): the queue of outgoing packets with the set of ids that      *)
(* keeps a packet from being queued twice, the send budget, the write handler *)
(* of the event loop and the retries that arm it again.                       *)
(*                                                                            *)
(* Send is called by several threads (the application, the timer thread, the  *)
(* reader), so each of its three operations on shared state is a step; so are *)
(* the steps of the write handler.  The handler's events are ONESHOT: once it *)
(* runs, nothing wakes it up until it arms itself again.                      *)
(*                                                                            *)
(* Abstraction: a queue is a set, since ids are queued at most once and the   *)
(* network reorders anyway; acknowledgements of one message are one packet;   *)
(* a retry policy is the number of valid timeouts it has left.                *)
EXTENDS Naturals, FiniteSets

CONSTANTS
    Endpoint,             \* the two processes
    Msg,                  \* messages, each sent by one endpoint
    MaxBudget,            \* max_send_budget
    kOutgoingMessageCap,
    EmptyRetries,         \* valid timeouts of empty_write_policy
    Environment           \* bounds: what the environment does and how long the
                          \* other two retry policies are

ASSUME ChannelAssumption ==
    /\ Cardinality(Endpoint) = 2
    /\ MaxBudget \in Nat \ {0} /\ kOutgoingMessageCap \in Nat
    /\ EmptyRetries \in Nat
    /\ Environment \subseteq [faults : Nat, sends : SUBSET Msg, stops : SUBSET Endpoint,
                               error_retries : Nat, msg_retries : Nat \ {0}]

VARIABLES
    outgoing_packets,     \* per endpoint: outgoing_packets_
    outgoing_message_ids, \* per endpoint: outgoing_message_ids_
    send_budget,          \* per endpoint: send_budget_.counter_
    calls,                \* calls of FairLossChannel::Send in progress
    writer,               \* per endpoint: the write handler
    error_left,           \* per endpoint: what is left of its error_policy_
    empty_left,           \* per endpoint: what is left of its empty_write_policy_
    reader,               \* per endpoint: the read handler and the packet it holds
    read_error_left,      \* per endpoint: what is left of the reader's error_policy_
    open,                 \* per endpoint: the socket is not closed
    looping,              \* per endpoint: the event loop runs
    exited,               \* per endpoint: a system call that CANNOT_FAIL failed
    wire,                 \* datagrams on their way: <<receiver, packet>>
    environment           \* faults still to come, messages the application sends,
                          \* endpoints that may be stopped, and the policies

channel == <<outgoing_packets, outgoing_message_ids, send_budget, calls, writer,
             error_left, empty_left>>
reading == <<reader, read_error_left>>
process == <<open, looping, exited>>
network == <<wire, environment>>

\* Valid timeouts of error_policy, which each handler has a copy of.
ErrorRetries == environment.error_retries

Payload(m) == [type |-> "payload", msg |-> m]
\* In the code each acknowledgement has an id of its own.  One is queued only
\* after a fault; a second one for the same message, while the first is still
\* queued, would be one more copy of it, which a set of datagrams does not tell
\* apart.
Ack(m) == [type |-> "ack", msg |-> m]

Peer(c) == CHOOSE d \in Endpoint : d # c

\* The write handler between two events: waiting for the socket to be writable,
\* for its retry timer, or for nothing at all.
Between(state) == [state |-> state, batch |-> {}, budget |-> 0, sent |-> {}, refused |-> FALSE]
Running(state, batch, budget) ==
    [state |-> state, batch |-> batch, budget |-> budget, sent |-> {}, refused |-> FALSE]

\* The read handler: between two packets, or with one in its hands.
NotReading(state) == [state |-> state, packet |-> {}, fresh |-> FALSE]

ChannelInit ==
    /\ environment \in Environment
    /\ outgoing_packets = [c \in Endpoint |-> {}]
    /\ outgoing_message_ids = [c \in Endpoint |-> {}]
    /\ send_budget = [c \in Endpoint |-> MaxBudget]
    /\ calls = {}
    /\ writer = [c \in Endpoint |-> Between("armed")]
    /\ error_left = [c \in Endpoint |-> ErrorRetries]
    /\ empty_left = [c \in Endpoint |-> EmptyRetries]
    /\ reader = [c \in Endpoint |-> NotReading("armed")]
    /\ read_error_left = [c \in Endpoint |-> ErrorRetries]
    /\ open = [c \in Endpoint |-> TRUE]
    /\ looping = [c \in Endpoint |-> TRUE]
    /\ exited = [c \in Endpoint |-> FALSE]
    /\ wire = {}

\* One more failure: a datagram lost or duplicated, a write that would block or
\* is refused, an error on a socket.
Fault ==
    /\ environment.faults > 0
    /\ environment' = [environment EXCEPT !.faults = @ - 1]

----------------------------------------------------------------------------
(* SharedBudget.                                                             *)

Least(a, b) == IF a <= b THEN a ELSE b

ToppedUp(c, credits) == Least(send_budget[c] + credits, MaxBudget)

TopUp(c, credits) == send_budget' = [send_budget EXCEPT ![c] = ToppedUp(c, credits)]

----------------------------------------------------------------------------
(* FairLossChannel::Send.                                                    *)

Call(c, packet, thread) == [end |-> c, packet |-> packet, by |-> thread, stage |-> "check"]
Calling(c, m, thread) == \E k \in calls : k.end = c /\ k.packet.msg = m /\ k.by = thread

\* The call k goes on to the given stage, or returns.
Advance(k, stage) == calls' = (calls \ {k}) \union {[k EXCEPT !.stage = stage]}
Return(k) == calls' = calls \ {k}

\* EstimateSize: the size may change before the call inserts its id.
SendCheck(k) ==
    /\ k \in calls /\ k.stage = "check" /\ ~exited[k.end]
    /\ IF Cardinality(outgoing_message_ids[k.end]) >= kOutgoingMessageCap
       THEN Return(k) ELSE Advance(k, "insert")
    /\ UNCHANGED <<outgoing_packets, outgoing_message_ids, send_budget, writer,
                   error_left, empty_left, reading, process, network>>

\* A packet already queued is not queued again.
SendInsert(k) ==
    /\ k \in calls /\ k.stage = "insert" /\ ~exited[k.end]
    /\ outgoing_message_ids' = [outgoing_message_ids EXCEPT ![k.end] = @ \union {k.packet}]
    /\ IF k.packet \in outgoing_message_ids[k.end]
       THEN Return(k) ELSE Advance(k, "push")
    /\ UNCHANGED <<outgoing_packets, send_budget, writer, error_left, empty_left,
                   reading, process, network>>

SendPush(k) ==
    /\ k \in calls /\ k.stage = "push" /\ ~exited[k.end]
    /\ outgoing_packets' = [outgoing_packets EXCEPT ![k.end] = @ \union {k.packet}]
    /\ Return(k)
    /\ UNCHANGED <<outgoing_message_ids, send_budget, writer, error_left, empty_left,
                   reading, process, network>>

----------------------------------------------------------------------------
(* The write handler.                                                        *)

\* Retry: the handler is armed again by a timer as long as its policy has a
\* valid timeout left; afterwards nothing arms it.
Rescheduled(left) == Between(IF left > 0 THEN "scheduled" ELSE "dead")
Used(left) == IF left > 0 THEN left - 1 ELSE 0

RescheduleOnError(c) ==
    /\ writer' = [writer EXCEPT ![c] = Rescheduled(error_left[c])]
    /\ error_left' = [error_left EXCEPT ![c] = Used(@)]

RescheduleOnEmptyWrite(c) ==
    /\ writer' = [writer EXCEPT ![c] = Rescheduled(empty_left[c])]
    /\ empty_left' = [empty_left EXCEPT ![c] = Used(@)]

\* The epoll event: an error, or the socket is writable and the handler takes
\* the whole budget.
HandleWriteError(c) ==
    /\ looping[c] /\ ~exited[c] /\ Fault
    /\ writer[c].state = "armed"
    /\ RescheduleOnError(c)
    /\ UNCHANGED <<outgoing_packets, outgoing_message_ids, send_budget, calls,
                   empty_left, reading, process, wire>>

HandleWrite(c) ==
    /\ looping[c] /\ ~exited[c]
    /\ writer[c].state = "armed"
    /\ IF send_budget[c] = 0
       THEN RescheduleOnEmptyWrite(c) /\ UNCHANGED send_budget
       ELSE /\ writer' = [writer EXCEPT ![c] = Running("pop", {}, send_budget[c])]
            /\ send_budget' = [send_budget EXCEPT ![c] = 0]
            /\ UNCHANGED empty_left
    /\ UNCHANGED <<outgoing_packets, outgoing_message_ids, calls, error_left, reading, process, network>>

\* TryPopAll.
PopBatch(c) ==
    /\ ~exited[c] /\ writer[c].state = "pop"
    /\ IF outgoing_packets[c] = {}
       THEN TopUp(c, writer[c].budget) /\ RescheduleOnEmptyWrite(c)
       ELSE /\ writer' = [writer EXCEPT ![c] =
                            Running("write", outgoing_packets[c], writer[c].budget)]
            /\ empty_left' = [empty_left EXCEPT ![c] = EmptyRetries]
            /\ UNCHANGED send_budget
    /\ outgoing_packets' = [outgoing_packets EXCEPT ![c] = {}]
    /\ UNCHANGED <<outgoing_message_ids, calls, error_left, reading, process, network>>

\* A payload message costs one credit, an acknowledgement none.
Cost(packet) == IF packet.type = "payload" THEN 1 ELSE 0

\* The batch has a packet to write and the budget for it.
Affordable(c, packet) == packet \in writer[c].batch /\ Cost(packet) <= writer[c].budget

\* Write to the closed descriptor fails and the process exits.
Exit(c) == exited' = [exited EXCEPT ![c] = TRUE] /\ UNCHANGED <<open, looping>>

WritePacket(c, packet) ==
    /\ ~exited[c] /\ writer[c].state = "write" /\ Affordable(c, packet)
    /\ IF open[c]
       THEN /\ wire' = wire \union {<<Peer(c), packet>>}
            /\ writer' = [writer EXCEPT ![c].state = "delete",
                                        ![c].batch = @ \ {packet},
                                        ![c].budget = @ - Cost(packet),
                                        ![c].sent = {packet},
                                        ![c].refused = FALSE]
            /\ UNCHANGED process
       ELSE Exit(c) /\ UNCHANGED <<wire, writer>>
    /\ UNCHANGED <<outgoing_packets, outgoing_message_ids, send_budget, calls,
                   error_left, empty_left, reading, environment>>

\* kWouldBlock or kConnRefused: the packet stays in the batch, the loop ends.
WriteFails(c, packet) ==
    /\ ~exited[c] /\ writer[c].state = "write" /\ Affordable(c, packet) /\ open[c]
    /\ Fault
    /\ \E refused \in BOOLEAN :
           writer' = [writer EXCEPT ![c].state = "return", ![c].refused = refused]
    /\ UNCHANGED <<outgoing_packets, outgoing_message_ids, send_budget, calls,
                   error_left, empty_left, reading, process, wire>>

\* The ids still queued once the packet is written.
IdsLeft(c, sent) == outgoing_message_ids[c] \ sent

DeleteID(c) ==
    /\ ~exited[c] /\ writer[c].state = "delete"
    /\ outgoing_message_ids' =
           [outgoing_message_ids EXCEPT ![c] = IdsLeft(c, writer[c].sent)]
    /\ writer' = [writer EXCEPT ![c].state = "write", ![c].sent = {}]
    /\ UNCHANGED <<outgoing_packets, send_budget, calls, error_left, empty_left,
                   reading, process, network>>

\* A plausible mistake: the rest of the batch is not put back.
NothingPutBack(c) == outgoing_packets[c]

\* Push(List): the rest of the batch joins what was queued in the meantime.
PutBack(c) == outgoing_packets[c] \union writer[c].batch

\* The loop is over: the batch is written, too expensive or not accepted.
FinishWrite(c) ==
    /\ ~exited[c]
    /\ \/ writer[c].state = "return"
       \/ /\ writer[c].state = "write"
          /\ \/ writer[c].batch = {}
             \/ \E packet \in writer[c].batch : ~Affordable(c, packet)
    /\ outgoing_packets' = [outgoing_packets EXCEPT ![c] = PutBack(c)]
    /\ TopUp(c, writer[c].budget)
    /\ IF writer[c].refused
       THEN RescheduleOnError(c)
       ELSE /\ writer' = [writer EXCEPT ![c] = Between("armed")]
            /\ error_left' = [error_left EXCEPT ![c] = ErrorRetries]
    /\ UNCHANGED <<outgoing_message_ids, calls, empty_left, reading, process, network>>

\* The handler's TimerFunction: ModEvent arms the event again.
RearmWriter(c) ==
    /\ looping[c] /\ ~exited[c] /\ writer[c].state = "scheduled"
    /\ writer' = [writer EXCEPT ![c] = Between("armed")]
    /\ UNCHANGED <<outgoing_packets, outgoing_message_ids, send_budget, calls,
                   error_left, empty_left, reading, process, network>>

----------------------------------------------------------------------------
(* The read handler, but for what it does with a packet.                     *)

HandleReadError(c) ==
    /\ looping[c] /\ ~exited[c] /\ Fault
    /\ reader[c].state = "armed"
    /\ reader' = [reader EXCEPT ![c] =
                    NotReading(IF read_error_left[c] > 0 THEN "scheduled" ELSE "dead")]
    /\ read_error_left' = [read_error_left EXCEPT ![c] = Used(@)]
    /\ UNCHANGED <<channel, process, wire>>

\* ModEvent on the socket's own descriptor, which Close has closed.
RearmReader(c) ==
    /\ looping[c] /\ ~exited[c] /\ reader[c].state = "scheduled"
    /\ IF open[c]
       THEN reader' = [reader EXCEPT ![c] = NotReading("armed")] /\ UNCHANGED process
       ELSE Exit(c) /\ UNCHANGED reader
    /\ UNCHANGED <<channel, read_error_left, network>>

\* The shutdown makes the socket readable; reading the closed descriptor fails.
ReadClosed(c) ==
    /\ looping[c] /\ ~exited[c] /\ ~open[c] /\ reader[c].state = "armed"
    /\ Exit(c)
    /\ UNCHANGED <<channel, reading, network>>

\* A datagram is lost.
Lose ==
    /\ Fault
    /\ \E d \in wire : wire' = wire \ {d}
    /\ UNCHANGED <<channel, reading, process>>

SendStep == \E k \in calls : SendCheck(k) \/ SendInsert(k) \/ SendPush(k)

WriterStep(c) ==
    \/ HandleWrite(c) \/ PopBatch(c)
    \/ \E packet \in writer[c].batch : WritePacket(c, packet) \/ WriteFails(c, packet)
    \/ DeleteID(c) \/ FinishWrite(c) \/ RearmWriter(c)

ReaderStep(c) == RearmReader(c) \/ ReadClosed(c)
SocketError(c) == HandleReadError(c) \/ HandleWriteError(c)

ChannelStep ==
    \/ SendStep \/ Lose
    \/ \E c \in Endpoint : WriterStep(c) \/ ReaderStep(c) \/ SocketError(c)
============================================================================
