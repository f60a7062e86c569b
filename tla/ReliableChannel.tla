--------------------------- MODULE ReliableChannel ---------------------------
(* ReliableChannel (include/io/transport/reliable_channel.hpp) on both ends of *)
(* a link: Send with its retry timer and its promise, the deduplication and    *)
(* acknowledgement of what arrives, the completion of what is acknowledged,    *)
(* and Stop.  The link is module FairLossChannel.                              *)
(*                                                                             *)
(* The retry timers behave as module TimerService says: a timer whose expiry   *)
(* finds a cancel request ends; one that the ticking thread already holds      *)
(* fires once more.  When a timer fires is left open.                          *)
EXTENDS FairLossChannel

CONSTANT SenderOf     \* the endpoint that sends each message

ASSUME ReliableAssumption == SenderOf \in [Msg -> Endpoint]

VARIABLES
    message_entries,  \* messages with an entry in message_entries_
    promise,          \* per message: what its future shows
    retry_timer,      \* per message: its BackoffRetryTimer
    retries_left,     \* per message: valid timeouts left
    cancelled,        \* messages whose timer has a cancel request
    delivered,        \* per endpoint: delivered_
    callbacks,        \* per message: calls of the receiver's callback_
    stopping          \* per endpoint: how far Stop is

entries == <<message_entries, promise>>
timing == <<retry_timer, retries_left, cancelled>>
vars == <<channel, reading, process, network, entries, timing, delivered, callbacks, stopping>>

Init ==
    /\ ChannelInit
    /\ message_entries = {}
    /\ promise = [m \in Msg |-> "none"]
    /\ retry_timer = [m \in Msg |-> "none"]
    /\ retries_left = [m \in Msg |-> 0]
    /\ cancelled = {}
    /\ delivered = [c \in Endpoint |-> {}]
    /\ callbacks = [m \in Msg |-> 0]
    /\ stopping = [c \in Endpoint |-> "no"]

----------------------------------------------------------------------------
(* Send and its retries.                                                     *)

\* The entry and the timer are in place before the packet can be answered, and
\* DoSend starts.
Send(m) ==
    LET c == SenderOf[m]
    IN  /\ m \in environment.sends
        /\ promise[m] = "none" /\ ~exited[c] /\ stopping[c] = "no"
        /\ promise' = [promise EXCEPT ![m] = "pending"]
        /\ message_entries' = message_entries \union {m}
        /\ retry_timer' = [retry_timer EXCEPT ![m] = "armed"]
        /\ retries_left' = [retries_left EXCEPT ![m] = environment.msg_retries]
        /\ calls' = calls \union {Call(c, Payload(m), "app")}
        /\ UNCHANGED <<outgoing_packets, outgoing_message_ids, send_budget, writer,
                       error_left, empty_left, reading, process, network, cancelled,
                       delivered, callbacks, stopping>>

\* The timer's tick comes: the ticking thread takes it off the wheel.
Expire(m) ==
    /\ looping[SenderOf[m]] /\ ~exited[SenderOf[m]]
    /\ retry_timer[m] = "armed"
    /\ retry_timer' = [retry_timer EXCEPT ![m] = IF m \in cancelled THEN "ended" ELSE "due"]
    /\ cancelled' = cancelled \ {m}
    /\ UNCHANGED <<channel, reading, process, network, entries, retries_left, delivered,
                   callbacks, stopping>>

\* BackoffRetryTimer::Fire: the callback adds a credit and calls DoSend.
Fire(m) ==
    LET c == SenderOf[m]
    IN  /\ ~exited[c] /\ retry_timer[m] = "due"
        /\ retry_timer' = [retry_timer EXCEPT ![m] = "firing"]
        /\ TopUp(c, 1)
        /\ calls' = calls \union {Call(c, Payload(m), "timer")}
        /\ UNCHANGED <<outgoing_packets, outgoing_message_ids, writer, error_left,
                       empty_left, reading, process, network, entries, retries_left,
                       cancelled, delivered, callbacks, stopping>>

\* A plausible mistake: the timer is not armed again after its first firing.
NeverValid(left) == FALSE

\* Next, then IsValid: another timeout is left after the one just used.
StillValid(left) == left > 1

\* Next and Rearm, when DoSend has returned.
Rearm(m) ==
    LET c == SenderOf[m]
    IN  /\ ~exited[c] /\ retry_timer[m] = "firing" /\ ~Calling(c, m, "timer")
        /\ retries_left' = [retries_left EXCEPT ![m] = @ - 1]
        /\ retry_timer' = [retry_timer EXCEPT ![m] =
                              IF StillValid(retries_left[m]) THEN "armed" ELSE "ended"]
        /\ UNCHANGED <<channel, reading, process, network, entries, cancelled, delivered,
                       callbacks, stopping>>

----------------------------------------------------------------------------
(* The packets that arrive: HandlePacket, on the thread of the read handler. *)

\* A datagram taken off the socket; the network may hold a second copy of it.
TakeDatagram(c, packet) ==
    /\ looping[c] /\ ~exited[c] /\ open[c] /\ reader[c].state = "armed"
    /\ <<c, packet>> \in wire
    /\ \/ wire' = wire \ {<<c, packet>>} /\ UNCHANGED environment
       \/ Fault /\ UNCHANGED wire
    /\ read_error_left' = [read_error_left EXCEPT ![c] = ErrorRetries]

Reading(state, packet, fresh) == [state |-> state, packet |-> {packet}, fresh |-> fresh]

\* A plausible mistake: every packet counts as not delivered yet.
AlwaysFresh(c, m) == TRUE

\* What emplace on delivered_ reports.
NotDelivered(c, m) == m \notin delivered[c]

Emplaced(c, m) == delivered[c] \union {m}

\* A plausible mistake: only a message seen for the first time is acknowledged.
AckFreshOnly(fresh) == IF fresh THEN "ack" ELSE "callback"

\* Every copy is acknowledged.
AfterEmplace(fresh) == "ack"

\* HandlePayloadMessage: delivered_ is updated under its mutex.
ReadPayload(c, m) ==
    /\ TakeDatagram(c, Payload(m))
    /\ delivered' = [delivered EXCEPT ![c] = Emplaced(c, m)]
    /\ reader' = [reader EXCEPT ![c] =
                    Reading(AfterEmplace(NotDelivered(c, m)), m, NotDelivered(c, m))]
    /\ UNCHANGED <<channel, process, entries, timing, callbacks, stopping>>

\* The acknowledgement goes straight to the socket.
WriteAck(c, m) ==
    /\ ~exited[c] /\ reader[c].state = "ack" /\ m \in reader[c].packet
    /\ IF open[c]
       THEN /\ wire' = wire \union {<<Peer(c), Ack(m)>>}
            /\ reader' = [reader EXCEPT ![c].state = "callback"]
            /\ UNCHANGED process
       ELSE Exit(c) /\ UNCHANGED <<wire, reader>>
    /\ UNCHANGED <<channel, read_error_left, environment, entries, timing, delivered,
                   callbacks, stopping>>

\* The fast path failed: the acknowledgement is queued.
QueueAck(c, m) ==
    /\ ~exited[c] /\ reader[c].state = "ack" /\ m \in reader[c].packet /\ open[c]
    /\ Fault
    /\ calls' = calls \union {Call(c, Ack(m), "reader")}
    /\ reader' = [reader EXCEPT ![c].state = "callback"]
    /\ UNCHANGED <<outgoing_packets, outgoing_message_ids, send_budget, writer,
                   error_left, empty_left, read_error_left, process, wire, entries,
                   timing, delivered, callbacks, stopping>>

\* callback_ for a message seen for the first time.
Callback(c, m) ==
    /\ ~exited[c] /\ reader[c].state = "callback" /\ m \in reader[c].packet
    /\ ~Calling(c, m, "reader")
    /\ callbacks' = [callbacks EXCEPT ![m] = IF reader[c].fresh THEN @ + 1 ELSE @]
    /\ reader' = [reader EXCEPT ![c] = NotReading("armed")]
    /\ UNCHANGED <<channel, read_error_left, process, network, entries, timing, delivered,
                   stopping>>

\* HandleAckMessage: Take decides who completes the message.
ReadAck(c, m) ==
    /\ TakeDatagram(c, Ack(m))
    /\ message_entries' = message_entries \ {m}
    /\ reader' = [reader EXCEPT ![c] =
                    IF m \in message_entries THEN Reading("complete", m, FALSE)
                                             ELSE NotReading("armed")]
    /\ UNCHANGED <<channel, process, promise, timing, delivered, callbacks, stopping>>

\* Promise::Set does nothing when the promise was set or moved away.
Set(m, result) == IF promise[m] = "pending" THEN result ELSE promise[m]

CompleteAck(c, m) ==
    /\ ~exited[c] /\ reader[c].state = "complete" /\ m \in reader[c].packet
    /\ cancelled' = cancelled \union {m}
    /\ TopUp(c, 1)
    /\ promise' = [promise EXCEPT ![m] = Set(m, "value")]
    /\ reader' = [reader EXCEPT ![c] = NotReading("armed")]
    /\ UNCHANGED <<outgoing_packets, outgoing_message_ids, calls, writer, error_left,
                   empty_left, read_error_left, process, network, message_entries,
                   retry_timer, retries_left, delivered, callbacks, stopping>>

----------------------------------------------------------------------------
(* Stop.                                                                     *)

\* EventLoop::Stop and the wait for its runners.
StopLoop(c) ==
    /\ c \in environment.stops /\ looping[c] /\ ~exited[c]
    /\ writer[c].state \in {"armed", "scheduled", "dead"}
    /\ reader[c].state \in {"armed", "scheduled", "dead"}
    /\ \A m \in Msg : SenderOf[m] = c => retry_timer[m] \notin {"due", "firing"}
    /\ looping' = [looping EXCEPT ![c] = FALSE]
    /\ UNCHANGED <<channel, reading, open, exited, network, entries, timing, delivered,
                   callbacks, stopping>>

\* UDPSocket::Close, when the event loop has stopped or (RunAsSender of the
\* perfect links application) while it still runs.
StopClose(c) ==
    /\ c \in environment.stops /\ stopping[c] = "no" /\ ~exited[c]
    /\ open' = [open EXCEPT ![c] = FALSE]
    /\ stopping' = [stopping EXCEPT ![c] = "closed"]
    /\ UNCHANGED <<channel, reading, looping, exited, network, entries, timing, delivered,
                   callbacks>>

\* The queued packets are destroyed; their ids stay.
StopDestroy(c) ==
    /\ stopping[c] = "closed" /\ ~exited[c]
    /\ outgoing_packets' = [outgoing_packets EXCEPT ![c] = {}]
    /\ stopping' = [stopping EXCEPT ![c] = "destroyed"]
    /\ UNCHANGED <<outgoing_message_ids, send_budget, calls, writer, error_left,
                   empty_left, reading, process, network, entries, timing, delivered,
                   callbacks>>

\* Drain moves the entries' promises out and leaves the entries in the map.
Drained(c) == {m \in message_entries : SenderOf[m] = c}

\* Their timers are cancelled and their promises fail.
StopDrain(c) ==
    /\ stopping[c] = "destroyed" /\ ~exited[c]
    /\ cancelled' = cancelled \union Drained(c)
    /\ promise' = [m \in Msg |-> IF m \in Drained(c) THEN Set(m, "error") ELSE promise[m]]
    /\ stopping' = [stopping EXCEPT ![c] = "drained"]
    /\ UNCHANGED <<channel, reading, process, network, message_entries, retry_timer,
                   retries_left, delivered, callbacks>>

TimerStep(m) == Expire(m) \/ Fire(m) \/ Rearm(m)
PacketStep(c) ==
    \E m \in Msg : \/ ReadPayload(c, m) \/ WriteAck(c, m) \/ QueueAck(c, m)
                   \/ Callback(c, m) \/ ReadAck(c, m) \/ CompleteAck(c, m)
StopStep(c) == StopLoop(c) \/ StopClose(c) \/ StopDestroy(c) \/ StopDrain(c)

OwnStep ==
    \/ \E m \in Msg : Send(m) \/ TimerStep(m)
    \/ \E c \in Endpoint : PacketStep(c) \/ StopStep(c)

LinkStep == ChannelStep /\ UNCHANGED <<entries, timing, delivered, callbacks, stopping>>

Next == OwnStep \/ LinkStep

Spec == Init /\ [][Next]_vars

\* Every thread that can go on does: the event loop runs the handlers whose
\* sockets are ready, the ticking thread goes on with its timers, and a call of
\* Send returns.  Nothing is assumed of the application or of the network.
FairSpec ==
    /\ Spec
    /\ WF_vars(SendStep /\ UNCHANGED <<entries, timing, delivered, callbacks, stopping>>)
    /\ \A m \in Msg : WF_vars(TimerStep(m))
    /\ \A c \in Endpoint :
          /\ WF_vars(PacketStep(c))
          /\ WF_vars(WriterStep(c) /\ UNCHANGED <<entries, timing, delivered, callbacks, stopping>>)
          /\ WF_vars(ReaderStep(c) /\ UNCHANGED <<entries, timing, delivered, callbacks, stopping>>)

----------------------------------------------------------------------------
(* Properties.                                                               *)

Sent(m) == promise[m] # "none"

\* outgoing_message_ids_ holds exactly the packets that are queued, in a batch,
\* just written or about to be queued.  An id left over would make Send drop
\* every retry of its packet from then on; a missing one would queue it twice.
\* Stop destroys queued packets and leaves their ids, so this is for channels
\* that are not stopped.
IdsAreThoseQueued ==
    \A c \in Endpoint : stopping[c] = "no" =>
        outgoing_message_ids[c] =
            outgoing_packets[c] \union writer[c].batch \union writer[c].sent
              \union {k.packet : k \in {j \in calls : j.end = c /\ j.stage = "push"}}

\* The channel implements the abstract link.
Link == INSTANCE PerfectLink WITH
            outcome <- promise,
            accepted <- UNION {delivered[c] : c \in Endpoint},
            callbacks <- callbacks
ImplementsPerfectLink == Link!Spec

\* A message that is sent is delivered in the end.
EventualDelivery == \A m \in Msg : Sent(m) ~> callbacks[m] = 1

\* The application stopped an end of the link.
SomeEndStopped == \E c \in Endpoint : stopping[c] # "no" \/ ~looping[c]

\* The message waits for its acknowledgement, and its retry policy has a timeout
\* left beyond the one its timer is at.
RetryLeft(m) ==
    promise[m] = "pending" /\ retry_timer[m] # "ended" /\ retries_left[m] > 1

\* The queue has no room for m.
FullWithoutIt(m) ==
    LET others == outgoing_message_ids[SenderOf[m]] \ {Payload(m)}
    IN  Cardinality(others) >= kOutgoingMessageCap

\* Queued, in the hands of the write handler, or just written by it.
InHand(m) ==
    LET c == SenderOf[m]
    IN  Payload(m) \in outgoing_packets[c] \union writer[c].batch \union writer[c].sent

\* A packet that was dropped, or written and lost, is queued or written again as
\* long as the policy lasts, unless the message is confirmed or other packets fill
\* the queue.  The last retries may all be destroyed as duplicates of a packet that
\* the write handler has in its hands, but no order of a retry, an acknowledgement
\* and the handler's steps ends the retries early, or leaves an id behind that
\* makes Send drop them all.
DroppedComesBack ==
    \A m \in Msg :
        RetryLeft(m) ~>
            InHand(m) \/ promise[m] # "pending" \/ FullWithoutIt(m) \/ SomeEndStopped

\* The write handler will find m in the queue, with a credit to spend on it, and
\* neither it nor a read handler is given up.
Ready(m) ==
    LET c == SenderOf[m]
    IN  /\ Payload(m) \in outgoing_packets[c] /\ send_budget[c] > 0
        /\ writer[c].state # "dead" /\ \A d \in Endpoint : reader[d].state # "dead"

\* For a message that has the link to itself: once the network has ceased to
\* fail, a packet in the queue is enough, as long as neither the sender's write
\* handler nor a read handler has used up its policies, whatever was lost,
\* refused or answered before and in whatever order the threads run.  The other
\* end's callback has been or is called, every copy is acknowledged, and the
\* future is set, even if the write handler finds nothing more and is given up.
QueuedIsConfirmed ==
    \A m \in Msg :
        (environment.sends = {m} /\ environment.faults = 0 /\ Ready(m)) ~>
            (callbacks[m] = 1 /\ promise[m] = "value") \/ SomeEndStopped
============================================================================
