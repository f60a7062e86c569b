---------------------------- MODULE TimerService ----------------------------
(* The hashed timing wheel (src/io/timer_service.cpp) with the timers that   *)
(* run on it: BackoffRetryTimer, which arms itself again under the same id    *)
(* with the next timeout of its policy, and TimerFunction, which fires once.  *)
(*                                                                            *)
(* Every access to the wheel holds mutex_, so AddTimer, CancelTimer and the   *)
(* locked part of Tick are atomic.  What Tick took out of the wheel is        *)
(* cancelled and fired after the unlock, one timer at a time, while other     *)
(* threads add and cancel.  The tick event is ONESHOT and armed again only    *)
(* when Tick returns, so there is one Tick at a time.                         *)
(*                                                                            *)
(* Abstraction: a list of timers is a set (the order within one tick is not   *)
(* kept); a timer is a record of its id, deadline, kind and current timeout.  *)
EXTENDS RetryPolicy, FiniteSets

CONSTANTS
    kMaxTicksDuration,  \* slots of the wheel
    TickDuration,       \* tick_duration_, in ms
    Timeout,            \* initial timeouts of the timers the clients add, in ms
    MaxElapsed,         \* bound: ticks one read of the timer fd reports
    MaxTimers,          \* bound: timer ids handed out
    LastArrival,        \* bound: tick after which clients add no timer
    MaxTicks            \* bound: ticks the clock advances

ASSUME WheelAssumption ==
    /\ kMaxTicksDuration \in Nat \ {0} /\ TickDuration \in Nat \ {0}
    /\ Timeout \subseteq Nat
    /\ MaxElapsed \in Nat \ {0} /\ MaxTimers \in Nat
    /\ LastArrival \in Nat /\ MaxTicks \in Nat

VARIABLES
    ticks,            \* ticks_
    slot,             \* slot_
    timers,           \* timers_: the timers of each slot
    current_id,       \* current_id_
    cancelled_timers, \* cancelled_timers_
    to_cancel,        \* cancelled_timers_list of the Tick in progress
    to_fire,          \* fired_timers_list of the Tick in progress
    stopped,          \* Stop() has returned
    reserved,         \* ids returned by GetID whose timer is not added yet
    asked,            \* ids CancelTimer was called with
    fired,            \* per id: number of calls of Fire
    late              \* per id: calls of Fire after CancelTimer returned

wheel == <<ticks, slot, timers, current_id, cancelled_timers>>
lists == <<to_cancel, to_fire>>
history == <<asked, fired, late>>
vars == <<wheel, lists, stopped, reserved, history>>

Slots == 0 .. kMaxTicksDuration - 1
TimerID == 0 .. MaxTimers - 1
Waiting == UNION {timers[s] : s \in Slots}
Timers == Waiting \union to_cancel \union to_fire

Init ==
    /\ ticks = 0 /\ slot = 0 /\ current_id = 0
    /\ timers = [s \in Slots |-> {}]
    /\ cancelled_timers = {}
    /\ to_cancel = {} /\ to_fire = {}
    /\ stopped = FALSE
    /\ reserved = {}
    /\ asked = {}
    /\ fired = [i \in TimerID |-> 0]
    /\ late = [i \in TimerID |-> 0]

----------------------------------------------------------------------------
(* The clients.                                                              *)

GetID ==
    /\ ~stopped /\ current_id < MaxTimers
    /\ reserved' = reserved \union {current_id}
    /\ current_id' = current_id + 1
    /\ UNCHANGED <<ticks, slot, timers, cancelled_timers, lists, stopped, history>>

\* A plausible mistake: the slot is computed from the duration alone.
SlotOfDuration(deadline) == (deadline - ticks) % kMaxTicksDuration

SlotOf(deadline) == deadline % kMaxTicksDuration

DoAddTimer(kind, id, timeout) ==
    LET deadline == ticks + timeout \div TickDuration
    IN timers' = [timers EXCEPT ![SlotOf(deadline)] =
                     @ \union {[id |-> id, deadline |-> deadline,
                                kind |-> kind, timeout |-> timeout]}]

\* AddTimer(timer, duration): the timer of a channel's rescheduled handler.
AddTimer(timeout) ==
    /\ ~stopped /\ ticks <= LastArrival /\ current_id < MaxTimers
    /\ DoAddTimer("once", current_id, timeout)
    /\ current_id' = current_id + 1
    /\ UNCHANGED <<ticks, slot, cancelled_timers, lists, stopped, reserved, history>>

\* AddTimer(timer, id, duration): the retry timer of a message.
AddTimerWithID(id, timeout) ==
    /\ ~stopped /\ ticks <= LastArrival
    /\ id \in reserved
    /\ reserved' = reserved \ {id}
    /\ DoAddTimer("retry", id, timeout)
    /\ UNCHANGED <<ticks, slot, current_id, cancelled_timers, lists, stopped, history>>

\* CancelTimer(id), before or after the timer is added or fired, and perhaps
\* again: ReliableChannel::Stop cancels the timers of its entries and leaves the
\* entries in their map, where a late acknowledgement still finds them.
CancelTimer(id) ==
    /\ ~stopped
    /\ id < current_id
    /\ cancelled_timers' = cancelled_timers \union {id}
    /\ asked' = asked \union {id}
    /\ UNCHANGED <<ticks, slot, timers, current_id, lists, stopped, reserved, fired, late>>

----------------------------------------------------------------------------
(* The ticking thread.                                                       *)

\* Where `elapsed` calls of AdvanceSlot leave the hand.
AdvanceSlot(elapsed) == (slot + elapsed) % kMaxTicksDuration

\* The slots the hand reaches on the way.
Visited(elapsed) == {AdvanceSlot(i) : i \in 1 .. elapsed}

\* ExpireSlot for the visited slots, when the clock shows `now`.
Expired(visited, now) == {t \in UNION {timers[s] : s \in visited} : now >= t.deadline}

\* A plausible mistake: ExpireSlot hands out the expired timers and leaves them
\* in the slot.
KeepInSlot(s, expired) == timers[s]
Remaining(s, expired) == timers[s] \ expired

\* A plausible mistake: requests are looked up by timer, not by id, so a timer
\* that has been armed again is not found.
WithFreshCancelRequest(expired) ==
    {t \in expired : t.id \in cancelled_timers /\ fired[t.id] = 0}

\* Which expired timers are cancelled instead of fired.
WithCancelRequest(expired) == {t \in expired : t.id \in cancelled_timers}

\* The requests still to be met once those of the cancelled timers are erased.
RequestsLeft(cancelled) == cancelled_timers \ {t.id : t \in cancelled}

Tick(elapsed) ==
    LET now == ticks + elapsed
        visited == Visited(elapsed)
        expired == Expired(visited, now)
        cancelled == WithCancelRequest(expired)
    IN  /\ ~stopped /\ to_cancel = {} /\ to_fire = {}
        /\ now <= MaxTicks
        /\ ticks' = now
        /\ slot' = AdvanceSlot(elapsed)
        /\ timers' = [s \in Slots |-> Remaining(s, expired)]
        /\ to_cancel' = cancelled
        /\ to_fire' = expired \ cancelled
        /\ cancelled_timers' = RequestsLeft(cancelled)
        /\ UNCHANGED <<current_id, stopped, reserved, history>>

\* timer->Cancel(): the timer is deleted (a TimerFunction is left alone).
Cancel(t) ==
    /\ t \in to_cancel
    /\ to_cancel' = to_cancel \ {t}
    /\ UNCHANGED <<wheel, to_fire, stopped, reserved, history>>

\* A plausible mistake: the timer arms itself again whatever the policy says.
RearmAlways(t, timeout) == DoAddTimer("retry", t.id, timeout)

\* BackoffRetryTimer::Rearm under the same id, as long as the policy is valid.
Rearm(t, timeout) ==
    IF t.kind = "retry" /\ IsValid(timeout)
    THEN DoAddTimer("retry", t.id, timeout)
    ELSE UNCHANGED timers

\* timer->Fire(id), once to_cancel is empty: the callback, and for a
\* BackoffRetryTimer Next() and Rearm.  The callback does not touch the wheel,
\* so a CancelTimer between it and Rearm is one after this step.
Fire(t) ==
    /\ to_cancel = {}
    /\ t \in to_fire
    /\ to_fire' = to_fire \ {t}
    /\ fired' = [fired EXCEPT ![t.id] = @ + 1]
    /\ late' = [late EXCEPT ![t.id] = IF t.id \in asked THEN @ + 1 ELSE @]
    /\ Rearm(t, NextTimeout(t.timeout))
    /\ UNCHANGED <<ticks, slot, current_id, cancelled_timers, to_cancel, stopped,
                   reserved, asked>>

\* Stop(): a full turn of the hand at the current ticks_, with every timer
\* found expired cancelled.  Runtime::Stop calls it when the loop has stopped.
Stop ==
    /\ ~stopped /\ to_cancel = {} /\ to_fire = {}
    /\ stopped' = TRUE
    /\ timers' = [s \in Slots |-> timers[s] \ Expired(Slots, ticks)]
    /\ UNCHANGED <<ticks, slot, current_id, cancelled_timers, lists, reserved, history>>

Client ==
    \/ GetID
    \/ \E timeout \in Timeout : AddTimer(timeout)
    \/ \E id \in reserved, timeout \in Timeout : AddTimerWithID(id, timeout)
    \/ \E id \in TimerID : CancelTimer(id)

TickAny == \E elapsed \in 1 .. MaxElapsed : Tick(elapsed)
CancelAny == \E t \in to_cancel : Cancel(t)
FireAny == \E t \in to_fire : Fire(t)

Next == Client \/ TickAny \/ CancelAny \/ FireAny \/ Stop

Spec == Init /\ [][Next]_vars

\* The timer fd stays readable while time passes and an event loop runner
\* handles it; Tick runs its lists to the end.
FairSpec == Spec /\ WF_vars(TickAny) /\ WF_vars(CancelAny) /\ WF_vars(FireAny)

----------------------------------------------------------------------------
(* Properties.                                                               *)

\* No timer is overdue: the wheel holds no timer whose deadline has passed.  A
\* timer added for less than one tick is the exception the wheel's arithmetic
\* makes: it sits in the slot under the hand and waits for a full turn, and no
\* longer.  Says that Tick visits every slot it must and that AddTimer picks a
\* slot Tick will visit in time.
Punctual ==
    \A t \in Waiting :
        IF t.timeout < TickDuration THEN ticks < t.deadline + kMaxTicksDuration
                                    ELSE ticks < t.deadline

\* An id names at most one timer, wherever it is (in the wheel or in the hands
\* of the ticking thread), although BackoffRetryTimer reuses the id: otherwise a
\* CancelTimer would stop one and leave the other firing.
OneTimerPerID ==
    /\ \A t, u \in Timers : t.id = u.id => t = u
    /\ to_cancel \intersect to_fire = {}
    /\ (to_cancel \union to_fire) \intersect Waiting = {}

\* After CancelTimer has returned, the callback of the timer runs at most once
\* more: the firing that the ticking thread had already taken off the wheel.
AtMostOneLateFire == \A id \in TimerID : late[id] <= 1

\* Every timer in the wheel is done with in the end: fired for the last time or
\* cancelled, unless the service is stopped first.
EveryTimerSettles ==
    \A id \in TimerID :
        (\E t \in Waiting : t.id = id) ~> (stopped \/ \A t \in Timers : t.id # id)
============================================================================
