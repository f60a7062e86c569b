------------------------------ MODULE Futures ------------------------------
(* Futures (include/concurrency/shared_state.hpp, rendezvous.hpp, promise.hpp, *)
(* future.hpp, combine.hpp): the main thread combines the futures of several   *)
(* promises with All or First and waits for the result with Get, while a       *)
(* thread of its own sets each promise.                                        *)
(*                                                                             *)
(* A shared state is a result, a callback and a rendezvous: whoever of the     *)
(* producer and the consumer comes second (exchange returned true) calls the   *)
(* callback and deletes the state.  All futures here run their callbacks where *)
(* they are (JustExecute), so the combinator runs on the thread that came      *)
(* second.  The statements that touch memory shared between threads are steps. *)
(*                                                                             *)
(* AllCombinator::SetError is not synchronised: two inputs that fail at the    *)
(* same time race for the promise.  In this program errors come from           *)
(* ReliableChannel::Stop only, from the thread that stops the transport, so    *)
(* inputs of All fail one after the other here.                                *)
EXTENDS Integers, FiniteSets

CONSTANTS
    Input        \* the futures combined

ASSUME FuturesAssumption ==
    /\ IsFiniteSet(Input) /\ Input # {}   \* asserted by All and First

Output == "output"
State == Input \union {Output}

VARIABLES
    combinator,    \* the function called: "All" or "First"
    result,        \* per shared state: result_placeholder_, "none" before Produce
    callback,      \* per shared state: callback_ is there
    met,           \* per shared state: state_ of its rendezvous
    deleted,       \* per shared state
    producer,      \* per shared state: how far Promise::Set is
    consumer,      \* per shared state: how far Future::Consume is
    collector,     \* per input: how far its callback, the collector's SetX, is
    mutex,         \* the input whose callback holds the collector's mutex
    num_results,   \* results.size() of AllCombinator
    counter,       \* counter of FirstCombinator
    is_completed,  \* is_completed of FirstCombinator
    promise,       \* the collector's promise has its shared_state_
    placeholder,   \* what Get returns, "none" before its callback
    called         \* calls of the output's callback

shared == <<result, callback, met, deleted>>
combine == <<combinator, mutex, num_results, counter, is_completed, promise>>
vars == <<shared, producer, consumer, collector, combine, placeholder, called>>

Init ==
    /\ combinator \in {"All", "First"}
    /\ result = [s \in State |-> "none"]
    /\ callback = [s \in State |-> FALSE]
    /\ met = [s \in State |-> FALSE]
    /\ deleted = [s \in State |-> FALSE]
    /\ producer = [s \in State |-> "idle"]
    /\ consumer = [s \in State |-> "idle"]
    /\ collector = [i \in Input |-> "idle"]
    /\ mutex = {} /\ num_results = 0 /\ counter = Cardinality(Input)
    /\ is_completed = FALSE /\ promise = TRUE
    /\ placeholder = "none" /\ called = 0

----------------------------------------------------------------------------
(* SharedState, for any state s.                                             *)

\* The main thread runs the callback of an input it came second for.
MainIsInside == \E i \in Input : consumer[i] = "callback"

\* Produce: the result, then the rendezvous.
WriteResult(s, outcome) ==
    /\ result' = [result EXCEPT ![s] = outcome]
    /\ producer' = [producer EXCEPT ![s] = "meet"]
    /\ UNCHANGED <<callback, met, deleted, consumer>>

\* What exchange(true) returned.
CameSecond(s) == met[s]

MeetConsumer(s) ==
    /\ producer[s] = "meet"
    /\ met' = [met EXCEPT ![s] = TRUE]
    /\ producer' = [producer EXCEPT ![s] = IF CameSecond(s) THEN "callback" ELSE "done"]
    /\ UNCHANGED <<result, callback, deleted, consumer, collector, combine, placeholder, called>>

\* Consume: the callback, then the rendezvous.  Only the main thread consumes:
\* the inputs one by one, then the output in Get.
WriteCallback(s) ==
    /\ consumer[s] = "idle" /\ ~MainIsInside
    /\ \A i \in State : consumer[i] # "meet"
    /\ s = Output => \A i \in Input : consumer[i] = "done"
    /\ callback' = [callback EXCEPT ![s] = TRUE]
    /\ consumer' = [consumer EXCEPT ![s] = "meet"]
    /\ UNCHANGED <<result, met, deleted, producer, collector, combine, placeholder, called>>

MeetProducer(s) ==
    /\ consumer[s] = "meet"
    /\ met' = [met EXCEPT ![s] = TRUE]
    /\ consumer' = [consumer EXCEPT ![s] = IF CameSecond(s) THEN "callback" ELSE "done"]
    /\ UNCHANGED <<result, callback, deleted, producer, collector, combine, placeholder, called>>

\* DoCallback is under way on the thread that came second.
InCallback(s) == producer[s] = "callback" \/ consumer[s] = "callback"

\* The callback has returned: delete this.
Delete(s) ==
    /\ deleted' = [deleted EXCEPT ![s] = TRUE]
    /\ producer' = [producer EXCEPT ![s] = IF @ = "callback" THEN "done" ELSE @]
    /\ consumer' = [consumer EXCEPT ![s] = IF @ = "callback" THEN "done" ELSE @]
    /\ UNCHANGED <<result, callback, met>>

----------------------------------------------------------------------------
(* The promises of the inputs and the callbacks that Combine gave them.      *)

SetInput(i, outcome) ==
    /\ producer[i] = "idle"
    /\ outcome = "error" /\ combinator = "All" =>
          \A j \in Input : result[j] = "error" => collector[j] = "gone"
    /\ WriteResult(i, outcome)
    /\ UNCHANGED <<collector, combine, placeholder, called>>

\* A plausible mistake: the size is compared before the value is added.
SizeBeforePush == num_results = Cardinality(Input)

\* The size of results after the push.
IsLastValue == num_results + 1 = Cardinality(Input)

\* AllCombinator::SetValue counts under the mutex, the last one sets the promise.
AllSetValue(i) ==
    /\ combinator = "All" /\ InCallback(i) /\ collector[i] = "idle"
    /\ result[i] = "value" /\ mutex = {}
    /\ num_results' = num_results + 1
    /\ IF IsLastValue
       THEN mutex' = {i} /\ collector' = [collector EXCEPT ![i] = "set"]
       ELSE UNCHANGED mutex /\ collector' = [collector EXCEPT ![i] = "end"]
    /\ UNCHANGED <<shared, producer, consumer, combinator, counter, is_completed, promise, placeholder, called>>

\* AllCombinator::SetError sets the promise without the mutex.
AllSetError(i) ==
    /\ combinator = "All" /\ InCallback(i) /\ collector[i] = "idle"
    /\ result[i] = "error"
    /\ collector' = [collector EXCEPT ![i] = "set"]
    /\ UNCHANGED <<shared, producer, consumer, combine, placeholder, called>>

\* A plausible mistake: the last but one error completes the future.
NextToLastError == counter = 2

\* What fetch_sub returned.
IsLastError == counter = 1

ErrorsLeft == counter - 1

\* FirstCombinator::SetError: the last error goes on.
FirstCountError(i) ==
    /\ combinator = "First" /\ InCallback(i) /\ collector[i] = "idle"
    /\ result[i] = "error"
    /\ counter' = ErrorsLeft
    /\ collector' = [collector EXCEPT ![i] = IF IsLastError THEN "complete" ELSE "end"]
    /\ UNCHANGED <<shared, producer, consumer, combinator, mutex, num_results, is_completed, promise, placeholder, called>>

\* A plausible mistake: whether somebody else was first is not looked at.
NobodyElse == TRUE

NobodyYet == ~is_completed

\* is_completed.exchange(true): the first one sets the promise.
FirstComplete(i) ==
    /\ combinator = "First" /\ InCallback(i)
    /\ collector[i] = "complete" \/ (collector[i] = "idle" /\ result[i] = "value")
    /\ is_completed' = TRUE
    /\ collector' = [collector EXCEPT ![i] = IF NobodyYet THEN "set" ELSE "end"]
    /\ UNCHANGED <<shared, producer, consumer, combinator, mutex, num_results, counter, promise, placeholder, called>>

\* Promise::Set of the output: nothing when shared_state_ is gone.
SetOutput(i) ==
    /\ collector[i] = "set"
    /\ IF promise
       THEN /\ WriteResult(Output, result[i])
            /\ collector' = [collector EXCEPT ![i] = "produce"]
       ELSE /\ collector' = [collector EXCEPT ![i] = "end"]
            /\ UNCHANGED <<shared, producer, consumer>>
    /\ UNCHANGED <<combine, placeholder, called>>

\* Produce has returned: shared_state_ = nullptr.
ClearPromise(i) ==
    /\ collector[i] = "produce" /\ producer[Output] = "done"
    /\ promise' = FALSE
    /\ mutex' = mutex \ {i}
    /\ collector' = [collector EXCEPT ![i] = "end"]
    /\ UNCHANGED <<shared, producer, consumer, combinator, num_results, counter, is_completed, placeholder, called>>

\* The callback of an input returns.
EndCallback(i) ==
    /\ InCallback(i) /\ collector[i] = "end"
    /\ Delete(i)
    /\ collector' = [collector EXCEPT ![i] = "gone"]
    /\ UNCHANGED <<combine, placeholder, called>>

\* The callback of Get: the placeholder, then Done of its wait group.
GetCallback ==
    /\ InCallback(Output)
    /\ placeholder' = result[Output]
    /\ called' = called + 1
    /\ Delete(Output)
    /\ UNCHANGED <<collector, combine>>

\* Get returns the placeholder.
Returned == consumer[Output] = "done" /\ placeholder # "none"
Finished == /\ Returned /\ \A i \in Input : collector[i] = "gone"
            /\ UNCHANGED vars

InputStep(i) ==
    \/ \E outcome \in {"value", "error"} : SetInput(i, outcome)
    \/ AllSetValue(i) \/ AllSetError(i) \/ FirstCountError(i) \/ FirstComplete(i)
    \/ SetOutput(i) \/ ClearPromise(i) \/ EndCallback(i)

Next ==
    \/ \E s \in State : WriteCallback(s) \/ MeetProducer(s) \/ MeetConsumer(s)
    \/ \E i \in Input : InputStep(i)
    \/ GetCallback \/ Finished

Spec == Init /\ [][Next]_vars

\* Every promise is set and every thread goes on.
FairSpec == Spec /\ WF_vars(Next)

----------------------------------------------------------------------------
\* A callback is called only when it and the result are there, by one thread
\* only, and nobody is still to touch a state that is deleted: the exchange of
\* the rendezvous picks exactly one of the two sides.
OneSideCallsBack ==
    \A s \in State :
        /\ InCallback(s) => callback[s] /\ result[s] # "none" /\ ~deleted[s]
        /\ ~(producer[s] = "callback" /\ consumer[s] = "callback")
        /\ deleted[s] => producer[s] = "done" /\ consumer[s] = "done"

\* All reports values only when all inputs have one and an error only when one
\* has; First reports an error only when all inputs failed.  Once.
ResultIsRight ==
    /\ called <= 1
    /\ placeholder = "value" =>
          IF combinator = "All" THEN \A i \in Input : result[i] = "value"
                                ELSE \E i \in Input : result[i] = "value"
    /\ placeholder = "error" =>
          IF combinator = "All" THEN \E i \in Input : result[i] = "error"
                                ELSE \A i \in Input : result[i] = "error"

\* Get returns: no side waits for a rendezvous that is over.
GetReturns == <>Returned
============================================================================
