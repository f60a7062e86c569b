---------------------------- MODULE RetryPolicy ----------------------------
(* class RetryPolicy (include/io/transport/backoff_retry.hpp): the timeout of *)
(* the next attempt.  A policy object is modelled by its current timeout_ms_; *)
(* multiplier_ is the fraction MultiplierNum / MultiplierDen, and the cast of *)
(* the product to DurationMs truncates.  with_jitter_ is false, its default,  *)
(* which no application changes.                                              *)
EXTENDS Naturals

CONSTANTS
    MultiplierNum,  \* multiplier_, as a fraction
    MultiplierDen,
    MaxTimeout      \* max_timeout_ms_

ASSUME PolicyAssumption ==
    /\ MultiplierNum \in Nat /\ MultiplierDen \in Nat \ {0}
    /\ MultiplierNum >= MultiplierDen
    /\ MaxTimeout \in Nat

IsValid(timeout) == timeout <= MaxTimeout

\* Next() without jitter.
NextTimeout(timeout) == (timeout * MultiplierNum) \div MultiplierDen
============================================================================
