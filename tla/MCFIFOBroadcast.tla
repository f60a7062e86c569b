-------------------------- MODULE MCFIFOBroadcast --------------------------
(* Instances of FIFOBroadcast for TLC. *)
EXTENDS FIFOBroadcast, TLC

CONSTANTS p1, p2, p3

Trio == {p1, p2, p3}

\* One source with two messages: reordering, gaps and garbage collection.
OneSource == (p1 :> 2) @@ (p2 :> 0) @@ (p3 :> 0)

\* The processes that broadcast nothing are interchangeable.
Relayers == Permutations({p2, p3})
=============================================================================
