---------------------------- MODULE FIFOService ----------------------------
(***************************************************************************)
(* What FIFO broadcast promises its application: every process delivers    *)
(* the messages of every source in the order they were broadcast, without  *)
(* gaps or repetitions, and what one process delivers (even one that       *)
(* crashes later) every process that stays up delivers.                    *)
(***************************************************************************)
EXTENDS Naturals, Sequences

CONSTANT Proc

VARIABLES
  sent,  \* sent[p]: how many messages p has broadcast
  got,   \* got[p][s]: the messages of s that p has delivered, in turn
  up     \* processes that have not crashed

service == <<sent, got, up>>

Init ==
  /\ sent = [p \in Proc |-> 0]
  /\ got = [p \in Proc |-> [s \in Proc |-> <<>>]]
  /\ up = Proc

\* The first n messages of a source, in the order they were broadcast.
First(n) == [i \in 1 .. n |-> i - 1]

Submit(p) ==
  /\ p \in up
  /\ sent' = [sent EXCEPT ![p] = @ + 1]
  /\ UNCHANGED <<got, up>>

\* The next messages of s, in order; several may become deliverable at once.
Deliver(p, s) ==
  /\ p \in up
  /\ \E n \in Len(got[p][s]) + 1 .. sent[s] : got' = [got EXCEPT ![p][s] = First(n)]
  /\ UNCHANGED <<sent, up>>

Fail(p) ==
  /\ p \in up
  /\ up' = up \ {p}
  /\ UNCHANGED <<sent, got>>

Next == \E p \in Proc : Submit(p) \/ Fail(p) \/ \E s \in Proc : Deliver(p, s)

Spec == Init /\ [][Next]_service
=============================================================================
