------------------------ MODULE BestEffortBroadcast ------------------------
(***************************************************************************)
(* BestEffortBroadcast (include/primitives/best_effort_broadcast.hpp) over *)
(* the links that ReliableTransport promises: a message sent by a process  *)
(* that stays up is handed to the callback of its destination exactly      *)
(* once, in any order.  A process that crashes stops retrying, so any part *)
(* of what it still had in transit may be lost: in particular a crash      *)
(* between two Send calls of one Broadcast is a crash that loses the       *)
(* messages not yet sent.                                                  *)
(***************************************************************************)
EXTENDS Naturals, FiniteSets

CONSTANTS
  Proc,     \* HostsTable: every host, the local one included
  Payload   \* what a broadcast carries

VARIABLES
  transit,  \* transit[s][d][m]: copies of m under way from s to d
  alive     \* processes that have not crashed

BebType ==
  /\ transit \in [Proc -> [Proc -> [Payload -> Nat]]]
  /\ alive \in SUBSET Proc

BebInit ==
  /\ transit = [s \in Proc |-> [d \in Proc |-> [m \in Payload |-> 0]]]
  /\ alive = Proc

\* Broadcast: one Send per peer, then one to the local process, which
\* ReliableTransport::Send loops back through the packet batcher.
BebBroadcast(t, p, m) ==
  [t EXCEPT ![p] = [d \in Proc |-> [t[p][d] EXCEPT ![m] = @ + 1]]]

\* The transport hands one message from q to the callback of p.
BebTake(t, p, q, m) == [t EXCEPT ![q][p][m] = @ - 1]

\* Faulty: the callback runs although nothing arrived.
CanTakeUnsent(p, q, m) == p \in alive

CanTake(p, q, m) ==
  /\ p \in alive
  /\ transit[q][p][m] > 0

\* A process stops for good.  The links towards it are dead; of what it sent
\* an arbitrary part is still delivered.
Crash(p) ==
  /\ p \in alive
  /\ alive' = alive \ {p}
  /\ \E kept \in SUBSET {l \in Proc \X Payload : transit[p][l[1]][l[2]] > 0} :
       transit' = [s \in Proc |-> [d \in Proc |-> [m \in Payload |->
                     IF d = p \/ (s = p /\ <<d, m>> \notin kept)
                     THEN 0 ELSE transit[s][d][m]]]]
=============================================================================
