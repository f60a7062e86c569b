--------------------------- MODULE FIFOBroadcast ---------------------------
(***************************************************************************)
(* FIFOBroadcast (include/primitives/fifo_broadcast.hpp) on top of         *)
(* UniformReliableBroadcast.  The uniform broadcast calls back             *)
(* synchronously, so the delivery branch of its handler, the reordering    *)
(* loop, CleanDeliveredPrefix and the completion of the broadcaster's      *)
(* promise are one step of the receiving process.                          *)
(***************************************************************************)
EXTENDS UniformReliableBroadcast, Sequences

CONSTANT Mortal   \* processes that may crash

ASSUME MortalAssumption == Mortal \subseteq Proc

VARIABLES
  pendings,   \* pendings[p][s]: keys of the ordered map pendings_[s]
  next_ids,   \* next_ids[p][s]: next_ids_[s], 0 where absent
  entries,    \* entries[p]: keys of broadcast_message_entries_
  handed      \* history: handed[p][s], the ids of s given to callback_, in turn

fifoVars == <<pendings, next_ids, entries, handed>>
vars == <<urbVars, fifoVars>>

FifoType ==
  /\ pendings \in [Proc -> [Proc -> SUBSET Nat]]
  /\ next_ids \in [Proc -> [Proc -> Nat]]
  /\ entries \in [Proc -> SUBSET Nat]
  /\ handed \in [Proc -> [Proc -> Seq(Nat)]]

Init ==
  /\ UrbInit
  /\ pendings = [p \in Proc |-> [s \in Proc |-> {}]]
  /\ next_ids = [p \in Proc |-> [s \in Proc |-> 0]]
  /\ entries = [p \in Proc |-> {}]
  /\ handed = [p \in Proc |-> [s \in Proc |-> <<>>]]

-----------------------------------------------------------------------------
\* Broadcast: register the promise under the new identifier, then hand the
\* message to the uniform broadcast.
Broadcast(p) ==
  /\ UrbBroadcast(p)
  /\ entries' = [entries EXCEPT ![p] = @ \cup {ids[p]}]
  /\ UNCHANGED <<pendings, next_ids, handed>>

\* begin()->first of an empty map: libstdc++ keeps the number of nodes there.
EndKey == 0

\* The loop over pendings_[s] from begin(): with next expected id `from' it
\* delivers from, from + 1, ..., to - 1 and leaves next_ids_[s] = to.  It only
\* looks at the smallest key, so an older key in the map stops it at once.  An
\* empty map does not: were EndKey the next id, the loop would go on with an
\* entry that is not there, and stop anywhere.
DrainStops(held, from, to) ==
  IF \E k \in held : k < from
  THEN to = from
  ELSE held # {} \/ from # EndKey =>
         from <= to /\ from .. (to - 1) \subseteq held /\ to \notin held

\* Faulty: only the first message of a run completes its promise.
CompleteFirstEntry(p, s, ready) ==
  entries' = IF s = p THEN [entries EXCEPT ![p] = @ \ {k \in ready : \A j \in ready : k <= j}]
             ELSE entries

\* Deliver for own messages: take the promise and fulfil it.
CompleteEntries(p, s, ready) ==
  entries' = IF s = p THEN [entries EXCEPT ![p] = @ \ ready] ELSE entries

\* Faulty: a message beyond the expected one passes for it.
IsNotOld(p, m) == next_ids[p][m[1]] <= m[2]

\* m is the next message of its source.
IsNext(p, m) == next_ids[p][m[1]] = m[2]

\* pendings_[s] when the loop starts: a message out of order is kept there.
Buffered(p, m) ==
  IF IsNext(p, m) THEN pendings[p][m[1]] ELSE pendings[p][m[1]] \cup {m[2]}

\* next_ids_[s] when the loop starts.
NextExpected(p, m) ==
  IF IsNext(p, m) THEN next_ids[p][m[1]] + 1 ELSE next_ids[p][m[1]]

\* The ids from, from + 1, ..., to - 1.
Span(from, to) == [i \in 1 .. (to - from) |-> from + i - 1]

\* The ids delivered, in turn: that of the message if it is the next one, and
\* those the loop takes from the buffer.
Ready(p, m, to) ==
  (IF IsNext(p, m) THEN <<m[2]>> ELSE <<>>) \o Span(NextExpected(p, m), to)

\* GetUniformReliableBroadcastCallback for message m of source s.
UrbCallback(p, m) ==
  LET s    == m[1]
      from == NextExpected(p, m)
      held == Buffered(p, m)
  IN  \E to \in 0 .. Limit[s] :
        LET ready == Ready(p, m, to)
        IN  /\ DrainStops(held, from, to)
            /\ next_ids' = [next_ids EXCEPT ![p][s] = to]
            /\ pendings' = [pendings EXCEPT ![p][s] = held \ (from .. (to - 1))]
            /\ handed' = [handed EXCEPT ![p][s] = @ \o ready]
            /\ CompleteEntries(p, s, {ready[i] : i \in DOMAIN ready})
            /\ IF ready = <<>>
               THEN UNCHANGED toClean
               ELSE CleanDeliveredPrefix(p, s, ready[Len(ready)])

Deliver(p, q, m) == UrbDeliver(p, q, m) /\ UrbCallback(p, m)

\* The best-effort-broadcast callback of p for message m relayed by q.
Receive(p, q, m) ==
  \/ DropDelivered(p, q, m) /\ UNCHANGED fifoVars
  \/ Relay(p, q, m) /\ UNCHANGED fifoVars
  \/ CountAck(p, q, m) /\ UNCHANGED fifoVars
  \/ Deliver(p, q, m)

Stop(p) ==
  /\ p \in Mortal
  /\ Crash(p)
  /\ UNCHANGED <<ids, pending, acks, delivered, cleaned, toClean, fifoVars>>

ReceiveAny == \E p, q \in Proc, m \in Identifier : Receive(p, q, m)

Next == ReceiveAny \/ \E p \in Proc : Broadcast(p) \/ Stop(p)

Spec == Init /\ [][Next]_vars

-----------------------------------------------------------------------------
\* The types of the maps and sets of both layers.
TypeOK == UrbType /\ FifoType

Held(p, m) == m \in pending[p] \/ WasDelivered(p, m)

Holders(m) == {q \in Proc : Held(q, m)}

\* Processes whose copy of m is no longer on its way to p.
Heard(p, m) == {q \in Holders(m) : transit[q][p][m] = 0}

\* "Either delivered by all processes or by none" rests on this: when a process
\* counts a majority in acks_ and delivers, a majority of the processes already
\* keeps (or kept) the message in pending_ and has relayed it.
UniformMajority ==
  \A p \in Proc, m \in Identifier :
    WasDelivered(p, m) => 2 * Cardinality(Holders(m)) > Cardinality(Proc)

\* A count in acks_ never exceeds the number of distinct processes heard from:
\* nobody relays an identifier twice, so no process votes twice.
AcksAreDistinctRelays ==
  \A p \in Proc, m \in Identifier : acks[p][m] <= Cardinality(Heard(p, m))

\* The garbage-collected record (delivered_ and the cleaned prefix) and the
\* reordering buffer tell the same story: what the uniform layer delivered is
\* what FIFO delivered plus what waits in pendings_, and everything that waits
\* is beyond the next expected id.  A second delivery of an id would break it,
\* and leave an old key at begin() that blocks the source for ever; so would a
\* loop that takes the header of an emptied map for an entry.  And a late copy
\* recreates no entry of pending_ or acks_.
RecordMatchesFifo ==
  \A p \in Proc, m \in Identifier :
    /\ WasDelivered(p, m) <=> m[2] < next_ids[p][m[1]] \/ m[2] \in pendings[p][m[1]]
    /\ m[2] \in pendings[p][m[1]] => next_ids[p][m[1]] < m[2]
    /\ WasDelivered(p, m) => m \notin pending[p] /\ acks[p][m] = 0

\* The promise of a broadcast is outstanding exactly while the broadcaster has
\* not itself FIFO-delivered the message.
PromisesMatchDeliveries ==
  \A p \in Proc : entries[p] = next_ids[p][p] .. (ids[p] - 1)

Service == INSTANCE FIFOService WITH sent <- ids, got <- handed, up <- alive

\* The protocol implements FIFOService: what the processes hand to callback_ is
\* what was broadcast, in order, without gaps or repetitions.
ImplementsService == Service!Spec

\* Validity and uniform agreement.  Every callback uses up a message and sends
\* only finitely many, so the system comes to rest; and then nobody who is up
\* owes a delivery: they have delivered all that live sources broadcast, and all
\* that anybody delivered, even one that crashed.
AgreementAtRest ==
  (\A p \in alive, q \in Proc, m \in Identifier : transit[q][p][m] = 0) =>
    \A p \in alive, s \in Proc :
      /\ s \in alive => next_ids[p][s] = ids[s]
      /\ \A q \in Proc : next_ids[q][s] <= next_ids[p][s]
=============================================================================
