---------------------- MODULE UniformReliableBroadcast ----------------------
(***************************************************************************)
(* UniformReliableBroadcast (include/primitives/                           *)
(* uniform_reliable_broadcast.hpp): majority-acknowledged relaying with a  *)
(* garbage-collected record of what was delivered.  The module holds the   *)
(* state of every process and the branches of the best-effort-broadcast    *)
(* callback; the client above (FIFOBroadcast) supplies what callback_ does.*)
(*                                                                         *)
(* A message is its URBIdentifier: the bytes are a function of it.  The    *)
(* callback runs on the packet batcher's strand (module Strand), so one    *)
(* call is one step.  Broadcast runs on an application thread, but all it  *)
(* writes before its first Send is read only by a callback for the new     *)
(* identifier, which no message carries yet; it is one step as well.       *)
(***************************************************************************)
EXTENDS Integers, FiniteSets

CONSTANTS
  Proc,     \* processes
  Limit     \* Limit[p]: how many messages p broadcasts (bounds ids_)

ASSUME ProcAssumption == IsFiniteSet(Proc) /\ Proc # {}
ASSUME LimitAssumption == Limit \in [Proc -> Nat]

VARIABLES
  transit, alive,  \* see BestEffortBroadcast
  ids,             \* ids[p]: next value of LocalUniqueID ids_
  pending,         \* keys of pending_
  acks,            \* acks_, 0 where the map has no entry
  delivered,       \* delivered_
  cleaned,         \* delivered_prefix_cleaned_, None where absent
  toClean          \* delivered_prefix_to_clean_, None where absent

urbVars == <<transit, alive, ids, pending, acks, delivered, cleaned, toClean>>

Identifier == UNION {{s} \X (0 .. Limit[s] - 1) : s \in Proc}

INSTANCE BestEffortBroadcast WITH Payload <- Identifier

None == -1

UrbType ==
  /\ BebType
  /\ ids \in [Proc -> Nat]
  /\ \A p \in Proc : ids[p] <= Limit[p]
  /\ pending \in [Proc -> SUBSET Identifier]
  /\ acks \in [Proc -> [Identifier -> Nat]]
  /\ delivered \in [Proc -> SUBSET Identifier]
  /\ cleaned \in [Proc -> [Proc -> Nat \cup {None}]]
  /\ toClean \in [Proc -> [Proc -> Nat \cup {None}]]

UrbInit ==
  /\ BebInit
  /\ ids = [p \in Proc |-> 0]
  /\ pending = [p \in Proc |-> {}]
  /\ acks = [p \in Proc |-> [m \in Identifier |-> 0]]
  /\ delivered = [p \in Proc |-> {}]
  /\ cleaned = [p \in Proc |-> [s \in Proc |-> None]]
  /\ toClean = [p \in Proc |-> [s \in Proc |-> None]]

\* Faulty: half of the processes is enough.
CanDeliverHalf(n) == n >= Cardinality(Proc) \div 2

CanDeliver(n) == n > Cardinality(Proc) \div 2

WasDelivered(p, m) == cleaned[p][m[1]] >= m[2] \/ m \in delivered[p]

-----------------------------------------------------------------------------
GetNextID(p) == ids[p]

\* Faulty: a message being relayed is not remembered.
RememberNothing(p, m) == pending

Remember(p, m) == [pending EXCEPT ![p] = @ \cup {m}]

\* Broadcast with the identifier GetNextID returns.
UrbBroadcast(p) ==
  LET m == <<p, GetNextID(p)>>
  IN  /\ p \in alive
      /\ ids[p] < Limit[p]
      /\ ids' = [ids EXCEPT ![p] = @ + 1]
      /\ pending' = Remember(p, m)
      /\ transit' = BebBroadcast(transit, p, m)
      /\ UNCHANGED <<alive, acks, delivered, cleaned, toClean>>

\* DeliveredGarbageCollection forgets the identifiers of source s up to the
\* prefix the client asked to clean and remembers the prefix instead.
CollectedIds(p, s) ==
  {m \in delivered[p] : m[1] = s /\ cleaned[p][s] < m[2] /\ m[2] <= toClean[p][s]}

\* Faulty: one id too many is taken for delivered.
CollectedPrefixTooFar(p, s) ==
  IF cleaned[p][s] < toClean[p][s] THEN toClean[p][s] + 1 ELSE cleaned[p][s]

CollectedPrefix(p, s) ==
  IF cleaned[p][s] < toClean[p][s] THEN toClean[p][s] ELSE cleaned[p][s]

\* WasDelivered asked again, after the collection.
DeliveredAfterCollect(p, m) ==
  CollectedPrefix(p, m[1]) >= m[2] \/ m \in delivered[p] \ CollectedIds(p, m[1])

Collect(p, s) == cleaned' = [cleaned EXCEPT ![p][s] = CollectedPrefix(p, s)]

\* The callback, first return: a late copy of a delivered message.
DropDelivered(p, q, m) ==
  /\ CanTake(p, q, m)
  /\ WasDelivered(p, m)
  /\ transit' = BebTake(transit, p, q, m)
  /\ UNCHANGED <<alive, ids, pending, acks, delivered, cleaned, toClean>>

\* What the other branches share: garbage collection, then the ack count.
Acknowledge(p, q, m) ==
  /\ CanTake(p, q, m)
  /\ ~WasDelivered(p, m)
  /\ Collect(p, m[1])
  /\ UNCHANGED <<alive, ids>>

\* Faulty: a new message is not sent on.
RelayNothing(t, p, m) == t

RelayTo(t, p, m) == BebBroadcast(t, p, m)

\* A message this process has not seen: remember it and relay it.
Relay(p, q, m) ==
  /\ Acknowledge(p, q, m)
  /\ m \notin pending[p]
  /\ pending' = Remember(p, m)
  /\ acks' = [acks EXCEPT ![p][m] = @ + 1]
  /\ delivered' = [delivered EXCEPT ![p] = @ \ CollectedIds(p, m[1])]
  /\ transit' = RelayTo(BebTake(transit, p, q, m), p, m)
  /\ UNCHANGED toClean

\* A relayed message whose copies are still too few.
CountAck(p, q, m) ==
  /\ Acknowledge(p, q, m)
  /\ m \in pending[p]
  /\ ~CanDeliver(acks[p][m] + 1) \/ DeliveredAfterCollect(p, m)
  /\ acks' = [acks EXCEPT ![p][m] = @ + 1]
  /\ delivered' = [delivered EXCEPT ![p] = @ \ CollectedIds(p, m[1])]
  /\ transit' = BebTake(transit, p, q, m)
  /\ UNCHANGED <<pending, toClean>>

EraseAcks(p, m) == [acks EXCEPT ![p][m] = 0]

\* A majority of copies arrived: deliver.  callback_ decides toClean'.
UrbDeliver(p, q, m) ==
  /\ Acknowledge(p, q, m)
  /\ m \in pending[p]
  /\ CanDeliver(acks[p][m] + 1)
  /\ ~DeliveredAfterCollect(p, m)
  /\ delivered' = [delivered EXCEPT ![p] = (@ \ CollectedIds(p, m[1])) \cup {m}]
  /\ pending' = [pending EXCEPT ![p] = @ \ {m}]
  /\ acks' = EraseAcks(p, m)
  /\ transit' = BebTake(transit, p, q, m)

\* CleanDeliveredPrefix, called from callback_ for each delivered id in turn;
\* the last call wins.
CleanDeliveredPrefix(p, s, prefix) ==
  toClean' = [toClean EXCEPT ![p][s] = prefix]
=============================================================================
