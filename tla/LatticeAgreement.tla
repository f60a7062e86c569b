-------------------------- MODULE LatticeAgreement --------------------------
(***************************************************************************)
(* LatticeAgreement (include/primitives/lattice_agreement.hpp): every      *)
(* process is proposer and acceptor of a series of independent rounds.     *)
(*                                                                         *)
(* A proposal is a set: the vectors of the code hold no duplicates (see    *)
(* module SetOperation) and only their elements and sizes matter.  A       *)
(* message carries one item per round of a contiguous batch; here the      *)
(* items are a function whose domain is the batch.  The transport callback *)
(* runs on the packet batcher's strand, so one call is one step.  Propose  *)
(* runs on the application's thread; it writes its rounds under            *)
(* round_states_mutex_ before anything about them is sent.                 *)
(*                                                                         *)
(* Messages travel over ReliableTransport: each is handled once, in any    *)
(* order, unless its sender or its receiver crashes.                       *)
(***************************************************************************)
EXTENDS Integers, FiniteSets

CONSTANTS
  Proc,        \* processes
  Value,       \* proposable values
  NumRounds,   \* rounds 0 .. NumRounds - 1
  Scenario,    \* bounds: who is up, who may crash and what is proposed,
               \* as [up, mortal, input]
  MaxBatch     \* most proposals in one call of Propose

Round == 0 .. NumRounds - 1

ASSUME ConstantsAssumption ==
  /\ IsFiniteSet(Proc) /\ Proc # {}
  /\ NumRounds \in Nat /\ MaxBatch \in Nat
  /\ IsFiniteSet(Value)
  /\ \A s \in Scenario : \A p \in Proc :
       /\ s.up \subseteq Proc /\ s.mortal \subseteq Proc
       /\ DOMAIN s.input[p] \subseteq Round
       /\ \A r \in DOMAIN s.input[p] : s.input[p][r] \subseteq Value

VARIABLES
  scenario,  \* the one of Scenario that happens
  sent,      \* every message sent so far
  transit,   \* messages sent and not yet handled or lost
  alive,     \* processes that have not crashed
  rs,        \* rs[p][r]: *round_states_[r] of p
  size,      \* size[p]: round_states_.size()
  current    \* current[p]: first round p has not proposed

vars == <<scenario, sent, transit, alive, rs, size, current>>

\* Input[p][r]: the set p proposes in round r, if r is in its domain.
Input == scenario.input

\* RoundState as its constructor leaves it.
EmptyRound ==
  [active_proposal_number |-> 0, acks |-> 0, nacks |-> 0,
   proposed_value |-> {}, accepted_value |-> {},
   completed |-> FALSE, preliminary_future |-> FALSE]

RoundState ==
  [active_proposal_number : Nat, acks : Nat, nacks : Nat,
   proposed_value : SUBSET Value, accepted_value : SUBSET Value,
   completed : BOOLEAN, preliminary_future : BOOLEAN]

Proposal == [proposed_value : SUBSET Value, active_proposal_number : Nat]

Accept == [status : {"ack", "nack"}, proposal_number : Nat, accepted_value : SUBSET Value]

Init ==
  /\ sent = {}
  /\ transit = {}
  /\ scenario \in Scenario
  /\ alive = scenario.up
  /\ rs = [p \in Proc |-> [r \in Round |-> EmptyRound]]
  /\ size = [p \in Proc |-> 0]
  /\ current = [p \in Proc |-> 0]

Majority == Cardinality(Proc) \div 2 + 1

-----------------------------------------------------------------------------
ProposalMessage(p, d, items) == [type |-> "proposal", src |-> p, dst |-> d, items |-> items]

AcceptMessage(p, d, items) == [type |-> "accept", src |-> p, dst |-> d, items |-> items]

\* BestEffortBroadcast: a Send to every peer and one to the local process.
BestEffortBroadcast(p, items) == {ProposalMessage(p, d, items) : d \in Proc}

Send(handled, msgs) ==
  /\ sent' = sent \cup msgs
  /\ transit' = (transit \ handled) \cup msgs

\* Faulty: rounds created ahead of time get no preliminary future.
GrownBare(p, batch) ==
  [r \in Round |-> IF size[p] <= r /\ \E b \in batch : r <= b THEN EmptyRound ELSE rs[p][r]]

\* GetRoundState for every round of a batch: InitializeEmptyRoundStates creates
\* the missing states up to the last one, with a preliminary future each.
Grown(p, batch) ==
  [r \in Round |->
     IF size[p] <= r /\ \E b \in batch : r <= b
     THEN [EmptyRound EXCEPT !.preliminary_future = TRUE]
     ELSE rs[p][r]]

GrownSize(p, batch) ==
  IF \E b \in batch : size[p] <= b
  THEN CHOOSE n \in 1 .. NumRounds : n - 1 \in batch /\ n \notin batch
  ELSE size[p]

-----------------------------------------------------------------------------
\* Faulty: the proposal is lost if the round exists already.
InitializeOnlyNew(p, r) ==
  IF r < size[p] THEN rs[p][r] ELSE [EmptyRound EXCEPT !.proposed_value = Input[p][r]]

\* InitializeNextRoundState fills a round that an early proposal of another
\* process created, or appends a new one.
InitializeNextRoundState(p, r) ==
  [(IF r < size[p] THEN rs[p][r] ELSE EmptyRound) EXCEPT !.proposed_value = Input[p][r]]

\* Faulty: every proposed round appends a state.
SizeAlwaysAppended(p, n) == size[p] + n

SizeAfterPropose(p, n) == IF size[p] < current[p] + n THEN current[p] + n ELSE size[p]

\* Propose for the next n rounds.
Propose(p, n) ==
  LET batch == current[p] .. (current[p] + n - 1)
      items == [r \in batch |->
                  [proposed_value |-> Input[p][r], active_proposal_number |-> 0]]
  IN  /\ p \in alive
      /\ batch \subseteq DOMAIN Input[p]
      /\ rs' = [rs EXCEPT ![p] =
                  [r \in Round |->
                     IF r \in batch THEN InitializeNextRoundState(p, r) ELSE rs[p][r]]]
      /\ size' = [size EXCEPT ![p] = SizeAfterPropose(p, n)]
      /\ current' = [current EXCEPT ![p] = @ + n]
      /\ Send({}, BestEffortBroadcast(p, items))
      /\ UNCHANGED <<scenario, alive>>

\* Faulty: every proposal is acknowledged.
UnionAlwaysFits(s, i) == TRUE

\* HandlePropose on one round: the union with what was accepted before; equal
\* sizes mean that nothing was missing from the proposal.
UnionFits(s, i) ==
  Cardinality(s.accepted_value \cup i.proposed_value) = Cardinality(i.proposed_value)

AfterPropose(s, i) ==
  [s EXCEPT !.accepted_value = IF UnionFits(s, i) THEN i.proposed_value
                               ELSE @ \cup i.proposed_value]

ReplyTo(s, i) ==
  IF UnionFits(s, i)
  THEN [status |-> "ack", proposal_number |-> i.active_proposal_number,
        accepted_value |-> {}]
  ELSE [status |-> "nack", proposal_number |-> i.active_proposal_number,
        accepted_value |-> s.accepted_value \cup i.proposed_value]

\* HandleProposalMessage: every round of the batch, then one AcceptMessage.
HandleProposalMessage(p, m) ==
  LET batch == DOMAIN m.items
      state == Grown(p, batch)
      reply == [r \in batch |-> ReplyTo(state[r], m.items[r])]
  IN  /\ p \in alive /\ m.dst = p /\ m.type = "proposal"
      /\ rs' = [rs EXCEPT ![p] =
                  [r \in Round |-> IF r \in batch THEN AfterPropose(state[r], m.items[r])
                                   ELSE state[r]]]
      /\ size' = [size EXCEPT ![p] = GrownSize(p, batch)]
      /\ Send({m}, {AcceptMessage(p, m.src, reply)})
      /\ UNCHANGED <<scenario, alive, current>>

\* Faulty: a completed round still counts answers.
CountsWhenCompleted(s, a) == s.active_proposal_number = a.proposal_number

\* HandleAck / HandleNack: a round that is completed, or has moved on to
\* another proposal number, ignores the answer.
Counts(s, a) == ~s.completed /\ s.active_proposal_number = a.proposal_number

Counted(s, a) ==
  IF a.status = "ack"
  THEN [s EXCEPT !.acks = @ + 1]
  ELSE [s EXCEPT !.nacks = @ + 1, !.proposed_value = @ \cup a.accepted_value]

\* Faulty: one acknowledgement too many is asked for.
DecidesLate(s) == s.acks > Majority

\* CheckAckNackConditions.
Decides(s) == s.acks >= Majority

\* Faulty: a refused proposer waits for every process.
MovesOnAfterAll(s) ==
  ~Decides(s) /\ s.nacks > 0 /\ s.acks + s.nacks >= Cardinality(Proc)

MovesOn(s) == ~Decides(s) /\ s.nacks > 0 /\ s.acks + s.nacks >= Majority

Decide(s) == [s EXCEPT !.completed = TRUE]

\* Faulty: acknowledgements of the old number are carried over.
MoveOnKeepingAcks(s) == [s EXCEPT !.active_proposal_number = @ + 1, !.nacks = 0]

MoveToNextProposalNumber(s) ==
  [s EXCEPT !.active_proposal_number = @ + 1, !.acks = 0, !.nacks = 0]

AfterAccept(s, a) ==
  LET c == Counted(s, a)
  IN  CASE ~Counts(s, a)                -> s
        [] Counts(s, a) /\ Decides(c)   -> Decide(c)
        [] Counts(s, a) /\ MovesOn(c)   -> MoveToNextProposalNumber(c)
        [] OTHER                        -> c

\* HandleAcceptMessage: every round of the batch; each round that moves on
\* broadcasts a proposal of its own.
HandleAcceptMessage(p, m) ==
  LET batch == DOMAIN m.items
      state == Grown(p, batch)
      after == [r \in Round |-> IF r \in batch THEN AfterAccept(state[r], m.items[r])
                                ELSE state[r]]
      moved == {r \in batch :
                  after[r].active_proposal_number # state[r].active_proposal_number}
      again(r) == [k \in {r} |->
                     [proposed_value |-> after[r].proposed_value,
                      active_proposal_number |-> after[r].active_proposal_number]]
  IN  /\ p \in alive /\ m.dst = p /\ m.type = "accept"
      /\ rs' = [rs EXCEPT ![p] = after]
      /\ size' = [size EXCEPT ![p] = GrownSize(p, batch)]
      /\ Send({m}, UNION {BestEffortBroadcast(p, again(r)) : r \in moved})
      /\ UNCHANGED <<scenario, alive, current>>

\* A process stops for good; what it had sent may or may not arrive.
Crash(p) ==
  /\ p \in alive \cap scenario.mortal
  /\ alive' = alive \ {p}
  /\ \E lost \in SUBSET {m \in transit : m.src = p} :
       transit' = {m \in transit \ lost : m.dst # p}
  /\ UNCHANGED <<scenario, sent, rs, size, current>>

\* The transport callback for some message that has arrived.
Handle == \E m \in transit : HandleProposalMessage(m.dst, m) \/ HandleAcceptMessage(m.dst, m)

Next ==
  \/ \E p \in Proc : Crash(p) \/ \E n \in 1 .. MaxBatch : Propose(p, n)
  \/ Handle

Spec == Init /\ [][Next]_vars

\* While messages of live processes are under way, some callback runs; no
\* order among them is assumed, and an application need not propose.
FairSpec == Spec /\ WF_vars(Handle)

-----------------------------------------------------------------------------
\* The types of the round states and of the messages.
TypeOK ==
  /\ \A m \in sent :
       /\ m.src \in Proc /\ m.dst \in Proc
       /\ DOMAIN m.items \subseteq Round
       /\ \/ m.type = "proposal" /\ \A r \in DOMAIN m.items : m.items[r] \in Proposal
          \/ m.type = "accept" /\ \A r \in DOMAIN m.items : m.items[r] \in Accept
  /\ transit \subseteq sent
  /\ alive \subseteq Proc
  /\ rs \in [Proc -> [Round -> RoundState]]
  /\ size \in [Proc -> 0 .. NumRounds]
  /\ current \in [Proc -> 0 .. NumRounds]

\* p has sent a proposal for round r under number n with value v.
Proposed(p, r, n, v) ==
  \E m \in sent : /\ m.type = "proposal" /\ m.src = p /\ r \in DOMAIN m.items
                  /\ m.items[r] = [proposed_value |-> v, active_proposal_number |-> n]

\* Acceptors that acknowledged number n of p in round r, and those of them
\* whose answer is no longer under way.
AckMessages(p, r, n) ==
  {m \in sent : /\ m.type = "accept" /\ m.dst = p /\ r \in DOMAIN m.items
                /\ m.items[r].status = "ack" /\ m.items[r].proposal_number = n}

AckersHeard(p, r, n) == {m.src : m \in AckMessages(p, r, n) \ transit}

Completed(p, r) == rs[p][r].completed

Decision(p, r) == rs[p][r].proposed_value

\* Any two decisions of a round are comparable: two majorities share an
\* acceptor, and an acceptor only acknowledges what contains all it accepted.
Comparability ==
  \A r \in Round : \A p, q \in Proc :
    Completed(p, r) /\ Completed(q, r)
      => Decision(p, r) \subseteq Decision(q, r) \/ Decision(q, r) \subseteq Decision(p, r)

\* "Decided set includes the process's own proposal" and contains "only values
\* that were proposed".
Validity ==
  \A p \in Proc, r \in Round :
    Completed(p, r) =>
      /\ Input[p][r] \subseteq Decision(p, r)
      /\ Decision(p, r) \subseteq
           UNION {Input[q][r] : q \in {o \in Proc : r < current[o]}}

\* acks counts distinct acceptors that acknowledged the active number; answers
\* to an abandoned number never add to it.
AcksAreDistinct ==
  \A p \in Proc, r \in Round :
    rs[p][r].acks <= Cardinality(AckersHeard(p, r, rs[p][r].active_proposal_number))

\* callback_ reports proposed_value, which nacks enlarge; no decision is ever
\* taken on a value larger than the one that the acknowledgements were for.
DecisionWasProposed ==
  \A p \in Proc, r \in Round :
    Completed(p, r) =>
      /\ rs[p][r].nacks = 0
      /\ Proposed(p, r, rs[p][r].active_proposal_number, Decision(p, r))

\* The assertions of InitializeNextRoundState: when Propose reaches a round,
\* either its state exists and holds the preliminary future of an early
\* proposal, or it is exactly the next element of round_states_.
AssertsHold ==
  \A p \in Proc :
    /\ current[p] <= size[p]
    /\ \A r \in current[p] .. size[p] - 1 : rs[p][r].preliminary_future

\* A decided round never changes its outcome, whatever late answers arrive.
DecisionFinal ==
  [][\A p \in Proc, r \in Round :
       Completed(p, r) => Completed(p, r)' /\ Decision(p, r)' = Decision(p, r)]_vars

\* What the processes that are up have proposed is decided.
Settled ==
  \A p \in alive, r \in Round : r < current[p] => Completed(p, r)

\* Every proposal of a process that stays up is decided, as long as a majority
\* stays up: again and again nothing is left undecided (the rounds being
\* bounded, that is so for good in the end).
Termination == []<>(Settled \/ Cardinality(alive) < Majority)
=============================================================================
