------------------------- MODULE LatticeApplication -------------------------
(* The lattice agreement application (include/applications/                   *)
(* lattice_agreement.hpp): the main thread proposes the rounds in messages of *)
(* several proposals, as many messages as the rate limiter lets through, and  *)
(* waits for all of them; the callback logs the decisions in round order and  *)
(* keeps those that come early in a cache.                                    *)
(*                                                                            *)
(* Lattice agreement itself is module LatticeAgreement: each round that was   *)
(* proposed is decided once, in any order, and completes the round's future   *)
(* BEFORE it calls the callback (Decide).                                     *)
EXTENDS Naturals, Sequences, FiniteSets

CONSTANTS
    NumProposals,               \* num_proposals
    kMaxNumProposalsInMessage,
    NetworkSize,
    kLinkPacketLimit

VARIABLES
    current_round,       \* current_round of the main thread
    current_fire,        \* current_fire_ of the limiter
    waiting,             \* the main thread is in All(...).Get()
    futures,             \* rounds whose futures the main thread waits for
    undecided,           \* rounds proposed and not decided
    deciding,            \* rounds whose future is set and callback not called yet
    next_round_to_log,
    out_of_order_cache,
    output               \* rounds in the order of their lines

main == <<current_round, current_fire, waiting, futures>>
logging == <<next_round_to_log, out_of_order_cache, output>>
vars == <<main, undecided, deciding, logging>>

Rounds == 0 .. NumProposals - 1

\* LatticeAgreementRateLimiter: messages in one go, at least one.
BatchSize ==
    LET limit == kLinkPacketLimit \div (2 * NetworkSize * NetworkSize)
    IN IF limit >= 1 THEN limit ELSE 1

Init ==
    /\ current_round = 0 /\ current_fire = 0
    /\ waiting = FALSE /\ futures = {}
    /\ undecided = {} /\ deciding = {}
    /\ next_round_to_log = 0 /\ out_of_order_cache = {} /\ output = <<>>

\* The rounds of the next message.
NextMessage == (current_round .. current_round + kMaxNumProposalsInMessage - 1) \intersect Rounds

\* limiter.Fire() and Propose.
Propose ==
    /\ ~waiting /\ current_round < NumProposals /\ current_fire # BatchSize
    /\ current_fire' = current_fire + 1
    /\ current_round' = current_round + Cardinality(NextMessage)
    /\ futures' = futures \union NextMessage
    /\ undecided' = undecided \union NextMessage
    /\ UNCHANGED <<waiting, deciding, logging>>

\* limiter.Reset() and All(futures), which asserts that there are some.
AwaitAll ==
    /\ ~waiting /\ futures # {}
    /\ current_round = NumProposals \/ current_fire = BatchSize
    /\ waiting' = TRUE
    /\ current_fire' = 0
    /\ UNCHANGED <<current_round, futures, undecided, deciding, logging>>

AllDecided == futures \intersect undecided = {}

Proceed ==
    /\ waiting /\ AllDecided
    /\ waiting' = FALSE
    /\ futures' = {}
    /\ UNCHANGED <<current_round, current_fire, undecided, deciding, logging>>

\* Decide: the future first; the callback follows on the same thread, and the
\* decisions are made one at a time.
Decide(round) ==
    /\ round \in undecided /\ deciding = {}
    /\ undecided' = undecided \ {round}
    /\ deciding' = {round}
    /\ UNCHANGED <<main, logging>>

\* The rounds the loop over the cache logs after `round`: those that follow it
\* without a gap.
Follows(round) ==
    {r \in out_of_order_cache : \A q \in round + 1 .. r : q \in out_of_order_cache}

\* A plausible mistake: a decision that comes early is dropped.
DropEarly(round) == out_of_order_cache

CacheEarly(round) == out_of_order_cache \union {round}

\* A plausible mistake: decisions are logged as they come.
NeverEarly(round) == FALSE

Early(round) == round # next_round_to_log

Logged(round) == round + Cardinality(Follows(round))

Callback(round) ==
    /\ round \in deciding
    /\ deciding' = {}
    /\ IF Early(round)
       THEN /\ out_of_order_cache' = CacheEarly(round)
            /\ UNCHANGED <<next_round_to_log, output>>
       ELSE /\ next_round_to_log' = Logged(round) + 1
            /\ output' = output \o [i \in 1 .. Logged(round) - round + 1 |-> round + i - 1]
            /\ out_of_order_cache' = out_of_order_cache \ Follows(round)
    /\ UNCHANGED <<main, undecided>>

\* All rounds are decided: the main thread runs the event loop from then on.
Finished == /\ current_round = NumProposals /\ ~waiting /\ futures = {}
            /\ undecided = {} /\ deciding = {}
            /\ UNCHANGED vars

Next ==
    \/ Propose \/ AwaitAll \/ Proceed
    \/ \E round \in Rounds : Decide(round) \/ Callback(round)
    \/ Finished

----------------------------------------------------------------------------
\* The lines of the output are the rounds in order, none twice and none left
\* out: "the order of the lines in the output file must be the same as the
\* order of the lines (proposals) in the config file" (README.md).
LogInOrder ==
    /\ Len(output) = next_round_to_log
    /\ \A i \in 1 .. Len(output) : output[i] = i - 1

============================================================================
