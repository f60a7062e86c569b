---------------------------- MODULE Applications ----------------------------
(* The program (src/main.cpp): the mode on the command line selects one of the *)
(* three applications, which then runs alone.  The variables of the other two  *)
(* keep their initial values.                                                  *)
EXTENDS Naturals, Sequences, FiniteSets

CONSTANTS
    NumMessages, NumProposals,               \* of the run configuration
    kNumMessages, kMaxNumProposalsInMessage, PerMessage,
    NetworkSize, kLinkPacketLimit, kBatchSize

ASSUME ConfigurationAssumption ==
    /\ NumMessages \in Nat /\ NumProposals \in Nat
    /\ kNumMessages \in Nat \ {0} /\ kMaxNumProposalsInMessage \in Nat \ {0}
    /\ PerMessage \in Nat \ {0} /\ kBatchSize \in Nat \ {0}
    /\ NetworkSize \in Nat \ {0, 1} /\ kLinkPacketLimit \in Nat

VARIABLES
    mode,
    current_payload, current_fire, waiting, futures, output,
    pc, num_broadcast, num_completed, num_delivered,
    current_round, undecided, deciding, next_round_to_log, out_of_order_cache,
    acks, accepted, confirmed, delivered, sent_log, received_log

fifo == <<pc, num_broadcast, num_completed, num_delivered>>
lattice == <<current_round, undecided, deciding, next_round_to_log, out_of_order_cache>>
links == <<acks, accepted, confirmed, delivered, sent_log, received_log>>
vars == <<mode, current_payload, current_fire, waiting, futures, output, fifo, lattice, links>>

FIFO == INSTANCE FIFOApplication
Lattice == INSTANCE LatticeApplication
PerfectLinks == INSTANCE PerfectLinksApplication WITH BatchSize <- kBatchSize

Init ==
    /\ mode \in {"PERFECT_LINKS", "FIFO", "LATTICE"}
    /\ FIFO!Init /\ Lattice!Init /\ PerfectLinks!Init

Run ==
    \/ mode = "FIFO" /\ FIFO!Next /\ UNCHANGED <<waiting, lattice, links>>
    \/ mode = "LATTICE" /\ Lattice!Next /\ UNCHANGED <<current_payload, fifo, links>>
    \/ /\ mode = "PERFECT_LINKS" /\ PerfectLinks!Next
       /\ UNCHANGED <<current_fire, futures, output, fifo, lattice>>

Next == Run /\ UNCHANGED mode

Spec == Init /\ [][Next]_vars

\* The main thread goes on, and so do the services below it, which deliver what
\* is broadcast and decide what is proposed (AgreementAtRest of FIFOBroadcast,
\* Termination of LatticeAgreement).  Of the link this is an assumption: PerfectLink
\* promises no delivery, and a channel may give up (EventualDelivery); it confirms
\* what is queued while its handlers are not given up (QueuedIsConfirmed).  No run
\* of an application goes on for ever, so nothing need be assumed of the order of
\* their steps.
FairSpec == Spec /\ WF_vars(Next)

----------------------------------------------------------------------------
\* Log s holds each line of t, which has none twice, once, in any order.
IsReordering(s, t) ==
    Len(s) = Len(t) /\ \A i \in DOMAIN t : \E j \in DOMAIN s : s[j] = t[i]

\* The log of the FIFO application counts (FIFOApplication).
FIFOLogCounts == mode = "FIFO" => FIFO!LogCounts

\* The log of the lattice agreement application is in round order, whatever the
\* order of the decisions (LatticeApplication).
DecisionsLoggedInOrder == mode = "LATTICE" => Lattice!LogInOrder

\* "Sender processes send messages 1 to m in order."
SendsOneToM == mode = "PERFECT_LINKS" => PerfectLinks!LogsOneToM

\* In the end each application has logged everything it was asked to: every
\* payload broadcast and delivered from each source, every decision, every
\* payload sent and received, up to the end of the last message of the links.  No
\* thread waits for a batch that is never over, nothing is left behind in a cache,
\* and messages that overtake one another are logged once each.
EverythingIsLogged ==
    <>(CASE mode = "FIFO" ->
              /\ Len(FIFO!Logged("b", "self")) = NumMessages
              /\ \A source \in FIFO!Source : Len(FIFO!Logged("d", source)) = NumMessages
         [] mode = "LATTICE" -> Len(output) = NumProposals
         [] mode = "PERFECT_LINKS" ->
              /\ sent_log = PerfectLinks!Filled
              /\ IsReordering(received_log, sent_log))
============================================================================
