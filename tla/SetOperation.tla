---------------------------- MODULE SetOperation ----------------------------
(* Sets as vectors (include/util/set_operation.hpp), and the use lattice       *)
(* agreement makes of them: an acceptor decides between ack and nack by        *)
(* comparing the SIZE of the union with the size of the proposal.  Module      *)
(* LatticeAgreement takes values as sets on the strength of what is checked    *)
(* here.                                                                       *)
EXTENDS Naturals, FiniteSets, Sequences
LOCAL INSTANCE SequencesExt

\* A plausible mistake: the elements are appended without looking them up.
AppendAll(lhs, rhs) == lhs \o rhs

\* The hashes are those of lhs before the loop and are not updated in it.
VectorSetUnion(lhs, rhs) == lhs \o SelectSeq(rhs, LAMBDA x : x \notin ToSet(lhs))

VectorSetLessOrEquals(lhs, rhs) == \A i \in DOMAIN lhs : lhs[i] \in ToSet(rhs)

\* HandlePropose: the proposal is acknowledged.
Acknowledged(accepted, proposed) == Len(VectorSetUnion(accepted, proposed)) = Len(proposed)

\* A set of the configuration file or of a message, in any order and without
\* repeats.  "Each proposal is a set of positive integers", says the documentation;
\* ReadProposalFromInput takes the integers of a line as they come, and with
\* repeats among them sizes would no longer tell what is contained.
Vectors(set) == {v \in [1 .. Cardinality(set) -> set] : ToSet(v) = set}

\* The vectors of two sets behave as the sets: their union holds the elements of
\* both and repeats none, so that its size means what HandlePropose takes it to
\* mean, and a proposal is acknowledged exactly if it contains all that was
\* accepted before.
AgreeWithSets(accepted, proposed) ==
    \A lhs \in Vectors(accepted), rhs \in Vectors(proposed) :
        LET union == VectorSetUnion(lhs, rhs)
        IN  /\ union \in Vectors(accepted \union proposed)
            /\ VectorSetLessOrEquals(lhs, rhs) <=> accepted \subseteq proposed
            /\ Acknowledged(lhs, rhs) <=> accepted \subseteq proposed
============================================================================
