------------------------- MODULE MCLatticeAgreement -------------------------
(* Instances of LatticeAgreement for TLC. *)
EXTENDS LatticeAgreement, SetOperation, TLC

CONSTANTS p1, p2, p3

\* Two proposers and a process that only accepts.
TwoProposers == (p1 :> (0 :> {p1})) @@ (p2 :> (0 :> {p2})) @@ (p3 :> <<>>)

\* Comparable proposals: only p1 can be refused.
Nested == (p1 :> (0 :> {p1})) @@ (p2 :> (0 :> {p1, p2})) @@ (p3 :> <<>>)

\* p1 proposes in two rounds, one by one or as a batch; p2 may learn of both
\* before it proposes itself.
TwoRounds == (p1 :> ((0 :> {p1}) @@ (1 :> {p1}))) @@ (p2 :> (0 :> {p2})) @@ (p3 :> <<>>)

OneRound == {[up |-> Proc, mortal |-> {}, input |-> TwoProposers]}

\* One round in which p1 may crash; two rounds with p3 down from the start.
CrashOrBatch ==
  {[up |-> Proc, mortal |-> {p1}, input |-> Nested],
   [up |-> {p1, p2}, mortal |-> {}, input |-> TwoRounds]}

\* A proposal under way is answered by the code, which works on vectors in any
\* order (VectorSetUnion, HandlePropose), as by LatticeAgreement on sets.
VectorsAreSets ==
  \A m \in {n \in transit : n.type = "proposal"} : \A r \in DOMAIN m.items :
    AgreeWithSets(rs[m.dst][r].accepted_value, m.items[r].proposed_value)

Proposers == Permutations({p1, p2})
=============================================================================
