---------------------------- MODULE MCProofReplay ----------------------------
(***************************************************************************)
(* Instances of ProofReplay for TLC.                                       *)
(***************************************************************************)
EXTENDS ProofReplay, TLC

\* Lifetimes: born expired, or good for one tick.
MCTTLs == {-1, 1}

\* Calls of one kind, and jtis, are interchangeable.
Symm == Permutations(ReplayChecked) \cup Permutations(Jtis)
             \cup Permutations(Bindings)
=============================================================================
