------------------------------ MODULE MCMemory ------------------------------
(* Instances of Memory for TLC. *)
EXTENDS Memory, TLC

Symm == Permutations(Callers) \cup Permutations(Agents)
            \cup Permutations(Ids) \cup Permutations(Serials)
=============================================================================
