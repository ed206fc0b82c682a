--------------------------- MODULE MCTokenExchange ---------------------------
(* A domain whose one authority signs tokens of every role. *)
EXTENDS TokenExchange, TLC

CONSTANTS alice, bob, planner, helper, domain, read, write

MCConsents == {{read}}
MCRequests == {{}, {write}}

OneAuthority == [r \in Roles |-> domain]
Symm == Permutations(Users) \cup Permutations(Agents) \cup Permutations(Salts)
=============================================================================
