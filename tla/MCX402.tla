------------------------------- MODULE MCX402 -------------------------------
(***************************************************************************)
(* An instance of X402 for TLC, under the default rules of the PDP: a read *)
(* that is approved at once and a payment that needs a human, whose        *)
(* envelope expires while the request is parked.                           *)
(***************************************************************************)
EXTENDS X402, TLC

Shopper == svidOf(<<"svc", "shopper">>)
Rival == svidOf(<<"svc", "rival">>)
MCPrice == <<"payment", ":", "AGENT_CREDIT", ":", "500">>

ReadTask == [svid |-> Shopper, scope |-> <<"catalog", ":", "read">>, exp |-> 2]
PayTask == [svid |-> Shopper, scope |-> MCPrice, exp |-> 1]
MCTasks == {ReadTask, PayTask}

\* The shopper's own token, which outlives its proofs, and that of another agent.
MCAgentTokens == {[sub |-> Shopper, exp |-> 2], [sub |-> Rival, exp |-> 2]}

Symm == Permutations(Callers) \cup Permutations(ReqIds) \cup
        Permutations(TokenIds) \cup Permutations(Jtis)
=============================================================================
