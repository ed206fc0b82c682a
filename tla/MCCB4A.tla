------------------------------- MODULE MCCB4A -------------------------------
(* Instances of CB4A for TLC, under the default rules of the PDP. *)
EXTENDS CB4A, TLC

Task(path, scope) == [svid |-> svidOf(path), scope |-> scope, exp |-> 2]

\* A write, parked for a human, and a read by an administrator, parked for MFA.
WriteTasks == {Task(<<"svc", "billing">>, <<"billing", ":", "invoices", ":", "write">>)}
AdminTasks == {Task(<<"admin", "deployer">>, <<"billing", ":", "invoices", ":", "read">>)}

Symm == Permutations(Callers) \cup Permutations(ReqIds) \cup
        Permutations(TokenIds) \cup Permutations(Jtis)
=============================================================================
