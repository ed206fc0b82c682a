---------------------------- MODULE MCFederation ----------------------------
(* An instance of Federation for TLC: one entity under two anchors. *)
EXTENDS Federation, TLC

CONSTANTS idp, other, anchor, second, rogue, oldKey, newKey

EC(k, h, t) == [key |-> k, hints |-> h, exp |-> t]
SS(a, e, k, t) == [signer |-> a, sub |-> e, key |-> k, exp |-> t]

\* A key rotation: the new configuration names one anchor less, and the rogue.
MCECs == {EC(oldKey, <<anchor, second>>, 2), EC(newKey, <<rogue, second>>, 1)}
\* The anchors certify the old key, the new one, or another entity's.
MCSSs == {SS(anchor, other, oldKey, 2), SS(anchor, idp, newKey, 2),
          SS(second, idp, oldKey, 1), SS(second, idp, newKey, 2)}

Symm == Permutations(Callers)
=============================================================================
