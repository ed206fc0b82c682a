----------------------------- MODULE EntryList -----------------------------
(***************************************************************************)
(* What the writers of memory.MemoryStore are promised, without slices,    *)
(* arrays or a lock: every agent has a list of entries, and each Write and *)
(* each Delete changes the list of its own agent in one atomic step.       *)
(*   - a Write puts its entry at the end;                                  *)
(*   - a Delete takes the first entry with its identifier out, and leaves  *)
(*     the others in their order.                                          *)
(* Memory implements this module.                                          *)
(***************************************************************************)
EXTENDS Naturals, Sequences

CONSTANTS
    Agents,     \* the owners of the lists
    Ids,        \* what Delete names an entry by
    Entry       \* the entries, each with its agent and its id

VARIABLE list   \* agent -> its entries, in the order of their Writes

Init == list = [a \in Agents |-> <<>>]

Write(e) == list' = [list EXCEPT ![e.agent] = Append(@, e)]

First(a, id, i) ==
    /\ i \in DOMAIN list[a] /\ list[a][i].id = id
    /\ \A j \in 1..(i - 1) : list[a][j].id # id

Delete(a, id) ==
    \E i \in 1..Len(list[a]) :
        /\ First(a, id, i)
        /\ list' = [list EXCEPT ![a] = SubSeq(@, 1, i - 1) \o SubSeq(@, i + 1, Len(@))]

Next ==
    \/ \E e \in Entry : Write(e)
    \/ \E a \in Agents, id \in Ids : Delete(a, id)

Spec == Init /\ [][Next]_list
=============================================================================
