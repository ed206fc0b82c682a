------------------------------ MODULE Resolver ------------------------------
(***************************************************************************)
(* What a federation.Resolver (pkg/federation/resolver.go:33) promises to  *)
(* the gateway that calls it, without caches, fetches or a registry: each  *)
(* call is given, in one step and for good, either no entity or one that   *)
(* an anchor vouches for.                                                  *)
(*   - the entity's key is the one of a configuration and a statement that *)
(*     are a trust chain and were known together;                          *)
(*   - neither had expired when the call began, nor expires before the     *)
(*     time until which the entity may be kept.                            *)
(* Federation implements this module with either of its resolvers.         *)
(***************************************************************************)
EXTENDS TrustChain

VARIABLES
    time,       \* the wall clock
    known,      \* <<e, ec, ss>>: chains for e that have been known
    asked,      \* call -> the entity it is to resolve
    since,      \* call -> when it was made
    outcome,    \* call -> "open" until it is "resolved" or has "failed"
    given       \* call -> the entity it is given

vars == <<time, known, asked, since, outcome, given>>

Init ==
    /\ time = 0
    /\ \A t \in known : Chain(t[1], t[2], t[3])
    /\ asked = [c \in Callers |-> None]
    /\ since = [c \in Callers |-> 0]
    /\ outcome = [c \in Callers |-> "open"]
    /\ given = [c \in Callers |-> None]

Tick ==
    /\ time' = time + 1
    /\ UNCHANGED <<known, asked, since, outcome, given>>

\* An entity and its anchor issue statements that are a chain.
Learn ==
    /\ known \subseteq known'
    /\ \A t \in known' \ known : Chain(t[1], t[2], t[3])
    /\ UNCHANGED <<time, asked, since, outcome, given>>

Ask(c, e) ==
    /\ asked[c] = None
    /\ asked' = [asked EXCEPT ![c] = e]
    /\ since' = [since EXCEPT ![c] = time]
    /\ UNCHANGED <<time, known, outcome, given>>

Open(c) == asked[c] # None /\ outcome[c] = "open"

Answer(c, r) ==
    /\ Open(c)
    /\ <<asked[c], r.ec, r.ss>> \in known
    /\ r.key = r.ec.key /\ r.key = r.ss.key
    /\ r.exp <= r.ec.exp /\ r.exp <= r.ss.exp /\ since[c] < r.exp
    /\ outcome' = [outcome EXCEPT ![c] = "resolved"]
    /\ given' = [given EXCEPT ![c] = r]
    /\ UNCHANGED <<time, known, asked, since>>

Refuse(c) ==
    /\ Open(c)
    /\ outcome' = [outcome EXCEPT ![c] = "failed"]
    /\ UNCHANGED <<time, known, asked, since, given>>

\* The caller is done with what it was given.
Forget(c) ==
    /\ outcome[c] # "open"
    /\ asked' = [asked EXCEPT ![c] = None]
    /\ since' = [since EXCEPT ![c] = 0]
    /\ outcome' = [outcome EXCEPT ![c] = "open"]
    /\ given' = [given EXCEPT ![c] = None]
    /\ UNCHANGED <<time, known>>

Next ==
    \/ Tick
    \/ Learn
    \/ \E c \in Callers :
          \/ \E e \in Entities : Ask(c, e)
          \/ \E r \in ResolvedEntity : Answer(c, r)
          \/ Refuse(c)
          \/ Forget(c)

Spec == Init /\ [][Next]_vars
=============================================================================
