-------------------------- MODULE InMemoryResolver --------------------------
(***************************************************************************)
(* federation.InMemoryResolver (pkg/federation/resolver.go): Resolve calls *)
(* in many goroutines over a registry behind a lock and a cache beside it, *)
(* while statements are registered anew, which clears the cache.           *)
(*                                                                         *)
(* The cache is a sync.Map: each Load, Store and Delete is one step.  The  *)
(* registry is read once, under the lock; verification comes after the     *)
(* lock is released, and the Store after the verification.                 *)
(***************************************************************************)
EXTENDS TrustChain

VARIABLES
    clock,
    entityConfigs, \* entity -> EC
    subStatements, \* entity -> SS
    cache,         \* entity -> ResolvedEntity
    pc,            \* where each call stands
    entityID,      \* what it resolves
    ec, ss,        \* the statements it read
    answer,        \* what it returned
    beganAt,       \* history: when the call began
    paired,        \* history: chains whose EC and SS were registered at one time
    raced          \* history: a call held statements when newer ones came

registry == <<entityConfigs, subStatements, paired, raced>>
callVars == <<pc, entityID, ec, ss, answer, beganAt>>
vars == <<clock, registry, cache, callVars>>

Stages == {"idle", "lookup", "evict", "read", "checkSS", "checkEC", "store",
           "answered", "failed"}

TypeOK ==
    /\ clock \in 0..MaxTime
    /\ entityConfigs \in [Entities -> ECs \cup {None}]
    /\ subStatements \in [Entities -> SSs \cup {None}]
    /\ cache \in [Entities -> ResolvedEntity \cup {None}]
    /\ pc \in [Callers -> Stages]
    /\ entityID \in [Callers -> Entities \cup {None}]
    /\ ec \in [Callers -> ECs \cup {None}]
    /\ ss \in [Callers -> SSs \cup {None}]
    /\ answer \in [Callers -> ResolvedEntity \cup {None}]
    /\ beganAt \in [Callers -> 0..MaxTime]
    /\ paired \subseteq (Entities \X ECs \X SSs)
    /\ raced \in [Entities -> BOOLEAN]
    /\ \A c \in Callers :
          /\ pc[c] # "idle" => entityID[c] # None
          /\ pc[c] \in {"checkSS", "checkEC", "store"} => ec[c] # None /\ ss[c] # None
          /\ pc[c] = "answered" => answer[c] # None

Init ==
    /\ clock = 0
    /\ entityConfigs = [e \in Entities |-> None]
    /\ subStatements = [e \in Entities |-> None]
    /\ cache = [e \in Entities |-> None]
    /\ pc = [c \in Callers |-> "idle"]
    /\ entityID = [c \in Callers |-> None]
    /\ ec = [c \in Callers |-> None]
    /\ ss = [c \in Callers |-> None]
    /\ answer = [c \in Callers |-> None]
    /\ beganAt = [c \in Callers |-> 0]
    /\ paired = {}
    /\ raced = [e \in Entities |-> FALSE]

-----------------------------------------------------------------------------

Goto(c, from, to) == pc[c] = from /\ pc' = [pc EXCEPT ![c] = to]

Tick ==
    /\ clock < MaxTime
    /\ clock' = clock + 1
    /\ UNCHANGED <<registry, cache, callVars>>

\* A call for e that will store what the registry held when it read it.
Holds(c, e) == entityID[c] = e /\ pc[c] \in {"checkSS", "checkEC", "store"}

\* History of a registration that leaves new statements for e.
Registered(e, newEC, newSS) ==
    /\ paired' = IF None \notin {newEC, newSS} /\ Chain(e, newEC, newSS)
                 THEN paired \cup {<<e, newEC, newSS>>} ELSE paired
    /\ raced' = [raced EXCEPT ![e] = \E c \in Callers : Holds(c, e)]

\* Mutant of RegisterEntityConfig: the cache is not cleared.
RegisterEntityConfigCached(e, new) ==
    /\ entityConfigs' = [entityConfigs EXCEPT ![e] = new]
    /\ Registered(e, new, subStatements[e])
    /\ UNCHANGED <<clock, subStatements, cache, callVars>>

RegisterEntityConfig(e, new) ==
    /\ entityConfigs' = [entityConfigs EXCEPT ![e] = new]
    /\ cache' = [cache EXCEPT ![e] = None]
    /\ Registered(e, new, subStatements[e])
    /\ UNCHANGED <<clock, subStatements, callVars>>

RegisterSubordinateStatement(e, new) ==
    /\ subStatements' = [subStatements EXCEPT ![e] = new]
    /\ cache' = [cache EXCEPT ![e] = None]
    /\ Registered(e, entityConfigs[e], new)
    /\ UNCHANGED <<clock, entityConfigs, callVars>>

-----------------------------------------------------------------------------
(* Resolve *)

Begin(c, e) ==
    /\ Goto(c, "idle", "lookup")
    /\ entityID' = [entityID EXCEPT ![c] = e]
    /\ beganAt' = [beganAt EXCEPT ![c] = clock]
    /\ UNCHANGED <<clock, registry, cache, ec, ss, answer>>

\* Mutant of Hit: a cached entity is still returned at the time it expires.
HitAtExpiry(c) ==
    LET entity == cache[entityID[c]] IN
    /\ Goto(c, "lookup", "answered")
    /\ entity # None /\ clock <= entity.exp
    /\ answer' = [answer EXCEPT ![c] = entity]
    /\ UNCHANGED <<clock, registry, cache, entityID, ec, ss, beganAt>>

\* A cached entity is the answer while it lives.
Hit(c) ==
    LET entity == cache[entityID[c]] IN
    /\ Goto(c, "lookup", "answered")
    /\ entity # None /\ clock < entity.exp
    /\ answer' = [answer EXCEPT ![c] = entity]
    /\ UNCHANGED <<clock, registry, cache, entityID, ec, ss, beganAt>>

Miss(c) ==
    LET entity == cache[entityID[c]] IN
    /\ pc[c] = "lookup"
    /\ \/ entity = None /\ Goto(c, "lookup", "read")
       \/ entity # None /\ ~(clock < entity.exp) /\ Goto(c, "lookup", "evict")
    /\ UNCHANGED <<clock, registry, cache, entityID, ec, ss, answer, beganAt>>

\* The Delete of an expired entity takes whatever another call stored since.
Evict(c) ==
    /\ Goto(c, "evict", "read")
    /\ cache' = [cache EXCEPT ![entityID[c]] = None]
    /\ UNCHANGED <<clock, registry, entityID, ec, ss, answer, beganAt>>

\* Mutant of ReadRegistry: an entity without a statement is not refused.
ReadRegistryUnchecked(c) ==
    LET e == entityID[c] IN
    /\ Goto(c, "read", IF entityConfigs[e] # None THEN "checkSS" ELSE "failed")
    /\ ec' = [ec EXCEPT ![c] = entityConfigs[e]]
    /\ ss' = [ss EXCEPT ![c] = subStatements[e]]
    /\ UNCHANGED <<clock, registry, cache, entityID, answer, beganAt>>

\* Under the read lock: both statements, or an error if one is missing.
ReadRegistry(c) ==
    LET e == entityID[c]
        found == None \notin {entityConfigs[e], subStatements[e]}
    IN  /\ Goto(c, "read", IF found THEN "checkSS" ELSE "failed")
        /\ ec' = [ec EXCEPT ![c] = entityConfigs[e]]
        /\ ss' = [ss EXCEPT ![c] = subStatements[e]]
        /\ UNCHANGED <<clock, registry, cache, entityID, answer, beganAt>>

\* Mutant of CheckSS: any trusted anchor will do, named in the EC or not.
CheckSSAnyAnchor(c) ==
    LET certified == \E a \in Anchors : Certifies(ss[c], a, entityID[c], clock)
    IN  /\ Goto(c, "checkSS", IF certified THEN "checkEC" ELSE "failed")
        /\ UNCHANGED <<clock, registry, cache, entityID, ec, ss, answer, beganAt>>

\* Some authority hint of the EC is a trusted anchor that signed the SS.
CheckSS(c) ==
    LET certified == \E i \in DOMAIN ec[c].hints :
                        Certifies(ss[c], ec[c].hints[i], entityID[c], clock)
    IN  /\ Goto(c, "checkSS", IF certified THEN "checkEC" ELSE "failed")
        /\ UNCHANGED <<clock, registry, cache, entityID, ec, ss, answer, beganAt>>

\* The EC is signed by the key that the SS certifies.
CheckEC(c) ==
    /\ Goto(c, "checkEC", IF SelfSigned(ec[c], ss[c], clock) THEN "store" ELSE "failed")
    /\ UNCHANGED <<clock, registry, cache, entityID, ec, ss, answer, beganAt>>

Store(c) ==
    LET entity == Resolved(ec[c], ss[c]) IN
    /\ Goto(c, "store", "answered")
    /\ cache' = [cache EXCEPT ![entityID[c]] = entity]
    /\ answer' = [answer EXCEPT ![c] = entity]
    /\ UNCHANGED <<clock, registry, entityID, ec, ss, beganAt>>

\* The caller has its answer, or its error.
Return(c) ==
    /\ pc[c] \in {"answered", "failed"}
    /\ pc' = [pc EXCEPT ![c] = "idle"]
    /\ entityID' = [entityID EXCEPT ![c] = None]
    /\ ec' = [ec EXCEPT ![c] = None]
    /\ ss' = [ss EXCEPT ![c] = None]
    /\ answer' = [answer EXCEPT ![c] = None]
    /\ beganAt' = [beganAt EXCEPT ![c] = 0]
    /\ UNCHANGED <<clock, registry, cache>>

Resolve(c) ==
    \/ \E e \in Entities : Begin(c, e)
    \/ Hit(c)
    \/ Miss(c)
    \/ Evict(c)
    \/ ReadRegistry(c)
    \/ CheckSS(c)
    \/ CheckEC(c)
    \/ Store(c)
    \/ Return(c)

Next ==
    \/ Tick
    \/ \E e \in Entities, new \in ECs : RegisterEntityConfig(e, new)
    \/ \E e \in Entities, new \in SSs : RegisterSubordinateStatement(e, new)
    \/ \E c \in Callers : Resolve(c)

Spec == Init /\ [][Next]_vars

-----------------------------------------------------------------------------
(* Properties *)

\* Every answer, cached or fresh, goes back to an EC and an SS that were
\* registered for the entity at one time and form a chain to a trusted anchor:
\* no call pairs a new EC with an old SS.
AnswersAreChained ==
    \A c \in Callers : pc[c] = "answered" =>
        <<entityID[c], answer[c].ec, answer[c].ss>> \in paired

\* No answer rests on a statement that had expired before the call began, be it
\* cached until min(EC.exp, SS.exp) or verified while the clock moved on.
AnswersAreLive ==
    \A c \in Callers : pc[c] = "answered" =>
        beganAt[c] < answer[c].ec.exp /\ beganAt[c] < answer[c].ss.exp

\* The cache holds what the registry holds, unless a call read the registry
\* before the last registration for that entity and stored after it: that call
\* alone can bring back a superseded key.
CacheIsCurrent ==
    \A e \in Entities : cache[e] # None /\ ~raced[e] =>
        cache[e].ec = entityConfigs[e] /\ cache[e].ss = subStatements[e]
=============================================================================
