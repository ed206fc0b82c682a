----------------------------- MODULE Federation -----------------------------
(***************************************************************************)
(* The FederationResolver interface (pkg/federation/resolver.go) with its  *)
(* two implementations: a deployment is configured with one of them, which *)
(* then is the only part of it that moves.                                 *)
(***************************************************************************)
EXTENDS TrustChain

VARIABLES
    configured, \* Config.FederationResolver: "InMemoryResolver", "HTTPResolver"
    clock, cache, pc, entityID, ec, ss, answer, beganAt,
    entityConfigs, subStatements, paired, raced,  \* of InMemoryResolver
    published, certified, hint, disturbed         \* of HTTPResolver

InMemory == INSTANCE InMemoryResolver
Remote == INSTANCE HTTPResolver

ofInMemory == <<entityConfigs, subStatements, paired, raced>>
ofRemote == <<published, certified, hint, disturbed>>
vars == <<configured, clock, cache, pc, entityID, ec, ss, answer, beganAt,
          ofInMemory, ofRemote>>

\* The two share the variables that their Inits agree on.
Init ==
    /\ configured \in {"InMemoryResolver", "HTTPResolver"}
    /\ InMemory!Init
    /\ Remote!Init

Next ==
    \/ /\ configured = "InMemoryResolver"
       /\ InMemory!Next
       /\ UNCHANGED <<configured, ofRemote>>
    \/ /\ configured = "HTTPResolver"
       /\ Remote!Next
       /\ UNCHANGED <<configured, ofInMemory>>

Spec == Init /\ [][Next]_vars

-----------------------------------------------------------------------------
(* Properties *)

\* The types of the configured resolver's state (resolver.go: 29-58, 142-159).
TypeOK == IF configured = "InMemoryResolver" THEN InMemory!TypeOK ELSE Remote!TypeOK

\* Whichever resolver is configured, its answers, cached or fresh, rest on
\* statements that form a chain for the entity; those of the InMemoryResolver
\* were also registered at one time.
AnswersAreChained ==
    IF configured = "InMemoryResolver" THEN InMemory!AnswersAreChained
                                       ELSE Remote!AnswersAreChained

\* README.md:526 says that the entity is cached until min(EC.exp, SS.exp): no
\* answer rests on a statement that had expired before the call began, be it
\* cached or verified while the clock moved on.
AnswersAreLive ==
    IF configured = "InMemoryResolver" THEN InMemory!AnswersAreLive
                                       ELSE Remote!AnswersAreLive

\* The InMemoryResolver's cache holds what its registry holds, unless a call
\* read the registry before the last registration and stored after it.
CacheIsCurrent == configured = "InMemoryResolver" => InMemory!CacheIsCurrent

\* The HTTPResolver refuses for a cause: if no fetch failed, and neither clock
\* nor servers moved, no hint leads to a live chain.
RefusedForCause == configured = "HTTPResolver" => Remote!RefusedForCause

\* What both resolvers are to their callers: the chains that were registered
\* together, or that servers may publish, and what became of each call.
knownOf ==
    IF configured = "InMemoryResolver" THEN paired
    ELSE {t \in Entities \X ECs \X SSs : Chain(t[1], t[2], t[3])}

outcomeOf ==
    [c \in Callers |->
        CASE pc[c] = "answered" -> "resolved"
          [] pc[c] \in {"failed", "refused"} -> "failed"
          [] OTHER -> "open"]

Contract == INSTANCE Resolver WITH
    time <- clock, known <- knownOf, asked <- entityID, since <- beganAt,
    outcome <- outcomeOf, given <- answer

\* "Implementations must be safe for concurrent use" (resolver.go:34): however
\* calls, caches, rotations and expiries interleave, each call of either
\* resolver is given, once, the key of one live chain, to be kept no longer than
\* that chain lives, or an error.
ImplementsResolver == Contract!Spec
=============================================================================
