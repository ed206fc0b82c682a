---------------------------- MODULE HTTPResolver ----------------------------
(***************************************************************************)
(* federation.HTTPResolver (pkg/federation/resolver.go): Resolve calls in  *)
(* many goroutines that fetch the statements one by one from the servers   *)
(* that publish them, over a cache that nobody clears.  Every fetch may    *)
(* fail, and what is published may change between two fetches.             *)
(***************************************************************************)
EXTENDS TrustChain

VARIABLES
    clock,
    published,  \* entity -> the EC its server publishes
    certified,  \* anchor, entity -> the SS the anchor's fetch endpoint returns
    cache,      \* entity -> ResolvedEntity
    pc,         \* where each call stands
    entityID,   \* what it resolves
    ec,         \* the EC it fetched
    ss,         \* the SS it fetched last
    hint,       \* index of the authority hint it is trying
    answer,     \* what it returned
    beganAt,    \* history: when the call began
    disturbed   \* history: one of its fetches failed, or the world changed

world == <<published, certified>>
callVars == <<pc, entityID, ec, ss, hint, answer, beganAt, disturbed>>
vars == <<clock, world, cache, callVars>>

Stages == {"idle", "lookup", "evict", "fetchEC", "hints", "verify", "store",
           "answered", "refused"}

TypeOK ==
    /\ clock \in 0..MaxTime
    /\ published \in [Entities -> ECs \cup {None}]
    /\ certified \in [Anchors \X Entities -> SSs \cup {None}]
    /\ cache \in [Entities -> ResolvedEntity \cup {None}]
    /\ pc \in [Callers -> Stages]
    /\ entityID \in [Callers -> Entities \cup {None}]
    /\ ec \in [Callers -> ECs \cup {None}]
    /\ ss \in [Callers -> SSs \cup {None}]
    /\ hint \in [Callers -> Nat]
    /\ answer \in [Callers -> ResolvedEntity \cup {None}]
    /\ beganAt \in [Callers -> 0..MaxTime]
    /\ disturbed \in [Callers -> BOOLEAN]
    /\ \A c \in Callers :
          /\ pc[c] # "idle" => entityID[c] # None
          /\ pc[c] \in {"hints", "verify", "store"} => ec[c] # None
          /\ pc[c] = "verify" => hint[c] \in DOMAIN ec[c].hints
          /\ pc[c] \in {"verify", "store"} => ss[c] # None
          /\ pc[c] = "answered" => answer[c] # None

Init ==
    /\ clock = 0
    /\ published = [e \in Entities |-> None]
    /\ certified = [p \in Anchors \X Entities |-> None]
    /\ cache = [e \in Entities |-> None]
    /\ pc = [c \in Callers |-> "idle"]
    /\ entityID = [c \in Callers |-> None]
    /\ ec = [c \in Callers |-> None]
    /\ ss = [c \in Callers |-> None]
    /\ hint = [c \in Callers |-> 0]
    /\ answer = [c \in Callers |-> None]
    /\ beganAt = [c \in Callers |-> 0]
    /\ disturbed = [c \in Callers |-> FALSE]

-----------------------------------------------------------------------------

Goto(c, from, to) == pc[c] = from /\ pc' = [pc EXCEPT ![c] = to]

\* The calls under way may see a world that is neither the old nor the new one.
Disturb == disturbed' = [c \in Callers |-> pc[c] # "idle" \/ disturbed[c]]

Tick ==
    /\ clock < MaxTime
    /\ clock' = clock + 1
    /\ Disturb
    /\ UNCHANGED <<world, cache, pc, entityID, ec, ss, hint, answer, beganAt>>

\* An entity publishes a configuration of its own.
Publish(e, new) ==
    /\ published' = [published EXCEPT ![e] = new]
    /\ Disturb
    /\ UNCHANGED <<clock, certified, cache, pc, entityID, ec, ss, hint, answer, beganAt>>

\* An anchor publishes a statement it signed; a statement about another entity
\* may be what its endpoint answers.
Certify(a, e, new) ==
    /\ new.signer = a
    /\ certified' = [certified EXCEPT ![<<a, e>>] = new]
    /\ Disturb
    /\ UNCHANGED <<clock, published, cache, pc, entityID, ec, ss, hint, answer, beganAt>>

-----------------------------------------------------------------------------
(* Resolve *)

Begin(c, e) ==
    /\ Goto(c, "idle", "lookup")
    /\ entityID' = [entityID EXCEPT ![c] = e]
    /\ beganAt' = [beganAt EXCEPT ![c] = clock]
    /\ UNCHANGED <<clock, world, cache, ec, ss, hint, answer, disturbed>>

\* Mutant of Hit: a cached entity is returned whether it lives or not.
HitAny(c) ==
    LET entity == cache[entityID[c]] IN
    /\ Goto(c, "lookup", "answered")
    /\ entity # None
    /\ answer' = [answer EXCEPT ![c] = entity]
    /\ UNCHANGED <<clock, world, cache, entityID, ec, ss, hint, beganAt, disturbed>>

\* A cached entity is the answer while it lives.
Hit(c) ==
    LET entity == cache[entityID[c]] IN
    /\ Goto(c, "lookup", "answered")
    /\ entity # None /\ clock < entity.exp
    /\ answer' = [answer EXCEPT ![c] = entity]
    /\ UNCHANGED <<clock, world, cache, entityID, ec, ss, hint, beganAt, disturbed>>

Miss(c) ==
    LET entity == cache[entityID[c]] IN
    /\ pc[c] = "lookup"
    /\ \/ entity = None /\ Goto(c, "lookup", "fetchEC")
       \/ entity # None /\ ~(clock < entity.exp) /\ Goto(c, "lookup", "evict")
    /\ UNCHANGED <<clock, world, cache, entityID, ec, ss, hint, answer, beganAt, disturbed>>

Evict(c) ==
    /\ Goto(c, "evict", "fetchEC")
    /\ cache' = [cache EXCEPT ![entityID[c]] = None]
    /\ UNCHANGED <<clock, world, entityID, ec, ss, hint, answer, beganAt, disturbed>>

\* fetchJWT of /.well-known/openid-federation: the EC, a 404, or a failure.
FetchEC(c) ==
    LET e == entityID[c] IN
    /\ pc[c] = "fetchEC"
    /\ hint' = [hint EXCEPT ![c] = 1]
    /\ UNCHANGED <<clock, world, cache, entityID, ss, answer, beganAt>>
    /\ \/ /\ published[e] # None
          /\ Goto(c, "fetchEC", "hints")
          /\ ec' = [ec EXCEPT ![c] = published[e]]
          /\ UNCHANGED disturbed
       \/ /\ published[e] = None
          /\ Goto(c, "fetchEC", "refused")
          /\ UNCHANGED <<ec, disturbed>>
       \/ /\ Goto(c, "fetchEC", "refused")
          /\ disturbed' = [disturbed EXCEPT ![c] = TRUE]
          /\ UNCHANGED ec

\* The loop over the hints goes on to the next one.
NextHint(c) == hint' = [hint EXCEPT ![c] = @ + 1]

\* A hint that is no trusted anchor is skipped; after the last one the call
\* fails.
SkipHint(c) ==
    /\ pc[c] = "hints"
    /\ IF hint[c] \notin DOMAIN ec[c].hints
       THEN Goto(c, "hints", "refused") /\ UNCHANGED hint
       ELSE ec[c].hints[hint[c]] \notin Trusted /\ NextHint(c) /\ UNCHANGED pc
    /\ UNCHANGED <<clock, world, cache, entityID, ec, ss, answer, beganAt, disturbed>>

\* Mutant of FetchSS: an answer without a statement is taken for one.
FetchSSUnchecked(c) ==
    LET h == ec[c].hints[hint[c]] IN
    /\ pc[c] = "hints" /\ hint[c] \in DOMAIN ec[c].hints
    /\ h \in Trusted
    /\ Goto(c, "hints", "verify")
    /\ ss' = [ss EXCEPT ![c] = certified[<<h, entityID[c]>>]]
    /\ UNCHANGED <<clock, world, cache, entityID, ec, hint, answer, beganAt, disturbed>>

\* fetchJWT of the anchor's fetch endpoint.
FetchSS(c) ==
    LET h == ec[c].hints[hint[c]]
        found == certified[<<h, entityID[c]>>]
    IN  /\ pc[c] = "hints" /\ hint[c] \in DOMAIN ec[c].hints
        /\ h \in Trusted
        /\ UNCHANGED <<clock, world, cache, entityID, ec, answer, beganAt>>
        /\ \/ /\ found # None
              /\ Goto(c, "hints", "verify")
              /\ ss' = [ss EXCEPT ![c] = found]
              /\ UNCHANGED <<hint, disturbed>>
           \/ /\ found = None
              /\ NextHint(c)
              /\ UNCHANGED <<pc, ss, disturbed>>
           \/ /\ NextHint(c)
              /\ disturbed' = [disturbed EXCEPT ![c] = TRUE]
              /\ UNCHANGED <<pc, ss>>

\* Mutant of Verify: the first SS that does not verify ends the call.
VerifyFirst(c) ==
    LET h == ec[c].hints[hint[c]]
        ok == Certifies(ss[c], h, entityID[c], clock) /\ SelfSigned(ec[c], ss[c], clock)
    IN  /\ Goto(c, "verify", IF ok THEN "store" ELSE "refused")
        /\ UNCHANGED <<clock, world, cache, entityID, ec, ss, hint, answer, beganAt, disturbed>>

\* Mutant of Verify: the subject of the SS is not compared.
VerifyAnySubject(c) ==
    LET h == ec[c].hints[hint[c]]
        ok == Certifies(ss[c], h, ss[c].sub, clock) /\ SelfSigned(ec[c], ss[c], clock)
    IN  /\ pc[c] = "verify"
        /\ \/ ok /\ Goto(c, "verify", "store") /\ UNCHANGED hint
           \/ ~ok /\ Goto(c, "verify", "hints") /\ NextHint(c)
        /\ UNCHANGED <<clock, world, cache, entityID, ec, ss, answer, beganAt, disturbed>>

\* The SS is signed by the hint's anchor and about the entity, and the EC by
\* the key that it certifies; otherwise the next hint is tried.
Verify(c) ==
    LET h == ec[c].hints[hint[c]]
        ok == Certifies(ss[c], h, entityID[c], clock) /\ SelfSigned(ec[c], ss[c], clock)
    IN  /\ pc[c] = "verify"
        /\ \/ ok /\ Goto(c, "verify", "store") /\ UNCHANGED hint
           \/ ~ok /\ Goto(c, "verify", "hints") /\ NextHint(c)
        /\ UNCHANGED <<clock, world, cache, entityID, ec, ss, answer, beganAt, disturbed>>

Store(c) ==
    LET entity == Resolved(ec[c], ss[c]) IN
    /\ Goto(c, "store", "answered")
    /\ cache' = [cache EXCEPT ![entityID[c]] = entity]
    /\ answer' = [answer EXCEPT ![c] = entity]
    /\ UNCHANGED <<clock, world, entityID, ec, ss, hint, beganAt, disturbed>>

\* The caller has its answer, or its error.
Return(c) ==
    /\ pc[c] \in {"answered", "refused"}
    /\ pc' = [pc EXCEPT ![c] = "idle"]
    /\ entityID' = [entityID EXCEPT ![c] = None]
    /\ ec' = [ec EXCEPT ![c] = None]
    /\ ss' = [ss EXCEPT ![c] = None]
    /\ hint' = [hint EXCEPT ![c] = 0]
    /\ answer' = [answer EXCEPT ![c] = None]
    /\ beganAt' = [beganAt EXCEPT ![c] = 0]
    /\ disturbed' = [disturbed EXCEPT ![c] = FALSE]
    /\ UNCHANGED <<clock, world, cache>>

Resolve(c) ==
    \/ \E e \in Entities : Begin(c, e)
    \/ Hit(c)
    \/ Miss(c)
    \/ Evict(c)
    \/ FetchEC(c)
    \/ SkipHint(c)
    \/ FetchSS(c)
    \/ Verify(c)
    \/ Store(c)
    \/ Return(c)

Next ==
    \/ Tick
    \/ \E e \in Entities, new \in ECs : Publish(e, new)
    \/ \E a \in Anchors, e \in Entities, new \in SSs : Certify(a, e, new)
    \/ \E c \in Callers : Resolve(c)

Spec == Init /\ [][Next]_vars

-----------------------------------------------------------------------------
(* Properties *)

\* Every answer, cached or fresh, rests on statements that form a chain for the
\* entity, even if servers changed what they publish between the two fetches.
AnswersAreChained ==
    \A c \in Callers : pc[c] = "answered" =>
        Chain(entityID[c], answer[c].ec, answer[c].ss)

\* README.md:526 says that the entity is cached until min(EC.exp, SS.exp): no
\* answer rests on a statement that had expired before the call began.
AnswersAreLive ==
    \A c \in Callers : pc[c] = "answered" =>
        beganAt[c] < answer[c].ec.exp /\ beganAt[c] < answer[c].ss.exp

\* A call is refused only for a cause: if none of its fetches failed, and
\* neither the clock nor the servers moved while it ran, then what they publish
\* is no live chain through any of the hints.
RefusedForCause ==
    \A c \in Callers : pc[c] = "refused" /\ ~disturbed[c] =>
        LET e == entityID[c] IN
        ~ \E a \in Trusted :
            /\ None \notin {published[e], certified[<<a, e>>]}
            /\ \E i \in DOMAIN published[e].hints : published[e].hints[i] = a
            /\ Certifies(certified[<<a, e>>], a, e, clock)
            /\ SelfSigned(published[e], certified[<<a, e>>], clock)
=============================================================================
