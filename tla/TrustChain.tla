----------------------------- MODULE TrustChain -----------------------------
(***************************************************************************)
(* Entity statements of pkg/federation/entity.go and the trust chain that  *)
(* both resolvers build of them: an Entity Configuration (EC), signed by   *)
(* the entity, and a Subordinate Statement (SS), by which a trust anchor   *)
(* certifies the entity's key.  Expiries are points in time.               *)
(***************************************************************************)
EXTENDS Integers, Sequences

CONSTANTS
    Subjects,   \* entity identifiers
    Entities,   \* the ones that are registered and resolved
    Anchors,    \* superiors that sign statements
    Trusted,    \* the keys of Resolver.trustAnchors
    Keys,       \* entities' key pairs
    ECs,        \* Entity Configurations that exist
    SSs,        \* Subordinate Statements that exist
    Callers,    \* goroutines that call Resolve
    MaxTime,    \* bound: the clock stops here
    None

EntityConfiguration == [key : Keys, hints : Seq(Anchors), exp : Nat]
SubordinateStatement == [signer : Anchors, sub : Subjects, key : Keys, exp : Nat]

ASSUME StatementsAssumption ==
    /\ Entities \subseteq Subjects
    /\ Trusted \subseteq Anchors
    /\ ECs \subseteq EntityConfiguration
    /\ SSs \subseteq SubordinateStatement
    /\ MaxTime \in Nat
    /\ None \notin ECs \cup SSs \cup Entities

\* VerifySubordinateStatement with the anchor's key, and the subject check.
Certifies(ss, hint, e, now) ==
    hint \in Trusted /\ ss.signer = hint /\ ss.sub = e /\ now < ss.exp

\* VerifyEntityConfiguration with the key that the SS certifies.
SelfSigned(ec, ss, now) == ec.key = ss.key /\ now < ec.exp

\* Mutant of Resolved: the entity outlives the earlier of its statements.
ResolvedLonger(ec, ss) ==
    [key |-> ss.key, exp |-> IF ec.exp > ss.exp THEN ec.exp ELSE ss.exp,
     ec |-> ec, ss |-> ss]

\* The ResolvedEntity: the certified key until min(EC.exp, SS.exp).  The
\* statements it was built of are history.
Resolved(ec, ss) ==
    [key |-> ss.key, exp |-> IF ec.exp < ss.exp THEN ec.exp ELSE ss.exp,
     ec |-> ec, ss |-> ss]

ResolvedEntity == {Resolved(ec, ss) : ec \in ECs, ss \in SSs}

ASSUME NoneAssumption == None \notin ResolvedEntity

\* What makes statements a chain for e, times apart.
Chain(e, ec, ss) ==
    /\ \E i \in DOMAIN ec.hints : ec.hints[i] \in Trusted /\ ss.signer = ec.hints[i]
    /\ ss.sub = e
    /\ ec.key = ss.key
=============================================================================
