---------------------------- MODULE TokenExchange ----------------------------
(***************************************************************************)
(* Delegation and exchange of signed tokens: on-behalf-of tokens           *)
(* (pkg/obo), with plain and with selectively disclosed user tokens; JWT   *)
(* authorization grants (pkg/identitychaining); access tokens for clients  *)
(* that authenticate with an agent token (pkg/spiffeclientauth); and       *)
(* transaction tokens (pkg/txntoken), which one authority may sign next to *)
(* the others.                                                             *)
(*                                                                         *)
(* A token is signed by an authority (an issuer identifier and its key)    *)
(* and carries a typ header; one authority may play several roles.         *)
(* Validators keep no state: what one accepts is an operator on the token  *)
(* and the clock.  An exchange validates its inputs and signs its output   *)
(* one after another, so the clock may move and other tokens be issued in  *)
(* between.  An exchange that fails leaves nothing behind and is no        *)
(* action, except that the disclosures it was sent have been shown.        *)
(***************************************************************************)
EXTENDS Naturals, FiniteSets

CONSTANTS
    Users, Agents,
    Emails,         \* what the IdP may have on file as a user's address
    Salts,          \* what newDisclosure draws; every SD-JWT has its own
    Scopes,         \* OAuth scopes
    Consents,       \* the sets of scopes users consent to
    Requests,       \* the sets of scopes agents ask for; {} asks for nothing
    Parties,        \* audiences: resource servers, token endpoints
    AS,             \* the party that is the on-behalf-of endpoint
    Signer,         \* role -> the authority that signs for it
    UserTTL, AgentTTL, ExchangeTTL, AccessTTL,
    Callers,        \* goroutines in an exchange
    MaxTime,        \* bound: the clock stops here
    MaxTokens,      \* bound: no token is issued once there are this many
    None            \* an absent claim, no exchange

Roles == {"agent", "user", "sduser", "obo", "grant", "txn", "access"}

ASSUME PartyAssumption == AS \in Parties
ASSUME ScopeAssumption ==
    Consents \subseteq SUBSET Scopes /\ Requests \subseteq SUBSET Scopes
ASSUME SignerAssumption == DOMAIN Signer = Roles
ASSUME TTLAssumption == UserTTL \in Nat /\ AgentTTL \in Nat /\ ExchangeTTL \in Nat /\ AccessTTL \in Nat
ASSUME BoundAssumption == MaxTime \in Nat /\ MaxTokens \in Nat
ASSUME NoneAssumption ==
    /\ None \notin Users \cup Agents \cup Emails
    /\ Users \cap Agents = {}

\* A disclosure; its digest in _sd names it, so _sd is a set of disclosures.
Disclosure == [name : {"email", "given_name"}, value : Emails \cup Users,
               salt : Salts]

Token == [typ : Roles, by : {Signer[r] : r \in Roles},
          sub : Users \cup Agents, act : Agents \cup {None},
          aud : SUBSET Parties, scope : SUBSET Scopes,
          email : Emails \cup {None}, sd : SUBSET Disclosure,
          cnf : BOOLEAN, exp : Nat,
          asked : Nat]      \* history: when the request for it came in

VARIABLES
    clock,      \* time.Now()
    tokens,     \* every token ever signed
    shown,      \* disclosures that have been sent to the AS
    call        \* the exchange each goroutine is in

vars == <<clock, tokens, shown, call>>

\* The locals of OBOIssuer.Issue and GrantIssuer.Issue.
Call == [stage : {"user", "sign", "grant"}, asked : Nat, agent : Agents,
         wire : [jwt : Token \cup {None}, tilde : BOOLEAN, discs : SUBSET Disclosure],
         aud : Parties, want : SUBSET Scopes,
         act : Agents \cup {None},
         sub : Users \cup {None}, scope : SUBSET Scopes,
         email : Emails \cup {None}]

TypeOK ==
    /\ clock \in 0..MaxTime
    /\ tokens \subseteq Token
    /\ shown \subseteq Disclosure
    /\ call \in [Callers -> Call \cup {None}]
    /\ \A t \in tokens :
          /\ t.typ \in {"user", "sduser", "obo", "txn"} => t.sub \in Users
          /\ t.typ \in {"agent", "grant", "access"} => t.sub \in Agents
          /\ t.typ = "obo" => t.act # None

Init ==
    /\ clock = 0
    /\ tokens = {}
    /\ shown = {}
    /\ call = [c \in Callers |-> None]

-----------------------------------------------------------------------------
(* Tokens and their validation *)

Room == Cardinality(tokens) < MaxTokens

\* A token of a role, with the claims that every issuer's tokens have; the rest
\* are absent.  It was asked for just now, unless an exchange says otherwise.
Fresh(role, sub, aud, ttl) ==
    [typ |-> role, by |-> Signer[role], sub |-> sub, act |-> None, aud |-> aud,
     scope |-> {}, email |-> None, sd |-> {}, cnf |-> FALSE, exp |-> clock + ttl,
     asked |-> clock]

\* Mutant of Verifies: the typ header is not looked at.
VerifiesAnyTyp(t, role) == t.by = Signer[role] /\ clock < t.exp

\* Mutant of Verifies: the expiry is not looked at.
VerifiesStale(t, role) == t.typ = role /\ t.by = Signer[role]

\* What every parser checks: typ, signature and issuer, expiry.
Verifies(t, role) == t.typ = role /\ t.by = Signer[role] /\ clock < t.exp

\* AgentValidator.Validate: and there must be a workload key in cnf.
AgentVerifies(t) == Verifies(t, "agent") /\ t.cnf

\* OBOValidator.Validate at a resource server.
OBOAccepts(t, party) == Verifies(t, "obo") /\ party \in t.aud /\ t.act # None

\* GrantValidator.Validate at the other domain's token endpoint.
GrantAccepts(t, party) == Verifies(t, "grant") /\ party \in t.aud

-----------------------------------------------------------------------------
(* Issuers that trust their caller: the IdP and the transaction service *)

Tick ==
    /\ clock < MaxTime
    /\ clock' = clock + 1
    /\ UNCHANGED <<tokens, shown, call>>

AgentIssue(a) ==
    /\ Room
    /\ tokens' = tokens \cup {[Fresh("agent", a, {}, AgentTTL) EXCEPT !.cnf = TRUE]}
    /\ UNCHANGED <<clock, shown, call>>

\* UserIssuer.Issue: scope and address are in the clear.
UserIssue(u, e, s, p) ==
    /\ Room
    /\ tokens' = tokens \cup
         {[Fresh("user", u, {p}, UserTTL) EXCEPT !.scope = s, !.email = e]}
    /\ UNCHANGED <<clock, shown, call>>

\* SDUserIssuer.Issue: address and name are replaced by digests of salted
\* disclosures; no two tokens draw the same salt.
SDIssue(u, e, s, p, salt) ==
    /\ Room
    /\ \A t \in tokens : \A d \in t.sd : d.salt # salt
    /\ tokens' = tokens \cup
         {[Fresh("sduser", u, {p}, UserTTL) EXCEPT !.scope = s,
             !.sd = {[name |-> "email", value |-> e, salt |-> salt],
                     [name |-> "given_name", value |-> u, salt |-> salt]}]}
    /\ UNCHANGED <<clock, shown, call>>

\* txntoken.Issuer.Issue: subject and audiences are the caller's (and so are the
\* actor, which no validator reads, and the lifetime; both are left out).
TxnIssue(u, ps) ==
    /\ Room /\ ps # {}
    /\ tokens' = tokens \cup {Fresh("txn", u, ps, ExchangeTTL)}
    /\ UNCHANGED <<clock, shown, call>>

-----------------------------------------------------------------------------
(* OBOIssuer.Issue *)

\* SDUserToken.Present: the disclosures with the names the holder chose.
Present(t, reveal) == {d \in t.sd : d.name \in reveal}

SDTokens == {t \in tokens : t.typ = "sduser"}

\* What a holder sends: a token without a separator or with one, or an SD-JWT
\* with disclosures of it or, by mistake, with those of another SD-JWT it holds.
Wires ==
    {[jwt |-> t, tilde |-> b, discs |-> {}] : t \in tokens, b \in BOOLEAN}
    \cup {[jwt |-> t, tilde |-> TRUE, discs |-> Present(u, reveal)] :
             t \in SDTokens, u \in SDTokens,
             reveal \in SUBSET {"email", "given_name"}}

\* The agent's token is validated first.
BeginIssue(c, a, w, p, want) ==
    /\ call[c] = None
    /\ AgentVerifies(a)
    /\ call' = [call EXCEPT ![c] =
         [stage |-> "user", asked |-> clock, agent |-> a.sub, wire |-> w, aud |-> p,
          want |-> want, act |-> None, sub |-> None, scope |-> {}, email |-> None]]
    /\ shown' = shown \cup w.discs
    /\ UNCHANGED <<clock, tokens>>

\* Mutant of SDValidate: the digests of the disclosures are not compared.
SDValidateUnchecked(w) ==
    w.tilde /\ Verifies(w.jwt, "sduser") /\ AS \in w.jwt.aud

\* SDUserValidator.Validate: every disclosure must have its digest in _sd.
SDValidate(w) ==
    /\ w.tilde /\ Verifies(w.jwt, "sduser") /\ AS \in w.jwt.aud
    /\ w.discs \subseteq w.jwt.sd

\* UserValidator.Validate; a separator would have taken the other path.
PlainValidate(w) ==
    /\ ~w.tilde /\ Verifies(w.jwt, "user") /\ AS \in w.jwt.aud

\* The address in the result of a validation: only the SD-JWT path has one.
RevealedEmail(w) ==
    IF \E d \in w.discs : d.name = "email"
    THEN (CHOOSE d \in w.discs : d.name = "email").value
    ELSE None

\* Then the user's, on one of two paths.
ValidateUser(c) ==
    LET w == call[c].wire IN
    /\ call[c] # None /\ call[c].stage = "user"
    /\ SDValidate(w) \/ PlainValidate(w)
    /\ call' = [call EXCEPT ![c] = [@ EXCEPT !.stage = "sign",
          !.sub = w.jwt.sub, !.scope = w.jwt.scope, !.email = RevealedEmail(w)]]
    /\ UNCHANGED <<clock, tokens, shown>>

\* resolveScope: everything if nothing was asked for, else what was asked for,
\* an error (no result) if the user did not grant all of it.  (A request of
\* blanks only, which yields the empty scope, is not modelled.)
resolveScope(granted, want) ==
    IF want = {} THEN {granted} ELSE {s \in {want} : s \subseteq granted}

\* Mutant of SignOBO: subject and actor are swapped.
SignOBOSwapped(c) ==
    LET l == call[c] IN
    /\ call[c] # None /\ l.stage = "sign" /\ Room
    /\ \E s \in resolveScope(l.scope, l.want) :
          tokens' = tokens \cup {[Fresh("obo", l.agent, {l.aud}, ExchangeTTL)
             EXCEPT !.act = l.sub, !.scope = s, !.email = l.email,
                    !.asked = l.asked]}
    /\ call' = [call EXCEPT ![c] = None]
    /\ UNCHANGED <<clock, shown>>

\* The scope is resolved, and the token signed with a fresh look at the clock.
SignOBO(c) ==
    LET l == call[c] IN
    /\ call[c] # None /\ l.stage = "sign" /\ Room
    /\ \E s \in resolveScope(l.scope, l.want) :
          tokens' = tokens \cup {[Fresh("obo", l.sub, {l.aud}, ExchangeTTL)
             EXCEPT !.act = l.agent, !.scope = s, !.email = l.email,
                    !.asked = l.asked]}
    /\ call' = [call EXCEPT ![c] = None]
    /\ UNCHANGED <<clock, shown>>

\* Issue returns an error: the user token does not verify, or the scope asked
\* for exceeds it.
IssueFails(c) ==
    LET l == call[c] IN
    /\ call[c] # None
    /\ \/ l.stage = "user" /\ ~SDValidate(l.wire) /\ ~PlainValidate(l.wire)
       \/ l.stage = "sign" /\ resolveScope(l.scope, l.want) = {}
    /\ call' = [call EXCEPT ![c] = None]
    /\ UNCHANGED <<clock, tokens, shown>>

-----------------------------------------------------------------------------
(* GrantIssuer.Issue *)

\* The agent's token is validated; the actor is whoever the caller names.
BeginGrant(c, a, p, act) ==
    /\ call[c] = None
    /\ AgentVerifies(a)
    /\ call' = [call EXCEPT ![c] =
         [stage |-> "grant", asked |-> clock, agent |-> a.sub,
          wire |-> [jwt |-> None, tilde |-> FALSE, discs |-> {}],
          aud |-> p, want |-> {}, act |-> act,
          sub |-> None, scope |-> {}, email |-> None]]
    /\ UNCHANGED <<clock, tokens, shown>>

\* Mutant of SignGrant: the subject is the actor, if one is named.
SignGrantForActor(c) ==
    LET l == call[c]
        sub == IF l.act = None THEN l.agent ELSE l.act IN
    /\ call[c] # None /\ l.stage = "grant" /\ Room
    /\ tokens' = tokens \cup
         {[Fresh("grant", sub, {l.aud}, ExchangeTTL)
             EXCEPT !.act = l.act, !.asked = l.asked]}
    /\ call' = [call EXCEPT ![c] = None]
    /\ UNCHANGED <<clock, shown>>

\* The grant's subject is the agent whose token was validated.
SignGrant(c) ==
    LET l == call[c] IN
    /\ call[c] # None /\ l.stage = "grant" /\ Room
    /\ tokens' = tokens \cup
         {[Fresh("grant", l.agent, {l.aud}, ExchangeTTL)
             EXCEPT !.act = l.act, !.asked = l.asked]}
    /\ call' = [call EXCEPT ![c] = None]
    /\ UNCHANGED <<clock, shown>>

-----------------------------------------------------------------------------
(* Authenticator.Authenticate *)

\* A client authenticates with an agent token and gets an access token of its
\* own lifetime.  It is opaque, so none of the validators accepts it, and its
\* scope, which nothing looks at, is whatever was asked for.
Authenticate(a) ==
    /\ Room /\ AgentVerifies(a)
    /\ tokens' = tokens \cup {Fresh("access", a.sub, {}, AccessTTL)}
    /\ UNCHANGED <<clock, shown, call>>

-----------------------------------------------------------------------------

Next ==
    \/ Tick
    \/ \E a \in Agents : AgentIssue(a)
    \/ \E u \in Users, e \in Emails, s \in Consents, p \in Parties :
          \/ UserIssue(u, e, s, p)
          \/ \E salt \in Salts : SDIssue(u, e, s, p, salt)
    \/ \E u \in Users, ps \in SUBSET Parties : TxnIssue(u, ps)
    \/ \E a \in tokens : Authenticate(a)
    \/ \E c \in Callers, p \in Parties :
          \/ \E a \in tokens, w \in Wires, want \in Requests :
                BeginIssue(c, a, w, p, want)
          \/ \E a \in tokens, act \in Agents \cup {None} : BeginGrant(c, a, p, act)
    \/ \E c \in Callers :
          ValidateUser(c) \/ SignOBO(c) \/ IssueFails(c) \/ SignGrant(c)

Spec == Init /\ [][Next]_vars

-----------------------------------------------------------------------------
(* Properties *)

\* A user token, plain or SD-JWT, that some user was given for the AS.
UserTokens == {t \in tokens : t.typ \in {"user", "sduser"} /\ AS \in t.aud}

Issued(role) == {t \in tokens : t.typ = role}

\* What a resource server learns from a delegated token is true: the acting
\* agent had an agent token, and one user token, addressed to the AS, names the
\* subject and grants all of the scope.  Both were live when the delegation was
\* asked for, though either may have expired before it was signed.  It holds
\* although one authority may sign tokens of every role, some with subjects and
\* audiences of their caller's choice.
DelegationIsGenuine ==
    \A t \in tokens, p \in Parties : OBOAccepts(t, p) =>
        /\ \E a \in Issued("agent") : a.sub = t.act /\ t.asked < a.exp
        /\ \E u \in UserTokens : u.sub = t.sub /\ t.scope \subseteq u.scope
                                 /\ t.asked < u.exp

\* A resource server learns an address only if the holder showed it, and the
\* address is the one the IdP put into a token of that very user: a plain user
\* token gives nothing away, and a disclosure of another token is refused.
EmailOnlyByChoice ==
    \A t \in tokens, p \in Parties : (OBOAccepts(t, p) /\ t.email # None) =>
        \E u \in UserTokens, d \in shown :
            /\ u.sub = t.sub /\ t.scope \subseteq u.scope
            /\ d \in u.sd /\ d.name = "email" /\ d.value = t.email

\* A grant the other domain accepts, and an access token while it lives, names
\* an agent whose agent token was live when it was asked for, whoever was named
\* as the actor and though that agent token may have expired since.
GrantIsGenuine ==
    \A t \in tokens, p \in Parties :
        GrantAccepts(t, p) \/ Verifies(t, "access") =>
            \E a \in Issued("agent") : a.sub = t.sub /\ t.asked < a.exp
=============================================================================
