------------------------- MODULE TokenExchangeProofs -------------------------
(***************************************************************************)
(* Proofs about TokenExchange, for any number of users, agents, exchanges  *)
(* and authorities, one of which may sign for every role.  The invariant   *)
(* ties what an exchange holds in its locals, and what it signs, to the    *)
(* tokens it was read from.                                                *)
(***************************************************************************)
EXTENDS TokenExchange, TLAPS

-----------------------------------------------------------------------------
(* The inductive invariant *)

\* Some agent token names x, and had not expired when asked.
AgentKnown(x, asked) == \E a \in Issued("agent") : a.sub = x /\ asked < a.exp

\* One user token for the AS names the subject, grants the scope, had not expired
\* when asked and, if there is an address, holds a disclosure of it that was shown.
UserBehind(sub, scope, email, asked) ==
    \E u \in UserTokens :
        /\ u.sub = sub /\ scope \subseteq u.scope /\ asked < u.exp
        /\ email # None => \E d \in shown : d \in u.sd /\ d.name = "email"
                                            /\ d.value = email

\* Delegated tokens and grants are what exchanges made of their inputs.
TokensGenuine ==
    \A t \in tokens :
        /\ t.typ = "obo" => /\ AgentKnown(t.act, t.asked)
                            /\ UserBehind(t.sub, t.scope, t.email, t.asked)
        /\ t.typ \in {"grant", "access"} => AgentKnown(t.sub, t.asked)

\* What an exchange was sent is a signed token, and has been shown; what it has
\* validated is backed by what was live when the exchange began, since no clock
\* reading of its own is earlier.
CallsGenuine ==
    \A c \in Callers : call[c] # None =>
        LET l == call[c] IN
        /\ l.asked <= clock
        /\ AgentKnown(l.agent, l.asked)
        /\ l.stage = "user" => /\ l.wire.jwt \in tokens
                               /\ l.wire.discs \subseteq shown
                               /\ ~l.wire.tilde => l.wire.discs = {}
        /\ l.stage = "sign" => UserBehind(l.sub, l.scope, l.email, l.asked)

\* An e-mail disclosure holds an address that the IdP had on file.
EmailsOnFile ==
    \A t \in tokens : \A d \in t.sd : d.name = "email" => d.value \in Emails

IInv == TypeOK /\ TokensGenuine /\ CallsGenuine /\ EmailsOnFile

-----------------------------------------------------------------------------
(* Nothing that backs a token is ever lost *)

LEMMA BackingGrows ==
    ASSUME tokens \subseteq tokens', shown \subseteq shown'
    PROVE  /\ \A x, n : AgentKnown(x, n) => AgentKnown(x, n)'
           /\ \A x, s, e, n : UserBehind(x, s, e, n) => UserBehind(x, s, e, n)'
BY DEF AgentKnown, UserBehind, UserTokens, Issued

LEMMA OnlyGrows ==
    ASSUME [Next]_vars
    PROVE  /\ tokens \subseteq tokens' /\ shown \subseteq shown'
           /\ \/ UNCHANGED clock
              \/ clock' = clock + 1 /\ UNCHANGED call
BY DEF Next, vars, Tick, AgentIssue, UserIssue, SDIssue, TxnIssue, BeginIssue,
   ValidateUser, SignOBO, IssueFails, BeginGrant, SignGrant, Authenticate

\* resolveScope never grants more than the user did (obo/issuer.go:153).
LEMMA ScopeWithinGrant ==
    \A granted, want : \A s \in resolveScope(granted, want) : s \subseteq granted
BY DEF resolveScope

\* An address that SDUserValidator reports was disclosed by that very token.
LEMMA RevealedIsDisclosed ==
    ASSUME NEW w, RevealedEmail(w) # None
    PROVE  \E d \in w.discs : d.name = "email" /\ d.value = RevealedEmail(w)
BY DEF RevealedEmail

\* A validated user token backs what the exchange goes on with.
LEMMA ValidatedIsBacked ==
    ASSUME NEW w, w.jwt \in tokens, w.discs \subseteq shown,
           ~w.tilde => w.discs = {},
           SDValidate(w) \/ PlainValidate(w),
           TypeOK, NEW n \in Nat, n <= clock
    PROVE  UserBehind(w.jwt.sub, w.jwt.scope, RevealedEmail(w), n)
<1>0. n < w.jwt.exp
  <2>1. clock < w.jwt.exp
    BY DEF SDValidate, PlainValidate, Verifies
  <2>2. w.jwt.exp \in Nat /\ clock \in Nat
    BY BoundAssumption DEF TypeOK, Token
  <2> QED BY <2>1, <2>2
<1>1. w.jwt \in UserTokens
  BY DEF SDValidate, PlainValidate, Verifies, UserTokens
<1>2. w.discs \subseteq w.jwt.sd
  BY DEF SDValidate, PlainValidate
<1> QED BY <1>0, <1>1, <1>2, RevealedIsDisclosed DEF UserBehind

-----------------------------------------------------------------------------
(* Steps *)

\* An action that signs one token and touches no exchange.
LEMMA IssueKeepsCalls ==
    ASSUME TypeOK, CallsGenuine, UNCHANGED call, [Next]_vars
    PROVE  CallsGenuine'
<1>1. ASSUME NEW n \in Nat, n <= clock PROVE n <= clock'
  BY <1>1, OnlyGrows, BoundAssumption DEF TypeOK
<1>2. \A c \in Callers : call[c] # None => call[c].asked \in Nat
  BY DEF TypeOK, Call
<1> QED BY <1>1, <1>2, OnlyGrows, BackingGrows DEF CallsGenuine

LEMMA StepGenuine ==
    IInv /\ [Next]_vars => TokensGenuine' /\ CallsGenuine'
<1> SUFFICES ASSUME IInv, [Next]_vars PROVE TokensGenuine' /\ CallsGenuine'
  OBVIOUS
<1>g. /\ tokens \subseteq tokens' /\ shown \subseteq shown'
      /\ \A x, n : AgentKnown(x, n) => AgentKnown(x, n)'
      /\ \A x, s, e, n : UserBehind(x, s, e, n) => UserBehind(x, s, e, n)'
  BY OnlyGrows, BackingGrows
<1>p. /\ call \in [Callers -> Call \cup {None}] /\ TokensGenuine /\ CallsGenuine
      /\ TypeOK /\ clock \in Nat
  BY BoundAssumption DEF IInv, TypeOK
<1>1. CASE Tick \/ UNCHANGED vars
  BY <1>1, <1>g, <1>p, IssueKeepsCalls DEF Tick, vars, TokensGenuine
<1>2. ASSUME NEW t, t.typ \notin {"obo", "grant", "access"}, tokens' = tokens \cup {t},
             UNCHANGED call
      PROVE  TokensGenuine' /\ CallsGenuine'
  BY <1>2, <1>g, <1>p, IssueKeepsCalls DEF TokensGenuine
<1>3. ASSUME NEW a \in Agents, AgentIssue(a) PROVE TokensGenuine' /\ CallsGenuine'
  BY <1>2, <1>3 DEF AgentIssue, Fresh
<1>4. ASSUME NEW u, NEW e, NEW s, NEW p, UserIssue(u, e, s, p)
      PROVE  TokensGenuine' /\ CallsGenuine'
  BY <1>2, <1>4 DEF UserIssue, Fresh
<1>5. ASSUME NEW u, NEW e, NEW s, NEW p, NEW salt, SDIssue(u, e, s, p, salt)
      PROVE  TokensGenuine' /\ CallsGenuine'
  BY <1>2, <1>5 DEF SDIssue, Fresh
<1>6. ASSUME NEW u, NEW ps, TxnIssue(u, ps) PROVE TokensGenuine' /\ CallsGenuine'
  BY <1>2, <1>6 DEF TxnIssue, Fresh
<1>7. ASSUME NEW c \in Callers, NEW p \in Parties, NEW a \in tokens, NEW w \in Wires,
             NEW want \in Requests, BeginIssue(c, a, w, p, want)
      PROVE  TokensGenuine' /\ CallsGenuine'
  <2>1. AgentKnown(a.sub, clock)
    BY <1>7 DEF BeginIssue, AgentVerifies, Verifies, AgentKnown, Issued
  <2>2. w.jwt \in tokens /\ (~w.tilde => w.discs = {})
    BY DEF Wires, SDTokens
  <2>3. /\ UNCHANGED <<clock, tokens>> /\ shown' = shown \cup w.discs
        /\ call' = [call EXCEPT ![c] =
             [stage |-> "user", asked |-> clock, agent |-> a.sub, wire |-> w, aud |-> p,
              want |-> want, act |-> None, sub |-> None, scope |-> {}, email |-> None]]
    BY <1>7 DEF BeginIssue
  <2>4. TokensGenuine'
    BY <1>g, <1>p, <2>3 DEF TokensGenuine
  <2>5. CallsGenuine'
    BY <1>g, <1>p, <2>1, <2>2, <2>3 DEF CallsGenuine
  <2> QED BY <2>4, <2>5
<1>8. ASSUME NEW c \in Callers, NEW p \in Parties, NEW a \in tokens, NEW act,
             BeginGrant(c, a, p, act)
      PROVE  TokensGenuine' /\ CallsGenuine'
  <2>1. AgentKnown(a.sub, clock)
    BY <1>8 DEF BeginGrant, AgentVerifies, Verifies, AgentKnown, Issued
  <2>2. TokensGenuine'
    BY <1>8, <1>g, <1>p DEF BeginGrant, TokensGenuine
  <2>3. CallsGenuine'
    BY <1>8, <1>g, <1>p, <2>1 DEF BeginGrant, CallsGenuine
  <2> QED BY <2>2, <2>3
<1>9. ASSUME NEW c \in Callers, ValidateUser(c)
      PROVE  TokensGenuine' /\ CallsGenuine'
  <2>1. /\ call[c] # None /\ call[c].stage = "user"
        /\ call[c].wire.jwt \in tokens /\ call[c].wire.discs \subseteq shown
        /\ ~call[c].wire.tilde => call[c].wire.discs = {}
    BY <1>9, <1>p DEF ValidateUser, CallsGenuine
  <2>3. call[c] \in Call
    BY <1>p, <2>1
  <2>n. call[c].asked \in Nat /\ call[c].asked <= clock
    BY <1>p, <2>1, <2>3 DEF CallsGenuine, Call
  <2>2. UserBehind(call[c].wire.jwt.sub, call[c].wire.jwt.scope,
                   RevealedEmail(call[c].wire), call[c].asked)
    BY <1>9, <1>p, <2>1, <2>n, ValidatedIsBacked DEF ValidateUser
  <2>4. /\ call'[c].stage = "sign" /\ call'[c].agent = call[c].agent
        /\ call'[c].asked = call[c].asked /\ UNCHANGED clock
        /\ call'[c].sub = call[c].wire.jwt.sub /\ call'[c].scope = call[c].wire.jwt.scope
        /\ call'[c].email = RevealedEmail(call[c].wire)
        /\ \A d \in Callers : d # c => call'[d] = call[d]
    BY <1>9, <1>p, <2>3 DEF ValidateUser, Call
  <2>5. AgentKnown(call[c].agent, call[c].asked)
    BY <1>p, <2>1 DEF CallsGenuine
  <2>6. TokensGenuine'
    BY <1>9, <1>g, <1>p DEF ValidateUser, TokensGenuine
  <2>7. CallsGenuine'
    BY <1>g, <1>p, <2>2, <2>n, <2>4, <2>5 DEF CallsGenuine
  <2> QED BY <2>6, <2>7
<1>10. ASSUME NEW c \in Callers, SignOBO(c) PROVE TokensGenuine' /\ CallsGenuine'
  <2>1. /\ AgentKnown(call[c].agent, call[c].asked)
        /\ UserBehind(call[c].sub, call[c].scope, call[c].email, call[c].asked)
    BY <1>10, <1>p DEF SignOBO, CallsGenuine
  <2>s. PICK s \in resolveScope(call[c].scope, call[c].want) :
           tokens' = tokens \cup {[Fresh("obo", call[c].sub, {call[c].aud}, ExchangeTTL)
             EXCEPT !.act = call[c].agent, !.scope = s, !.email = call[c].email,
                    !.asked = call[c].asked]}
    BY <1>10 DEF SignOBO
  <2> DEFINE t == [Fresh("obo", call[c].sub, {call[c].aud}, ExchangeTTL)
                    EXCEPT !.act = call[c].agent, !.scope = s, !.email = call[c].email,
                           !.asked = call[c].asked]
  <2>2. /\ s \subseteq call[c].scope /\ tokens' = tokens \cup {t}
        /\ t.typ = "obo" /\ t.act = call[c].agent /\ t.sub = call[c].sub
        /\ t.scope = s /\ t.email = call[c].email /\ t.asked = call[c].asked
    BY <2>s, ScopeWithinGrant DEF Fresh
  <2> HIDE DEF t
  <2>3. UserBehind(t.sub, t.scope, t.email, t.asked)
    BY <2>1, <2>2 DEF UserBehind
  <2>4. TokensGenuine'
    BY <1>g, <1>p, <2>1, <2>2, <2>3 DEF TokensGenuine
  <2>5. CallsGenuine'
    BY <1>10, <1>g, <1>p DEF SignOBO, CallsGenuine
  <2> QED BY <2>4, <2>5
<1>11. ASSUME NEW c \in Callers, IssueFails(c) PROVE TokensGenuine' /\ CallsGenuine'
  <2>1. TokensGenuine'
    BY <1>11, <1>g, <1>p DEF IssueFails, TokensGenuine
  <2>2. CallsGenuine'
    BY <1>11, <1>g, <1>p DEF IssueFails, CallsGenuine
  <2> QED BY <2>1, <2>2
<1>12. ASSUME NEW c \in Callers, SignGrant(c) PROVE TokensGenuine' /\ CallsGenuine'
  <2>1. AgentKnown(call[c].agent, call[c].asked)
    BY <1>12, <1>p DEF SignGrant, CallsGenuine
  <2> DEFINE t == [Fresh("grant", call[c].agent, {call[c].aud}, ExchangeTTL)
                    EXCEPT !.act = call[c].act, !.asked = call[c].asked]
  <2>2. tokens' = tokens \cup {t} /\ t.typ = "grant" /\ t.sub = call[c].agent
        /\ t.asked = call[c].asked
    BY <1>12 DEF SignGrant, Fresh
  <2> HIDE DEF t
  <2>3. TokensGenuine'
    BY <1>g, <1>p, <2>1, <2>2 DEF TokensGenuine
  <2>4. CallsGenuine'
    BY <1>12, <1>g, <1>p DEF SignGrant, CallsGenuine
  <2> QED BY <2>3, <2>4
<1>13. ASSUME NEW a \in tokens, Authenticate(a) PROVE TokensGenuine' /\ CallsGenuine'
  <2>1. AgentKnown(a.sub, clock) /\ UNCHANGED call
    BY <1>13 DEF Authenticate, AgentVerifies, Verifies, AgentKnown, Issued
  <2> DEFINE t == Fresh("access", a.sub, {}, AccessTTL)
  <2>2. tokens' = tokens \cup {t} /\ t.typ = "access" /\ t.sub = a.sub /\ t.asked = clock
    BY <1>13 DEF Authenticate, Fresh
  <2> HIDE DEF t
  <2>3. TokensGenuine'
    BY <1>g, <1>p, <2>1, <2>2 DEF TokensGenuine
  <2> QED BY <1>p, <2>1, <2>3, IssueKeepsCalls
<1> QED
  BY <1>1, <1>3, <1>4, <1>5, <1>6, <1>7, <1>8, <1>9, <1>10, <1>11, <1>12, <1>13 DEF Next

-----------------------------------------------------------------------------
(* Types *)

\* What TypeOK asks of one token.
TokenOK(t) ==
    /\ t \in Token
    /\ t.typ \in {"user", "sduser", "obo", "txn"} => t.sub \in Users
    /\ t.typ \in {"agent", "grant", "access"} => t.sub \in Agents
    /\ t.typ = "obo" => t.act # None

LEMMA TokensOK == TypeOK => \A t \in tokens : TokenOK(t)
BY DEF TypeOK, TokenOK

\* A claim set with the claims every role has, in its place in Token.
LEMMA FreshTyped ==
    ASSUME TypeOK, NEW role \in Roles, NEW sub \in Users \cup Agents,
           NEW aud \in SUBSET Parties, NEW ttl \in Nat
    PROVE  Fresh(role, sub, aud, ttl) \in Token
<1>1. clock \in Nat /\ clock + ttl \in Nat
  BY BoundAssumption DEF TypeOK
<1>2. Signer[role] \in {Signer[r] : r \in Roles}
  OBVIOUS
<1> QED BY <1>1, <1>2 DEF Fresh, Token

\* An action that signs one well-typed token and touches no exchange.
LEMMA IssueTyped ==
    ASSUME TypeOK, NEW t, TokenOK(t), tokens' = tokens \cup {t},
           UNCHANGED <<clock, shown, call>>
    PROVE  TypeOK'
BY DEF TypeOK, TokenOK

\* What an exchange is sent is typed: it is made of issued tokens.
LEMMA WiresTyped ==
    ASSUME TypeOK, NEW w \in Wires
    PROVE  /\ w \in [jwt : Token \cup {None}, tilde : BOOLEAN, discs : SUBSET Disclosure]
           /\ w.discs \subseteq Disclosure
<1>1. \A t \in tokens : t \in Token /\ t.sd \subseteq Disclosure
  BY DEF TypeOK, Token
<1>2. \A t \in SDTokens : t \in tokens /\ \A reveal : Present(t, reveal) \subseteq Disclosure
  BY <1>1 DEF SDTokens, Present
<1>3. ASSUME NEW t \in tokens, NEW b \in BOOLEAN, NEW ds \in SUBSET Disclosure,
             w = [jwt |-> t, tilde |-> b, discs |-> ds]
      PROVE  /\ w \in [jwt : Token \cup {None}, tilde : BOOLEAN, discs : SUBSET Disclosure]
             /\ w.discs \subseteq Disclosure
  BY <1>1, <1>3
<1>4. CASE \E t \in tokens, b \in BOOLEAN : w = [jwt |-> t, tilde |-> b, discs |-> {}]
  BY <1>3, <1>4
<1>5. CASE \E t \in SDTokens, u \in SDTokens, reveal \in SUBSET {"email", "given_name"} :
              w = [jwt |-> t, tilde |-> TRUE, discs |-> Present(u, reveal)]
  BY <1>2, <1>3, <1>5
<1> QED BY <1>4, <1>5 DEF Wires

LEMMA StepEmailsOnFile == EmailsOnFile /\ [Next]_vars => EmailsOnFile'
<1> SUFFICES ASSUME EmailsOnFile, [Next]_vars PROVE EmailsOnFile'
  OBVIOUS
<1>1. ASSUME UNCHANGED tokens PROVE EmailsOnFile'
  BY <1>1 DEF EmailsOnFile
<1>2. ASSUME NEW t, t.sd = {}, tokens' = tokens \cup {t} PROVE EmailsOnFile'
  BY <1>2 DEF EmailsOnFile
<1>3. ASSUME NEW u \in Users, NEW e \in Emails, NEW s, NEW p, NEW salt,
             SDIssue(u, e, s, p, salt)
      PROVE  EmailsOnFile'
  <2> DEFINE ds == {[name |-> "email", value |-> e, salt |-> salt],
                    [name |-> "given_name", value |-> u, salt |-> salt]}
             t == [Fresh("sduser", u, {p}, UserTTL) EXCEPT !.scope = s, !.sd = ds]
  <2>1. tokens' = tokens \cup {t}
    BY <1>3 DEF SDIssue
  <2>2. \A d \in ds : d.name = "email" => d.value \in Emails
    OBVIOUS
  <2> HIDE DEF ds
  <2>3. t.sd = ds
    BY DEF Fresh
  <2> HIDE DEF t
  <2> QED BY <2>1, <2>2, <2>3 DEF EmailsOnFile
<1>4. ASSUME NEW a, AgentIssue(a) PROVE EmailsOnFile'
  BY <1>2, <1>4 DEF AgentIssue, Fresh
<1>5. ASSUME NEW u, NEW e, NEW s, NEW p, UserIssue(u, e, s, p) PROVE EmailsOnFile'
  BY <1>2, <1>5 DEF UserIssue, Fresh
<1>6. ASSUME NEW u, NEW ps, TxnIssue(u, ps) PROVE EmailsOnFile'
  BY <1>2, <1>6 DEF TxnIssue, Fresh
<1>10. ASSUME NEW a, Authenticate(a) PROVE EmailsOnFile'
  BY <1>2, <1>10 DEF Authenticate, Fresh
<1>7. ASSUME NEW c, SignOBO(c) PROVE EmailsOnFile'
  BY <1>2, <1>7 DEF SignOBO, Fresh
<1>8. ASSUME NEW c, SignGrant(c) PROVE EmailsOnFile'
  BY <1>2, <1>8 DEF SignGrant, Fresh
<1>9. ASSUME NEW c, \/ ValidateUser(c) \/ IssueFails(c)
                    \/ \E p, a, w, want : BeginIssue(c, a, w, p, want)
                    \/ \E p, a, act : BeginGrant(c, a, p, act)
      PROVE  UNCHANGED tokens
  BY <1>9 DEF ValidateUser, IssueFails, BeginIssue, BeginGrant
<1> QED
  BY <1>1, <1>3, <1>4, <1>5, <1>6, <1>7, <1>8, <1>9, <1>10 DEF Next, Tick, vars

LEMMA StepTypeOK ==
    TypeOK /\ CallsGenuine /\ EmailsOnFile /\ [Next]_vars => TypeOK'
<1> SUFFICES ASSUME TypeOK, CallsGenuine, EmailsOnFile, [Next]_vars PROVE TypeOK'
  OBVIOUS
<1>p. call \in [Callers -> Call \cup {None}] /\ clock \in Nat
  BY BoundAssumption DEF TypeOK
<1>1. CASE Tick \/ UNCHANGED vars
  BY <1>1, BoundAssumption DEF Tick, vars, TypeOK
<1>2. ASSUME NEW a \in Agents, AgentIssue(a) PROVE TypeOK'
  <2> DEFINE f == Fresh("agent", a, {}, AgentTTL)
             t == [f EXCEPT !.cnf = TRUE]
  <2>1. f \in Token /\ f.typ = "agent" /\ f.sub = a
    BY FreshTyped, TTLAssumption DEF Fresh, Roles
  <2>2. tokens' = tokens \cup {t} /\ UNCHANGED <<clock, shown, call>>
    BY <1>2 DEF AgentIssue
  <2> HIDE DEF f
  <2>3. TokenOK(t)
    BY <2>1 DEF TokenOK, Token
  <2> HIDE DEF t
  <2> QED BY <2>2, <2>3, IssueTyped
<1>3. ASSUME NEW u \in Users, NEW e \in Emails, NEW s \in Consents, NEW p \in Parties,
             UserIssue(u, e, s, p)
      PROVE  TypeOK'
  <2> DEFINE f == Fresh("user", u, {p}, UserTTL)
             t == [f EXCEPT !.scope = s, !.email = e]
  <2>1. f \in Token /\ f.typ = "user" /\ f.sub = u
    BY FreshTyped, TTLAssumption DEF Fresh, Roles
  <2>2. tokens' = tokens \cup {t} /\ UNCHANGED <<clock, shown, call>>
    BY <1>3 DEF UserIssue
  <2> HIDE DEF f
  <2>3. TokenOK(t)
    BY <2>1, ScopeAssumption DEF TokenOK, Token
  <2> HIDE DEF t
  <2> QED BY <2>2, <2>3, IssueTyped
<1>4. ASSUME NEW u \in Users, NEW e \in Emails, NEW s \in Consents, NEW p \in Parties,
             NEW salt \in Salts, SDIssue(u, e, s, p, salt)
      PROVE  TypeOK'
  <2> DEFINE f == Fresh("sduser", u, {p}, UserTTL)
             ds == {[name |-> "email", value |-> e, salt |-> salt],
                    [name |-> "given_name", value |-> u, salt |-> salt]}
             t == [f EXCEPT !.scope = s, !.sd = ds]
  <2>1. f \in Token /\ f.typ = "sduser" /\ f.sub = u
    BY FreshTyped, TTLAssumption DEF Fresh, Roles
  <2>2. ds \in SUBSET Disclosure
    BY DEF Disclosure
  <2>3. tokens' = tokens \cup {t} /\ UNCHANGED <<clock, shown, call>>
    BY <1>4 DEF SDIssue
  <2> HIDE DEF f, ds
  <2>4. TokenOK(t)
    BY <2>1, <2>2, ScopeAssumption DEF TokenOK, Token
  <2> HIDE DEF t
  <2> QED BY <2>3, <2>4, IssueTyped
<1>5. ASSUME NEW u \in Users, NEW ps \in SUBSET Parties, TxnIssue(u, ps)
      PROVE  TypeOK'
  <2> DEFINE t == Fresh("txn", u, ps, ExchangeTTL)
  <2>1. t \in Token /\ t.typ = "txn" /\ t.sub = u
    BY FreshTyped, TTLAssumption DEF Fresh, Roles
  <2>2. tokens' = tokens \cup {t} /\ UNCHANGED <<clock, shown, call>>
    BY <1>5 DEF TxnIssue
  <2> HIDE DEF t
  <2> QED BY <2>1, <2>2, IssueTyped DEF TokenOK
<1>6. ASSUME NEW c \in Callers, NEW p \in Parties, NEW a \in tokens, NEW w \in Wires,
             NEW want \in Requests, BeginIssue(c, a, w, p, want)
      PROVE  TypeOK'
  <2>1. a.sub \in Agents
    BY <1>6, TokensOK DEF BeginIssue, AgentVerifies, Verifies, TokenOK
  <2>2. [stage |-> "user", asked |-> clock, agent |-> a.sub, wire |-> w, aud |-> p,
         want |-> want, act |-> None, sub |-> None, scope |-> {}, email |-> None] \in Call
    BY <1>p, <2>1, WiresTyped, ScopeAssumption DEF Call
  <2> QED BY <1>6, <2>2, WiresTyped DEF BeginIssue, TypeOK
<1>7. ASSUME NEW c \in Callers, NEW p \in Parties, NEW a \in tokens,
             NEW act \in Agents \cup {None}, BeginGrant(c, a, p, act)
      PROVE  TypeOK'
  <2>1. a.sub \in Agents
    BY <1>7, TokensOK DEF BeginGrant, AgentVerifies, Verifies, TokenOK
  <2>2. [stage |-> "grant", asked |-> clock, agent |-> a.sub,
         wire |-> [jwt |-> None, tilde |-> FALSE, discs |-> {}],
         aud |-> p, want |-> {}, act |-> act,
         sub |-> None, scope |-> {}, email |-> None] \in Call
    BY <1>p, <2>1 DEF Call
  <2> QED BY <1>7, <2>2 DEF BeginGrant, TypeOK
<1>8. ASSUME NEW c \in Callers, ValidateUser(c) PROVE TypeOK'
  <2> DEFINE w == call[c].wire
  <2>1. call[c] \in Call /\ call[c].stage = "user"
    BY <1>8, <1>p DEF ValidateUser
  <2>2. w.jwt \in tokens /\ (~w.tilde => w.discs = {})
    BY <1>8 DEF ValidateUser, CallsGenuine
  <2>3. w.jwt.sub \in Users /\ w.jwt.scope \in SUBSET Scopes
    BY <1>8, <2>2, TokensOK
    DEF ValidateUser, SDValidate, PlainValidate, Verifies, TokenOK, Token
  <2>4. w.discs \subseteq w.jwt.sd
    BY <1>8, <2>2 DEF ValidateUser, SDValidate, PlainValidate
  <2>5. RevealedEmail(w) \in Emails \cup {None}
    BY <2>2, <2>4, RevealedIsDisclosed DEF EmailsOnFile
  <2> HIDE DEF w
  <2>6. [call[c] EXCEPT !.stage = "sign", !.sub = w.jwt.sub,
                        !.scope = w.jwt.scope, !.email = RevealedEmail(w)] \in Call
    BY <2>1, <2>3, <2>5 DEF Call
  <2>7. call' = [call EXCEPT ![c] = [call[c] EXCEPT !.stage = "sign", !.sub = w.jwt.sub,
                        !.scope = w.jwt.scope, !.email = RevealedEmail(w)]]
        /\ UNCHANGED <<clock, tokens, shown>>
    BY <1>8 DEF ValidateUser, w
  <2> QED BY <2>6, <2>7 DEF TypeOK
<1>9. ASSUME NEW c \in Callers, SignOBO(c) PROVE TypeOK'
  <2>1. call[c] \in Call /\ call[c].stage = "sign"
    BY <1>9, <1>p DEF SignOBO
  <2>2. PICK s \in resolveScope(call[c].scope, call[c].want) :
           tokens' = tokens \cup {[Fresh("obo", call[c].sub, {call[c].aud}, ExchangeTTL)
             EXCEPT !.act = call[c].agent, !.scope = s, !.email = call[c].email,
                    !.asked = call[c].asked]}
    BY <1>9 DEF SignOBO
  <2>3. /\ call[c].agent \in Agents /\ call[c].aud \in Parties /\ call[c].asked \in Nat
        /\ call[c].scope \subseteq Scopes /\ call[c].email \in Emails \cup {None}
        /\ s \subseteq Scopes
    BY <2>1, ScopeWithinGrant DEF Call
  <2>4. call[c].sub \in Users
    <3>1. UserBehind(call[c].sub, call[c].scope, call[c].email, call[c].asked)
      BY <1>9, <2>1 DEF SignOBO, CallsGenuine
    <3>2. PICK u \in UserTokens : u.sub = call[c].sub
      BY <3>1 DEF UserBehind
    <3> QED BY <3>2, TokensOK DEF UserTokens, TokenOK
  <2> DEFINE f == Fresh("obo", call[c].sub, {call[c].aud}, ExchangeTTL)
             t == [f EXCEPT !.act = call[c].agent, !.scope = s, !.email = call[c].email,
                            !.asked = call[c].asked]
  <2>5. f \in Token /\ f.typ = "obo" /\ f.sub = call[c].sub
    BY <2>3, <2>4, FreshTyped, TTLAssumption DEF Fresh, Roles
  <2>6. tokens' = tokens \cup {t}
    BY <2>2
  <2> HIDE DEF f
  <2>7. TokenOK(t)
    BY <2>3, <2>4, <2>5, NoneAssumption DEF TokenOK, Token
  <2> HIDE DEF t
  <2> QED BY <1>9, <2>6, <2>7 DEF SignOBO, TypeOK, TokenOK
<1>10. ASSUME NEW c \in Callers, IssueFails(c) PROVE TypeOK'
  BY <1>10 DEF IssueFails, TypeOK
<1>11. ASSUME NEW c \in Callers, SignGrant(c) PROVE TypeOK'
  <2>1. call[c] \in Call /\ call[c].agent \in Agents /\ call[c].aud \in Parties
        /\ call[c].act \in Agents \cup {None} /\ call[c].asked \in Nat
    BY <1>11, <1>p DEF SignGrant, Call
  <2> DEFINE f == Fresh("grant", call[c].agent, {call[c].aud}, ExchangeTTL)
             t == [f EXCEPT !.act = call[c].act, !.asked = call[c].asked]
  <2>2. f \in Token /\ f.typ = "grant" /\ f.sub = call[c].agent
    BY <2>1, FreshTyped, TTLAssumption DEF Fresh, Roles
  <2>3. tokens' = tokens \cup {t}
    BY <1>11 DEF SignGrant
  <2> HIDE DEF f
  <2>4. TokenOK(t)
    BY <2>1, <2>2 DEF TokenOK, Token
  <2> HIDE DEF t
  <2> QED BY <1>11, <2>3, <2>4 DEF SignGrant, TypeOK, TokenOK
<1>12. ASSUME NEW a \in tokens, Authenticate(a) PROVE TypeOK'
  <2> DEFINE t == Fresh("access", a.sub, {}, AccessTTL)
  <2>1. a.sub \in Agents
    BY <1>12, TokensOK DEF Authenticate, AgentVerifies, Verifies, TokenOK
  <2>2. t \in Token /\ t.typ = "access" /\ t.sub = a.sub
    BY <2>1, FreshTyped, TTLAssumption DEF Fresh, Roles
  <2>3. tokens' = tokens \cup {t} /\ UNCHANGED <<clock, shown, call>>
    BY <1>12 DEF Authenticate
  <2> HIDE DEF t
  <2> QED BY <2>1, <2>2, <2>3, IssueTyped DEF TokenOK
<1> QED
  BY <1>1, <1>2, <1>3, <1>4, <1>5, <1>6, <1>7, <1>8, <1>9, <1>10, <1>11, <1>12 DEF Next

-----------------------------------------------------------------------------
(* The theorems *)

LEMMA InitIInv == Init => IInv
BY BoundAssumption
DEF Init, IInv, TypeOK, TokensGenuine, CallsGenuine, EmailsOnFile

LEMMA Invariance == Spec => []IInv
<1>1. IInv /\ [Next]_vars => IInv'
  BY StepTypeOK, StepGenuine, StepEmailsOnFile DEF IInv
<1> QED BY <1>1, InitIInv, PTL DEF Spec

\* Every signed token has the claims its typ promises: a delegated token names
\* a user and an agent, a grant an agent.
THEOREM TypeCorrect == Spec => []TypeOK
<1>1. IInv => TypeOK
  BY DEF IInv
<1> QED BY <1>1, Invariance, PTL

\* What OBOValidator accepts was made of an agent token and of one user token
\* for this authorization server, both live when the delegation was asked for
\* (obo/issuer.go:82-151).
THEOREM GenuineDelegation == Spec => []DelegationIsGenuine
<1>1. IInv => DelegationIsGenuine
  BY DEF IInv, TokensGenuine, DelegationIsGenuine, OBOAccepts, Verifies,
     AgentKnown, UserBehind
<1> QED BY <1>1, Invariance, PTL

\* An address reaches a resource server only if a disclosure of the same user
\* token was shown (obo/sdjwt.go:280-317).
THEOREM DisclosedByChoice == Spec => []EmailOnlyByChoice
<1>1. IInv => EmailOnlyByChoice
  BY DEF IInv, TokensGenuine, EmailOnlyByChoice, OBOAccepts, Verifies, UserBehind
<1> QED BY <1>1, Invariance, PTL

\* A grant names the agent whose token was validated, whoever acts
\* (identitychaining/issuer.go:51-90), and so does an access token
\* (spiffeclientauth/authenticator.go:85); that token was live when the grant or
\* the access token was asked for.
THEOREM GenuineGrants == Spec => []GrantIsGenuine
<1>1. IInv => GrantIsGenuine
  BY DEF IInv, TokensGenuine, GrantIsGenuine, GrantAccepts, Verifies, AgentKnown
<1> QED BY <1>1, Invariance, PTL
=============================================================================
