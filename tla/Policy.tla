------------------------------- MODULE Policy -------------------------------
(***************************************************************************)
(* The tier rules of the Policy Decision Point (pkg/cb4a/pdp.go).  An      *)
(* identity, a scope and a pattern are sequences of words: "/" and ":" are *)
(* words of their own, and in a pattern Star stands for "*".               *)
(***************************************************************************)
EXTENDS Naturals, Sequences

TierAuto == 1
TierHITL == 2
TierMFA == 3

Star == "*"

\* The pattern's word takes the words of value after the i-th, up to the j-th:
\* Star any run of words that holds no slash, even none, and every other word
\* itself.
Takes(word, value, i, j) ==
    IF word = Star THEN i <= j /\ \A k \in (i + 1)..j : value[k] # "/"
                   ELSE j = i + 1 /\ value[j] = word

\* path.Match: ends[n] holds the places of value where the first n words of the
\* pattern may end.
pathMatch(pattern, value) ==
    LET ends[n \in 0..Len(pattern)] ==
          IF n = 0 THEN {0}
          ELSE UNION {{j \in i..Len(value) : Takes(pattern[n], value, i, j)} :
                         i \in ends[n - 1]}
    IN  Len(value) \in ends[Len(pattern)]

\* Mutant of matchPattern: the pattern is only a prefix of the value.
matchPrefix(pattern, value) ==
    \E n \in 0..Len(value) : pathMatch(pattern, SubSeq(value, 1, n))

\* "*" alone matches everything, slashes included.
matchPattern(pattern, value) == pattern = <<Star>> \/ pathMatch(pattern, value)

Rule(agentPattern, scopePattern, tier) ==
    [agent |-> agentPattern, scope |-> scopePattern, tier |-> tier]

Anything == <<Star>>
Under(role) == <<"spiffe:", "/", "/", Star, "/", role, "/", Star>>

DefaultPolicyRules == <<
    Rule(Under("admin"), Anything, TierMFA),
    Rule(Under("ci"), Anything, TierHITL),
    Rule(Anything, <<"billing", ":", Star, ":", "write">>, TierHITL),
    Rule(Anything, <<"stripe", ":", Star, ":", "write">>, TierHITL),
    Rule(Anything, <<"payment", ":", "AGENT_CREDIT", ":", "50">>, TierAuto),
    Rule(Anything, <<"payment", ":", Star>>, TierHITL),
    Rule(Anything, <<Star, ":", "read">>, TierAuto),
    Rule(Anything, <<Star, ":", Star, ":", "read">>, TierAuto),
    Rule(Anything, Anything, TierHITL) >>

\* The tier of the first rule that matches; TierHITL if none does.
evaluateTier(rules, svid, scope) ==
    LET matching == {i \in DOMAIN rules : /\ matchPattern(rules[i].agent, svid)
                                          /\ matchPattern(rules[i].scope, scope)}
    IN  IF matching = {} THEN TierHITL
        ELSE rules[CHOOSE i \in matching : \A j \in matching : i <= j].tier

-----------------------------------------------------------------------------
(* What the default rules decide, over every short identity and scope *)

\* An identity with these path segments below its trust domain, and a scope
\* of these parts, cut by these separators.
svidOf(path) ==
    LET words == [n \in 1..(2 * Len(path)) |->
                    IF n % 2 = 1 THEN "/" ELSE path[n \div 2]]
    IN  <<"spiffe:", "/", "/", "mesh">> \o words
scopeOf(parts, cuts) ==
    [n \in 1..(2 * Len(parts) - 1) |->
        IF n % 2 = 1 THEN parts[(n + 1) \div 2] ELSE cuts[n \div 2]]

Paths == UNION {[1..n -> {"admin", "ci", "svc"}] : n \in 0..3}
Parts == {"payment", "AGENT_CREDIT", "50", "billing", "read", "write"}
Scopes == UNION {{scopeOf(p, c) : p \in [1..n -> Parts], c \in [1..(n - 1) -> {":", "/"}]} :
                    n \in 1..3}

Holds(word, s) == \E i \in DOMAIN s : s[i] = word
Micropayment == <<"payment", ":", "AGENT_CREDIT", ":", "50">>

\* A scope that ends in :read, does not begin with payment: and holds no slash.
IsRead(s) ==
    /\ Len(s) > 1 /\ s[Len(s) - 1] = ":" /\ s[Len(s)] = "read"
    /\ ~(s[1] = "payment" /\ s[2] = ":") /\ ~Holds("/", s)

\* The identity is exactly one level below <domain>/role.
Directly(path, role) == Len(path) = 2 /\ path[1] = role

\* What the rules' comments ask at least (pdp.go:54-68), of identities that the
\* patterns name: an administrator proves presence, a pipeline waits for a human,
\* and nobody is approved at once except for a read or for the micropayment; so
\* no write, no other payment and nothing unmatched.
TierIsStrict(rules, path, scope) ==
    LET tier == evaluateTier(rules, svidOf(path), scope)
    IN  /\ Directly(path, "admin") => tier = TierMFA
        /\ Directly(path, "ci") => tier # TierAuto
        /\ tier = TierAuto => IsRead(scope) \/ scope = Micropayment

TiersAreStrict(rules) ==
    \A path \in Paths, scope \in Scopes : TierIsStrict(rules, path, scope)
=============================================================================
