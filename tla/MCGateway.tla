------------------------------ MODULE MCGateway ------------------------------
(***************************************************************************)
(* Instances of Gateway for TLC: one configured and one federated issuer,  *)
(* an orchestrator and a weather agent of the first, an agent of the       *)
(* second, and requests that are right or wrong at one gate.               *)
(***************************************************************************)
EXTENDS Gateway, TLC

CONSTANTS IdP, OrgB, orch, weather, orgbAgent, k1, k2, kb, tool, files,
          j1, j2, j3, j4, j5, s1, s2, s3, call, half, rest

Token(i, s, k, e, d) == [iss |-> i, sub |-> s, key |-> k, exp |-> e, depth |-> d]
Root == Token(IdP, orch, k1, 2, 0)
Hop  == Token(IdP, weather, k2, 2, 1)
OrgHop == Token(OrgB, orgbAgent, kb, 1, 1)

Proof(j, e, k, c, o) == [tool |-> o, key |-> k, exp |-> e, jti |-> j, chain |-> c]
Request(l, c, p, s, o, d, known) ==
    [tool |-> o, chain |-> c, leaf |-> l, proof |-> p, sans |-> s, data |-> d,
     declared |-> known]

\* The bodies that parse: a small call, and one of two megabytes.
Small == <<call>>
Large == <<half, rest>>
MCObjects == {Small, Large}

Path == <<Root, Hop>>
Ticket == Proof(j1, 1, k2, Path, tool)
WrongKey == Proof(j2, 2, k1, Path, tool)
Calls(l, c, p, s) == Request(l, c, p, s, tool, Small, TRUE)
Good == Calls(Hop, Path, Ticket, <<weather>>)
Forged == Calls(Hop, Path, WrongKey, <<weather>>)

Anonymous == LET t == Token(IdP, NoSubject, k2, 2, 0)
             IN  Calls(t, <<t>>, Proof(j5, 2, k2, <<t>>, tool), <<NoSubject>>)

\* A request; a proof by the wrong key, the certificate of another workload, a
\* proof made for the tool and shown to AgentAuth; and the agent of the federated
\* issuer, whose own token expires before the chain it was given by weather and
\* before its proof, with a large body in chunks.
MCTraffic == {
    Good, Forged,
    Calls(Hop, Path, Ticket, <<orch>>),
    Request(Hop, Path, Ticket, <<weather>>, files, Small, TRUE),
    Request(OrgHop, Path, Proof(j3, 2, kb, Path, tool), <<orgbAgent>>, tool, Large, FALSE) }

\* A request; a proof by the wrong key or without a jti, a missing leaf, an empty
\* subject, a gap in the chain; a request of the orchestrator without a body, one
\* with a large body of declared length, and two to AgentAuth.
ForFiles(l) == Request(l, Path, Proof(j4, 1, k2, Path, files), <<weather>>, files, Small, TRUE)
OperatorTraffic == {
    Good, Forged, Anonymous, ForFiles(Hop), ForFiles(OrgHop),
    Calls(Missing, Path, Ticket, <<weather>>),
    Calls(Hop, <<Hop>>, Ticket, <<weather>>),
    Calls(Hop, Path, Proof(NoJti, 1, k2, Path, tool), <<weather>>),
    Request(Root, <<Root>>, Proof(j3, 1, k1, <<Root>>, tool), <<orch>>, tool, <<>>, TRUE),
    Request(Hop, Path, Ticket, <<weather>>, tool, Large, TRUE) }

\* A chain that ends with the agent of the federated issuer.
OrgTraffic == {Calls(OrgHop, <<Root, OrgHop>>,
                     Proof(j1, 2, kb, <<Root, OrgHop>>, tool), <<orgbAgent>>)}

SET(j, t, s, u) == [sub |-> s, jti |-> j, type |-> t, uri |-> u]
MCSETs == { SET(s1, "session-revoked", weather, NoSubject),
            SET(s2, "session-revoked", NoSubject, weather),
            SET(s3, "credential-change", weather, NoSubject),
            SET(NoJti, "session-revoked", weather, NoSubject) }
RevokingSETs == {s \in MCSETs : Revokes(s)}
NoSETs == {}

Rule(s, o, a) == [subject |-> s, object |-> o, action |-> a]
MCGrants == {Rule(AnySubject, tool, "can_write"), Rule(weather, tool, "can_call"),
             Rule(AnySubject, files, "can_write")}
NoGrants == {}
OneGrant == {Rule(AnySubject, tool, "can_call")}

Symm == Permutations(Requests) \cup Permutations(Pushes)
=============================================================================
