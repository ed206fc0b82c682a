------------------------------- MODULE Gateway -------------------------------
(***************************************************************************)
(* The Agent Gateway (internal/gateway/server.go) with everything a        *)
(* request meets on its way upstream: the identity token validators and    *)
(* the federation fallback, the revoked set that the SSF receiver          *)
(* (pkg/ssfreceiver) fills from pushed Security Event Tokens, the mTLS     *)
(* binding, the delegation chain, the single-use proof store and the       *)
(* authorizer (internal/authz).  A resource may instead stand behind the    *)
(* middleware of internal/authz/middleware.go, AgentAuth, which has the    *)
(* same gates but federation, revocation and mTLS, and one leaf validator. *)
(*                                                                         *)
(* Every request and every SET push is a goroutine.  A step of the         *)
(* middleware is an action wherever it reads the clock or shared state.    *)
(* The proof store is the atomic register ReplayWindow, which ProofReplay  *)
(* is proved to implement.                                                 *)
(***************************************************************************)
EXTENDS Integers, Sequences, FiniteSets

CONSTANTS
    Requests,   \* goroutines serving /tools/...
    Pushes,     \* goroutines serving POST /ssf/events
    Traffic,    \* the requests agents may send (records, see below)
    SETs,       \* the Security Event Tokens transmitters may push
    Static,     \* issuers in Config.Validators
    Federated,  \* issuers Config.FederationResolver can resolve
    MTLS,       \* Config.MTLSClientCA # nil
    Direct,     \* the resources that stand behind AgentAuth
    DirectIssuer, \* the issuer of AgentAuth's leaf validator
    DirectAction, \* the action AgentAuth requires
    External,   \* the authorizer is a service: any decision, or an error
    Grants,     \* the rules an operator may Allow
    AnySubject, \* the rule subject "*"
    NoSubject,  \* the empty sub, or a missing field of a SET payload
    NoJti,      \* the missing jti of a SET or a proof
    Missing,    \* an absent header, or no value
    Objects,    \* the bodies that parse to a JSON object
    MaxTime     \* bound: the clock stops here

(***************************************************************************)
(* A token is [iss, sub, key, exp, depth]; a proof is [jti, exp, key,      *)
(* chain, tool], chain being what it is hashed over and tool standing for  *)
(* the request URI; a request is [leaf, chain, proof, sans, tool, data,    *)
(* declared], sans being the URI SANs of the client certificate in order,  *)
(* data the body in pieces of a megabyte and declared telling whether its  *)
(* length is announced (not chunked); a SET is [jti, type, sub, uri]; a    *)
(* rule is [subject, object, action].                                      *)
(***************************************************************************)
ASSUME GatewayAssumption ==
    /\ MaxTime \in Nat
    /\ MTLS \in BOOLEAN /\ External \in BOOLEAN
    /\ Missing \notin Objects /\ <<>> \notin Objects
    /\ \A q \in Traffic :
          /\ q.leaf # Missing => q.leaf.exp \in Nat
          /\ q.chain # Missing => \A i \in DOMAIN q.chain : q.chain[i].exp \in Nat
          /\ q.proof # Missing => q.proof.exp \in Nat
    /\ \A s, t \in SETs : s.jti = t.jti /\ s.jti # NoJti => s = t
    /\ \A q, u \in Traffic :
          q.proof # Missing /\ u.proof # Missing /\ q.proof.jti = u.proof.jti
          => q.proof = u.proof

VARIABLES
    clock,      \* time.Now()
    rules,      \* InMemoryAuthorizer.rules
    seen,       \* the proof store: jti -> expiry
    setSeen,    \* Receiver.jtiSeen
    revoked,    \* RevokedSet.subjects
    pc,         \* where each request stands, or its answer
    req,        \* the request each goroutine serves
    toolParams, \* authz.Request.ToolParams of each request
    body,       \* what c.Request.Body holds for the next reader
    push,       \* where each push stands, or its answer
    set,        \* the SET each push carries
    arrival,    \* history: the time and the acknowledged revocations on arrival
    storedAt    \* history: when the proof's jti was recorded

requestVars == <<pc, req, toolParams, body, arrival, storedAt>>
pushVars == <<push, set>>
vars == <<clock, rules, seen, setSeen, revoked, requestVars, pushVars>>

Answers == {"401 token", "401 revoked", "401 mtls", "401 chain", "401 proof",
            "401 replay", "403", "500", "502", "forwarded"}
Stages == {"leaf", "resolve", "revocation", "binding", "chain", "proof",
           "record", "inspect", "authorize", "proxy"}
PushStages == {"idle", "jti", "dispatch", "respond", "400", "409", "202"}

\* What the first megabyte of a body is, and what a body may become.
FirstOf(data) == IF data = <<>> THEN <<>> ELSE <<Head(data)>>
Bodies == {q.data : q \in Traffic} \cup {FirstOf(q.data) : q \in Traffic}

TypeOK ==
    /\ clock \in 0..MaxTime
    /\ rules \subseteq Grants
    /\ DOMAIN seen \subseteq {q.proof.jti : q \in {t \in Traffic : t.proof # Missing}}
    /\ setSeen \subseteq {s.jti : s \in SETs} \ {NoJti}
    /\ revoked \subseteq ({s.sub : s \in SETs} \cup {s.uri : s \in SETs}) \ {NoSubject}
    /\ pc \in [Requests -> {"idle"} \cup Stages \cup Answers]
    /\ req \in [Requests -> Traffic \cup {Missing}]
    /\ toolParams \in [Requests -> Objects \cup {Missing}]
    /\ body \in [Requests -> Bodies \cup {Missing}]
    /\ push \in [Pushes -> PushStages]
    /\ set \in [Pushes -> SETs \cup {Missing}]
    /\ storedAt \in [Requests -> 0..MaxTime]

Init ==
    /\ clock = 0
    /\ rules = {}
    /\ seen = [j \in {} |-> 0]
    /\ setSeen = {}
    /\ revoked = {}
    /\ pc = [r \in Requests |-> "idle"]
    /\ req = [r \in Requests |-> Missing]
    /\ toolParams = [r \in Requests |-> Missing]
    /\ body = [r \in Requests |-> Missing]
    /\ push = [p \in Pushes |-> "idle"]
    /\ set = [p \in Pushes |-> Missing]
    /\ arrival = [r \in Requests |-> [at |-> 0, acked |-> {}]]
    /\ storedAt = [r \in Requests |-> 0]

-----------------------------------------------------------------------------
(* Helpers *)

\* The parser's expiry check on a token or a proof.
Live(t) == clock < t.exp

Goto(r, from, to) == pc[r] = from /\ pc' = [pc EXCEPT ![r] = to]

\* A gate that changes nothing but where the request stands.
Gate(r, from, to) ==
    /\ Goto(r, from, to)
    /\ UNCHANGED <<clock, rules, seen, setSeen, revoked, req, toolParams, body,
                   arrival, storedAt, pushVars>>

PushGoto(p, from, to) == push[p] = from /\ push' = [push EXCEPT ![p] = to]

\* The subject a session-revoked payload names: sub, else uri.
Named(s) == IF s.sub # NoSubject THEN s.sub ELSE s.uri

Revokes(s) == s.type = "session-revoked" /\ Named(s) # NoSubject

\* Subjects whose session-revoked event was acknowledged with 202.
Acked == {Named(set[p]) : p \in {q \in Pushes : push[q] = "202" /\ Revokes(set[q])}}

-----------------------------------------------------------------------------
(* Time, the operator, and the arrival of requests *)

Tick ==
    /\ clock < MaxTime
    /\ clock' = clock + 1
    /\ UNCHANGED <<rules, seen, setSeen, revoked, requestVars, pushVars>>

\* InMemoryAuthorizer.Allow appends a rule under the lock; order and
\* repetition of rules do not matter to Authorize.
Allow(g) ==
    /\ rules' = rules \cup {g}
    /\ UNCHANGED <<clock, seen, setSeen, revoked, requestVars, pushVars>>

\* Gin routes a request for a resource into the middleware in front of it.
Arrive(r, q) ==
    /\ Goto(r, "idle", "leaf")
    /\ req' = [req EXCEPT ![r] = q]
    /\ body' = [body EXCEPT ![r] = q.data]
    /\ arrival' = [arrival EXCEPT ![r] = [at |-> clock, acked |-> Acked]]
    /\ UNCHANGED <<clock, rules, seen, setSeen, revoked, toolParams, storedAt,
                   pushVars>>

-----------------------------------------------------------------------------
(* The middleware *)

\* AgentValidator.Validate by one of a set of trusted issuers.
ValidUnder(t, issuers) == t.iss \in issuers /\ Live(t)

\* validateWithAny, then the federation fallback for whatever failed.
ValidateLeaf(r) ==
    LET leaf == req[r].leaf IN
    /\ pc[r] = "leaf" /\ req[r].tool \notin Direct
    /\ \/ /\ leaf = Missing
          /\ Gate(r, "leaf", "401 token")
       \/ /\ leaf # Missing
          /\ Gate(r, "leaf", IF ValidUnder(leaf, Static) THEN "revocation"
                                                         ELSE "resolve")

\* AgentAuth's leaf check: one validator, and straight on to the chain.
AgentAuthLeaf(r) ==
    /\ pc[r] = "leaf" /\ req[r].tool \in Direct
    /\ Gate(r, "leaf", IF /\ req[r].leaf # Missing
                          /\ ValidUnder(req[r].leaf, {DirectIssuer})
                       THEN "chain" ELSE "401 token")

\* Mutant of ResolveLeaf: the validator built on the fly leaves the times to the
\* static ones, which have seen the token already.
ResolveLeafStale(r) ==
    /\ pc[r] = "resolve"
    /\ Gate(r, "resolve", IF req[r].leaf.iss \in Federated THEN "revocation"
                                                           ELSE "401 token")

\* The resolver returns the issuer's key; the validator built on the fly then
\* checks the token at a later time than the static ones did.
ResolveLeaf(r) ==
    /\ pc[r] = "resolve"
    /\ Gate(r, "resolve", IF ValidUnder(req[r].leaf, Federated) THEN "revocation"
                                                                ELSE "401 token")

\* No resolver is configured, or it fails: fetch, signature or trust anchor.
ResolveFails(r) == Gate(r, "resolve", "401 token")

\* Remediation.IsRevoked: the only time the revoked set is consulted.
CheckRevoked(r) ==
    /\ pc[r] = "revocation"
    /\ Gate(r, "revocation",
            IF req[r].leaf.sub \in revoked THEN "401 revoked" ELSE "binding")

\* verifyMTLSBinding: some URI SAN of the client certificate is the subject.
CheckBinding(r) ==
    LET bound == \E i \in DOMAIN req[r].sans : req[r].sans[i] = req[r].leaf.sub
    IN  /\ pc[r] = "binding"
        /\ Gate(r, "binding", IF MTLS => bound THEN "chain" ELSE "401 mtls")

\* AgentChain.Validate over a map of issuers: every token is valid under its
\* issuer's validator and has its position as chain_depth.
ChainValid(chain, issuers) ==
    /\ Len(chain) > 0
    /\ \A i \in DOMAIN chain :
          ValidUnder(chain[i], issuers) /\ chain[i].depth = i - 1

\* The chain is checked against the static validators only.
CheckChain(r) ==
    /\ pc[r] = "chain"
    /\ Gate(r, "chain", IF /\ req[r].chain # Missing
                           /\ ChainValid(req[r].chain, Static)
                        THEN "proof" ELSE "401 chain")

\* Mutant of CheckProof: the proof may be signed by any workload's key.
CheckProofAnyKey(r) ==
    LET proof == req[r].proof
        bound == /\ proof # Missing
                 /\ Live(proof)
                 /\ proof.tool = req[r].tool
                 /\ proof.chain = req[r].chain
                 /\ proof.jti # NoJti
    IN  /\ pc[r] = "proof"
        /\ Gate(r, "proof", IF bound THEN "record" ELSE "401 proof")

\* ProofValidator.Validate up to the store: times, workload key of the leaf,
\* aud and chain_hash, and then that there is a jti to record.
CheckProof(r) ==
    LET proof == req[r].proof
        bound == /\ proof # Missing
                 /\ Live(proof)
                 /\ proof.key = req[r].leaf.key
                 /\ proof.tool = req[r].tool
                 /\ proof.chain = req[r].chain
                 /\ proof.jti # NoJti
    IN  /\ pc[r] = "proof"
        /\ Gate(r, "proof", IF bound THEN "record" ELSE "401 proof")

\* Mutant of Closed: an entry is evicted at its expiry already.
ClosedAtExpiry == {j \in DOMAIN seen : seen[j] <= clock}

\* Entries that a sweep may have evicted by now: past their expiry.
Closed == {j \in DOMAIN seen : seen[j] < clock}

\* The store admits the proof (ReplayWindow!Admit).
RecordProof(r, lapsed) ==
    LET proof == req[r].proof
        kept == DOMAIN seen \ lapsed
    IN  /\ pc[r] = "record"
        /\ Goto(r, "record", IF req[r].tool \in Direct THEN "authorize" ELSE "inspect")
        /\ proof.jti \notin kept
        /\ seen' = [j \in kept \cup {proof.jti} |->
                      IF j = proof.jti THEN proof.exp ELSE seen[j]]
        /\ storedAt' = [storedAt EXCEPT ![r] = clock]
        /\ UNCHANGED <<clock, rules, setSeen, revoked, req, toolParams, body,
                       arrival, pushVars>>

\* The store refuses the proof (ReplayWindow!Replayed).
RefuseReplay(r, lapsed) ==
    LET kept == DOMAIN seen \ lapsed
    IN  /\ Goto(r, "record", "401 replay")
        /\ req[r].proof.jti \in kept
        /\ seen' = [j \in kept |-> seen[j]]
        /\ UNCHANGED <<clock, rules, setSeen, revoked, req, toolParams, body,
                       arrival, storedAt, pushVars>>

\* json.Unmarshal into a map: what is not a JSON object gives no parameters.
Params(data) == IF data \in Objects THEN data ELSE Missing

\* Mutant of InspectBody: the rest of the body is appended to what is restored.
InspectBodyJoins(r) ==
    LET data == req[r].data
    IN  /\ Goto(r, "inspect", "authorize")
        /\ toolParams' = [toolParams EXCEPT ![r] = Params(FirstOf(data))]
        /\ UNCHANGED <<clock, rules, seen, setSeen, revoked, req, body, arrival,
                       storedAt, pushVars>>

\* extractToolParams reads up to a megabyte and puts back what it has read; when
\* the read fails nothing is put back.  An empty body stays empty.
InspectBody(r) ==
    LET data == req[r].data
    IN  /\ Goto(r, "inspect", "authorize")
        /\ \/ /\ toolParams' = [toolParams EXCEPT ![r] = Params(FirstOf(data))]
              /\ body' = [body EXCEPT ![r] = FirstOf(data)]
           \/ /\ data # <<>>
              /\ toolParams' = [toolParams EXCEPT ![r] = Missing]
              /\ body' = [body EXCEPT ![r] = Missing]
        /\ UNCHANGED <<clock, rules, seen, setSeen, revoked, req, arrival,
                       storedAt, pushVars>>

\* Mutant of ActionSatisfies: writing is taken for the strongest action.
ActionSatisfiesWrite(granted, requested) ==
    granted = requested \/ granted = "can_write"

\* Granted actions that imply the requested one.
ActionSatisfies(granted, requested) ==
    \/ granted = requested
    \/ requested = "can_read" /\ granted \in {"can_call", "can_write"}

\* InMemoryAuthorizer.Authorize.
Permitted(subject, object, action) ==
    \E g \in rules :
        /\ g.subject \in {AnySubject, subject}
        /\ g.object = object
        /\ ActionSatisfies(g.action, action)

\* The gateway asks for ActionCall, AgentAuth for what its caller configured.
Required(object) == IF object \in Direct THEN DirectAction ELSE "can_call"

\* What the authorizer may answer.  A service (OpenFGA, AuthZEN) may also leave
\* the decision pending or fail.
Decisions(r) ==
    IF req[r].leaf.sub = NoSubject THEN {"error"}
    ELSE IF External THEN {"allowed", "denied", "pending", "error"}
    ELSE {IF Permitted(req[r].leaf.sub, req[r].tool, Required(req[r].tool))
          THEN "allowed" ELSE "denied"}

\* Mutant of Authorize: an authorizer error gives the proof back for a retry.
AuthorizeReleases(r) ==
    /\ pc[r] = "authorize"
    /\ \/ \E d \in Decisions(r) \ {"error"} :
             Gate(r, "authorize", IF d = "allowed" THEN "proxy" ELSE "403")
       \/ /\ "error" \in Decisions(r)
          /\ Goto(r, "authorize", "500")
          /\ seen' = [j \in DOMAIN seen \ {req[r].proof.jti} |-> seen[j]]
          /\ UNCHANGED <<clock, rules, setSeen, revoked, req, toolParams, body,
                         arrival, storedAt, pushVars>>

\* The proof is spent by now, whatever the answer.
Authorize(r) ==
    /\ pc[r] = "authorize"
    /\ \/ "error" \in Decisions(r) /\ Gate(r, "authorize", "500")
       \/ Decisions(r) \cap {"pending", "denied"} # {} /\ Gate(r, "authorize", "403")
       \/ "allowed" \in Decisions(r) /\ Gate(r, "authorize", "proxy")

\* c.Next(): the reverse proxy forwards the request upstream, or AgentAuth's
\* handler runs.  The proxy answers 502 when the upstream fails, as it must when
\* the body cannot be read or is shorter than announced.
Forward(r) ==
    \/ /\ pc[r] = "proxy"
       /\ body[r] # Missing /\ (req[r].declared => body[r] = req[r].data)
       /\ Gate(r, "proxy", "forwarded")
    \/ /\ pc[r] = "proxy" /\ req[r].tool \notin Direct
       /\ Gate(r, "proxy", "502")

-----------------------------------------------------------------------------
(* The SSF receiver *)

\* Mutant of ReceiveSET: a SET without a jti is let through.
ReceiveSETNoJti(p, s) ==
    /\ PushGoto(p, "idle", "jti")
    /\ set' = [set EXCEPT ![p] = s]
    /\ UNCHANGED <<clock, rules, seen, setSeen, revoked, requestVars>>

\* Method, content type and body are checked and the SET parsed; one without a
\* jti is a 400.
ReceiveSET(p, s) ==
    /\ PushGoto(p, "idle", IF s.jti = NoJti THEN "400" ELSE "jti")
    /\ set' = [set EXCEPT ![p] = s]
    /\ UNCHANGED <<clock, rules, seen, setSeen, revoked, requestVars>>

\* Under the receiver's lock: a known jti is a duplicate, a new one is marked.
MarkSeen(p) ==
    /\ push[p] = "jti"
    /\ IF set[p].jti \in setSeen
       THEN PushGoto(p, "jti", "409") /\ UNCHANGED setSeen
       ELSE PushGoto(p, "jti", "dispatch") /\ setSeen' = setSeen \cup {set[p].jti}
    /\ UNCHANGED <<clock, rules, seen, revoked, set, requestVars>>

\* Mutant of Dispatch: the alternative uri field of the payload is not read.
DispatchSubOnly(p) ==
    /\ PushGoto(p, "dispatch", "respond")
    /\ revoked' = IF Revokes(set[p]) /\ set[p].sub # NoSubject
                  THEN revoked \cup {set[p].sub} ELSE revoked
    /\ UNCHANGED <<clock, rules, seen, setSeen, set, requestVars>>

\* dispatch runs handleSessionRevoked for a session-revoked event and nothing
\* for any other type.
Dispatch(p) ==
    /\ PushGoto(p, "dispatch", "respond")
    /\ revoked' = IF Revokes(set[p]) THEN revoked \cup {Named(set[p])} ELSE revoked
    /\ UNCHANGED <<clock, rules, seen, setSeen, set, requestVars>>

Respond(p) ==
    /\ PushGoto(p, "respond", "202")
    /\ UNCHANGED <<clock, rules, seen, setSeen, revoked, set, requestVars>>

-----------------------------------------------------------------------------

Serve(r) ==
    \/ \E q \in Traffic : Arrive(r, q)
    \/ ValidateLeaf(r)
    \/ AgentAuthLeaf(r)
    \/ ResolveLeaf(r)
    \/ ResolveFails(r)
    \/ CheckRevoked(r)
    \/ CheckBinding(r)
    \/ CheckChain(r)
    \/ CheckProof(r)
    \/ \E lapsed \in SUBSET Closed : RecordProof(r, lapsed) \/ RefuseReplay(r, lapsed)
    \/ InspectBody(r)
    \/ Authorize(r)
    \/ Forward(r)

Receive(p) ==
    \/ \E s \in SETs : ReceiveSET(p, s)
    \/ MarkSeen(p)
    \/ Dispatch(p)
    \/ Respond(p)

Next ==
    \/ Tick
    \/ \E g \in Grants : Allow(g)
    \/ \E r \in Requests : Serve(r)
    \/ \E p \in Pushes : Receive(p)

Spec == Init /\ [][Next]_vars

\* A goroutine that serves a push is scheduled until it has answered.
FairSpec == Spec /\ \A p \in Pushes :
                      WF_vars(MarkSeen(p)) /\ WF_vars(Dispatch(p)) /\ WF_vars(Respond(p))

-----------------------------------------------------------------------------
(* Properties *)

\* A request that arrives after the receiver acknowledged its subject's
\* session-revoked event is never forwarded: the 202 is written only after the
\* handlers have run, so it promises that the revocation is in force.  AgentAuth
\* does not consult the revoked set.
AckedRevocationHolds ==
    \A r \in Requests :
        pc[r] = "forwarded" /\ req[r].tool \notin Direct
        => req[r].leaf.sub \notin arrival[r].acked

\* A push refused with 409 (a retry racing the first delivery) may be answered
\* before the revocation is in force, but it always comes into force.
DuplicateEventuallyApplied ==
    \A s \in {t \in SETs : Revokes(t)} :
        (\E p \in Pushes : push[p] = "409" /\ set[p] = s) ~> (Named(s) \in revoked)

\* A request got past the proof gate.
Decided(r) ==
    pc[r] \in {"inspect", "authorize", "proxy", "403", "500", "502", "forwarded"}

\* While it lives a proof buys one decision: a request denied, left pending or
\* failed by the authorizer has spent it, and its retry needs a fresh proof.
ProofBuysOneDecision ==
    \A r, q \in Requests :
        /\ Decided(r) /\ Decided(q) /\ req[r].proof.jti = req[q].proof.jti
        /\ storedAt[r] <= req[r].proof.exp /\ storedAt[q] <= req[q].proof.exp
        => r = q

\* What has become of a request, for the proof store: open until it is decided.
verdictOf ==
    [r \in Requests |->
        CASE pc[r] \in {"idle"} \cup Stages /\ ~Decided(r) -> "open"
          [] Decided(r) -> "admitted"
          [] pc[r] = "401 replay" -> "replayed"
          [] OTHER -> "refused"]

\* The proofs that agents may send, and when the windows of those that have been
\* shown close.
Proofs == {q.proof : q \in Traffic} \ {Missing}
Jtis == {p.jti : p \in Proofs}
Expiry == [j \in Jtis |-> (CHOOSE p \in Proofs : p.jti = j).exp]
Shown == {r \in Requests : pc[r] # "idle" /\ req[r].proof # Missing}
windowOf == [j \in {req[r].proof.jti : r \in Shown} |-> Expiry[j]]

Store == INSTANCE ReplayWindow WITH Calls <- Requests, time <- clock,
            window <- windowOf, spent <- DOMAIN seen, verdict <- verdictOf

\* Whatever gates stand before and after it, the middleware keeps the promise of
\* the proof store (JTIStore, identity/store.go:20) to those who send requests: one gets
\* past the proof gate only with a proof that is not spent, and spends it; one is
\* refused as a replay only if its proof was spent; and no gate before spends it.
ImplementsReplayWindow == Store!Spec

\* What is forwarded was vouched for by every gate, and by none with a token
\* that was past its time already when the request came in, however many clock
\* readings and network calls lie between the gates.  An issuer trusted at this
\* entrance speaks for the leaf and for each hop; the client certificate and
\* the rule are about the leaf's subject.  Leaf and chain are tied together by
\* the proof alone: the leaf's key signed it over this very chain and tool.
\* That the leaf is the last token of the chain (docs/gateway.md:42) nothing
\* requires.  A rule must grant the action itself, or a stronger one when the
\* action is reading.
ForwardedIsVouched ==
    \A r \in Requests : pc[r] = "forwarded" =>
        LET q == req[r]
            direct == q.tool \in Direct
            strong == IF direct /\ DirectAction = "can_read"
                      THEN {"can_read", "can_call", "can_write"} ELSE {Required(q.tool)}
        IN
        /\ q.leaf.iss \in IF direct THEN {DirectIssuer} ELSE Static \cup Federated
        /\ arrival[r].at < q.leaf.exp /\ arrival[r].at < q.proof.exp
        /\ q.proof.key = q.leaf.key
        /\ q.proof.chain = q.chain /\ q.proof.tool = q.tool
        /\ \A i \in DOMAIN q.chain : /\ q.chain[i].iss \in Static
                                     /\ q.chain[i].depth = i - 1
                                     /\ arrival[r].at < q.chain[i].exp
        /\ MTLS /\ ~direct => \E i \in DOMAIN q.sans : q.sans[i] = q.leaf.sub
        /\ ~External => \E g \in rules : /\ g.subject \in {AnySubject, q.leaf.sub}
                                        /\ g.object = q.tool
                                        /\ g.action \in strong

\* The parameters a request was authorized with are those of the body that the
\* upstream gets: a body cut at the megabyte is not authorized as something
\* that cannot be inspected and then forwarded as the object it was.
ParamsAreWhatIsSent ==
    \A r \in Requests :
        pc[r] = "forwarded" /\ req[r].tool \notin Direct
        => toolParams[r] = Params(body[r])

\* README.md:515 and server.go:29: with a resolver configured the gateway
\* validates the tokens of agents of external organisations.  So a chain whose
\* every token is valid under a configured or a resolvable issuer is not what
\* a request is refused for.
ResolvableChainsPass ==
    \A r \in Requests : pc[r] = "401 chain" =>
        ~(req[r].chain # Missing /\ ChainValid(req[r].chain, Static \cup Federated))
=============================================================================
