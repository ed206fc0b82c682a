---------------------------- MODULE GatewayProofs ----------------------------
(***************************************************************************)
(* Proofs about Gateway, for any number of requests and pushes and         *)
(* whatever agents and transmitters may send.  The inductive invariant has *)
(* four layers: types, what each gate has established, what an             *)
(* acknowledgement promises, and what the proof store remembers.           *)
(***************************************************************************)
EXTENDS Gateway, TLAPS

-----------------------------------------------------------------------------
(* The inductive invariant *)

AfterProof == {"record", "inspect", "authorize", "proxy", "403", "500", "502", "forwarded"}
AfterChain == AfterProof \cup {"proof"}
AfterBinding == AfterChain \cup {"chain"}
AfterRevocation == AfterBinding \cup {"binding"}
AfterLeaf == AfterRevocation \cup {"revocation"}

\* What goroutines hold: a request or a SET they were given.
HeldOK ==
    /\ arrival \in [Requests -> [at : Nat, acked : SUBSET {Named(s) : s \in SETs}]]
    /\ \A r \in Requests : arrival[r].at <= clock
    /\ \A r \in Requests : pc[r] # "idle" => req[r] \in Traffic
    /\ \A p \in Pushes : push[p] # "idle" => set[p] \in SETs
    /\ \A p \in Pushes : push[p] \notin {"idle", "400"} => set[p].jti # NoJti

\* The token was not past its time when the request came in.
LiveOnArrival(r, t) == arrival[r].at < t.exp

\* Some URI SAN of the client certificate is the subject.
Bound(q) == \E i \in DOMAIN q.sans : q.sans[i] = q.leaf.sub

\* Every hop has a configured issuer and its position as depth.
Hops(chain) == \A i \in DOMAIN chain : chain[i].iss \in Static /\ chain[i].depth = i - 1

\* The proof was signed by the leaf's key over this chain and tool.
Proven(q) ==
    /\ q.proof # Missing
    /\ q.proof.key = q.leaf.key /\ q.proof.chain = q.chain /\ q.proof.tool = q.tool

\* The actions that satisfy what is required of a request for this object.
Strong(object) ==
    IF object \in Direct /\ DirectAction = "can_read"
    THEN {"can_read", "can_call", "can_write"} ELSE {Required(object)}

\* A rule of the subject grants the request.
CanCall(q) ==
    \E g \in rules : /\ g.subject \in {AnySubject, q.leaf.sub}
                     /\ g.object = q.tool
                     /\ g.action \in Strong(q.tool)

\* The issuers whose tokens may be a request's leaf.
Admitted(q) == IF q.tool \in Direct THEN {DirectIssuer} ELSE Static \cup Federated

\* The stages that AgentAuth does not have.
GatewayOnly == {"resolve", "revocation", "binding", "inspect"}

\* A request that stands behind a gate has passed it.
GatesPassed ==
    \A r \in Requests :
        /\ pc[r] \in GatewayOnly => req[r].tool \notin Direct
        /\ pc[r] \in AfterLeaf \cup {"resolve"} => req[r].leaf # Missing
        /\ pc[r] \in AfterLeaf => /\ req[r].leaf.iss \in Admitted(req[r])
                                 /\ LiveOnArrival(r, req[r].leaf)
        /\ pc[r] \in AfterBinding => (MTLS /\ req[r].tool \notin Direct => Bound(req[r]))
        /\ pc[r] \in AfterChain => /\ Hops(req[r].chain)
                                  /\ \A i \in DOMAIN req[r].chain :
                                        LiveOnArrival(r, req[r].chain[i])
        /\ pc[r] \in AfterProof => Proven(req[r]) /\ LiveOnArrival(r, req[r].proof)
        /\ pc[r] \in {"proxy", "forwarded"} => (~External => CanCall(req[r]))

\* What a dispatched SET revokes is in the revoked set, so what was
\* acknowledged is, and a request past the remediation check was not
\* acknowledged when it arrived.
RevocationInv ==
    /\ \A p \in Pushes : push[p] \in {"respond", "202"} /\ Revokes(set[p])
          => Named(set[p]) \in revoked
    /\ \A r \in Requests : arrival[r].acked \subseteq revoked
    /\ \A r \in Requests : pc[r] \in AfterRevocation /\ req[r].tool \notin Direct
          => req[r].leaf.sub \notin arrival[r].acked

\* The proof of a decided request is in the store with its expiry, or that
\* has passed; and it was recorded in the past.
Remembered ==
    \A r \in Requests : Decided(r) =>
        /\ storedAt[r] <= clock
        /\ \/ /\ req[r].proof.jti \in DOMAIN seen
              /\ seen[req[r].proof.jti] = req[r].proof.exp
           \/ req[r].proof.exp < clock

\* The gateway inspects the body before it authorizes.
BodiesInv ==
    \A r \in Requests : pc[r] \in {"authorize", "proxy", "forwarded"}
                       /\ req[r].tool \notin Direct
                     => toolParams[r] = Params(body[r])

IInv ==
    /\ TypeOK
    /\ HeldOK
    /\ GatesPassed
    /\ RevocationInv
    /\ BodiesInv
    /\ Remembered
    /\ ProofBuysOneDecision

-----------------------------------------------------------------------------
(* Which steps touch what *)

\* Time and pushes leave requests, rules and the proof store alone.
LEMMA QuietSteps ==
    ASSUME Tick \/ (\E p \in Pushes : Receive(p)) \/ UNCHANGED vars
    PROVE  UNCHANGED <<requestVars, rules, seen>>
BY DEF Tick, Receive, ReceiveSET, MarkSeen, Dispatch, Respond, vars, requestVars

\* A request changes neither the push side nor the rules nor the clock.
LEMMA ServingSteps ==
    ASSUME NEW r \in Requests, Serve(r)
    PROVE  UNCHANGED <<clock, rules, setSeen, revoked, pushVars>>
BY DEF Serve, Arrive, ValidateLeaf, AgentAuthLeaf, ResolveLeaf, ResolveFails, CheckRevoked,
   CheckBinding, CheckChain, CheckProof, RecordProof, RefuseReplay, InspectBody, Authorize,
   Forward, Gate, pushVars

\* Next, split by who moves.
LEMMA Movers ==
    ASSUME [Next]_vars
    PROVE  \/ Tick \/ (\E p \in Pushes : Receive(p)) \/ UNCHANGED vars
           \/ \E g \in Grants : Allow(g)
           \/ \E r \in Requests : Serve(r)
BY DEF Next

-----------------------------------------------------------------------------
(* Initial states and types *)

LEMMA InitIInv == Init => IInv
<1> SUFFICES ASSUME Init PROVE IInv
  OBVIOUS
<1> USE DEF Init
<1>1. TypeOK
  BY GatewayAssumption DEF TypeOK, PushStages
<1>2. \A r \in Requests : pc[r] = "idle" /\ arrival[r] = [at |-> 0, acked |-> {}]
  OBVIOUS
<1>3. HeldOK
  BY <1>2 DEF HeldOK
<1>4. GatesPassed /\ RevocationInv /\ BodiesInv /\ Remembered /\ ProofBuysOneDecision
  BY <1>2 DEF GatesPassed, RevocationInv, BodiesInv, Remembered, ProofBuysOneDecision,
     Decided, GatewayOnly, AfterLeaf, AfterRevocation, AfterBinding, AfterChain, AfterProof
<1> QED BY <1>1, <1>3, <1>4 DEF IInv

LEMMA StepTypeOK ==
    TypeOK /\ HeldOK /\ GatesPassed /\ [Next]_vars => TypeOK'
<1> SUFFICES ASSUME TypeOK, HeldOK, GatesPassed, [Next]_vars PROVE TypeOK'
  OBVIOUS
<1> USE DEF TypeOK, PushStages
<1>1. CASE Tick
  BY <1>1, GatewayAssumption DEF Tick, requestVars, pushVars
<1>2. ASSUME NEW g \in Grants, Allow(g) PROVE TypeOK'
  BY <1>2 DEF Allow, requestVars, pushVars
<1>3. ASSUME NEW r \in Requests, NEW q \in Traffic, Arrive(r, q) PROVE TypeOK'
  <2>1. body' \in [Requests -> Bodies \cup {Missing}]
    BY <1>3 DEF Arrive, Bodies
  <2> QED BY <1>3, <2>1 DEF Arrive, Goto, pushVars, Stages, Answers
<1>4. ASSUME NEW r \in Requests, NEW from, NEW to \in Stages \cup Answers,
             Gate(r, from, to)
      PROVE  TypeOK'
  BY <1>4 DEF Gate, Goto, pushVars
<1>5. ASSUME NEW r \in Requests,
             ValidateLeaf(r) \/ AgentAuthLeaf(r) \/ ResolveLeaf(r) \/ ResolveFails(r) \/ CheckRevoked(r)
             \/ CheckBinding(r) \/ CheckChain(r) \/ CheckProof(r)
             \/ Authorize(r) \/ Forward(r)
      PROVE  \E from, to : to \in Stages \cup Answers /\ Gate(r, from, to)
  BY <1>5 DEF ValidateLeaf, AgentAuthLeaf, ResolveLeaf, ResolveFails, CheckRevoked, CheckBinding,
     CheckChain, CheckProof, InspectBody, Authorize, Forward, Stages, Answers
<1>6. ASSUME NEW r \in Requests, NEW lapsed \in SUBSET Closed,
             RecordProof(r, lapsed)
      PROVE  TypeOK'
  <2>1. req[r] \in Traffic /\ req[r].proof # Missing
    BY <1>6 DEF RecordProof, Goto, HeldOK, GatesPassed, Proven, AfterProof
  <2>2. DOMAIN seen' \subseteq DOMAIN seen \cup {req[r].proof.jti}
    BY <1>6 DEF RecordProof
  <2> QED BY <1>6, <2>1, <2>2 DEF RecordProof, Goto, pushVars, Stages, Answers
<1>7. ASSUME NEW r \in Requests, NEW lapsed \in SUBSET Closed,
             RefuseReplay(r, lapsed)
      PROVE  TypeOK'
  BY <1>7 DEF RefuseReplay, Goto, pushVars, Stages, Answers
<1>13. ASSUME NEW r \in Requests, InspectBody(r) PROVE TypeOK'
  <2>1. req[r] \in Traffic
    BY <1>13 DEF InspectBody, Goto, HeldOK
  <2>2. /\ FirstOf(req[r].data) \in Bodies
        /\ Params(FirstOf(req[r].data)) \in Objects \cup {Missing}
    BY <2>1 DEF Bodies, Params
  <2>3. toolParams' \in [Requests -> Objects \cup {Missing}]
    BY <1>13, <2>2 DEF InspectBody
  <2>4. body' \in [Requests -> Bodies \cup {Missing}]
    BY <1>13, <2>2 DEF InspectBody
  <2> QED BY <1>13, <2>3, <2>4 DEF InspectBody, Goto, pushVars, Stages, Answers
<1>8. ASSUME NEW p \in Pushes, NEW s \in SETs, ReceiveSET(p, s) PROVE TypeOK'
  BY <1>8 DEF ReceiveSET, PushGoto, requestVars
<1>9. ASSUME NEW p \in Pushes, MarkSeen(p) PROVE TypeOK'
  <2>1. set[p] \in SETs /\ set[p].jti # NoJti
    BY <1>9 DEF MarkSeen, HeldOK
  <2> QED BY <1>9, <2>1 DEF MarkSeen, PushGoto, requestVars
<1>10. ASSUME NEW p \in Pushes, Dispatch(p) PROVE TypeOK'
  <2>1. set[p] \in SETs
    BY <1>10 DEF Dispatch, PushGoto, HeldOK
  <2>2. Revokes(set[p]) => Named(set[p]) \in
           ({s.sub : s \in SETs} \cup {s.uri : s \in SETs}) \ {NoSubject}
    BY <2>1 DEF Revokes, Named
  <2>3. revoked' \subseteq ({s.sub : s \in SETs} \cup {s.uri : s \in SETs}) \ {NoSubject}
    BY <1>10, <2>2 DEF Dispatch
  <2> QED BY <1>10, <2>3 DEF Dispatch, PushGoto, requestVars
<1>11. ASSUME NEW p \in Pushes, Respond(p) PROVE TypeOK'
  BY <1>11 DEF Respond, PushGoto, requestVars
<1>12. CASE UNCHANGED vars
  BY <1>12 DEF vars, requestVars, pushVars
<1> QED
  BY <1>1, <1>2, <1>3, <1>4, <1>5, <1>6, <1>7, <1>8, <1>9, <1>10, <1>11, <1>12, <1>13
  DEF Next, Serve, Receive

LEMMA StepHeldOK ==
    TypeOK /\ HeldOK /\ [Next]_vars => HeldOK'
<1> SUFFICES ASSUME TypeOK, HeldOK, [Next]_vars PROVE HeldOK'
  OBVIOUS
<1> USE DEF HeldOK
<1>t. /\ pc \in [Requests -> {"idle"} \cup Stages \cup Answers]
      /\ req \in [Requests -> Traffic \cup {Missing}]
      /\ push \in [Pushes -> PushStages] /\ set \in [Pushes -> SETs \cup {Missing}]
      /\ clock \in Nat
  BY GatewayAssumption DEF TypeOK
<1>1. CASE Tick \/ (\E g \in Grants : Allow(g)) \/ UNCHANGED vars
  <2>1. UNCHANGED <<requestVars, pushVars>> /\ clock <= clock' /\ clock' \in Nat
    BY <1>1, <1>t DEF Tick, Allow, vars
  <2>2. \A r \in Requests : arrival[r].at <= clock'
    BY <1>t, <2>1
  <2> QED BY <2>1, <2>2 DEF requestVars, pushVars
<1>2. ASSUME NEW r \in Requests, NEW q \in Traffic, Arrive(r, q) PROVE HeldOK'
  <2>1. Acked \subseteq {Named(s) : s \in SETs}
    BY DEF Acked
  <2>2. /\ arrival' = [arrival EXCEPT ![r] = [at |-> clock, acked |-> Acked]]
        /\ UNCHANGED <<clock, push, set>>
    BY <1>2 DEF Arrive, pushVars
  <2>3. arrival' \in [Requests -> [at : Nat, acked : SUBSET {Named(s) : s \in SETs}]]
    BY <1>t, <2>1, <2>2
  <2>4. \A p \in Requests : arrival'[p].at <= clock
    BY <1>t, <2>2
  <2> QED BY <1>2, <1>t, <2>2, <2>3, <2>4 DEF Arrive, Goto
<1>3. ASSUME NEW r \in Requests, Serve(r), ~ \E q \in Traffic : Arrive(r, q)
      PROVE  HeldOK'
  <2>1. pc[r] # "idle" /\ UNCHANGED <<req, arrival>>
        /\ \E to : pc' = [pc EXCEPT ![r] = to]
    BY <1>3 DEF Serve, ValidateLeaf, AgentAuthLeaf, ResolveLeaf, ResolveFails, CheckRevoked,
       CheckBinding, CheckChain, CheckProof, RecordProof, RefuseReplay, InspectBody,
       Authorize, Forward, Gate, Goto
  <2> QED BY <1>3, <1>t, <2>1, ServingSteps DEF pushVars
<1>4. ASSUME NEW p \in Pushes, NEW s \in SETs, ReceiveSET(p, s) PROVE HeldOK'
  BY <1>4, <1>t DEF ReceiveSET, PushGoto, requestVars
<1>5. ASSUME NEW p \in Pushes, MarkSeen(p) \/ Dispatch(p) \/ Respond(p) PROVE HeldOK'
  BY <1>5, <1>t DEF MarkSeen, Dispatch, Respond, PushGoto, requestVars
<1> QED BY <1>1, <1>2, <1>3, <1>4, <1>5 DEF Next, Receive

-----------------------------------------------------------------------------
(* What each gate establishes *)

\* A request only ever moves to one stage, and holds what it arrived with.
LEMMA OthersStay ==
    ASSUME TypeOK, HeldOK, NEW r \in Requests, Serve(r), NEW q \in Requests, q # r
    PROVE  /\ pc'[q] = pc[q] /\ req'[q] = req[q]
           /\ arrival'[q] = arrival[q] /\ storedAt'[q] = storedAt[q]
<1>1. \E to : pc' = [pc EXCEPT ![r] = to]
  BY DEF Serve, Arrive, ValidateLeaf, AgentAuthLeaf, ResolveLeaf, ResolveFails, CheckRevoked,
     CheckBinding, CheckChain, CheckProof, RecordProof, RefuseReplay, InspectBody, Authorize,
     Forward, Gate, Goto
<1>2. \/ \E t \in Traffic : /\ req' = [req EXCEPT ![r] = t]
                            /\ arrival' = [arrival EXCEPT
                                              ![r] = [at |-> clock, acked |-> Acked]]
      \/ UNCHANGED <<req, arrival>>
  BY DEF Serve, Arrive, ValidateLeaf, AgentAuthLeaf, ResolveLeaf, ResolveFails, CheckRevoked,
     CheckBinding, CheckChain, CheckProof, RecordProof, RefuseReplay, InspectBody, Authorize,
     Forward, Gate
<1>3. storedAt' = [storedAt EXCEPT ![r] = clock] \/ UNCHANGED storedAt
  BY DEF Serve, Arrive, ValidateLeaf, AgentAuthLeaf, ResolveLeaf, ResolveFails, CheckRevoked,
     CheckBinding, CheckChain, CheckProof, RecordProof, RefuseReplay, InspectBody, Authorize,
     Forward, Gate
<1>4. /\ Requests = DOMAIN pc /\ Requests = DOMAIN req
      /\ Requests = DOMAIN arrival /\ Requests = DOMAIN storedAt
  BY DEF TypeOK, HeldOK
<1> QED BY <1>1, <1>2, <1>3, <1>4

\* The step of a request, seen from its own program counter.
LEMMA OwnStep ==
    ASSUME TypeOK, NEW r \in Requests, Serve(r), ~ \E q \in Traffic : Arrive(r, q)
    PROVE  /\ pc[r] # "idle" /\ UNCHANGED <<req, arrival>>
           /\ \/ pc'[r] \in Answers \ {"403", "500", "502", "forwarded"}
              \/ /\ pc[r] = "leaf" /\ pc'[r] = "resolve" /\ req[r].tool \notin Direct
                 /\ req[r].leaf # Missing
              \/ /\ pc[r] = "leaf" /\ pc'[r] = "revocation" /\ req[r].tool \notin Direct
                 /\ req[r].leaf.iss \in Static \cup Federated
                 /\ req[r].leaf # Missing /\ Live(req[r].leaf)
              \/ /\ pc[r] = "resolve" /\ pc'[r] = "revocation"
                 /\ req[r].leaf.iss \in Static \cup Federated /\ Live(req[r].leaf)
              \/ /\ pc[r] = "leaf" /\ pc'[r] = "chain" /\ req[r].tool \in Direct
                 /\ req[r].leaf.iss = DirectIssuer
                 /\ req[r].leaf # Missing /\ Live(req[r].leaf)
              \/ /\ pc[r] = "revocation" /\ pc'[r] = "binding"
                 /\ req[r].leaf.sub \notin revoked
              \/ /\ pc[r] = "binding" /\ pc'[r] = "chain"
                 /\ MTLS => Bound(req[r])
              \/ /\ pc[r] = "chain" /\ pc'[r] = "proof" /\ Hops(req[r].chain)
                 /\ req[r].chain # Missing
                 /\ \A i \in DOMAIN req[r].chain : Live(req[r].chain[i])
              \/ /\ pc[r] = "proof" /\ pc'[r] = "record"
                 /\ Proven(req[r]) /\ Live(req[r].proof)
              \/ pc[r] = "record" /\ pc'[r] = "authorize" /\ req[r].tool \in Direct
              \/ pc[r] = "record" /\ pc'[r] = "inspect" /\ req[r].tool \notin Direct
              \/ pc[r] = "inspect" /\ pc'[r] = "authorize"
              \/ pc[r] = "authorize" /\ pc'[r] \in {"403", "500"}
              \/ /\ pc[r] = "authorize" /\ pc'[r] = "proxy"
                 /\ ~External => CanCall(req[r])
              \/ pc[r] = "proxy" /\ pc'[r] \in {"forwarded", "502"}
<1>t. pc \in [Requests -> {"idle"} \cup Stages \cup Answers]
  BY DEF TypeOK
<1> USE DEF Gate, Goto, Answers
<1>1. CASE ValidateLeaf(r)
  BY <1>1, <1>t DEF ValidateLeaf, ValidUnder
<1>10. CASE AgentAuthLeaf(r)
  BY <1>10, <1>t DEF AgentAuthLeaf, ValidUnder
<1>2. CASE ResolveLeaf(r) \/ ResolveFails(r)
  BY <1>2, <1>t DEF ResolveLeaf, ResolveFails, ValidUnder
<1>3. CASE CheckRevoked(r)
  BY <1>3, <1>t DEF CheckRevoked
<1>4. CASE CheckBinding(r)
  BY <1>4, <1>t DEF CheckBinding, Bound
<1>5. CASE CheckChain(r)
  BY <1>5, <1>t DEF CheckChain, ChainValid, ValidUnder, Hops
<1>6. CASE CheckProof(r)
  BY <1>6, <1>t DEF CheckProof, Proven
<1>7. ASSUME NEW lapsed \in SUBSET Closed,
             RecordProof(r, lapsed) \/ RefuseReplay(r, lapsed)
      PROVE  /\ pc[r] = "record" /\ UNCHANGED <<req, arrival>>
             /\ \/ pc'[r] = "401 replay"
                \/ pc'[r] = "authorize" /\ req[r].tool \in Direct
                \/ pc'[r] = "inspect" /\ req[r].tool \notin Direct
  BY <1>7, <1>t DEF RecordProof, RefuseReplay
<1>8. CASE Authorize(r)
  <2>1. "allowed" \in Decisions(r) /\ ~External => CanCall(req[r])
    BY DEF Decisions, Permitted, ActionSatisfies, Required, Strong, CanCall
  <2> QED BY <1>8, <1>t, <2>1 DEF Authorize
<1>9. CASE Forward(r)
  BY <1>9, <1>t DEF Forward
<1>11. CASE InspectBody(r)
  BY <1>11, <1>t DEF InspectBody
<1> QED
  BY <1>1, <1>2, <1>3, <1>4, <1>5, <1>6, <1>7, <1>8, <1>9, <1>10, <1>11 DEF Serve

\* A token that is live when a gate reads the clock was so on arrival.
LEMMA LiveEarlier ==
    ASSUME TypeOK, HeldOK, NEW r \in Requests, NEW t, t.exp \in Nat, Live(t)
    PROVE  LiveOnArrival(r, t)
<1>1. clock \in Nat /\ arrival[r].at \in Nat /\ arrival[r].at <= clock
  BY GatewayAssumption DEF TypeOK, HeldOK
<1> QED BY <1>1 DEF Live, LiveOnArrival

LEMMA StepGatesPassed ==
    TypeOK /\ HeldOK /\ GatesPassed /\ [Next]_vars => GatesPassed'
<1> SUFFICES ASSUME TypeOK, HeldOK, GatesPassed, [Next]_vars PROVE GatesPassed'
  OBVIOUS
<1>r. rules \subseteq rules'
  BY Movers, QuietSteps, ServingSteps DEF Allow
<1>c. ASSUME NEW q PROVE CanCall(q) => CanCall(q)'
  BY <1>r DEF CanCall
<1>1. CASE UNCHANGED <<pc, req, arrival>>
  BY <1>1, <1>c DEF GatesPassed, LiveOnArrival, Bound, Hops, Proven, Admitted
<1>2. ASSUME NEW r \in Requests, Serve(r) PROVE GatesPassed'
  <2> SUFFICES ASSUME NEW q \in Requests
               PROVE  /\ pc'[q] \in GatewayOnly => req'[q].tool \notin Direct
                      /\ pc'[q] \in AfterLeaf \cup {"resolve"} => req'[q].leaf # Missing
                      /\ pc'[q] \in AfterLeaf => /\ req'[q].leaf.iss \in Admitted(req'[q])
                                                /\ arrival'[q].at < req'[q].leaf.exp
                      /\ pc'[q] \in AfterBinding
                         => (MTLS /\ req'[q].tool \notin Direct => Bound(req'[q]))
                      /\ pc'[q] \in AfterChain => /\ Hops(req'[q].chain)
                                                 /\ \A i \in DOMAIN req'[q].chain :
                                                     arrival'[q].at < req'[q].chain[i].exp
                      /\ pc'[q] \in AfterProof => /\ Proven(req'[q])
                                                 /\ arrival'[q].at < req'[q].proof.exp
                      /\ pc'[q] \in {"proxy", "forwarded"}
                         => (~External => CanCall(req[q])' )
    BY DEF GatesPassed, LiveOnArrival, Bound, Hops, Proven, Admitted
  <2>1. CASE q # r
    BY <1>2, <1>c, <2>1, OthersStay DEF GatesPassed, LiveOnArrival
  <2>2. CASE q = r /\ \E t \in Traffic : Arrive(r, t)
    <3>1. pc'[r] = "leaf"
      BY <2>2 DEF Arrive, Goto, TypeOK
    <3> QED BY <2>2, <3>1 DEF GatewayOnly, AfterLeaf, AfterRevocation, AfterBinding,
       AfterChain, AfterProof
  <2>3. CASE q = r /\ ~ \E t \in Traffic : Arrive(r, t)
    <3>1. pc[r] # "idle" /\ UNCHANGED <<req, arrival>> /\ req[r] \in Traffic
      BY <1>2, <2>3, OwnStep DEF HeldOK
    <3>2. req[r].leaf # Missing /\ Live(req[r].leaf) => arrival[r].at < req[r].leaf.exp
      BY <3>1, LiveEarlier, GatewayAssumption DEF LiveOnArrival
    <3>3. req[r].chain # Missing =>
             \A i \in DOMAIN req[r].chain : Live(req[r].chain[i])
                                          => arrival[r].at < req[r].chain[i].exp
      BY <3>1, LiveEarlier, GatewayAssumption DEF LiveOnArrival
    <3>4. Proven(req[r]) /\ Live(req[r].proof) => arrival[r].at < req[r].proof.exp
      BY <3>1, LiveEarlier, GatewayAssumption DEF LiveOnArrival, Proven
    <3> QED
      BY <1>2, <1>c, <2>3, <3>1, <3>2, <3>3, <3>4, OwnStep
      DEF GatesPassed, LiveOnArrival, Admitted, GatewayOnly, Answers,
          AfterLeaf, AfterRevocation, AfterBinding, AfterChain, AfterProof
  <2> QED BY <2>1, <2>2, <2>3
<1> QED BY <1>1, <1>2, Movers, QuietSteps DEF Allow, requestVars

-----------------------------------------------------------------------------
(* Revocations *)

LEMMA StepRevocationInv ==
    TypeOK /\ HeldOK /\ GatesPassed /\ RevocationInv /\ [Next]_vars => RevocationInv'
<1> SUFFICES ASSUME TypeOK, HeldOK, GatesPassed, RevocationInv, [Next]_vars PROVE RevocationInv'
  OBVIOUS
<1>t. push \in [Pushes -> PushStages] /\ set \in [Pushes -> SETs \cup {Missing}]
  BY DEF TypeOK
<1>1. CASE Tick \/ (\E g \in Grants : Allow(g)) \/ UNCHANGED vars
  BY <1>1 DEF Tick, Allow, vars, requestVars, pushVars, RevocationInv
<1>2. ASSUME NEW r \in Requests, Serve(r) PROVE RevocationInv'
  <2>1. UNCHANGED <<revoked, push, set>>
    BY <1>2, ServingSteps DEF pushVars
  <2>2. Acked \subseteq revoked
    BY DEF Acked, RevocationInv
  <2>3. CASE \E t \in Traffic : Arrive(r, t)
    <3>1. pc'[r] = "leaf" /\ arrival'[r].acked = Acked
      BY <2>3 DEF Arrive, Goto, TypeOK, HeldOK
    <3> QED
      BY <1>2, <2>1, <2>2, <3>1, OthersStay
      DEF RevocationInv, AfterRevocation, AfterBinding, AfterChain, AfterProof
  <2>4. CASE ~ \E t \in Traffic : Arrive(r, t)
    BY <1>2, <2>1, <2>4, OthersStay, OwnStep
    DEF RevocationInv, Answers, AfterRevocation, AfterBinding, AfterChain, AfterProof
  <2> QED BY <2>3, <2>4
<1>3. ASSUME NEW p \in Pushes, Receive(p) PROVE RevocationInv'
  <2>0. UNCHANGED <<pc, req, arrival>>
    BY <1>3, QuietSteps DEF requestVars
  <2>1. ASSUME NEW s \in SETs, ReceiveSET(p, s) PROVE RevocationInv'
    BY <2>0, <2>1, <1>t DEF ReceiveSET, PushGoto, RevocationInv
  <2>2. CASE MarkSeen(p)
    BY <2>0, <2>2, <1>t DEF MarkSeen, PushGoto, RevocationInv
  <2>3. CASE Dispatch(p)
    <3>1. /\ revoked \subseteq revoked' /\ UNCHANGED set
          /\ push' = [push EXCEPT ![p] = "respond"]
          /\ Revokes(set[p]) => Named(set[p]) \in revoked'
      BY <2>3 DEF Dispatch, PushGoto
    <3>2. revoked' = revoked \/ revoked' = revoked \cup {Named(set[p])}
      BY <2>3 DEF Dispatch
    <3> QED BY <2>0, <3>1, <3>2, <1>t DEF RevocationInv
  <2>4. CASE Respond(p)
    BY <2>0, <2>4, <1>t DEF Respond, PushGoto, RevocationInv
  <2> QED BY <1>3, <2>1, <2>2, <2>3, <2>4 DEF Receive
<1> QED BY <1>1, <1>2, <1>3, Movers

-----------------------------------------------------------------------------
(* The request body *)

\* The gateway gets to the authorizer only by way of extractToolParams.
LEMMA StepBodiesInv ==
    TypeOK /\ HeldOK /\ BodiesInv /\ [Next]_vars => BodiesInv'
<1> SUFFICES ASSUME TypeOK, HeldOK, BodiesInv, [Next]_vars PROVE BodiesInv'
  OBVIOUS
<1>1. CASE UNCHANGED requestVars
  BY <1>1 DEF BodiesInv, requestVars
<1>2. ASSUME NEW r \in Requests, Serve(r) PROVE BodiesInv'
  <2>t. /\ toolParams \in [Requests -> Objects \cup {Missing}]
        /\ body \in [Requests -> Bodies \cup {Missing}]
        /\ pc \in [Requests -> {"idle"} \cup Stages \cup Answers]
    BY DEF TypeOK
  <2>1. ASSUME NEW q \in Requests, q # r
        PROVE  toolParams'[q] = toolParams[q] /\ body'[q] = body[q]
    BY <1>2, <2>1, <2>t DEF Serve, Arrive, ValidateLeaf, AgentAuthLeaf, ResolveLeaf,
       ResolveFails, CheckRevoked, CheckBinding, CheckChain, CheckProof, RecordProof,
       RefuseReplay, InspectBody, Authorize, Forward, Gate
  <2>2. CASE \E q \in Traffic : Arrive(r, q)
    <3>1. pc'[r] = "leaf"
      BY <2>2, <2>t DEF Arrive, Goto
    <3> QED BY <1>2, <2>1, <3>1, OthersStay DEF BodiesInv
  <2>3. CASE InspectBody(r)
    <3>1. toolParams'[r] = Params(body'[r])
      BY <2>3, <2>t, GatewayAssumption DEF InspectBody, Params
    <3> QED BY <1>2, <2>1, <3>1, OthersStay DEF BodiesInv
  <2>4. CASE ~InspectBody(r) /\ ~ \E q \in Traffic : Arrive(r, q)
    <3>1. UNCHANGED <<toolParams, body>>
      BY <1>2, <2>4 DEF Serve, ValidateLeaf, AgentAuthLeaf, ResolveLeaf,
         ResolveFails, CheckRevoked, CheckBinding, CheckChain, CheckProof, RecordProof,
         RefuseReplay, Authorize, Forward, Gate
    <3>2. pc[r] = "inspect" => pc'[r] # "authorize"
      BY <1>2, <2>4, <2>t DEF Serve, ValidateLeaf, AgentAuthLeaf, ResolveLeaf,
         ResolveFails, CheckRevoked, CheckBinding, CheckChain, CheckProof, RecordProof,
         RefuseReplay, Authorize, Forward, Gate, Goto
    <3> QED
      BY <1>2, <2>1, <2>4, <3>1, <3>2, OthersStay, OwnStep
      DEF BodiesInv, Answers
  <2> QED BY <2>2, <2>3, <2>4
<1> QED BY <1>1, <1>2, Movers, QuietSteps DEF Allow

-----------------------------------------------------------------------------
(* The proof store *)

\* The proof that is recorded is the one every earlier decision on its jti
\* used, and the store forgets only what can no longer be presented.
LEMMA StepRemembered ==
    TypeOK /\ HeldOK /\ GatesPassed /\ Remembered /\ [Next]_vars => Remembered'
<1> SUFFICES ASSUME TypeOK, HeldOK, GatesPassed, Remembered, [Next]_vars
             PROVE  Remembered'
  OBVIOUS
<1>c. clock \in Nat
  BY GatewayAssumption DEF TypeOK
<1>e. ASSUME NEW q \in Requests, Decided(q)
      PROVE  req[q].proof # Missing /\ req[q].proof.exp \in Nat /\ req[q] \in Traffic
  BY <1>e, GatewayAssumption DEF Decided, GatesPassed, Proven, HeldOK, AfterProof
<1>t. storedAt \in [Requests -> Nat]
  BY GatewayAssumption DEF TypeOK
<1>1. CASE UNCHANGED <<requestVars, seen>>
  <2>1. clock' \in Nat /\ clock <= clock'
    BY <1>c, Movers, ServingSteps DEF Tick, Allow, Receive, ReceiveSET, MarkSeen,
       Dispatch, Respond, vars
  <2> SUFFICES ASSUME NEW q \in Requests, Decided(q)
               PROVE  /\ storedAt[q] <= clock'
                      /\ \/ /\ req[q].proof.jti \in DOMAIN seen
                            /\ seen[req[q].proof.jti] = req[q].proof.exp
                         \/ req[q].proof.exp < clock'
    BY <1>1 DEF Remembered, Decided, requestVars
  <2> QED BY <1>c, <1>t, <1>e, <2>1 DEF Remembered
<1>2. ASSUME NEW r \in Requests, Serve(r) PROVE Remembered'
  <2>1. UNCHANGED clock
    BY <1>2, ServingSteps
  <2>2. ASSUME NEW lapsed \in SUBSET Closed, RecordProof(r, lapsed)
        PROVE  Remembered'
    <3>1. req[r] \in Traffic /\ req[r].proof # Missing
      BY <2>2 DEF RecordProof, Goto, HeldOK, GatesPassed, Proven, AfterProof
    <3>2. /\ UNCHANGED req
          /\ req[r].proof.jti \in DOMAIN seen'
          /\ seen'[req[r].proof.jti] = req[r].proof.exp
          /\ \A j \in DOMAIN seen : \/ j = req[r].proof.jti
                                    \/ seen[j] < clock
                                    \/ j \in DOMAIN seen' /\ seen'[j] = seen[j]
      BY <2>2 DEF RecordProof, Closed
    <3>3. storedAt'[r] = clock
      BY <2>2, <1>t DEF RecordProof
    <3> SUFFICES ASSUME NEW q \in Requests, Decided(q)'
                 PROVE  /\ storedAt'[q] <= clock
                        /\ \/ /\ req[q].proof.jti \in DOMAIN seen'
                              /\ seen'[req[q].proof.jti] = req[q].proof.exp
                           \/ req[q].proof.exp < clock
      BY <2>1, <3>2 DEF Remembered
    <3>4. CASE q = r
      BY <3>2, <3>3, <3>4, <1>c
    <3>5. CASE q # r
      <4>1. Decided(q) /\ storedAt'[q] = storedAt[q]
        BY <1>2, <3>5, OthersStay DEF Decided
      <4>2. req[q].proof.jti = req[r].proof.jti => req[q].proof = req[r].proof
        BY <4>1, <1>e, <3>1, GatewayAssumption
      <4> QED BY <4>1, <4>2, <3>2 DEF Remembered
    <3> QED BY <3>4, <3>5
  <2>3. ASSUME NEW lapsed \in SUBSET Closed, RefuseReplay(r, lapsed)
        PROVE  Remembered'
    <3>1. \A j \in DOMAIN seen : \/ seen[j] < clock
                                 \/ j \in DOMAIN seen' /\ seen'[j] = seen[j]
      BY <2>3 DEF RefuseReplay, Closed
    <3>2. \A q \in Requests : Decided(q)' => Decided(q)
      BY <2>3 DEF RefuseReplay, Goto, Decided, TypeOK
    <3>3. UNCHANGED <<req, storedAt>>
      BY <2>3 DEF RefuseReplay
    <3> QED BY <2>1, <3>1, <3>2, <3>3 DEF Remembered
  <2>4. CASE ~ \E lapsed \in SUBSET Closed : RecordProof(r, lapsed) \/ RefuseReplay(r, lapsed)
    <3>1. UNCHANGED <<seen, storedAt>>
      BY <1>2, <2>4 DEF Serve, Arrive, ValidateLeaf, AgentAuthLeaf, ResolveLeaf, ResolveFails,
         CheckRevoked, CheckBinding, CheckChain, CheckProof, InspectBody, Authorize, Forward, Gate
    <3>2. /\ Decided(r)' => Decided(r)
          /\ Decided(r)' => UNCHANGED req
      BY <1>2, <2>4 DEF Serve, Arrive, ValidateLeaf, AgentAuthLeaf, ResolveLeaf, ResolveFails,
         CheckRevoked, CheckBinding, CheckChain, CheckProof, InspectBody, Authorize, Forward,
         Gate, Goto, Decided, TypeOK
    <3>3. \A q \in Requests : Decided(q)' => Decided(q) /\ req'[q] = req[q]
      BY <1>2, <3>2, OthersStay DEF Decided
    <3> QED BY <2>1, <3>1, <3>3 DEF Remembered
  <2> QED BY <2>2, <2>3, <2>4
<1> QED BY <1>1, <1>2, Movers, QuietSteps DEF Allow

\* Two decisions on one proof would have been recorded within its lifetime:
\* the second one would have met the first one's entry.
LEMMA StepOneDecision ==
    TypeOK /\ HeldOK /\ GatesPassed /\ Remembered /\ ProofBuysOneDecision
    /\ [Next]_vars => ProofBuysOneDecision'
<1> SUFFICES ASSUME TypeOK, HeldOK, GatesPassed, Remembered,
                    ProofBuysOneDecision, [Next]_vars
             PROVE  ProofBuysOneDecision'
  OBVIOUS
<1>c. clock \in Nat /\ storedAt \in [Requests -> Nat]
  BY GatewayAssumption DEF TypeOK
<1>1. CASE UNCHANGED requestVars
  BY <1>1 DEF ProofBuysOneDecision, Decided, requestVars
<1>2. ASSUME NEW r \in Requests, NEW lapsed \in SUBSET Closed, RecordProof(r, lapsed)
      PROVE  ProofBuysOneDecision'
  <2>1. Serve(r)
    BY <1>2 DEF Serve
  <2>2. /\ UNCHANGED req /\ storedAt'[r] = clock
        /\ req[r] \in Traffic /\ req[r].proof # Missing
    BY <1>2, <1>c DEF RecordProof, Goto, HeldOK, GatesPassed, Proven, AfterProof
  <2>3. req[r].proof.jti \in DOMAIN seen => seen[req[r].proof.jti] < clock
    BY <1>2 DEF RecordProof, Closed
  <2>4. ASSUME NEW q \in Requests, q # r, Decided(q)',
               req[q].proof.jti = req[r].proof.jti
        PROVE  req[r].proof.exp < clock
    <3>1. Decided(q)
      BY <2>1, <2>4, OthersStay DEF Decided
    <3>2. req[q].proof = req[r].proof
      BY <2>2, <2>4, <3>1, GatewayAssumption
      DEF Decided, HeldOK, GatesPassed, Proven, AfterProof
    <3> QED BY <2>3, <3>1, <3>2 DEF Remembered
  <2>5. ASSUME NEW q \in Requests, q # r
        PROVE  (Decided(q)' => Decided(q)) /\ storedAt'[q] = storedAt[q]
    BY <2>1, <2>5, OthersStay DEF Decided
  <2>6. req[r].proof.exp \in Nat
    BY <2>2, GatewayAssumption
  <2> SUFFICES ASSUME NEW p \in Requests, NEW q \in Requests, p # q,
                      Decided(p)', Decided(q)',
                      req[p].proof.jti = req[q].proof.jti,
                      storedAt'[p] <= req[p].proof.exp,
                      storedAt'[q] <= req[q].proof.exp
               PROVE  FALSE
    BY <2>2 DEF ProofBuysOneDecision
  <2>7. CASE p = r
    BY <1>c, <2>2, <2>4, <2>6, <2>7
  <2>8. CASE q = r
    BY <1>c, <2>2, <2>4, <2>6, <2>8
  <2>9. CASE p # r /\ q # r
    BY <2>5, <2>9 DEF ProofBuysOneDecision
  <2> QED BY <2>7, <2>8, <2>9
<1>3. ASSUME NEW r \in Requests, Serve(r),
             ~ \E lapsed \in SUBSET Closed : RecordProof(r, lapsed)
      PROVE  ProofBuysOneDecision'
  <2>1. (Decided(r)' => Decided(r) /\ UNCHANGED req) /\ UNCHANGED storedAt
    BY <1>3 DEF Serve, Arrive, ValidateLeaf, AgentAuthLeaf, ResolveLeaf, ResolveFails,
       CheckRevoked, CheckBinding, CheckChain, CheckProof, RefuseReplay, InspectBody, Authorize,
       Forward, Gate, Goto, Decided, TypeOK
  <2>2. \A q \in Requests : Decided(q)' => Decided(q) /\ req'[q] = req[q]
    BY <1>3, <2>1, OthersStay DEF Decided
  <2> QED BY <2>1, <2>2 DEF ProofBuysOneDecision
<1> QED BY <1>1, <1>2, <1>3, Movers, QuietSteps DEF Allow

-----------------------------------------------------------------------------
(* The promise of the proof store *)

\* What the store holds was shown by some request, with its own expiry.
SeenIsShown ==
    \A j \in DOMAIN seen : j \in DOMAIN windowOf /\ seen[j] = windowOf[j]

\* One jti is one proof, so it has one expiry.
LEMMA ExpiryOf ==
    ASSUME NEW q \in Traffic, q.proof # Missing
    PROVE  q.proof \in Proofs /\ q.proof.jti \in Jtis /\ Expiry[q.proof.jti] = q.proof.exp
<1>1. q.proof \in Proofs /\ q.proof.jti \in Jtis
  BY DEF Proofs, Jtis
<1>2. \A p \in Proofs : p.jti = q.proof.jti => p = q.proof
  BY GatewayAssumption DEF Proofs
<1>3. (CHOOSE p \in Proofs : p.jti = q.proof.jti) = q.proof
  BY <1>1, <1>2
<1> QED BY <1>1, <1>3 DEF Expiry

\* The windows that are open so far.
LEMMA Windows ==
    ASSUME TypeOK, HeldOK
    PROVE  /\ DOMAIN windowOf = {req[r].proof.jti : r \in Shown}
           /\ \A j \in DOMAIN windowOf : windowOf[j] = Expiry[j]
           /\ DOMAIN windowOf \subseteq Jtis
<1>1. \A r \in Shown : req[r] \in Traffic /\ req[r].proof # Missing
  BY DEF Shown, HeldOK
<1> QED BY <1>1, ExpiryOf DEF windowOf

\* A request that moves on within the middleware opens no window.
LEMMA SameWindows ==
    ASSUME TypeOK, HeldOK, NEW r \in Requests, Serve(r), ~ \E q \in Traffic : Arrive(r, q)
    PROVE  UNCHANGED windowOf
<1>1. pc[r] # "idle" /\ UNCHANGED req /\ pc'[r] # "idle"
  BY OwnStep DEF Answers
<1>2. \A q \in Requests : pc'[q] # "idle" <=> pc[q] # "idle"
  BY <1>1, OthersStay
<1>3. Shown' = Shown
  BY <1>1, <1>2 DEF Shown
<1> QED BY <1>1, <1>3 DEF windowOf

\* An arriving request opens the window of its proof, unless it has none or the
\* window is open.
LEMMA ArrivalOpens ==
    ASSUME TypeOK, HeldOK, NEW r \in Requests, NEW q \in Traffic, Arrive(r, q)
    PROVE  /\ Shown' = IF q.proof = Missing THEN Shown ELSE Shown \cup {r}
           /\ \A p \in Shown : req'[p] = req[p]
           /\ req'[r] = q
<1>1. pc[r] = "idle" /\ pc'[r] = "leaf" /\ req'[r] = q
  BY DEF Arrive, Goto, TypeOK
<1>2. \A p \in Requests \ {r} : pc'[p] = pc[p] /\ req'[p] = req[p]
  BY OthersStay DEF Serve
<1> QED BY <1>1, <1>2 DEF Shown

LEMMA StepSeenIsShown ==
    TypeOK /\ HeldOK /\ GatesPassed /\ SeenIsShown /\ [Next]_vars => SeenIsShown'
<1> SUFFICES ASSUME TypeOK, HeldOK, GatesPassed, SeenIsShown, [Next]_vars
             PROVE  SeenIsShown'
  OBVIOUS
<1>1. CASE UNCHANGED <<requestVars, seen>>
  BY <1>1 DEF SeenIsShown, windowOf, Shown, requestVars
<1>2. ASSUME NEW r \in Requests, NEW q \in Traffic, Arrive(r, q) PROVE SeenIsShown'
  <2>1. DOMAIN windowOf \subseteq DOMAIN windowOf'
    <3>1. DOMAIN windowOf = {req[p].proof.jti : p \in Shown}
          /\ DOMAIN windowOf' = {req'[p].proof.jti : p \in Shown'}
      BY DEF windowOf
    <3> QED BY <3>1, <1>2, ArrivalOpens
  <2>2. \A j \in DOMAIN windowOf : windowOf'[j] = windowOf[j]
    BY <2>1 DEF windowOf
  <2>3. UNCHANGED seen
    BY <1>2 DEF Arrive
  <2> QED BY <2>1, <2>2, <2>3 DEF SeenIsShown
<1>3. ASSUME NEW r \in Requests, Serve(r), ~ \E q \in Traffic : Arrive(r, q)
      PROVE  SeenIsShown'
  <2>1. UNCHANGED windowOf
    BY <1>3, SameWindows
  <2>2. ASSUME NEW lapsed \in SUBSET Closed, RecordProof(r, lapsed)
        PROVE  SeenIsShown'
    <3>1. req[r] \in Traffic /\ req[r].proof # Missing /\ r \in Shown
      BY <2>2 DEF RecordProof, Goto, HeldOK, GatesPassed, Proven, AfterProof, Shown
    <3>2. req[r].proof.jti \in DOMAIN windowOf
          /\ windowOf[req[r].proof.jti] = req[r].proof.exp
      BY <3>1, Windows, ExpiryOf
    <3>3. \A j \in DOMAIN seen' : \/ j = req[r].proof.jti /\ seen'[j] = req[r].proof.exp
                                  \/ j \in DOMAIN seen /\ seen'[j] = seen[j]
      BY <2>2 DEF RecordProof
    <3> QED BY <2>1, <3>2, <3>3 DEF SeenIsShown
  <2>3. ASSUME NEW lapsed \in SUBSET Closed, RefuseReplay(r, lapsed)
        PROVE  SeenIsShown'
    <3>1. \A j \in DOMAIN seen' : j \in DOMAIN seen /\ seen'[j] = seen[j]
      BY <2>3 DEF RefuseReplay
    <3> QED BY <2>1, <3>1 DEF SeenIsShown
  <2>4. CASE ~ \E lapsed \in SUBSET Closed : RecordProof(r, lapsed) \/ RefuseReplay(r, lapsed)
    <3>1. UNCHANGED seen
      BY <1>3, <2>4 DEF Serve, ValidateLeaf, AgentAuthLeaf, ResolveLeaf, ResolveFails,
         CheckRevoked, CheckBinding, CheckChain, CheckProof, InspectBody, Authorize, Forward,
         Gate
    <3> QED BY <2>1, <3>1 DEF SeenIsShown
  <2> QED BY <2>2, <2>3, <2>4
<1> QED BY <1>1, <1>2, <1>3, Movers, QuietSteps DEF Allow

Undecided == {"idle", "leaf", "resolve", "revocation", "binding", "chain", "proof", "record"}
Refusals == {"401 token", "401 revoked", "401 mtls", "401 chain", "401 proof"}

\* The verdict of each request, by where it stands.
VerdictsByStage ==
    \A r \in Requests :
        /\ pc[r] \in Undecided => verdictOf[r] = "open"
        /\ Decided(r) => verdictOf[r] = "admitted"
        /\ pc[r] = "401 replay" => verdictOf[r] = "replayed"
        /\ pc[r] \in Refusals => verdictOf[r] = "refused"

LEMMA VerdictStages == VerdictsByStage /\ VerdictsByStage'
<1>1. VerdictsByStage
  BY DEF VerdictsByStage, Undecided, Refusals, verdictOf, Decided, Stages
<1>2. VerdictsByStage'
  BY DEF VerdictsByStage, Undecided, Refusals, verdictOf, Decided, Stages
<1> QED BY <1>1, <1>2

\* The verdict of one request changes at a time.
LEMMA OneVerdictMoves ==
    ASSUME TypeOK, HeldOK, NEW r \in Requests, Serve(r)
    PROVE  verdictOf' = [verdictOf EXCEPT ![r] = verdictOf'[r]]
<1>1. ASSUME NEW q \in Requests, q # r PROVE verdictOf'[q] = verdictOf[q]
  <2>1. pc'[q] = pc[q]
    BY <1>1, OthersStay
  <2>2. pc[q] \in Undecided \/ Decided(q) \/ pc[q] = "401 replay" \/ pc[q] \in Refusals
    BY DEF TypeOK, Stages, Answers, Undecided, Refusals, Decided
  <2>3. Decided(q) <=> Decided(q)'
    BY <2>1 DEF Decided
  <2>4. VerdictsByStage /\ VerdictsByStage'
    BY VerdictStages
  <2>5. CASE pc[q] \in Undecided
    <3>1. verdictOf[q] = "open" BY <2>4, <2>5 DEF VerdictsByStage
    <3>2. verdictOf'[q] = "open" BY <2>1, <2>4, <2>5 DEF VerdictsByStage
    <3> QED BY <3>1, <3>2
  <2>6. CASE Decided(q)
    <3>1. verdictOf[q] = "admitted" BY <2>4, <2>6 DEF VerdictsByStage
    <3>2. verdictOf'[q] = "admitted" BY <2>3, <2>4, <2>6 DEF VerdictsByStage
    <3> QED BY <3>1, <3>2
  <2>7. CASE pc[q] = "401 replay"
    <3>1. verdictOf[q] = "replayed" BY <2>4, <2>7 DEF VerdictsByStage
    <3>2. verdictOf'[q] = "replayed" BY <2>1, <2>4, <2>7 DEF VerdictsByStage
    <3> QED BY <3>1, <3>2
  <2>8. CASE pc[q] \in Refusals
    <3>1. verdictOf[q] = "refused" BY <2>4, <2>8 DEF VerdictsByStage
    <3>2. verdictOf'[q] = "refused" BY <2>1, <2>4, <2>8 DEF VerdictsByStage
    <3> QED BY <3>1, <3>2
  <2> QED BY <2>2, <2>5, <2>6, <2>7, <2>8
<1>2. verdictOf = [q \in Requests |-> verdictOf[q]] /\ verdictOf' = [q \in Requests |-> verdictOf'[q]]
  BY DEF verdictOf
<1> QED BY <1>1, <1>2

\* Away from the store a request stays as it is or is refused by some gate.
LEMMA VerdictElsewhere ==
    ASSUME TypeOK, HeldOK, NEW r \in Requests, Serve(r), ~ \E q \in Traffic : Arrive(r, q),
           ~ \E lapsed \in SUBSET Closed : RecordProof(r, lapsed) \/ RefuseReplay(r, lapsed)
    PROVE  \/ verdictOf'[r] = verdictOf[r]
           \/ verdictOf[r] = "open" /\ verdictOf'[r] = "refused"
<1>1. \/ pc[r] \in Undecided /\ pc'[r] \in Undecided \cup Refusals
      \/ Decided(r) /\ Decided(r)'
  BY DEF Serve, ValidateLeaf, AgentAuthLeaf, ResolveLeaf, ResolveFails, CheckRevoked,
     CheckBinding, CheckChain, CheckProof, InspectBody, Authorize, Forward, Gate, Goto,
     Decided, Undecided, Refusals, TypeOK
<1> QED BY <1>1, VerdictStages DEF VerdictsByStage

LEMMA StepStore ==
    IInv /\ SeenIsShown /\ [Next]_vars => [Store!Next]_(Store!vars)
<1> SUFFICES ASSUME IInv, SeenIsShown, [Next]_vars
             PROVE  Store!Next \/ UNCHANGED <<clock, windowOf, DOMAIN seen, verdictOf>>
  BY DEF Store!vars
<1>t. TypeOK /\ HeldOK /\ GatesPassed
  BY DEF IInv
<1>1. CASE UNCHANGED <<clock, requestVars, seen>>
  BY <1>1 DEF requestVars, windowOf, Shown, verdictOf, Decided
<1>2. CASE Tick
  <2>1. UNCHANGED <<windowOf, DOMAIN seen, verdictOf>> /\ clock' = clock + 1
    BY <1>2 DEF Tick, requestVars, windowOf, Shown, verdictOf, Decided
  <2> QED BY <2>1 DEF Store!Next, Store!Tick
<1>3. ASSUME NEW r \in Requests, NEW q \in Traffic, Arrive(r, q)
      PROVE  Store!Next \/ UNCHANGED <<clock, windowOf, DOMAIN seen, verdictOf>>
  <2>1. UNCHANGED <<clock, seen>> /\ Serve(r)
    BY <1>3 DEF Arrive, Serve
  <2>2. UNCHANGED verdictOf
    <3>1. pc[r] \in Undecided /\ pc'[r] \in Undecided
      BY <1>3, <1>t DEF Arrive, Goto, TypeOK, Undecided
    <3>2. verdictOf[r] = "open" /\ verdictOf'[r] = "open"
      BY <3>1, VerdictStages DEF VerdictsByStage
    <3>3. verdictOf' = [verdictOf EXCEPT ![r] = verdictOf[r]]
      BY <2>1, <3>2, <1>t, OneVerdictMoves
    <3> QED BY <3>3 DEF verdictOf
  <2>3. /\ Shown' = IF q.proof = Missing THEN Shown ELSE Shown \cup {r}
        /\ \A p \in Shown : req'[p] = req[p]
        /\ req'[r] = q
    BY <1>3, <1>t, ArrivalOpens
  <2>4. CASE q.proof = Missing
    <3>1. UNCHANGED windowOf BY <2>3, <2>4 DEF windowOf
    <3> QED BY <2>1, <2>2, <3>1
  <2>5. CASE q.proof # Missing
    <3> DEFINE j == q.proof.jti
    <3>1. DOMAIN windowOf' = DOMAIN windowOf \cup {j}
      <4>1. DOMAIN windowOf = {req[p].proof.jti : p \in Shown}
            /\ DOMAIN windowOf' = {req'[p].proof.jti : p \in Shown'}
        BY DEF windowOf
      <4> QED BY <4>1, <2>3, <2>5
    <3>2. \A k \in DOMAIN windowOf : windowOf'[k] = windowOf[k]
      BY <3>1 DEF windowOf
    <3>3. CASE j \in DOMAIN windowOf
      <4>1. UNCHANGED windowOf
        <5>1. DOMAIN windowOf' = DOMAIN windowOf BY <3>1, <3>3
        <5> QED BY <5>1 DEF windowOf
      <4> QED BY <2>1, <2>2, <4>1
    <3>4. CASE j \notin DOMAIN windowOf
      <4>1. j \in Jtis BY <2>5, ExpiryOf
      <4>2. Store!Hand(j) BY <2>1, <2>2, <3>1, <3>2, <3>4 DEF Store!Hand
      <4> QED BY <4>1, <4>2 DEF Store!Next
    <3> QED BY <3>3, <3>4
  <2> QED BY <2>4, <2>5
<1>4. ASSUME NEW r \in Requests, Serve(r), ~ \E q \in Traffic : Arrive(r, q)
      PROVE  Store!Next \/ UNCHANGED <<clock, windowOf, DOMAIN seen, verdictOf>>
  <2>0. UNCHANGED <<clock, windowOf>>
    BY <1>4, <1>t, SameWindows, ServingSteps
  <2>v. verdictOf' = [verdictOf EXCEPT ![r] = verdictOf'[r]]
    BY <1>4, <1>t, OneVerdictMoves
  <2>1. ASSUME NEW lapsed \in SUBSET Closed
        PROVE  lapsed \in SUBSET Store!Closed
    BY <1>t DEF SeenIsShown, Closed, Store!Closed
  <2> DEFINE j == req[r].proof.jti
  <2>2. ASSUME NEW lapsed \in SUBSET Closed, RecordProof(r, lapsed)
        PROVE  Store!Next
    <3>1. r \in Shown /\ req[r] \in Traffic /\ req[r].proof # Missing
      BY <2>2, <1>t DEF RecordProof, Goto, HeldOK, GatesPassed, Proven, AfterProof, Shown
    <3>2. j \in DOMAIN windowOf /\ j \in Jtis
      BY <3>1, <1>t, Windows, ExpiryOf
    <3>3. pc[r] \in Undecided /\ Decided(r)'
      BY <2>2, <1>t DEF RecordProof, Goto, Undecided, Decided, TypeOK
    <3>4. verdictOf[r] = "open" /\ verdictOf'[r] = "admitted"
      BY <3>3, VerdictStages DEF VerdictsByStage
    <3>5. j \notin DOMAIN seen \ lapsed /\ DOMAIN seen' = (DOMAIN seen \ lapsed) \cup {j}
      BY <2>2 DEF RecordProof
    <3> HIDE DEF j
    <3>6. Store!Admit(r, j, lapsed)
      BY <2>0, <2>v, <3>2, <3>4, <3>5 DEF Store!Admit
    <3> QED BY <2>1, <3>2, <3>6 DEF Store!Next
  <2>3. ASSUME NEW lapsed \in SUBSET Closed, RefuseReplay(r, lapsed)
        PROVE  Store!Next
    <3>1. r \in Shown /\ req[r] \in Traffic /\ req[r].proof # Missing
      BY <2>3, <1>t DEF RefuseReplay, Goto, HeldOK, GatesPassed, Proven, AfterProof, Shown
    <3>2. j \in Jtis
      BY <3>1, <1>t, ExpiryOf
    <3>3. pc[r] \in Undecided /\ pc'[r] = "401 replay"
      BY <2>3, <1>t DEF RefuseReplay, Goto, Undecided, TypeOK
    <3>4. verdictOf[r] = "open" /\ verdictOf'[r] = "replayed"
      BY <3>3, VerdictStages DEF VerdictsByStage
    <3>5. j \in DOMAIN seen \ lapsed /\ DOMAIN seen' = DOMAIN seen \ lapsed
      BY <2>3 DEF RefuseReplay
    <3> HIDE DEF j
    <3>6. Store!Replayed(r, j, lapsed)
      BY <2>0, <2>v, <3>4, <3>5 DEF Store!Replayed
    <3> QED BY <2>1, <3>2, <3>6 DEF Store!Next
  <2>4. CASE ~ \E lapsed \in SUBSET Closed : RecordProof(r, lapsed) \/ RefuseReplay(r, lapsed)
    <3>1. UNCHANGED seen
      BY <1>4, <2>4 DEF Serve, ValidateLeaf, AgentAuthLeaf, ResolveLeaf, ResolveFails,
         CheckRevoked, CheckBinding, CheckChain, CheckProof, InspectBody, Authorize, Forward,
         Gate
    <3>2. CASE verdictOf'[r] = verdictOf[r]
      <4>1. UNCHANGED verdictOf BY <2>v, <3>2 DEF verdictOf
      <4> QED BY <2>0, <3>1, <4>1
    <3>3. CASE verdictOf[r] = "open" /\ verdictOf'[r] = "refused"
      <4>1. Store!Settle(r, "refused")
        BY <2>0, <2>v, <3>1, <3>3 DEF Store!Settle
      <4> QED BY <4>1 DEF Store!Next
    <3> QED BY <1>4, <1>t, <2>4, <3>2, <3>3, VerdictElsewhere
  <2> QED BY <2>2, <2>3, <2>4
<1> QED BY <1>1, <1>2, <1>3, <1>4, Movers, QuietSteps, ServingSteps
        DEF Allow, Receive, ReceiveSET, MarkSeen, Dispatch, Respond, vars

-----------------------------------------------------------------------------
(* Theorems *)

LEMMA StepIInv == IInv /\ [Next]_vars => IInv'
BY StepTypeOK, StepHeldOK, StepGatesPassed, StepRevocationInv, StepBodiesInv,
   StepRemembered, StepOneDecision DEF IInv

THEOREM Invariance == Spec => []IInv
<1> QED BY InitIInv, StepIInv, PTL DEF Spec

\* Every request, push and store of the gateway stays well typed; what is
\* revoked was named by some SET, and no SET without a jti is ever marked.
THEOREM TypeCorrect == Spec => []TypeOK
<1>1. IInv => TypeOK
  BY DEF IInv
<1> QED BY <1>1, Invariance, PTL

\* ServeHTTP writes its 202 after dispatch, and IsRevoked reads a set that only
\* grows: a request that arrives after the acknowledgement is not forwarded,
\* for any number of SETs, deliveries and requests.
THEOREM RevocationHolds == Spec => []AckedRevocationHolds
<1>1. IInv => AckedRevocationHolds
  BY DEF IInv, RevocationInv, AckedRevocationHolds, AfterRevocation, AfterBinding,
     AfterChain, AfterProof
<1> QED BY <1>1, Invariance, PTL

\* Whatever tokens, chains and proofs are combined and whenever each gate reads
\* the clock, the middleware forwards only what every gate has vouched for, on
\* tokens that were live when the request came in.  The leaf's key has signed
\* for the chain; that the chain ends with the leaf is not part of this.
THEOREM Vouched == Spec => []ForwardedIsVouched
<1>1. IInv => ForwardedIsVouched
  BY DEF IInv, GatesPassed, ForwardedIsVouched, LiveOnArrival, Admitted, Strong, Bound, Hops, Proven, CanCall,
     AfterLeaf, AfterRevocation, AfterBinding, AfterChain, AfterProof
<1> QED BY <1>1, Invariance, PTL

\* Whatever the size of a body and wherever its reading stops, what extractToolParams
\* shows the authorizer is what it puts back for the upstream.
THEOREM ParamsMatchBody == Spec => []ParamsAreWhatIsSent
<1>1. IInv => ParamsAreWhatIsSent
  BY DEF IInv, BodiesInv, ParamsAreWhatIsSent
<1> QED BY <1>1, Invariance, PTL

\* The middleware spends the proof before it asks the authorizer: no proof
\* gets a second decision while it lives, whatever the first one was.
THEOREM OneDecision == Spec => []ProofBuysOneDecision
<1>1. IInv => ProofBuysOneDecision
  BY DEF IInv
<1> QED BY <1>1, Invariance, PTL

\* The middleware keeps what the proof store promises (JTIStore, store.go:20),
\* whatever gates surround it and however requests interleave: who is admitted
\* spends a proof that was not spent, who is refused as a replay showed one that
\* was, and every other refusal leaves the store alone.
THEOREM KeepsReplayWindow == Spec => ImplementsReplayWindow
<1>1. Init => SeenIsShown /\ Store!Init
  BY DEF Init, SeenIsShown, Store!Init, windowOf, Shown, verdictOf, Decided, Stages
<1>2. IInv /\ SeenIsShown /\ [Next]_vars => SeenIsShown'
  BY StepSeenIsShown DEF IInv
<1>3. Spec => []SeenIsShown
  BY <1>1, <1>2, Invariance, PTL DEF Spec
<1>4. IInv /\ SeenIsShown /\ [Next]_vars => [Store!Next]_(Store!vars)
  BY StepStore
<1> QED BY <1>1, <1>3, <1>4, Invariance, PTL DEF Spec, ImplementsReplayWindow, Store!Spec
=============================================================================
