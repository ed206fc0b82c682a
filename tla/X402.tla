-------------------------------- MODULE X402 --------------------------------
(***************************************************************************)
(* Payments (pkg/x402) on top of credential brokering: an agent pays with  *)
(* a CB4A token whose scope is the price, a DPoP proof and its agent       *)
(* token.  PaymentGateway.Verify is an API call of CB4A with a check of    *)
(* the scope before it and one of the payer after it, when the proof is    *)
(* already spent and the call already logged.                              *)
(***************************************************************************)
EXTENDS CB4A

CONSTANTS
    Price,      \* the scope payment:<asset>:<amount> of what the gateway requires
    AgentTokens \* agent tokens that agents may present: [sub, exp]

ASSUME PaymentAssumption ==
    /\ \A a \in AgentTokens : a.exp \in Nat
    /\ None \notin AgentTokens

VARIABLES
    stage,      \* where each goroutine stands in Verify
    claims,     \* the token it parsed first
    agentToken, \* the agent token it was given
    proofId,    \* history: the jti of the proof it was given
    payments    \* the PaymentResults returned, in order

payment == <<stage, claims, agentToken, proofId, payments>>
payVars == <<vars, payment>>

Payment == [req : ReqIds, task : Tasks, sub : {a.sub : a \in AgentTokens}, jti : Jtis]

VerifyTypeOK ==
    /\ stage \in [Callers -> {"none", "call", "payer"}]
    /\ claims \in [Callers -> Token \cup {None}]
    /\ agentToken \in [Callers -> AgentTokens \cup {None}]
    /\ proofId \in [Callers -> Jtis \cup {None}]
    /\ payments \in Seq(Payment)
    /\ \A c \in Callers : stage[c] # "none" => claims[c] # None

\* The types of the whole, the broker and the goroutines in Verify.
PaymentTypeOK == TypeOK /\ VerifyTypeOK

PayInit ==
    /\ Init
    /\ stage = [c \in Callers |-> "none"]
    /\ claims = [c \in Callers |-> None]
    /\ agentToken = [c \in Callers |-> None]
    /\ proofId = [c \in Callers |-> None]
    /\ payments = <<>>

-----------------------------------------------------------------------------

\* BuildPayload: a fresh proof for every payload.
BuildPayload(t, j) == GenerateDPoPProof(t, j) /\ UNCHANGED payment

\* Mutant of checkScope: any CB4A token pays.
checkScopeAny(t) == t.task \in Tasks

\* The scope of the token is the payment that the gateway requires.
checkScope(t) == t.task.scope = Price

\* Verify, up to the replay store of the CDP.
VerifyPayment(c, t, p, a) ==
    /\ stage[c] = "none"
    /\ checkScope(t)
    /\ ParseCall(c, t, p)
    /\ stage' = [stage EXCEPT ![c] = "call"]
    /\ claims' = [claims EXCEPT ![c] = t]
    /\ agentToken' = [agentToken EXCEPT ![c] = a]
    /\ proofId' = [proofId EXCEPT ![c] = p.jti]
    /\ UNCHANGED payments

\* Mutant of EndVerify: the goroutine never leaves Verify.
EndVerifyStuck(c) ==
    /\ claims' = [claims EXCEPT ![c] = None]
    /\ agentToken' = [agentToken EXCEPT ![c] = None]
    /\ proofId' = [proofId EXCEPT ![c] = None]
    /\ UNCHANGED stage

\* Verify returns.
EndVerify(c) ==
    /\ stage' = [stage EXCEPT ![c] = "none"]
    /\ claims' = [claims EXCEPT ![c] = None]
    /\ agentToken' = [agentToken EXCEPT ![c] = None]
    /\ proofId' = [proofId EXCEPT ![c] = None]

\* Mutant of CallStep: the error of the API call is not returned.
CallStepLenient(c) ==
    /\ stage[c] = "call"
    /\ Continue(c)
    /\ stage' = [stage EXCEPT ![c] = IF pc[c] \in {"replayed", "authorized"}
                                    THEN "payer" ELSE @]
    /\ UNCHANGED <<claims, agentToken, proofId, payments>>

\* A step of the API call inside Verify: a replay ends Verify with an error, a
\* success leads on to the check of the payer.
CallStep(c) ==
    /\ stage[c] = "call"
    /\ Continue(c)
    /\ UNCHANGED payments
    /\ \/ pc[c] = "replayed" /\ EndVerify(c)
       \/ /\ pc[c] = "authorized"
          /\ stage' = [stage EXCEPT ![c] = "payer"]
          /\ UNCHANGED <<claims, agentToken, proofId>>
       \/ /\ pc[c] = "record"
          /\ UNCHANGED <<stage, claims, agentToken, proofId>>

\* The agent token is valid and its subject is the agent of the CB4A token.
PayerMatches(c) ==
    /\ Live(agentToken[c])
    /\ agentToken[c].sub = claims[c].task.svid

\* Mutant of CheckPayer: a refused payer gets the proof back.
CheckPayerRefunds(c) ==
    /\ stage[c] = "payer"
    /\ EndVerify(c)
    /\ IF PayerMatches(c)
       THEN /\ payments' = Append(payments,
                 [req |-> claims[c].req, task |-> claims[c].task,
                  sub |-> agentToken[c].sub, jti |-> proofId[c]])
            /\ UNCHANGED vars
       ELSE /\ dpopJTI' = dpopJTI \ {proofId[c]}
            /\ UNCHANGED <<payments, clock, pending, audit, held, local>>

\* The last step of Verify: a payment, or an error that costs the proof.
CheckPayer(c) ==
    /\ stage[c] = "payer"
    /\ EndVerify(c)
    /\ payments' = IF PayerMatches(c)
                   THEN Append(payments,
                          [req |-> claims[c].req, task |-> claims[c].task,
                           sub |-> agentToken[c].sub, jti |-> proofId[c]])
                   ELSE payments
    /\ UNCHANGED vars

PayNext ==
    \/ Tick /\ UNCHANGED payment
    \/ \E t \in tokens, j \in Jtis : BuildPayload(t, j)
    \/ \E c \in Callers :
          \/ stage[c] = "none" /\ (Begin(c) \/ Continue(c)) /\ UNCHANGED payment
          \/ \E t \in tokens, p \in proofs, a \in AgentTokens : VerifyPayment(c, t, p, a)
          \/ CallStep(c)
          \/ CheckPayer(c)

PaySpec == PayInit /\ [][PayNext]_payVars

-----------------------------------------------------------------------------
(* Properties *)

\* A payment names the agent that the PDP authorized to spend this amount, and
\* where the tier asks for a human its request stands approved.
PaymentIsAuthorized ==
    \A i \in DOMAIN payments :
        LET p == payments[i] IN
        /\ p.task.scope = Price
        /\ p.sub = p.task.svid
        /\ Tier[p.task] # TierAuto => /\ p.req \in DOMAIN pending
                                      /\ pending[p.req].state = "approved"

\* A proof pays once, however often and by whomever it is presented.
ProofPaysOnce ==
    \A i, j \in DOMAIN payments : payments[i].jti = payments[j].jti => i = j

\* Every payment is in the audit log as an API call of its own.
PaymentsAreLogged ==
    \A r \in ReqIds :
        Cardinality({i \in DOMAIN payments : payments[i].req = r})
        <= Cardinality({i \in DOMAIN audit : audit[i] = [event |-> "api_call", req |-> r]})

\* Payments leave the broker as it is: with payments hidden, every behaviour is
\* one of CB4A, so what holds of CB4A holds under payments.
ImplementsCB4A == Spec
=============================================================================
