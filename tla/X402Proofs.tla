----------------------------- MODULE X402Proofs -----------------------------
(***************************************************************************)
(* Proofs about X402.  Payments implement the broker, so the invariant of  *)
(* CB4AProofs holds under them; on top of it, PayInv follows a payment     *)
(* from the token that was parsed first to the result that is returned.    *)
(***************************************************************************)
EXTENDS X402, CB4AProofs, FiniteSetTheorems

-----------------------------------------------------------------------------
(* Payments implement the broker *)

\* With payments hidden, a step of Verify is a step of the API call or none.
LEMMA PayStepIsStep == [PayNext]_payVars => [Next]_vars
BY DEF PayNext, payVars, BuildPayload, VerifyPayment, CallStep, CheckPayer, Next, Begin,
       vars

\* Verify (x402/gateway.go:95) drives the CDP only through SimulateAPICall:
\* whatever holds of the broker in every behaviour holds under payments.
THEOREM Implementation == PaySpec => ImplementsCB4A
<1>1. PayInit => Init
  BY DEF PayInit
<1> QED BY <1>1, PayStepIsStep, PTL DEF PaySpec, ImplementsCB4A, Spec

LEMMA BrokerInv == PaySpec => []IInv
BY Implementation, Invariance, PTL DEF ImplementsCB4A

-----------------------------------------------------------------------------
(* The inductive invariant *)

\* A goroutine in Verify works on the token and the proof it was given.
VerifyLocals ==
    \A c \in Callers :
        /\ stage[c] # "none" => /\ claims[c] \in tokens
                                /\ claims[c].task.scope = Price
                                /\ agentToken[c] \in AgentTokens
                                /\ proofId[c] \in Jtis
        /\ stage[c] = "call" => /\ pc[c] \in {"record", "authorized", "replayed"}
                                /\ proof[c].jti = proofId[c]
        /\ stage[c] = "payer" => pc[c] = "idle"

\* A proof that has paid, or is about to, has bought its one API call.
ProofSpent ==
    /\ \A i \in DOMAIN payments : served[payments[i].jti] # 0
    /\ \A c \in Callers : stage[c] = "payer" =>
          /\ served[proofId[c]] # 0
          /\ \A i \in DOMAIN payments : payments[i].jti # proofId[c]
    /\ \A c, d \in Callers :
          stage[c] = "payer" /\ stage[d] = "payer" /\ proofId[c] = proofId[d]
          => c = d

\* What was paid was priced, by its payer, and has its approval.
PaidBacked ==
    \A i \in DOMAIN payments :
        /\ payments[i].task.scope = Price
        /\ payments[i].sub = payments[i].task.svid
        /\ Backed(payments[i])

PayInv ==
    /\ VerifyTypeOK
    /\ VerifyLocals
    /\ ProofSpent
    /\ PaidBacked
    /\ ProofPaysOnce

-----------------------------------------------------------------------------
(* What the broker's steps preserve *)

LEMMA TokensAndServedGrow ==
    ASSUME TypeOK, [Next]_vars
    PROVE  /\ tokens \subseteq tokens'
           /\ \A j \in Jtis : served[j] # 0 => served'[j] # 0
<1>1. ASSUME NEW c \in Callers, ReturnCall(c)
      PROVE  \A j \in Jtis : served[j] # 0 => served'[j] # 0
  <2>1. served \in [Jtis -> Nat]
    BY DEF TypeOK
  <2> QED BY <1>1, <2>1 DEF ReturnCall
<1>2. tokens \subseteq tokens'
  BY DEF Next, Begin, Continue, Tick, GenerateDPoPProof, Evaluate, Approve,
     ApproveWithPasskey, Deny, Resolve, ParseDecision, ParseCall, Park,
     IssueDecision, IssueFails, ReturnDecision, ReturnDenial, SignToken,
     ReturnToken, RecordJTI, ReturnReplay, ReturnCall, held, vars
<1>3. UNCHANGED served \/ \E c \in Callers : ReturnCall(c)
  BY DEF Next, Begin, Continue, Tick, GenerateDPoPProof, Evaluate, Approve,
     ApproveWithPasskey, Deny, Resolve, ParseDecision, ParseCall, Park,
     IssueDecision, IssueFails, ReturnDecision, ReturnDenial, SignToken,
     ReturnToken, RecordJTI, ReturnReplay, held, vars
<1> QED BY <1>1, <1>2, <1>3

\* A step of one goroutine leaves the locals of the others alone.
LEMMA OthersUntouched ==
    ASSUME TypeOK, NEW c \in Callers, Begin(c) \/ Continue(c),
           NEW d \in Callers, d # c
    PROVE  pc'[d] = pc[d] /\ proof'[d] = proof[d]
<1>1. \E to : pc' = [pc EXCEPT ![c] = to]
  BY DEF Begin, Continue, Evaluate, Approve, ApproveWithPasskey, Deny, Resolve,
     ParseDecision, ParseCall, Park, IssueDecision, IssueFails, ReturnDecision,
     ReturnDenial, SignToken, ReturnToken, RecordJTI, ReturnReplay, ReturnCall,
     Return, Goto
<1>2. UNCHANGED proof \/ \E p : proof' = [proof EXCEPT ![c] = p]
  BY DEF Begin, Continue, Evaluate, Approve, ApproveWithPasskey, Deny, Resolve,
     ParseDecision, ParseCall, Park, IssueDecision, IssueFails, ReturnDecision,
     ReturnDenial, SignToken, ReturnToken, RecordJTI, ReturnReplay, ReturnCall,
     Return, shared, held, local
<1> QED BY <1>1, <1>2 DEF TypeOK

\* The API call inside Verify, by where it stands.
LEMMA CallSteps ==
    ASSUME TypeOK, NEW c \in Callers, Continue(c)
    PROVE  /\ pc[c] = "record" => /\ pc'[c] \in {"replayed", "authorized"}
                                  /\ proof'[c] = proof[c]
           /\ pc[c] = "authorized" => ReturnCall(c) /\ pc'[c] = "idle"
BY DEF TypeOK, Continue, Park, IssueDecision, IssueFails, ReturnDecision,
   ReturnDenial, SignToken, ReturnToken, RecordJTI, ReturnReplay, ReturnCall,
   Return, Goto

-----------------------------------------------------------------------------
(* The steps of a payment *)

\* PayNext, split by what it does to a payment.
PayQuiet == UNCHANGED <<pc, proof, payment>>
PayOther(c) == stage[c] = "none" /\ (Begin(c) \/ Continue(c)) /\ UNCHANGED payment

LEMMA PayMovers ==
    ASSUME [PayNext]_payVars
    PROVE  \/ PayQuiet
           \/ \E c \in Callers :
                 \/ PayOther(c)
                 \/ \E t \in tokens, p \in proofs, a \in AgentTokens :
                       VerifyPayment(c, t, p, a)
                 \/ CallStep(c)
                 \/ CheckPayer(c)
BY DEF PayNext, payVars, PayQuiet, PayOther, BuildPayload, Tick, GenerateDPoPProof,
       vars, local

LEMMA StepVerifyTypeOK ==
    TypeOK /\ VerifyTypeOK /\ VerifyLocals /\ [PayNext]_payVars => VerifyTypeOK'
<1> SUFFICES ASSUME TypeOK, VerifyTypeOK, VerifyLocals, [PayNext]_payVars
             PROVE  VerifyTypeOK'
  OBVIOUS
<1> USE DEF VerifyTypeOK
<1>n. None \notin Token
  BY NoneAssumption
<1>1. CASE UNCHANGED payment
  BY <1>1 DEF payment
<1>2. ASSUME NEW c \in Callers, NEW t \in tokens, NEW p \in proofs,
             NEW a \in AgentTokens, VerifyPayment(c, t, p, a)
      PROVE  VerifyTypeOK'
  <2>1. t \in Token /\ p.jti \in Jtis
    BY DEF TypeOK, Proof
  <2> QED BY <1>2, <1>n, <2>1 DEF VerifyPayment
<1>3. ASSUME NEW c \in Callers, CallStep(c) PROVE VerifyTypeOK'
  BY <1>3 DEF CallStep, EndVerify
<1>4. ASSUME NEW c \in Callers, CheckPayer(c) PROVE VerifyTypeOK'
  <2>1. /\ claims[c] \in Token /\ agentToken[c] \in AgentTokens /\ proofId[c] \in Jtis
    BY <1>4 DEF CheckPayer, VerifyLocals, TypeOK
  <2>2. [req |-> claims[c].req, task |-> claims[c].task,
         sub |-> agentToken[c].sub, jti |-> proofId[c]] \in Payment
    BY <2>1 DEF Token, Payment
  <2>3. payments' \in Seq(Payment)
    BY <1>4, <2>2 DEF CheckPayer
  <2> QED BY <1>4, <2>3 DEF CheckPayer, EndVerify
<1> QED BY <1>1, <1>2, <1>3, <1>4, PayMovers DEF PayQuiet, PayOther

LEMMA StepVerifyLocals ==
    TypeOK /\ VerifyTypeOK /\ VerifyLocals /\ [PayNext]_payVars => VerifyLocals'
<1> SUFFICES ASSUME TypeOK, VerifyTypeOK, VerifyLocals, [PayNext]_payVars
             PROVE  VerifyLocals'
  OBVIOUS
<1>g. tokens \subseteq tokens'
  BY PayStepIsStep, TokensAndServedGrow
<1>p. /\ pc \in [Callers -> Stages] /\ proof \in [Callers -> Proof \cup {None}]
      /\ stage \in [Callers -> {"none", "call", "payer"}]
      /\ claims \in [Callers -> Token \cup {None}]
      /\ agentToken \in [Callers -> AgentTokens \cup {None}]
      /\ proofId \in [Callers -> Jtis \cup {None}]
  BY DEF TypeOK, VerifyTypeOK
<1>1. CASE PayQuiet
  BY <1>1, <1>g DEF PayQuiet, payment, VerifyLocals
<1>2. ASSUME NEW c \in Callers, PayOther(c) PROVE VerifyLocals'
  BY <1>2, <1>g, OthersUntouched DEF PayOther, payment, VerifyLocals
<1>3. ASSUME NEW c \in Callers, NEW t \in tokens, NEW p \in proofs,
             NEW a \in AgentTokens, VerifyPayment(c, t, p, a)
      PROVE  VerifyLocals'
  <2>1. Begin(c) /\ t.task.scope = Price /\ p.jti \in Jtis
    BY <1>3 DEF VerifyPayment, Begin, checkScope, TypeOK, Proof
  <2>2. pc'[c] = "record" /\ proof'[c] = p
    BY <1>3, <1>p DEF VerifyPayment, ParseCall, Goto
  <2> QED
    BY <1>3, <1>g, <1>p, <2>1, <2>2, OthersUntouched DEF VerifyPayment, VerifyLocals
<1>4. ASSUME NEW c \in Callers, CallStep(c) PROVE VerifyLocals'
  <2>1. Continue(c) /\ stage[c] = "call"
    BY <1>4 DEF CallStep
  <2> QED
    BY <1>4, <1>g, <1>p, <2>1, CallSteps, OthersUntouched
    DEF CallStep, EndVerify, VerifyLocals
<1>5. ASSUME NEW c \in Callers, CheckPayer(c) PROVE VerifyLocals'
  BY <1>5, <1>p DEF CheckPayer, EndVerify, VerifyLocals, vars, local, held
<1> QED BY <1>1, <1>2, <1>3, <1>4, <1>5, PayMovers

\* The call that ends in a payment is the first that its proof has bought; the
\* result is appended for the goroutine that made it, which then leaves Verify.
LEMMA StepProofSpent ==
    IInv /\ VerifyTypeOK /\ VerifyLocals /\ ProofSpent /\ ProofPaysOnce
    /\ [PayNext]_payVars => ProofSpent' /\ ProofPaysOnce'
<1> SUFFICES ASSUME IInv, VerifyTypeOK, VerifyLocals, ProofSpent, ProofPaysOnce,
                    [PayNext]_payVars
             PROVE  ProofSpent' /\ ProofPaysOnce'
  OBVIOUS
<1>t. TypeOK
  BY DEF IInv
<1>g. \A j \in Jtis : served[j] # 0 => served'[j] # 0
  BY <1>t, PayStepIsStep, TokensAndServedGrow
<1>j. /\ \A i \in DOMAIN payments : payments[i].jti \in Jtis
      /\ \A c \in Callers : stage[c] # "none" => proofId[c] \in Jtis
  <2>1. \A i \in DOMAIN payments : payments[i] \in Payment
    BY DEF VerifyTypeOK
  <2>2. \A x \in Payment : x.jti \in Jtis
    BY DEF Payment
  <2> QED BY <2>1, <2>2 DEF VerifyLocals
<1>p. /\ stage \in [Callers -> {"none", "call", "payer"}]
      /\ proofId \in [Callers -> Jtis \cup {None}]
      /\ payments \in Seq(Payment)
  BY DEF VerifyTypeOK
<1>1. ASSUME UNCHANGED payments,
             \A c \in Callers : stage'[c] = "payer" =>
                 stage[c] = "payer" /\ proofId'[c] = proofId[c]
      PROVE  ProofSpent' /\ ProofPaysOnce'
  BY <1>1, <1>g, <1>j DEF ProofSpent, ProofPaysOnce
<1>2. ASSUME NEW c \in Callers, NEW t \in tokens, NEW p \in proofs,
             NEW a \in AgentTokens, VerifyPayment(c, t, p, a)
      PROVE  ProofSpent' /\ ProofPaysOnce'
  BY <1>1, <1>2, <1>p DEF VerifyPayment
<1>3. ASSUME NEW c \in Callers, CallStep(c) PROVE ProofSpent' /\ ProofPaysOnce'
  <2>1. CASE pc[c] # "authorized"
    BY <1>1, <1>3, <1>p, <2>1 DEF CallStep, EndVerify
  <2>2. CASE pc[c] = "authorized"
    <3>1. stage[c] = "call" /\ Continue(c)
      BY <1>3 DEF CallStep
    <3>2. ReturnCall(c)
      BY <1>t, <2>2, <3>1, CallSteps
    <3>3. proof[c].jti = proofId[c] /\ proofId[c] \in Jtis
      BY <1>j, <3>1 DEF VerifyLocals
    <3>4. served[proofId[c]] = 0
      BY <2>2, <3>3 DEF IInv, ServedInv
    <3>5. served'[proofId[c]] # 0
      BY <1>t, <3>2, <3>3, <3>4 DEF ReturnCall, TypeOK
    <3>6. /\ stage' = [stage EXCEPT ![c] = "payer"]
          /\ UNCHANGED <<proofId, payments>>
      BY <1>3, <2>2 DEF CallStep
    <3> QED BY <1>g, <1>j, <1>p, <3>4, <3>5, <3>6 DEF ProofSpent, ProofPaysOnce
  <2> QED BY <2>1, <2>2
<1>4. ASSUME NEW c \in Callers, CheckPayer(c) PROVE ProofSpent' /\ ProofPaysOnce'
  <2>1. /\ stage[c] = "payer" /\ UNCHANGED served
        /\ stage' = [stage EXCEPT ![c] = "none"]
        /\ proofId' = [proofId EXCEPT ![c] = None]
    BY <1>4 DEF CheckPayer, EndVerify, vars, held
  <2>2. CASE UNCHANGED payments
    BY <1>1, <1>p, <2>1, <2>2
  <2>3. CASE payments' # payments
    <3>1. PICK pay : pay.jti = proofId[c] /\ payments' = Append(payments, pay)
      BY <1>4, <2>3 DEF CheckPayer
    <3>2. /\ DOMAIN payments' = DOMAIN payments \cup {Len(payments) + 1}
          /\ \A i \in DOMAIN payments : payments'[i] = payments[i]
          /\ payments'[Len(payments) + 1] = pay
          /\ Len(payments) + 1 \notin DOMAIN payments
      BY <1>p, <3>1
    <3> QED BY <1>p, <2>1, <3>1, <3>2 DEF ProofSpent, ProofPaysOnce
  <2> QED BY <2>2, <2>3
<1> QED
  BY <1>1, <1>2, <1>3, <1>4, PayMovers DEF PayQuiet, PayOther, payment

LEMMA StepPaidBacked ==
    IInv /\ VerifyTypeOK /\ VerifyLocals /\ PaidBacked /\ [PayNext]_payVars
    => PaidBacked'
<1> SUFFICES ASSUME IInv, VerifyTypeOK, VerifyLocals, PaidBacked, [PayNext]_payVars
             PROVE  PaidBacked'
  OBVIOUS
<1>b. \A x : Backed(x) => Backed(x)'
  BY PayStepIsStep, BackedStable DEF IInv, VerdictInv
<1>1. CASE UNCHANGED payments
  BY <1>1, <1>b DEF PaidBacked
<1>2. ASSUME NEW c \in Callers, CheckPayer(c), payments' # payments
      PROVE  PaidBacked'
  <2>1. PICK pay : /\ pay = [req |-> claims[c].req, task |-> claims[c].task,
                             sub |-> agentToken[c].sub, jti |-> proofId[c]]
                   /\ payments' = Append(payments, pay)
                   /\ agentToken[c].sub = claims[c].task.svid
    BY <1>2 DEF CheckPayer, PayerMatches
  <2>2. claims[c] \in tokens /\ claims[c].task.scope = Price
    BY <1>2 DEF CheckPayer, VerifyLocals
  <2>3. Backed(pay)
    BY <2>1, <2>2 DEF IInv, BackedInv, Backed
  <2>4. /\ DOMAIN payments' = DOMAIN payments \cup {Len(payments) + 1}
        /\ \A i \in DOMAIN payments : payments'[i] = payments[i]
        /\ payments'[Len(payments) + 1] = pay
    BY <2>1 DEF VerifyTypeOK
  <2> QED BY <1>b, <2>1, <2>2, <2>3, <2>4 DEF PaidBacked
<1>3. ASSUME NEW c \in Callers,
             PayOther(c) \/ CallStep(c)
             \/ \E t \in tokens, p \in proofs, a \in AgentTokens : VerifyPayment(c, t, p, a)
      PROVE  UNCHANGED payments
  BY <1>3 DEF PayOther, CallStep, VerifyPayment, payment
<1> QED BY <1>1, <1>2, <1>3, PayMovers DEF PayQuiet, payment

-----------------------------------------------------------------------------
(* What is paid is logged *)

Call(r) == [event |-> "api_call", req |-> r]

\* f says which entry of the log speaks of the one call that a proof has bought.
Entries(f) ==
    /\ \A j \in Jtis : f[j] # 0 => f[j] \in DOMAIN audit
    /\ \A j, k \in Jtis : f[j] = f[k] /\ f[j] # 0 => j = k
    /\ \A i \in DOMAIN payments : /\ f[payments[i].jti] # 0
                                  /\ audit[f[payments[i].jti]] = Call(payments[i].req)
    /\ \A c \in Callers : stage[c] = "payer" =>
          f[proofId[c]] # 0 /\ audit[f[proofId[c]]] = Call(claims[c].req)

\* Verify calls the API with the token it parsed first.
CallsClaimed == \A c \in Callers : stage[c] = "call" => token[c] = claims[c]

PaidLogged == CallsClaimed /\ \E f \in [Jtis -> Nat] : Entries(f)

\* The log only grows.
LEMMA LogGrows ==
    ASSUME TypeOK, [Next]_vars
    PROVE  /\ DOMAIN audit \subseteq DOMAIN audit'
           /\ \A i \in DOMAIN audit : audit'[i] = audit[i]
<1>1. \/ UNCHANGED audit
      \/ \E x : audit' = Append(audit, x)
  BY DEF Next, Begin, Continue, Tick, GenerateDPoPProof, Evaluate, Approve,
     ApproveWithPasskey, Deny, Resolve, ParseDecision, ParseCall, Park,
     IssueDecision, IssueFails, ReturnDecision, ReturnDenial, SignToken,
     ReturnToken, RecordJTI, ReturnReplay, ReturnCall, LogEntry, shared, vars
<1>2. audit \in Seq([event : Events, req : ReqIds])
  BY DEF TypeOK
<1> QED BY <1>1, <1>2

\* A step of one goroutine leaves the token that another holds alone.
LEMMA OtherTokens ==
    ASSUME TypeOK, NEW c \in Callers, Begin(c) \/ Continue(c),
           NEW d \in Callers, d # c
    PROVE  token'[d] = token[d]
<1>1. UNCHANGED token \/ \E t : token' = [token EXCEPT ![c] = t]
  BY DEF Begin, Continue, Evaluate, Approve, ApproveWithPasskey, Deny, Resolve,
     ParseDecision, ParseCall, Park, IssueDecision, IssueFails, ReturnDecision,
     ReturnDenial, SignToken, ReturnToken, RecordJTI, ReturnReplay, ReturnCall,
     Return, shared, held, local
<1> QED BY <1>1 DEF TypeOK

LEMMA StepCallsClaimed ==
    TypeOK /\ VerifyTypeOK /\ VerifyLocals /\ CallsClaimed /\ [PayNext]_payVars
    => CallsClaimed'
<1> SUFFICES ASSUME TypeOK, VerifyTypeOK, VerifyLocals, CallsClaimed, [PayNext]_payVars
             PROVE  CallsClaimed'
  OBVIOUS
<1>p. /\ token \in [Callers -> Token \cup {None}]
      /\ stage \in [Callers -> {"none", "call", "payer"}]
      /\ claims \in [Callers -> Token \cup {None}]
  BY DEF TypeOK, VerifyTypeOK
<1>1. CASE UNCHANGED <<token, payment>>
  BY <1>1 DEF payment, CallsClaimed
<1>2. ASSUME NEW c \in Callers, PayOther(c) PROVE CallsClaimed'
  BY <1>2, OtherTokens DEF PayOther, payment, CallsClaimed
<1>3. ASSUME NEW c \in Callers, NEW t \in tokens, NEW p \in proofs,
             NEW a \in AgentTokens, VerifyPayment(c, t, p, a)
      PROVE  CallsClaimed'
  BY <1>3, <1>p DEF VerifyPayment, ParseCall, CallsClaimed
<1>4. ASSUME NEW c \in Callers, CallStep(c) PROVE CallsClaimed'
  <2>1. \A d \in Callers \ {c} :
           token'[d] = token[d] /\ stage'[d] = stage[d] /\ claims'[d] = claims[d]
    BY <1>4, <1>p, OtherTokens DEF CallStep, EndVerify
  <2>2. CASE pc[c] # "record"
    <3>1. stage'[c] # "call"
      BY <1>4, <1>p, <2>2 DEF CallStep, EndVerify
    <3> QED BY <2>1, <3>1 DEF CallsClaimed
  <2>3. CASE pc[c] = "record"
    <3>1. RecordJTI(c)
      BY <1>4, <2>3 DEF CallStep, Continue, Park, IssueDecision, IssueFails,
         ReturnDecision, ReturnDenial, SignToken, ReturnToken, ReturnReplay,
         ReturnCall, Return, Goto
    <3>2. UNCHANGED <<token, stage, claims>>
      BY <1>4, <2>3, <3>1 DEF CallStep, RecordJTI
    <3> QED BY <3>2 DEF CallsClaimed
  <2> QED BY <2>2, <2>3
<1>5. ASSUME NEW c \in Callers, CheckPayer(c) PROVE CallsClaimed'
  BY <1>5, <1>p DEF CheckPayer, EndVerify, vars, local, CallsClaimed
<1>6. \/ UNCHANGED <<token, payment>>
      \/ \E c \in Callers :
            \/ PayOther(c)
            \/ \E t \in tokens, p \in proofs, a \in AgentTokens : VerifyPayment(c, t, p, a)
            \/ CallStep(c)
            \/ CheckPayer(c)
  BY DEF PayNext, payVars, PayOther, BuildPayload, Tick, GenerateDPoPProof, vars, local
<1> QED BY <1>1, <1>2, <1>3, <1>4, <1>5, <1>6

LEMMA StepEntries ==
    IInv /\ PayInv /\ PaidLogged /\ [PayNext]_payVars
    => \E f \in [Jtis -> Nat] : Entries(f)'
<1> SUFFICES ASSUME IInv, PayInv, PaidLogged, [PayNext]_payVars
             PROVE  \E f \in [Jtis -> Nat] : Entries(f)'
  OBVIOUS
<1>t. TypeOK /\ VerifyTypeOK /\ VerifyLocals /\ ProofSpent
  BY DEF IInv, PayInv
<1>g. /\ DOMAIN audit \subseteq DOMAIN audit'
      /\ \A i \in DOMAIN audit : audit'[i] = audit[i]
  BY <1>t, PayStepIsStep, LogGrows
<1>p. /\ stage \in [Callers -> {"none", "call", "payer"}]
      /\ claims \in [Callers -> Token \cup {None}]
      /\ proofId \in [Callers -> Jtis \cup {None}]
      /\ payments \in Seq(Payment)
  BY <1>t DEF VerifyTypeOK
<1>j. /\ \A i \in DOMAIN payments : payments[i].jti \in Jtis
      /\ \A c \in Callers : stage[c] = "payer" => proofId[c] \in Jtis
  <2>1. \A i \in DOMAIN payments : payments[i] \in Payment
    BY <1>p
  <2>2. \A x \in Payment : x.jti \in Jtis
    BY DEF Payment
  <2> QED BY <1>t, <2>1, <2>2 DEF VerifyLocals
<1>f. PICK f \in [Jtis -> Nat] : Entries(f)
  BY DEF PaidLogged
<1>1. ASSUME UNCHANGED payments,
             \A c \in Callers : stage'[c] = "payer" =>
                 stage[c] = "payer" /\ proofId'[c] = proofId[c] /\ claims'[c] = claims[c]
      PROVE  Entries(f)'
  BY <1>1, <1>f, <1>g, <1>j DEF Entries
<1>2. ASSUME NEW c \in Callers, CallStep(c), pc[c] = "authorized"
      PROVE  \E g \in [Jtis -> Nat] : Entries(g)'
  <2>1. stage[c] = "call" /\ Continue(c)
    BY <1>2 DEF CallStep
  <2>2. ReturnCall(c)
    BY <1>t, <1>2, <2>1, CallSteps
  <2>3. proof[c].jti = proofId[c] /\ proofId[c] \in Jtis /\ token[c] = claims[c]
    BY <1>t, <2>1 DEF VerifyLocals, PaidLogged, CallsClaimed
  <2>4. served[proofId[c]] = 0
    BY <1>2, <2>3 DEF IInv, ServedInv
  <2>5. /\ audit \in Seq([event : Events, req : ReqIds])
        /\ audit' = Append(audit, Call(claims[c].req))
    BY <1>t, <2>2, <2>3 DEF ReturnCall, LogEntry, Call, TypeOK
  <2>6. /\ stage' = [stage EXCEPT ![c] = "payer"]
        /\ UNCHANGED <<claims, proofId, payments>>
    BY <1>2 DEF CallStep
  <2> DEFINE n == Len(audit) + 1
  <2>7. /\ n \in Nat /\ n # 0 /\ n \notin DOMAIN audit /\ n \in DOMAIN audit'
        /\ audit'[n] = Call(claims[c].req)
    BY <2>5
  <2> HIDE DEF n
  <2>8. PICK g \in [Jtis -> Nat] : /\ g[proofId[c]] = n
                                  /\ \A k \in Jtis : k # proofId[c] => g[k] = f[k]
    <3>1. [f EXCEPT ![proofId[c]] = n] \in [Jtis -> Nat]
      BY <2>7
    <3> QED BY <3>1, <2>3
  <2>9. /\ \A i \in DOMAIN payments : payments[i].jti # proofId[c]
        /\ \A d \in Callers : stage[d] = "payer" => proofId[d] # proofId[c]
    BY <1>t, <2>4 DEF ProofSpent
  <2>10. /\ \A k \in Jtis : g[k] # 0 => g[k] \in DOMAIN audit'
         /\ \A k, l \in Jtis : g[k] = g[l] /\ g[k] # 0 => k = l
    BY <1>f, <1>g, <2>3, <2>7, <2>8 DEF Entries
  <2>11. \A i \in DOMAIN payments' :
            g[payments'[i].jti] # 0 /\ audit'[g[payments'[i].jti]] = Call(payments'[i].req)
    BY <1>f, <1>g, <1>j, <2>6, <2>8, <2>9 DEF Entries
  <2>12. \A d \in Callers : stage'[d] = "payer" =>
            g[proofId'[d]] # 0 /\ audit'[g[proofId'[d]]] = Call(claims'[d].req)
    BY <1>f, <1>g, <1>j, <1>p, <2>6, <2>7, <2>8, <2>9 DEF Entries
  <2> QED BY <2>10, <2>11, <2>12 DEF Entries, Call
<1>3. ASSUME NEW c \in Callers, CheckPayer(c) PROVE Entries(f)'
  <2>1. /\ stage[c] = "payer" /\ stage' = [stage EXCEPT ![c] = "none"]
        /\ proofId' = [proofId EXCEPT ![c] = None]
        /\ claims' = [claims EXCEPT ![c] = None]
    BY <1>3 DEF CheckPayer, EndVerify
  <2>2. CASE UNCHANGED payments
    BY <1>1, <1>p, <2>1, <2>2
  <2>3. CASE payments' # payments
    <3>1. PICK pay : /\ pay.jti = proofId[c] /\ pay.req = claims[c].req
                     /\ payments' = Append(payments, pay)
      BY <1>3, <2>3 DEF CheckPayer
    <3>2. /\ DOMAIN payments' = DOMAIN payments \cup {Len(payments) + 1}
          /\ \A i \in DOMAIN payments : payments'[i] = payments[i]
          /\ payments'[Len(payments) + 1] = pay
      BY <1>p, <3>1
    <3> QED BY <1>f, <1>g, <1>j, <1>p, <2>1, <3>1, <3>2 DEF Entries
  <2> QED BY <2>2, <2>3
<1>4. ASSUME NEW c \in Callers, NEW t \in tokens, NEW p \in proofs,
             NEW a \in AgentTokens, VerifyPayment(c, t, p, a)
      PROVE  Entries(f)'
  BY <1>1, <1>4, <1>p DEF VerifyPayment
<1>5. ASSUME NEW c \in Callers, CallStep(c), pc[c] # "authorized" PROVE Entries(f)'
  BY <1>1, <1>5, <1>p DEF CallStep, EndVerify
<1>6. ASSUME UNCHANGED payment PROVE Entries(f)'
  BY <1>1, <1>6 DEF payment
<1> QED
  BY <1>2, <1>3, <1>4, <1>5, <1>6, PayMovers DEF PayQuiet, PayOther

-----------------------------------------------------------------------------
(* The theorems *)

LEMMA PayInvariance == PaySpec => [](IInv /\ PayInv)
<1>1. PayInit => PayInv
  BY PaymentAssumption
  DEF PayInit, Init, PayInv, VerifyTypeOK, VerifyLocals, ProofSpent, PaidBacked,
      ProofPaysOnce
<1>2. IInv /\ PayInv /\ [PayNext]_payVars => PayInv'
  BY StepVerifyTypeOK, StepVerifyLocals, StepProofSpent, StepPaidBacked
  DEF PayInv, IInv
<1> QED BY <1>1, <1>2, BrokerInv, PTL DEF PaySpec

LEMMA LoggedInvariance == PaySpec => []PaidLogged
<1>1. PayInit => PaidLogged
  <2>1. ASSUME PayInit PROVE CallsClaimed /\ Entries([j \in Jtis |-> 0])
    BY <2>1 DEF PayInit, Init, CallsClaimed, Entries
  <2> QED BY <2>1 DEF PaidLogged
<1>2. IInv /\ PayInv /\ PaidLogged /\ [PayNext]_payVars => PaidLogged'
  BY StepCallsClaimed, StepEntries DEF PaidLogged, PayInv, IInv
<1> QED BY <1>1, <1>2, PayInvariance, PTL DEF PaySpec

\* Under payments too Broker has no step for a second verdict on a request or a
\* second call on a proof (gateway.go:66-115).
THEOREM PromiseUnderPayments == PaySpec => ImplementsBroker
BY Implementation, KeepsPromise DEF ImplementsCB4A

\* Broker and Verify keep their types: a goroutine in Verify (gateway.go:66)
\* always has the claims it parsed first.
THEOREM PaymentTypeCorrect == PaySpec => []PaymentTypeOK
<1>1. IInv /\ PayInv => PaymentTypeOK
  BY DEF IInv, PayInv, PaymentTypeOK
<1> QED BY <1>1, PayInvariance, PTL

\* Verify returns one payment per DPoP proof (gateway.go:95, cdp.go:347).
THEOREM OnePaymentPerProof == PaySpec => []ProofPaysOnce
<1>1. PayInv => ProofPaysOnce
  BY DEF PayInv
<1> QED BY <1>1, PayInvariance, PTL

\* What Verify returns was authorized for this payer and price, by a human
\* where the tier asks for one (gateway.go:90, 100-107).
THEOREM AuthorizedPayments == PaySpec => []PaymentIsAuthorized
<1>1. PayInv => PaymentIsAuthorized
  <2> SUFFICES ASSUME PayInv, NEW i \in DOMAIN payments,
                      Tier[payments[i].task] # TierAuto
               PROVE  /\ payments[i].req \in DOMAIN pending
                      /\ pending[payments[i].req].state = "approved"
    BY DEF PayInv, PaidBacked, PaymentIsAuthorized
  <2>1. /\ payments[i].req \in DOMAIN pending
        /\ pending[payments[i].req]
           = [task |-> payments[i].task, state |-> "approved"]
    BY DEF PayInv, PaidBacked, Backed
  <2> QED BY <2>1
<1> QED BY <1>1, PayInvariance, PTL

\* Verify returns a payment only for an API call that the CDP logged, one call
\* for each payment (gateway.go:95, cdp.go:365).
THEOREM LoggedPayments == PaySpec => []PaymentsAreLogged
<1>1. TypeOK /\ PayInv /\ PaidLogged => PaymentsAreLogged
  <2> SUFFICES ASSUME TypeOK, PayInv, PaidLogged, NEW r \in ReqIds
               PROVE  Cardinality({i \in DOMAIN payments : payments[i].req = r})
                      <= Cardinality({i \in DOMAIN audit : audit[i] = Call(r)})
    BY DEF PaymentsAreLogged, Call
  <2>1. PICK f \in [Jtis -> Nat] : Entries(f)
    BY DEF PaidLogged
  <2> DEFINE P == {i \in DOMAIN payments : payments[i].req = r}
             A == {i \in DOMAIN audit : audit[i] = Call(r)}
             g == [i \in P |-> f[payments[i].jti]]
  <2>2. /\ payments \in Seq(Payment) /\ audit \in Seq([event : Events, req : ReqIds])
        /\ \A x \in Payment : x.jti \in Jtis
    BY DEF PayInv, VerifyTypeOK, TypeOK, Payment
  <2>3. \A i \in P : payments[i].jti \in Jtis
    BY <2>2
  <2>4. \A i \in P : g[i] \in A
    BY <2>1, <2>3 DEF Entries
  <2>5. \A i, k \in P : g[i] = g[k] => i = k
    BY <2>1, <2>3 DEF Entries, PayInv, ProofPaysOnce
  <2>6. g \in Injection(P, A)
    BY <2>4, <2>5 DEF Injection, IsInjective
  <2>7. IsFiniteSet(A)
    <3>1. A \in SUBSET (1..Len(audit)) /\ Len(audit) \in Nat
      BY <2>2
    <3> QED BY <3>1, FS_Interval, FS_Subset
  <2> HIDE DEF P, A, g
  <2>8. Cardinality(P) <= Cardinality(A)
    BY <2>6, <2>7, FS_Injection
  <2> QED BY <2>8 DEF P, A
<1>2. IInv => TypeOK
  BY DEF IInv
<1> QED BY <1>1, <1>2, PayInvariance, LoggedInvariance, PTL
=============================================================================
