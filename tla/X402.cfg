\* The broker with payments.
CONSTANTS
    Callers = {c1, c2}
    ReqIds = {r1, r2}
    TokenIds = {k1, k2}
    Jtis = {j1}
    Tasks <- MCTasks
    Rules <- DefaultPolicyRules
    Vaulted <- MCTasks
    Price <- MCPrice
    AgentTokens <- MCAgentTokens
    DecisionTTL = 1
    TokenTTL = 2
    ProofTTL = 1
    SigningMayFail = TRUE
    MaxTime = 2
    MaxAudit = 6
    None = None
SPECIFICATION PaySpec
SYMMETRY Symm
INVARIANTS
    PaymentTypeOK
    OneOutcome
    ElevatedNeedsHuman
    AuditTellsTheStory
    ProofServedOnce
    SpentIsServed
    PaymentIsAuthorized
    ProofPaysOnce
    PaymentsAreLogged
PROPERTY
    ImplementsCB4A
    ImplementsBroker
CHECK_DEADLOCK FALSE
