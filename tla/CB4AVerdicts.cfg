CONSTANTS
    Callers = {c1, c2, c3}
    ReqIds = {r1, r2}
    TokenIds = {k1}
    Jtis = {j1}
    Tasks <- WriteTasks
    Rules <- DefaultPolicyRules
    Vaulted <- WriteTasks
    DecisionTTL = 1
    TokenTTL = 2
    ProofTTL = 1
    SigningMayFail = TRUE
    MaxTime = 1
    MaxAudit = 4
    None = None
SPECIFICATION FairSpec
CHECK_DEADLOCK FALSE
INVARIANT RulesAreStrict
PROPERTY VerdictIsRecorded
