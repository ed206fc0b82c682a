CONSTANTS
    Callers = {c1, c2}
    ReqIds = {r1}
    TokenIds = {k1}
    Jtis = {j1}
    Tasks <- AdminTasks
    Rules <- DefaultPolicyRules
    Vaulted = {}
    DecisionTTL = 1
    TokenTTL = 2
    ProofTTL = 1
    SigningMayFail = FALSE
    MaxTime = 1
    MaxAudit = 4
    None = None
SPECIFICATION Spec
CHECK_DEADLOCK FALSE
INVARIANT MfaNeedsPasskey
