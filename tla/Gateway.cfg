\* Every gate, mTLS on, an authorization service that may fail, racing requests and revocations.
SPECIFICATION Spec
CONSTANTS
    Requests = {r1, r2}
    Pushes = {p1, p2}
    Traffic <- MCTraffic
    SETs <- RevokingSETs
    Static = {IdP}
    Federated = {OrgB}
    MTLS = TRUE
    Direct = {files}
    DirectIssuer = IdP
    DirectAction = "can_read"
    External = TRUE
    Grants <- NoGrants
    AnySubject = AnySubject
    NoSubject = NoSubject
    NoJti = NoJti
    Missing = Missing
    Objects <- MCObjects
    MaxTime = 2
    IdP = IdP
    OrgB = OrgB
    orch = orch
    weather = weather
    orgbAgent = orgbAgent
    k1 = k1
    k2 = k2
    kb = kb
    tool = tool
    files = files
    call = call
    half = half
    rest = rest
    j1 = j1
    j2 = j2
    j3 = j3
    j4 = j4
    j5 = j5
    s1 = s1
    s2 = s2
    s3 = s3
SYMMETRY Symm
INVARIANTS
    TypeOK
    AckedRevocationHolds
    ForwardedIsVouched
    ProofBuysOneDecision
    ParamsAreWhatIsSent
PROPERTY ImplementsReplayWindow
CHECK_DEADLOCK FALSE
