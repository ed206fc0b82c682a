\* The in-memory authorizer and its operator; retried SET deliveries racing the first.
SPECIFICATION FairSpec
CONSTANTS
    Requests = {r1}
    Pushes = {p1, p2}
    Traffic <- OperatorTraffic
    SETs <- MCSETs
    Static = {IdP}
    Federated = {OrgB}
    MTLS = FALSE
    Direct = {files}
    DirectIssuer = IdP
    DirectAction = "can_read"
    External = FALSE
    Grants <- MCGrants
    AnySubject = AnySubject
    NoSubject = NoSubject
    NoJti = NoJti
    Missing = Missing
    Objects <- MCObjects
    MaxTime = 0
    IdP = IdP
    OrgB = OrgB
    orch = orch
    weather = weather
    orgbAgent = orgbAgent
    k1 = k1
    k2 = k2
    kb = kb
    tool = tool
    files = files
    call = call
    half = half
    rest = rest
    j1 = j1
    j2 = j2
    j3 = j3
    j4 = j4
    j5 = j5
    s1 = s1
    s2 = s2
    s3 = s3
INVARIANT
    ForwardedIsVouched
PROPERTY
    DuplicateEventuallyApplied
CHECK_DEADLOCK FALSE
