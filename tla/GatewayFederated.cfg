\* The chain of an agent of a federated issuer.
SPECIFICATION Spec
CONSTANTS
    Requests = {r1}
    Pushes = {}
    Traffic <- OrgTraffic
    SETs <- NoSETs
    Static = {IdP}
    Federated = {OrgB}
    MTLS = FALSE
    Direct = {files}
    DirectIssuer = IdP
    DirectAction = "can_read"
    External = FALSE
    Grants <- OneGrant
    AnySubject = AnySubject
    NoSubject = NoSubject
    NoJti = NoJti
    Missing = Missing
    Objects <- MCObjects
    MaxTime = 1
    IdP = IdP
    OrgB = OrgB
    orch = orch
    weather = weather
    orgbAgent = orgbAgent
    k1 = k1
    k2 = k2
    kb = kb
    tool = tool
    files = files
    call = call
    half = half
    rest = rest
    j1 = j1
    j2 = j2
    j3 = j3
    j4 = j4
    j5 = j5
    s1 = s1
    s2 = s2
    s3 = s3
INVARIANT
    ResolvableChainsPass
CHECK_DEADLOCK FALSE
