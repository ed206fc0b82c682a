\* One authority for every role, four tokens and an exchange at a time.
CONSTANTS
    alice = alice
    bob = bob
    planner = planner
    helper = helper
    domain = domain
    read = read
    write = write
    Users = {alice, bob}
    Agents = {planner, helper}
    Emails = {e1}
    Salts = {s1, s2}
    Scopes = {read, write}
    Consents <- MCConsents
    Requests <- MCRequests
    Parties = {AS, api}
    AS = AS
    Signer <- OneAuthority
    UserTTL = 1
    AgentTTL = 1
    ExchangeTTL = 1
    AccessTTL = 2
    Callers = {c1}
    MaxTime = 1
    MaxTokens = 4
    None = None
SPECIFICATION Spec
SYMMETRY Symm
INVARIANTS
    TypeOK
    DelegationIsGenuine
    EmailOnlyByChoice
    GrantIsGenuine
CHECK_DEADLOCK FALSE
