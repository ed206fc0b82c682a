\* Two Resolve calls during a key rotation, with either resolver.
CONSTANTS
    idp = idp
    other = other
    anchor = anchor
    second = second
    rogue = rogue
    oldKey = oldKey
    newKey = newKey
    Subjects = {idp, other}
    Entities = {idp}
    Anchors = {anchor, second, rogue}
    Trusted = {anchor, second}
    Keys = {oldKey, newKey}
    ECs <- MCECs
    SSs <- MCSSs
    None = None
    Callers = {c1, c2}
    MaxTime = 2
SPECIFICATION Spec
SYMMETRY Symm
INVARIANTS
    TypeOK
    AnswersAreChained
    AnswersAreLive
    CacheIsCurrent
    RefusedForCause
PROPERTY
    ImplementsResolver
