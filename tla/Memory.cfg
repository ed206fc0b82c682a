\* Two goroutines over the list of one agent, three entries, two identifiers.
CONSTANTS
    Callers = {c1, c2}
    Agents = {a1}
    Ids = {i1, i2}
    Serials = {n1, n2, n3}
    MaxAlarms = 1
    None = None
SPECIFICATION Spec
SYMMETRY Symm
INVARIANTS
    TypeOK
    ReadReturnsStored
    ReadIsIntact
    AuditAddsUp
PROPERTY
    ImplementsEntryList
CHECK_DEADLOCK FALSE
