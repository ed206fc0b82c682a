\* A Read that a Delete overtakes.
CONSTANTS
    Callers = {c1, c2}
    Agents = {a1}
    Ids = {i1, i2}
    Serials = {n1, n2, n3}
    MaxAlarms = 1
    None = None
SPECIFICATION Spec
SYMMETRY Symm
INVARIANT
    ReadReturnsAll
CHECK_DEADLOCK FALSE
