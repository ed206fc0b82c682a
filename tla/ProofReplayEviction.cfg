\* The argument of store.go:32-34 against calls that expiry overtakes.
SPECIFICATION Spec
CONSTANTS
    Calls = {c1, c2}
    ReplayChecked = {c1, c2}
    Jtis = {j1}
    NoJti = NoJti
    Bindings = {b1}
    TTLs <- MCTTLs
    MaxTime = 2
    None = None
INVARIANT
    EvictionReopensNothing
CHECK_DEADLOCK FALSE
