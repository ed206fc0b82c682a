\* Two racing calls that check replays and one that does not, against ReplayWindow.
SPECIFICATION Spec
CONSTANTS
    Calls = {c1, c2, c3}
    ReplayChecked = {c1, c2}
    Jtis = {j1, j2}
    NoJti = NoJti
    Bindings = {b1, b2}
    TTLs <- MCTTLs
    MaxTime = 2
    None = None
SYMMETRY Symm
INVARIANTS
    TypeOK
    AtMostOnceWhileLive
    AcceptanceSpends
PROPERTY
    ImplementsReplayWindow
CHECK_DEADLOCK FALSE
