---------------------------- MODULE ReplayWindow ----------------------------
(***************************************************************************)
(* What proof-of-possession replay detection promises, without goroutines, *)
(* locks or a map: every call that carries a single-use identifier is      *)
(* decided in one atomic step against a register of spent identifiers.     *)
(*   - it is admitted only if its identifier is not spent, and that spends *)
(*     the identifier;                                                     *)
(*   - it is refused as a replay only if its identifier is spent;          *)
(*   - an identifier may be forgotten only once its window has closed.     *)
(* ProofReplay implements this module, and Gateway does with its requests. *)
(***************************************************************************)
EXTENDS Integers

CONSTANTS
    Calls,      \* the calls to decide
    Jtis        \* the single-use identifiers

VARIABLES
    time,       \* the wall clock
    window,     \* window[j]: the time j's window closes, for the j handed out
    spent,      \* the identifiers remembered as spent
    verdict     \* verdict[c]: "open" until call c is decided

vars == <<time, window, spent, verdict>>

Init ==
    /\ time = 0
    /\ window = [j \in {} |-> 0]
    /\ spent = {}
    /\ verdict = [c \in Calls |-> "open"]

Tick ==
    /\ time' = time + 1
    /\ UNCHANGED <<window, spent, verdict>>

\* A new identifier is handed out, its window closing at any time.
Hand(j) ==
    /\ j \notin DOMAIN window
    /\ DOMAIN window' = DOMAIN window \cup {j}
    /\ \A k \in DOMAIN window : window'[k] = window[k]
    /\ UNCHANGED <<time, spent, verdict>>

\* The identifiers whose window has closed: the only ones that may lapse.
Closed == {j \in spent : j \in DOMAIN window /\ window[j] < time}

\* Call c is admitted with identifier j, some closed identifiers lapsing.
Admit(c, j, lapsed) ==
    /\ verdict[c] = "open"
    /\ j \in DOMAIN window
    /\ j \notin spent \ lapsed
    /\ spent' = (spent \ lapsed) \cup {j}
    /\ verdict' = [verdict EXCEPT ![c] = "admitted"]
    /\ UNCHANGED <<time, window>>

\* Call c is refused because its identifier j is spent.
Replayed(c, j, lapsed) ==
    /\ verdict[c] = "open"
    /\ j \in spent \ lapsed
    /\ spent' = spent \ lapsed
    /\ verdict' = [verdict EXCEPT ![c] = "replayed"]
    /\ UNCHANGED <<time, window>>

\* Call c is settled without reference to the register.
Settle(c, v) ==
    /\ verdict[c] = "open"
    /\ v \in {"refused", "stateless"}
    /\ verdict' = [verdict EXCEPT ![c] = v]
    /\ UNCHANGED <<time, window, spent>>

Next ==
    \/ Tick
    \/ \E j \in Jtis : Hand(j)
    \/ \E c \in Calls, j \in Jtis, lapsed \in SUBSET Closed :
          Admit(c, j, lapsed) \/ Replayed(c, j, lapsed)
    \/ \E c \in Calls, v \in {"refused", "stateless"} : Settle(c, v)

Spec == Init /\ [][Next]_vars
=============================================================================
