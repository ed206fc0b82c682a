----------------------------- MODULE ProofReplay -----------------------------
(***************************************************************************)
(* Single use of AgentProofTokens: ProofValidator.Validate                 *)
(* (pkg/identity/proof.go) running in many goroutines over one             *)
(* InMemoryJTIStore (pkg/identity/store.go).                               *)
(*                                                                         *)
(* A Validate call reads the clock twice: once in the JWT parser, which    *)
(* rejects an expired proof, and once at the start of Record, before the   *)
(* store's mutex is taken.  Between the two reads, and between the second  *)
(* and the locked region, every other goroutine may run and time may pass. *)
(* The locked region (sweep, look up, insert) is one step.                 *)
(*                                                                         *)
(* What a proof is signed over besides its identifier and its times (the   *)
(* request URI, the chain hash, the Transaction Token hash, the workload   *)
(* key and the typ header) is one element of Bindings; a call presents the *)
(* binding of the request it came with.                                    *)
(***************************************************************************)
EXTENDS Integers, FiniteSets

CONSTANTS
    Calls,          \* Validate calls, one goroutine each
    ReplayChecked,  \* the calls made with CheckReplay set
    Jtis,           \* token identifiers (generateJTI never repeats one)
    NoJti,          \* the empty jti of a proof signed by other software
    Bindings,       \* what a proof is signed over and a request presents
    TTLs,           \* lifetimes given to GenerateProof; negative = born expired
    MaxTime,        \* bound: the clock stops here
    None            \* no proof

ASSUME CallsAssumption == ReplayChecked \subseteq Calls
ASSUME JtiAssumption == NoJti \notin Jtis
ASSUME TimeAssumption == TTLs \subseteq Int /\ MaxTime \in Nat

Time == 0..MaxTime

Proof == [jti : Jtis \cup {NoJti}, iat : Int, exp : Int, binding : Bindings]

ASSUME NoneAssumption == None \notin Proof

VARIABLES
    clock,      \* time.Now()
    issued,     \* every proof signed so far: what a caller may present
    seen,       \* InMemoryJTIStore.seen: jti -> expiry
    pc,         \* where each Validate call stands
    proof,      \* opts.ProofToken of each call
    now,        \* the time read at the start of Record
    storedAt    \* history: when the call's jti was recorded

vars == <<clock, issued, seen, pc, proof, now, storedAt>>
callVars == <<pc, proof, now, storedAt>>

Locations == {"idle", "parse", "record", "locked",
              "accepted", "stateless", "rejected", "replayed"}

TypeOK ==
    /\ clock \in Time
    /\ issued \subseteq Proof
    /\ DOMAIN seen \subseteq Jtis
    /\ \A j \in DOMAIN seen : seen[j] \in Int
    /\ pc \in [Calls -> Locations]
    /\ proof \in [Calls -> Proof \cup {None}]
    /\ now \in [Calls -> Time]
    /\ storedAt \in [Calls -> Time]

Init ==
    /\ clock = 0
    /\ issued = {}
    /\ seen = [j \in {} |-> 0]
    /\ pc = [c \in Calls |-> "idle"]
    /\ proof = [c \in Calls |-> None]
    /\ now = [c \in Calls |-> 0]
    /\ storedAt = [c \in Calls |-> 0]

-----------------------------------------------------------------------------
(* Helpers *)

Goto(c, from, to) == pc[c] = from /\ pc' = [pc EXCEPT ![c] = to]

\* The parser's time checks: iat and nbf not in the future, exp not reached.
LiveAt(p, t) == p.iat <= t /\ t < p.exp

\* Mutant of Sweep: evicts an entry at the very tick of its expiry.
SweepAtExpiry(t) == [j \in {k \in DOMAIN seen : ~(t >= seen[k])} |-> seen[j]]

\* The store after the sweep of a Record that read time t.
Sweep(t) == [j \in {k \in DOMAIN seen : ~(t > seen[k])} |-> seen[j]]

\* The store after the sweep of a Record that read time t and the insert.
Insert(t, j, exp) ==
    [k \in DOMAIN Sweep(t) \cup {j} |-> IF k = j THEN exp ELSE seen[k]]

-----------------------------------------------------------------------------
(* Actions *)

Tick ==
    /\ clock < MaxTime
    /\ clock' = clock + 1
    /\ UNCHANGED <<issued, seen, callVars>>

\* GenerateProof: a fresh jti, iat = nbf = now, exp = now + ttl.
GenerateProof(j, b, ttl) ==
    /\ \A p \in issued : p.jti # j
    /\ issued' = issued \cup
         {[jti |-> j, iat |-> clock, exp |-> clock + ttl, binding |-> b]}
    /\ UNCHANGED <<clock, seen, callVars>>

\* Other software signs a proof that carries no jti.
SignWithoutJti(b, ttl) ==
    /\ \A p \in issued : p.jti # NoJti
    /\ issued' = issued \cup
         {[jti |-> NoJti, iat |-> clock, exp |-> clock + ttl, binding |-> b]}
    /\ UNCHANGED <<clock, seen, callVars>>

\* A request reaches Validate with some signed proof: the same proof may be
\* presented by any number of calls.
Present(c, p) ==
    /\ Goto(c, "idle", "parse")
    /\ proof' = [proof EXCEPT ![c] = p]
    /\ UNCHANGED <<clock, issued, seen, now, storedAt>>

\* Mutant of PassesChecks: lets a proof without a jti through to the store.
PassesChecksNoJti(c, b) == LiveAt(proof[c], clock) /\ proof[c].binding = b

\* The checks before the store: parser (typ, signature, times), aud,
\* chain_hash and tth, and a non-empty jti when replays are checked.
PassesChecks(c, b) ==
    /\ LiveAt(proof[c], clock)
    /\ proof[c].binding = b
    /\ c \in ReplayChecked => proof[c].jti # NoJti

\* A call whose request presents binding b passes those checks, and goes on to
\* the store only if replays are checked.
CheckOK(c, b) ==
    /\ pc[c] = "parse" /\ PassesChecks(c, b)
    /\ Goto(c, "parse", IF c \in ReplayChecked THEN "record" ELSE "stateless")
    /\ UNCHANGED <<clock, issued, seen, proof, now, storedAt>>

\* Mutant of CheckFails: the jti is recorded before the binding is checked.
CheckFailsSpends(c, b) ==
    /\ pc[c] = "parse" /\ LiveAt(proof[c], clock) /\ ~PassesChecks(c, b)
    /\ Goto(c, "parse", "rejected")
    /\ seen' = Insert(clock, proof[c].jti, proof[c].exp)
    /\ UNCHANGED <<clock, issued, proof, now, storedAt>>

\* A failed check ends the call and leaves the store alone.
CheckFails(c, b) ==
    /\ pc[c] = "parse" /\ ~PassesChecks(c, b)
    /\ Goto(c, "parse", "rejected")
    /\ UNCHANGED <<clock, issued, seen, proof, now, storedAt>>

\* Record, before s.mu.Lock(): now := time.Now().
ReadNow(c) ==
    /\ Goto(c, "record", "locked")
    /\ now' = [now EXCEPT ![c] = clock]
    /\ UNCHANGED <<clock, issued, seen, proof, storedAt>>

\* Record, under the mutex: the jti is new after the sweep, and is inserted.
RecordFresh(c) ==
    /\ Goto(c, "locked", "accepted")
    /\ proof[c].jti \notin DOMAIN Sweep(now[c])
    /\ seen' = Insert(now[c], proof[c].jti, proof[c].exp)
    /\ storedAt' = [storedAt EXCEPT ![c] = clock]
    /\ UNCHANGED <<clock, issued, proof, now>>

\* Record, under the mutex: the jti is still there after the sweep.
RecordReplayed(c) ==
    /\ Goto(c, "locked", "replayed")
    /\ proof[c].jti \in DOMAIN Sweep(now[c])
    /\ seen' = Sweep(now[c])
    /\ UNCHANGED <<clock, issued, proof, now, storedAt>>

Call(c) ==
    \/ \E p \in issued : Present(c, p)
    \/ \E b \in Bindings : CheckOK(c, b) \/ CheckFails(c, b)
    \/ ReadNow(c)
    \/ RecordFresh(c)
    \/ RecordReplayed(c)

Next ==
    \/ Tick
    \/ \E j \in Jtis, b \in Bindings, ttl \in TTLs : GenerateProof(j, b, ttl)
    \/ \E b \in Bindings, ttl \in TTLs : SignWithoutJti(b, ttl)
    \/ \E c \in Calls : Call(c)

Spec == Init /\ [][Next]_vars

-----------------------------------------------------------------------------
(* Properties *)

Accepted(c) == pc[c] = "accepted"

SameProof(c, d) == proof[c].jti = proof[d].jti

\* Of all the calls that present one proof and reach the store no later than
\* its expiry, at most one is accepted, whatever the goroutines' interleaving
\* and however stale the time each of them sweeps with.
AtMostOnceWhileLive ==
    \A c, d \in Calls :
        /\ Accepted(c) /\ Accepted(d) /\ SameProof(c, d)
        /\ storedAt[c] <= proof[c].exp /\ storedAt[d] <= proof[d].exp
        => c = d

\* A call that fails before the store (wrong URI, chain, key, time) never
\* consumes its proof: a jti is in the store only because a call that presents
\* it was accepted, so no one else's failure can turn a good call into a replay.
OnlyAcceptedCallsSpend ==
    \A j \in DOMAIN seen :
        \E c \in Calls : Accepted(c) /\ proof[c].jti = j

\* A call refused as a replay is one of at least two that presented its proof,
\* and one of the others was accepted.
ReplayedMeansAccepted ==
    \A c \in Calls : pc[c] = "replayed" =>
        \E d \in Calls : d # c /\ Accepted(d) /\ SameProof(c, d)

\* A proof is spent by its acceptance and by nothing else (proof.go:199): that is
\* why the store holds it, and why another call is refused.
AcceptanceSpends == OnlyAcceptedCallsSpend /\ ReplayedMeansAccepted

\* store.go:32-34 argues that evicting an expired jti cannot reopen a replay
\* window, because the expiry check runs before Record: no proof is ever
\* accepted twice, before or after its expiry.
EvictionReopensNothing ==
    \A c, d \in Calls :
        Accepted(c) /\ Accepted(d) /\ SameProof(c, d) => c = d

-----------------------------------------------------------------------------
(* Refinement: the goroutines behave as the atomic register of ReplayWindow *)

Tracked == {p \in issued : p.jti # NoJti}

AbstractVerdict(c) ==
    CASE pc[c] = "accepted"  -> "admitted"
      [] pc[c] = "stateless" -> "stateless"
      [] pc[c] = "rejected"  -> "refused"
      [] pc[c] = "replayed"  -> "replayed"
      [] OTHER               -> "open"

Window == INSTANCE ReplayWindow WITH
    time    <- clock,
    window  <- [j \in {p.jti : p \in Tracked} |->
                    (CHOOSE p \in Tracked : p.jti = j).exp],
    spent   <- DOMAIN seen,
    verdict <- [c \in Calls |-> AbstractVerdict(c)]

\* Every interleaving of Validate calls is a behaviour of the atomic register:
\* a jti is spent exactly when its call is admitted, a replay verdict is given
\* only against a spent jti, and a jti lapses only after its window closed.
ImplementsReplayWindow == Window!Spec
=============================================================================
