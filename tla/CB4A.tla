-------------------------------- MODULE CB4A --------------------------------
(***************************************************************************)
(* Credential brokering (pkg/cb4a): the Policy Decision Point, which       *)
(* evaluates task requests and parks those that need a human, and the      *)
(* Credential Delivery Point, which mints DPoP-bound tokens on signed      *)
(* decisions and verifies API calls, over one shared audit log.            *)
(*                                                                         *)
(* Every call of Evaluate, Approve, ApproveWithPasskey, Deny, Mint and     *)
(* SimulateAPICall runs in a goroutine.  Taking the PDP's lock, the CDP's  *)
(* lock or the log's lock, and reading the clock, are separate steps.      *)
(* A call that fails before its first change leaves no trace and is no     *)
(* action.  AuditLog.Append cannot fail, so neither can Mint's write.      *)
(***************************************************************************)
EXTENDS Policy, Integers, FiniteSets

CONSTANTS
    Callers,        \* goroutines
    ReqIds,         \* what generateID gives to requests
    TokenIds,       \* minted tokens; each has an ephemeral key of its own
    Jtis,           \* what generateID gives to DPoP proofs
    Tasks,          \* task request envelopes that agents have signed
    Rules,          \* the PDP's rules, in order
    Vaulted,        \* tasks whose scope the vault holds a credential for
    DecisionTTL, TokenTTL, ProofTTL,
    SigningMayFail, \* issueDecision may return an error
    MaxTime,        \* bound: the clock stops here
    MaxAudit,       \* bound: no call starts once the log has this many entries
    None            \* no decision, token or proof

\* The tier of a task depends on its agent and its scope alone.
Tier == [t \in Tasks |-> evaluateTier(Rules, t.svid, t.scope)]

Decision == [req : ReqIds, task : Tasks, exp : Nat,
             via : {"auto", "approver", "passkey"}]
Token == [id : TokenIds, req : ReqIds, task : Tasks, exp : Nat]
Proof == [jti : Jtis, token : TokenIds, exp : Nat]

ASSUME TaskAssumption == \A t \in Tasks : {"svid", "scope", "exp"} \subseteq DOMAIN t
ASSUME TTLAssumption == DecisionTTL \in Nat /\ TokenTTL \in Nat /\ ProofTTL \in Nat
ASSUME BoundAssumption == MaxTime \in Nat /\ MaxAudit \in Nat
ASSUME NoneAssumption == None \notin Decision \cup Token \cup Proof

VARIABLES
    clock,      \* time.Now()
    pending,    \* InMemoryPDP.pending: request -> [task, state]
    dpopJTI,    \* CDP.dpopJTI, without the expiries nobody reads
    audit,      \* AuditLog.entries
    decisions,  \* decision JWTs returned to agents
    tokens,     \* minted credentials returned to agents
    proofs,     \* DPoP proofs agents have signed
    pc,         \* where each goroutine stands
    decision,   \* the decision it is making or was given
    token,      \* the token it is minting or was given
    proof,      \* the DPoP proof it was given
    served      \* history: API calls authorized with each proof

shared == <<pending, dpopJTI, audit>>
held == <<decisions, tokens, proofs, served>>
local == <<pc, decision, token, proof>>
vars == <<clock, shared, held, local>>

Stages == {"idle", "park", "sign", "approved", "denied", "mint", "minted",
           "record", "authorized", "replayed"}
Events == {"policy_evaluated", "approved", "denied", "credential_minted",
           "api_call", "replay_rejected"}

TypeOK ==
    /\ clock \in 0..MaxTime
    /\ DOMAIN pending \subseteq ReqIds
    /\ \A r \in DOMAIN pending :
          pending[r] \in [task : Tasks, state : {"pending", "approved", "denied"}]
    /\ dpopJTI \subseteq Jtis
    /\ audit \in Seq([event : Events, req : ReqIds])
    /\ decisions \subseteq Decision
    /\ tokens \subseteq Token
    /\ proofs \subseteq Proof
    /\ pc \in [Callers -> Stages]
    /\ decision \in [Callers -> Decision \cup {None}]
    /\ token \in [Callers -> Token \cup {None}]
    /\ proof \in [Callers -> Proof \cup {None}]
    /\ served \in [Jtis -> Nat]
    /\ \A c \in Callers :
          /\ pc[c] \in {"park", "sign", "approved", "denied", "mint"}
             => decision[c] # None
          /\ pc[c] \in {"minted", "record", "authorized", "replayed"}
             => token[c] # None
          /\ pc[c] \in {"record", "authorized", "replayed"} => proof[c] # None

Init ==
    /\ clock = 0
    /\ pending = [r \in {} |-> None]
    /\ dpopJTI = {}
    /\ audit = <<>>
    /\ decisions = {} /\ tokens = {} /\ proofs = {}
    /\ pc = [c \in Callers |-> "idle"]
    /\ decision = [c \in Callers |-> None]
    /\ token = [c \in Callers |-> None]
    /\ proof = [c \in Callers |-> None]
    /\ served = [j \in Jtis |-> 0]

-----------------------------------------------------------------------------
(* Helpers *)

Goto(c, from, to) == pc[c] = from /\ pc' = [pc EXCEPT ![c] = to]

\* The goroutine returns: its locals are gone.
Return(c, from) ==
    /\ Goto(c, from, "idle")
    /\ decision' = [decision EXCEPT ![c] = None]
    /\ token' = [token EXCEPT ![c] = None]
    /\ proof' = [proof EXCEPT ![c] = None]

\* AuditLog.Append.
LogEntry(event, r) == audit' = Append(audit, [event |-> event, req |-> r])

Logged(event, r) ==
    \E i \in DOMAIN audit : audit[i].event = event /\ audit[i].req = r

\* The JWT parser's expiry check.
Live(j) == clock < j.exp

Room == Len(audit) < MaxAudit

Tick ==
    /\ clock < MaxTime
    /\ clock' = clock + 1
    /\ UNCHANGED <<shared, held, local>>

-----------------------------------------------------------------------------
(* The Policy Decision Point *)

\* ParseEnvelope, which the caller of Evaluate ran at some earlier time: the
\* agent's signature was good and the envelope had not expired then.  Nothing
\* remembers an envelope that was parsed before.
ParseEnvelope(t) == \E earlier \in 0..clock : earlier < t.exp

\* Mutant of Evaluate: a task of any tier but MFA is approved at once.
EvaluateLax(c, r, t) ==
    /\ ParseEnvelope(t)
    /\ Room /\ ~Logged("policy_evaluated", r)
    /\ Goto(c, "idle", IF Tier[t] # TierMFA THEN "sign" ELSE "park")
    /\ decision' = [decision EXCEPT ![c] =
                      [req |-> r, task |-> t, via |-> "auto", exp |-> 0]]
    /\ LogEntry("policy_evaluated", r)
    /\ UNCHANGED <<clock, pending, dpopJTI, held, token, proof>>

\* Evaluate of parsed claims, up to its first audit entry: a fresh request
\* identifier, and the tier of the task decides whether the goroutine signs or
\* parks.
Evaluate(c, r, t) ==
    /\ ParseEnvelope(t)
    /\ Room /\ ~Logged("policy_evaluated", r)
    /\ Goto(c, "idle", IF Tier[t] = TierAuto THEN "sign" ELSE "park")
    /\ decision' = [decision EXCEPT ![c] =
                      [req |-> r, task |-> t, via |-> "auto", exp |-> 0]]
    /\ LogEntry("policy_evaluated", r)
    /\ UNCHANGED <<clock, pending, dpopJTI, held, token, proof>>

\* Evaluate parks the request under the lock and returns its identifier.
Park(c) ==
    LET d == decision[c] IN
    /\ Return(c, "park")
    /\ pending' = [r \in DOMAIN pending \cup {d.req} |->
                     IF r = d.req THEN [task |-> d.task, state |-> "pending"]
                                  ELSE pending[r]]
    /\ UNCHANGED <<clock, dpopJTI, audit, held>>

\* Mutant of Resolve: the state of the request is not checked.
ResolveAny(c, r, verdict, via, next) ==
    /\ Room /\ r \in DOMAIN pending
    /\ Goto(c, "idle", next)
    /\ pending' = [pending EXCEPT ![r] = [task |-> @.task, state |-> verdict]]
    /\ decision' = [decision EXCEPT ![c] =
                      [req |-> r, task |-> pending[r].task, via |-> via, exp |-> 0]]
    /\ UNCHANGED <<clock, dpopJTI, audit, held, token, proof>>

\* The locked region of Approve and of Deny: only a request that is still
\* pending gets a verdict.
Resolve(c, r, verdict, via, next) ==
    /\ Room /\ r \in DOMAIN pending /\ pending[r].state = "pending"
    /\ Goto(c, "idle", next)
    /\ pending' = [pending EXCEPT ![r] = [task |-> @.task, state |-> verdict]]
    /\ decision' = [decision EXCEPT ![c] =
                      [req |-> r, task |-> pending[r].task, via |-> via, exp |-> 0]]
    /\ UNCHANGED <<clock, dpopJTI, audit, held, token, proof>>

\* Approve does not look at the tier of the request.
Approve(c, r) == Resolve(c, r, "approved", "approver", "sign")

\* A valid passkey assertion goes on to Approve; an invalid one is an error.
ApproveWithPasskey(c, r) == Resolve(c, r, "approved", "passkey", "sign")

Deny(c, r) == Resolve(c, r, "denied", "approver", "denied")

\* issueDecision reads the clock and signs.
IssueDecision(c) ==
    LET d == decision[c] IN
    /\ Goto(c, "sign", "approved")
    /\ decision' = [decision EXCEPT ![c] =
                      [req |-> d.req, task |-> d.task, via |-> d.via,
                       exp |-> clock + DecisionTTL]]
    /\ UNCHANGED <<clock, shared, held, token, proof>>

\* issueDecision fails: the verdict stands, and nobody gets the decision.
IssueFails(c) ==
    /\ SigningMayFail
    /\ Return(c, "sign")
    /\ UNCHANGED <<clock, shared, held>>

\* Evaluate or Approve logs the approval and returns the decision.
ReturnDecision(c) ==
    /\ Return(c, "approved")
    /\ LogEntry("approved", decision[c].req)
    /\ decisions' = decisions \cup {decision[c]}
    /\ UNCHANGED <<clock, pending, dpopJTI, tokens, proofs, served>>

\* Mutant of ReturnDenial: Deny returns without an audit entry.
ReturnDenialSilently(c) ==
    /\ Return(c, "denied")
    /\ UNCHANGED <<clock, shared, held>>

\* Deny logs the denial and returns.
ReturnDenial(c) ==
    /\ Return(c, "denied")
    /\ LogEntry("denied", decision[c].req)
    /\ UNCHANGED <<clock, pending, dpopJTI, held>>

-----------------------------------------------------------------------------
(* The Credential Delivery Point *)

\* Mint, up to the vault: the decision verifies and has not expired, and the
\* vault holds a credential for its scope.
ParseDecision(c, d) ==
    /\ Room /\ Live(d) /\ d.task \in Vaulted
    /\ Goto(c, "idle", "mint")
    /\ decision' = [decision EXCEPT ![c] = d]
    /\ UNCHANGED <<clock, shared, held, token, proof>>

TokenTaken(i) ==
    \/ \E t \in tokens : t.id = i
    \/ \E c \in Callers : pc[c] = "minted" /\ token[c].id = i

\* Mutant of SignToken: the token is handed out before Mint logs it.
SignTokenEarly(c, i) ==
    LET d == decision[c]
        t == [id |-> i, req |-> d.req, task |-> d.task, exp |-> clock + TokenTTL]
    IN  /\ ~TokenTaken(i)
        /\ Goto(c, "mint", "minted")
        /\ token' = [token EXCEPT ![c] = t]
        /\ tokens' = tokens \cup {t}
        /\ UNCHANGED <<clock, shared, decisions, proofs, served, decision, proof>>

\* A fresh key pair, the clock, and the signed token bound to that key.
SignToken(c, i) ==
    LET d == decision[c]
        t == [id |-> i, req |-> d.req, task |-> d.task, exp |-> clock + TokenTTL]
    IN  /\ ~TokenTaken(i)
        /\ Goto(c, "mint", "minted")
        /\ token' = [token EXCEPT ![c] = t]
        /\ UNCHANGED <<clock, shared, held, decision, proof>>

\* Mint logs the token, and only then returns it.
ReturnToken(c) ==
    /\ Return(c, "minted")
    /\ LogEntry("credential_minted", token[c].req)
    /\ tokens' = tokens \cup {token[c]}
    /\ UNCHANGED <<clock, pending, dpopJTI, decisions, proofs, served>>

\* GenerateDPoPProof, run by the agent that holds token t.
GenerateDPoPProof(t, j) ==
    /\ \A p \in proofs : p.jti # j
    /\ proofs' = proofs \cup {[jti |-> j, token |-> t.id, exp |-> clock + ProofTTL]}
    /\ UNCHANGED <<clock, shared, decisions, tokens, served, local>>

\* Mutant of ParseCall: the identifier is recorded before the proof is verified.
ParseCallEager(c, t, p) ==
    /\ Room /\ Live(t)
    /\ dpopJTI' = dpopJTI \cup {p.jti}
    /\ Live(p) /\ p.token = t.id
    /\ Goto(c, "idle", IF p.jti \in dpopJTI THEN "replayed" ELSE "record")
    /\ token' = [token EXCEPT ![c] = t]
    /\ proof' = [proof EXCEPT ![c] = p]
    /\ UNCHANGED <<clock, pending, audit, held, decision>>

\* SimulateAPICall, steps 1 to 6: token and proof verify and have not expired;
\* htm, htu, ath and jkt tie the proof to this call and this token.
ParseCall(c, t, p) ==
    /\ Room /\ Live(t) /\ Live(p) /\ p.token = t.id
    /\ Goto(c, "idle", "record")
    /\ token' = [token EXCEPT ![c] = t]
    /\ proof' = [proof EXCEPT ![c] = p]
    /\ UNCHANGED <<clock, shared, held, decision>>

\* Mutant of RecordJTI: looks the identifier up, but forgets the expired ones.
RecordJTISwept(c) ==
    LET live == {j \in dpopJTI : \A p \in proofs : p.jti = j => Live(p)} IN
    /\ Goto(c, "record", IF proof[c].jti \in live THEN "replayed" ELSE "authorized")
    /\ dpopJTI' = live \cup {proof[c].jti}
    /\ UNCHANGED <<clock, pending, audit, held, decision, token, proof>>

\* Mutant of RecordJTI: the identifier of the token is recorded, not the proof's.
RecordTokenId(c) ==
    /\ Goto(c, "record", IF proof[c].jti \in dpopJTI THEN "replayed" ELSE "authorized")
    /\ dpopJTI' = dpopJTI \cup {token[c].id}
    /\ UNCHANGED <<clock, pending, audit, held, decision, token, proof>>

\* Step 7, under the lock: the proof's identifier is new, or this is a replay.
RecordJTI(c) ==
    /\ Goto(c, "record", IF proof[c].jti \in dpopJTI THEN "replayed" ELSE "authorized")
    /\ dpopJTI' = dpopJTI \cup {proof[c].jti}
    /\ UNCHANGED <<clock, pending, audit, held, decision, token, proof>>

ReturnReplay(c) ==
    /\ Return(c, "replayed")
    /\ LogEntry("replay_rejected", token[c].req)
    /\ UNCHANGED <<clock, pending, dpopJTI, held>>

ReturnCall(c) ==
    /\ Return(c, "authorized")
    /\ LogEntry("api_call", token[c].req)
    /\ served' = [served EXCEPT ![proof[c].jti] = @ + 1]
    /\ UNCHANGED <<clock, pending, dpopJTI, decisions, tokens, proofs>>

-----------------------------------------------------------------------------

Begin(c) ==
    \/ \E r \in ReqIds, t \in Tasks : Evaluate(c, r, t)
    \/ \E r \in ReqIds : Approve(c, r) \/ ApproveWithPasskey(c, r) \/ Deny(c, r)
    \/ \E d \in decisions : ParseDecision(c, d)
    \/ \E t \in tokens, p \in proofs : ParseCall(c, t, p)

Continue(c) ==
    \/ Park(c)
    \/ IssueDecision(c)
    \/ IssueFails(c)
    \/ ReturnDecision(c)
    \/ ReturnDenial(c)
    \/ \E i \in TokenIds : SignToken(c, i)
    \/ ReturnToken(c)
    \/ RecordJTI(c)
    \/ ReturnReplay(c)
    \/ ReturnCall(c)

Next ==
    \/ Tick
    \/ \E t \in tokens, j \in Jtis : GenerateDPoPProof(t, j)
    \/ \E c \in Callers : Begin(c) \/ Continue(c)

Spec == Init /\ [][Next]_vars

\* A goroutine that has begun a call is scheduled until the call returns.
FairSpec == Spec /\ \A c \in Callers : WF_vars(Continue(c))

-----------------------------------------------------------------------------
(* Properties *)

\* First match wins and "*" does not cross a slash: whatever identity and scope
\* are the first to be submitted to a PDP with the default rules, no stricter
\* rule is passed over for a laxer one.  (Identities deeper below admin or ci are
\* reached by no pattern of their own, against the comment of pdp.go:54.)
RulesAreStrict == audit = <<>> => TiersAreStrict(Rules)

Verdicts == {"approved", "denied"}

\* However Approve, ApproveWithPasskey and Deny race for a request, the log
\* holds at most one verdict on it.
OneVerdict ==
    \A i, j \in DOMAIN audit :
        /\ audit[i].event \in Verdicts /\ audit[j].event \in Verdicts
        /\ audit[i].req = audit[j].req
        => i = j

\* A request yields at most one signed decision, even if approvers race and an
\* issue fails half-way.
OneDecisionPerRequest ==
    \A d, e \in decisions : d.req = e.req => d = e

\* A request that several goroutines decide on (pdp.go:211) has one outcome: it
\* is logged once and signed at most once.
OneOutcome == OneVerdict /\ OneDecisionPerRequest

\* A token for a task above the automatic tier is in an agent's hands only if
\* its request stands approved in the PDP's store: the two parts share only the
\* signed decision.
ElevatedNeedsHuman ==
    \A t \in tokens : Tier[t.task] # TierAuto =>
        /\ t.req \in DOMAIN pending
        /\ pending[t.req] = [task |-> t.task, state |-> "approved"]

\* An entry of the log of kind `after` has one of kind `before`, about the same
\* request, earlier in the log.
Follows(after, before) ==
    \A i \in DOMAIN audit : audit[i].event = after =>
        \E j \in 1..(i - 1) :
            audit[j].event = before /\ audit[j].req = audit[i].req

\* The log alone proves every use: an API call, or a refused replay, follows
\* the minting of a token, which follows an approval, which follows the
\* evaluation of the same request, although different goroutines wrote them.
AuditTellsTheStory ==
    /\ Follows("api_call", "credential_minted")
    /\ Follows("replay_rejected", "credential_minted")
    /\ Follows("credential_minted", "approved")
    /\ Follows("approved", "policy_evaluated")
    /\ Follows("denied", "policy_evaluated")

\* A DPoP proof authorizes at most one API call, for ever: the replay store
\* forgets nothing, so a call that stalls past the expiry of its proof between
\* the parser and the store is still refused if the proof was used meanwhile.
ProofServedOnce == \A j \in Jtis : served[j] <= 1

\* The store holds only proofs that have bought a call, or are buying it in one
\* goroutine right now: calls that fail leave nothing in it, and a call refused
\* as a replay was refused in favour of one that got its answer.
SpentIsServed ==
    \A j \in dpopJTI :
        \/ served[j] = 1
        \/ \E c \in Callers : pc[c] = "authorized" /\ proof[c].jti = j

\* A denial is eventually in the log, although it takes effect before it is
\* written there; so is an approval whose decision was signed.  (An approval
\* whose signing failed is the one verdict the log never shows.)
VerdictIsRecorded ==
    \A r \in ReqIds :
        /\ (r \in DOMAIN pending /\ pending[r].state = "denied")
              ~> Logged("denied", r)
        /\ (\E c \in Callers : pc[c] = "approved" /\ decision[c].req = r)
              ~> Logged("approved", r)

\* pdp.go:25 says that TierMFA requires synchronous FIDO2/MFA verification: a
\* decision on such a task comes of a passkey assertion.
MfaNeedsPasskey ==
    \A d \in decisions : Tier[d.task] = TierMFA => d.via = "passkey"

\* What a user of the broker sees: the requests a human let through, every entry
\* of the log that is a verdict on a request, the credentials handed out, and how
\* many calls each proof got.
letThrough == {r \in DOMAIN pending : pending[r].state = "approved"}
verdictOf ==
    [r \in ReqIds |->
        {[at |-> i, says |-> audit[i].event] :
            i \in {k \in DOMAIN audit : audit[k].event \in Verdicts /\ audit[k].req = r}}]
handedOut == {[id |-> t.id, req |-> t.req, elevated |-> Tier[t.task] # TierAuto] :
                t \in tokens}

Promise == INSTANCE Broker WITH human <- letThrough, verdicts <- verdictOf,
                                credentials <- handedOut, bought <- served

\* However its goroutines interleave, the broker keeps its promise: a second
\* verdict on a request or a second call on a proof is no step of Broker, nor is
\* an elevated credential without a human, or a refusal of what a human approved.
ImplementsBroker == Promise!Spec
=============================================================================
