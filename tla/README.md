# Formal models of the AI agent gateway

TLA+ modules, TLC configurations and TLAPS proofs for the Go code of this
repository: the Agent Gateway, which admits AI agents by a delegation chain of
Agent Identity Tokens and a proof of possession, and the packages it is built
from. Paths are relative to `src/`.

Contents: [the system](#the-system), [modules and code](#modules-and-code),
[runs](#what-the-runs-check), [divergences](#what-the-runs-disprove),
[bounds](#bounds), [fairness](#fairness), [proofs](#what-is-proved),
[not modelled](#what-is-not-modelled), [plan](#plan).

## The system

### Inventory

| part | code | state it keeps | operations |
|---|---|---|---|
| identity | `pkg/identity` | `InMemoryJTIStore.seen`: jti to expiry, behind a mutex | issue and validate agent tokens, validate chains, generate and validate proofs, record a jti |
| gateway | `internal/gateway` | the shared proof validator with its store, the revoked set, the configuration | one middleware pipeline per request, the SSF endpoint, the reverse proxy |
| authz | `internal/authz` | a rule list behind an RWMutex; or none, before an OpenFGA server | `Allow`, `Authorize`, the middleware `AgentAuth` |
| ssfreceiver | `pkg/ssfreceiver` | seen SET identifiers, handler table, revoked subjects | receive a Security Event Token, dispatch it, revoke |
| cb4a | `pkg/cb4a` | parked requests (PDP), used proof identifiers and vault (CDP), audit log, each behind its own mutex | `Evaluate`, `Approve`, `ApproveWithPasskey`, `Deny`, `Mint`, `GenerateDPoPProof`, `SimulateAPICall`, `Append` |
| x402 | `pkg/x402` | none of its own; it drives a CDP | `Verify` a payment |
| federation | `pkg/federation` | registered statements and a cache of resolved entities | register, `Resolve` from memory or over HTTP |
| memory | `pkg/memory` | entries per agent and audit records behind an RWMutex | `Write`, `Read`, `Delete`, `Audit` |
| obo, identitychaining, txntoken, spiffeclientauth | `pkg/...` | none: what they know is in signed tokens | exchange tokens for delegated tokens, grants, transaction tokens, access tokens |
| webauthn, keys | `pkg/...` | none | assertions, key pairs, certificates |
| the gateway process, the browser demonstration, `scripts/` | `cmd/...`, `demo/`, `scripts/` | none across a restart | wiring, scripted demonstrations, a standards check |

### How the parts interact

    agent --(leaf, chain, proof headers)--> gateway --> upstream tool
                                              |  \
             token validators <---------------+   +--> authorizer (rules, or OpenFGA)
             federation resolver (fallback) <-+
             revoked set  <------ ssfreceiver <------ SET transmitters
             proof store  (InMemoryJTIStore, shared by all requests)

    agent --> PDP (parks what a human must see) --> signed decision
          --> CDP (vault) --> DPoP-bound token --> API call  <-- x402 Verify
               PDP and CDP write one audit log and share only the decision

Every HTTP request and every call of a package runs in a goroutine of its own.
They meet in maps and lists behind locks, and in the wall clock, which each of
them reads more than once. The gateway calls the packages in its own goroutine;
nothing is queued. Nothing is persisted: a restart forgets all state
(`docs/security.md:200`).

### Which behaviours are hard

* *Time between two reads of it.* The JWT parser's expiry check, the sweep of
  the replay store, the second validation of a federated token and the signing
  of a delegated token each look at the clock anew.
* *Check, unlock, act.* `Approve` and `Deny` decide under the lock and sign and
  log after it; a SET is marked as seen before its handlers run;
  `InMemoryResolver.Resolve` verifies and caches what it read before a newer
  registration; `Read` walks a slice that `Delete` shifts.
* *Retries.* An agent presents a proof again, a transmitter pushes a SET again.
* *Failure half-way.* The authorizer fails after the proof is spent, a body is
  read in part and put back in part,
  `issueDecision` fails after the request is approved, a fetch fails, a payer is
  refused after the call was made.
* *Identities from several sources.* Leaf, chain, proof and certificate come
  from four places; the PDP and the CDP, and the parties of a token exchange,
  share nothing but signed tokens.

### What makes each part correct

| part | it is correct if |
|---|---|
| replay store | a proof is accepted once while it lives; only an accepted call spends it |
| gateway | what is forwarded was vouched for by every gate, with tokens that were live when the request came in, and with the parameters of the body that is forwarded; an acknowledged revocation holds; a proof buys one decision, also one that is an error |
| ssfreceiver | what is acknowledged is in force; a duplicate is in force sooner or later |
| cb4a | no stricter tier rule is passed over for a laxer one; one verdict and one decision per request, and every verdict that was signed is logged; a token above the automatic tier has a human behind it; the log tells the story in order; a proof buys one call, and only a call that is bought spends it |
| x402 | a payment is authorized, paid once per proof, and logged |
| federation | an answer rests on one chain that was live; a rotation clears the cache; one bad anchor does not spoil the others |
| memory | a `Read` returns intact entries of its agent that were stored, and all of them; the audit counts add up |
| exchange | what an accepted token says is backed by tokens of a user and an agent that were live when it was asked for; an address is passed on only if its holder showed it |

`PROJECT.json` lists each hazard at its line with the properties that cover it.

## Modules and code

| module | models | composed of |
|---|---|---|
| `ReplayWindow` | abstract: an atomic register of spent identifiers | |
| `ProofReplay` | `identity/proof.go`, `identity/store.go` | implements `ReplayWindow` |
| `ProofReplayProofs` | proofs about `ProofReplay` | |
| `Gateway` | `gateway/server.go`, `authz/authz.go`, `authz/middleware.go`, `ssfreceiver`, `identity/chain.go`, `identity/token.go` | implements `ReplayWindow` for those who send requests |
| `GatewayProofs` | proofs about `Gateway` | |
| `Policy` | the tier rules of `cb4a/pdp.go`: patterns, first match, default rules | |
| `PolicyProofs` | proofs about `Policy`: the matcher and the default rules | |
| `Broker` | abstract: the verdicts on each request, the credentials issued, how many calls each proof bought | |
| `CB4A` | `cb4a/pdp.go`, `cb4a/cdp.go`, `cb4a/envelope.go`, `cb4a/audit.go` | extends `Policy`, implements `Broker` |
| `CB4AProofs` | proofs about `CB4A` | uses `PolicyProofs` |
| `X402` | `x402/gateway.go` | extends `CB4A`, and implements it |
| `X402Proofs` | proofs about `X402` | extends `CB4AProofs` |
| `TrustChain` | statements and chains of `federation/entity.go` | |
| `InMemoryResolver`, `HTTPResolver` | the two resolvers of `federation/resolver.go` | extend `TrustChain` |
| `Resolver` | abstract: each call is given an entity that a live chain vouches for, or an error | extends `TrustChain` |
| `Federation` | the `FederationResolver` interface | instantiates both resolvers, implements `Resolver` |
| `FederationProofs` | proofs about `Federation`, so about both resolvers | |
| `EntryList` | abstract: a list of entries per agent, with atomic writes and deletions | |
| `Memory` | `memory/memory.go` | implements `EntryList` |
| `MemoryProofs` | proofs about `Memory` | |
| `TokenExchange` | `obo`, `identitychaining`, `spiffeclientauth`, `txntoken`, `identity/token.go` | |
| `TokenExchangeProofs` | proofs about `TokenExchange` | |
| `MC...` | constants, inputs and symmetry for TLC | extend the module they name |

Conventions. A goroutine is a member of `Calls`, `Requests`, `Pushes` or
`Callers` with a program counter `pc`; what it holds in local variables is a
function of the goroutine. An action is what happens between two points at
which another goroutine can interfere: a locked region, one `sync.Map`
operation, one reading of the clock, one append to the audit log. A call that
fails before it changes anything and before it reads anything later steps depend
on is either a transition to a refusal or, where nothing observes the refusal,
no action. Cryptography is symbolic: a token is a record nobody can forge, a
digest is the thing digested, fresh random identifiers are not repeated. Lines
marked *Mutant* define a variant of the operation before which they stand, with
a plausible slip in it; no specification uses them.

**ProofReplay.** `Present`, `CheckOK`/`CheckFails` (parser and checks of
`Validate`), `ReadNow` (the clock read that `Record` makes *before* its mutex),
`RecordFresh`/`RecordReplayed` (sweep, look-up and insert under the mutex). A
call outside `ReplayChecked` is a `Validate` without `CheckReplay`. The strict
comparisons of code are kept: `LiveAt` is `now < exp`, `Sweep` evicts on
`now > exp`.

**Gateway.** One request goes through `Arrive`, `ValidateLeaf`, `ResolveLeaf`
(or `ResolveFails`), `CheckRevoked`, `CheckBinding`, `CheckChain`,
`CheckProof`, `RecordProof`/`RefuseReplay`, `InspectBody`, `Authorize`,
`Forward`; a request for a resource of `Direct` goes through `AgentAuth`
instead, which shares chain, proof, store and rules with the gateway but starts
with `AgentAuthLeaf` and has neither revocation nor binding; one push
through `ReceiveSET`, `MarkSeen`, `Dispatch`, `Respond`. The store is the
abstract register that `ProofReplay` is proved to implement: expired
identifiers may lapse at any `Record`. `ResolveFails` lets a resolver fail at
any time. With `External`, the authorizer answers anything, leaves the decision
pending, or fails. A body is a sequence of blocks of a megabyte: `InspectBody`
parses the first and puts it back, or reads nothing and puts nothing back, and
`Forward` fails when what is left is shorter than was announced. `arrival` is
history: when each request came in, and which revocations had been acknowledged
by then. Requests whose proof has no `jti`, or is not yet valid, or whose tokens
are from the future, are refused by the code before they touch anything; the
first kind is among the inputs, the others are left out with `iat` and `nbf`.

**CB4A.** `Evaluate` then `Park`, or `IssueDecision`/`IssueFails` and
`ReturnDecision`; `Approve`, `ApproveWithPasskey` and `Deny` share the locked
region `Resolve`; `Mint` is `ParseDecision`, `SignToken`, `ReturnToken`;
`SimulateAPICall` is `ParseCall`, `RecordJTI`, then `ReturnCall` or
`ReturnReplay`. A decision stays usable until it expires, so one decision may
mint several tokens, as in the code. A task is what an envelope asks for:
identity, scope and expiry. `ParseEnvelope` is run by the caller of `Evaluate`,
at some earlier time, so the envelope may have expired since; nothing remembers
an envelope. The tier of a task is what `Policy!evaluateTier` makes
of the rules.

**Policy.** Identities, scopes and patterns are sequences of words, with `/`
and `:` as words; `pathMatch` is Go's `path.Match` on them (`*` does not cross
a slash), `matchPattern` lets a lone `*` match everything, `evaluateTier` takes
the first rule that matches. `TiersAreStrict` asks of the default rules, over
all identities of up to three path segments and all scopes of up to three parts
joined by `:` or `/`, the least that their comments ask of the identities that
their patterns name.

**X402.** `VerifyPayment` begins the API call of `CB4A` for a token whose scope
is the price; `CallStep` is `CB4A`'s continuation inside `Verify`; `CheckPayer`
validates the agent token last, as `Verify` does.

**InMemoryResolver, HTTPResolver.** `Hit`, `Miss`, `Evict` are the operations
on the `sync.Map`; the first resolver reads its registry under the lock and
verifies afterwards (`ReadRegistry`, `CheckSS`, `CheckEC`, `Store`); the second
fetches one statement at a time (`FetchEC`, then `SkipHint`, `FetchSS`,
`Verify` per hint). `Publish` and `Certify` change what servers answer between
two fetches. An entity's key is one key: key sets with several are abstracted.

**Memory.** Slices are modelled as Go has them, since the properties hang on
them: a length over a shared backing array (`heap`, `entries`), `append` that
fills spare capacity or doubles, `Delete` that shifts in place. `Read` copies
the slice header and walks the array without the lock, and the slots `Delete`
overwrites become visible in any order: a data race has no order.

**TokenExchange.** A set of signed tokens grows; the exchanges
`OBOIssuer.Issue` and `GrantIssuer.Issue` run in steps (`BeginIssue`,
`ValidateUser`, `SignOBO`; `BeginGrant`, `SignGrant`) over it, and
`Authenticate` gives an access token for an agent token. Validators have
no state and are operators (`OBOAccepts`, `GrantAccepts`). `Signer` maps roles
to signing authorities, which may coincide. Each token carries one field that is
history, `asked`: when the request for it came in.

## What the runs check

All runs finish within two minutes on two cores; the largest explores 1.8
million distinct states.

| run | what it asks | properties | states |
|---|---|---|---|
| `replay_races` | two replay-checked calls and one that is not race over two proofs while time passes their expiry | `AtMostOnceWhileLive`, `AcceptanceSpends`, `ImplementsReplayWindow` | 575 k |
| `gateway` | two requests, good or wrong at one gate each, with small and large bodies, for a tool or for `AgentAuth`, one by a federated agent whose token expires on the way, and retries of one another, race two SET pushes and the clock, before an authorization service that may deny, defer or fail, with mTLS | `AckedRevocationHolds`, `ForwardedIsVouched`, `ProofBuysOneDecision`, `ParamsAreWhatIsSent`, `ImplementsReplayWindow` | 1.4 M |
| `gateway_operator` | the in-memory authorizer while rules are added, for the gateway and for `AgentAuth`, with further faulty requests (no leaf, no subject, a gap in the chain, no `jti`); two deliveries of SETs race | `ForwardedIsVouched`, `DuplicateEventuallyApplied` | 133 k |
| `cb4a_payments` | evaluation under the default rules, approval, denial, minting, calls and payments over two requests, two tokens and one proof | the invariants of `CB4A` and `X402`, `ImplementsCB4A`, `ImplementsBroker` | 847 k |
| `cb4a_verdicts` | three goroutines decide on two requests while signing may fail; the default rules read side by side | `RulesAreStrict`, `VerdictIsRecorded` | 33 k |
| `federation` | two `Resolve` calls of either resolver during a key rotation, expiries and failing fetches | `AnswersAreChained`, `AnswersAreLive`, `CacheIsCurrent`, `RefusedForCause`, `ImplementsResolver` | 404 k |
| `memory` | writes, deletions, tampering and reads of one list | `ReadReturnsStored`, `ReadIsIntact`, `AuditAddsUp`, `ImplementsEntryList` | 518 k |
| `exchange` | exchanges of agent, user and SD-JWT tokens, and client authentication, while expiry and further issuance fall between validating and signing, one authority signing for every role | `DelegationIsGenuine`, `EmailOnlyByChoice`, `GrantIsGenuine` | 1.8 M |

and `TypeOK` where the module has one (`PaymentTypeOK` for `CB4A` and `X402`
together). What the less obvious properties say:

* `ImplementsReplayWindow`: the interleaved calls, with sweep times that may be
  stale and out of order, behave as a register that decides each call in one
  step and forgets an identifier only after its window has closed. In the run
  `gateway` it is the gateway that does: a request that is admitted past the proof
  gate spends its proof, one that is refused as a replay showed a spent one, and
  a request that another gate refuses changes nothing.
* `AcceptanceSpends`: the store holds a jti only because a call that showed it was
  accepted, and a call is refused as a replay only because another was accepted.
* `OneOutcome`: one verdict in the log, and at most one signed decision, per request.
* `AckedRevocationHolds` compares a request with the acknowledgements given
  *before it arrived*; a request under way when the revocation comes may still
  be forwarded, and the code means it to.
* `ProofBuysOneDecision` holds for denials and authorizer errors too: a client
  that got a 500 needs a fresh proof.
* `ParamsAreWhatIsSent` relates the parameters that were authorized to the body
  the upstream gets: a body that is cut is never authorized as one thing and
  forwarded as another.
* `ForwardedIsVouched` looks at a forwarded request from its end: an issuer that
  is trusted at this entrance for the leaf and for every hop, the certificate and
  the rule for the leaf's subject, a proof that the leaf's key signed over that
  chain and that tool, and none of the tokens past its time when the request came
  in, although the gates read the clock one after another and the resolver is
  asked in between. The proof is the only tie between leaf and chain: see the
  first of the other divergences.
* `RulesAreStrict`: whoever a rule names as an administrator is asked for MFA, a
  pipeline waits for a human, and nobody is approved at once but for a slashless
  read or the payment of 50. It is one-sided: it does not say that everybody the
  comments mean is named by a rule, which is false.
* `VerdictIsRecorded`: a denial, and an approval that was signed, is sooner or
  later in the log, although it took effect before.
* `SpentIsServed`: the replay store of the CDP, which forgets nothing, holds only
  proofs that bought a call or are buying it.
* `AuditTellsTheStory` is about different goroutines: the approver logs after
  the verdict took effect, and yet no minting precedes its approval in the log.
* `ImplementsCB4A`: with payments hidden, every step is a step of the broker.
* `ImplementsBroker`: what is seen of the broker from outside (human approvals,
  every entry of the log that is a verdict, credentials in agents' hands, the
  number of calls each proof got) moves as `Broker` says. Verdicts and calls are
  counted, so that a second verdict on a request, or a second call on a proof, is
  a step that `Broker` does not have; nor has it one that issues an elevated
  credential without a human, or refuses what a human approved.
* `DelegationIsGenuine`, `GrantIsGenuine`: a delegated token, a grant or an access
  token may outlive what it was made of, and may be signed after that expired;
  but what it was made of was live when it was asked for.
* `ImplementsEntryList`: to its writers the store is a list that each `Write` and
  each `Delete` changes in one step. A `Delete` takes its effect when it has found
  the entry, under the lock, and the slots it has yet to overwrite are read
  through what it is about to put there (`contents`). `Read` is no step of the
  list, because it does not read the list in one moment: what it returns is the
  subject of `ReadReturnsStored` and of `memory_read`.
* `ImplementsResolver`: a call of either resolver is given, once, the key of one
  configuration and one statement that were known together, of which neither had
  expired when the call began, to be kept no longer than either lives; or an
  error. Caches, fetches and registrations are hidden. For the
  `HTTPResolver`, which sees no registry, every chain that can be published counts
  as known.
* `RefusedForCause` is the completeness of `HTTPResolver`: if no fetch failed
  and nothing changed under the call, then no hint led to a live chain.
* `EmailOnlyByChoice`: one user token grants subject, scope and address
  together; a disclosure that belongs to another token is refused.

## What the runs disprove

Four runs check a sentence of the repository that the code does not satisfy.

| run | property | sentence | what happens |
|---|---|---|---|
| `replay_eviction` | `EvictionReopensNothing` | `pkg/identity/store.go:32` evicting an expired jti cannot reopen a replay window | a proof expires after the parser's check and before the locked region of `Record`; it is swept, and accepted again |
| `gateway_federated` | `ResolvableChainsPass` | `README.md:515`, `internal/gateway/server.go:29` federated agents are validated without key configuration | the fallback admits the leaf, and the chain is validated against the static validators only |
| `cb4a_mfa` | `MfaNeedsPasskey` | `pkg/cb4a/pdp.go:25` `TierMFA` requires FIDO2/MFA verification | `Approve` does not look at the tier |
| `memory_read` | `ReadReturnsAll` | `pkg/memory/memory.go:190` `Read` returns all entries of the agent | `Delete` shifts the array under a `Read`, which skips one entry and may return another twice |

Other divergences seen while modelling, for which no run is kept.

* The identity token need not be in the chain. `README.md:88` and `:120` and
  `docs/gateway.md:14` show it as AT-N, the last token of the chain, and
  `docs/gateway.md:42` authorizes "AT-N.sub"; `internal/gateway/server.go:102-200`
  validates the two headers apart, authorizes the identity token's subject, and
  relates them only by the proof, which the identity token's key signs over the
  text of the chain. A workload with a token of a trusted issuer may thus show a
  chain that others were given. The model forwards such requests (`OrgHop` with
  `Path` in `MCGateway`), and no property asks for more.
* `pkg/cb4a/pdp.go:54`: "Admin identities always require MFA". `*` does not cross
  a slash, so only those exactly one level below `<domain>/admin` are asked for
  it; `<domain>/admin` itself and `<domain>/admin/a/b` fall to the later, laxer
  rules, under which their reads are approved at once (theorem
  `AdminsFallThrough`).
* `pkg/cb4a/pdp.go:61`: "micro-payments up to 50 credits are auto-approved". The
  pattern compares words: only the scope of exactly 50 matches, and a smaller
  payment waits for a human (theorem `OnlyFiftyIsAuto`). A scope with two colons
  that ends in `:read` matches `*:read` already, so `*:*:read` is redundant.
* `internal/gateway/server.go`: the comment on `verifyMTLSBinding` speaks of the
  first URI name of a certificate and the code accepts any. The comment on
  `extractToolParams` (line 257) says that it restores the body: of one beyond a
  megabyte only the first megabyte is put back, so one that is sent in chunks
  reaches the upstream cut, and one with a declared length ends in a 502.
* `internal/authz/middleware.go`: `AgentAuth` consults neither the revoked set
  nor a client certificate nor a resolver, and always builds an `https` URI.
  `escapeURI` (`internal/authz/authz.go:215`) maps different characters to one.
* `pkg/cb4a/pdp.go:223` ignores the error of `Append`, on which `cdp.go:188` keeps
  the token back. As `AuditLog` stands, `Append` never fails.
* `pkg/identitychaining`: `NewGrantIssuer` keeps a negative lifetime that its
  comment replaces; `GrantValidator` keeps no store for the jti that "prevents
  replay".
* `pkg/txntoken`: issuer and comment speak of the audiences that "will accept
  this token" (`issuer.go:35`); `Validator` reads no audience.
* `pkg/obo`: `OBOIssuer` refuses a scope that exceeds the user's where its
  comment speaks of an intersection.
* `pkg/spiffeclientauth`: the "granted scope" is the scope that was asked for.

## Bounds

Every bound is a constant: `MaxTime` stops the clock, `MaxAudit` lets no CB4A
call begin once the log is that long, `MaxTokens` lets no token be issued,
`MaxAlarms` caps two counters, `Serials` caps writes. They are bounds on
exploration: the calls under way always run to their end.

* Two goroutines are what the races need: one that acts between the two steps of
  another. Three where a bystander matters (a call without replay check; an
  approver, a denier and an agent).
* `MaxTime = 2` with lifetimes of 1 and 2 gives a tick before, at and after each
  expiry, and lets one credential outlive another.
* Two proofs or tokens, so that a mix-up is visible; one identifier where the
  property is about its reuse.
* `gateway` takes the SETs that revoke; those of other event types change nothing
  but the seen identifiers, and are in `gateway_operator`.
* `Federation`: one entity, three anchors of which one is not trusted, two
  configurations and four statements, with a rotation that drops an anchor.
* Bodies: none, one block and two, of declared and of unknown length, which are
  the cases that `extractToolParams` tells apart.
* `Policy`: three path segments are one more than the patterns name, and three
  parts with either separator reach every rule and every way to miss one; the
  enumeration is an operator evaluated while the log is empty. The theorem
  `DefaultTiers`, on which `RulesAreStrict` rests, has no such bounds.
* `Memory`: three writes force two reallocations and leave a stale slot behind.
  One agent, since agents share only the lock; the theorems hold for any number.
* `TokenExchange`: four tokens suffice for an agent token, two user tokens and
  a delegated one. One goroutine runs exchanges: they share no state but the
  set of tokens, which the issuing actions extend in between.
* Requests, statements and SETs are enumerated as good ones and ones that are
  wrong at one place each; every refusal is reached.

Symmetry is declared only over model values that the specification treats
alike, and never in a run with a liveness property. `CHECK_DEADLOCK` is off
because each bounded instance ends: a request is answered and not repeated, the
clock stops, the log is full.

## Fairness

Only two runs need it. `Gateway!FairSpec` schedules each of the three steps of a
push that was received: net/http runs the handler to its end, and none of the
steps waits for anything but a mutex that is held briefly. `CB4A!FairSpec` does
the same for `Continue`, the rest of a call that has begun; it does not oblige
anyone to begin one, and `IssueFails` remains possible. Time, requests,
approvers and the network are never fair.

## What is proved

For every value of the constants that satisfies the named assumptions (subset,
typing and bound assumptions; that `None` is no proof, token, decision, entry or
resolved entity; in `Gateway`, that one `jti` names one proof and one SET; in
`Memory`, that there are finitely many goroutines).

**ProofReplayProofs** — `TypeCorrect`, `SingleUse` (`AtMostOnceWhileLive`),
`SpentByAcceptance` (`AcceptanceSpends`),
`Refinement` (`ImplementsReplayWindow`). None of the
properties is inductive: a store that had lost an accepted jti would admit it
again. `IInv` adds that a jti names one proof (`OneProofPerJti`), that calls
hold issued proofs, that the store keeps a jti with *its proof's* expiry
(`SeenExpiry`), that no sweep time lies in the future (`TimesPast`), and from
these `AcceptedRemembered`: an accepted jti is in the store until its proof has
expired, since a sweep with a time `t <= clock` evicts only what is past `t`.
The refinement maps the store's domain to the spent set and the proofs' expiries
to windows; `EvictedAreClosed` turns a sweep into a lapse.

**CB4AProofs** — `TypeCorrect`, `SingleVerdict` (`OneOutcome`), `HumanBehindToken` (`ElevatedNeedsHuman`),
`LogTellsTheStory`, `OneCallPerProof`, `NothingSpentInVain` (`SpentIsServed`),
`KeepsPromise` (`ImplementsBroker`). `IInv` has layers, each proved with the
ones before it: types; `InFlightLogged`, that whatever a goroutine, an agent or
the PDP holds has its cause in the log already; `VerdictInv`, that the right to
log a verdict on a request has one owner (a parked request that is still
pending, or one goroutine on its way to the log); `BackedInv`, that every
decision and token above the automatic tier, also one in a local variable, has
an approved request behind it; `ServedInv`, that a proof that was served, or
that a goroutine is about to serve, is in the store, and only once. The
refinement of `Broker` follows from `IInv` action by action: most steps stutter,
`Resolve` is a human's approval, an append to the log grants or refuses,
`ReturnToken` issues and `ReturnCall` buys: `VerdictInv` says that the log holds
no verdict yet when one is appended (`RuledAfter`), and `ServedInv` that the proof
has bought nothing yet. Nothing is assumed of the rules. `NothingLaxer`
(`RulesAreStrict`) is about the default rules, and follows from `PolicyProofs`.

**PolicyProofs** — `MatchIsAlignment`: `pathMatch`, a recursive function over the
words of a pattern, matches exactly if the value can be cut into as many runs of
words as the pattern has words, each run taken by its word. `DefaultTiers`: for
identities and scopes of every length, the exact conditions under which the
default rules ask for MFA and approve at once. They are what the patterns do, and
less than two of the comments say: `AdminsFallThrough` and `OnlyFiftyIsAuto` are
the comments' refutations, and `DefaultStrict` what is left of them.
The library's induction theorems cannot be used, so `LeastNat` derives the least
element of a set of naturals from the well-foundedness of the subset ordering
on finite sets (`WFMin`), and `InductionOverNat` states induction for a
*set* of naturals; `EndsAreCuts` uses it for the function. The lemmas after it
say what each default pattern matches, and `FirstMatch` that the first matching
rule decides.

**GatewayProofs** — `TypeCorrect`, `RevocationHolds` (`AckedRevocationHolds`),
`Vouched` (`ForwardedIsVouched`), `ParamsMatchBody` (`ParamsAreWhatIsSent`),
`OneDecision` (`ProofBuysOneDecision`). The
properties speak of requests that have been answered; `IInv` says what holds of
them on the way: `GatesPassed`, that a request behind a gate has passed it (and
that rules are only ever added), with tokens that were live on arrival, since the
clock that a gate reads is never earlier; `RevocationInv`, that what a dispatched SET
revokes is in the revoked set, which only grows; `Remembered`, that the proof
of a decided request is in the store with its expiry until that has passed.
`KeepsReplayWindow` (`ImplementsReplayWindow`) adds `SeenIsShown`, that the store
holds only proofs that were shown, with their expiries, and maps each gate to
an open call, a refusal or the decision of the register. The
request a goroutine serves is any of `Traffic`: the proof does not depend on
which tokens, chains and proofs are combined.

**X402Proofs** — `Implementation` (`ImplementsCB4A`): hidden payments are
stuttering or steps of the broker, so `CB4AProofs!IInv` holds under payments.
`PromiseUnderPayments` is the promise of the broker through both refinements.
`PaymentTypeCorrect`, `OnePaymentPerProof`, `AuthorizedPayments` rest on it and
on `VerifyLocals` and `ProofSpent`: a proof that has paid, or whose goroutine
is about to check the payer, has bought its one API call already.
`LoggedPayments` (`PaymentsAreLogged`) counts by matching: `PaidLogged` keeps,
beside the state, an injection from the proofs that have paid, or are about to,
to the entries of the log about their calls, and extends it when `ReturnCall`
logs one.

**TokenExchangeProofs** — `TypeCorrect`, `GenuineDelegation`,
`DisclosedByChoice`, `GenuineGrants`. `IInv` follows what an exchange holds in
its locals (`CallsGenuine`) from the tokens it was read from, which were live
then and so when the exchange began, to the token it signs (`TokensGenuine`); since tokens are never taken back, what backs a token
stays (`BackingGrows`). Nothing is assumed about which authority signs for which
role.

**FederationProofs** — `TypeCorrect`, `ChainedAnswers` (`AnswersAreChained`),
`LiveAnswers` (`AnswersAreLive`), `CurrentCache` (`CacheIsCurrent`),
`CausedRefusals` (`RefusedForCause`), for any number of entities, anchors, hints
and statements. For the `InMemoryResolver`, `Sound` says that registry and cache
hold only what was registered together, and `Honest` what a call has verified of
the statements it read, when they were read; a registration that overtakes a call
marks its entity as raced, and only for those may the cache differ from the
registry. For the `HTTPResolver`, `Certified` and `Verified` say the same of
cache and calls, and `Thorough` that a call which nothing disturbed has left
behind only hints that lead nowhere. `KeepsContract` (`ImplementsResolver`) rests
on those, and on `AtRest` and `Genuine`: a call that is idle asks for nothing,
and what was registered together is a chain.

**MemoryProofs** — `TypeCorrect`, `ReadsAreStored` (`ReadReturnsStored`),
`ReadsAreIntact` (`ReadIsIntact`), `AuditAccounts` (`AuditAddsUp`). The core is
`Window`: every slot that a `Read` has yet to load holds an entry that was stored
since it began. A `Write` puts a new entry into a free slot or moves to a new
array; a `Delete`, of which one at a time holds the lock, moves entries of the
list within it (`Shift`), so a slot that is overwritten under a `Read` again
holds an entry it may return. That it may skip one is what `memory_read` shows.
`KeepsLists` (`ImplementsEntryList`) needs that one goroutine shifts at a time
(`Mutex`): then the list without the deleted entry is the array with the pending
slots filled in (`Held`), which no `ShiftSlot` changes (`ShiftIsHidden`), and an
`append` that moves the list to a new array copies it (`InsertIsWrite`).

A theorem's module has one lemma per layer with one step per action.

### What is only model-checked

* Liveness, which the prover cannot reach: `DuplicateEventuallyApplied`,
  `VerdictIsRecorded`.
* The four sentences of the repository that the code does not satisfy.

Every other property of a run is a theorem.

## What is not modelled

* `webauthn`: parsing and signature checks of one assertion, without state.
  `ApproveWithPasskey` takes a verified assertion as given.
* `keys`: key pairs, thumbprints and certificates over the standard library. A
  key is a model value, and a certificate the list of its URI names.
* `cmd/gateway`: the wiring of the parts at start. Nothing is persisted and there
  is no recovery code, so a restart is a new behaviour from `Init`, with an empty
  replay store and an empty revoked set, which `docs/security.md` names as a
  limitation; no property spans it.
* `cmd/demo-wasm`, `demo/`: scripted demonstrations that call the packages in a
  fixed order. `scripts/`: a check of standards references.
* `txntoken.Validator`: no other part takes what it accepts. Issued transaction
  tokens are in `TokenExchange`, since one authority may sign them next to user
  and agent tokens.
* Parts of modelled packages: the wire formats (JWT, SD-JWT, JWKS with several
  keys, chain strings); URL construction; the OpenFGA client, which is a service
  that may answer anything; registration of SSF handlers at run time, which
  nothing in the repository does after start; the scope of client
  authentication; the lifetime that a caller may choose for a transaction token,
  and a requested scope of blanks only; the detectors' patterns in `memory`; nested actors.

## Plan

Done, in this order: `ReplayWindow` and `ProofReplay` with proofs; `Gateway`;
`CB4A` with proofs; the resolvers and `Federation`; `Memory`; `X402`;
`TokenExchange`; the proofs about `Gateway`, `X402` and `TokenExchange`; `Policy`
and repeated envelopes; `Broker` and its refinement; bodies and `AgentAuth` in
`Gateway`; client authentication; `FederationProofs`; `MemoryProofs`; the
counting of payments; the proofs about `pathMatch` and the default rules; the
refinements of `ReplayWindow` by `Gateway`, of `EntryList` by `Memory` and of
`Resolver` by `Federation`.

Next, most important first:

1. Composition of `Gateway` with `Resolver` in place of the free `ResolveFails`: a
   leaf that is admitted through the fallback rests on a chain that was live
   when the request arrived. `Federation` implements `Resolver`, so it holds for
   both resolvers.
2. An abstract exchange that `TokenExchange` implements: what was granted, by
   whom and to whom, without tokens and validators.
3. What a `Read` returns against `EntryList` when nothing is deleted under it: a
   prefix-closed view of the list, in order.
