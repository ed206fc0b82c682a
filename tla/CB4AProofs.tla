----------------------------- MODULE CB4AProofs -----------------------------
(***************************************************************************)
(* Proofs about CB4A for every number of goroutines, requests, tokens,     *)
(* proofs and tasks, for every tier function and all lifetimes.  The       *)
(* inductive invariant IInv is built in layers, each resting on the ones   *)
(* before it: types, what the log says of everything in flight, who owns   *)
(* the verdict on a request, what backs a token, what a proof has bought.  *)
(***************************************************************************)
EXTENDS CB4A, PolicyProofs

-----------------------------------------------------------------------------
(* The log *)

\* What AuditLog.Append does to the entries (audit.go:50-59).
LEMMA EntryAppended ==
    ASSUME audit \in Seq([event : Events, req : ReqIds]),
           NEW e \in Events, NEW r \in ReqIds, LogEntry(e, r)
    PROVE  /\ audit' \in Seq([event : Events, req : ReqIds])
           /\ DOMAIN audit = 1..Len(audit) /\ Len(audit) \in Nat
           /\ DOMAIN audit' = 1..(Len(audit) + 1)
           /\ \A i \in DOMAIN audit : audit'[i] = audit[i]
           /\ audit'[Len(audit) + 1] = [event |-> e, req |-> r]
BY DEF LogEntry

\* After an append exactly one more thing is logged.
LEMMA LoggedAfter ==
    ASSUME audit \in Seq([event : Events, req : ReqIds]),
           NEW e \in Events, NEW r \in ReqIds, LogEntry(e, r)
    PROVE  \A f, q : Logged(f, q)' <=> Logged(f, q) \/ (f = e /\ q = r)
<1>1. /\ DOMAIN audit = 1..Len(audit) /\ Len(audit) \in Nat
      /\ DOMAIN audit' = 1..(Len(audit) + 1)
      /\ \A i \in DOMAIN audit : audit'[i] = audit[i]
      /\ audit'[Len(audit) + 1] = [event |-> e, req |-> r]
  BY EntryAppended
<1> QED BY <1>1 DEF Logged

\* A step that leaves the log alone changes nothing that is logged.
LEMMA LoggedSame ==
    ASSUME UNCHANGED audit
    PROVE  \A f, q : Logged(f, q)' <=> Logged(f, q)
BY DEF Logged

\* An append keeps "after follows before" if what it logs has its cause in the
\* log already.
LEMMA FollowsAfter ==
    ASSUME audit \in Seq([event : Events, req : ReqIds]),
           NEW e \in Events, NEW r \in ReqIds, LogEntry(e, r),
           NEW a, NEW b, Follows(a, b), e = a => Logged(b, r)
    PROVE  Follows(a, b)'
<1>1. /\ DOMAIN audit = 1..Len(audit) /\ Len(audit) \in Nat
      /\ DOMAIN audit' = 1..(Len(audit) + 1)
      /\ \A i \in DOMAIN audit : audit'[i] = audit[i]
      /\ audit'[Len(audit) + 1] = [event |-> e, req |-> r]
  BY EntryAppended
<1> SUFFICES ASSUME NEW i \in DOMAIN audit', audit'[i].event = a
             PROVE  \E j \in 1..(i - 1) :
                        audit'[j].event = b /\ audit'[j].req = audit'[i].req
  BY DEF Follows
<1>2. CASE i \in DOMAIN audit
  <2>1. PICK j \in 1..(i - 1) : audit[j].event = b /\ audit[j].req = audit[i].req
    BY <1>1, <1>2 DEF Follows
  <2>2. j \in DOMAIN audit
    BY <1>1, <1>2, <2>1
  <2> QED BY <1>1, <1>2, <2>1, <2>2
<1>3. CASE i = Len(audit) + 1
  <2>1. e = a /\ audit'[i].req = r
    BY <1>1, <1>3
  <2>2. PICK j \in DOMAIN audit : audit[j].event = b /\ audit[j].req = r
    BY <2>1 DEF Logged
  <2>3. j \in 1..(i - 1)
    BY <1>1, <1>3, <2>2
  <2> QED BY <1>1, <2>1, <2>2, <2>3
<1> QED BY <1>1, <1>2, <1>3

-----------------------------------------------------------------------------
(* Types *)

LEMMA StepTypeOK == TypeOK /\ [Next]_vars => TypeOK'
<1> SUFFICES ASSUME TypeOK, [Next]_vars
             PROVE  TypeOK'
  OBVIOUS
<1> USE DEF TypeOK
<1>t. audit \in Seq([event : Events, req : ReqIds])
  OBVIOUS
<1>1. CASE Tick
  BY <1>1, BoundAssumption DEF Tick, shared, held, local
<1>2. ASSUME NEW t \in tokens, NEW j \in Jtis, GenerateDPoPProof(t, j)
      PROVE  TypeOK'
  <2>1. [jti |-> j, token |-> t.id, exp |-> clock + ProofTTL] \in Proof
    BY TTLAssumption, BoundAssumption DEF Proof, Token
  <2> QED BY <1>2, <2>1 DEF GenerateDPoPProof, shared, local
<1>3. ASSUME NEW c \in Callers, NEW r \in ReqIds, NEW t \in Tasks, Evaluate(c, r, t)
      PROVE  TypeOK'
  <2>1. [req |-> r, task |-> t, via |-> "auto", exp |-> 0] \in Decision
    BY DEF Decision
  <2>2. audit' \in Seq([event : Events, req : ReqIds])
    BY <1>3, <1>t, EntryAppended DEF Evaluate, Events
  <2> QED BY <1>3, <2>1, <2>2, NoneAssumption DEF Evaluate, Goto, held, Stages
<1>4. ASSUME NEW c \in Callers, NEW r \in ReqIds, NEW v \in {"approved", "denied"},
             NEW w \in {"approver", "passkey"}, NEW n \in {"sign", "denied"},
             Resolve(c, r, v, w, n)
      PROVE  TypeOK'
  <2>1. [req |-> r, task |-> pending[r].task, via |-> w, exp |-> 0] \in Decision
    BY <1>4 DEF Decision, Resolve
  <2> QED BY <1>4, <2>1, NoneAssumption DEF Resolve, Goto, held, Stages
<1>5. ASSUME NEW c \in Callers, NEW d \in decisions, ParseDecision(c, d)
      PROVE  TypeOK'
  BY <1>5, NoneAssumption DEF ParseDecision, Goto, shared, held, Stages
<1>6. ASSUME NEW c \in Callers, NEW t \in tokens, NEW p \in proofs, ParseCall(c, t, p)
      PROVE  TypeOK'
  BY <1>6, NoneAssumption DEF ParseCall, Goto, shared, held, Stages
<1>7. ASSUME NEW c \in Callers, Park(c)
      PROVE  TypeOK'
  <2>1. decision[c] \in Decision
    BY <1>7 DEF Park, Return, Goto
  <2> QED BY <1>7, <2>1 DEF Park, Return, Goto, held, Stages, Decision
<1>8. ASSUME NEW c \in Callers, IssueDecision(c)
      PROVE  TypeOK'
  <2>1. decision[c] \in Decision
    BY <1>8 DEF IssueDecision, Goto
  <2>2. [req |-> decision[c].req, task |-> decision[c].task, via |-> decision[c].via,
         exp |-> clock + DecisionTTL] \in Decision
    BY <2>1, TTLAssumption, BoundAssumption DEF Decision
  <2> QED BY <1>8, <2>2, NoneAssumption DEF IssueDecision, Goto, shared, held, Stages
<1>9. ASSUME NEW c \in Callers, IssueFails(c)
      PROVE  TypeOK'
  BY <1>9 DEF IssueFails, Return, Goto, shared, held, Stages
<1>10. ASSUME NEW c \in Callers, ReturnDecision(c)
       PROVE  TypeOK'
  <2>1. decision[c] \in Decision /\ decision[c].req \in ReqIds
    BY <1>10 DEF ReturnDecision, Return, Goto, Decision
  <2>2. audit' \in Seq([event : Events, req : ReqIds])
    BY <1>10, <1>t, <2>1, EntryAppended DEF ReturnDecision, Events
  <2> QED BY <1>10, <2>1, <2>2 DEF ReturnDecision, Return, Goto, Stages
<1>11. ASSUME NEW c \in Callers, ReturnDenial(c)
       PROVE  TypeOK'
  <2>1. decision[c].req \in ReqIds
    BY <1>11 DEF ReturnDenial, Return, Goto, Decision
  <2>2. audit' \in Seq([event : Events, req : ReqIds])
    BY <1>11, <1>t, <2>1, EntryAppended DEF ReturnDenial, Events
  <2> QED BY <1>11, <2>2 DEF ReturnDenial, Return, Goto, held, Stages
<1>12. ASSUME NEW c \in Callers, NEW i \in TokenIds, SignToken(c, i)
       PROVE  TypeOK'
  <2>1. decision[c] \in Decision
    BY <1>12 DEF SignToken, Goto
  <2>2. [id |-> i, req |-> decision[c].req, task |-> decision[c].task,
         exp |-> clock + TokenTTL] \in Token
    BY <2>1, TTLAssumption, BoundAssumption DEF Decision, Token
  <2> QED BY <1>12, <2>2, NoneAssumption DEF SignToken, Goto, shared, held, Stages
<1>13. ASSUME NEW c \in Callers, ReturnToken(c)
       PROVE  TypeOK'
  <2>1. token[c] \in Token /\ token[c].req \in ReqIds
    BY <1>13 DEF ReturnToken, Return, Goto, Token
  <2>2. audit' \in Seq([event : Events, req : ReqIds])
    BY <1>13, <1>t, <2>1, EntryAppended DEF ReturnToken, Events
  <2> QED BY <1>13, <2>1, <2>2 DEF ReturnToken, Return, Goto, Stages
<1>14. ASSUME NEW c \in Callers, RecordJTI(c)
       PROVE  TypeOK'
  <2>1. proof[c].jti \in Jtis
    BY <1>14 DEF RecordJTI, Goto, Proof
  <2> QED BY <1>14, <2>1 DEF RecordJTI, Goto, held, Stages
<1>15. ASSUME NEW c \in Callers, ReturnReplay(c)
       PROVE  TypeOK'
  <2>1. token[c].req \in ReqIds
    BY <1>15 DEF ReturnReplay, Return, Goto, Token
  <2>2. audit' \in Seq([event : Events, req : ReqIds])
    BY <1>15, <1>t, <2>1, EntryAppended DEF ReturnReplay, Events
  <2> QED BY <1>15, <2>2 DEF ReturnReplay, Return, Goto, held, Stages
<1>16. ASSUME NEW c \in Callers, ReturnCall(c)
       PROVE  TypeOK'
  <2>1. token[c].req \in ReqIds
    BY <1>16 DEF ReturnCall, Return, Goto, Token
  <2>2. audit' \in Seq([event : Events, req : ReqIds])
    BY <1>16, <1>t, <2>1, EntryAppended DEF ReturnCall, Events
  <2>3. served' \in [Jtis -> Nat]
    <3>1. proof[c].jti \in Jtis
      BY <1>16 DEF ReturnCall, Return, Goto, Proof
    <3> QED BY <1>16, <3>1 DEF ReturnCall
  <2> QED BY <1>16, <2>2, <2>3 DEF ReturnCall, Return, Goto, Stages
<1>17. CASE UNCHANGED vars
  BY <1>17 DEF vars, shared, held, local
<1> QED
  BY <1>1, <1>2, <1>3, <1>4, <1>5, <1>6, <1>7, <1>8, <1>9, <1>10, <1>11, <1>12,
     <1>13, <1>14, <1>15, <1>16, <1>17
  DEF Next, Begin, Continue, Approve, ApproveWithPasskey, Deny

-----------------------------------------------------------------------------
(* What the log says of everything in flight *)

\* Every parked request has been evaluated.
PendingLogged == \A r \in DOMAIN pending : Logged("policy_evaluated", r)

\* Decisions and tokens in agents' hands are in the log.
HeldLogged ==
    /\ \A d \in decisions : Logged("approved", d.req)
    /\ \A t \in tokens : Logged("credential_minted", t.req)

\* A goroutine works on a request, a decision or a token that is in the log.
Working(c) == pc[c] \in {"park", "sign", "approved", "denied"}

CallersLogged ==
    \A c \in Callers :
        /\ Working(c) => Logged("policy_evaluated", decision[c].req)
        /\ pc[c] = "mint" => Logged("approved", decision[c].req)
        /\ pc[c] = "minted" => Logged("approved", token[c].req)
        /\ pc[c] \in {"record", "authorized", "replayed"}
           => Logged("credential_minted", token[c].req)

InFlightLogged == PendingLogged /\ HeldLogged /\ CallersLogged

\* The log keeps telling the story if what is appended has its cause there.
LEMMA StoryAfter ==
    ASSUME audit \in Seq([event : Events, req : ReqIds]),
           NEW e \in Events, NEW r \in ReqIds, LogEntry(e, r), AuditTellsTheStory,
           e \in {"api_call", "replay_rejected"} => Logged("credential_minted", r),
           e = "credential_minted" => Logged("approved", r),
           e \in {"approved", "denied"} => Logged("policy_evaluated", r)
    PROVE  AuditTellsTheStory'
<1>1. Follows("api_call", "credential_minted")'
  BY FollowsAfter DEF AuditTellsTheStory
<1>2. Follows("replay_rejected", "credential_minted")'
  BY FollowsAfter DEF AuditTellsTheStory
<1>3. Follows("credential_minted", "approved")'
  BY FollowsAfter DEF AuditTellsTheStory
<1>4. Follows("approved", "policy_evaluated")'
  BY FollowsAfter DEF AuditTellsTheStory
<1>5. Follows("denied", "policy_evaluated")'
  BY FollowsAfter DEF AuditTellsTheStory
<1> QED BY <1>1, <1>2, <1>3, <1>4, <1>5 DEF AuditTellsTheStory

LEMMA StorySame == ASSUME AuditTellsTheStory, UNCHANGED audit
                   PROVE  AuditTellsTheStory'
BY DEF AuditTellsTheStory, Follows

LEMMA StepStory ==
    TypeOK /\ InFlightLogged /\ AuditTellsTheStory /\ [Next]_vars
        => InFlightLogged' /\ AuditTellsTheStory'
<1> SUFFICES ASSUME TypeOK, InFlightLogged, AuditTellsTheStory, [Next]_vars
             PROVE  InFlightLogged' /\ AuditTellsTheStory'
  OBVIOUS
<1> USE DEF InFlightLogged, PendingLogged, HeldLogged, CallersLogged, Working
<1>t. audit \in Seq([event : Events, req : ReqIds])
  BY DEF TypeOK
<1>p. pc \in [Callers -> Stages] /\ decision \in [Callers -> Decision \cup {None}]
      /\ token \in [Callers -> Token \cup {None}]
  BY DEF TypeOK
<1>1. ASSUME Tick \/ (\E t \in tokens, j \in Jtis : GenerateDPoPProof(t, j))
             \/ UNCHANGED vars
      PROVE  InFlightLogged' /\ AuditTellsTheStory'
  <2>1. UNCHANGED <<pending, audit, decisions, tokens, local>>
    BY <1>1 DEF Tick, GenerateDPoPProof, vars, shared, held
  <2>2. \A f, q : Logged(f, q)' <=> Logged(f, q)
    BY <2>1, LoggedSame
  <2> QED BY <2>1, <2>2, StorySame DEF local
<1>2. ASSUME NEW c \in Callers, NEW r \in ReqIds, NEW t \in Tasks, Evaluate(c, r, t)
      PROVE  InFlightLogged' /\ AuditTellsTheStory'
  <2>1. r \in ReqIds /\ "policy_evaluated" \in Events
    BY <1>2 DEF Evaluate, Goto, held, TypeOK, Events
  <2>2. LogEntry("policy_evaluated", r)
    BY <1>2 DEF Evaluate
  <2>3. \A f, q : Logged(f, q)' <=> Logged(f, q) \/ (f = "policy_evaluated" /\ q = r)
    BY <1>t, <2>1, <2>2, LoggedAfter
  <2>4. AuditTellsTheStory'
    BY <1>2, <1>t, <2>1, <2>2, StoryAfter DEF Evaluate, Goto, held
  <2> QED BY <1>2, <1>p, <2>3, <2>4 DEF Evaluate, Goto, held
<1>3. ASSUME NEW c \in Callers, NEW r \in ReqIds, NEW v, NEW w,
             NEW n \in {"sign", "denied"}, Resolve(c, r, v, w, n)
      PROVE  InFlightLogged' /\ AuditTellsTheStory'
  <2>1. UNCHANGED audit
    BY <1>3 DEF Resolve, Goto, held
  <2>2. \A f, q : Logged(f, q)' <=> Logged(f, q)
    BY <2>1, LoggedSame
  <2>3. AuditTellsTheStory'
    BY <2>1, StorySame
  <2> QED BY <1>3, <1>p, <2>2, <2>3 DEF Resolve, Goto, held
<1>4. ASSUME NEW c \in Callers, NEW d \in decisions, ParseDecision(c, d)
      PROVE  InFlightLogged' /\ AuditTellsTheStory'
  <2>1. UNCHANGED audit
    BY <1>4 DEF ParseDecision, Goto, shared, held
  <2>2. \A f, q : Logged(f, q)' <=> Logged(f, q)
    BY <2>1, LoggedSame
  <2>3. AuditTellsTheStory'
    BY <2>1, StorySame
  <2> QED BY <1>4, <1>p, <2>2, <2>3 DEF ParseDecision, Goto, shared, held
<1>5. ASSUME NEW c \in Callers, NEW t \in tokens, NEW p \in proofs, ParseCall(c, t, p)
      PROVE  InFlightLogged' /\ AuditTellsTheStory'
  <2>1. UNCHANGED audit
    BY <1>5 DEF ParseCall, Goto, shared, held
  <2>2. \A f, q : Logged(f, q)' <=> Logged(f, q)
    BY <2>1, LoggedSame
  <2>3. AuditTellsTheStory'
    BY <2>1, StorySame
  <2> QED BY <1>5, <1>p, <2>2, <2>3 DEF ParseCall, Goto, shared, held
<1>6. ASSUME NEW c \in Callers, Park(c)
      PROVE  InFlightLogged' /\ AuditTellsTheStory'
  <2>1. UNCHANGED audit
    BY <1>6 DEF Park, Return, Goto, held
  <2>2. \A f, q : Logged(f, q)' <=> Logged(f, q)
    BY <2>1, LoggedSame
  <2>3. AuditTellsTheStory'
    BY <2>1, StorySame
  <2> QED BY <1>6, <1>p, <2>2, <2>3 DEF Park, Return, Goto, held
<1>7. ASSUME NEW c \in Callers, IssueDecision(c)
      PROVE  InFlightLogged' /\ AuditTellsTheStory'
  <2>1. UNCHANGED audit
    BY <1>7 DEF IssueDecision, Goto, shared, held
  <2>2. \A f, q : Logged(f, q)' <=> Logged(f, q)
    BY <2>1, LoggedSame
  <2>3. AuditTellsTheStory'
    BY <2>1, StorySame
  <2> QED BY <1>7, <1>p, <2>2, <2>3 DEF IssueDecision, Goto, shared, held
<1>8. ASSUME NEW c \in Callers, IssueFails(c)
      PROVE  InFlightLogged' /\ AuditTellsTheStory'
  <2>1. UNCHANGED audit
    BY <1>8 DEF IssueFails, Return, Goto, shared, held
  <2>2. \A f, q : Logged(f, q)' <=> Logged(f, q)
    BY <2>1, LoggedSame
  <2>3. AuditTellsTheStory'
    BY <2>1, StorySame
  <2> QED BY <1>8, <1>p, <2>2, <2>3 DEF IssueFails, Return, Goto, shared, held
<1>9. ASSUME NEW c \in Callers, ReturnDecision(c)
      PROVE  InFlightLogged' /\ AuditTellsTheStory'
  <2>1. decision[c].req \in ReqIds /\ "approved" \in Events
    BY <1>9 DEF ReturnDecision, Return, Goto, TypeOK, Decision, Events
  <2>2. LogEntry("approved", decision[c].req)
    BY <1>9 DEF ReturnDecision
  <2>3. \A f, q : Logged(f, q)' <=> Logged(f, q) \/ (f = "approved" /\ q = decision[c].req)
    BY <1>t, <2>1, <2>2, LoggedAfter
  <2>4. AuditTellsTheStory'
    BY <1>9, <1>t, <2>1, <2>2, StoryAfter DEF ReturnDecision, Return, Goto
  <2> QED BY <1>9, <1>p, <2>3, <2>4 DEF ReturnDecision, Return, Goto
<1>10. ASSUME NEW c \in Callers, ReturnDenial(c)
      PROVE  InFlightLogged' /\ AuditTellsTheStory'
  <2>1. decision[c].req \in ReqIds /\ "denied" \in Events
    BY <1>10 DEF ReturnDenial, Return, Goto, held, TypeOK, Decision, Events
  <2>2. LogEntry("denied", decision[c].req)
    BY <1>10 DEF ReturnDenial
  <2>3. \A f, q : Logged(f, q)' <=> Logged(f, q) \/ (f = "denied" /\ q = decision[c].req)
    BY <1>t, <2>1, <2>2, LoggedAfter
  <2>4. AuditTellsTheStory'
    BY <1>10, <1>t, <2>1, <2>2, StoryAfter DEF ReturnDenial, Return, Goto, held
  <2> QED BY <1>10, <1>p, <2>3, <2>4 DEF ReturnDenial, Return, Goto, held
<1>11. ASSUME NEW c \in Callers, NEW i \in TokenIds, SignToken(c, i)
      PROVE  InFlightLogged' /\ AuditTellsTheStory'
  <2>1. UNCHANGED audit
    BY <1>11 DEF SignToken, Goto, shared, held
  <2>2. \A f, q : Logged(f, q)' <=> Logged(f, q)
    BY <2>1, LoggedSame
  <2>3. AuditTellsTheStory'
    BY <2>1, StorySame
  <2> QED BY <1>11, <1>p, <2>2, <2>3 DEF SignToken, Goto, shared, held
<1>12. ASSUME NEW c \in Callers, ReturnToken(c)
      PROVE  InFlightLogged' /\ AuditTellsTheStory'
  <2>1. token[c].req \in ReqIds /\ "credential_minted" \in Events
    BY <1>12 DEF ReturnToken, Return, Goto, TypeOK, Token, Events
  <2>2. LogEntry("credential_minted", token[c].req)
    BY <1>12 DEF ReturnToken
  <2>3. \A f, q : Logged(f, q)' <=> Logged(f, q) \/ (f = "credential_minted" /\ q = token[c].req)
    BY <1>t, <2>1, <2>2, LoggedAfter
  <2>4. AuditTellsTheStory'
    BY <1>12, <1>t, <2>1, <2>2, StoryAfter DEF ReturnToken, Return, Goto
  <2> QED BY <1>12, <1>p, <2>3, <2>4 DEF ReturnToken, Return, Goto
<1>13. ASSUME NEW c \in Callers, RecordJTI(c)
      PROVE  InFlightLogged' /\ AuditTellsTheStory'
  <2>1. UNCHANGED audit
    BY <1>13 DEF RecordJTI, Goto, held
  <2>2. \A f, q : Logged(f, q)' <=> Logged(f, q)
    BY <2>1, LoggedSame
  <2>3. AuditTellsTheStory'
    BY <2>1, StorySame
  <2> QED BY <1>13, <1>p, <2>2, <2>3 DEF RecordJTI, Goto, held
<1>14. ASSUME NEW c \in Callers, ReturnReplay(c)
      PROVE  InFlightLogged' /\ AuditTellsTheStory'
  <2>1. token[c].req \in ReqIds /\ "replay_rejected" \in Events
    BY <1>14 DEF ReturnReplay, Return, Goto, held, TypeOK, Token, Events
  <2>2. LogEntry("replay_rejected", token[c].req)
    BY <1>14 DEF ReturnReplay
  <2>3. \A f, q : Logged(f, q)' <=> Logged(f, q) \/ (f = "replay_rejected" /\ q = token[c].req)
    BY <1>t, <2>1, <2>2, LoggedAfter
  <2>4. AuditTellsTheStory'
    BY <1>14, <1>t, <2>1, <2>2, StoryAfter DEF ReturnReplay, Return, Goto, held
  <2> QED BY <1>14, <1>p, <2>3, <2>4 DEF ReturnReplay, Return, Goto, held
<1>15. ASSUME NEW c \in Callers, ReturnCall(c)
      PROVE  InFlightLogged' /\ AuditTellsTheStory'
  <2>1. token[c].req \in ReqIds /\ "api_call" \in Events
    BY <1>15 DEF ReturnCall, Return, Goto, TypeOK, Token, Events
  <2>2. LogEntry("api_call", token[c].req)
    BY <1>15 DEF ReturnCall
  <2>3. \A f, q : Logged(f, q)' <=> Logged(f, q) \/ (f = "api_call" /\ q = token[c].req)
    BY <1>t, <2>1, <2>2, LoggedAfter
  <2>4. AuditTellsTheStory'
    BY <1>15, <1>t, <2>1, <2>2, StoryAfter DEF ReturnCall, Return, Goto
  <2> QED BY <1>15, <1>p, <2>3, <2>4 DEF ReturnCall, Return, Goto
<1> QED
  BY <1>1, <1>2, <1>3, <1>4, <1>5, <1>6, <1>7, <1>8, <1>9, <1>10, <1>11, <1>12,
     <1>13, <1>14, <1>15
  DEF Next, Begin, Continue, Approve, ApproveWithPasskey, Deny
-----------------------------------------------------------------------------
(* Who owns the verdict on a request *)

\* At most one goroutine works on a request, and none has given its verdict to
\* the log yet.
OneOwner ==
    \A c, d \in Callers :
        Working(c) /\ Working(d) /\ decision[c].req = decision[d].req => c = d

NoVerdict(r) == ~Logged("approved", r) /\ ~Logged("denied", r)

OwnerAhead == \A c \in Callers : Working(c) => NoVerdict(decision[c].req)

\* A request that awaits a human has no verdict and nobody works on it.
PendingOpen ==
    \A r \in DOMAIN pending : pending[r].state = "pending" =>
        /\ NoVerdict(r)
        /\ \A c \in Callers : Working(c) => decision[c].req # r

\* A request about to be parked is not in the PDP's store.
ParkFresh == \A c \in Callers : pc[c] = "park" => decision[c].req \notin DOMAIN pending

VerdictInv == OneOwner /\ OwnerAhead /\ PendingOpen /\ ParkFresh

\* Nothing is known of a request that has not been evaluated.
LEMMA FreshRequest ==
    ASSUME TypeOK, InFlightLogged, AuditTellsTheStory,
           NEW r, ~Logged("policy_evaluated", r)
    PROVE  /\ r \notin DOMAIN pending
           /\ NoVerdict(r)
           /\ \A c \in Callers : Working(c) => decision[c].req # r
<1>1. DOMAIN audit = 1..Len(audit) /\ Len(audit) \in Nat
  BY DEF TypeOK
<1>2. ASSUME NEW v \in Verdicts, Logged(v, r)
      PROVE  FALSE
  <2>1. PICK i \in DOMAIN audit : audit[i].event = v /\ audit[i].req = r
    BY <1>2 DEF Logged
  <2>2. PICK j \in 1..(i - 1) : audit[j].event = "policy_evaluated" /\ audit[j].req = r
    BY <2>1 DEF AuditTellsTheStory, Follows, Verdicts
  <2>3. j \in DOMAIN audit
    BY <1>1, <2>1, <2>2
  <2> QED BY <2>2, <2>3 DEF Logged
<1> QED BY <1>2 DEF Verdicts, InFlightLogged, PendingLogged, CallersLogged, NoVerdict

\* An entry keeps verdicts single if it is the first verdict on its request.
LEMMA OneVerdictSame ==
    ASSUME audit \in Seq([event : Events, req : ReqIds]),
           NEW e \in Events, NEW r \in ReqIds, LogEntry(e, r), OneVerdict,
           e \in Verdicts => NoVerdict(r)
    PROVE  OneVerdict'
<1>1. /\ DOMAIN audit = 1..Len(audit) /\ Len(audit) \in Nat
      /\ DOMAIN audit' = 1..(Len(audit) + 1)
      /\ \A i \in DOMAIN audit : audit'[i] = audit[i]
      /\ audit'[Len(audit) + 1] = [event |-> e, req |-> r]
  BY EntryAppended
<1>2. \A i \in DOMAIN audit : e \in Verdicts /\ audit[i].event \in Verdicts => audit[i].req # r
  BY DEF NoVerdict, Logged, Verdicts
<1> QED BY <1>1, <1>2 DEF OneVerdict

\* Verdicts stay single, and so do the decisions made of them.
LEMMA StepOneVerdict ==
    TypeOK /\ InFlightLogged /\ VerdictInv /\ OneVerdict /\ OneDecisionPerRequest
    /\ [Next]_vars => OneVerdict' /\ OneDecisionPerRequest'
<1> SUFFICES ASSUME TypeOK, InFlightLogged, VerdictInv, OneVerdict,
                    OneDecisionPerRequest, [Next]_vars
             PROVE  OneVerdict' /\ OneDecisionPerRequest'
  OBVIOUS
<1>t. audit \in Seq([event : Events, req : ReqIds])
  BY DEF TypeOK
<1>1. ASSUME UNCHANGED <<audit, decisions>>
      PROVE  OneVerdict' /\ OneDecisionPerRequest'
  BY <1>1 DEF OneVerdict, OneDecisionPerRequest
<1>2. ASSUME NEW c \in Callers, NEW r \in ReqIds, NEW t \in Tasks, Evaluate(c, r, t)
      PROVE  OneVerdict' /\ OneDecisionPerRequest'
  <2>1. "policy_evaluated" \in Events /\ "policy_evaluated" \notin Verdicts
    BY DEF Events, Verdicts
  <2>2. OneVerdict'
    BY <1>2, <1>t, <2>1, OneVerdictSame DEF Evaluate
  <2> QED BY <1>2, <2>2 DEF Evaluate, held, OneDecisionPerRequest
<1>3. ASSUME NEW c \in Callers, ReturnDecision(c)
      PROVE  OneVerdict' /\ OneDecisionPerRequest'
  <2>1. decision[c].req \in ReqIds /\ "approved" \in Events
    BY <1>3 DEF ReturnDecision, Return, Goto, TypeOK, Decision, Events
  <2>2. NoVerdict(decision[c].req)
    BY <1>3 DEF ReturnDecision, Return, Goto, VerdictInv, OwnerAhead, Working
  <2>3. OneVerdict'
    BY <1>3, <1>t, <2>1, <2>2, OneVerdictSame DEF ReturnDecision
  <2>4. \A d \in decisions : d.req # decision[c].req
    BY <2>2 DEF NoVerdict, InFlightLogged, HeldLogged
  <2> QED BY <1>3, <2>3, <2>4 DEF ReturnDecision, OneDecisionPerRequest
<1>4. ASSUME NEW c \in Callers, ReturnDenial(c)
      PROVE  OneVerdict' /\ OneDecisionPerRequest'
  <2>1. decision[c].req \in ReqIds /\ "denied" \in Events
    BY <1>4 DEF ReturnDenial, Return, Goto, TypeOK, Decision, Events
  <2>2. NoVerdict(decision[c].req)
    BY <1>4 DEF ReturnDenial, Return, Goto, VerdictInv, OwnerAhead, Working
  <2>3. OneVerdict'
    BY <1>4, <1>t, <2>1, <2>2, OneVerdictSame DEF ReturnDenial
  <2> QED BY <1>4, <2>3 DEF ReturnDenial, held, OneDecisionPerRequest
<1>5. ASSUME NEW c \in Callers, ReturnToken(c)
      PROVE  OneVerdict' /\ OneDecisionPerRequest'
  <2>1. /\ token[c].req \in ReqIds
        /\ "credential_minted" \in Events /\ "credential_minted" \notin Verdicts
    BY <1>5 DEF ReturnToken, Return, Goto, TypeOK, Token, Events, Verdicts
  <2>2. OneVerdict'
    BY <1>5, <1>t, <2>1, OneVerdictSame DEF ReturnToken
  <2> QED BY <1>5, <2>2 DEF ReturnToken, OneDecisionPerRequest
<1>6. ASSUME NEW c \in Callers, ReturnReplay(c)
      PROVE  OneVerdict' /\ OneDecisionPerRequest'
  <2>1. /\ token[c].req \in ReqIds
        /\ "replay_rejected" \in Events /\ "replay_rejected" \notin Verdicts
    BY <1>6 DEF ReturnReplay, Return, Goto, TypeOK, Token, Events, Verdicts
  <2>2. OneVerdict'
    BY <1>6, <1>t, <2>1, OneVerdictSame DEF ReturnReplay
  <2> QED BY <1>6, <2>2 DEF ReturnReplay, held, OneDecisionPerRequest
<1>7. ASSUME NEW c \in Callers, ReturnCall(c)
      PROVE  OneVerdict' /\ OneDecisionPerRequest'
  <2>1. /\ token[c].req \in ReqIds
        /\ "api_call" \in Events /\ "api_call" \notin Verdicts
    BY <1>7 DEF ReturnCall, Return, Goto, TypeOK, Token, Events, Verdicts
  <2>2. OneVerdict'
    BY <1>7, <1>t, <2>1, OneVerdictSame DEF ReturnCall
  <2> QED BY <1>7, <2>2 DEF ReturnCall, OneDecisionPerRequest
<1>8. CASE UNCHANGED vars
  BY <1>1, <1>8 DEF vars, shared, held
<1>9. CASE Tick
  BY <1>1, <1>9 DEF Tick, shared, held
<1>10. ASSUME NEW t \in tokens, NEW j \in Jtis, GenerateDPoPProof(t, j)
       PROVE  UNCHANGED <<audit, decisions>>
  BY <1>10 DEF GenerateDPoPProof, shared
<1>11. ASSUME NEW c \in Callers, NEW r \in ReqIds, NEW v, NEW w, NEW n, Resolve(c, r, v, w, n)
       PROVE  UNCHANGED <<audit, decisions>>
  BY <1>11 DEF Resolve, held
<1>12. ASSUME NEW c \in Callers,
              \/ \E d \in decisions : ParseDecision(c, d)
              \/ \E t \in tokens, p \in proofs : ParseCall(c, t, p)
              \/ Park(c) \/ IssueDecision(c) \/ IssueFails(c)
              \/ \E i \in TokenIds : SignToken(c, i)
              \/ RecordJTI(c)
       PROVE  UNCHANGED <<audit, decisions>>
  BY <1>12 DEF ParseDecision, ParseCall, Park, IssueDecision, IssueFails, SignToken,
     RecordJTI, shared, held
<1> QED
  BY <1>1, <1>2, <1>3, <1>4, <1>5, <1>6, <1>7, <1>8, <1>9, <1>10, <1>11, <1>12
  DEF Next, Begin, Continue, Approve, ApproveWithPasskey, Deny

LEMMA StepVerdictInv ==
    TypeOK /\ InFlightLogged /\ AuditTellsTheStory /\ VerdictInv /\ [Next]_vars
        => VerdictInv'
<1> SUFFICES ASSUME TypeOK, InFlightLogged, AuditTellsTheStory, VerdictInv, [Next]_vars
             PROVE  VerdictInv'
  OBVIOUS
<1> USE DEF VerdictInv, OneOwner, OwnerAhead, PendingOpen, ParkFresh, NoVerdict, Working
<1>t. audit \in Seq([event : Events, req : ReqIds])
  BY DEF TypeOK
<1>p. /\ pc \in [Callers -> Stages] /\ decision \in [Callers -> Decision \cup {None}]
      /\ DOMAIN pending \subseteq ReqIds
  BY DEF TypeOK
<1>1. ASSUME Tick \/ (\E t \in tokens, j \in Jtis : GenerateDPoPProof(t, j))
             \/ UNCHANGED vars
      PROVE  VerdictInv'
  <2>1. UNCHANGED <<pending, audit, local>>
    BY <1>1 DEF Tick, GenerateDPoPProof, vars, shared, held
  <2>2. \A f, q : Logged(f, q)' <=> Logged(f, q)
    BY <2>1, LoggedSame
  <2> QED BY <2>1, <2>2 DEF local
<1>2. ASSUME NEW c \in Callers, NEW r \in ReqIds, NEW t \in Tasks, Evaluate(c, r, t)
      PROVE  VerdictInv'
  <2>1. r \in ReqIds /\ "policy_evaluated" \in Events
    BY <1>2 DEF Evaluate, Goto, held, TypeOK, Events
  <2>2. LogEntry("policy_evaluated", r)
    BY <1>2 DEF Evaluate
  <2>3. \A f, q : Logged(f, q)' <=> Logged(f, q) \/ (f = "policy_evaluated" /\ q = r)
    BY <1>t, <2>1, <2>2, LoggedAfter
  <2>4. /\ r \notin DOMAIN pending /\ NoVerdict(r)
        /\ \A d \in Callers : Working(d) => decision[d].req # r
    BY <1>2, FreshRequest DEF Evaluate
  <2> QED BY <1>2, <1>p, <2>3, <2>4 DEF Evaluate, Goto, held
<1>3. ASSUME NEW c \in Callers, NEW r \in ReqIds, NEW v \in Verdicts, NEW w,
             NEW n \in {"sign", "denied"}, Resolve(c, r, v, w, n)
      PROVE  VerdictInv'
  <2>1. \A f, q : Logged(f, q)' <=> Logged(f, q)
    BY <1>3, LoggedSame DEF Resolve, Goto, held, Verdicts
  <2> QED BY <1>3, <1>p, <2>1 DEF Resolve, Goto, held, Verdicts
<1>4. ASSUME NEW c \in Callers, NEW d \in decisions, ParseDecision(c, d)
      PROVE  VerdictInv'
  <2>1. \A f, q : Logged(f, q)' <=> Logged(f, q)
    BY <1>4, LoggedSame DEF ParseDecision, Goto, shared, held
  <2> QED BY <1>4, <1>p, <2>1 DEF ParseDecision, Goto, shared, held
<1>5. ASSUME NEW c \in Callers, NEW t \in tokens, NEW p \in proofs, ParseCall(c, t, p)
      PROVE  VerdictInv'
  <2>1. \A f, q : Logged(f, q)' <=> Logged(f, q)
    BY <1>5, LoggedSame DEF ParseCall, Goto, shared, held
  <2> QED BY <1>5, <1>p, <2>1 DEF ParseCall, Goto, shared, held
<1>6. ASSUME NEW c \in Callers, Park(c)
      PROVE  VerdictInv'
  <2>1. \A f, q : Logged(f, q)' <=> Logged(f, q)
    BY <1>6, LoggedSame DEF Park, Return, Goto, held
  <2> QED BY <1>6, <1>p, <2>1 DEF Park, Return, Goto, held
<1>7. ASSUME NEW c \in Callers, IssueDecision(c)
      PROVE  VerdictInv'
  <2>1. \A f, q : Logged(f, q)' <=> Logged(f, q)
    BY <1>7, LoggedSame DEF IssueDecision, Goto, shared, held
  <2> QED BY <1>7, <1>p, <2>1 DEF IssueDecision, Goto, shared, held
<1>8. ASSUME NEW c \in Callers, IssueFails(c)
      PROVE  VerdictInv'
  <2>1. \A f, q : Logged(f, q)' <=> Logged(f, q)
    BY <1>8, LoggedSame DEF IssueFails, Return, Goto, shared, held
  <2> QED BY <1>8, <1>p, <2>1 DEF IssueFails, Return, Goto, shared, held
<1>9. ASSUME NEW c \in Callers, ReturnDecision(c)
      PROVE  VerdictInv'
  <2>1. decision[c].req \in ReqIds /\ "approved" \in Events
    BY <1>9 DEF ReturnDecision, Return, Goto, TypeOK, Decision, Events
  <2>2. LogEntry("approved", decision[c].req)
    BY <1>9 DEF ReturnDecision
  <2>3. \A f, q : Logged(f, q)' <=> Logged(f, q) \/ (f = "approved" /\ q = decision[c].req)
    BY <1>t, <2>1, <2>2, LoggedAfter
  <2> QED BY <1>9, <1>p, <2>3 DEF ReturnDecision, Return, Goto
<1>10. ASSUME NEW c \in Callers, ReturnDenial(c)
      PROVE  VerdictInv'
  <2>1. decision[c].req \in ReqIds /\ "denied" \in Events
    BY <1>10 DEF ReturnDenial, Return, Goto, held, TypeOK, Decision, Events
  <2>2. LogEntry("denied", decision[c].req)
    BY <1>10 DEF ReturnDenial
  <2>3. \A f, q : Logged(f, q)' <=> Logged(f, q) \/ (f = "denied" /\ q = decision[c].req)
    BY <1>t, <2>1, <2>2, LoggedAfter
  <2> QED BY <1>10, <1>p, <2>3 DEF ReturnDenial, Return, Goto, held
<1>11. ASSUME NEW c \in Callers, NEW i \in TokenIds, SignToken(c, i)
      PROVE  VerdictInv'
  <2>1. \A f, q : Logged(f, q)' <=> Logged(f, q)
    BY <1>11, LoggedSame DEF SignToken, Goto, shared, held
  <2> QED BY <1>11, <1>p, <2>1 DEF SignToken, Goto, shared, held
<1>12. ASSUME NEW c \in Callers, ReturnToken(c)
      PROVE  VerdictInv'
  <2>1. token[c].req \in ReqIds /\ "credential_minted" \in Events
    BY <1>12 DEF ReturnToken, Return, Goto, TypeOK, Token, Events
  <2>2. LogEntry("credential_minted", token[c].req)
    BY <1>12 DEF ReturnToken
  <2>3. \A f, q : Logged(f, q)' <=> Logged(f, q) \/ (f = "credential_minted" /\ q = token[c].req)
    BY <1>t, <2>1, <2>2, LoggedAfter
  <2> QED BY <1>12, <1>p, <2>3 DEF ReturnToken, Return, Goto
<1>13. ASSUME NEW c \in Callers, RecordJTI(c)
      PROVE  VerdictInv'
  <2>1. \A f, q : Logged(f, q)' <=> Logged(f, q)
    BY <1>13, LoggedSame DEF RecordJTI, Goto, held
  <2> QED BY <1>13, <1>p, <2>1 DEF RecordJTI, Goto, held
<1>14. ASSUME NEW c \in Callers, ReturnReplay(c)
      PROVE  VerdictInv'
  <2>1. token[c].req \in ReqIds /\ "replay_rejected" \in Events
    BY <1>14 DEF ReturnReplay, Return, Goto, held, TypeOK, Token, Events
  <2>2. LogEntry("replay_rejected", token[c].req)
    BY <1>14 DEF ReturnReplay
  <2>3. \A f, q : Logged(f, q)' <=> Logged(f, q) \/ (f = "replay_rejected" /\ q = token[c].req)
    BY <1>t, <2>1, <2>2, LoggedAfter
  <2> QED BY <1>14, <1>p, <2>3 DEF ReturnReplay, Return, Goto, held
<1>15. ASSUME NEW c \in Callers, ReturnCall(c)
      PROVE  VerdictInv'
  <2>1. token[c].req \in ReqIds /\ "api_call" \in Events
    BY <1>15 DEF ReturnCall, Return, Goto, TypeOK, Token, Events
  <2>2. LogEntry("api_call", token[c].req)
    BY <1>15 DEF ReturnCall
  <2>3. \A f, q : Logged(f, q)' <=> Logged(f, q) \/ (f = "api_call" /\ q = token[c].req)
    BY <1>t, <2>1, <2>2, LoggedAfter
  <2> QED BY <1>15, <1>p, <2>3 DEF ReturnCall, Return, Goto
<1> QED
  BY <1>1, <1>2, <1>3, <1>4, <1>5, <1>6, <1>7, <1>8, <1>9, <1>10, <1>11, <1>12,
     <1>13, <1>14, <1>15
  DEF Next, Begin, Continue, Approve, ApproveWithPasskey, Deny, Verdicts
-----------------------------------------------------------------------------
(* What backs a token *)

\* A decision or a token above the automatic tier has its request approved.
Backed(x) ==
    Tier[x.task] # TierAuto =>
        x.req \in DOMAIN pending
        /\ pending[x.req] = [task |-> x.task, state |-> "approved"]

\* Evaluate signs at once only for the automatic tier; everything that was or
\* is being signed is backed.
BackedInv ==
    /\ \A d \in decisions : Backed(d)
    /\ \A t \in tokens : Backed(t)
    /\ \A c \in Callers :
          /\ pc[c] \in {"sign", "approved", "mint"} => Backed(decision[c])
          /\ pc[c] = "minted" => Backed(token[c])

\* An approval is for ever: no step takes it away from what it backs.
LEMMA BackedStable ==
    TypeOK /\ ParkFresh /\ [Next]_vars => \A x : Backed(x) => Backed(x)'
<1> SUFFICES ASSUME TypeOK, ParkFresh, [Next]_vars
             PROVE  \A x : Backed(x) => Backed(x)'
  OBVIOUS
<1>1. ASSUME UNCHANGED pending
      PROVE  \A x : Backed(x) => Backed(x)'
  BY <1>1 DEF Backed
<1>2. ASSUME NEW c \in Callers, Park(c)
      PROVE  \A x : Backed(x) => Backed(x)'
  <2>1. decision[c].req \notin DOMAIN pending
    BY <1>2 DEF Park, Return, Goto, ParkFresh
  <2> QED BY <1>2, <2>1 DEF Park, Backed
<1>3. ASSUME NEW c \in Callers, NEW r \in ReqIds, NEW v, NEW w, NEW n,
             Resolve(c, r, v, w, n)
      PROVE  \A x : Backed(x) => Backed(x)'
  <2>1. pending[r].state = "pending"
    BY <1>3 DEF Resolve
  <2>2. \A q \in DOMAIN pending : q # r => pending'[q] = pending[q]
    BY <1>3 DEF Resolve
  <2>3. DOMAIN pending' = DOMAIN pending
    BY <1>3 DEF Resolve
  <2>4. \A x : Tier[x.task] # TierAuto /\ Backed(x) => x.req # r
    BY <2>1 DEF Backed
  <2> QED BY <2>2, <2>3, <2>4 DEF Backed
<1>4. CASE UNCHANGED vars
  BY <1>1, <1>4 DEF vars, shared
<1>5. CASE Tick
  BY <1>1, <1>5 DEF Tick, shared
<1>6. ASSUME NEW t \in tokens, NEW j \in Jtis, GenerateDPoPProof(t, j)
      PROVE  UNCHANGED pending
  BY <1>6 DEF GenerateDPoPProof, shared
<1>7. ASSUME NEW c \in Callers,
             \/ \E r \in ReqIds, t \in Tasks : Evaluate(c, r, t)
             \/ \E d \in decisions : ParseDecision(c, d)
             \/ \E t \in tokens, p \in proofs : ParseCall(c, t, p)
             \/ IssueDecision(c) \/ IssueFails(c) \/ ReturnDecision(c)
             \/ ReturnDenial(c) \/ ReturnToken(c) \/ RecordJTI(c)
             \/ ReturnReplay(c) \/ ReturnCall(c)
             \/ \E i \in TokenIds : SignToken(c, i)
      PROVE  UNCHANGED pending
  BY <1>7 DEF Evaluate, ParseDecision, ParseCall, IssueDecision, IssueFails,
     ReturnDecision, ReturnDenial, ReturnToken, RecordJTI, ReturnReplay,
     ReturnCall, SignToken, shared
<1> QED
  BY <1>1, <1>2, <1>3, <1>4, <1>5, <1>6, <1>7
  DEF Next, Begin, Continue, Approve, ApproveWithPasskey, Deny

LEMMA StepBackedInv == TypeOK /\ ParkFresh /\ BackedInv /\ [Next]_vars => BackedInv'
<1> SUFFICES ASSUME TypeOK, ParkFresh, BackedInv, [Next]_vars
             PROVE  BackedInv'
  OBVIOUS
<1> USE DEF BackedInv
<1>s. \A x : Backed(x) => Backed(x)'
  BY BackedStable
<1>p. /\ pc \in [Callers -> Stages] /\ decision \in [Callers -> Decision \cup {None}]
      /\ token \in [Callers -> Token \cup {None}]
  BY DEF TypeOK
<1>1. ASSUME Tick \/ (\E t \in tokens, j \in Jtis : GenerateDPoPProof(t, j))
             \/ UNCHANGED vars
      PROVE  BackedInv'
  BY <1>1, <1>s DEF Tick, GenerateDPoPProof, vars, held, local
<1>2. ASSUME NEW c \in Callers, NEW r \in ReqIds, NEW t \in Tasks, Evaluate(c, r, t)
      PROVE  BackedInv'
  <2>1. pc'[c] = "sign" => Tier[decision'[c].task] = TierAuto
    BY <1>2, <1>p DEF Evaluate, Goto
  <2>2. pc'[c] = "sign" => Backed(decision[c])'
    BY <2>1 DEF Backed
  <2> QED BY <1>2, <1>s, <1>p, <2>2 DEF Evaluate, Goto, held
<1>3. ASSUME NEW c \in Callers, NEW r \in ReqIds, NEW w,
             \/ Resolve(c, r, "approved", w, "sign")
             \/ Resolve(c, r, "denied", w, "denied")
      PROVE  BackedInv'
  <2>1. pc'[c] = "sign" => Backed(decision[c])'
    BY <1>3, <1>p DEF Resolve, Goto, Backed
  <2> QED BY <1>3, <1>s, <1>p, <2>1 DEF Resolve, Goto, held
<1>4. ASSUME NEW c \in Callers, NEW d \in decisions, ParseDecision(c, d)
      PROVE  BackedInv'
  BY <1>4, <1>s, <1>p DEF ParseDecision, Goto, held
<1>5. ASSUME NEW c \in Callers, NEW t \in tokens, NEW p \in proofs, ParseCall(c, t, p)
      PROVE  BackedInv'
  BY <1>5, <1>s, <1>p DEF ParseCall, Goto, held
<1>6. ASSUME NEW c \in Callers, Park(c)
      PROVE  BackedInv'
  BY <1>6, <1>s, <1>p DEF Park, Return, Goto, held
<1>7. ASSUME NEW c \in Callers, IssueDecision(c)
      PROVE  BackedInv'
  <2>1. Backed(decision[c])' /\ UNCHANGED pending
    BY <1>7, <1>p DEF IssueDecision, Goto, Backed, shared
  <2> QED BY <1>7, <1>s, <1>p, <2>1 DEF IssueDecision, Goto, held
<1>8. ASSUME NEW c \in Callers, IssueFails(c)
      PROVE  BackedInv'
  BY <1>8, <1>s, <1>p DEF IssueFails, Return, Goto, held
<1>9. ASSUME NEW c \in Callers, ReturnDecision(c)
      PROVE  BackedInv'
  BY <1>9, <1>s, <1>p DEF ReturnDecision, Return, Goto
<1>10. ASSUME NEW c \in Callers, ReturnDenial(c)
       PROVE  BackedInv'
  BY <1>10, <1>s, <1>p DEF ReturnDenial, Return, Goto, held
<1>11. ASSUME NEW c \in Callers, NEW i \in TokenIds, SignToken(c, i)
       PROVE  BackedInv'
  <2>1. Backed(token[c])'
    BY <1>11, <1>p DEF SignToken, Goto, Backed, shared
  <2> QED BY <1>11, <1>s, <1>p, <2>1 DEF SignToken, Goto, held
<1>12. ASSUME NEW c \in Callers, ReturnToken(c)
       PROVE  BackedInv'
  BY <1>12, <1>s, <1>p DEF ReturnToken, Return, Goto
<1>13. ASSUME NEW c \in Callers, RecordJTI(c)
       PROVE  BackedInv'
  BY <1>13, <1>s, <1>p DEF RecordJTI, Goto, held
<1>14. ASSUME NEW c \in Callers, ReturnReplay(c) \/ ReturnCall(c)
       PROVE  BackedInv'
  BY <1>14, <1>s, <1>p DEF ReturnReplay, ReturnCall, Return, Goto, held
<1> QED
  BY <1>1, <1>2, <1>3, <1>4, <1>5, <1>6, <1>7, <1>8, <1>9, <1>10, <1>11, <1>12,
     <1>13, <1>14
  DEF Next, Begin, Continue, Approve, ApproveWithPasskey, Deny

-----------------------------------------------------------------------------
(* What a DPoP proof has bought *)

\* A call between the replay store and its return has a proof of its own that
\* has bought nothing yet; a proof that has bought a call is in the store.
ServedInv ==
    /\ \A c \in Callers : pc[c] = "authorized" =>
          proof[c].jti \in dpopJTI /\ served[proof[c].jti] = 0
    /\ \A c, d \in Callers :
          /\ pc[c] = "authorized" /\ pc[d] = "authorized"
          /\ proof[c].jti = proof[d].jti
          => c = d
    /\ \A j \in Jtis : served[j] # 0 => j \in dpopJTI

LEMMA StepServed ==
    TypeOK /\ ServedInv /\ ProofServedOnce /\ [Next]_vars
        => ServedInv' /\ ProofServedOnce'
<1> SUFFICES ASSUME TypeOK, ServedInv, ProofServedOnce, [Next]_vars
             PROVE  ServedInv' /\ ProofServedOnce'
  OBVIOUS
<1> USE DEF ServedInv, ProofServedOnce
<1>p. /\ pc \in [Callers -> Stages] /\ proof \in [Callers -> Proof \cup {None}]
      /\ served \in [Jtis -> Nat]
  BY DEF TypeOK
<1>1. ASSUME UNCHANGED <<dpopJTI, served, pc, proof>>
      PROVE  ServedInv' /\ ProofServedOnce'
  BY <1>1
<1>2. ASSUME NEW c \in Callers, UNCHANGED <<dpopJTI, served>>,
             pc[c] # "authorized" /\ pc'[c] # "authorized",
             \A d \in Callers : d # c => pc'[d] = pc[d] /\ proof'[d] = proof[d]
      PROVE  ServedInv' /\ ProofServedOnce'
  BY <1>2
<1>3. ASSUME NEW c \in Callers, RecordJTI(c)
      PROVE  ServedInv' /\ ProofServedOnce'
  <2>1. proof[c].jti \in Jtis
    BY <1>3 DEF RecordJTI, Goto, TypeOK, Proof
  <2> QED BY <1>3, <1>p, <2>1 DEF RecordJTI, Goto, held
<1>4. ASSUME NEW c \in Callers, ReturnCall(c)
      PROVE  ServedInv' /\ ProofServedOnce'
  <2>1. proof[c].jti \in Jtis /\ pc[c] = "authorized"
    BY <1>4 DEF ReturnCall, Return, Goto, TypeOK, Proof
  <2>2. \A j \in Jtis : served'[j] = IF j = proof[c].jti THEN 1 ELSE served[j]
    BY <1>4, <1>p, <2>1 DEF ReturnCall
  <2>3. \A d \in Callers : pc'[d] = "authorized" =>
            pc[d] = "authorized" /\ d # c /\ proof'[d] = proof[d]
            /\ proof[d].jti # proof[c].jti
    BY <1>4, <1>p, <2>1 DEF ReturnCall, Return, Goto
  <2>4. \A d \in Callers : pc[d] = "authorized" => proof[d].jti \in Jtis
    BY DEF TypeOK, Proof
  <2> QED BY <1>4, <2>1, <2>2, <2>3, <2>4 DEF ReturnCall
<1>5. CASE Tick \/ (\E t \in tokens, j \in Jtis : GenerateDPoPProof(t, j))
           \/ UNCHANGED vars
  BY <1>1, <1>5 DEF Tick, GenerateDPoPProof, vars, shared, held, local
<1>6. ASSUME NEW c \in Callers, NEW r \in ReqIds, NEW t \in Tasks, Evaluate(c, r, t)
      PROVE  ServedInv' /\ ProofServedOnce'
  BY <1>2, <1>6, <1>p DEF Evaluate, Goto, held
<1>7. ASSUME NEW c \in Callers, NEW r \in ReqIds, NEW v, NEW w,
             NEW n \in {"sign", "denied"}, Resolve(c, r, v, w, n)
      PROVE  ServedInv' /\ ProofServedOnce'
  BY <1>2, <1>7, <1>p DEF Resolve, Goto, held
<1>8. ASSUME NEW c \in Callers, NEW d \in decisions, ParseDecision(c, d)
      PROVE  ServedInv' /\ ProofServedOnce'
  BY <1>2, <1>8, <1>p DEF ParseDecision, Goto, shared, held
<1>9. ASSUME NEW c \in Callers, NEW t \in tokens, NEW p \in proofs, ParseCall(c, t, p)
      PROVE  ServedInv' /\ ProofServedOnce'
  BY <1>2, <1>9, <1>p DEF ParseCall, Goto, shared, held
<1>10. ASSUME NEW c \in Callers, Park(c) \/ ReturnDenial(c) \/ ReturnReplay(c)
      PROVE  ServedInv' /\ ProofServedOnce'
  BY <1>2, <1>10, <1>p DEF Park, ReturnDenial, ReturnReplay, Return, Goto, held
<1>11. ASSUME NEW c \in Callers, IssueDecision(c)
      PROVE  ServedInv' /\ ProofServedOnce'
  BY <1>2, <1>11, <1>p DEF IssueDecision, Goto, shared, held
<1>12. ASSUME NEW c \in Callers, IssueFails(c)
      PROVE  ServedInv' /\ ProofServedOnce'
  BY <1>2, <1>12, <1>p DEF IssueFails, Return, Goto, shared, held
<1>13. ASSUME NEW c \in Callers, ReturnDecision(c) \/ ReturnToken(c)
      PROVE  ServedInv' /\ ProofServedOnce'
  BY <1>2, <1>13, <1>p DEF ReturnDecision, ReturnToken, Return, Goto
<1>14. ASSUME NEW c \in Callers, NEW i \in TokenIds, SignToken(c, i)
      PROVE  ServedInv' /\ ProofServedOnce'
  BY <1>2, <1>14, <1>p DEF SignToken, Goto, shared, held
<1> QED
  BY <1>3, <1>4, <1>5, <1>6, <1>7, <1>8, <1>9, <1>10, <1>11, <1>12, <1>13, <1>14
  DEF Next, Begin, Continue, Approve, ApproveWithPasskey, Deny

-----------------------------------------------------------------------------
(* What the replay store holds, and what a call and a denial rest on *)

LEMMA StepSpent ==
    TypeOK /\ ServedInv /\ SpentIsServed /\ [Next]_vars => SpentIsServed'
<1> SUFFICES ASSUME TypeOK, ServedInv, SpentIsServed, [Next]_vars
             PROVE  SpentIsServed'
  OBVIOUS
<1> USE DEF SpentIsServed
<1>p. /\ pc \in [Callers -> Stages] /\ proof \in [Callers -> Proof \cup {None}]
      /\ served \in [Jtis -> Nat] /\ dpopJTI \subseteq Jtis
  BY DEF TypeOK
<1>1. ASSUME UNCHANGED <<dpopJTI, served, pc, proof>>
      PROVE  SpentIsServed'
  BY <1>1
<1>2. ASSUME NEW c \in Callers, UNCHANGED <<dpopJTI, served>>, pc[c] # "authorized",
             \A d \in Callers : d # c => pc'[d] = pc[d] /\ proof'[d] = proof[d]
      PROVE  SpentIsServed'
  BY <1>2
<1>3. ASSUME NEW c \in Callers, RecordJTI(c)
      PROVE  SpentIsServed'
  <2>1. pc[c] = "record" /\ UNCHANGED <<proof, served>>
        /\ dpopJTI' = dpopJTI \cup {proof[c].jti}
    BY <1>3 DEF RecordJTI, Goto, held
  <2>2. \A d \in Callers : pc[d] = "authorized" => pc'[d] = "authorized"
    BY <1>3, <1>p, <2>1 DEF RecordJTI, Goto
  <2>3. proof[c].jti \notin dpopJTI => pc'[c] = "authorized"
    BY <1>3, <1>p DEF RecordJTI, Goto
  <2> QED BY <2>1, <2>2, <2>3
<1>4. ASSUME NEW c \in Callers, ReturnCall(c)
      PROVE  SpentIsServed'
  <2>1. proof[c].jti \in Jtis /\ pc[c] = "authorized" /\ dpopJTI' = dpopJTI
    BY <1>4 DEF ReturnCall, Return, Goto, TypeOK, Proof
  <2>2. \A j \in Jtis : served'[j] = IF j = proof[c].jti THEN 1 ELSE served[j]
    BY <1>4, <1>p, <2>1 DEF ReturnCall, ServedInv
  <2>3. \A d \in Callers : d # c => pc'[d] = pc[d] /\ proof'[d] = proof[d]
    BY <1>4, <1>p DEF ReturnCall, Return, Goto
  <2> QED BY <1>p, <2>1, <2>2, <2>3
<1>5. CASE Tick \/ (\E t \in tokens, j \in Jtis : GenerateDPoPProof(t, j))
           \/ UNCHANGED vars
  BY <1>1, <1>5 DEF Tick, GenerateDPoPProof, vars, shared, held, local
<1>6. ASSUME NEW c \in Callers, NEW r \in ReqIds, NEW t \in Tasks, Evaluate(c, r, t)
      PROVE  SpentIsServed'
  BY <1>2, <1>6, <1>p DEF Evaluate, Goto, held
<1>7. ASSUME NEW c \in Callers, NEW r \in ReqIds, NEW v, NEW w, NEW n,
             Resolve(c, r, v, w, n)
      PROVE  SpentIsServed'
  BY <1>2, <1>7, <1>p DEF Resolve, Goto, held
<1>8. ASSUME NEW c \in Callers, NEW d \in decisions, ParseDecision(c, d)
      PROVE  SpentIsServed'
  BY <1>2, <1>8, <1>p DEF ParseDecision, Goto, shared, held
<1>9. ASSUME NEW c \in Callers, NEW t \in tokens, NEW p \in proofs, ParseCall(c, t, p)
      PROVE  SpentIsServed'
  BY <1>2, <1>9, <1>p DEF ParseCall, Goto, shared, held
<1>10. ASSUME NEW c \in Callers, Park(c) \/ ReturnDenial(c) \/ ReturnReplay(c)
      PROVE  SpentIsServed'
  BY <1>2, <1>10, <1>p DEF Park, ReturnDenial, ReturnReplay, Return, Goto, held
<1>11. ASSUME NEW c \in Callers, IssueDecision(c)
      PROVE  SpentIsServed'
  BY <1>2, <1>11, <1>p DEF IssueDecision, Goto, shared, held
<1>12. ASSUME NEW c \in Callers, IssueFails(c)
      PROVE  SpentIsServed'
  BY <1>2, <1>12, <1>p DEF IssueFails, Return, Goto, shared, held
<1>13. ASSUME NEW c \in Callers, ReturnDecision(c) \/ ReturnToken(c)
      PROVE  SpentIsServed'
  BY <1>2, <1>13, <1>p DEF ReturnDecision, ReturnToken, Return, Goto
<1>14. ASSUME NEW c \in Callers, NEW i \in TokenIds, SignToken(c, i)
      PROVE  SpentIsServed'
  BY <1>2, <1>14, <1>p DEF SignToken, Goto, shared, held
<1> QED
  BY <1>3, <1>4, <1>5, <1>6, <1>7, <1>8, <1>9, <1>10, <1>11, <1>12, <1>13, <1>14
  DEF Next, Begin, Continue, Approve, ApproveWithPasskey, Deny

\* A call is made with a token that was handed out, and a denial about to be
\* logged stands in the PDP's store.
FootingInv ==
    \A c \in Callers :
        /\ pc[c] \in {"record", "authorized", "replayed"} => token[c] \in tokens
        /\ pc[c] = "denied" => /\ decision[c].req \in DOMAIN pending
                               /\ pending[decision[c].req].state = "denied"

LEMMA StepFooting == TypeOK /\ ParkFresh /\ FootingInv /\ [Next]_vars => FootingInv'
<1> SUFFICES ASSUME TypeOK, ParkFresh, FootingInv, [Next]_vars
             PROVE  FootingInv'
  OBVIOUS
<1> USE DEF FootingInv
<1>p. /\ pc \in [Callers -> Stages] /\ decision \in [Callers -> Decision \cup {None}]
      /\ token \in [Callers -> Token \cup {None}]
  BY DEF TypeOK
<1>1. CASE Tick \/ (\E t \in tokens, j \in Jtis : GenerateDPoPProof(t, j))
           \/ UNCHANGED vars
  BY <1>1 DEF Tick, GenerateDPoPProof, vars, shared, held, local
<1>2. ASSUME NEW c \in Callers, NEW r \in ReqIds, NEW t \in Tasks, Evaluate(c, r, t)
      PROVE  FootingInv'
  BY <1>2, <1>p DEF Evaluate, Goto, held
<1>3. ASSUME NEW c \in Callers, NEW r \in ReqIds, NEW w,
             \/ Resolve(c, r, "approved", w, "sign")
             \/ Resolve(c, r, "denied", w, "denied")
      PROVE  FootingInv'
  <2>1. \A q \in DOMAIN pending : pending[q].state = "denied" =>
            q \in DOMAIN pending' /\ pending'[q].state = "denied"
    BY <1>3 DEF Resolve
  <2>2. pc'[c] = "denied" => decision'[c].req \in DOMAIN pending'
                             /\ pending'[decision'[c].req].state = "denied"
    BY <1>3, <1>p DEF Resolve, Goto
  <2> QED BY <1>3, <1>p, <2>1, <2>2 DEF Resolve, Goto, held
<1>4. ASSUME NEW c \in Callers, NEW d \in decisions, ParseDecision(c, d)
      PROVE  FootingInv'
  BY <1>4, <1>p DEF ParseDecision, Goto, shared, held
<1>5. ASSUME NEW c \in Callers, NEW t \in tokens, NEW p \in proofs, ParseCall(c, t, p)
      PROVE  FootingInv'
  BY <1>5, <1>p DEF ParseCall, Goto, shared, held
<1>6. ASSUME NEW c \in Callers, Park(c)
      PROVE  FootingInv'
  <2>1. \A q \in DOMAIN pending : q \in DOMAIN pending' /\ pending'[q] = pending[q]
    BY <1>6 DEF Park, Return, Goto, ParkFresh
  <2> QED BY <1>6, <1>p, <2>1 DEF Park, Return, Goto, held
<1>7. ASSUME NEW c \in Callers, IssueDecision(c)
      PROVE  FootingInv'
  BY <1>7, <1>p DEF IssueDecision, Goto, shared, held
<1>8. ASSUME NEW c \in Callers, IssueFails(c)
      PROVE  FootingInv'
  BY <1>8, <1>p DEF IssueFails, Return, Goto, shared, held
<1>9. ASSUME NEW c \in Callers, ReturnDecision(c) \/ ReturnDenial(c) \/ ReturnToken(c)
                                \/ ReturnReplay(c) \/ ReturnCall(c)
      PROVE  FootingInv'
  BY <1>9, <1>p DEF ReturnDecision, ReturnDenial, ReturnToken, ReturnReplay,
     ReturnCall, Return, Goto, held
<1>10. ASSUME NEW c \in Callers, NEW i \in TokenIds, SignToken(c, i)
       PROVE  FootingInv'
  BY <1>10, <1>p DEF SignToken, Goto, shared, held
<1>11. ASSUME NEW c \in Callers, RecordJTI(c)
       PROVE  FootingInv'
  BY <1>11, <1>p DEF RecordJTI, Goto, held
<1> QED
  BY <1>1, <1>2, <1>3, <1>4, <1>5, <1>6, <1>7, <1>8, <1>9, <1>10, <1>11
  DEF Next, Begin, Continue, Approve, ApproveWithPasskey, Deny

-----------------------------------------------------------------------------
(* The inductive invariant and the theorems *)

IInv ==
    /\ TypeOK
    /\ InFlightLogged
    /\ AuditTellsTheStory
    /\ VerdictInv
    /\ OneVerdict
    /\ OneDecisionPerRequest
    /\ BackedInv
    /\ ServedInv
    /\ ProofServedOnce
    /\ SpentIsServed
    /\ FootingInv

LEMMA InitIInv == Init => IInv
<1> SUFFICES ASSUME Init PROVE IInv
  OBVIOUS
<1>1. TypeOK
  BY BoundAssumption DEF Init, TypeOK, Stages
<1>2. InFlightLogged /\ VerdictInv /\ BackedInv
  BY DEF Init, InFlightLogged, PendingLogged, HeldLogged, CallersLogged, Working,
     VerdictInv, OneOwner, OwnerAhead, PendingOpen, ParkFresh, BackedInv
<1>3. AuditTellsTheStory /\ OneVerdict
  BY DEF Init, AuditTellsTheStory, Follows, OneVerdict
<1>4. OneDecisionPerRequest /\ ServedInv /\ ProofServedOnce /\ SpentIsServed /\ FootingInv
  BY DEF Init, OneDecisionPerRequest, ServedInv, ProofServedOnce, SpentIsServed,
     FootingInv
<1> QED BY <1>1, <1>2, <1>3, <1>4 DEF IInv

\* The inductive invariant holds in every reachable state (pkg/cb4a).
THEOREM Invariance == Spec => []IInv
<1>1. IInv /\ [Next]_vars => IInv'
  BY StepTypeOK, StepStory, StepVerdictInv, StepOneVerdict, StepBackedInv, StepServed,
     StepSpent, StepFooting
  DEF IInv, VerdictInv
<1> QED BY <1>1, InitIInv, PTL DEF Spec

\* Every variable of the PDP, the CDP and the goroutines keeps its type.
THEOREM TypeCorrect == Spec => []TypeOK
<1>1. IInv => TypeOK
  BY DEF IInv
<1> QED BY <1>1, Invariance, PTL

\* However many Approve, ApproveWithPasskey and Deny calls race for a request
\* (pdp.go:205-216, 256-267), one verdict is logged and one decision signed.
THEOREM SingleVerdict == Spec => []OneOutcome
<1>1. IInv => OneOutcome
  BY DEF IInv, OneOutcome
<1> QED BY <1>1, Invariance, PTL

\* A token above the automatic tier is backed by an approved request: the CDP
\* mints nothing the PDP has not let through (cdp.go:135-147).
THEOREM HumanBehindToken == Spec => []ElevatedNeedsHuman
<1>1. IInv => ElevatedNeedsHuman
  BY DEF IInv, BackedInv, Backed, ElevatedNeedsHuman
<1> QED BY <1>1, Invariance, PTL

\* The audit log holds the cause of every entry before the entry
\* (pdp.go:157-223, cdp.go:187-208, 350-374).
THEOREM LogTellsTheStory == Spec => []AuditTellsTheStory
<1>1. IInv => AuditTellsTheStory
  BY DEF IInv
<1> QED BY <1>1, Invariance, PTL

\* A DPoP proof authorizes at most one API call (cdp.go:342-363).
THEOREM OneCallPerProof == Spec => []ProofServedOnce
<1>1. IInv => ProofServedOnce
  BY DEF IInv
<1> QED BY <1>1, Invariance, PTL

\* Only proofs that bought a call, or are buying it, are in the replay store
\* (cdp.go:347-363).
THEOREM NothingSpentInVain == Spec => []SpentIsServed
<1>1. IInv => SpentIsServed
  BY DEF IInv
<1> QED BY <1>1, Invariance, PTL

\* Whoever is the first to ask a PDP with the default rules, no stricter rule is
\* passed over for a laxer one (pdp.go:132-147).
THEOREM NothingLaxer ==
    ASSUME Rules = DefaultPolicyRules
    PROVE  Spec => []RulesAreStrict
<1>1. RulesAreStrict
  BY DefaultStrict DEF RulesAreStrict
<1> QED BY <1>1, PTL

-----------------------------------------------------------------------------
(* The broker keeps its promise *)

\* An append adds its entry to the verdicts on its request, if it is a verdict,
\* and nothing to the verdicts on any other.
LEMMA VerdictsAfter ==
    ASSUME TypeOK, NEW e \in Events, NEW r \in ReqIds, LogEntry(e, r), NEW q \in ReqIds
    PROVE  verdictOf'[q] =
             IF q = r /\ e \in Verdicts
             THEN verdictOf[q] \cup {[at |-> Len(audit) + 1, says |-> e]}
             ELSE verdictOf[q]
<1>1. PICK n : /\ n = Len(audit) + 1
               /\ DOMAIN audit' = DOMAIN audit \cup {n} /\ n \notin DOMAIN audit
               /\ \A i \in DOMAIN audit : audit'[i] = audit[i]
               /\ audit'[n] = [event |-> e, req |-> r]
  <2>1. /\ DOMAIN audit = 1..Len(audit) /\ Len(audit) \in Nat
        /\ DOMAIN audit' = 1..(Len(audit) + 1)
        /\ \A i \in DOMAIN audit : audit'[i] = audit[i]
        /\ audit'[Len(audit) + 1] = [event |-> e, req |-> r]
    BY EntryAppended DEF TypeOK
  <2> QED BY <2>1
<1> DEFINE on == {k \in DOMAIN audit : audit[k].event \in Verdicts /\ audit[k].req = q}
           after == {k \in DOMAIN audit' : audit'[k].event \in Verdicts /\ audit'[k].req = q}
<1>2. /\ verdictOf[q] = {[at |-> i, says |-> audit[i].event] : i \in on}
      /\ verdictOf'[q] = {[at |-> i, says |-> audit'[i].event] : i \in after}
  BY DEF verdictOf
<1>3. /\ \A i \in on : audit'[i] = audit[i]
      /\ after = on \cup (IF q = r /\ e \in Verdicts THEN {n} ELSE {})
  BY <1>1
<1>4. audit'[n].event = e
  BY <1>1
<1> HIDE DEF on, after
<1>5. CASE q = r /\ e \in Verdicts
  BY <1>2, <1>3, <1>4, <1>5, <1>1
<1>6. CASE ~(q = r /\ e \in Verdicts)
  BY <1>2, <1>3, <1>6
<1> QED BY <1>5, <1>6

\* An entry that is no verdict leaves all verdicts as they are.
LEMMA VerdictSame ==
    ASSUME TypeOK, NEW e \in Events \ Verdicts, NEW r \in ReqIds, LogEntry(e, r)
    PROVE  verdictOf' = verdictOf
<1>1. \A q \in ReqIds : verdictOf'[q] = verdictOf[q]
  BY VerdictsAfter
<1>2. /\ verdictOf = [q \in ReqIds |-> verdictOf[q]]
      /\ verdictOf' = [q \in ReqIds |-> verdictOf'[q]]
  BY DEF verdictOf
<1> QED BY <1>1, <1>2

\* The first verdict on a request is the only one that is there after it.
LEMMA RuledAfter ==
    ASSUME TypeOK, NEW e \in Verdicts, NEW r \in ReqIds, LogEntry(e, r), NoVerdict(r)
    PROVE  /\ verdictOf[r] = {}
           /\ \E v \in verdictOf'[r] :
                 v.says = e /\ verdictOf' = [verdictOf EXCEPT ![r] = {v}]
<1> DEFINE v == [at |-> Len(audit) + 1, says |-> e]
<1>1. verdictOf[r] = {}
  BY DEF verdictOf, NoVerdict, Logged, Verdicts
<1>2. \A q \in ReqIds : verdictOf'[q] = IF q = r THEN {v} ELSE verdictOf[q]
  BY <1>1, VerdictsAfter DEF Verdicts, Events
<1>3. /\ verdictOf = [q \in ReqIds |-> verdictOf[q]]
      /\ verdictOf' = [q \in ReqIds |-> verdictOf'[q]]
  BY DEF verdictOf
<1>4. v.says = e
  OBVIOUS
<1> HIDE DEF v
<1>5. verdictOf' = [verdictOf EXCEPT ![r] = {v}] /\ v \in verdictOf'[r]
  BY <1>2, <1>3
<1> QED BY <1>1, <1>4, <1>5

\* Every step of the broker is a step of its promise, or none.
LEMMA StepPromise == IInv /\ [Next]_vars => [Promise!Next]_(Promise!vars)
<1> SUFFICES ASSUME IInv, [Next]_vars
             PROVE  Promise!Next \/ UNCHANGED <<letThrough, verdictOf, handedOut, served>>
  BY DEF Promise!vars
<1> USE DEF Promise!Next
<1>t. TypeOK /\ OneVerdict
  BY DEF IInv
<1>1. ASSUME UNCHANGED <<pending, audit, tokens, served>>
      PROVE  UNCHANGED <<letThrough, verdictOf, handedOut, served>>
  <2>1. verdictOf' = verdictOf
    BY <1>1 DEF verdictOf
  <2> QED BY <1>1, <2>1 DEF letThrough, handedOut
<1>2. ASSUME Tick \/ (\E t \in tokens, j \in Jtis : GenerateDPoPProof(t, j))
             \/ UNCHANGED vars
      PROVE  UNCHANGED <<pending, audit, tokens, served>>
  BY <1>2 DEF Tick, GenerateDPoPProof, vars, shared, held
<1>3. ASSUME NEW c \in Callers,
             \/ \E d \in decisions : ParseDecision(c, d)
             \/ \E t \in tokens, p \in proofs : ParseCall(c, t, p)
             \/ IssueDecision(c) \/ IssueFails(c) \/ RecordJTI(c)
             \/ \E i \in TokenIds : SignToken(c, i)
      PROVE  UNCHANGED <<pending, audit, tokens, served>>
  BY <1>3 DEF ParseDecision, ParseCall, IssueDecision, IssueFails, RecordJTI,
     SignToken, shared, held
<1>4. ASSUME NEW c \in Callers, NEW r \in ReqIds, NEW t \in Tasks, Evaluate(c, r, t)
      PROVE  UNCHANGED <<letThrough, verdictOf, handedOut, served>>
  <2>1. verdictOf' = verdictOf
    BY <1>4, <1>t, VerdictSame DEF Evaluate, Events, Verdicts
  <2> QED BY <1>4, <2>1 DEF Evaluate, held, letThrough, handedOut
<1>5. ASSUME NEW c \in Callers, ReturnReplay(c)
      PROVE  UNCHANGED <<letThrough, verdictOf, handedOut, served>>
  <2>1. token[c].req \in ReqIds
    BY <1>5, <1>t DEF ReturnReplay, Return, Goto, TypeOK, Token
  <2>2. verdictOf' = verdictOf
    BY <1>5, <1>t, <2>1, VerdictSame DEF ReturnReplay, Events, Verdicts
  <2> QED BY <1>5, <2>2 DEF ReturnReplay, held, letThrough, handedOut
<1>6. ASSUME NEW c \in Callers, Park(c)
      PROVE  UNCHANGED <<letThrough, verdictOf, handedOut, served>>
  <2>1. decision[c].req \notin DOMAIN pending /\ UNCHANGED <<audit, tokens, served>>
    BY <1>6 DEF Park, Return, Goto, held, IInv, VerdictInv, ParkFresh
  <2>2. verdictOf' = verdictOf
    BY <2>1 DEF verdictOf
  <2>3. letThrough' = letThrough
    BY <1>6, <2>1 DEF Park, letThrough
  <2> QED BY <2>1, <2>2, <2>3 DEF handedOut
<1>7. ASSUME NEW c \in Callers, NEW r \in ReqIds, NEW w,
             Resolve(c, r, "approved", w, "sign")
      PROVE  Promise!HumanApproves(r)
  <2>1. /\ r \in DOMAIN pending /\ pending[r].state = "pending"
        /\ UNCHANGED <<audit, tokens, served>>
    BY <1>7 DEF Resolve, held
  <2>2. NoVerdict(r)
    BY <2>1 DEF IInv, VerdictInv, PendingOpen
  <2>3. verdictOf[r] = {} /\ r \notin letThrough
    BY <2>1, <2>2 DEF verdictOf, NoVerdict, Logged, Verdicts, letThrough
  <2>4. letThrough' = letThrough \cup {r}
    BY <1>7, <2>1 DEF Resolve, letThrough
  <2>5. verdictOf' = verdictOf
    BY <2>1 DEF verdictOf
  <2> QED BY <2>1, <2>3, <2>4, <2>5 DEF Promise!HumanApproves, handedOut
<1>8. ASSUME NEW c \in Callers, NEW r \in ReqIds, NEW w,
             Resolve(c, r, "denied", w, "denied")
      PROVE  UNCHANGED <<letThrough, verdictOf, handedOut, served>>
  <2>1. pending[r].state = "pending" /\ UNCHANGED <<audit, tokens, served>>
    BY <1>8 DEF Resolve, held
  <2>2. letThrough' = letThrough
    BY <1>8, <2>1 DEF Resolve, letThrough
  <2>3. verdictOf' = verdictOf
    BY <2>1 DEF verdictOf
  <2> QED BY <2>1, <2>2, <2>3 DEF handedOut
<1>9. ASSUME NEW c \in Callers, ReturnDecision(c)
      PROVE  Promise!Grant(decision[c].req) /\ decision[c].req \in ReqIds
  <2>1. /\ decision[c].req \in ReqIds /\ NoVerdict(decision[c].req)
    BY <1>9, <1>t DEF ReturnDecision, Return, Goto, TypeOK, Decision, IInv,
       VerdictInv, OwnerAhead, Working
  <2>2. /\ verdictOf[decision[c].req] = {}
        /\ \E v \in verdictOf'[decision[c].req] :
              v.says = "approved" /\ verdictOf' = [verdictOf EXCEPT ![decision[c].req] = {v}]
    BY <1>9, <1>t, <2>1, RuledAfter DEF Verdicts, ReturnDecision
  <2> QED BY <1>9, <2>1, <2>2
          DEF ReturnDecision, Promise!Grant, Promise!Rule, letThrough, handedOut
<1>10. ASSUME NEW c \in Callers, ReturnDenial(c)
       PROVE  Promise!Refuse(decision[c].req) /\ decision[c].req \in ReqIds
  <2>1. /\ decision[c].req \in ReqIds /\ NoVerdict(decision[c].req)
    BY <1>10, <1>t DEF ReturnDenial, Return, Goto, TypeOK, Decision, IInv,
       VerdictInv, OwnerAhead, Working
  <2>2. /\ verdictOf[decision[c].req] = {}
        /\ \E v \in verdictOf'[decision[c].req] :
              v.says = "denied" /\ verdictOf' = [verdictOf EXCEPT ![decision[c].req] = {v}]
    BY <1>10, <1>t, <2>1, RuledAfter DEF Verdicts, ReturnDenial
  <2>3. decision[c].req \notin letThrough
    BY <1>10 DEF ReturnDenial, Return, Goto, IInv, FootingInv, letThrough
  <2> QED BY <1>10, <2>1, <2>2, <2>3
          DEF ReturnDenial, held, Promise!Refuse, Promise!Rule, letThrough, handedOut
<1>11. ASSUME NEW c \in Callers, ReturnToken(c)
       PROVE  \E i \in TokenIds, r \in ReqIds, e \in BOOLEAN : Promise!Issue(i, r, e)
  <2> DEFINE t == token[c]
  <2>1. t \in Token /\ t.id \in TokenIds /\ t.req \in ReqIds
    BY <1>11, <1>t DEF ReturnToken, Return, Goto, TypeOK, Token
  <2>2. Logged("approved", t.req) /\ Backed(t)
    BY <1>11 DEF ReturnToken, Return, Goto, IInv, InFlightLogged, CallersLogged,
       BackedInv
  <2>3. \E v \in verdictOf[t.req] : v.says = "approved"
    <3>1. PICK i \in DOMAIN audit : audit[i].event = "approved" /\ audit[i].req = t.req
      BY <2>2 DEF Logged
    <3>2. [at |-> i, says |-> "approved"] \in verdictOf[t.req]
      BY <2>1, <3>1 DEF verdictOf, Verdicts
    <3> QED BY <3>2
  <2>4. Tier[t.task] # TierAuto => t.req \in letThrough
    BY <2>2 DEF Backed, letThrough
  <2>5. verdictOf' = verdictOf
    BY <1>11, <1>t, <2>1, VerdictSame DEF ReturnToken, Events, Verdicts
  <2>6. tokens' = tokens \cup {t} /\ UNCHANGED <<pending, served>>
    BY <1>11 DEF ReturnToken
  <2>7. handedOut' = handedOut \cup
          {[id |-> t.id, req |-> t.req, elevated |-> Tier[t.task] # TierAuto]}
    BY <2>6 DEF handedOut
  <2>8. PICK e \in BOOLEAN : e = (Tier[t.task] # TierAuto)
    OBVIOUS
  <2>9. handedOut' = handedOut \cup {[id |-> t.id, req |-> t.req, elevated |-> e]}
    BY <2>7, <2>8
  <2>10. e => t.req \in letThrough
    BY <2>4, <2>8
  <2>11. UNCHANGED <<letThrough, verdictOf, served>>
    BY <2>5, <2>6 DEF letThrough
  <2> HIDE DEF t
  <2>12. Promise!Issue(t.id, t.req, e)
    BY <2>3, <2>9, <2>10, <2>11, Zenon DEF Promise!Issue
  <2> QED BY <2>1, <2>12
<1>12. ASSUME NEW c \in Callers, ReturnCall(c)
       PROVE  proof[c].jti \in Jtis /\ Promise!Buy(proof[c].jti)
  <2>1. proof[c].jti \in Jtis /\ served[proof[c].jti] = 0 /\ token[c] \in tokens
    BY <1>12, <1>t DEF ReturnCall, Return, Goto, TypeOK, Proof, IInv, ServedInv,
       FootingInv
  <2>2. token[c].req \in ReqIds
    BY <2>1, <1>t DEF TypeOK, Token
  <2>3. verdictOf' = verdictOf
    BY <1>12, <1>t, <2>2, VerdictSame DEF ReturnCall, Events, Verdicts
  <2>4. served' = [served EXCEPT ![proof[c].jti] = 1]
    BY <1>12, <2>1 DEF ReturnCall
  <2>6. handedOut # {}
    BY <2>1 DEF handedOut
  <2> QED BY <1>12, <2>1, <2>3, <2>4, <2>6
          DEF ReturnCall, Promise!Buy, letThrough, handedOut
<1> QED
  BY <1>1, <1>2, <1>3, <1>4, <1>5, <1>6, <1>7, <1>8, <1>9, <1>10, <1>11, <1>12
  DEF Next, Begin, Continue, Approve, ApproveWithPasskey, Deny

\* Credential brokering implements its promise (pkg/cb4a): of the second verdict on
\* a request, and of the second call on a proof, Broker has no step, and elevated
\* credentials are issued only with a human.
THEOREM KeepsPromise == Spec => ImplementsBroker
<1>1. Init => Promise!Init
  <2>1. ASSUME Init PROVE verdictOf = [r \in ReqIds |-> {}]
    BY <2>1 DEF Init, verdictOf
  <2> QED BY <2>1 DEF Init, Promise!Init, letThrough, handedOut
<1>2. IInv /\ [Next]_vars => [Promise!Next]_(Promise!vars)
  BY StepPromise
<1> QED BY <1>1, <1>2, Invariance, PTL DEF Spec, ImplementsBroker, Promise!Spec
=============================================================================
