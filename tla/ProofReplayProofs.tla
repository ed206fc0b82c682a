-------------------------- MODULE ProofReplayProofs --------------------------
(***************************************************************************)
(* Proofs about ProofReplay, for every number of calls, identifiers,       *)
(* bindings and lifetimes.  The inductive invariant IInv ties the store to *)
(* the proofs that were issued and to the calls that were accepted.        *)
(***************************************************************************)
EXTENDS ProofReplay, TLAPS

-----------------------------------------------------------------------------
(* The inductive invariant *)

\* A jti names one proof.
OneProofPerJti == \A p, q \in issued : p.jti = q.jti => p = q

\* A call works on an issued proof.
CallsPresentIssued == \A c \in Calls : pc[c] # "idle" => proof[c] \in issued

\* Only a proof that carries a jti goes on to the store.
StoreCallsHaveJti ==
    \A c \in Calls : pc[c] \in {"record", "locked", "accepted", "replayed"} =>
        proof[c].jti \in Jtis

\* The store keeps a jti with the expiry of its proof.
SeenExpiry == \A j \in DOMAIN seen : \E p \in issued : p.jti = j /\ p.exp = seen[j]

\* No recorded time is in the future.
TimesPast == \A c \in Calls : now[c] <= clock /\ storedAt[c] <= clock

\* The jti of an accepted call is in the store until its proof has expired.
AcceptedRemembered ==
    \A c \in Calls : Accepted(c) /\ clock <= proof[c].exp =>
        proof[c].jti \in DOMAIN seen

IInv ==
    /\ TypeOK
    /\ OneProofPerJti
    /\ CallsPresentIssued
    /\ StoreCallsHaveJti
    /\ SeenExpiry
    /\ TimesPast
    /\ AcceptedRemembered
    /\ AtMostOnceWhileLive
    /\ OnlyAcceptedCallsSpend
    /\ ReplayedMeansAccepted

-----------------------------------------------------------------------------
(* The sweep *)

\* A sweep with a time not in the future keeps every entry that is not past
\* its expiry, and adds none (store.go:51-55).
LEMMA SweepKeepsLive ==
    ASSUME NEW t \in Int, NEW j \in DOMAIN seen, seen[j] \in Int, t <= seen[j]
    PROVE  j \in DOMAIN Sweep(t)
BY DEF Sweep

LEMMA SweepSubset ==
    \A t : /\ DOMAIN Sweep(t) \subseteq DOMAIN seen
          /\ \A j \in DOMAIN Sweep(t) : Sweep(t)[j] = seen[j]
BY DEF Sweep

\* Inserting adds the one jti with its expiry to the swept store.
LEMMA InsertAdds ==
    \A t, j, e :
        /\ DOMAIN Insert(t, j, e) = DOMAIN Sweep(t) \cup {j}
        /\ \A k \in DOMAIN Sweep(t) \cup {j} :
              Insert(t, j, e)[k] = IF k = j THEN e ELSE seen[k]
BY DEF Insert

\* What an accepting Record leaves in the store (store.go:51-60).
LEMMA RecordFreshStore ==
    ASSUME CallsPresentIssued, StoreCallsHaveJti,
           NEW c \in Calls, RecordFresh(c)
    PROVE  /\ proof[c] \in issued
           /\ proof[c].jti \in Jtis
           /\ DOMAIN seen' = DOMAIN Sweep(now[c]) \cup {proof[c].jti}
           /\ \A k \in DOMAIN seen' :
                 seen'[k] = IF k = proof[c].jti THEN proof[c].exp ELSE seen[k]
           /\ DOMAIN Sweep(now[c]) \subseteq DOMAIN seen
<1>1. proof[c] \in issued /\ proof[c].jti \in Jtis
  BY DEF RecordFresh, Goto, CallsPresentIssued, StoreCallsHaveJti
<1>2. PICK t, j, e : t = now[c] /\ j = proof[c].jti /\ e = proof[c].exp
  OBVIOUS
<1>3. seen' = Insert(t, j, e)
  BY <1>2 DEF RecordFresh
<1>4. DOMAIN seen' = DOMAIN Sweep(t) \cup {j}
  BY <1>3, InsertAdds
<1>5. \A k \in DOMAIN seen' : seen'[k] = IF k = j THEN e ELSE seen[k]
  BY <1>3, <1>4, InsertAdds
<1>6. DOMAIN Sweep(t) \subseteq DOMAIN seen
  BY SweepSubset
<1> QED BY <1>1, <1>2, <1>4, <1>5, <1>6

-----------------------------------------------------------------------------
(* Initial states and steps *)

LEMMA InitIInv == Init => IInv
BY TimeAssumption DEF Init, IInv, TypeOK, Time, Locations, OneProofPerJti,
   CallsPresentIssued, StoreCallsHaveJti, SeenExpiry, TimesPast,
   AcceptedRemembered, AtMostOnceWhileLive, OnlyAcceptedCallsSpend,
   ReplayedMeansAccepted, Accepted

\* Every step keeps the state well typed.
LEMMA StepTypeOK ==
    TypeOK /\ CallsPresentIssued /\ StoreCallsHaveJti /\ [Next]_vars => TypeOK'
<1> SUFFICES ASSUME TypeOK, CallsPresentIssued, StoreCallsHaveJti, [Next]_vars
             PROVE  TypeOK'
  OBVIOUS
<1> USE DEF TypeOK, Locations
<1>1. CASE Tick
  BY <1>1, TimeAssumption DEF Tick, callVars, Time
<1>2. ASSUME NEW j \in Jtis, NEW b \in Bindings, NEW ttl \in TTLs,
             GenerateProof(j, b, ttl)
      PROVE  TypeOK'
  <2>1. [jti |-> j, iat |-> clock, exp |-> clock + ttl, binding |-> b] \in Proof
    BY TimeAssumption DEF Proof, Time
  <2> QED BY <1>2, <2>1 DEF GenerateProof, callVars
<1>3. ASSUME NEW b \in Bindings, NEW ttl \in TTLs, SignWithoutJti(b, ttl)
      PROVE  TypeOK'
  <2>1. [jti |-> NoJti, iat |-> clock, exp |-> clock + ttl, binding |-> b] \in Proof
    BY TimeAssumption DEF Proof, Time
  <2> QED BY <1>3, <2>1 DEF SignWithoutJti, callVars
<1>4. ASSUME NEW c \in Calls, NEW p \in issued, Present(c, p) PROVE TypeOK'
  BY <1>4 DEF Present, Goto
<1>5. ASSUME NEW c \in Calls, NEW b \in Bindings, CheckOK(c, b) PROVE TypeOK'
  BY <1>5 DEF CheckOK, Goto
<1>6. ASSUME NEW c \in Calls, NEW b \in Bindings, CheckFails(c, b) PROVE TypeOK'
  BY <1>6 DEF CheckFails, Goto
<1>7. ASSUME NEW c \in Calls, ReadNow(c) PROVE TypeOK'
  BY <1>7 DEF ReadNow, Goto
<1>8. ASSUME NEW c \in Calls, RecordFresh(c) PROVE TypeOK'
  <2>1. proof[c].exp \in Int
    BY <1>8, RecordFreshStore DEF Proof
  <2>2. /\ DOMAIN seen' \subseteq Jtis
        /\ \A k \in DOMAIN seen' : seen'[k] \in Int
    BY <1>8, <2>1, RecordFreshStore
  <2> QED BY <1>8, <2>2 DEF RecordFresh, Goto
<1>9. ASSUME NEW c \in Calls, RecordReplayed(c) PROVE TypeOK'
  <2>1. /\ DOMAIN seen' \subseteq Jtis
        /\ \A k \in DOMAIN seen' : seen'[k] \in Int
    BY <1>9, SweepSubset DEF RecordReplayed
  <2> QED BY <1>9, <2>1 DEF RecordReplayed, Goto
<1>10. CASE UNCHANGED vars
  BY <1>10 DEF vars
<1> QED
  BY <1>1, <1>2, <1>3, <1>4, <1>5, <1>6, <1>7, <1>8, <1>9, <1>10 DEF Next, Call

\* The steps that leave the store, the accepted calls and the proofs they work
\* on alone keep the parts of the invariant that relate them.
LEMMA QuietStep ==
    ASSUME IInv, TypeOK', clock' = clock, seen' = seen, storedAt' = storedAt,
           OneProofPerJti', issued \subseteq issued',
           CallsPresentIssued', StoreCallsHaveJti',
           \A c \in Calls : now'[c] \in {now[c], clock},
           \A c \in Calls : pc[c] # "idle" => proof'[c] = proof[c],
           \A c \in Calls : Accepted(c) <=> pc'[c] = "accepted",
           \A c \in Calls : pc[c] = "replayed" <=> pc'[c] = "replayed"
    PROVE  IInv'
<1> USE DEF IInv
<1>1. \A c \in Calls : pc'[c] = "accepted" => Accepted(c) /\ proof'[c] = proof[c]
  BY DEF Accepted
<1>2. SeenExpiry'
  BY DEF SeenExpiry
<1>3. TimesPast'
  BY DEF TimesPast, TypeOK, Time
<1>4. AcceptedRemembered'
  BY <1>1 DEF AcceptedRemembered, Accepted
<1>5. AtMostOnceWhileLive'
  BY <1>1 DEF AtMostOnceWhileLive, SameProof, Accepted
<1>6. OnlyAcceptedCallsSpend'
  BY <1>1 DEF OnlyAcceptedCallsSpend, Accepted
<1>7. ReplayedMeansAccepted'
  BY <1>1 DEF ReplayedMeansAccepted, SameProof, Accepted
<1> QED BY <1>2, <1>3, <1>4, <1>5, <1>6, <1>7

LEMMA TickStep == IInv /\ TypeOK' /\ Tick => IInv'
<1> SUFFICES ASSUME IInv, TypeOK', Tick PROVE IInv'
  OBVIOUS
<1> USE DEF IInv, Tick, callVars, Accepted, SameProof
<1>1. clock <= clock' /\ clock \in Int /\ clock' \in Int
  BY DEF TypeOK, Time
<1>2. TimesPast'
  BY <1>1 DEF TimesPast, TypeOK, Time
<1>3. AcceptedRemembered'
  <2> SUFFICES ASSUME NEW c \in Calls, Accepted(c), clock' <= proof[c].exp
               PROVE  proof[c].jti \in DOMAIN seen
    BY DEF AcceptedRemembered
  <2>1. proof[c].exp \in Int
    BY DEF CallsPresentIssued, TypeOK, Proof
  <2>2. clock <= proof[c].exp
    BY <1>1, <2>1
  <2> QED BY <2>2 DEF AcceptedRemembered
<1> QED
  BY <1>2, <1>3 DEF OneProofPerJti, CallsPresentIssued, StoreCallsHaveJti,
     SeenExpiry, AtMostOnceWhileLive, OnlyAcceptedCallsSpend,
     ReplayedMeansAccepted

\* An accepting Record (store.go:51-60) keeps the invariant.
LEMMA RecordFreshStep ==
    ASSUME IInv, TypeOK', NEW c \in Calls, RecordFresh(c)
    PROVE  IInv'
<1> USE DEF IInv
<1>1. /\ proof[c] \in issued
      /\ proof[c].jti \in Jtis
      /\ DOMAIN seen' = DOMAIN Sweep(now[c]) \cup {proof[c].jti}
      /\ \A k \in DOMAIN seen' :
            seen'[k] = IF k = proof[c].jti THEN proof[c].exp ELSE seen[k]
      /\ DOMAIN Sweep(now[c]) \subseteq DOMAIN seen
  BY RecordFreshStore
<1>2. /\ clock' = clock /\ issued' = issued /\ proof' = proof /\ now' = now
      /\ pc[c] = "locked" /\ pc' = [pc EXCEPT ![c] = "accepted"]
      /\ storedAt' = [storedAt EXCEPT ![c] = clock]
      /\ proof[c].jti \notin DOMAIN Sweep(now[c])
  BY DEF RecordFresh, Goto
<1>3. /\ pc'[c] = "accepted" /\ storedAt'[c] = clock
      /\ \A d \in Calls : d # c => pc'[d] = pc[d] /\ storedAt'[d] = storedAt[d]
  BY <1>2 DEF TypeOK
<1>4. clock \in Int /\ now[c] \in Int /\ now[c] <= clock
  BY DEF TypeOK, Time, TimesPast
\* An entry that is not past its expiry survives the sweep.
<1>5. ASSUME NEW d \in Calls, Accepted(d), clock <= proof[d].exp
      PROVE  proof[d].jti \in DOMAIN Sweep(now[c])
  <2>1. proof[d] \in issued /\ proof[d].jti \in DOMAIN seen
    BY <1>5 DEF Accepted, CallsPresentIssued, AcceptedRemembered
  <2>2. seen[proof[d].jti] = proof[d].exp
    BY <2>1 DEF SeenExpiry, OneProofPerJti
  <2>3. proof[d].exp \in Int /\ now[c] <= proof[d].exp
    BY <2>1, <1>4, <1>5 DEF TypeOK, Proof
  <2> QED BY <2>1, <2>2, <2>3, <1>4, SweepKeepsLive
<1>6. OneProofPerJti' /\ CallsPresentIssued' /\ StoreCallsHaveJti'
  BY <1>1, <1>2, <1>3 DEF OneProofPerJti, CallsPresentIssued, StoreCallsHaveJti
<1>7. SeenExpiry'
  BY <1>1, <1>2 DEF SeenExpiry
<1>8. TimesPast'
  BY <1>2, <1>3, <1>4 DEF TimesPast
<1>9. AcceptedRemembered'
  BY <1>1, <1>2, <1>3, <1>5 DEF AcceptedRemembered, Accepted
<1>10. AtMostOnceWhileLive'
  <2> SUFFICES ASSUME NEW d \in Calls, NEW e \in Calls,
                      Accepted(d)', Accepted(e)', SameProof(d, e),
                      storedAt'[d] <= proof[d].exp, storedAt'[e] <= proof[e].exp
               PROVE  d = e
    BY <1>2 DEF AtMostOnceWhileLive, SameProof
  <2>1. ASSUME NEW f \in Calls, f # c, Accepted(f)', SameProof(f, c),
               clock <= proof[c].exp
        PROVE  FALSE
    <3>1. Accepted(f)
      BY <2>1, <1>3 DEF Accepted
    <3>2. proof[f] = proof[c]
      BY <2>1, <3>1, <1>1
         DEF SameProof, OneProofPerJti, CallsPresentIssued, Accepted
    <3> QED BY <2>1, <3>1, <3>2, <1>2, <1>5
  <2>2. CASE d = c
    BY <2>1, <2>2, <1>3 DEF SameProof
  <2>3. CASE e = c
    BY <2>1, <2>3, <1>3 DEF SameProof
  <2>4. CASE d # c /\ e # c
    BY <2>4, <1>3 DEF AtMostOnceWhileLive, Accepted
  <2> QED BY <2>2, <2>3, <2>4
<1>11. OnlyAcceptedCallsSpend'
  BY <1>1, <1>2, <1>3 DEF OnlyAcceptedCallsSpend, Accepted
<1>12. ReplayedMeansAccepted'
  BY <1>2, <1>3 DEF ReplayedMeansAccepted, Accepted, SameProof
<1> QED BY <1>6, <1>7, <1>8, <1>9, <1>10, <1>11, <1>12

\* A Record that finds the jti (store.go:51-58) keeps the invariant.
LEMMA RecordReplayedStep ==
    ASSUME IInv, TypeOK', NEW c \in Calls, RecordReplayed(c)
    PROVE  IInv'
<1> USE DEF IInv
<1>1. /\ clock' = clock /\ issued' = issued /\ proof' = proof /\ now' = now
      /\ pc[c] = "locked" /\ pc' = [pc EXCEPT ![c] = "replayed"]
      /\ storedAt' = storedAt /\ seen' = Sweep(now[c])
      /\ proof[c].jti \in DOMAIN seen
  BY SweepSubset DEF RecordReplayed, Goto
<1>2. /\ DOMAIN seen' \subseteq DOMAIN seen
      /\ \A k \in DOMAIN seen' : seen'[k] = seen[k]
  BY <1>1, SweepSubset
<1>3. /\ pc'[c] = "replayed"
      /\ \A d \in Calls : d # c => pc'[d] = pc[d]
  BY <1>1 DEF TypeOK
<1>4. \A d \in Calls : Accepted(d)' <=> Accepted(d)
  BY <1>1, <1>3 DEF Accepted
<1>5. clock \in Int /\ now[c] \in Int /\ now[c] <= clock
  BY DEF TypeOK, Time, TimesPast
<1>6. OneProofPerJti' /\ CallsPresentIssued' /\ StoreCallsHaveJti'
  BY <1>1, <1>3 DEF OneProofPerJti, CallsPresentIssued, StoreCallsHaveJti
<1>7. SeenExpiry'
  BY <1>1, <1>2 DEF SeenExpiry
<1>8. TimesPast'
  BY <1>1 DEF TimesPast
<1>9. AcceptedRemembered'
  <2> SUFFICES ASSUME NEW d \in Calls, Accepted(d), clock <= proof[d].exp
               PROVE  proof[d].jti \in DOMAIN Sweep(now[c])
    BY <1>1, <1>4 DEF AcceptedRemembered
  <2>1. proof[d] \in issued /\ proof[d].jti \in DOMAIN seen
    BY DEF Accepted, CallsPresentIssued, AcceptedRemembered
  <2>2. seen[proof[d].jti] = proof[d].exp
    BY <2>1 DEF SeenExpiry, OneProofPerJti
  <2>3. proof[d].exp \in Int /\ now[c] <= proof[d].exp
    BY <2>1, <1>5 DEF TypeOK, Proof
  <2> QED BY <2>1, <2>2, <2>3, <1>5, SweepKeepsLive
<1>10. AtMostOnceWhileLive'
  BY <1>1, <1>4 DEF AtMostOnceWhileLive, SameProof
<1>11. OnlyAcceptedCallsSpend'
  BY <1>1, <1>2, <1>4 DEF OnlyAcceptedCallsSpend
\* The call that spent the jti found by c is another accepted call.
<1>12. ReplayedMeansAccepted'
  <2>1. PICK d \in Calls : Accepted(d) /\ proof[d].jti = proof[c].jti
    BY <1>1 DEF OnlyAcceptedCallsSpend
  <2>2. d # c
    BY <2>1, <1>1 DEF Accepted
  <2> QED BY <1>1, <1>3, <1>4, <2>1, <2>2 DEF ReplayedMeansAccepted, SameProof
<1> QED BY <1>6, <1>7, <1>8, <1>9, <1>10, <1>11, <1>12

LEMMA StepIInv == IInv /\ [Next]_vars => IInv'
<1> SUFFICES ASSUME IInv, [Next]_vars PROVE IInv'
  OBVIOUS
<1>1. TypeOK'
  BY StepTypeOK DEF IInv
<1>2. CASE Tick
  BY <1>1, <1>2, TickStep
<1>3. ASSUME NEW j \in Jtis, NEW b \in Bindings, NEW ttl \in TTLs,
             GenerateProof(j, b, ttl)
      PROVE  IInv'
  <2>1. OneProofPerJti' /\ CallsPresentIssued' /\ StoreCallsHaveJti'
    BY <1>3 DEF GenerateProof, callVars, IInv, OneProofPerJti,
       CallsPresentIssued, StoreCallsHaveJti
  <2> QED BY <1>1, <1>3, <2>1, QuietStep DEF GenerateProof, callVars, Accepted
<1>4. ASSUME NEW b \in Bindings, NEW ttl \in TTLs, SignWithoutJti(b, ttl)
      PROVE  IInv'
  <2>1. OneProofPerJti' /\ CallsPresentIssued' /\ StoreCallsHaveJti'
    BY <1>4 DEF SignWithoutJti, callVars, IInv, OneProofPerJti,
       CallsPresentIssued, StoreCallsHaveJti
  <2> QED BY <1>1, <1>4, <2>1, QuietStep DEF SignWithoutJti, callVars, Accepted
<1>5. ASSUME NEW c \in Calls, NEW p \in issued, Present(c, p) PROVE IInv'
  <2>1. OneProofPerJti' /\ CallsPresentIssued' /\ StoreCallsHaveJti'
    BY <1>5 DEF Present, Goto, IInv, TypeOK, OneProofPerJti,
       CallsPresentIssued, StoreCallsHaveJti
  <2> QED BY <1>1, <1>5, <2>1, QuietStep
          DEF Present, Goto, Accepted, IInv, TypeOK
<1>6. ASSUME NEW c \in Calls, NEW b \in Bindings, CheckOK(c, b) PROVE IInv'
  <2>1. c \in ReplayChecked => proof[c].jti \in Jtis
    BY <1>6 DEF CheckOK, PassesChecks, Goto, IInv, TypeOK, Proof,
       CallsPresentIssued
  <2>2. OneProofPerJti' /\ CallsPresentIssued' /\ StoreCallsHaveJti'
    BY <1>6, <2>1 DEF CheckOK, Goto, IInv, TypeOK, OneProofPerJti,
       CallsPresentIssued, StoreCallsHaveJti
  <2> QED BY <1>1, <1>6, <2>2, QuietStep
          DEF CheckOK, Goto, Accepted, IInv, TypeOK
<1>7. ASSUME NEW c \in Calls, NEW b \in Bindings, CheckFails(c, b) PROVE IInv'
  <2>1. OneProofPerJti' /\ CallsPresentIssued' /\ StoreCallsHaveJti'
    BY <1>7 DEF CheckFails, Goto, IInv, TypeOK, OneProofPerJti,
       CallsPresentIssued, StoreCallsHaveJti
  <2> QED BY <1>1, <1>7, <2>1, QuietStep
          DEF CheckFails, Goto, Accepted, IInv, TypeOK
<1>8. ASSUME NEW c \in Calls, ReadNow(c) PROVE IInv'
  <2>1. OneProofPerJti' /\ CallsPresentIssued' /\ StoreCallsHaveJti'
    BY <1>8 DEF ReadNow, Goto, IInv, TypeOK, OneProofPerJti,
       CallsPresentIssued, StoreCallsHaveJti
  <2> QED BY <1>1, <1>8, <2>1, QuietStep
          DEF ReadNow, Goto, Accepted, IInv, TypeOK
<1>9. ASSUME NEW c \in Calls, RecordFresh(c) PROVE IInv'
  BY <1>1, <1>9, RecordFreshStep
<1>10. ASSUME NEW c \in Calls, RecordReplayed(c) PROVE IInv'
  BY <1>1, <1>10, RecordReplayedStep
<1>11. CASE UNCHANGED vars
  BY <1>11 DEF vars, IInv, TypeOK, OneProofPerJti, CallsPresentIssued,
     StoreCallsHaveJti, SeenExpiry, TimesPast, AcceptedRemembered,
     AtMostOnceWhileLive, OnlyAcceptedCallsSpend, ReplayedMeansAccepted,
     Accepted, SameProof
<1> QED
  BY <1>2, <1>3, <1>4, <1>5, <1>6, <1>7, <1>8, <1>9, <1>10, <1>11
     DEF Next, Call

\* The inductive invariant holds in every reachable state.
THEOREM Invariance == Spec => []IInv
<1>1. Init => IInv
  BY InitIInv
<1>2. IInv /\ [Next]_vars => IInv'
  BY StepIInv
<1> QED BY <1>1, <1>2, PTL DEF Spec

\* Validate and Record keep every variable well typed: in particular only a
\* proof that carries a jti ever reaches the store.
THEOREM TypeCorrect == Spec => []TypeOK
<1>1. IInv => TypeOK
  BY DEF IInv
<1> QED BY <1>1, Invariance, PTL

\* InMemoryJTIStore lets at most one call per proof through while the proof is
\* live, for any number of goroutines and any staleness of their sweep times.
THEOREM SingleUse == Spec => []AtMostOnceWhileLive
<1>1. IInv => AtMostOnceWhileLive
  BY DEF IInv
<1> QED BY <1>1, Invariance, PTL

\* Validate records a jti last: a failing call never consumes a proof, and a
\* replay verdict is always owed to another call's acceptance.
THEOREM SpentByAcceptance == Spec => []AcceptanceSpends
<1>1. IInv => AcceptanceSpends
  BY DEF IInv, AcceptanceSpends
<1> QED BY <1>1, Invariance, PTL

-----------------------------------------------------------------------------
(* Refinement of ReplayWindow *)

WindowOf == [j \in {p.jti : p \in Tracked} |->
               (CHOOSE p \in Tracked : p.jti = j).exp]
Verdicts == [c \in Calls |-> AbstractVerdict(c)]

\* In a set of proofs with distinct jtis, choosing by jti finds the proof.
LEMMA ChooseByJti ==
    ASSUME NEW S, \A p, q \in S : p.jti = q.jti => p = q,
           NEW W, W = [j \in {p.jti : p \in S} |->
                         (CHOOSE p \in S : p.jti = j).exp]
    PROVE  /\ DOMAIN W = {p.jti : p \in S}
           /\ \A p \in S : W[p.jti] = p.exp
<1>1. ASSUME NEW p \in S PROVE (CHOOSE q \in S : q.jti = p.jti) = p
  OBVIOUS
<1> QED BY <1>1

\* The register's window of a jti is the expiry of the one proof it names.
LEMMA WindowIsExpiry ==
    ASSUME IInv
    PROVE  /\ DOMAIN WindowOf = {p.jti : p \in Tracked}
           /\ \A p \in Tracked : WindowOf[p.jti] = p.exp
BY ChooseByJti DEF WindowOf, IInv, OneProofPerJti, Tracked

\* What a sweep evicts had passed its expiry: its window is closed.
LEMMA EvictedAreClosed ==
    ASSUME IInv, NEW t \in Int, t <= clock
    PROVE  \E lapsed \in SUBSET {j \in DOMAIN seen : j \in DOMAIN WindowOf
                                                    /\ WindowOf[j] < clock} :
             DOMAIN Sweep(t) = DOMAIN seen \ lapsed
<1> DEFINE lapsed == {j \in DOMAIN seen : t > seen[j]}
<1>1. DOMAIN Sweep(t) = DOMAIN seen \ lapsed
  BY DEF Sweep
<1>2. ASSUME NEW j \in lapsed
      PROVE  j \in DOMAIN WindowOf /\ WindowOf[j] < clock
  <2>1. PICK p \in issued : p.jti = j /\ p.exp = seen[j]
    BY DEF IInv, SeenExpiry
  <2>2. j \in Jtis /\ seen[j] \in Int /\ clock \in Int
    BY DEF IInv, TypeOK, Time
  <2>3. p \in Tracked
    BY <2>1, <2>2, JtiAssumption DEF Tracked
  <2> QED BY <2>1, <2>2, <2>3, WindowIsExpiry
<1> QED BY <1>1, <1>2

LEMMA InitRefines == Init => Window!Init
BY DEF Init, Window!Init, Tracked, AbstractVerdict

\* A step that issues no tracked proof leaves the windows as they are.
LEMMA SameWindows ==
    ASSUME Tracked' = Tracked
    PROVE  WindowOf' = WindowOf
BY DEF WindowOf

\* A step of one call changes no other call's verdict.
LEMMA OneVerdict ==
    ASSUME TypeOK, NEW c \in Calls, NEW l \in Locations,
           pc' = [pc EXCEPT ![c] = l]
    PROVE  Verdicts' = [Verdicts EXCEPT ![c] = AbstractVerdict(c)']
<1>1. \A d \in Calls : d # c => AbstractVerdict(d)' = AbstractVerdict(d)
  BY DEF TypeOK, AbstractVerdict
<1> QED BY <1>1 DEF Verdicts

\* GenerateProof hands out a window and changes no other.
LEMMA GenerateRefines ==
    ASSUME IInv, IInv', NEW j \in Jtis, NEW b \in Bindings, NEW ttl \in TTLs,
           GenerateProof(j, b, ttl)
    PROVE  Window!Hand(j)
<1> DEFINE new == [jti |-> j, iat |-> clock, exp |-> clock + ttl, binding |-> b]
<1>1. Tracked' = Tracked \cup {new}
  BY JtiAssumption DEF GenerateProof, Tracked
<1>2. /\ DOMAIN WindowOf = {p.jti : p \in Tracked}
      /\ \A p \in Tracked : WindowOf[p.jti] = p.exp
  BY WindowIsExpiry
<1>3. /\ DOMAIN WindowOf' = {p.jti : p \in Tracked'}
      /\ \A p \in Tracked' : WindowOf'[p.jti] = p.exp
  <2>1. \A p, q \in Tracked' : p.jti = q.jti => p = q
    BY DEF IInv, OneProofPerJti, Tracked
  <2>2. WindowOf' = [k \in {p.jti : p \in Tracked'} |->
                       (CHOOSE p \in Tracked' : p.jti = k).exp]
    BY DEF WindowOf
  <2>3. PICK S, W : S = Tracked' /\ W = WindowOf'
    OBVIOUS
  <2>4. /\ DOMAIN W = {p.jti : p \in S}
        /\ \A p \in S : W[p.jti] = p.exp
    <3>1. \A p, q \in S : p.jti = q.jti => p = q
      BY <2>1, <2>3
    <3>2. W = [k \in {p.jti : p \in S} |-> (CHOOSE p \in S : p.jti = k).exp]
      BY <2>2, <2>3
    <3> QED BY <3>1, <3>2, ChooseByJti
  <2> QED BY <2>3, <2>4
<1>4. /\ j \notin DOMAIN WindowOf
      /\ DOMAIN WindowOf' = DOMAIN WindowOf \cup {j}
      /\ \A k \in DOMAIN WindowOf : WindowOf'[k] = WindowOf[k]
  <2>1. \A p \in Tracked : p.jti # j
    BY DEF GenerateProof, Tracked
  <2>2. {p.jti : p \in Tracked'} = {p.jti : p \in Tracked} \cup {j}
    <3>1. new.jti = j
      OBVIOUS
    <3> HIDE DEF new
    <3> QED BY <1>1, <3>1
  <2>3. ASSUME NEW k \in DOMAIN WindowOf PROVE WindowOf'[k] = WindowOf[k]
    <3>1. PICK p \in Tracked : p.jti = k
      BY <1>2
    <3> QED BY <1>1, <1>2, <1>3, <3>1
  <2>4. j \notin DOMAIN WindowOf /\ DOMAIN WindowOf' = DOMAIN WindowOf \cup {j}
    BY <1>2, <1>3, <2>1, <2>2
  <2> QED BY <2>3, <2>4
<1>5. clock' = clock /\ seen' = seen /\ Verdicts' = Verdicts
  BY DEF GenerateProof, callVars, Verdicts, AbstractVerdict
<1> QED BY <1>4, <1>5 DEF Window!Hand, WindowOf, Verdicts

\* An accepting Record is the admission of its call.
LEMMA FreshRefines ==
    ASSUME IInv, NEW c \in Calls, RecordFresh(c)
    PROVE  \E j \in Jtis, lapsed \in SUBSET Window!Closed : Window!Admit(c, j, lapsed)
<1>1. /\ proof[c] \in issued
      /\ proof[c].jti \in Jtis
      /\ DOMAIN seen' = DOMAIN Sweep(now[c]) \cup {proof[c].jti}
  BY RecordFreshStore DEF IInv
<1>2. /\ clock' = clock /\ issued' = issued
      /\ pc[c] = "locked" /\ pc' = [pc EXCEPT ![c] = "accepted"]
      /\ proof[c].jti \notin DOMAIN Sweep(now[c])
  BY DEF RecordFresh, Goto
<1>3. now[c] \in Int /\ now[c] <= clock
  BY DEF IInv, TypeOK, TimesPast, Time
<1>4. PICK lapsed \in SUBSET Window!Closed :
        DOMAIN Sweep(now[c]) = DOMAIN seen \ lapsed
  BY <1>3, EvictedAreClosed DEF Window!Closed, WindowOf
<1>5. WindowOf' = WindowOf
  BY <1>2, SameWindows DEF Tracked
<1>6. Verdicts' = [Verdicts EXCEPT ![c] = "admitted"]
  <2>1. pc'[c] = "accepted"
    BY <1>2 DEF IInv, TypeOK
  <2>2. AbstractVerdict(c)' = "admitted"
    BY <2>1 DEF AbstractVerdict
  <2> QED BY <1>2, <2>2, OneVerdict DEF IInv, Locations
<1>7. Verdicts[c] = "open"
  BY <1>2 DEF Verdicts, AbstractVerdict
<1>8. proof[c].jti \in DOMAIN WindowOf
  BY <1>1, JtiAssumption DEF WindowOf, Tracked
<1>9. Window!Admit(c, proof[c].jti, lapsed)
  BY <1>1, <1>2, <1>4, <1>5, <1>6, <1>7, <1>8
     DEF Window!Admit, WindowOf, Verdicts
<1> QED BY <1>1, <1>4, <1>9

\* A Record that finds the jti is a replay verdict against a spent jti.
LEMMA ReplayedRefines ==
    ASSUME IInv, NEW c \in Calls, RecordReplayed(c)
    PROVE  \E j \in Jtis, lapsed \in SUBSET Window!Closed : Window!Replayed(c, j, lapsed)
<1>1. /\ clock' = clock /\ issued' = issued /\ seen' = Sweep(now[c])
      /\ pc[c] = "locked" /\ pc' = [pc EXCEPT ![c] = "replayed"]
      /\ proof[c].jti \in DOMAIN Sweep(now[c])
  BY DEF RecordReplayed, Goto
<1>2. now[c] \in Int /\ now[c] <= clock /\ proof[c].jti \in Jtis
  BY <1>1, SweepSubset DEF IInv, TypeOK, TimesPast, Time
<1>3. PICK lapsed \in SUBSET Window!Closed :
        DOMAIN Sweep(now[c]) = DOMAIN seen \ lapsed
  BY <1>2, EvictedAreClosed DEF Window!Closed, WindowOf
<1>4. WindowOf' = WindowOf
  BY <1>1, SameWindows DEF Tracked
<1>5. Verdicts' = [Verdicts EXCEPT ![c] = "replayed"]
  <2>1. pc'[c] = "replayed"
    BY <1>1 DEF IInv, TypeOK
  <2>2. AbstractVerdict(c)' = "replayed"
    BY <2>1 DEF AbstractVerdict
  <2> QED BY <1>1, <2>2, OneVerdict DEF IInv, Locations
<1>6. Verdicts[c] = "open"
  BY <1>1 DEF Verdicts, AbstractVerdict
<1>7. Window!Replayed(c, proof[c].jti, lapsed)
  BY <1>1, <1>3, <1>4, <1>5, <1>6 DEF Window!Replayed, WindowOf, Verdicts
<1> QED BY <1>2, <1>3, <1>7

\* A step that leaves the register as it is.
LEMMA Stutters ==
    ASSUME clock' = clock, Tracked' = Tracked, seen' = seen, Verdicts' = Verdicts
    PROVE  UNCHANGED Window!vars
BY SameWindows DEF Window!vars, WindowOf, Verdicts

\* A call that leaves the parser changes its own verdict only.
LEMMA SettleRefines ==
    ASSUME IInv, NEW c \in Calls, NEW l \in {"record", "stateless", "rejected"},
           Goto(c, "parse", l), clock' = clock, issued' = issued, seen' = seen
    PROVE  \/ UNCHANGED Window!vars
           \/ \E v \in {"refused", "stateless"} : Window!Settle(c, v)
<1>1. Tracked' = Tracked
  BY DEF Tracked
<1>2. Verdicts[c] = "open"
  BY DEF Verdicts, AbstractVerdict, Goto
<1>3. pc'[c] = l /\ l \in Locations
  BY DEF Goto, IInv, TypeOK, Locations
<1>4. Verdicts' = [Verdicts EXCEPT ![c] = AbstractVerdict(c)']
  BY <1>3, OneVerdict DEF IInv, Goto
<1>5. CASE l = "record"
  <2>1. AbstractVerdict(c)' = "open"
    BY <1>3, <1>5 DEF AbstractVerdict
  <2>2. Verdicts' = Verdicts
    BY <1>2, <1>4, <2>1 DEF Verdicts
  <2> QED BY <1>1, <2>2, Stutters
<1>6. CASE l \in {"stateless", "rejected"}
  <2>1. AbstractVerdict(c)' \in {"refused", "stateless"}
    BY <1>3, <1>6 DEF AbstractVerdict
  <2>2. Window!Settle(c, AbstractVerdict(c)')
    BY <1>1, <1>2, <1>4, <2>1, SameWindows DEF Window!Settle, Verdicts, WindowOf
  <2> QED BY <2>1, <2>2
<1> QED BY <1>5, <1>6

LEMMA StepRefines == IInv /\ IInv' /\ [Next]_vars => [Window!Next]_(Window!vars)
<1> SUFFICES ASSUME IInv, IInv', [Next]_vars
             PROVE  Window!Next \/ UNCHANGED Window!vars
  OBVIOUS
<1>1. CASE Tick
  <2>1. Verdicts' = Verdicts /\ WindowOf' = WindowOf
    BY <1>1 DEF Tick, callVars, Verdicts, AbstractVerdict, WindowOf, Tracked
  <2>2. Window!Tick
    BY <1>1, <2>1 DEF Tick, Window!Tick, WindowOf, Verdicts
  <2> QED BY <2>2 DEF Window!Next
<1>2. ASSUME NEW j \in Jtis, NEW b \in Bindings, NEW ttl \in TTLs,
             GenerateProof(j, b, ttl)
      PROVE  Window!Next
  BY <1>2, GenerateRefines DEF Window!Next
<1>3. ASSUME NEW b \in Bindings, NEW ttl \in TTLs, SignWithoutJti(b, ttl)
      PROVE  UNCHANGED Window!vars
  <2>1. Tracked' = Tracked
    BY <1>3 DEF SignWithoutJti, Tracked
  <2>2. Verdicts' = Verdicts
    BY <1>3 DEF SignWithoutJti, callVars, Verdicts, AbstractVerdict
  <2> QED BY <1>3, <2>1, <2>2, Stutters DEF SignWithoutJti
<1>4. ASSUME NEW c \in Calls, NEW p \in issued, Present(c, p)
      PROVE  UNCHANGED Window!vars
  <2>1. Verdicts' = [Verdicts EXCEPT ![c] = AbstractVerdict(c)']
    BY <1>4, OneVerdict DEF Present, Goto, IInv, Locations
  <2>2. Verdicts[c] = "open" /\ AbstractVerdict(c)' = "open"
    BY <1>4 DEF Present, Goto, IInv, TypeOK, Verdicts, AbstractVerdict
  <2>3. Verdicts' = Verdicts
    BY <2>1, <2>2 DEF Verdicts
  <2> QED BY <1>4, <2>3, Stutters DEF Present, Tracked
<1>5. ASSUME NEW c \in Calls, NEW b \in Bindings, CheckOK(c, b)
      PROVE  Window!Next \/ UNCHANGED Window!vars
  <2>1. PICK l \in {"record", "stateless"} : Goto(c, "parse", l)
    BY <1>5 DEF CheckOK
  <2> QED BY <1>5, <2>1, SettleRefines DEF CheckOK, Window!Next
<1>6. ASSUME NEW c \in Calls, NEW b \in Bindings, CheckFails(c, b)
      PROVE  Window!Next \/ UNCHANGED Window!vars
  BY <1>6, SettleRefines DEF CheckFails, Window!Next
<1>7. ASSUME NEW c \in Calls, ReadNow(c)
      PROVE  UNCHANGED Window!vars
  <2>1. Verdicts' = [Verdicts EXCEPT ![c] = AbstractVerdict(c)']
    BY <1>7, OneVerdict DEF ReadNow, Goto, IInv, Locations
  <2>2. Verdicts[c] = "open" /\ AbstractVerdict(c)' = "open"
    BY <1>7 DEF ReadNow, Goto, IInv, TypeOK, Verdicts, AbstractVerdict
  <2>3. Verdicts' = Verdicts
    BY <2>1, <2>2 DEF Verdicts
  <2> QED BY <1>7, <2>3, Stutters DEF ReadNow, Tracked
<1>8. ASSUME NEW c \in Calls, RecordFresh(c) PROVE Window!Next
  BY <1>8, FreshRefines DEF Window!Next
<1>9. ASSUME NEW c \in Calls, RecordReplayed(c) PROVE Window!Next
  BY <1>9, ReplayedRefines DEF Window!Next
<1>10. CASE UNCHANGED vars
  BY <1>10, Stutters DEF vars, Tracked, Verdicts, AbstractVerdict
<1> QED
  BY <1>1, <1>2, <1>3, <1>4, <1>5, <1>6, <1>7, <1>8, <1>9, <1>10
     DEF Next, Call

\* Validate over InMemoryJTIStore, with every interleaving of its clock reads
\* and locked regions, implements the atomic single-use register.
THEOREM Refinement == Spec => ImplementsReplayWindow
<1>1. Init => Window!Init
  BY InitRefines
<1>2. IInv /\ IInv' /\ [Next]_vars => [Window!Next]_(Window!vars)
  BY StepRefines
<1> QED BY <1>1, <1>2, Invariance, PTL DEF Spec, Window!Spec, ImplementsReplayWindow
=============================================================================
