-------------------------- MODULE FederationProofs --------------------------
(***************************************************************************)
(* Proofs about Federation, for both resolvers.                            *)
(*                                                                         *)
(* InMemoryInv: the registry and the cache hold only pairs that were       *)
(* registered together (Sound), and a call knows of the statements it read *)
(* what it has verified so far (Honest).  What it read is still in the     *)
(* registry unless the entity was raced, which is all that CacheIsCurrent  *)
(* allows a call to store.                                                 *)
(*                                                                         *)
(* RemoteInv: the cache holds live chains (Certified), a call has verified *)
(* what it is about to store (Verified), and a call that nothing disturbed *)
(* holds what is published and has left behind only hints that lead        *)
(* nowhere (Thorough).                                                     *)
(*                                                                         *)
(* ContractInv adds for the refinement of Resolver that an idle call has   *)
(* asked for nothing (AtRest) and that what was registered together is a   *)
(* chain (Genuine).                                                        *)
(***************************************************************************)
EXTENDS Federation, TLAPS

-----------------------------------------------------------------------------
(* Statements *)

LEMMA ResolvedFacts ==
    ASSUME NEW x \in ECs, NEW y \in SSs
    PROVE  /\ Resolved(x, y) \in ResolvedEntity
           /\ Resolved(x, y) # None
           /\ Resolved(x, y).ec = x /\ Resolved(x, y).ss = y
           /\ \A t \in Nat : t < Resolved(x, y).exp => t < x.exp /\ t < y.exp
<1>1. Resolved(x, y) \in ResolvedEntity
  BY DEF ResolvedEntity
<1>2. Resolved(x, y) # None
  BY <1>1, NoneAssumption
<1>3. x.exp \in Nat /\ y.exp \in Nat
  BY StatementsAssumption DEF EntityConfiguration, SubordinateStatement
<1>4. Resolved(x, y).ec = x /\ Resolved(x, y).ss = y
  BY DEF Resolved
<1>5. Resolved(x, y).exp = IF x.exp < y.exp THEN x.exp ELSE y.exp
  BY DEF Resolved
<1> QED
  BY <1>1, <1>2, <1>3, <1>4, <1>5

LEMMA ResolvedLives ==
    ASSUME NEW r \in ResolvedEntity, NEW t \in Nat, t < r.exp
    PROVE  t < r.ec.exp /\ t < r.ss.exp
<1>1. PICK x \in ECs, y \in SSs : r = Resolved(x, y)
  BY DEF ResolvedEntity
<1> QED
  BY <1>1, ResolvedFacts

\* The instances speak of the same statements.
LEMMA SameEntities ==
    /\ InMemory!ResolvedEntity = ResolvedEntity /\ Remote!ResolvedEntity = ResolvedEntity
    /\ \A x, y : InMemory!Resolved(x, y) = Resolved(x, y)
    /\ \A x, y : Remote!Resolved(x, y) = Resolved(x, y)
BY DEF InMemory!ResolvedEntity, InMemory!Resolved, Remote!ResolvedEntity, Remote!Resolved,
       ResolvedEntity, Resolved

-----------------------------------------------------------------------------
(* The InMemoryResolver: types *)

LEMMA InMemoryTypes ==
    ASSUME InMemory!TypeOK, InMemory!Next
    PROVE  InMemory!TypeOK'
<1> USE DEF InMemory!TypeOK, InMemory!Stages
<1>1. CASE InMemory!Tick
  BY <1>1, StatementsAssumption DEF InMemory!Tick, InMemory!registry, InMemory!callVars
<1>2. ASSUME NEW e \in Entities, NEW new \in ECs, InMemory!RegisterEntityConfig(e, new)
      PROVE  InMemory!TypeOK'
  BY <1>2 DEF InMemory!RegisterEntityConfig, InMemory!Registered, InMemory!callVars
<1>3. ASSUME NEW e \in Entities, NEW new \in SSs,
             InMemory!RegisterSubordinateStatement(e, new)
      PROVE  InMemory!TypeOK'
  BY <1>3 DEF InMemory!RegisterSubordinateStatement, InMemory!Registered, InMemory!callVars
<1>4. ASSUME NEW c \in Callers, InMemory!Resolve(c)
      PROVE  InMemory!TypeOK'
  <2> USE DEF InMemory!Goto, InMemory!registry
  <2>1. ASSUME NEW e \in Entities, InMemory!Begin(c, e) PROVE InMemory!TypeOK'
    BY <2>1, StatementsAssumption DEF InMemory!Begin
  <2>2. CASE InMemory!Hit(c)
    BY <2>2 DEF InMemory!Hit
  <2>3. CASE InMemory!Miss(c)
    BY <2>3 DEF InMemory!Miss
  <2>4. CASE InMemory!Evict(c)
    BY <2>4 DEF InMemory!Evict
  <2>5. CASE InMemory!ReadRegistry(c)
    BY <2>5 DEF InMemory!ReadRegistry
  <2>6. CASE InMemory!CheckSS(c)
    BY <2>6 DEF InMemory!CheckSS
  <2>7. CASE InMemory!CheckEC(c)
    BY <2>7 DEF InMemory!CheckEC
  <2>8. CASE InMemory!Store(c)
    <3>1. ec[c] \in ECs /\ ss[c] \in SSs /\ entityID[c] \in Entities
      BY <2>8 DEF InMemory!Store
    <3>2. Resolved(ec[c], ss[c]) \in ResolvedEntity \ {None}
      BY <3>1, ResolvedFacts
    <3>3. PICK r \in InMemory!ResolvedEntity \ {None} :
             /\ cache' = [cache EXCEPT ![entityID[c]] = r]
             /\ answer' = [answer EXCEPT ![c] = r]
      BY <2>8, <3>2, SameEntities DEF InMemory!Store
    <3> QED
      BY <2>8, <3>1, <3>3 DEF InMemory!Store
  <2>9. CASE InMemory!Return(c)
    BY <2>9, StatementsAssumption DEF InMemory!Return
  <2> QED
    BY <1>4, <2>1, <2>2, <2>3, <2>4, <2>5, <2>6, <2>7, <2>8, <2>9 DEF InMemory!Resolve
<1> QED
  BY <1>1, <1>2, <1>3, <1>4 DEF InMemory!Next

-----------------------------------------------------------------------------
(* The InMemoryResolver: registry, cache and calls *)

\* What the registry and the cache hold for an entity.
Sound(e) ==
    /\ /\ None \notin {entityConfigs[e], subStatements[e]}
       /\ Chain(e, entityConfigs[e], subStatements[e])
       => <<e, entityConfigs[e], subStatements[e]>> \in paired
    /\ cache[e] # None => <<e, cache[e].ec, cache[e].ss>> \in paired
    /\ cache[e] # None /\ ~raced[e] =>
          cache[e].ec = entityConfigs[e] /\ cache[e].ss = subStatements[e]

Holding(c) == pc[c] \in {"checkSS", "checkEC", "store"}

\* What a call knows of the statements it read.
Honest(c) ==
    /\ beganAt[c] <= clock
    /\ Holding(c) =>
          /\ Chain(entityID[c], ec[c], ss[c]) => <<entityID[c], ec[c], ss[c]>> \in paired
          /\ ~raced[entityID[c]] =>
                ec[c] = entityConfigs[entityID[c]] /\ ss[c] = subStatements[entityID[c]]
    /\ pc[c] \in {"checkEC", "store"} =>
          /\ \E i \in DOMAIN ec[c].hints :
                ec[c].hints[i] \in Trusted /\ ss[c].signer = ec[c].hints[i]
          /\ ss[c].sub = entityID[c] /\ beganAt[c] < ss[c].exp
    /\ pc[c] = "store" => ec[c].key = ss[c].key /\ beganAt[c] < ec[c].exp
    /\ pc[c] = "answered" =>
          /\ <<entityID[c], answer[c].ec, answer[c].ss>> \in paired
          /\ beganAt[c] < answer[c].ec.exp /\ beganAt[c] < answer[c].ss.exp

InMemoryInv ==
    /\ InMemory!TypeOK
    /\ \A e \in Entities : Sound(e)
    /\ \A c \in Callers : Honest(c)

Same(d) ==
    /\ pc'[d] = pc[d] /\ entityID'[d] = entityID[d] /\ ec'[d] = ec[d] /\ ss'[d] = ss[d]
    /\ answer'[d] = answer[d] /\ beganAt'[d] = beganAt[d]

\* A call keeps what it knows while others work and the registry changes.
LEMMA HonestStays ==
    ASSUME InMemory!TypeOK, NEW d \in Callers, Honest(d), Same(d),
           clock' \in Nat, clock <= clock', paired \subseteq paired',
           Holding(d) =>
             LET e == entityID[d] IN
             \/ raced'[e]
             \/ /\ raced'[e] = raced[e] /\ entityConfigs'[e] = entityConfigs[e]
                /\ subStatements'[e] = subStatements[e]
    PROVE  Honest(d)'
<1>1. clock \in Nat /\ beganAt[d] \in Nat
  BY StatementsAssumption DEF InMemory!TypeOK
<1>2. beganAt'[d] <= clock'
  BY <1>1 DEF Honest, Same
<1>3. pc[d] \in {"checkEC", "store"} =>
          /\ \E i \in DOMAIN ec[d].hints :
                ec[d].hints[i] \in Trusted /\ ss[d].signer = ec[d].hints[i]
          /\ ss[d].sub = entityID[d] /\ beganAt[d] < ss[d].exp
  BY DEF Honest
<1>4. pc[d] = "store" => ec[d].key = ss[d].key /\ beganAt[d] < ec[d].exp
  BY DEF Honest
<1>5. Holding(d) =>
          /\ Chain(entityID[d], ec[d], ss[d]) => <<entityID[d], ec[d], ss[d]>> \in paired'
          /\ ~raced'[entityID[d]] =>
                ec[d] = entityConfigs'[entityID[d]] /\ ss[d] = subStatements'[entityID[d]]
  BY DEF Honest
<1>6. pc[d] = "answered" =>
          /\ <<entityID[d], answer[d].ec, answer[d].ss>> \in paired'
          /\ beganAt[d] < answer[d].ec.exp /\ beganAt[d] < answer[d].ss.exp
  BY DEF Honest
<1> QED
  BY <1>2, <1>3, <1>4, <1>5, <1>6 DEF Honest, Same, Holding, Chain

\* A step of a call leaves the others as they are.
LEMMA CallsStay ==
    ASSUME InMemoryInv, NEW c \in Callers, UNCHANGED <<clock, InMemory!registry>>,
           \A d \in Callers \ {c} : Same(d), Honest(c)'
    PROVE  \A d \in Callers : Honest(d)'
<1> SUFFICES ASSUME NEW d \in Callers, d # c PROVE Honest(d)'
  OBVIOUS
<1>1. clock \in Nat /\ clock' \in Nat /\ clock <= clock'
  BY StatementsAssumption DEF InMemoryInv, InMemory!TypeOK
<1>2. UNCHANGED <<entityConfigs, subStatements, paired, raced>>
  BY DEF InMemory!registry
<1> QED
  BY <1>1, <1>2, HonestStays DEF InMemoryInv

\* The step of a call: the others are as they were.
LEMMA OthersSame ==
    ASSUME InMemory!TypeOK, NEW c \in Callers, InMemory!Resolve(c)
    PROVE  /\ \A d \in Callers \ {c} : Same(d)
           /\ UNCHANGED <<clock, InMemory!registry>>
<1> USE DEF InMemory!TypeOK, InMemory!Goto, Same
<1>1. ASSUME NEW e \in Entities, InMemory!Begin(c, e)
      PROVE  (\A d \in Callers \ {c} : Same(d)) /\ UNCHANGED <<clock, InMemory!registry>>
  BY <1>1 DEF InMemory!Begin
<1>2. CASE InMemory!Hit(c)
  BY <1>2 DEF InMemory!Hit
<1>3. CASE InMemory!Miss(c)
  BY <1>3 DEF InMemory!Miss
<1>4. CASE InMemory!Evict(c)
  BY <1>4 DEF InMemory!Evict
<1>5. CASE InMemory!ReadRegistry(c)
  BY <1>5 DEF InMemory!ReadRegistry
<1>6. CASE InMemory!CheckSS(c)
  BY <1>6 DEF InMemory!CheckSS
<1>7. CASE InMemory!CheckEC(c)
  BY <1>7 DEF InMemory!CheckEC
<1>8. CASE InMemory!Store(c)
  BY <1>8 DEF InMemory!Store
<1>9. CASE InMemory!Return(c)
  BY <1>9 DEF InMemory!Return
<1> QED
  BY <1>1, <1>2, <1>3, <1>4, <1>5, <1>6, <1>7, <1>8, <1>9 DEF InMemory!Resolve

\* A registration for e, of either kind: the cache forgets e, and a call that
\* holds what the registry held before is remembered.
LEMMA RegistrationSound ==
    ASSUME InMemoryInv, NEW e \in Entities,
           NEW newEC \in ECs \cup {None}, NEW newSS \in SSs \cup {None},
           entityConfigs' = [entityConfigs EXCEPT ![e] = newEC],
           subStatements' = [subStatements EXCEPT ![e] = newSS],
           cache' = [cache EXCEPT ![e] = None],
           InMemory!Registered(e, newEC, newSS),
           UNCHANGED <<clock, InMemory!callVars>>
    PROVE  (\A x \in Entities : Sound(x)') /\ (\A d \in Callers : Honest(d)')
<1>1. InMemory!TypeOK /\ (\A x \in Entities : Sound(x)) /\ (\A d \in Callers : Honest(d))
  BY DEF InMemoryInv
<1>2. /\ entityConfigs'[e] = newEC /\ subStatements'[e] = newSS /\ cache'[e] = None
      /\ \A x \in Entities \ {e} : /\ entityConfigs'[x] = entityConfigs[x]
                                  /\ subStatements'[x] = subStatements[x]
                                  /\ cache'[x] = cache[x]
  BY <1>1 DEF InMemory!TypeOK
<1>3. /\ paired \subseteq paired'
      /\ None \notin {newEC, newSS} /\ Chain(e, newEC, newSS) => <<e, newEC, newSS>> \in paired'
      /\ raced'[e] = \E c \in Callers : InMemory!Holds(c, e)
      /\ \A x \in Entities \ {e} : raced'[x] = raced[x]
  BY <1>1 DEF InMemory!Registered, InMemory!TypeOK, InMemory!Chain, Chain
<1>4. ASSUME NEW x \in Entities PROVE Sound(x)'
  <2>1. CASE x = e
    BY <2>1, <1>2, <1>3 DEF Sound, Chain
  <2>2. CASE x # e
    BY <2>2, <1>1, <1>2, <1>3 DEF Sound, Chain
  <2> QED
    BY <2>1, <2>2
<1>5. ASSUME NEW d \in Callers PROVE Honest(d)'
  <2>1. Same(d) /\ clock' \in Nat /\ clock <= clock'
    BY <1>1, StatementsAssumption DEF Same, InMemory!callVars, InMemory!TypeOK
  <2>2. ASSUME Holding(d)
        PROVE  LET x == entityID[d] IN
               \/ raced'[x]
               \/ /\ raced'[x] = raced[x] /\ entityConfigs'[x] = entityConfigs[x]
                  /\ subStatements'[x] = subStatements[x]
    <3>1. entityID[d] \in Entities
      BY <1>1, <2>2 DEF Holding, InMemory!TypeOK
    <3>2. entityID[d] = e => raced'[e]
      BY <2>2, <1>3 DEF Holding, InMemory!Holds
    <3> QED
      BY <3>1, <3>2, <1>2, <1>3
  <2> QED
    BY <1>1, <1>3, <2>1, <2>2, HonestStays
<1> QED
  BY <1>4, <1>5

\* The store is as it was, or forgets an entity.
LEMMA SoundStays ==
    ASSUME InMemory!TypeOK, \A e \in Entities : Sound(e), UNCHANGED InMemory!registry,
           \A e \in Entities : cache'[e] \in {cache[e], None}
    PROVE  \A e \in Entities : Sound(e)'
<1>1. UNCHANGED <<entityConfigs, subStatements, paired, raced>>
  BY DEF InMemory!registry
<1> QED
  BY <1>1 DEF Sound, Chain

\* Each step of Resolve keeps the cache sound and the call honest.
LEMMA ResolveKeeps ==
    ASSUME InMemoryInv, NEW c \in Callers, InMemory!Resolve(c)
    PROVE  (\A e \in Entities : Sound(e)') /\ Honest(c)'
<1>1. /\ InMemory!TypeOK /\ (\A e \in Entities : Sound(e)) /\ Honest(c)
      /\ UNCHANGED <<clock, InMemory!registry>>
  BY OthersSame DEF InMemoryInv
<1>2. UNCHANGED <<clock, entityConfigs, subStatements, paired, raced>>
  BY <1>1 DEF InMemory!registry
<1>3. /\ clock \in Nat /\ beganAt[c] \in Nat /\ beganAt[c] <= clock
  BY <1>1, StatementsAssumption DEF InMemory!TypeOK, Honest
<1>4. pc[c] # "idle" => entityID[c] \in Entities
  BY <1>1 DEF InMemory!TypeOK
<1>5. UNCHANGED cache => \A e \in Entities : Sound(e)'
  BY <1>1, SoundStays
<1> USE DEF InMemory!Goto
<1>6. ASSUME NEW e \in Entities, InMemory!Begin(c, e)
      PROVE  (\A x \in Entities : Sound(x)') /\ Honest(c)'
  <2>1. pc'[c] = "lookup" /\ beganAt'[c] = clock /\ UNCHANGED cache
    BY <1>6, <1>1 DEF InMemory!Begin, InMemory!TypeOK
  <2>2. Honest(c)'
    BY <2>1, <1>2, <1>3 DEF Honest, Holding
  <2> QED
    BY <2>1, <2>2, <1>5
<1>7. CASE InMemory!Hit(c)
  <2> DEFINE r == cache[entityID[c]]
  <2>1. /\ pc[c] = "lookup" /\ pc'[c] = "answered" /\ r # None /\ clock < r.exp
        /\ answer'[c] = r /\ UNCHANGED <<cache, entityID, beganAt>>
    BY <1>7, <1>1 DEF InMemory!Hit, InMemory!TypeOK
  <2>2. entityID[c] \in Entities /\ r \in ResolvedEntity
    BY <2>1, <1>1, <1>4, SameEntities DEF InMemory!TypeOK
  <2>3. clock < r.ec.exp /\ clock < r.ss.exp
    BY <2>1, <2>2, <1>3, ResolvedLives
  <2>4. <<entityID[c], r.ec, r.ss>> \in paired
    BY <2>1, <2>2, <1>1 DEF Sound
  <2>5. beganAt[c] < r.ec.exp /\ beganAt[c] < r.ss.exp
    <3>1. PICK x \in ECs, y \in SSs : r = Resolved(x, y)
      BY <2>2 DEF ResolvedEntity
    <3>2. r.ec.exp \in Nat /\ r.ss.exp \in Nat
      BY <3>1, StatementsAssumption, ResolvedFacts DEF EntityConfiguration, SubordinateStatement
    <3> QED
      BY <2>3, <3>2, <1>3
  <2>6. Honest(c)'
    BY <2>1, <2>4, <2>5, <1>2, <1>3 DEF Honest, Holding
  <2> QED
    BY <2>1, <2>6, <1>5
<1>8. CASE InMemory!Miss(c)
  <2>1. pc'[c] \in {"read", "evict"} /\ UNCHANGED <<cache, beganAt>>
    BY <1>8, <1>1 DEF InMemory!Miss, InMemory!TypeOK
  <2>2. Honest(c)'
    BY <2>1, <1>2, <1>3 DEF Honest, Holding
  <2> QED
    BY <2>1, <2>2, <1>5
<1>9. CASE InMemory!Evict(c)
  <2>1. pc[c] = "evict" /\ pc'[c] = "read" /\ UNCHANGED beganAt
        /\ cache' = [cache EXCEPT ![entityID[c]] = None]
    BY <1>9, <1>1 DEF InMemory!Evict, InMemory!TypeOK
  <2>2. \A e \in Entities : cache'[e] \in {cache[e], None}
    BY <2>1, <1>1 DEF InMemory!TypeOK
  <2>3. Honest(c)'
    BY <2>1, <1>2, <1>3 DEF Honest, Holding
  <2> QED
    BY <2>2, <2>3, <1>1, SoundStays
<1>10. CASE InMemory!ReadRegistry(c)
  <2> DEFINE e == entityID[c]
  <2>1. /\ pc[c] = "read" /\ pc'[c] \in {"checkSS", "failed"}
        /\ pc'[c] = "checkSS" => None \notin {entityConfigs[e], subStatements[e]}
        /\ ec'[c] = entityConfigs[e] /\ ss'[c] = subStatements[e]
        /\ UNCHANGED <<cache, entityID, beganAt>>
    BY <1>10, <1>1 DEF InMemory!ReadRegistry, InMemory!TypeOK
  <2>2. e \in Entities
    BY <2>1, <1>4
  <2>3. pc'[c] = "checkSS" /\ Chain(e, entityConfigs[e], subStatements[e])
          => <<e, entityConfigs[e], subStatements[e]>> \in paired
    BY <2>1, <2>2, <1>1 DEF Sound
  <2>4. Honest(c)'
    BY <2>1, <2>2, <2>3, <1>2, <1>3 DEF Honest, Holding, Chain
  <2> QED
    BY <2>1, <2>4, <1>5
<1>11. CASE InMemory!CheckSS(c)
  <2>1. /\ pc[c] = "checkSS" /\ pc'[c] \in {"checkEC", "failed"}
        /\ pc'[c] = "checkEC" => \E i \in DOMAIN ec[c].hints :
              InMemory!Certifies(ss[c], ec[c].hints[i], entityID[c], clock)
        /\ UNCHANGED <<cache, entityID, ec, ss, beganAt>>
    BY <1>11, <1>1 DEF InMemory!CheckSS, InMemory!TypeOK
  <2>2. ss[c].exp \in Nat
    BY <2>1, <1>1, StatementsAssumption DEF InMemory!TypeOK, SubordinateStatement
  <2>3. pc'[c] = "checkEC" =>
          /\ \E i \in DOMAIN ec[c].hints :
                ec[c].hints[i] \in Trusted /\ ss[c].signer = ec[c].hints[i]
          /\ ss[c].sub = entityID[c] /\ beganAt[c] < ss[c].exp
    BY <2>1, <2>2, <1>3 DEF InMemory!Certifies
  <2>4. Honest(c)'
    BY <2>1, <2>3, <1>1, <1>2, <1>3 DEF Honest, Holding, Chain
  <2> QED
    BY <2>1, <2>4, <1>5
<1>12. CASE InMemory!CheckEC(c)
  <2>1. /\ pc[c] = "checkEC" /\ pc'[c] \in {"store", "failed"}
        /\ pc'[c] = "store" => InMemory!SelfSigned(ec[c], ss[c], clock)
        /\ UNCHANGED <<cache, entityID, ec, ss, beganAt>>
    BY <1>12, <1>1 DEF InMemory!CheckEC, InMemory!TypeOK
  <2>2. ec[c].exp \in Nat
    BY <2>1, <1>1, StatementsAssumption DEF InMemory!TypeOK, EntityConfiguration
  <2>3. pc'[c] = "store" => ec[c].key = ss[c].key /\ beganAt[c] < ec[c].exp
    BY <2>1, <2>2, <1>3 DEF InMemory!SelfSigned
  <2>4. Honest(c)'
    BY <2>1, <2>3, <1>1, <1>2, <1>3 DEF Honest, Holding, Chain
  <2> QED
    BY <2>1, <2>4, <1>5
<1>13. CASE InMemory!Store(c)
  <2> DEFINE e == entityID[c]
             r == Resolved(ec[c], ss[c])
  <2>1. /\ pc[c] = "store" /\ pc'[c] = "answered"
        /\ cache' = [cache EXCEPT ![e] = r] /\ answer'[c] = r
        /\ UNCHANGED <<entityID, ec, ss, beganAt>>
    BY <1>13, <1>1, SameEntities DEF InMemory!Store, InMemory!TypeOK
  <2>2. e \in Entities /\ ec[c] \in ECs /\ ss[c] \in SSs
    BY <2>1, <1>1, <1>4 DEF InMemory!TypeOK
  <2>3. r # None /\ r.ec = ec[c] /\ r.ss = ss[c]
    BY <2>2, ResolvedFacts
  <2>4. Chain(e, ec[c], ss[c])
    BY <2>1, <1>1 DEF Honest, Chain
  <2>5. /\ <<e, ec[c], ss[c]>> \in paired
        /\ beganAt[c] < ec[c].exp /\ beganAt[c] < ss[c].exp
        /\ ~raced[e] => ec[c] = entityConfigs[e] /\ ss[c] = subStatements[e]
    BY <2>1, <2>4, <1>1 DEF Honest, Holding
  <2> HIDE DEF r
  <2>6. cache'[e] = r /\ \A x \in Entities \ {e} : cache'[x] = cache[x]
    BY <2>1, <2>2, <1>1 DEF InMemory!TypeOK
  <2>7. ASSUME NEW x \in Entities PROVE Sound(x)'
    <3>1. CASE x = e
      <4>1. /\ None \notin {entityConfigs[x], subStatements[x]}
            /\ Chain(x, entityConfigs[x], subStatements[x])
            => <<x, entityConfigs[x], subStatements[x]>> \in paired
        BY <1>1 DEF Sound
      <4> QED
        BY <3>1, <4>1, <2>3, <2>5, <2>6, <1>2 DEF Sound, Chain
    <3>2. CASE x # e
      BY <3>2, <2>6, <1>1, <1>2 DEF Sound, Chain
    <3> QED
      BY <3>1, <3>2
  <2>8. Honest(c)'
    BY <2>1, <2>3, <2>5, <1>2, <1>3 DEF Honest, Holding
  <2> QED
    BY <2>7, <2>8
<1>14. CASE InMemory!Return(c)
  <2>1. pc'[c] = "idle" /\ beganAt'[c] = 0 /\ UNCHANGED cache
    BY <1>14, <1>1 DEF InMemory!Return, InMemory!TypeOK
  <2>2. Honest(c)'
    BY <2>1, <1>2, <1>3 DEF Honest, Holding
  <2> QED
    BY <2>1, <2>2, <1>5
<1> QED
  BY <1>6, <1>7, <1>8, <1>9, <1>10, <1>11, <1>12, <1>13, <1>14 DEF InMemory!Resolve

LEMMA InMemoryInductive == InMemoryInv /\ InMemory!Next => InMemoryInv'
<1> SUFFICES ASSUME InMemoryInv, InMemory!Next PROVE InMemoryInv'
  OBVIOUS
<1>1. /\ InMemory!TypeOK /\ (\A e \in Entities : Sound(e)) /\ (\A c \in Callers : Honest(c))
  BY DEF InMemoryInv
<1>2. InMemory!TypeOK'
  BY <1>1, InMemoryTypes
<1>3. CASE InMemory!Tick
  <2>1. /\ UNCHANGED <<entityConfigs, subStatements, paired, raced, cache>>
        /\ clock' \in Nat /\ clock <= clock'
        /\ \A d \in Callers : Same(d)
    BY <1>1, <1>3, StatementsAssumption
       DEF InMemory!Tick, InMemory!registry, InMemory!callVars, InMemory!TypeOK, Same
  <2>2. \A e \in Entities : Sound(e)'
    BY <2>1, <1>1 DEF Sound, Chain
  <2>3. \A d \in Callers : Honest(d)'
    BY <2>1, <1>1, HonestStays
  <2> QED
    BY <2>2, <2>3, <1>2 DEF InMemoryInv
<1>4. ASSUME NEW e \in Entities, NEW new \in ECs, InMemory!RegisterEntityConfig(e, new)
      PROVE  InMemoryInv'
  <2>1. /\ entityConfigs' = [entityConfigs EXCEPT ![e] = new]
        /\ subStatements' = [subStatements EXCEPT ![e] = subStatements[e]]
        /\ cache' = [cache EXCEPT ![e] = None]
        /\ InMemory!Registered(e, new, subStatements[e])
        /\ UNCHANGED <<clock, InMemory!callVars>>
        /\ subStatements[e] \in SSs \cup {None}
    BY <1>1, <1>4 DEF InMemory!RegisterEntityConfig, InMemory!TypeOK
  <2>2. new \in ECs \cup {None}
    OBVIOUS
  <2> QED
    BY <2>1, <2>2, <1>2, RegistrationSound DEF InMemoryInv
<1>5. ASSUME NEW e \in Entities, NEW new \in SSs, InMemory!RegisterSubordinateStatement(e, new)
      PROVE  InMemoryInv'
  <2>1. /\ entityConfigs' = [entityConfigs EXCEPT ![e] = entityConfigs[e]]
        /\ subStatements' = [subStatements EXCEPT ![e] = new]
        /\ cache' = [cache EXCEPT ![e] = None]
        /\ InMemory!Registered(e, entityConfigs[e], new)
        /\ UNCHANGED <<clock, InMemory!callVars>>
        /\ entityConfigs[e] \in ECs \cup {None}
    BY <1>1, <1>5 DEF InMemory!RegisterSubordinateStatement, InMemory!TypeOK
  <2>2. new \in SSs \cup {None}
    OBVIOUS
  <2> QED
    BY <2>1, <2>2, <1>2, RegistrationSound DEF InMemoryInv
<1>6. ASSUME NEW c \in Callers, InMemory!Resolve(c) PROVE InMemoryInv'
  <2>1. (\A e \in Entities : Sound(e)') /\ Honest(c)'
    BY <1>6, ResolveKeeps
  <2>2. (\A d \in Callers \ {c} : Same(d)) /\ UNCHANGED <<clock, InMemory!registry>>
    BY <1>1, <1>6, OthersSame
  <2>3. \A d \in Callers : Honest(d)'
    BY <2>1, <2>2, CallsStay
  <2> QED
    BY <2>1, <2>3, <1>2 DEF InMemoryInv
<1> QED
  BY <1>3, <1>4, <1>5, <1>6 DEF InMemory!Next

-----------------------------------------------------------------------------
(* The HTTPResolver: types *)

LEMMA RemoteTypes ==
    ASSUME Remote!TypeOK, Remote!Next
    PROVE  Remote!TypeOK'
<1> USE DEF Remote!TypeOK, Remote!Stages
<1>1. CASE Remote!Tick
  BY <1>1, StatementsAssumption DEF Remote!Tick, Remote!Disturb, Remote!world
<1>2. ASSUME NEW e \in Entities, NEW new \in ECs, Remote!Publish(e, new) PROVE Remote!TypeOK'
  BY <1>2 DEF Remote!Publish, Remote!Disturb
<1>3. ASSUME NEW a \in Anchors, NEW e \in Entities, NEW new \in SSs, Remote!Certify(a, e, new)
      PROVE  Remote!TypeOK'
  BY <1>3 DEF Remote!Certify, Remote!Disturb
<1>4. ASSUME NEW c \in Callers, Remote!Resolve(c)
      PROVE  Remote!TypeOK'
  <2> USE DEF Remote!Goto, Remote!world
  <2>1. ASSUME NEW e \in Entities, Remote!Begin(c, e) PROVE Remote!TypeOK'
    BY <2>1, StatementsAssumption DEF Remote!Begin
  <2>2. CASE Remote!Hit(c)
    BY <2>2 DEF Remote!Hit
  <2>3. CASE Remote!Miss(c)
    BY <2>3 DEF Remote!Miss
  <2>4. CASE Remote!Evict(c)
    BY <2>4 DEF Remote!Evict
  <2>5. CASE Remote!FetchEC(c)
    BY <2>5 DEF Remote!FetchEC
  <2>6. CASE Remote!SkipHint(c)
    BY <2>6 DEF Remote!SkipHint, Remote!NextHint
  <2>7. CASE Remote!FetchSS(c)
    <3>1. certified[<<ec[c].hints[hint[c]], entityID[c]>>] \in SSs \cup {None}
      <4>1. ec[c].hints[hint[c]] \in Anchors /\ entityID[c] \in Entities
        BY <2>7, StatementsAssumption DEF Remote!FetchSS
      <4> QED
        BY <4>1
    <3> DEFINE found == certified[<<ec[c].hints[hint[c]], entityID[c]>>]
    <3>2. /\ pc[c] = "hints" /\ hint[c] \in DOMAIN ec[c].hints /\ ec[c] # None
          /\ UNCHANGED <<clock, published, certified, cache, entityID, ec, answer, beganAt>>
          /\ \/ /\ found # None /\ ss' = [ss EXCEPT ![c] = found]
                /\ pc' = [pc EXCEPT ![c] = "verify"] /\ UNCHANGED <<hint, disturbed>>
             \/ /\ hint' = [hint EXCEPT ![c] = hint[c] + 1] /\ UNCHANGED <<pc, ss>>
                /\ \/ UNCHANGED disturbed
                   \/ disturbed' = [disturbed EXCEPT ![c] = TRUE]
      BY <2>7 DEF Remote!FetchSS, Remote!NextHint
    <3> HIDE DEF found
    <3>3. found \in SSs \cup {None}
      BY <3>1 DEF found
    <3>4. CASE pc' = [pc EXCEPT ![c] = "verify"] /\ UNCHANGED <<hint, disturbed>>
               /\ found # None /\ ss' = [ss EXCEPT ![c] = found]
      BY <3>2, <3>3, <3>4
    <3>5. CASE hint' = [hint EXCEPT ![c] = hint[c] + 1] /\ UNCHANGED <<pc, ss>>
      <4>1. hint' \in [Callers -> Nat] /\ \A d \in Callers \ {c} : hint'[d] = hint[d]
        BY <3>5
      <4>2. disturbed' \in [Callers -> BOOLEAN]
        BY <3>2
      <4>3. \A d \in Callers : pc'[d] = "verify" => d # c
        BY <3>2, <3>5
      <4> QED
        BY <3>2, <3>5, <4>1, <4>2, <4>3
    <3> QED
      BY <3>2, <3>4, <3>5
  <2>8. CASE Remote!Verify(c)
    BY <2>8 DEF Remote!Verify, Remote!NextHint
  <2>9. CASE Remote!Store(c)
    <3>1. ec[c] \in ECs /\ ss[c] \in SSs /\ entityID[c] \in Entities
      BY <2>9 DEF Remote!Store
    <3>2. Resolved(ec[c], ss[c]) \in ResolvedEntity \ {None}
      BY <3>1, ResolvedFacts
    <3>3. PICK r \in Remote!ResolvedEntity \ {None} :
             /\ cache' = [cache EXCEPT ![entityID[c]] = r]
             /\ answer' = [answer EXCEPT ![c] = r]
      BY <2>9, <3>2, SameEntities DEF Remote!Store
    <3> QED
      BY <2>9, <3>1, <3>3 DEF Remote!Store
  <2>10. CASE Remote!Return(c)
    BY <2>10, StatementsAssumption DEF Remote!Return
  <2> QED
    BY <1>4, <2>1, <2>2, <2>3, <2>4, <2>5, <2>6, <2>7, <2>8, <2>9, <2>10 DEF Remote!Resolve
<1> QED
  BY <1>1, <1>2, <1>3, <1>4 DEF Remote!Next

-----------------------------------------------------------------------------
(* The HTTPResolver: cache and calls *)

\* What the cache holds for an entity.
Certified(e) == cache[e] # None => Chain(e, cache[e].ec, cache[e].ss)

\* What a call knows of the statements it fetched.
Verified(c) ==
    /\ beganAt[c] <= clock
    /\ pc[c] = "store" => /\ Chain(entityID[c], ec[c], ss[c])
                          /\ beganAt[c] < ec[c].exp /\ beganAt[c] < ss[c].exp
    /\ pc[c] = "answered" =>
          /\ Chain(entityID[c], answer[c].ec, answer[c].ss)
          /\ beganAt[c] < answer[c].ec.exp /\ beganAt[c] < answer[c].ss.exp

\* What is published makes a live chain for e through the anchor a.
Works(e, a) ==
    /\ a \in Trusted /\ certified[<<a, e>>] # None
    /\ Certifies(certified[<<a, e>>], a, e, clock)
    /\ SelfSigned(published[e], certified[<<a, e>>], clock)

\* A call that nothing disturbed holds what is published, and the hints that it
\* has left behind work for nobody.
Thorough(c) ==
    LET e == entityID[c] IN
    /\ pc[c] \in {"hints", "verify"} =>
          /\ ec[c] = published[e] /\ hint[c] >= 1
          /\ \A i \in DOMAIN published[e].hints : i < hint[c] => ~Works(e, published[e].hints[i])
    /\ pc[c] = "verify" => ss[c] = certified[<<published[e].hints[hint[c]], e>>]
    /\ pc[c] = "refused" =>
          \/ published[e] = None
          \/ \A i \in DOMAIN published[e].hints : ~Works(e, published[e].hints[i])

RemoteInv ==
    /\ Remote!TypeOK
    /\ \A e \in Entities : Certified(e)
    /\ \A c \in Callers : Verified(c)
    /\ \A c \in Callers : ~disturbed[c] => Thorough(c)

\* The step of a call: the others are as they were.
LEMMA OthersSameRemote ==
    ASSUME Remote!TypeOK, NEW c \in Callers, Remote!Resolve(c)
    PROVE  /\ \A d \in Callers \ {c} : Same(d) /\ hint'[d] = hint[d] /\ disturbed'[d] = disturbed[d]
           /\ UNCHANGED <<clock, published, certified>>
<1> DEFINE Others == /\ \A d \in Callers \ {c} :
                            Same(d) /\ hint'[d] = hint[d] /\ disturbed'[d] = disturbed[d]
                     /\ UNCHANGED <<clock, published, certified>>
<1> USE DEF Remote!TypeOK, Remote!Goto, Remote!world, Remote!NextHint, Same
<1>1. ASSUME NEW e \in Entities, Remote!Begin(c, e) PROVE Others
  BY <1>1 DEF Remote!Begin
<1>2. CASE Remote!Hit(c)
  BY <1>2 DEF Remote!Hit
<1>3. CASE Remote!Miss(c)
  BY <1>3 DEF Remote!Miss
<1>4. CASE Remote!Evict(c)
  BY <1>4 DEF Remote!Evict
<1>5. CASE Remote!FetchEC(c)
  BY <1>5 DEF Remote!FetchEC
<1>6. CASE Remote!SkipHint(c)
  BY <1>6 DEF Remote!SkipHint
<1>7. CASE Remote!FetchSS(c)
  BY <1>7 DEF Remote!FetchSS
<1>8. CASE Remote!Verify(c)
  BY <1>8 DEF Remote!Verify
<1>9. CASE Remote!Store(c)
  BY <1>9 DEF Remote!Store
<1>10. CASE Remote!Return(c)
  BY <1>10 DEF Remote!Return
<1> QED
  BY <1>1, <1>2, <1>3, <1>4, <1>5, <1>6, <1>7, <1>8, <1>9, <1>10 DEF Remote!Resolve

\* The clock or a server moves: the calls under way are disturbed.
LEMMA DisturbKeeps ==
    ASSUME RemoteInv, clock' \in Nat, clock <= clock', Remote!Disturb,
           UNCHANGED <<cache, pc, entityID, ec, ss, hint, answer, beganAt>>
    PROVE  /\ \A e \in Entities : Certified(e)'
           /\ \A c \in Callers : Verified(c)'
           /\ \A c \in Callers : ~disturbed'[c] => Thorough(c)'
<1>1. \A e \in Entities : Certified(e)'
  BY DEF RemoteInv, Certified, Chain
<1>2. ASSUME NEW c \in Callers PROVE Verified(c)'
  <2>1. clock \in Nat /\ beganAt[c] \in Nat
    BY StatementsAssumption DEF RemoteInv, Remote!TypeOK
  <2> QED
    BY <2>1 DEF RemoteInv, Verified, Chain
<1>3. ASSUME NEW c \in Callers, ~disturbed'[c] PROVE Thorough(c)'
  BY <1>3 DEF Remote!Disturb, Thorough
<1> QED
  BY <1>1, <1>2, <1>3

\* Where a call stands while it walks the hints of what is published.
LEMMA HintLeftBehind ==
    ASSUME RemoteInv, NEW c \in Callers, ~disturbed[c], pc[c] \in {"hints", "verify"},
           ~Works(entityID[c], published[entityID[c]].hints[hint[c]])
    PROVE  \A i \in DOMAIN published[entityID[c]].hints :
              i < hint[c] + 1 => ~Works(entityID[c], published[entityID[c]].hints[i])
<1> DEFINE e == entityID[c]
<1>1. ec[c] = published[e]
      /\ \A i \in DOMAIN published[e].hints : i < hint[c] => ~Works(e, published[e].hints[i])
  BY DEF RemoteInv, Thorough
<1>2. hint[c] \in Nat /\ DOMAIN published[e].hints \subseteq Nat
  <2>1. ec[c] \in ECs
    BY DEF RemoteInv, Remote!TypeOK
  <2>2. ec[c].hints \in Seq(Anchors)
    BY <2>1, StatementsAssumption DEF EntityConfiguration
  <2> QED
    BY <1>1, <2>2 DEF RemoteInv, Remote!TypeOK
<1> QED
  BY <1>1, <1>2

\* A step of a call leaves what the others know as it is.
LEMMA OthersKeep ==
    ASSUME RemoteInv, NEW c \in Callers, Remote!Resolve(c), NEW d \in Callers \ {c}
    PROVE  Verified(d)' /\ (~disturbed'[d] => Thorough(d)')
<1>1. /\ Same(d) /\ hint'[d] = hint[d] /\ disturbed'[d] = disturbed[d]
      /\ UNCHANGED <<clock, published, certified>>
  BY OthersSameRemote DEF RemoteInv
<1>2. Verified(d)'
  BY <1>1 DEF RemoteInv, Verified, Same, Chain
<1>3. ASSUME ~disturbed'[d] PROVE Thorough(d)'
  <2>1. Thorough(d)
    BY <1>1, <1>3 DEF RemoteInv
  <2>2. \A x, a : Works(x, a)' <=> Works(x, a)
    BY <1>1 DEF Works, Certifies, SelfSigned
  <2> QED
    BY <1>1, <2>1, <2>2 DEF Thorough, Same
<1> QED
  BY <1>2, <1>3

\* Each step of Resolve keeps the cache and what its own call knows.
LEMMA RemoteResolveKeeps ==
    ASSUME RemoteInv, NEW c \in Callers, Remote!Resolve(c)
    PROVE  /\ \A e \in Entities : Certified(e)'
           /\ Verified(c)' /\ (~disturbed'[c] => Thorough(c)')
<1> DEFINE e == entityID[c]
           Kept == /\ \A x \in Entities : Certified(x)'
                   /\ Verified(c)' /\ (~disturbed'[c] => Thorough(c)')
<1>1. /\ Remote!TypeOK /\ (\A x \in Entities : Certified(x)) /\ Verified(c)
      /\ ~disturbed[c] => Thorough(c)
      /\ UNCHANGED <<clock, published, certified>>
  BY OthersSameRemote DEF RemoteInv
<1>2. /\ clock \in Nat /\ beganAt[c] \in Nat /\ beganAt[c] <= clock
      /\ hint[c] \in Nat /\ disturbed[c] \in BOOLEAN
  BY <1>1, StatementsAssumption DEF Remote!TypeOK, Verified
<1>3. pc[c] # "idle" => e \in Entities
  BY <1>1 DEF Remote!TypeOK
<1>4. UNCHANGED cache => \A x \in Entities : Certified(x)'
  BY <1>1 DEF Certified, Chain
<1>5. \A x, a : Works(x, a)' <=> Works(x, a)
  BY <1>1 DEF Works, Certifies, SelfSigned
<1>6. pc[c] \in {"hints", "verify", "store"} =>
         ec[c] \in ECs /\ ec[c].hints \in Seq(Anchors) /\ ec[c].exp \in Nat
  BY <1>1, StatementsAssumption DEF Remote!TypeOK, EntityConfiguration
<1>7. pc[c] \in {"verify", "store"} => ss[c] \in SSs /\ ss[c].exp \in Nat
  BY <1>1, StatementsAssumption DEF Remote!TypeOK, SubordinateStatement
<1> USE DEF Remote!Goto
<1>8. ASSUME NEW x \in Entities, Remote!Begin(c, x) PROVE Kept
  <2>1. pc'[c] = "lookup" /\ beganAt'[c] = clock /\ UNCHANGED cache
    BY <1>8, <1>1 DEF Remote!Begin, Remote!TypeOK
  <2>2. Verified(c)' /\ Thorough(c)'
    BY <2>1, <1>1, <1>2 DEF Verified, Thorough
  <2> QED
    BY <2>1, <2>2, <1>4
<1>9. CASE Remote!Hit(c)
  <2> DEFINE r == cache[e]
  <2>1. /\ pc[c] = "lookup" /\ pc'[c] = "answered" /\ r # None /\ clock < r.exp
        /\ answer'[c] = r /\ UNCHANGED <<cache, entityID, beganAt>>
    BY <1>9, <1>1 DEF Remote!Hit, Remote!TypeOK
  <2>2. e \in Entities /\ r \in ResolvedEntity
    BY <2>1, <1>1, <1>3, SameEntities DEF Remote!TypeOK
  <2>3. clock < r.ec.exp /\ clock < r.ss.exp
    BY <2>1, <2>2, <1>2, ResolvedLives
  <2>4. Chain(e, r.ec, r.ss)
    BY <2>1, <2>2, <1>1 DEF Certified
  <2>5. beganAt[c] < r.ec.exp /\ beganAt[c] < r.ss.exp
    <3>1. PICK x \in ECs, y \in SSs : r = Resolved(x, y)
      BY <2>2 DEF ResolvedEntity
    <3>2. r.ec.exp \in Nat /\ r.ss.exp \in Nat
      BY <3>1, StatementsAssumption, ResolvedFacts DEF EntityConfiguration, SubordinateStatement
    <3> QED
      BY <2>3, <3>2, <1>2
  <2>6. Verified(c)'
    BY <2>1, <2>4, <2>5, <1>1, <1>2 DEF Verified, Chain
  <2>7. Thorough(c)'
    BY <2>1 DEF Thorough
  <2> QED
    BY <2>1, <2>6, <2>7, <1>4
<1>10. CASE Remote!Miss(c)
  <2>1. pc'[c] \in {"fetchEC", "evict"} /\ UNCHANGED <<cache, beganAt>>
    BY <1>10, <1>1 DEF Remote!Miss, Remote!TypeOK
  <2>2. Verified(c)' /\ Thorough(c)'
    BY <2>1, <1>1, <1>2 DEF Verified, Thorough
  <2> QED
    BY <2>1, <2>2, <1>4
<1>11. CASE Remote!Evict(c)
  <2>1. pc'[c] = "fetchEC" /\ cache' = [cache EXCEPT ![e] = None] /\ UNCHANGED beganAt
    BY <1>11, <1>1 DEF Remote!Evict, Remote!TypeOK
  <2>2. \A x \in Entities : cache'[x] \in {cache[x], None}
    BY <2>1, <1>1 DEF Remote!TypeOK
  <2>3. \A x \in Entities : Certified(x)'
    BY <2>2, <1>1 DEF Certified, Chain
  <2>4. Verified(c)' /\ Thorough(c)'
    BY <2>1, <1>1, <1>2 DEF Verified, Thorough
  <2> QED
    BY <2>3, <2>4
<1>12. CASE Remote!FetchEC(c)
  <2>1. /\ pc[c] = "fetchEC" /\ pc'[c] \in {"hints", "refused"} /\ hint'[c] = 1
        /\ UNCHANGED <<cache, entityID, beganAt>>
        /\ pc'[c] = "hints" => ec'[c] = published[e]
        /\ pc'[c] = "refused" => published[e] = None \/ disturbed'[c]
    BY <1>12, <1>1 DEF Remote!FetchEC, Remote!TypeOK
  <2>2. Verified(c)'
    BY <2>1, <1>1, <1>2 DEF Verified
  <2>3. ASSUME ~disturbed'[c] PROVE Thorough(c)'
    <3>1. CASE pc'[c] = "hints"
      <4>1. ec'[c] \in ECs
        <5>1. Remote!TypeOK'
          BY <1>1, RemoteTypes DEF Remote!Next
        <5> QED
          BY <5>1, <3>1 DEF Remote!TypeOK
      <4>2. DOMAIN published[e].hints \subseteq Nat \ {0}
        <5>1. published[e].hints \in Seq(Anchors)
          BY <2>1, <3>1, <4>1, StatementsAssumption DEF EntityConfiguration
        <5> QED
          BY <5>1
      <4> QED
        BY <2>1, <3>1, <4>2, <1>1 DEF Thorough
    <3>2. CASE pc'[c] = "refused"
      BY <2>1, <2>3, <3>2, <1>1 DEF Thorough
    <3> QED
      BY <2>1, <3>1, <3>2
  <2> QED
    BY <2>1, <2>2, <2>3, <1>4
<1>13. CASE Remote!SkipHint(c)
  <2>1. /\ pc[c] = "hints" /\ UNCHANGED <<cache, entityID, ec, beganAt, disturbed>>
        /\ \/ hint[c] \notin DOMAIN ec[c].hints /\ pc'[c] = "refused"
           \/ /\ hint[c] \in DOMAIN ec[c].hints /\ ec[c].hints[hint[c]] \notin Trusted
              /\ pc'[c] = "hints" /\ hint'[c] = hint[c] + 1
    BY <1>13, <1>1 DEF Remote!SkipHint, Remote!NextHint, Remote!TypeOK
  <2>2. Verified(c)'
    BY <2>1, <1>1, <1>2 DEF Verified
  <2>3. ASSUME ~disturbed'[c] PROVE Thorough(c)'
    <3>1. /\ ~disturbed[c] /\ ec[c] = published[e] /\ hint[c] >= 1
          /\ \A i \in DOMAIN published[e].hints :
                i < hint[c] => ~Works(e, published[e].hints[i])
      BY <2>1, <2>3, <1>1 DEF Thorough
    <3>2. CASE hint[c] \notin DOMAIN ec[c].hints /\ pc'[c] = "refused"
      <4>1. \A i \in DOMAIN published[e].hints : i < hint[c]
        BY <2>1, <3>1, <3>2, <1>2, <1>6
      <4>2. \A i \in DOMAIN published[e].hints : ~Works(e, published[e].hints[i])
        BY <3>1, <4>1
      <4> QED
        BY <2>1, <3>2, <4>2, <1>1, <1>5 DEF Thorough
    <3>3. CASE /\ hint[c] \in DOMAIN ec[c].hints /\ ec[c].hints[hint[c]] \notin Trusted
               /\ pc'[c] = "hints" /\ hint'[c] = hint[c] + 1
      <4>1. ~Works(e, published[e].hints[hint[c]])
        BY <3>1, <3>3 DEF Works
      <4>2. \A i \in DOMAIN published[e].hints :
               i < hint[c] + 1 => ~Works(e, published[e].hints[i])
        BY <2>1, <3>1, <4>1, HintLeftBehind
      <4>3. hint'[c] >= 1
        BY <3>3, <1>2
      <4> QED
        BY <2>1, <3>1, <3>3, <4>2, <4>3, <1>1, <1>5 DEF Thorough
    <3> QED
      BY <2>1, <3>2, <3>3
  <2> QED
    BY <2>1, <2>2, <2>3, <1>4
<1>14. CASE Remote!FetchSS(c)
  <2> DEFINE h == ec[c].hints[hint[c]]
             found == certified[<<h, e>>]
  <2>1. /\ pc[c] = "hints" /\ hint[c] \in DOMAIN ec[c].hints
        /\ UNCHANGED <<cache, entityID, ec, beganAt>>
        /\ \/ pc'[c] = "verify" /\ ss'[c] = found /\ UNCHANGED <<hint, disturbed>>
           \/ /\ pc'[c] = "hints" /\ hint'[c] = hint[c] + 1
              /\ \/ found = None /\ UNCHANGED disturbed
                 \/ disturbed'[c]
    BY <1>14, <1>1 DEF Remote!FetchSS, Remote!NextHint, Remote!TypeOK
  <2> HIDE DEF h
  <2>2. Verified(c)'
    BY <2>1, <1>1, <1>2 DEF Verified
  <2>3. ASSUME ~disturbed'[c] PROVE Thorough(c)'
    <3>1. /\ ~disturbed[c] /\ ec[c] = published[e] /\ hint[c] >= 1
          /\ \A i \in DOMAIN published[e].hints :
                i < hint[c] => ~Works(e, published[e].hints[i])
      BY <2>1, <2>3, <1>1 DEF Thorough
    <3>2. CASE pc'[c] = "verify" /\ ss'[c] = found /\ UNCHANGED <<hint, disturbed>>
      BY <2>1, <3>1, <3>2, <1>1, <1>5 DEF Thorough, h
    <3>3. CASE pc'[c] = "hints" /\ hint'[c] = hint[c] + 1 /\ found = None
      <4>1. ~Works(e, published[e].hints[hint[c]])
        BY <3>1, <3>3 DEF Works, h
      <4>2. \A i \in DOMAIN published[e].hints :
               i < hint[c] + 1 => ~Works(e, published[e].hints[i])
        BY <2>1, <3>1, <4>1, HintLeftBehind
      <4>3. hint'[c] >= 1
        BY <3>3, <1>2
      <4> QED
        BY <2>1, <3>1, <3>3, <4>2, <4>3, <1>1, <1>5 DEF Thorough
    <3> QED
      BY <2>1, <2>3, <3>2, <3>3
  <2> QED
    BY <2>1, <2>2, <2>3, <1>4
<1>15. CASE Remote!Verify(c)
  <2> DEFINE h == ec[c].hints[hint[c]]
             ok == Certifies(ss[c], h, e, clock) /\ SelfSigned(ec[c], ss[c], clock)
  <2>1. /\ pc[c] = "verify"
        /\ UNCHANGED <<cache, entityID, ec, ss, beganAt, disturbed>>
        /\ \/ ok /\ pc'[c] = "store"
           \/ ~ok /\ pc'[c] = "hints" /\ hint'[c] = hint[c] + 1
    BY <1>15, <1>1 DEF Remote!Verify, Remote!NextHint, Remote!TypeOK, Remote!Certifies, Certifies,
                       Remote!SelfSigned, SelfSigned
  <2>2. hint[c] \in DOMAIN ec[c].hints
    BY <2>1, <1>1 DEF Remote!TypeOK
  <2>3. CASE ok /\ pc'[c] = "store"
    <3>1. /\ h \in Trusted /\ ss[c].signer = h /\ ss[c].sub = e /\ ec[c].key = ss[c].key
          /\ clock < ss[c].exp /\ clock < ec[c].exp
      BY <2>3 DEF Certifies, SelfSigned
    <3>2. Chain(e, ec[c], ss[c])
      BY <2>2, <3>1 DEF Chain
    <3>3. beganAt[c] < ec[c].exp /\ beganAt[c] < ss[c].exp
      BY <2>1, <3>1, <1>2, <1>6, <1>7
    <3>4. Verified(c)' /\ Thorough(c)'
      BY <2>1, <2>3, <3>2, <3>3, <1>1, <1>2 DEF Verified, Chain, Thorough
    <3> QED
      BY <2>1, <3>4, <1>4
  <2>4. CASE ~ok /\ pc'[c] = "hints" /\ hint'[c] = hint[c] + 1
    <3>1. Verified(c)'
      BY <2>1, <2>4, <1>1, <1>2 DEF Verified
    <3>2. ASSUME ~disturbed'[c] PROVE Thorough(c)'
      <4>1. /\ ~disturbed[c] /\ ec[c] = published[e] /\ hint[c] >= 1
            /\ ss[c] = certified[<<published[e].hints[hint[c]], e>>]
        BY <2>1, <3>2, <1>1 DEF Thorough
      <4>2. ~Works(e, published[e].hints[hint[c]])
        BY <2>4, <4>1 DEF Works
      <4>3. \A i \in DOMAIN published[e].hints :
               i < hint[c] + 1 => ~Works(e, published[e].hints[i])
        BY <2>1, <4>1, <4>2, HintLeftBehind
      <4>4. hint'[c] >= 1
        BY <2>4, <1>2
      <4> QED
        BY <2>1, <2>4, <4>1, <4>3, <4>4, <1>1, <1>5 DEF Thorough
    <3> QED
      BY <2>1, <3>1, <3>2, <1>4
  <2> QED
    BY <2>1, <2>3, <2>4
<1>16. CASE Remote!Store(c)
  <2> DEFINE r == Resolved(ec[c], ss[c])
  <2>1. /\ pc[c] = "store" /\ pc'[c] = "answered"
        /\ cache' = [cache EXCEPT ![e] = r] /\ answer'[c] = r
        /\ UNCHANGED <<entityID, ec, ss, beganAt>>
    BY <1>16, <1>1, SameEntities DEF Remote!Store, Remote!TypeOK
  <2>2. e \in Entities /\ r # None /\ r.ec = ec[c] /\ r.ss = ss[c]
    BY <2>1, <1>3, <1>6, <1>7, ResolvedFacts
  <2>3. Chain(e, ec[c], ss[c]) /\ beganAt[c] < ec[c].exp /\ beganAt[c] < ss[c].exp
    BY <2>1, <1>1 DEF Verified
  <2> HIDE DEF r
  <2>4. cache'[e] = r /\ \A x \in Entities \ {e} : cache'[x] = cache[x]
    BY <2>1, <2>2, <1>1 DEF Remote!TypeOK
  <2>5. \A x \in Entities : Certified(x)'
    BY <2>2, <2>3, <2>4, <1>1 DEF Certified, Chain
  <2>6. Verified(c)' /\ Thorough(c)'
    BY <2>1, <2>2, <2>3, <1>1, <1>2 DEF Verified, Chain, Thorough
  <2> QED
    BY <2>5, <2>6
<1>17. CASE Remote!Return(c)
  <2>1. pc'[c] = "idle" /\ beganAt'[c] = 0 /\ UNCHANGED cache
    BY <1>17, <1>1 DEF Remote!Return, Remote!TypeOK
  <2>2. Verified(c)' /\ Thorough(c)'
    BY <2>1, <1>1, <1>2 DEF Verified, Thorough
  <2> QED
    BY <2>1, <2>2, <1>4
<1> QED
  BY <1>8, <1>9, <1>10, <1>11, <1>12, <1>13, <1>14, <1>15, <1>16, <1>17 DEF Remote!Resolve

LEMMA RemoteInductive == RemoteInv /\ Remote!Next => RemoteInv'
<1> SUFFICES ASSUME RemoteInv, Remote!Next PROVE RemoteInv'
  OBVIOUS
<1>1. Remote!TypeOK /\ Remote!TypeOK'
  BY RemoteTypes DEF RemoteInv
<1>2. clock \in Nat
  BY <1>1, StatementsAssumption DEF Remote!TypeOK
<1>3. CASE Remote!Tick
  BY <1>1, <1>2, <1>3, DisturbKeeps DEF Remote!Tick, RemoteInv
<1>4. ASSUME NEW e \in Entities, NEW new \in ECs, Remote!Publish(e, new) PROVE RemoteInv'
  BY <1>1, <1>2, <1>4, DisturbKeeps DEF Remote!Publish, RemoteInv
<1>5. ASSUME NEW a \in Anchors, NEW e \in Entities, NEW new \in SSs, Remote!Certify(a, e, new)
      PROVE  RemoteInv'
  BY <1>1, <1>2, <1>5, DisturbKeeps DEF Remote!Certify, RemoteInv
<1>6. ASSUME NEW c \in Callers, Remote!Resolve(c) PROVE RemoteInv'
  BY <1>1, <1>6, OthersKeep, RemoteResolveKeeps DEF RemoteInv
<1> QED
  BY <1>3, <1>4, <1>5, <1>6 DEF Remote!Next

-----------------------------------------------------------------------------
(* Whichever resolver is configured *)

IInv ==
    /\ configured \in {"InMemoryResolver", "HTTPResolver"}
    /\ configured = "InMemoryResolver" => InMemoryInv
    /\ configured = "HTTPResolver" => RemoteInv

LEMMA Initial == Init => IInv
<1> SUFFICES ASSUME Init PROVE IInv
  OBVIOUS
<1>1. InMemory!Init /\ Remote!Init /\ configured \in {"InMemoryResolver", "HTTPResolver"}
  BY DEF Init
<1>2. InMemory!TypeOK
  BY <1>1, StatementsAssumption DEF InMemory!Init, InMemory!TypeOK, InMemory!Stages
<1>3. (\A e \in Entities : Sound(e)) /\ (\A c \in Callers : Honest(c))
  BY <1>1 DEF InMemory!Init, Sound, Honest, Holding
<1>4. Remote!TypeOK
  BY <1>1, StatementsAssumption DEF Remote!Init, Remote!TypeOK, Remote!Stages
<1>5. (\A e \in Entities : Certified(e)) /\ (\A c \in Callers : Verified(c) /\ Thorough(c))
  BY <1>1 DEF Remote!Init, Certified, Verified, Thorough
<1> QED
  BY <1>1, <1>2, <1>3, <1>4, <1>5 DEF IInv, InMemoryInv, RemoteInv

LEMMA Inductive == IInv /\ [Next]_vars => IInv'
<1> SUFFICES ASSUME IInv, [Next]_vars PROVE IInv'
  OBVIOUS
<1>1. CASE configured = "InMemoryResolver" /\ InMemory!Next /\ UNCHANGED configured
  BY <1>1, InMemoryInductive DEF IInv
<1>2. CASE configured = "HTTPResolver" /\ Remote!Next /\ UNCHANGED configured
  BY <1>2, RemoteInductive DEF IInv
<1>3. CASE UNCHANGED vars
  <2>1. UNCHANGED <<configured, clock, cache, pc, entityID, ec, ss, answer, beganAt,
                    entityConfigs, subStatements, paired, raced,
                    published, certified, hint, disturbed>>
    BY <1>3 DEF vars, ofInMemory, ofRemote
  <2>2. InMemoryInv => InMemoryInv'
    BY <2>1 DEF InMemoryInv, InMemory!TypeOK, Sound, Honest, Holding, Chain
  <2>3. RemoteInv => RemoteInv'
    BY <2>1 DEF RemoteInv, Remote!TypeOK, Certified, Verified, Thorough, Works, Chain, Certifies,
                SelfSigned
  <2> QED
    BY <2>1, <2>2, <2>3 DEF IInv
<1> QED
  BY <1>1, <1>2, <1>3 DEF Next

LEMMA Invariance == Spec => []IInv
BY Initial, Inductive, PTL DEF Spec

\* pkg/federation/resolver.go:29-58 and 142-159: registry, cache and calls of
\* the configured resolver keep their types.
THEOREM TypeCorrect == Spec => []TypeOK
<1>1. IInv => TypeOK
  BY DEF IInv, InMemoryInv, RemoteInv, TypeOK
<1> QED
  BY <1>1, Invariance, PTL

\* Resolve, while statements are registered, published and fetched at any time:
\* an answer is made of one live chain, and the InMemoryResolver never pairs a
\* new configuration with an old statement.
THEOREM ChainedAnswers == Spec => []AnswersAreChained
<1>1. IInv => AnswersAreChained
  <2>1. InMemoryInv => InMemory!AnswersAreChained
    BY DEF InMemoryInv, Honest, InMemory!AnswersAreChained
  <2>2. RemoteInv => Remote!AnswersAreChained
    BY DEF RemoteInv, Verified, Chain, Remote!AnswersAreChained, Remote!Chain
  <2> QED
    BY <2>1, <2>2 DEF IInv, AnswersAreChained
<1> QED
  BY <1>1, Invariance, PTL

\* README.md:526: the entity is cached until the earlier of two expiries, so no
\* call answers with a statement that had expired before it began.
THEOREM LiveAnswers == Spec => []AnswersAreLive
<1>1. IInv => AnswersAreLive
  <2>1. InMemoryInv => InMemory!AnswersAreLive
    BY DEF InMemoryInv, Honest, InMemory!AnswersAreLive
  <2>2. RemoteInv => Remote!AnswersAreLive
    BY DEF RemoteInv, Verified, Remote!AnswersAreLive
  <2> QED
    BY <2>1, <2>2 DEF IInv, AnswersAreLive
<1> QED
  BY <1>1, Invariance, PTL

\* A registration clears the cache (pkg/federation/resolver.go:65): what the
\* cache holds is what the registry holds, but for a call that read the registry
\* before the registration.
THEOREM CurrentCache == Spec => []CacheIsCurrent
<1>1. IInv => CacheIsCurrent
  BY DEF IInv, InMemoryInv, Sound, CacheIsCurrent, InMemory!CacheIsCurrent
<1> QED
  BY <1>1, Invariance, PTL

\* HTTPResolver.Resolve (pkg/federation/resolver.go:181) tries every hint: a call
\* that nothing disturbed is refused only if none leads to a live chain.
THEOREM CausedRefusals == Spec => []RefusedForCause
<1>1. RemoteInv => Remote!RefusedForCause
  <2> SUFFICES ASSUME RemoteInv, NEW c \in Callers, pc[c] = "refused", ~disturbed[c],
                      NEW a \in Trusted, None \notin {published[entityID[c]],
                                                      certified[<<a, entityID[c]>>]},
                      NEW i \in DOMAIN published[entityID[c]].hints,
                      published[entityID[c]].hints[i] = a,
                      Remote!Certifies(certified[<<a, entityID[c]>>], a, entityID[c], clock),
                      Remote!SelfSigned(published[entityID[c]],
                                        certified[<<a, entityID[c]>>], clock)
               PROVE  FALSE
    BY DEF Remote!RefusedForCause
  <2>1. Works(entityID[c], a)
    BY DEF Works, Certifies, SelfSigned, Remote!Certifies, Remote!SelfSigned
  <2>2. ~Works(entityID[c], published[entityID[c]].hints[i])
    BY DEF RemoteInv, Thorough
  <2> QED
    BY <2>1, <2>2
<1>2. IInv => RefusedForCause
  BY <1>1 DEF IInv, RefusedForCause
<1> QED
  BY <1>2, Invariance, PTL

-----------------------------------------------------------------------------
(* Both resolvers keep the contract *)

\* What a stage of a call is to its caller.
Outcome(stage) ==
    CASE stage = "answered" -> "resolved"
      [] stage \in {"failed", "refused"} -> "failed"
      [] OTHER -> "open"

\* A goroutine that does not resolve asks for nothing.
AtRest == \A c \in Callers : pc[c] = "idle" => entityID[c] = None

\* What was registered together is a chain.
Genuine == configured = "InMemoryResolver" => \A t \in paired : Chain(t[1], t[2], t[3])

\* The calls have their types, whichever resolver they are of.
CallTypes ==
    /\ pc \in [Callers -> InMemory!Stages \cup Remote!Stages]
    /\ entityID \in [Callers -> Entities \cup {None}]
    /\ answer \in [Callers -> ResolvedEntity \cup {None}]
    /\ beganAt \in [Callers -> 0..MaxTime]
    /\ \A c \in Callers : pc[c] # "idle" => entityID[c] # None

LEMMA CallsTyped == IInv => CallTypes
BY SameEntities DEF IInv, InMemoryInv, RemoteInv, InMemory!TypeOK, Remote!TypeOK, CallTypes

LEMMA SameContract ==
    /\ Contract!ResolvedEntity = ResolvedEntity
    /\ \A e, x, y : Contract!Chain(e, x, y) <=> Chain(e, x, y)
    /\ outcomeOf = [c \in Callers |-> Outcome(pc[c])]
    /\ outcomeOf' = [c \in Callers |-> Outcome(pc'[c])]
BY DEF Contract!ResolvedEntity, Contract!Resolved, Contract!Chain, ResolvedEntity, Resolved,
       Chain, outcomeOf, Outcome

LEMMA ResolvedWithin ==
    ASSUME NEW r \in ResolvedEntity
    PROVE  /\ r.ec \in ECs /\ r.ss \in SSs /\ r = Resolved(r.ec, r.ss)
           /\ r.key = r.ss.key /\ r.exp \in {r.ec.exp, r.ss.exp}
           /\ r.exp <= r.ec.exp /\ r.exp <= r.ss.exp /\ r.exp \in Nat
<1>1. PICK x \in ECs, y \in SSs : r = Resolved(x, y)
  BY DEF ResolvedEntity
<1>2. x.exp \in Nat /\ y.exp \in Nat
  BY StatementsAssumption DEF EntityConfiguration, SubordinateStatement
<1> QED
  BY <1>1, <1>2 DEF Resolved

\* The statements of a cached entity are a chain, so its key is the one that
\* both carry.
LEMMA ChainKey ==
    ASSUME NEW e, NEW r \in ResolvedEntity, Chain(e, r.ec, r.ss)
    PROVE  r.key = r.ec.key
BY ResolvedWithin DEF Chain

-----------------------------------------------------------------------------
(* The steps of a call, as its caller sees them *)

\* The call goes from one stage to another.
Moves(c, to) == pc' = [pc EXCEPT ![c] = to]

LEMMA OutcomeMoves ==
    ASSUME CallTypes, NEW c \in Callers, NEW to, Moves(c, to)
    PROVE  /\ outcomeOf[c] = Outcome(pc[c])
           /\ outcomeOf' = [outcomeOf EXCEPT ![c] = Outcome(to)]
           /\ Outcome(to) = Outcome(pc[c]) => UNCHANGED outcomeOf
<1>1. pc'[c] = to /\ \A d \in Callers \ {c} : pc'[d] = pc[d]
  BY DEF Moves, CallTypes
<1> HIDE DEF Outcome
<1>2. \A d \in Callers : outcomeOf[d] = Outcome(pc[d]) /\ outcomeOf'[d] = Outcome(pc'[d])
  BY SameContract
<1>3. outcomeOf' = [outcomeOf EXCEPT ![c] = Outcome(to)]
  BY <1>1, SameContract
<1>4. ASSUME Outcome(to) = Outcome(pc[c]) PROVE UNCHANGED outcomeOf
  <2>1. \A d \in Callers : Outcome(pc'[d]) = Outcome(pc[d])
    BY <1>1, <1>4
  <2> QED
    BY <2>1, SameContract
<1> QED
  BY <1>2, <1>3, <1>4

LEMMA HiddenStep ==
    ASSUME CallTypes, NEW c \in Callers, NEW to, Moves(c, to), Outcome(to) = Outcome(pc[c]),
           UNCHANGED <<clock, knownOf, entityID, beganAt, answer>>
    PROVE  UNCHANGED Contract!vars
BY OutcomeMoves DEF Contract!vars

LEMMA RefuseStep ==
    ASSUME CallTypes, NEW c \in Callers, NEW to \in {"failed", "refused"}, Moves(c, to),
           pc[c] # "idle", Outcome(pc[c]) = "open",
           UNCHANGED <<clock, knownOf, entityID, beganAt, answer>>
    PROVE  Contract!Refuse(c)
<1>1. Outcome(to) = "failed"
  BY DEF Outcome
<1>2. outcomeOf[c] = "open" /\ outcomeOf' = [outcomeOf EXCEPT ![c] = "failed"]
  BY <1>1, OutcomeMoves
<1> QED
  BY <1>2 DEF Contract!Refuse, Contract!Open, CallTypes

LEMMA AnswerStep ==
    ASSUME CallTypes, NEW c \in Callers, NEW r \in ResolvedEntity, Moves(c, "answered"),
           pc[c] # "idle", Outcome(pc[c]) = "open",
           <<entityID[c], r.ec, r.ss>> \in knownOf, r.key = r.ec.key, beganAt[c] < r.exp,
           answer' = [answer EXCEPT ![c] = r],
           UNCHANGED <<clock, knownOf, entityID, beganAt>>
    PROVE  Contract!Answer(c, r)
<1>1. Outcome("answered") = "resolved"
  BY DEF Outcome
<1>2. outcomeOf[c] = "open" /\ outcomeOf' = [outcomeOf EXCEPT ![c] = "resolved"]
  BY <1>1, OutcomeMoves
<1>3. r.key = r.ss.key /\ r.exp <= r.ec.exp /\ r.exp <= r.ss.exp
  BY ResolvedWithin
<1> QED
  BY <1>2, <1>3 DEF Contract!Answer, Contract!Open, CallTypes

LEMMA AskStep ==
    ASSUME CallTypes, AtRest, NEW c \in Callers, NEW e \in Entities, pc[c] = "idle",
           Moves(c, "lookup"), entityID' = [entityID EXCEPT ![c] = e],
           beganAt' = [beganAt EXCEPT ![c] = clock],
           UNCHANGED <<clock, knownOf, answer>>
    PROVE  Contract!Ask(c, e)
<1>1. Outcome("lookup") = Outcome("idle")
  BY DEF Outcome
<1>2. UNCHANGED outcomeOf
  BY <1>1, OutcomeMoves
<1> QED
  BY <1>2 DEF Contract!Ask, AtRest

LEMMA ForgetStep ==
    ASSUME CallTypes, NEW c \in Callers, pc[c] \in {"answered", "failed", "refused"},
           Moves(c, "idle"), entityID' = [entityID EXCEPT ![c] = None],
           beganAt' = [beganAt EXCEPT ![c] = 0], answer' = [answer EXCEPT ![c] = None],
           UNCHANGED <<clock, knownOf>>
    PROVE  Contract!Forget(c)
<1>1. Outcome("idle") = "open" /\ Outcome(pc[c]) # "open"
  BY DEF Outcome
<1>2. outcomeOf[c] # "open" /\ outcomeOf' = [outcomeOf EXCEPT ![c] = "open"]
  BY <1>1, OutcomeMoves
<1> QED
  BY <1>2 DEF Contract!Forget

-----------------------------------------------------------------------------
(* The InMemoryResolver keeps the contract *)

\* What a call stores and a cache holds may be answered.
LEMMA MayAnswer ==
    ASSUME NEW e, NEW x \in ECs, NEW y \in SSs, NEW t \in Nat,
           Chain(e, x, y), t < x.exp, t < y.exp
    PROVE  LET r == Resolved(x, y) IN
           r \in ResolvedEntity /\ r.ec = x /\ r.ss = y /\ r.key = r.ec.key /\ t < r.exp
<1>1. Resolved(x, y) \in ResolvedEntity /\ Resolved(x, y).ec = x /\ Resolved(x, y).ss = y
  BY ResolvedFacts
<1>2. Resolved(x, y).key = x.key
  BY <1>1, ChainKey
<1>3. Resolved(x, y).exp \in {x.exp, y.exp}
  BY <1>1, ResolvedWithin
<1> QED
  BY <1>1, <1>2, <1>3

LEMMA InMemoryCall ==
    ASSUME InMemoryInv, configured = "InMemoryResolver", UNCHANGED configured,
           AtRest, Genuine, CallTypes, NEW c \in Callers, InMemory!Resolve(c)
    PROVE  [Contract!Next]_(Contract!vars)
<1>1. /\ InMemory!TypeOK /\ (\A e \in Entities : Sound(e)) /\ Honest(c)
      /\ UNCHANGED <<clock, paired>>
  BY OthersSame DEF InMemoryInv, InMemory!registry
<1>2. UNCHANGED knownOf /\ knownOf = paired
  BY <1>1 DEF knownOf
<1>3. clock \in Nat /\ beganAt[c] \in Nat /\ beganAt[c] <= clock
  BY <1>1, StatementsAssumption DEF InMemory!TypeOK, Honest
<1>4. \A t \in paired : Chain(t[1], t[2], t[3])
  BY DEF Genuine
<1> DEFINE Step == Contract!Next \/ UNCHANGED Contract!vars
<1> SUFFICES Step
  OBVIOUS
<1>5. ASSUME NEW r \in ResolvedEntity, Contract!Answer(c, r) PROVE Step
  BY <1>5, SameContract DEF Contract!Next
<1>6. ASSUME NEW to, Moves(c, to), Outcome(to) = Outcome(pc[c]),
             UNCHANGED <<entityID, beganAt, answer>>
      PROVE  Step
  BY <1>1, <1>2, <1>6, HiddenStep
<1>7. ASSUME Moves(c, "failed"), pc[c] # "idle", Outcome(pc[c]) = "open",
             UNCHANGED <<entityID, beganAt, answer>>
      PROVE  Step
  BY <1>1, <1>2, <1>7, RefuseStep DEF Contract!Next
<1> HIDE DEF Step
<1>8. ASSUME NEW e \in Entities, InMemory!Begin(c, e) PROVE Step
  <2>1. /\ pc[c] = "idle" /\ Moves(c, "lookup") /\ UNCHANGED answer
        /\ entityID' = [entityID EXCEPT ![c] = e] /\ beganAt' = [beganAt EXCEPT ![c] = clock]
    BY <1>8 DEF InMemory!Begin, InMemory!Goto, Moves
  <2>2. Contract!Ask(c, e)
    BY <2>1, <1>1, <1>2, AskStep
  <2> QED
    BY <2>2 DEF Step, Contract!Next
<1>9. CASE InMemory!Hit(c)
  <2> DEFINE r == cache[entityID[c]]
  <2>1. /\ pc[c] = "lookup" /\ Moves(c, "answered") /\ r # None /\ clock < r.exp
        /\ answer' = [answer EXCEPT ![c] = r] /\ UNCHANGED <<entityID, beganAt>>
    BY <1>9 DEF InMemory!Hit, InMemory!Goto, Moves
  <2>2. entityID[c] \in Entities /\ r \in ResolvedEntity
    BY <2>1, <1>1, SameEntities DEF InMemory!TypeOK
  <2>3. <<entityID[c], r.ec, r.ss>> \in paired
    BY <2>1, <2>2, <1>1 DEF Sound
  <2>4. r.key = r.ec.key /\ r.exp \in Nat
    BY <2>2, <2>3, <1>4, ChainKey, ResolvedWithin
  <2>5. pc[c] # "idle" /\ Outcome(pc[c]) = "open" /\ beganAt[c] < r.exp
    BY <2>1, <2>4, <1>3 DEF Outcome
  <2> HIDE DEF r
  <2>6. Contract!Answer(c, r)
    BY <2>1, <2>2, <2>3, <2>4, <2>5, <1>1, <1>2, AnswerStep
  <2> QED
    BY <2>2, <2>6, <1>5
<1>10. CASE InMemory!Miss(c)
  <2>1. PICK to \in {"read", "evict"} : Moves(c, to)
    BY <1>10 DEF InMemory!Miss, InMemory!Goto, Moves
  <2>2. pc[c] = "lookup" /\ UNCHANGED <<entityID, beganAt, answer>>
    BY <1>10 DEF InMemory!Miss
  <2>3. Outcome(to) = Outcome(pc[c])
    BY <2>2 DEF Outcome
  <2> QED
    BY <2>1, <2>2, <2>3, <1>6
<1>11. CASE InMemory!Evict(c)
  <2>1. pc[c] = "evict" /\ Moves(c, "read") /\ UNCHANGED <<entityID, beganAt, answer>>
    BY <1>11 DEF InMemory!Evict, InMemory!Goto, Moves
  <2>2. Outcome("read") = Outcome(pc[c])
    BY <2>1 DEF Outcome
  <2> QED
    BY <2>1, <2>2, <1>6
<1>12. ASSUME NEW from \in {"read", "checkSS", "checkEC"}, NEW to \in {"checkSS", "checkEC", "store"},
              pc[c] = from, Moves(c, to) \/ Moves(c, "failed"),
              UNCHANGED <<entityID, beganAt, answer>>
       PROVE  Step
  <2>1. pc[c] # "idle" /\ Outcome(pc[c]) = "open" /\ Outcome(to) = "open"
    BY <1>12 DEF Outcome
  <2> QED
    BY <2>1, <1>6, <1>7, <1>12
<1>13. CASE InMemory!ReadRegistry(c)
  <2>1. /\ pc[c] = "read" /\ (Moves(c, "checkSS") \/ Moves(c, "failed"))
        /\ UNCHANGED <<entityID, beganAt, answer>>
    BY <1>13 DEF InMemory!ReadRegistry, InMemory!Goto, Moves
  <2> QED
    BY <2>1, <1>12
<1>14. CASE InMemory!CheckSS(c)
  <2>1. /\ pc[c] = "checkSS" /\ (Moves(c, "checkEC") \/ Moves(c, "failed"))
        /\ UNCHANGED <<entityID, beganAt, answer>>
    BY <1>14 DEF InMemory!CheckSS, InMemory!Goto, Moves
  <2> QED
    BY <2>1, <1>12
<1>15. CASE InMemory!CheckEC(c)
  <2>1. /\ pc[c] = "checkEC" /\ (Moves(c, "store") \/ Moves(c, "failed"))
        /\ UNCHANGED <<entityID, beganAt, answer>>
    BY <1>15 DEF InMemory!CheckEC, InMemory!Goto, Moves
  <2> QED
    BY <2>1, <1>12
<1>16. CASE InMemory!Store(c)
  <2> DEFINE x == ec[c]
             y == ss[c]
             r == Resolved(x, y)
  <2>1. /\ pc[c] = "store" /\ Moves(c, "answered") /\ UNCHANGED <<entityID, beganAt>>
        /\ answer' = [answer EXCEPT ![c] = r]
    BY <1>16, SameEntities DEF InMemory!Store, InMemory!Goto, Moves
  <2>2. x \in ECs /\ y \in SSs
    BY <2>1, <1>1 DEF InMemory!TypeOK
  <2>3. Chain(entityID[c], x, y) /\ beganAt[c] < x.exp /\ beganAt[c] < y.exp
    BY <2>1, <1>1 DEF Honest, Chain
  <2>4. <<entityID[c], x, y>> \in paired
    BY <2>1, <2>3, <1>1 DEF Honest, Holding
  <2>5. pc[c] # "idle" /\ Outcome(pc[c]) = "open"
    BY <2>1 DEF Outcome
  <2> HIDE DEF x, y
  <2>6. /\ r \in ResolvedEntity /\ r.ec = x /\ r.ss = y /\ r.key = r.ec.key
        /\ beganAt[c] < r.exp
    BY <2>2, <2>3, <1>3, MayAnswer
  <2> HIDE DEF r
  <2>7. Contract!Answer(c, r)
    BY <2>1, <2>4, <2>5, <2>6, <1>1, <1>2, AnswerStep
  <2> QED
    BY <2>6, <2>7, <1>5
<1>17. CASE InMemory!Return(c)
  <2>1. /\ pc[c] \in {"answered", "failed"} /\ Moves(c, "idle")
        /\ entityID' = [entityID EXCEPT ![c] = None] /\ beganAt' = [beganAt EXCEPT ![c] = 0]
        /\ answer' = [answer EXCEPT ![c] = None]
    BY <1>17 DEF InMemory!Return, Moves
  <2>2. Contract!Forget(c)
    BY <2>1, <1>1, <1>2, ForgetStep
  <2> QED
    BY <2>2 DEF Step, Contract!Next
<1> QED
  BY <1>8, <1>9, <1>10, <1>11, <1>13, <1>14, <1>15, <1>16, <1>17 DEF InMemory!Resolve

LEMMA InMemoryContract ==
    ASSUME InMemoryInv, configured = "InMemoryResolver", UNCHANGED configured,
           AtRest, Genuine, CallTypes, InMemory!Next
    PROVE  [Contract!Next]_(Contract!vars) /\ Genuine'
<1>1. InMemory!TypeOK /\ (\A t \in paired : Chain(t[1], t[2], t[3]))
  BY DEF InMemoryInv, Genuine
<1>2. CASE InMemory!Tick
  <2>1. clock' = clock + 1 /\ UNCHANGED <<paired, pc, entityID, beganAt, answer>>
    BY <1>2 DEF InMemory!Tick, InMemory!registry, InMemory!callVars
  <2>2. UNCHANGED <<knownOf, outcomeOf>>
    BY <2>1 DEF knownOf, outcomeOf
  <2> QED
    BY <2>1, <2>2, <1>1 DEF Contract!Next, Contract!Tick, Genuine, Chain
<1>3. ASSUME NEW e \in Entities, NEW x, NEW y, InMemory!Registered(e, x, y),
             UNCHANGED <<clock, InMemory!callVars>>
      PROVE  Contract!Learn /\ Genuine'
  <2>1. paired \subseteq paired' /\ \A t \in paired' \ paired : Chain(t[1], t[2], t[3])
    BY <1>3 DEF InMemory!Registered, InMemory!Chain, Chain
  <2>2. UNCHANGED <<clock, entityID, beganAt, answer, pc>>
    BY <1>3 DEF InMemory!callVars
  <2>3. knownOf = paired /\ knownOf' = paired' /\ UNCHANGED outcomeOf
    BY <2>2 DEF knownOf, outcomeOf
  <2>4. \A t \in paired' \ paired : Contract!Chain(t[1], t[2], t[3])
    BY <2>1, SameContract
  <2>5. Genuine'
    BY <2>1, <1>1 DEF Genuine, Chain
  <2> QED
    BY <2>1, <2>2, <2>3, <2>4, <2>5 DEF Contract!Learn
<1>4. ASSUME NEW e \in Entities, NEW new \in ECs, InMemory!RegisterEntityConfig(e, new)
      PROVE  Contract!Learn /\ Genuine'
  BY <1>3, <1>4 DEF InMemory!RegisterEntityConfig
<1>5. ASSUME NEW e \in Entities, NEW new \in SSs, InMemory!RegisterSubordinateStatement(e, new)
      PROVE  Contract!Learn /\ Genuine'
  BY <1>3, <1>5 DEF InMemory!RegisterSubordinateStatement
<1>6. ASSUME NEW c \in Callers, InMemory!Resolve(c)
      PROVE  [Contract!Next]_(Contract!vars) /\ Genuine'
  <2>1. UNCHANGED paired
    BY <1>1, <1>6, OthersSame DEF InMemory!registry
  <2> QED
    BY <2>1, <1>1, <1>6, InMemoryCall DEF Genuine, Chain
<1> QED
  BY <1>2, <1>4, <1>5, <1>6 DEF InMemory!Next, Contract!Next

-----------------------------------------------------------------------------
(* The HTTPResolver keeps the contract *)

LEMMA RemoteCall ==
    ASSUME RemoteInv, configured = "HTTPResolver", UNCHANGED configured,
           AtRest, CallTypes, NEW c \in Callers, Remote!Resolve(c)
    PROVE  [Contract!Next]_(Contract!vars)
<1>1. /\ Remote!TypeOK /\ (\A e \in Entities : Certified(e)) /\ Verified(c)
      /\ UNCHANGED clock
  BY OthersSameRemote DEF RemoteInv
<1>2. /\ UNCHANGED knownOf
      /\ \A e \in Entities, x \in ECs, y \in SSs : Chain(e, x, y) => <<e, x, y>> \in knownOf
  <2>1. knownOf = {t \in Entities \X ECs \X SSs : Chain(t[1], t[2], t[3])}
        /\ knownOf' = {t \in Entities \X ECs \X SSs : Chain(t[1], t[2], t[3])}
    BY DEF knownOf, Chain
  <2> QED
    BY <2>1
<1>3. clock \in Nat /\ beganAt[c] \in Nat /\ beganAt[c] <= clock
  BY <1>1, StatementsAssumption DEF Remote!TypeOK, Verified
<1> DEFINE Step == Contract!Next \/ UNCHANGED Contract!vars
<1> SUFFICES Step
  OBVIOUS
<1>4. ASSUME NEW r \in ResolvedEntity, Contract!Answer(c, r) PROVE Step
  BY <1>4, SameContract DEF Contract!Next
<1>5. ASSUME UNCHANGED <<pc, entityID, beganAt, answer>> PROVE Step
  BY <1>1, <1>2, <1>5 DEF Contract!vars, outcomeOf
<1>6. ASSUME NEW to \in {"lookup", "evict", "fetchEC", "hints", "verify", "store"},
             pc[c] \in {"lookup", "evict", "fetchEC", "hints", "verify"},
             Moves(c, to) \/ Moves(c, "refused"), UNCHANGED <<entityID, beganAt, answer>>
      PROVE  Step
  <2>1. pc[c] # "idle" /\ Outcome(pc[c]) = "open" /\ Outcome(to) = "open"
    BY <1>6 DEF Outcome
  <2>2. CASE Moves(c, to)
    BY <2>1, <2>2, <1>1, <1>2, <1>6, HiddenStep
  <2>3. CASE Moves(c, "refused")
    BY <2>1, <2>3, <1>1, <1>2, <1>6, RefuseStep DEF Contract!Next
  <2> QED
    BY <2>2, <2>3, <1>6
<1> HIDE DEF Step
<1>7. ASSUME NEW e \in Entities, Remote!Begin(c, e) PROVE Step
  <2>1. /\ pc[c] = "idle" /\ Moves(c, "lookup") /\ UNCHANGED answer
        /\ entityID' = [entityID EXCEPT ![c] = e] /\ beganAt' = [beganAt EXCEPT ![c] = clock]
    BY <1>7 DEF Remote!Begin, Remote!Goto, Moves
  <2>2. Contract!Ask(c, e)
    BY <2>1, <1>1, <1>2, AskStep
  <2> QED
    BY <2>2 DEF Step, Contract!Next
<1>8. CASE Remote!Hit(c)
  <2> DEFINE r == cache[entityID[c]]
  <2>1. /\ pc[c] = "lookup" /\ Moves(c, "answered") /\ r # None /\ clock < r.exp
        /\ answer' = [answer EXCEPT ![c] = r] /\ UNCHANGED <<entityID, beganAt>>
    BY <1>8 DEF Remote!Hit, Remote!Goto, Moves
  <2>2. entityID[c] \in Entities /\ r \in ResolvedEntity
    BY <2>1, <1>1, SameEntities DEF Remote!TypeOK
  <2>3. Chain(entityID[c], r.ec, r.ss)
    <3>1. Chain(entityID[c], r.ec, r.ss)
      BY <2>1, <2>2, <1>1 DEF Certified, Chain
    <3> QED
      BY <3>1
  <2>4. r.key = r.ec.key /\ r.exp \in Nat /\ r.ec \in ECs /\ r.ss \in SSs
    BY <2>2, <2>3, ChainKey, ResolvedWithin
  <2>5. pc[c] # "idle" /\ Outcome(pc[c]) = "open" /\ beganAt[c] < r.exp
    BY <2>1, <2>4, <1>3 DEF Outcome
  <2> HIDE DEF r
  <2>6. <<entityID[c], r.ec, r.ss>> \in knownOf
    BY <2>2, <2>3, <2>4, <1>2
  <2>7. Contract!Answer(c, r)
    BY <2>1, <2>2, <2>4, <2>5, <2>6, <1>1, <1>2, AnswerStep
  <2> QED
    BY <2>2, <2>7, <1>4
<1>9. CASE Remote!Miss(c)
  <2>1. /\ pc[c] = "lookup" /\ (Moves(c, "fetchEC") \/ Moves(c, "evict"))
        /\ UNCHANGED <<entityID, beganAt, answer>>
    BY <1>9 DEF Remote!Miss, Remote!Goto, Moves
  <2> QED
    BY <2>1, <1>6
<1>10. CASE Remote!Evict(c)
  <2>1. pc[c] = "evict" /\ Moves(c, "fetchEC") /\ UNCHANGED <<entityID, beganAt, answer>>
    BY <1>10 DEF Remote!Evict, Remote!Goto, Moves
  <2> QED
    BY <2>1, <1>6
<1>11. CASE Remote!FetchEC(c)
  <2>1. /\ pc[c] = "fetchEC" /\ (Moves(c, "hints") \/ Moves(c, "refused"))
        /\ UNCHANGED <<entityID, beganAt, answer>>
    BY <1>11 DEF Remote!FetchEC, Remote!Goto, Moves
  <2> QED
    BY <2>1, <1>6
<1>12. CASE Remote!SkipHint(c)
  <2>1. /\ pc[c] = "hints" /\ (UNCHANGED pc \/ Moves(c, "refused"))
        /\ UNCHANGED <<entityID, beganAt, answer>>
    BY <1>12 DEF Remote!SkipHint, Remote!Goto, Moves
  <2> QED
    BY <2>1, <1>5, <1>6
<1>13. CASE Remote!FetchSS(c)
  <2>1. /\ pc[c] = "hints" /\ (UNCHANGED pc \/ Moves(c, "verify"))
        /\ UNCHANGED <<entityID, beganAt, answer>>
    BY <1>13 DEF Remote!FetchSS, Remote!Goto, Moves
  <2> QED
    BY <2>1, <1>5, <1>6
<1>14. CASE Remote!Verify(c)
  <2>1. /\ pc[c] = "verify" /\ (Moves(c, "store") \/ Moves(c, "hints"))
        /\ UNCHANGED <<entityID, beganAt, answer>>
    BY <1>14 DEF Remote!Verify, Remote!Goto, Moves
  <2> QED
    BY <2>1, <1>6
<1>15. CASE Remote!Store(c)
  <2> DEFINE x == ec[c]
             y == ss[c]
             r == Resolved(x, y)
  <2>1. /\ pc[c] = "store" /\ Moves(c, "answered") /\ UNCHANGED <<entityID, beganAt>>
        /\ answer' = [answer EXCEPT ![c] = r]
    BY <1>15, SameEntities DEF Remote!Store, Remote!Goto, Moves
  <2>2. x \in ECs /\ y \in SSs /\ entityID[c] \in Entities
    BY <2>1, <1>1 DEF Remote!TypeOK
  <2>3. Chain(entityID[c], x, y) /\ beganAt[c] < x.exp /\ beganAt[c] < y.exp
    BY <2>1, <1>1 DEF Verified, Chain
  <2>4. <<entityID[c], x, y>> \in knownOf
    BY <2>2, <2>3, <1>2
  <2>5. pc[c] # "idle" /\ Outcome(pc[c]) = "open"
    BY <2>1 DEF Outcome
  <2> HIDE DEF x, y
  <2>6. /\ r \in ResolvedEntity /\ r.ec = x /\ r.ss = y /\ r.key = r.ec.key
        /\ beganAt[c] < r.exp
    BY <2>2, <2>3, <1>3, MayAnswer
  <2> HIDE DEF r
  <2>7. Contract!Answer(c, r)
    BY <2>1, <2>4, <2>5, <2>6, <1>1, <1>2, AnswerStep
  <2> QED
    BY <2>6, <2>7, <1>4
<1>16. CASE Remote!Return(c)
  <2>1. /\ pc[c] \in {"answered", "refused"} /\ Moves(c, "idle")
        /\ entityID' = [entityID EXCEPT ![c] = None] /\ beganAt' = [beganAt EXCEPT ![c] = 0]
        /\ answer' = [answer EXCEPT ![c] = None]
    BY <1>16 DEF Remote!Return, Moves
  <2>2. Contract!Forget(c)
    BY <2>1, <1>1, <1>2, ForgetStep
  <2> QED
    BY <2>2 DEF Step, Contract!Next
<1> QED
  BY <1>7, <1>8, <1>9, <1>10, <1>11, <1>12, <1>13, <1>14, <1>15, <1>16 DEF Remote!Resolve

LEMMA RemoteContract ==
    ASSUME RemoteInv, configured = "HTTPResolver", UNCHANGED configured,
           AtRest, CallTypes, Remote!Next
    PROVE  [Contract!Next]_(Contract!vars)
<1>1. UNCHANGED knownOf
  BY DEF knownOf, Chain
<1>2. CASE Remote!Tick
  <2>1. clock' = clock + 1 /\ UNCHANGED <<pc, entityID, beganAt, answer>>
    BY <1>2 DEF Remote!Tick
  <2> QED
    BY <2>1, <1>1 DEF outcomeOf, Contract!Next, Contract!Tick
<1>3. ASSUME UNCHANGED <<clock, pc, entityID, beganAt, answer>> PROVE UNCHANGED Contract!vars
  BY <1>1, <1>3 DEF outcomeOf, Contract!vars
<1>4. ASSUME NEW e \in Entities, NEW new \in ECs, Remote!Publish(e, new)
      PROVE  UNCHANGED Contract!vars
  BY <1>3, <1>4 DEF Remote!Publish
<1>5. ASSUME NEW a \in Anchors, NEW e \in Entities, NEW new \in SSs, Remote!Certify(a, e, new)
      PROVE  UNCHANGED Contract!vars
  BY <1>3, <1>5 DEF Remote!Certify
<1> QED
  BY <1>2, <1>4, <1>5, RemoteCall DEF Remote!Next

-----------------------------------------------------------------------------
(* Whichever resolver is configured, again *)

ContractInv == IInv /\ AtRest /\ Genuine

\* Return forgets what it asked for, and only Begin asks.
LEMMA StaysAtRest ==
    ASSUME CallTypes, AtRest, InMemory!Next \/ Remote!Next \/ UNCHANGED vars
    PROVE  AtRest'
<1> USE DEF AtRest, CallTypes
<1>1. ASSUME UNCHANGED <<pc, entityID>> PROVE AtRest'
  BY <1>1
<1>2. ASSUME NEW c \in Callers, NEW from, NEW to, InMemory!Goto(c, from, to), to # "idle",
             \A d \in Callers \ {c} : entityID'[d] = entityID[d]
      PROVE  AtRest'
  BY <1>2 DEF InMemory!Goto
<1>3. ASSUME NEW c \in Callers, pc' = [pc EXCEPT ![c] = "idle"],
             entityID' = [entityID EXCEPT ![c] = None]
      PROVE  AtRest'
  BY <1>3
<1>4. CASE InMemory!Tick \/ Remote!Tick \/ UNCHANGED vars
  BY <1>1, <1>4 DEF InMemory!Tick, Remote!Tick, vars, InMemory!callVars
<1>5. ASSUME NEW e \in Entities, NEW new,
             \/ InMemory!RegisterEntityConfig(e, new)
             \/ InMemory!RegisterSubordinateStatement(e, new)
             \/ Remote!Publish(e, new)
             \/ \E a \in Anchors : Remote!Certify(a, e, new)
      PROVE  AtRest'
  BY <1>1, <1>5 DEF InMemory!RegisterEntityConfig, InMemory!RegisterSubordinateStatement,
                    InMemory!callVars, Remote!Publish, Remote!Certify
<1>6. ASSUME NEW c \in Callers, InMemory!Resolve(c) PROVE AtRest'
  <2>1. ASSUME NEW e \in Entities, InMemory!Begin(c, e) PROVE AtRest'
    BY <2>1, <1>2 DEF InMemory!Begin
  <2>2. CASE InMemory!Hit(c)
    BY <2>2, <1>2 DEF InMemory!Hit
  <2>3. CASE InMemory!Miss(c)
    BY <2>3, <1>2 DEF InMemory!Miss
  <2>4. CASE InMemory!Evict(c)
    BY <2>4, <1>2 DEF InMemory!Evict
  <2>5. CASE InMemory!ReadRegistry(c)
    BY <2>5, <1>2 DEF InMemory!ReadRegistry
  <2>6. CASE InMemory!CheckSS(c)
    BY <2>6, <1>2 DEF InMemory!CheckSS
  <2>7. CASE InMemory!CheckEC(c)
    BY <2>7, <1>2 DEF InMemory!CheckEC
  <2>8. CASE InMemory!Store(c)
    BY <2>8, <1>2 DEF InMemory!Store
  <2>9. CASE InMemory!Return(c)
    BY <2>9, <1>3 DEF InMemory!Return
  <2> QED
    BY <1>6, <2>1, <2>2, <2>3, <2>4, <2>5, <2>6, <2>7, <2>8, <2>9 DEF InMemory!Resolve
<1>7. \A c, from, to : Remote!Goto(c, from, to) <=> InMemory!Goto(c, from, to)
  BY DEF Remote!Goto, InMemory!Goto
<1>8. ASSUME NEW c \in Callers, Remote!Resolve(c) PROVE AtRest'
  <2>1. ASSUME NEW e \in Entities, Remote!Begin(c, e) PROVE AtRest'
    BY <2>1, <1>2, <1>7 DEF Remote!Begin
  <2>2. CASE Remote!Hit(c)
    BY <2>2, <1>2, <1>7 DEF Remote!Hit
  <2>3. CASE Remote!Miss(c)
    BY <2>3, <1>2, <1>7 DEF Remote!Miss
  <2>4. CASE Remote!Evict(c)
    BY <2>4, <1>2, <1>7 DEF Remote!Evict
  <2>5. CASE Remote!FetchEC(c)
    BY <2>5, <1>2, <1>7 DEF Remote!FetchEC
  <2>6. CASE Remote!SkipHint(c)
    BY <2>6, <1>1, <1>2, <1>7 DEF Remote!SkipHint
  <2>7. CASE Remote!FetchSS(c)
    BY <2>7, <1>1, <1>2, <1>7 DEF Remote!FetchSS
  <2>8. CASE Remote!Verify(c)
    BY <2>8, <1>2, <1>7 DEF Remote!Verify
  <2>9. CASE Remote!Store(c)
    BY <2>9, <1>2, <1>7 DEF Remote!Store
  <2>10. CASE Remote!Return(c)
    BY <2>10, <1>3 DEF Remote!Return
  <2> QED
    BY <1>8, <2>1, <2>2, <2>3, <2>4, <2>5, <2>6, <2>7, <2>8, <2>9, <2>10 DEF Remote!Resolve
<1> QED
  BY <1>4, <1>5, <1>6, <1>8 DEF InMemory!Next, Remote!Next

LEMMA StepContract ==
    ContractInv /\ [Next]_vars => [Contract!Next]_(Contract!vars) /\ ContractInv'
<1> SUFFICES ASSUME ContractInv, [Next]_vars
             PROVE  [Contract!Next]_(Contract!vars) /\ ContractInv'
  OBVIOUS
<1>1. IInv /\ AtRest /\ Genuine /\ CallTypes /\ IInv'
  BY CallsTyped, Inductive DEF ContractInv
<1>2. CASE configured = "InMemoryResolver" /\ InMemory!Next /\ UNCHANGED configured
  BY <1>1, <1>2, InMemoryContract, StaysAtRest DEF ContractInv, IInv
<1>3. CASE configured = "HTTPResolver" /\ Remote!Next /\ UNCHANGED configured
  <2>1. Genuine'
    BY <1>3 DEF Genuine
  <2> QED
    BY <2>1, <1>1, <1>3, RemoteContract, StaysAtRest DEF ContractInv, IInv
<1>4. CASE UNCHANGED vars
  <2>1. UNCHANGED <<configured, clock, pc, entityID, answer, beganAt, paired>>
    BY <1>4 DEF vars, ofInMemory
  <2>2. UNCHANGED Contract!vars
    BY <2>1 DEF Contract!vars, knownOf, outcomeOf, Chain
  <2>3. Genuine'
    BY <2>1, <1>1 DEF Genuine, Chain
  <2> QED
    BY <2>2, <2>3, <1>1, <1>4, StaysAtRest DEF ContractInv
<1> QED
  BY <1>2, <1>3, <1>4 DEF Next

\* Resolver (pkg/federation/resolver.go:33): whichever implementation is
\* configured, and however its calls, caches, registrations, fetches and the
\* clock interleave, every call is given, once, the key that one live trust
\* chain certifies, to be kept no longer than that chain lives, or an error.
THEOREM KeepsContract == Spec => ImplementsResolver
<1>1. Init => ContractInv /\ Contract!Init
  <2> SUFFICES ASSUME Init PROVE ContractInv /\ Contract!Init
    OBVIOUS
  <2>1. /\ clock = 0 /\ paired = {}
        /\ pc = [c \in Callers |-> "idle"] /\ entityID = [c \in Callers |-> None]
        /\ beganAt = [c \in Callers |-> 0] /\ answer = [c \in Callers |-> None]
    BY DEF Init, InMemory!Init
  <2>2. ContractInv
    BY <2>1, Initial DEF ContractInv, AtRest, Genuine
  <2>3. \A t \in knownOf : Contract!Chain(t[1], t[2], t[3])
    BY <2>1, SameContract DEF knownOf
  <2>4. outcomeOf = [c \in Callers |-> "open"]
    BY <2>1, SameContract DEF Outcome
  <2> QED
    BY <2>1, <2>2, <2>3, <2>4 DEF Contract!Init
<1> QED
  BY <1>1, StepContract, PTL DEF Spec, ImplementsResolver, Contract!Spec
=============================================================================
