----------------------------- MODULE PolicyProofs -----------------------------
(***************************************************************************)
(* What the glob matcher and the default rules of Policy compute, for      *)
(* identities of every depth and scopes of every length.  pathMatch is a   *)
(* recursive function, so every fact about it starts from a least natural  *)
(* number without the fact.                                                *)
(***************************************************************************)
EXTENDS Policy, Integers, FiniteSets, FiniteSetTheorems,
        SequenceTheorems, WellFoundedInduction, TLAPS

-----------------------------------------------------------------------------
(* Induction *)

\* A set of naturals that is not empty has a least element: among the runs 1..n
\* of its elements one has no strict subset.
LEMMA LeastNat ==
    ASSUME NEW T, T \subseteq Nat, T # {}
    PROVE  \E n \in T : \A m \in T : n <= m
<1> DEFINE runs == {1..n : n \in T}
           R == StrictSubsetOrdering(Nat)
<1>1. runs \subseteq FiniteSubsetsOf(Nat)
  <2>1. ASSUME NEW n \in T PROVE 1..n \in FiniteSubsetsOf(Nat)
    <3>1. IsFiniteSet(1..n) BY FS_Interval
    <3>2. 1..n \subseteq Nat OBVIOUS
    <3> QED BY <3>1, <3>2 DEF FiniteSubsetsOf
  <2> QED BY <2>1
<1>2. runs # {}
  OBVIOUS
<1>3. \E x \in runs : \A y \in runs : <<y, x>> \notin R
  <2> HIDE DEF runs, R
  <2>1. IsWellFoundedOn(R, FiniteSubsetsOf(Nat))
    BY FS_StrictSubsetOrderingWellFounded DEF R
  <2> QED BY <2>1, <1>1, <1>2, WFMin
<1>4. PICK n \in T : \A y \in runs : <<y, 1..n>> \notin R
  BY <1>3
<1>5. ASSUME NEW m \in T PROVE n <= m
  <2>1. <<1..m, 1..n>> \notin R
    BY <1>4
  <2>2. SUFFICES ASSUME m < n PROVE FALSE
    OBVIOUS
  <2>3. 1..m \subseteq 1..n /\ 1..m # 1..n
    <3>1. 1..m \subseteq 1..n /\ n \in 1..n /\ n \notin 1..m BY <2>2
    <3> QED BY <3>1
  <2>4. 1..m \in SUBSET Nat /\ 1..n \in SUBSET Nat
    OBVIOUS
  <2> QED BY <2>1, <2>3, <2>4 DEF StrictSubsetOrdering
<1> QED BY <1>5

\* Induction over a set of naturals: what holds of 0 and of the successor of
\* each of its members is all of Nat.
LEMMA InductionOverNat ==
    ASSUME NEW S, 0 \in S, \A n \in Nat : n \in S => n + 1 \in S
    PROVE  Nat \subseteq S
<1> DEFINE T == Nat \ S
<1>1. SUFFICES ASSUME T # {} PROVE FALSE
  OBVIOUS
<1>2. \E n \in T : \A m \in T : n <= m
  <2>1. T \subseteq Nat OBVIOUS
  <2> HIDE DEF T
  <2> QED BY <2>1, <1>1, LeastNat
<1>3. PICK n \in T : \A m \in T : n <= m
  BY <1>2
<1>4. n # 0 /\ n - 1 \in Nat /\ n - 1 \notin T
  BY <1>3
<1>5. n - 1 \in S
  BY <1>4
<1>6. (n - 1) + 1 \in S
  BY <1>4, <1>5
<1> QED BY <1>6

-----------------------------------------------------------------------------
(* path.Match is an alignment of the pattern with the value *)

\* The places that the n-th word of the pattern may end at, once the words
\* before it may end at the places in from.
EndsFrom(p, v, n, from) ==
    UNION {{j \in i..Len(v) : Takes(p[n], v, i, j)} : i \in from}

\* f is the function that pathMatch computes, for the first k words.
IsEnds(f, p, v, k) ==
    f = [n \in 0..k |-> IF n = 0 THEN {0} ELSE EndsFrom(p, v, n, f[n - 1])]

\* The recursive function exists: a table for the first k words extends to a
\* table for one more.
LEMMA EndsExists ==
    ASSUME NEW p, NEW v
    PROVE  \A k \in Nat : \E f : IsEnds(f, p, v, k)
<1> DEFINE S == {k \in Nat : \E f : IsEnds(f, p, v, k)}
<1>1. 0 \in S
  <2> DEFINE f == [n \in 0..0 |-> {0}]
  <2>1. IsEnds(f, p, v, 0)
    <3>1. f = [n \in 0..0 |-> IF n = 0 THEN {0} ELSE EndsFrom(p, v, n, f[n - 1])]
      OBVIOUS
    <3> QED BY <3>1 DEF IsEnds
  <2> QED BY <2>1
<1>2. ASSUME NEW k \in Nat, k \in S PROVE k + 1 \in S
  <2>1. PICK f : IsEnds(f, p, v, k)
    BY <1>2
  <2> DEFINE g == [n \in 0..(k + 1) |->
                     IF n = k + 1 THEN EndsFrom(p, v, n, f[k]) ELSE f[n]]
             e(n) == IF n = 0 THEN {0} ELSE EndsFrom(p, v, n, g[n - 1])
  <2>2. ASSUME NEW n \in 0..(k + 1) PROVE g[n] = e(n)
    <3>1. CASE n = k + 1
      <4>1. n - 1 = k /\ k \in 0..(k + 1) /\ k # k + 1 BY <3>1
      <4>2. g[n - 1] = f[k] BY <4>1
      <4> QED BY <3>1, <4>1, <4>2
    <3>2. CASE n = 0
      <4>1. g[n] = f[0] BY <3>2
      <4>2. f[0] = {0} BY <2>1 DEF IsEnds
      <4> QED BY <3>2, <4>1, <4>2
    <3>3. CASE n # k + 1 /\ n # 0
      <4>1. n \in 0..k /\ n - 1 \in 0..k BY <3>3
      <4>2. g[n] = f[n] /\ g[n - 1] = f[n - 1] BY <4>1, <3>3
      <4>3. f[n] = EndsFrom(p, v, n, f[n - 1]) BY <2>1, <4>1, <3>3 DEF IsEnds
      <4> QED BY <4>2, <4>3, <3>3
    <3> QED BY <3>1, <3>2, <3>3
  <2>3. g = [n \in 0..(k + 1) |-> e(n)]
    <3>1. g = [n \in 0..(k + 1) |-> g[n]] OBVIOUS
    <3> HIDE DEF g, e
    <3> QED BY <3>1, <2>2
  <2>4. IsEnds(g, p, v, k + 1)
    BY <2>3 DEF IsEnds
  <2> QED BY <2>4
<1>3. Nat \subseteq S
  <2> HIDE DEF S
  <2> QED BY <1>1, <1>2, InductionOverNat
<1> QED BY <1>3

LEMMA PathMatchEnds ==
    ASSUME NEW p, NEW v, Len(p) \in Nat
    PROVE  \E f : IsEnds(f, p, v, Len(p)) /\ (pathMatch(p, v) <=> Len(v) \in f[Len(p)])
<1> DEFINE ends == CHOOSE f : f = [n \in 0..Len(p) |->
                     IF n = 0 THEN {0}
                     ELSE UNION {{j \in i..Len(v) : Takes(p[n], v, i, j)} :
                                    i \in f[n - 1]}]
<1>1. \E f : IsEnds(f, p, v, Len(p))
  BY EndsExists
<1>2. IsEnds(ends, p, v, Len(p))
  BY <1>1 DEF IsEnds, EndsFrom
<1>3. pathMatch(p, v) <=> Len(v) \in ends[Len(p)]
  BY DEF pathMatch
<1> HIDE DEF ends
<1> QED BY <1>2, <1>3

\* cut divides a beginning of v among the first k words of p: the n-th word
\* takes what lies between cut[n - 1] and cut[n].
Aligned(cut, p, v, k) ==
    /\ cut \in [0..k -> Nat] /\ cut[0] = 0
    /\ \A n \in 1..k : cut[n] \in cut[n - 1]..Len(v) /\ Takes(p[n], v, cut[n - 1], cut[n])

\* The first k words of p take the first j of v.
CutAt(p, v, k, j) == \E cut : Aligned(cut, p, v, k) /\ cut[k] = j

LEMMA EndsAreCuts ==
    ASSUME NEW p, NEW v, Len(v) \in Nat, NEW k \in Nat,
           NEW f, IsEnds(f, p, v, k)
    PROVE  \A n \in 0..k : \A j : j \in f[n] <=> CutAt(p, v, n, j)
<1> DEFINE S == {n \in Nat : n \in 0..k => \A j : j \in f[n] <=> CutAt(p, v, n, j)}
<1>1. 0 \in S
  <2>1. f[0] = {0}
    BY DEF IsEnds
  <2>2. ASSUME NEW j, j \in f[0] PROVE \E cut : Aligned(cut, p, v, 0) /\ cut[0] = j
    <3> DEFINE cut == [n \in 0..0 |-> 0]
    <3>1. Aligned(cut, p, v, 0) BY DEF Aligned
    <3> QED BY <3>1, <2>1, <2>2
  <2>3. ASSUME NEW cut, Aligned(cut, p, v, 0) PROVE cut[0] \in f[0]
    BY <2>1, <2>3 DEF Aligned
  <2> QED BY <2>2, <2>3 DEF CutAt
<1>2. ASSUME NEW n \in Nat, n \in S PROVE n + 1 \in S
  <2>1. SUFFICES ASSUME n + 1 \in 0..k, NEW j
                 PROVE  j \in f[n + 1] <=> CutAt(p, v, n + 1, j)
    OBVIOUS
  <2>2. n \in 0..k /\ \A i : i \in f[n] <=> \E cut : Aligned(cut, p, v, n) /\ cut[n] = i
    BY <1>2, <2>1 DEF CutAt
  <2>3. f[n + 1] = EndsFrom(p, v, n + 1, f[n])
    <3>1. n + 1 # 0 /\ (n + 1) - 1 = n OBVIOUS
    <3> QED BY <3>1, <2>1 DEF IsEnds
  <2>4. ASSUME j \in f[n + 1]
        PROVE  \E cut : Aligned(cut, p, v, n + 1) /\ cut[n + 1] = j
    <3>1. PICK i \in f[n] : j \in i..Len(v) /\ Takes(p[n + 1], v, i, j)
      BY <2>3, <2>4 DEF EndsFrom
    <3>2. PICK cut : Aligned(cut, p, v, n) /\ cut[n] = i
      BY <2>2
    <3> DEFINE longer == [m \in 0..(n + 1) |-> IF m = n + 1 THEN j ELSE cut[m]]
    <3>3. i \in Nat /\ j \in Nat
      BY <3>1, <3>2 DEF Aligned
    <3>4. longer \in [0..(n + 1) -> Nat] /\ longer[0] = 0
      BY <3>2, <3>3 DEF Aligned
    <3>5. ASSUME NEW m \in 1..(n + 1)
          PROVE  /\ longer[m] \in longer[m - 1]..Len(v)
                 /\ Takes(p[m], v, longer[m - 1], longer[m])
      <4>1. CASE m = n + 1
        <5>1. longer[m] = j /\ longer[m - 1] = i BY <4>1, <3>2
        <5> QED BY <5>1, <4>1, <3>1
      <4>2. CASE m # n + 1
        <5>1. m \in 1..n BY <4>2
        <5>2. longer[m] = cut[m] /\ longer[m - 1] = cut[m - 1] BY <4>2, <5>1
        <5> QED BY <5>1, <5>2, <3>2 DEF Aligned
      <4> QED BY <4>1, <4>2
    <3>6. longer[n + 1] = j
      OBVIOUS
    <3>7. Aligned(longer, p, v, n + 1)
      <4> HIDE DEF longer
      <4> QED BY <3>4, <3>5 DEF Aligned
    <3> QED BY <3>6, <3>7
  <2>5. ASSUME NEW cut, Aligned(cut, p, v, n + 1), cut[n + 1] = j
        PROVE  j \in f[n + 1]
    <3> DEFINE shorter == [m \in 0..n |-> cut[m]]
    <3>1. Aligned(shorter, p, v, n) /\ shorter[n] = cut[n]
      BY <2>5 DEF Aligned
    <3>2. cut[n] \in f[n]
      <4> HIDE DEF shorter
      <4> QED BY <3>1, <2>2
    <3>3. n + 1 \in 1..(n + 1) /\ (n + 1) - 1 = n
      OBVIOUS
    <3>4. j \in cut[n]..Len(v) /\ Takes(p[n + 1], v, cut[n], j)
      BY <2>5, <3>3 DEF Aligned
    <3> QED BY <3>2, <3>4, <2>3 DEF EndsFrom
  <2> QED BY <2>4, <2>5 DEF CutAt
<1>3. Nat \subseteq S
  <2> HIDE DEF S
  <2> QED BY <1>1, <1>2, InductionOverNat
<1> QED BY <1>3

\* path.Match, for every pattern and every value: the value can be cut into as
\* many runs of words as the pattern has words, each taken by its word.  The
\* recursive function of the model finds such a cut exactly when there is one.
THEOREM MatchIsAlignment ==
    ASSUME NEW p, NEW v, Len(p) \in Nat, Len(v) \in Nat
    PROVE  pathMatch(p, v) <=> CutAt(p, v, Len(p), Len(v))
<1>1. PICK f : IsEnds(f, p, v, Len(p)) /\ (pathMatch(p, v) <=> Len(v) \in f[Len(p)])
  BY PathMatchEnds
<1>2. \A n \in 0..Len(p) : \A j : j \in f[n] <=> CutAt(p, v, n, j)
  BY <1>1, EndsAreCuts
<1>3. Len(p) \in 0..Len(p)
  OBVIOUS
<1> QED BY <1>1, <1>2, <1>3

-----------------------------------------------------------------------------
(* The patterns of the default rules *)

\* A pattern without Star matches itself alone.
LEMMA LiteralPattern ==
    ASSUME NEW W, NEW p \in Seq(W), NEW v \in Seq(W), \A n \in 1..Len(p) : p[n] # Star
    PROVE  pathMatch(p, v) <=> v = p
<1>1. Len(p) \in Nat /\ Len(v) \in Nat
  OBVIOUS
<1>2. ASSUME pathMatch(p, v) PROVE v = p
  <2>1. PICK cut : Aligned(cut, p, v, Len(p)) /\ cut[Len(p)] = Len(v)
    BY <1>1, <1>2, MatchIsAlignment DEF CutAt
  <2> DEFINE S == {n \in Nat : n \in 0..Len(p) =>
                     cut[n] = n /\ \A m \in 1..n : v[m] = p[m]}
  <2>2. 0 \in S
    BY <2>1 DEF Aligned
  <2>3. ASSUME NEW n \in Nat, n \in S PROVE n + 1 \in S
    <3>1. SUFFICES ASSUME n + 1 \in 0..Len(p)
                   PROVE  cut[n + 1] = n + 1 /\ \A m \in 1..(n + 1) : v[m] = p[m]
      OBVIOUS
    <3>2. cut[n] = n /\ \A m \in 1..n : v[m] = p[m]
      BY <3>1, <2>3
    <3>3. n + 1 \in 1..Len(p) /\ (n + 1) - 1 = n
      BY <3>1
    <3>4. Takes(p[n + 1], v, n, cut[n + 1])
      BY <2>1, <3>2, <3>3 DEF Aligned
    <3>5. cut[n + 1] = n + 1 /\ v[n + 1] = p[n + 1]
      BY <3>3, <3>4 DEF Takes
    <3> QED BY <3>2, <3>5
  <2>4. Nat \subseteq S
    <3> HIDE DEF S
    <3> QED BY <2>2, <2>3, InductionOverNat
  <2>5. cut[Len(p)] = Len(p) /\ \A m \in 1..Len(p) : v[m] = p[m]
    BY <2>4, <1>1
  <2>6. Len(v) = Len(p) /\ \A m \in 1..Len(p) : v[m] = p[m]
    BY <2>1, <2>5
  <2>7. p = [m \in 1..Len(p) |-> p[m]] /\ v = [m \in 1..Len(v) |-> v[m]]
    OBVIOUS
  <2> QED BY <2>6, <2>7
<1>3. ASSUME v = p PROVE pathMatch(p, v)
  <2> DEFINE cut == [n \in 0..Len(p) |-> n]
  <2>1. Aligned(cut, p, v, Len(p)) /\ cut[Len(p)] = Len(v)
    BY <1>1, <1>3 DEF Aligned, Takes
  <2> QED BY <2>1, <1>1, MatchIsAlignment DEF CutAt
<1> QED BY <1>2, <1>3

\* A pattern that ends in a word other than Star: so does the value.
LEMMA LastWord ==
    ASSUME NEW p, NEW v, Len(p) \in Nat \ {0}, Len(v) \in Nat,
           p[Len(p)] # Star, pathMatch(p, v)
    PROVE  Len(v) > 0 /\ v[Len(v)] = p[Len(p)]
<1>1. PICK cut : Aligned(cut, p, v, Len(p)) /\ cut[Len(p)] = Len(v)
  BY MatchIsAlignment DEF CutAt
<1>2. Len(p) \in 1..Len(p) /\ Len(p) - 1 \in 0..Len(p)
  OBVIOUS
<1>3. cut[Len(p) - 1] \in Nat /\ Takes(p[Len(p)], v, cut[Len(p) - 1], Len(v))
  BY <1>1, <1>2 DEF Aligned
<1> QED BY <1>3 DEF Takes

\* payment:* matches what begins with payment: and holds no slash after it.
LEMMA PaymentPattern ==
    ASSUME NEW s, Len(s) \in Nat
    PROVE  pathMatch(<<"payment", ":", Star>>, s) <=>
             /\ Len(s) > 1 /\ s[1] = "payment" /\ s[2] = ":"
             /\ \A k \in 3..Len(s) : s[k] # "/"
<1> DEFINE p == <<"payment", ":", Star>>
<1>1. Len(p) = 3 /\ p[1] = "payment" /\ p[2] = ":" /\ p[3] = Star
  OBVIOUS
<1>2. "payment" # Star /\ ":" # Star
  BY DEF Star
<1> HIDE DEF p
<1>3. pathMatch(p, s) <=> CutAt(p, s, 3, Len(s))
  <2>1. Len(p) \in Nat BY <1>1
  <2>2. pathMatch(p, s) <=> CutAt(p, s, Len(p), Len(s)) BY <2>1, MatchIsAlignment
  <2> QED BY <2>2, <1>1
<1>4. ASSUME NEW cut, Aligned(cut, p, s, 3), cut[3] = Len(s)
      PROVE  /\ Len(s) > 1 /\ s[1] = "payment" /\ s[2] = ":"
             /\ \A k \in 3..Len(s) : s[k] # "/"
  <2>1. cut[0] = 0 /\ Takes(p[1], s, cut[0], cut[1]) /\ Takes(p[2], s, cut[1], cut[2])
        /\ Takes(p[3], s, cut[2], cut[3])
    BY <1>4 DEF Aligned
  <2>2. cut[1] = 1 /\ s[1] = "payment"
    BY <2>1, <1>1, <1>2 DEF Takes
  <2>3. cut[2] = 2 /\ s[2] = ":"
    BY <2>1, <2>2, <1>1, <1>2 DEF Takes
  <2> QED BY <2>1, <2>2, <2>3, <1>1, <1>4 DEF Takes
<1>5. ASSUME Len(s) > 1, s[1] = "payment", s[2] = ":", \A k \in 3..Len(s) : s[k] # "/"
      PROVE  CutAt(p, s, 3, Len(s))
  <2> DEFINE cut == [n \in 0..3 |-> IF n = 3 THEN Len(s) ELSE n]
  <2>1. cut \in [0..3 -> Nat] /\ cut[0] = 0 /\ cut[1] = 1 /\ cut[2] = 2 /\ cut[3] = Len(s)
    OBVIOUS
  <2> HIDE DEF cut
  <2>2. Takes(p[1], s, 0, 1) /\ Takes(p[2], s, 1, 2) /\ Takes(p[3], s, 2, Len(s))
    BY <1>1, <1>2, <1>5 DEF Takes
  <2>3. \A n \in 1..3 : n = 1 \/ n = 2 \/ n = 3
    OBVIOUS
  <2>4. Aligned(cut, p, s, 3)
    BY <2>1, <2>2, <2>3, <1>5 DEF Aligned
  <2> QED BY <2>1, <2>4 DEF CutAt
<1> QED BY <1>3, <1>4, <1>5 DEF p, CutAt

\* A scope that ends in :read and holds no slash.
SlashlessRead(s) ==
    Len(s) > 1 /\ s[Len(s) - 1] = ":" /\ s[Len(s)] = "read" /\ \A k \in 1..Len(s) : s[k] # "/"

\* *:read matches exactly those.
LEMMA ReadPattern ==
    ASSUME NEW s, Len(s) \in Nat
    PROVE  pathMatch(<<Star, ":", "read">>, s) <=> SlashlessRead(s)
<1> DEFINE p == <<Star, ":", "read">>
<1>1. Len(p) = 3 /\ p[1] = Star /\ p[2] = ":" /\ p[3] = "read"
  OBVIOUS
<1>2. "read" # Star /\ ":" # Star /\ ":" # "/" /\ "read" # "/"
  BY DEF Star
<1> HIDE DEF p
<1>3. pathMatch(p, s) <=> CutAt(p, s, 3, Len(s))
  <2>1. Len(p) \in Nat BY <1>1
  <2>2. pathMatch(p, s) <=> CutAt(p, s, Len(p), Len(s)) BY <2>1, MatchIsAlignment
  <2> QED BY <2>2, <1>1
<1>4. ASSUME NEW cut, Aligned(cut, p, s, 3), cut[3] = Len(s)
      PROVE  SlashlessRead(s)
  <2>1. /\ cut[0] = 0 /\ cut[1] \in Nat /\ cut[2] \in Nat
        /\ Takes(p[1], s, cut[0], cut[1]) /\ Takes(p[2], s, cut[1], cut[2])
        /\ Takes(p[3], s, cut[2], cut[3])
    BY <1>4 DEF Aligned
  <2>2. \A k \in 1..cut[1] : s[k] # "/"
    BY <2>1, <1>1 DEF Takes
  <2>3. cut[2] = cut[1] + 1 /\ s[cut[2]] = ":" /\ Len(s) = cut[2] + 1 /\ s[Len(s)] = "read"
    BY <2>1, <1>1, <1>2, <1>4 DEF Takes
  <2>4. Len(s) > 1 /\ Len(s) - 1 = cut[2]
    BY <2>1, <2>3
  <2>5. ASSUME NEW k \in 1..Len(s) PROVE s[k] # "/"
    <3>1. k \in 1..cut[1] \/ k = cut[2] \/ k = Len(s) BY <2>1, <2>3
    <3> QED BY <3>1, <2>2, <2>3, <1>2
  <2> QED BY <2>3, <2>4, <2>5 DEF SlashlessRead
<1>5. ASSUME SlashlessRead(s) PROVE CutAt(p, s, 3, Len(s))
  <2> DEFINE cut == [n \in 0..3 |-> IF n = 0 THEN 0 ELSE Len(s) + n - 3]
  <2>1. /\ cut \in [0..3 -> Nat] /\ cut[0] = 0 /\ cut[1] = Len(s) - 2
        /\ cut[2] = Len(s) - 1 /\ cut[3] = Len(s)
    BY <1>5 DEF SlashlessRead
  <2> HIDE DEF cut
  <2>2. /\ Takes(p[1], s, 0, Len(s) - 2) /\ Takes(p[2], s, Len(s) - 2, Len(s) - 1)
        /\ Takes(p[3], s, Len(s) - 1, Len(s))
    BY <1>1, <1>2, <1>5 DEF Takes, SlashlessRead
  <2>3. \A n \in 1..3 : n = 1 \/ n = 2 \/ n = 3
    OBVIOUS
  <2>4. Aligned(cut, p, s, 3)
    BY <2>1, <2>2, <2>3, <1>5 DEF Aligned, SlashlessRead
  <2> QED BY <2>1, <2>4 DEF CutAt
<1> QED BY <1>3, <1>4, <1>5 DEF p, CutAt

\* *:*:read matches nothing more.
LEMMA LongReadPattern ==
    ASSUME NEW s, Len(s) \in Nat, pathMatch(<<Star, ":", Star, ":", "read">>, s)
    PROVE  SlashlessRead(s)
<1> DEFINE p == <<Star, ":", Star, ":", "read">>
<1>1. Len(p) = 5 /\ p[1] = Star /\ p[2] = ":" /\ p[3] = Star /\ p[4] = ":" /\ p[5] = "read"
  OBVIOUS
<1>2. "read" # Star /\ ":" # Star /\ ":" # "/" /\ "read" # "/"
  BY DEF Star
<1>3. pathMatch(p, s)
  OBVIOUS
<1> HIDE DEF p
<1>4. PICK cut : Aligned(cut, p, s, 5) /\ cut[5] = Len(s)
  <2>1. Len(p) \in Nat BY <1>1
  <2>2. CutAt(p, s, Len(p), Len(s)) BY <2>1, <1>3, MatchIsAlignment
  <2> QED BY <2>2, <1>1 DEF CutAt
<1>5. /\ cut[0] = 0
      /\ cut[1] \in Nat /\ cut[2] \in Nat /\ cut[3] \in Nat /\ cut[4] \in Nat
      /\ Takes(p[1], s, cut[0], cut[1]) /\ Takes(p[2], s, cut[1], cut[2])
      /\ Takes(p[3], s, cut[2], cut[3]) /\ Takes(p[4], s, cut[3], cut[4])
      /\ Takes(p[5], s, cut[4], cut[5])
  BY <1>4 DEF Aligned
<1>6. /\ \A k \in 1..cut[1] : s[k] # "/"
      /\ cut[2] = cut[1] + 1 /\ s[cut[2]] = ":"
  BY <1>5, <1>1, <1>2 DEF Takes
<1>7. /\ cut[2] <= cut[3] /\ \A k \in (cut[2] + 1)..cut[3] : s[k] # "/"
      /\ cut[4] = cut[3] + 1 /\ s[cut[4]] = ":"
  BY <1>5, <1>1, <1>2 DEF Takes
<1>8. Len(s) = cut[4] + 1 /\ s[Len(s)] = "read"
  BY <1>5, <1>1, <1>2, <1>4 DEF Takes
<1>9. ASSUME NEW k \in 1..Len(s) PROVE s[k] # "/"
  <2>1. PICK a \in Nat, b \in Nat : a = cut[1] /\ b = cut[3]
    BY <1>5
  <2>2. cut[2] = a + 1 /\ cut[4] = b + 1 /\ Len(s) = b + 2 /\ a + 1 <= b
    BY <2>1, <1>6, <1>7, <1>8
  <2>3. k \in 1..a \/ k = a + 1 \/ k \in (a + 2)..b \/ k = b + 1 \/ k = b + 2
    BY <2>2
  <2>4. \/ k \in 1..cut[1] \/ k = cut[2] \/ k \in (cut[2] + 1)..cut[3]
        \/ k = cut[4] \/ k = Len(s)
    BY <2>1, <2>2, <2>3
  <2> QED BY <2>4, <1>6, <1>7, <1>8, <1>2
<1>10. Len(s) > 1 /\ Len(s) - 1 = cut[4]
  BY <1>5, <1>6, <1>7, <1>8
<1> QED BY <1>7, <1>8, <1>9, <1>10 DEF SlashlessRead

\* The words of an identity.
LEMMA SvidWords ==
    ASSUME NEW W, NEW path \in Seq(W)
    PROVE  /\ Len(svidOf(path)) = 4 + 2 * Len(path)
           /\ svidOf(path)[1] = "spiffe:" /\ svidOf(path)[2] = "/"
           /\ svidOf(path)[3] = "/" /\ svidOf(path)[4] = "mesh"
           /\ Len(path) > 0 => svidOf(path)[5] = "/" /\ svidOf(path)[6] = path[1]
           /\ Len(path) > 1 => svidOf(path)[7] = "/" /\ svidOf(path)[8] = path[2]
           /\ Len(path) > 2 => svidOf(path)[9] = "/"
<1> DEFINE head == <<"spiffe:", "/", "/", "mesh">>
           words == [n \in 1..(2 * Len(path)) |-> IF n % 2 = 1 THEN "/" ELSE path[n \div 2]]
           V == W \cup {"spiffe:", "/", "mesh"}
<1>1. svidOf(path) = head \o words
  BY DEF svidOf
<1>2. words \in Seq(V)
  <2>1. \A n \in 1..(2 * Len(path)) : n % 2 = 1 \/ n \div 2 \in 1..Len(path)
    OBVIOUS
  <2>2. \A n \in 1..(2 * Len(path)) :
          (IF n % 2 = 1 THEN "/" ELSE path[n \div 2]) \in V
    BY <2>1
  <2>3. 2 * Len(path) \in Nat
    OBVIOUS
  <2> QED BY <2>2, <2>3
<1>3. head \in Seq(V) /\ Len(head) = 4 /\ Len(words) = 2 * Len(path)
  OBVIOUS
<1>4. /\ head[1] = "spiffe:" /\ head[2] = "/" /\ head[3] = "/" /\ head[4] = "mesh"
  OBVIOUS
<1>5. /\ Len(path) > 0 => words[1] = "/" /\ words[2] = path[1]
      /\ Len(path) > 1 => words[3] = "/" /\ words[4] = path[2]
      /\ Len(path) > 2 => words[5] = "/"
  <2>1. 1 % 2 = 1 /\ 2 % 2 = 0 /\ 3 % 2 = 1 /\ 4 % 2 = 0 /\ 5 % 2 = 1
        /\ 2 \div 2 = 1 /\ 4 \div 2 = 2
    OBVIOUS
  <2> QED BY <2>1
<1> HIDE DEF head, words, V
<1>6. Len(head \o words) = 4 + 2 * Len(path)
  <2>1. Len(head \o words) = Len(head) + Len(words)
    BY <1>2, <1>3, ConcatProperties
  <2> QED BY <2>1, <1>3
<1>7. \A n \in 1..(4 + 2 * Len(path)) :
        (head \o words)[n] = IF n <= 4 THEN head[n] ELSE words[n - 4]
  BY <1>2, <1>3, <1>6, ConcatProperties
<1>8. Len(path) \in Nat
  OBVIOUS
<1>9. ASSUME NEW n \in 1..(4 + 2 * Len(path))
      PROVE  svidOf(path)[n] = IF n <= 4 THEN head[n] ELSE words[n - 4]
  <2>1. svidOf(path)[n] = (head \o words)[n] BY <1>1, Zenon
  <2>2. (head \o words)[n] = IF n <= 4 THEN head[n] ELSE words[n - 4] BY <1>7, Zenon
  <2> QED BY <2>1, <2>2, Zenon
<1>10. /\ svidOf(path)[1] = head[1] /\ svidOf(path)[2] = head[2]
       /\ svidOf(path)[3] = head[3] /\ svidOf(path)[4] = head[4]
  BY <1>8, <1>9
<1>11. ASSUME Len(path) > 0
       PROVE  svidOf(path)[5] = words[1] /\ svidOf(path)[6] = words[2]
  <2>1. 5 \in 1..(4 + 2 * Len(path)) /\ 6 \in 1..(4 + 2 * Len(path))
    BY <1>8, <1>11
  <2>2. ~(5 <= 4) /\ ~(6 <= 4) /\ 5 - 4 = 1 /\ 6 - 4 = 2
    OBVIOUS
  <2> QED BY <2>1, <2>2, <1>9
<1>12. ASSUME Len(path) > 1
       PROVE  svidOf(path)[7] = words[3] /\ svidOf(path)[8] = words[4]
  <2>1. 7 \in 1..(4 + 2 * Len(path)) /\ 8 \in 1..(4 + 2 * Len(path))
    BY <1>8, <1>12
  <2>2. ~(7 <= 4) /\ ~(8 <= 4) /\ 7 - 4 = 3 /\ 8 - 4 = 4
    OBVIOUS
  <2> QED BY <2>1, <2>2, <1>9
<1>13. ASSUME Len(path) > 2 PROVE svidOf(path)[9] = words[5]
  <2>1. 9 \in 1..(4 + 2 * Len(path)) /\ ~(9 <= 4) /\ 9 - 4 = 5
    BY <1>8, <1>13
  <2> QED BY <2>1, <1>9
<1> QED BY <1>1, <1>4, <1>5, <1>6, <1>10, <1>11, <1>12, <1>13

\* spiffe://*/role/* matches the identities one level below the role.
LEMMA UnderPattern ==
    ASSUME NEW W, NEW path \in Seq(W), \A n \in 1..Len(path) : path[n] # "/",
           NEW role, role # Star, role # "/"
    PROVE  matchPattern(Under(role), svidOf(path)) <=> Len(path) = 2 /\ path[1] = role
<1> DEFINE p == Under(role)
           v == svidOf(path)
<1>1. /\ Len(p) = 8 /\ p[1] = "spiffe:" /\ p[2] = "/" /\ p[3] = "/" /\ p[4] = Star
      /\ p[5] = "/" /\ p[6] = role /\ p[7] = "/" /\ p[8] = Star
  BY DEF Under
<1>2. "spiffe:" # Star /\ "/" # Star /\ "mesh" # "/"
  BY DEF Star
<1>3. /\ Len(path) \in Nat /\ Len(v) = 4 + 2 * Len(path)
      /\ v[1] = "spiffe:" /\ v[2] = "/" /\ v[3] = "/" /\ v[4] = "mesh"
      /\ Len(path) > 0 => v[5] = "/" /\ v[6] = path[1]
      /\ Len(path) > 1 => v[7] = "/" /\ v[8] = path[2]
      /\ Len(path) > 2 => v[9] = "/"
  BY SvidWords
<1> HIDE DEF p, v
<1>4. matchPattern(p, v) <=> CutAt(p, v, 8, Len(v))
  <2>1. Len(p) \in Nat /\ Len(v) \in Nat BY <1>1, <1>3
  <2>2. pathMatch(p, v) <=> CutAt(p, v, Len(p), Len(v)) BY <2>1, MatchIsAlignment
  <2>3. p # <<Star>> BY <1>1
  <2> QED BY <2>2, <2>3, <1>1 DEF matchPattern
<1>5. ASSUME CutAt(p, v, 8, Len(v)) PROVE Len(path) = 2 /\ path[1] = role
  <2>1. PICK cut : Aligned(cut, p, v, 8) /\ cut[8] = Len(v)
    BY <1>5 DEF CutAt
  <2>2. \A n \in 0..8 : cut[n] \in Nat
    BY <2>1 DEF Aligned
  <2>3. ASSUME NEW n \in 1..8 PROVE cut[n] <= Len(v) /\ Takes(p[n], v, cut[n - 1], cut[n])
    BY <2>1, <2>2, <1>3 DEF Aligned
  <2>4. cut[3] = 3
    <3>1. cut[0] = 0 BY <2>1 DEF Aligned
    <3>2. Takes(p[1], v, cut[0], cut[1]) BY <2>3
    <3>3. cut[1] = 1 BY <3>1, <3>2, <1>1, <1>2 DEF Takes
    <3>4. Takes(p[2], v, cut[1], cut[2]) BY <2>3
    <3>5. cut[2] = 2 BY <3>3, <3>4, <1>1, <1>2 DEF Takes
    <3>6. Takes(p[3], v, cut[2], cut[3]) BY <2>3
    <3> QED BY <3>5, <3>6, <1>1, <1>2 DEF Takes
  <2>5. cut[4] = 4 /\ cut[5] = 5 /\ Len(path) > 0
    <3>1. Takes(p[4], v, 3, cut[4]) /\ Takes(p[5], v, cut[4], cut[5])
          /\ cut[4] \in Nat /\ cut[5] \in Nat /\ cut[5] <= Len(v)
      BY <2>2, <2>3, <2>4
    <3>2. 3 <= cut[4] /\ \A k \in 4..cut[4] : v[k] # "/"
      BY <3>1, <1>1 DEF Takes
    <3>3. cut[5] = cut[4] + 1 /\ v[cut[5]] = "/"
      BY <3>1, <1>1, <1>2 DEF Takes
    <3>4. cut[4] # 3
      BY <3>3, <1>2, <1>3
    <3>5. Len(path) > 0
      BY <3>1, <3>2, <3>3, <3>4, <1>3
    <3>6. cut[4] < 5
      BY <3>1, <3>2, <3>5, <1>3
    <3> QED BY <3>1, <3>2, <3>3, <3>4, <3>5, <3>6
  <2>6. cut[6] = 6 /\ path[1] = role
    <3>1. Takes(p[6], v, 5, cut[6]) BY <2>3, <2>5
    <3>2. cut[6] = 6 /\ v[6] = role BY <3>1, <1>1 DEF Takes
    <3> QED BY <3>2, <2>5, <1>3
  <2>7. cut[7] = 7 /\ Len(path) > 1
    <3>1. Takes(p[7], v, 6, cut[7]) /\ cut[7] <= Len(v) BY <2>3, <2>6
    <3>2. cut[7] = 7 BY <3>1, <1>1, <1>2 DEF Takes
    <3> QED BY <3>1, <3>2, <1>3
  <2>8. \A k \in 8..Len(v) : v[k] # "/"
    <3>1. Takes(p[8], v, 7, Len(v)) BY <2>1, <2>3, <2>7
    <3> QED BY <3>1, <1>1 DEF Takes
  <2>9. Len(path) <= 2
    BY <2>8, <1>3
  <2>10. Len(path) = 2
    <3>1. PICK n \in Nat : n = Len(path) BY <1>3
    <3>2. n = 2 BY <2>7, <2>9, <3>1
    <3> QED BY <3>1, <3>2
  <2> QED BY <2>6, <2>10
<1>6. ASSUME Len(path) = 2, path[1] = role PROVE CutAt(p, v, 8, Len(v))
  <2> DEFINE cut == [n \in 0..8 |-> n]
  <2>1. path[2] # "/" /\ Len(v) = 8
    BY <1>3, <1>6
  <2>2. ASSUME NEW n \in 1..8 PROVE n \in (n - 1)..8 /\ Takes(p[n], v, n - 1, n)
    <3>1. n = 1 \/ n = 2 \/ n = 3 \/ n = 4 \/ n = 5 \/ n = 6 \/ n = 7 \/ n = 8
      OBVIOUS
    <3>2. /\ Takes(p[1], v, 0, 1) /\ Takes(p[2], v, 1, 2) /\ Takes(p[3], v, 2, 3)
          /\ Takes(p[4], v, 3, 4)
      BY <1>1, <1>2, <1>3 DEF Takes
    <3>3. /\ Takes(p[5], v, 4, 5) /\ Takes(p[6], v, 5, 6) /\ Takes(p[7], v, 6, 7)
          /\ Takes(p[8], v, 7, 8)
      BY <1>1, <1>2, <1>3, <1>6, <2>1 DEF Takes
    <3> QED BY <3>1, <3>2, <3>3
  <2>3. cut[8] = Len(v) /\ cut \in [0..8 -> Nat] /\ cut[0] = 0
        /\ \A n \in 1..8 : cut[n] = n /\ cut[n - 1] = n - 1
    BY <2>1
  <2> HIDE DEF cut
  <2>4. Aligned(cut, p, v, 8)
    BY <2>1, <2>2, <2>3 DEF Aligned
  <2> QED BY <2>3, <2>4 DEF CutAt
<1> QED BY <1>4, <1>5, <1>6 DEF p, v

-----------------------------------------------------------------------------
(* The first rule that matches *)

\* evaluateTier is the tier of the least rule that matches.
LEMMA FirstMatch ==
    ASSUME NEW rules, Len(rules) \in Nat, DOMAIN rules = 1..Len(rules), NEW svid, NEW scope,
           \E n \in DOMAIN rules : /\ matchPattern(rules[n].agent, svid)
                                   /\ matchPattern(rules[n].scope, scope)
    PROVE  \E i \in DOMAIN rules :
             /\ evaluateTier(rules, svid, scope) = rules[i].tier
             /\ matchPattern(rules[i].agent, svid) /\ matchPattern(rules[i].scope, scope)
             /\ \A j \in DOMAIN rules :
                  matchPattern(rules[j].agent, svid) /\ matchPattern(rules[j].scope, scope)
                  => i <= j
<1> DEFINE matching == {i \in DOMAIN rules : /\ matchPattern(rules[i].agent, svid)
                                             /\ matchPattern(rules[i].scope, scope)}
           first == CHOOSE i \in matching : \A j \in matching : i <= j
<1>1. matching # {} /\ matching \subseteq Nat
  OBVIOUS
<1>2. \E i \in matching : \A j \in matching : i <= j
  <2> HIDE DEF matching
  <2> QED BY <1>1, LeastNat
<1>3. first \in matching /\ \A j \in matching : first <= j
  <2> HIDE DEF matching
  <2> QED BY <1>2
<1>4. evaluateTier(rules, svid, scope) = rules[first].tier
  BY <1>1 DEF evaluateTier
<1> HIDE DEF first
<1> QED BY <1>3, <1>4

\* What the patterns of the default rules do, which is less than their comments
\* say: MFA is asked of exactly the identities one level below <domain>/admin, and
\* approved without a human is exactly a slashless read that does not begin with
\* payment:, or the payment of 50, of an identity that is one level below neither
\* admin nor ci.
TierAsMatched(path, scope) ==
    LET tier == evaluateTier(DefaultPolicyRules, svidOf(path), scope)
    IN  /\ (tier = TierMFA) <=> Directly(path, "admin")
        /\ (tier = TierAuto) <=>
              (/\ ~Directly(path, "admin") /\ ~Directly(path, "ci")
               /\ IsRead(scope) \/ scope = Micropayment)

\* evaluateTier (pdp.go:136) over the default rules, for identities of every
\* depth and scopes of every length: the exact conditions under which the first
\* rule that matches asks for MFA, and under which it asks for nobody.
THEOREM DefaultTiers ==
    ASSUME NEW W, NEW path \in Seq(W), \A n \in 1..Len(path) : path[n] # "/",
           NEW scope \in Seq(W)
    PROVE  TierAsMatched(path, scope)
<1> DEFINE r == DefaultPolicyRules
           v == svidOf(path)
           M(i) == matchPattern(r[i].agent, v) /\ matchPattern(r[i].scope, scope)
           below(role) == Directly(path, role)
<1>1. /\ Len(r) = 9 /\ DOMAIN r = 1..9
      /\ r[1] = Rule(Under("admin"), Anything, TierMFA)
      /\ r[2] = Rule(Under("ci"), Anything, TierHITL)
      /\ r[3] = Rule(Anything, <<"billing", ":", Star, ":", "write">>, TierHITL)
      /\ r[4] = Rule(Anything, <<"stripe", ":", Star, ":", "write">>, TierHITL)
      /\ r[5] = Rule(Anything, Micropayment, TierAuto)
      /\ r[6] = Rule(Anything, <<"payment", ":", Star>>, TierHITL)
      /\ r[7] = Rule(Anything, <<Star, ":", "read">>, TierAuto)
      /\ r[8] = Rule(Anything, <<Star, ":", Star, ":", "read">>, TierAuto)
      /\ r[9] = Rule(Anything, Anything, TierHITL)
  BY DEF DefaultPolicyRules, Micropayment
<1> HIDE DEF r, v
<1>2. Len(scope) \in Nat
  OBVIOUS
<1>3. \A x : matchPattern(Anything, x)
  BY DEF matchPattern, Anything
<1>4. M(1) <=> below("admin")
  <2>1. "admin" # Star /\ "admin" # "/" BY DEF Star
  <2>2. matchPattern(Under("admin"), v) <=> below("admin") BY <2>1, UnderPattern DEF v, Directly
  <2> QED BY <2>2, <1>1, <1>3 DEF Rule
<1>5. M(2) <=> below("ci")
  <2>1. "ci" # Star /\ "ci" # "/" BY DEF Star
  <2>2. matchPattern(Under("ci"), v) <=> below("ci") BY <2>1, UnderPattern DEF v, Directly
  <2> QED BY <2>2, <1>1, <1>3 DEF Rule
<1>6. M(3) => Len(scope) > 0 /\ scope[Len(scope)] = "write"
  <2> DEFINE p == <<"billing", ":", Star, ":", "write">>
  <2>1. Len(p) = 5 /\ p[5] = "write" /\ p # <<Star>> /\ "write" # Star BY DEF Star
  <2> HIDE DEF p
  <2>2. r[3].scope = p BY <1>1 DEF Rule, p
  <2>3. Len(p) \in Nat \ {0} /\ p[Len(p)] # Star /\ p[Len(p)] = "write" BY <2>1
  <2>4. M(3) => pathMatch(p, scope) BY <2>1, <2>2 DEF matchPattern
  <2> QED BY <2>3, <2>4, <1>2, LastWord
<1>7. M(4) => Len(scope) > 0 /\ scope[Len(scope)] = "write"
  <2> DEFINE p == <<"stripe", ":", Star, ":", "write">>
  <2>1. Len(p) = 5 /\ p[5] = "write" /\ p # <<Star>> /\ "write" # Star BY DEF Star
  <2> HIDE DEF p
  <2>2. r[4].scope = p BY <1>1 DEF Rule, p
  <2>3. Len(p) \in Nat \ {0} /\ p[Len(p)] # Star /\ p[Len(p)] = "write" BY <2>1
  <2>4. M(4) => pathMatch(p, scope) BY <2>1, <2>2 DEF matchPattern
  <2> QED BY <2>3, <2>4, <1>2, LastWord
<1>8. M(5) <=> scope = Micropayment
  <2> DEFINE V == W \cup {"payment", ":", "AGENT_CREDIT", "50"}
  <2>1. Micropayment \in Seq(V) /\ Len(Micropayment) = 5
    BY DEF Micropayment
  <2>2. \A n \in 1..Len(Micropayment) : Micropayment[n] # Star
    BY DEF Micropayment, Star
  <2>3. scope \in Seq(V)
    OBVIOUS
  <2>4. pathMatch(Micropayment, scope) <=> scope = Micropayment
    <3> HIDE DEF V
    <3> QED BY <2>1, <2>2, <2>3, LiteralPattern
  <2>5. Micropayment # <<Star>>
    BY DEF Micropayment
  <2> QED BY <2>4, <2>5, <1>1, <1>3 DEF Rule, matchPattern
<1>9. M(6) <=> /\ Len(scope) > 1 /\ scope[1] = "payment" /\ scope[2] = ":"
               /\ \A k \in 3..Len(scope) : scope[k] # "/"
  <2> DEFINE p == <<"payment", ":", Star>>
  <2>1. p # <<Star>> OBVIOUS
  <2>2. r[6].scope = p /\ r[6].agent = Anything BY <1>1 DEF Rule
  <2>3. M(6) <=> pathMatch(p, scope)
    <3> HIDE DEF p
    <3> QED BY <2>1, <2>2, <1>3 DEF matchPattern
  <2> QED BY <2>3, <1>2, PaymentPattern
<1>10. M(7) <=> SlashlessRead(scope)
  <2> DEFINE p == <<Star, ":", "read">>
  <2>1. p # <<Star>> OBVIOUS
  <2>2. r[7].scope = p /\ r[7].agent = Anything BY <1>1 DEF Rule
  <2>3. M(7) <=> pathMatch(p, scope)
    <3> HIDE DEF p
    <3> QED BY <2>1, <2>2, <1>3 DEF matchPattern
  <2> QED BY <2>3, <1>2, ReadPattern
<1>11. M(8) => SlashlessRead(scope)
  <2> DEFINE p == <<Star, ":", Star, ":", "read">>
  <2>1. p # <<Star>> OBVIOUS
  <2>2. r[8].scope = p BY <1>1 DEF Rule
  <2>3. M(8) => pathMatch(p, scope)
    <3> HIDE DEF p
    <3> QED BY <2>1, <2>2 DEF matchPattern
  <2> QED BY <2>3, <1>2, LongReadPattern
<1>12. M(9)
  BY <1>1, <1>3 DEF Rule
<1>13. PICK i \in 1..9 : /\ evaluateTier(r, v, scope) = r[i].tier
                         /\ M(i) /\ \A j \in 1..9 : M(j) => i <= j
  <2>1. Len(r) \in Nat /\ DOMAIN r = 1..Len(r) /\ 9 \in DOMAIN r
    BY <1>1
  <2>2. \E n \in DOMAIN r : matchPattern(r[n].agent, v) /\ matchPattern(r[n].scope, scope)
    BY <2>1, <1>12
  <2>3. \E i \in DOMAIN r :
          /\ evaluateTier(r, v, scope) = r[i].tier
          /\ matchPattern(r[i].agent, v) /\ matchPattern(r[i].scope, scope)
          /\ \A j \in DOMAIN r :
               matchPattern(r[j].agent, v) /\ matchPattern(r[j].scope, scope) => i <= j
    BY <2>1, <2>2, FirstMatch
  <2> QED BY <2>3, <1>1
<1>14. /\ i = 1 => r[i].tier = TierMFA
       /\ i \in {5, 7, 8} => r[i].tier = TierAuto
       /\ i \in {2, 3, 4, 6, 9} => r[i].tier = TierHITL
  BY <1>1 DEF Rule
<1>15. TierAuto # TierMFA /\ TierAuto # TierHITL /\ TierHITL # TierMFA
  BY DEF TierAuto, TierMFA, TierHITL
<1>16. i \in {1} \cup {5, 7, 8} \cup {2, 3, 4, 6, 9}
  OBVIOUS
<1>17. IsRead(scope) <=> SlashlessRead(scope) /\ ~(scope[1] = "payment" /\ scope[2] = ":")
  <2>1. DOMAIN scope = 1..Len(scope) OBVIOUS
  <2> QED BY <2>1 DEF IsRead, SlashlessRead, Holds
<1> DEFINE tier == evaluateTier(r, v, scope)
<1>18. (tier = TierMFA) <=> below("admin")
  <2>1. (tier = TierMFA) <=> i = 1 BY <1>13, <1>14, <1>15, <1>16
  <2>2. i = 1 <=> M(1) BY <1>13
  <2> QED BY <2>1, <2>2, <1>4
<1>19. (tier = TierAuto) <=> i \in {5, 7, 8}
  BY <1>13, <1>14, <1>15, <1>16
<1>20. ASSUME i \in {5, 7, 8}
       PROVE  ~below("admin") /\ ~below("ci") /\ (IsRead(scope) \/ scope = Micropayment)
  <2>1. ~M(1) /\ ~M(2)
    BY <1>13, <1>20
  <2>2. CASE i = 5
    BY <2>1, <2>2, <1>4, <1>5, <1>8, <1>13
  <2>3. CASE i \in {7, 8}
    <3>1. ~M(6) /\ (M(7) \/ M(8)) BY <2>3, <1>13
    <3>2. SlashlessRead(scope) BY <3>1, <1>10, <1>11
    <3>3. ~(scope[1] = "payment" /\ scope[2] = ":")
      BY <3>1, <3>2, <1>9 DEF SlashlessRead
    <3> QED BY <2>1, <3>2, <3>3, <1>4, <1>5, <1>17
  <2> QED BY <2>2, <2>3, <1>20
<1>21. ASSUME ~below("admin"), ~below("ci"), IsRead(scope) \/ scope = Micropayment
       PROVE  i \in {5, 7, 8}
  <2>1. i # 1 /\ i # 2
    BY <1>4, <1>5, <1>13, <1>21
  <2>2. ~M(3) /\ ~M(4)
    <3>1. IsRead(scope) => scope[Len(scope)] = "read" BY DEF IsRead
    <3>2. scope = Micropayment => scope[Len(scope)] = "50"
      <4>1. Len(Micropayment) = 5 /\ Micropayment[5] = "50" BY DEF Micropayment
      <4> QED BY <4>1
    <3> QED BY <3>1, <3>2, <1>6, <1>7, <1>21
  <2>3. i # 3 /\ i # 4
    BY <2>2, <1>13
  <2>4. CASE scope = Micropayment
    <3>1. i <= 5 BY <2>4, <1>8, <1>13
    <3> QED BY <3>1, <2>1, <2>3
  <2>5. CASE IsRead(scope)
    <3>1. M(7) /\ ~M(6) BY <2>5, <1>9, <1>10, <1>17
    <3>2. i <= 7 /\ i # 6 BY <3>1, <1>13
    <3> QED BY <3>2, <2>1, <2>3
  <2> QED BY <2>4, <2>5, <1>21
<1> QED BY <1>18, <1>19, <1>20, <1>21 DEF TierAsMatched, r, v

\* pdp.go:54, "Admin identities always require MFA", is not so: "*" in a glob
\* stops at a slash, so whoever is more than one level below <domain>/admin, or is
\* <domain>/admin itself, meets the rules for everybody.  MFA is never asked of
\* them, and what they read is approved at once.
THEOREM AdminsFallThrough ==
    ASSUME NEW W, NEW path \in Seq(W), \A n \in 1..Len(path) : path[n] # "/",
           Len(path) # 2, path[1] = "admin",
           NEW scope \in Seq(W)
    PROVE  LET tier == evaluateTier(DefaultPolicyRules, svidOf(path), scope)
           IN  tier # TierMFA /\ (IsRead(scope) => tier = TierAuto)
<1>1. TierAsMatched(path, scope)
  BY DefaultTiers
<1>2. ~Directly(path, "admin") /\ ~Directly(path, "ci")
  BY DEF Directly
<1> QED BY <1>1, <1>2 DEF TierAsMatched

\* pdp.go:61, "x402 micro-payments up to 50 credits are auto-approved", holds of
\* 50 alone: the pattern compares words, so a payment of 10 waits for a human.
THEOREM OnlyFiftyIsAuto ==
    ASSUME NEW W, NEW path \in Seq(W), \A n \in 1..Len(path) : path[n] # "/",
           NEW amount, amount # "50",
           NEW scope \in Seq(W), scope = <<"payment", ":", "AGENT_CREDIT", ":", amount>>
    PROVE  evaluateTier(DefaultPolicyRules, svidOf(path), scope) # TierAuto
<1>1. TierAsMatched(path, scope)
  BY DefaultTiers
<1>2. scope[1] = "payment" /\ scope[2] = ":" /\ scope[5] = amount
  OBVIOUS
<1>3. Micropayment[5] = "50"
  BY DEF Micropayment
<1>4. ~IsRead(scope) /\ scope # Micropayment
  BY <1>2, <1>3 DEF IsRead
<1> QED BY <1>1, <1>4 DEF TierAsMatched

\* The default rules are as strict as their comments ask, for the identities and
\* scopes that the runs enumerate.
LEMMA DefaultStrict == TiersAreStrict(DefaultPolicyRules)
<1> DEFINE P == {"admin", "ci", "svc"}
           W == Parts \cup {":", "/"}
<1>1. ASSUME NEW path \in Paths
      PROVE  path \in Seq(P) /\ \A n \in 1..Len(path) : path[n] # "/"
  <2>1. PICK n \in 0..3 : path \in [1..n -> P] BY DEF Paths
  <2>2. path \in Seq(P) BY <2>1
  <2> QED BY <2>2
<1>2. ASSUME NEW scope \in Scopes PROVE scope \in Seq(W)
  <2>0. PICK n \in 1..3 :
          \E p \in [1..n -> Parts], c \in [1..(n - 1) -> {":", "/"}] : scope = scopeOf(p, c)
    BY DEF Scopes
  <2>1. PICK p \in [1..n -> Parts], c \in [1..(n - 1) -> {":", "/"}] : scope = scopeOf(p, c)
    BY <2>0
  <2>2. Len(p) = n
    OBVIOUS
  <2>3. scope = [m \in 1..(2 * n - 1) |-> IF m % 2 = 1 THEN p[(m + 1) \div 2] ELSE c[m \div 2]]
    BY <2>1, <2>2 DEF scopeOf
  <2>4. ASSUME NEW m \in 1..(2 * n - 1)
        PROVE  (IF m % 2 = 1 THEN p[(m + 1) \div 2] ELSE c[m \div 2]) \in W
    <3>1. m % 2 = 1 => (m + 1) \div 2 \in 1..n OBVIOUS
    <3>2. m % 2 # 1 => m \div 2 \in 1..(n - 1) OBVIOUS
    <3> QED BY <3>1, <3>2
  <2>5. 2 * n - 1 \in Nat
    OBVIOUS
  <2> HIDE DEF W
  <2> QED BY <2>3, <2>4, <2>5
<1> HIDE DEF P, W
<1>3. ASSUME NEW path \in Paths, NEW scope \in Scopes
      PROVE  TierIsStrict(DefaultPolicyRules, path, scope)
  <2> DEFINE V == P \cup W
  <2>1. path \in Seq(V) /\ scope \in Seq(V) /\ \A n \in 1..Len(path) : path[n] # "/"
    BY <1>1, <1>2
  <2> HIDE DEF V
  <2>2. TierAsMatched(path, scope)
    BY <2>1, DefaultTiers
  <2>3. ~(Directly(path, "ci") /\ Directly(path, "admin"))
    BY DEF Directly
  <2> QED BY <2>2, <2>3 DEF TierAsMatched, TierIsStrict
<1> QED BY <1>3 DEF TiersAreStrict
===============================================================================
