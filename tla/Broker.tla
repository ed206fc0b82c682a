------------------------------- MODULE Broker -------------------------------
(***************************************************************************)
(* What credential brokering promises, whatever its components do inside:  *)
(* a request gets one verdict, a credential is issued for a granted        *)
(* request, and for an elevated one only if a human approved it, and a     *)
(* proof buys one call, once a credential has been issued.  Verdicts and   *)
(* calls are counted, so a second one is a step of its own: one that is    *)
(* not allowed.                                                            *)
(***************************************************************************)
EXTENDS Naturals

CONSTANTS
    ReqIds,     \* requests
    TokenIds,   \* credentials
    Jtis        \* proofs

VARIABLES
    human,          \* requests a human has approved
    verdicts,       \* the verdicts on each request, by their place in the log
    credentials,    \* credentials issued
    bought          \* how many calls each proof has bought

vars == <<human, verdicts, credentials, bought>>

Init ==
    /\ human = {}
    /\ verdicts = [r \in ReqIds |-> {}]
    /\ credentials = {}
    /\ bought = [j \in Jtis |-> 0]

HumanApproves(r) ==
    /\ verdicts[r] = {} /\ r \notin human
    /\ human' = human \cup {r}
    /\ UNCHANGED <<verdicts, credentials, bought>>

\* The first verdict on r, at some place in the log.
Rule(r, says) ==
    /\ verdicts[r] = {}
    /\ \E v \in verdicts'[r] :
          v.says = says /\ verdicts' = [verdicts EXCEPT ![r] = {v}]
    /\ UNCHANGED <<human, credentials, bought>>

Grant(r) == Rule(r, "approved")

Refuse(r) == r \notin human /\ Rule(r, "denied")

Issue(i, r, elevated) ==
    /\ \E v \in verdicts[r] : v.says = "approved"
    /\ elevated => r \in human
    /\ credentials' = credentials \cup {[id |-> i, req |-> r, elevated |-> elevated]}
    /\ UNCHANGED <<human, verdicts, bought>>

Buy(j) ==
    /\ bought[j] = 0 /\ credentials # {}
    /\ bought' = [bought EXCEPT ![j] = 1]
    /\ UNCHANGED <<human, verdicts, credentials>>

Next ==
    \/ \E r \in ReqIds : HumanApproves(r) \/ Grant(r) \/ Refuse(r)
    \/ \E i \in TokenIds, r \in ReqIds, e \in BOOLEAN : Issue(i, r, e)
    \/ \E j \in Jtis : Buy(j)

Spec == Init /\ [][Next]_vars
=============================================================================
