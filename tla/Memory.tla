------------------------------- MODULE Memory -------------------------------
(***************************************************************************)
(* memory.InMemoryStore (pkg/memory/memory.go): Write, Read and Delete     *)
(* calls in many goroutines over one list of entries per agent, and the    *)
(* audit counts beside it.                                                 *)
(*                                                                         *)
(* The lists are Go slices.  A slice is a length over a backing array that *)
(* appends share until it is full and that Delete shifts in place, under   *)
(* the lock.  Read copies the slice under the lock and walks the array     *)
(* after it has released it, so the array may change under its feet: the   *)
(* slots that Delete overwrites may become visible in any order.           *)
(***************************************************************************)
EXTENDS Integers, Sequences, FiniteSets

CONSTANTS
    Callers,    \* goroutines
    Agents,     \* agentSub values
    Ids,        \* entry identifiers
    Serials,    \* bound: as many entries are ever written
    MaxAlarms,  \* bound: rejections and integrity failures that are counted
    None        \* an unused slot

Entry == [agent : Agents, id : Ids, serial : Serials]

ASSUME MemoryAssumption ==
    IsFiniteSet(Callers) /\ MaxAlarms \in Nat /\ None \notin Entry \cup Agents

VARIABLES
    heap,       \* agent -> its backing arrays, oldest first
    entries,    \* agent -> slice: [arr, len], arr an index into heap[agent]
    audit,      \* agent -> number of records of each Op
    tampered,   \* entries whose Content no longer matches Integrity
    written,    \* serials that have been used
    pc,         \* where each goroutine stands
    agent,      \* the agent it works for
    stored,     \* Read: its copy of the slice
    results,    \* Read: what it has collected
    moved,      \* Delete: slot -> entry, for the slots it has yet to overwrite
    seen,       \* history: entries stored at some time since Read began
    lasting,    \* history: entries stored at all times since Read began
    stale       \* history: entries tampered with before Read began

store == <<heap, entries, audit, tampered, written>>
read == <<stored, results, stale>>
vars == <<store, pc, agent, read, moved, seen, lasting>>

Ops == {"write", "delete", "integrity_fail", "write_rejected"}
Nil == [arr |-> 0, len |-> 0]

\* The capacity of a backing array: nil slices have none.
Cap(a, n) == IF n = 0 THEN 0 ELSE Len(heap[a][n])

\* The entries of a slice.
Listed(a, s) == {heap[a][s.arr][i] : i \in 1..s.len}

TypeOK ==
    /\ heap \in [Agents -> Seq(Seq(Entry \cup {None}))]
    /\ entries \in [Agents -> [arr : Nat, len : Nat]]
    /\ audit \in [Agents -> [Ops -> Nat]]
    /\ tampered \subseteq Entry
    /\ written \subseteq Serials
    /\ pc \in [Callers -> {"idle", "log", "read", "alarm", "returned", "shift"}]
    /\ agent \in [Callers -> Agents \cup {None}]
    /\ stored \in [Callers -> [arr : Nat, len : Nat]]
    /\ results \in [Callers -> Seq(Entry)]
    /\ \A c \in Callers : pc[c] # "idle" => agent[c] # None
    /\ \A a \in Agents :
          /\ entries[a].arr \in 0..Len(heap[a])
          /\ entries[a].len <= Cap(a, entries[a].arr)
          /\ Listed(a, entries[a]) \subseteq Entry

Init ==
    /\ heap = [a \in Agents |-> <<>>]
    /\ entries = [a \in Agents |-> Nil]
    /\ audit = [a \in Agents |-> [o \in Ops |-> 0]]
    /\ tampered = {} /\ written = {}
    /\ pc = [c \in Callers |-> "idle"]
    /\ agent = [c \in Callers |-> None]
    /\ stored = [c \in Callers |-> Nil]
    /\ results = [c \in Callers |-> <<>>]
    /\ moved = [c \in Callers |-> <<>>]
    /\ seen = [c \in Callers |-> {}]
    /\ lasting = [c \in Callers |-> {}]
    /\ stale = [c \in Callers |-> {}]

-----------------------------------------------------------------------------
(* Helpers *)

Goto(c, from, to) == pc[c] = from /\ pc' = [pc EXCEPT ![c] = to]

\* Mutant of Free: the mutex keeps nobody out.
AlwaysFree == TRUE

\* The mutex: only Delete holds it over several steps.
Free == \A c \in Callers : pc[c] # "shift"

\* logLocked.
LogRecord(a, op) == audit' = [audit EXCEPT ![a][op] = @ + 1]

Reading(c, a) == agent[c] = a /\ pc[c] \in {"read", "alarm", "returned"}

\* The first entry of the list with this identifier.
IndexOf(a, id, i) ==
    LET list == heap[a][entries[a].arr] IN
    /\ i \in 1..entries[a].len /\ list[i].id = id
    /\ \A j \in 1..(i - 1) : list[j].id # id

-----------------------------------------------------------------------------
(* Write *)

\* validateContent finds a pattern or an anomalous size.
RejectWrite(a) ==
    /\ Free /\ audit[a]["write_rejected"] < MaxAlarms
    /\ LogRecord(a, "write_rejected")
    /\ UNCHANGED <<heap, entries, tampered, written, pc, agent, read, moved, seen, lasting>>

\* append: into the array if it has room, else into one of twice the size.
Append1(a, e) ==
    LET s == entries[a]
        new == [i \in 1..(IF s.arr = 0 THEN 1 ELSE 2 * s.len) |->
                  IF i <= s.len THEN heap[a][s.arr][i]
                  ELSE IF i = s.len + 1 THEN e ELSE None]
    IN  IF s.len < Cap(a, s.arr)
        THEN /\ heap' = [heap EXCEPT ![a][s.arr][s.len + 1] = e]
             /\ entries' = [entries EXCEPT ![a] = [arr |-> s.arr, len |-> s.len + 1]]
        ELSE /\ heap' = [heap EXCEPT ![a] = Append(@, new)]
             /\ entries' = [entries EXCEPT ![a] = [arr |-> Len(heap[a]) + 1, len |-> s.len + 1]]

\* The locked region of Write; the record of it is logged later.
InsertEntry(c, e) ==
    /\ Free /\ e.serial \notin written
    /\ Goto(c, "idle", "log")
    /\ agent' = [agent EXCEPT ![c] = e.agent]
    /\ Append1(e.agent, e)
    /\ written' = written \cup {e.serial}
    /\ seen' = [d \in Callers |-> IF Reading(d, e.agent) THEN seen[d] \cup {e} ELSE seen[d]]
    /\ UNCHANGED <<audit, tampered, read, moved, lasting>>

LogWrite(c) ==
    /\ Free
    /\ Goto(c, "log", "idle")
    /\ LogRecord(agent[c], "write")
    /\ agent' = [agent EXCEPT ![c] = None]
    /\ UNCHANGED <<heap, entries, tampered, written, read, moved, seen, lasting>>

-----------------------------------------------------------------------------
(* Read *)

\* Mutant of BeginRead: the copy of the slice reaches over its capacity.
BeginReadToCap(c, a) ==
    /\ Free
    /\ Goto(c, "idle", "read")
    /\ agent' = [agent EXCEPT ![c] = a]
    /\ stored' = [stored EXCEPT ![c] = [arr |-> entries[a].arr, len |-> Cap(a, entries[a].arr)]]
    /\ seen' = [seen EXCEPT ![c] = Listed(a, entries[a])]
    /\ lasting' = [lasting EXCEPT ![c] = Listed(a, entries[a])]
    /\ stale' = [stale EXCEPT ![c] = tampered]
    /\ UNCHANGED <<store, results, moved>>

\* Under the read lock: the slice is copied, not what it refers to.
BeginRead(c, a) ==
    /\ Free
    /\ Goto(c, "idle", "read")
    /\ agent' = [agent EXCEPT ![c] = a]
    /\ stored' = [stored EXCEPT ![c] = entries[a]]
    /\ seen' = [seen EXCEPT ![c] = Listed(a, entries[a])]
    /\ lasting' = [lasting EXCEPT ![c] = Listed(a, entries[a])]
    /\ stale' = [stale EXCEPT ![c] = tampered]
    /\ UNCHANGED <<store, results, moved>>

\* Mutant of ReadSlot: the hash is not recomputed.
ReadSlotUnchecked(c) ==
    LET s == stored[c] IN
    /\ pc[c] = "read" /\ Len(results[c]) < s.len
    /\ results' = [results EXCEPT ![c] = Append(@, heap[agent[c]][s.arr][Len(@) + 1])]
    /\ UNCHANGED <<store, pc, agent, stored, stale, moved, seen, lasting>>

\* One round of the loop, without the lock: load the slot, recompute the hash.
ReadSlot(c) ==
    LET s == stored[c]
        e == heap[agent[c]][s.arr][Len(results[c]) + 1]
    IN  /\ pc[c] = "read" /\ Len(results[c]) < s.len
        /\ IF e \in tampered
           THEN Goto(c, "read", "alarm") /\ UNCHANGED results
           ELSE results' = [results EXCEPT ![c] = Append(@, e)] /\ UNCHANGED pc
        /\ UNCHANGED <<store, agent, stored, stale, moved, seen, lasting>>

FinishRead(c) ==
    /\ Len(results[c]) = stored[c].len
    /\ Goto(c, "read", "returned")
    /\ UNCHANGED <<store, agent, read, moved, seen, lasting>>

\* The call is over, and its locals are gone.
EndRead(c, from) ==
    /\ Goto(c, from, "idle")
    /\ agent' = [agent EXCEPT ![c] = None]
    /\ stored' = [stored EXCEPT ![c] = Nil]
    /\ results' = [results EXCEPT ![c] = <<>>]
    /\ seen' = [seen EXCEPT ![c] = {}]
    /\ lasting' = [lasting EXCEPT ![c] = {}]
    /\ stale' = [stale EXCEPT ![c] = {}]

\* An IntegrityError: the failure is logged under the lock.
RaiseAlarm(c) ==
    /\ Free
    /\ EndRead(c, "alarm")
    /\ IF audit[agent[c]]["integrity_fail"] < MaxAlarms
       THEN LogRecord(agent[c], "integrity_fail") ELSE UNCHANGED audit
    /\ UNCHANGED <<heap, entries, tampered, written, moved>>

ReturnResults(c) == EndRead(c, "returned") /\ UNCHANGED <<store, moved>>

-----------------------------------------------------------------------------
(* Delete *)

\* The entry is found; append will move its successors one slot down.
FindEntry(c, a, id) ==
    LET s == entries[a] IN
    /\ Free
    /\ \E i \in 1..s.len :
          /\ IndexOf(a, id, i)
          /\ moved' = [moved EXCEPT ![c] = [k \in i..(s.len - 1) |-> heap[a][s.arr][k + 1]]]
          /\ lasting' = [d \in Callers |->
                           IF Reading(d, a) THEN lasting[d] \ {heap[a][s.arr][i]}
                                            ELSE lasting[d]]
    /\ Goto(c, "idle", "shift")
    /\ agent' = [agent EXCEPT ![c] = a]
    /\ UNCHANGED <<store, read, seen>>

\* One of the overwritten slots becomes visible.
ShiftSlot(c, k) ==
    LET a == agent[c] IN
    /\ pc[c] = "shift" /\ k \in DOMAIN moved[c]
    /\ heap' = [heap EXCEPT ![a][entries[a].arr][k] = moved[c][k]]
    /\ moved' = [moved EXCEPT ![c] = [i \in DOMAIN @ \ {k} |-> @[i]]]
    /\ UNCHANGED <<entries, audit, tampered, written, pc, agent, read, seen, lasting>>

\* Mutant of FinishDelete: the list keeps its length.
FinishDeleteLong(c) ==
    LET a == agent[c] IN
    /\ DOMAIN moved[c] = {}
    /\ Goto(c, "shift", "idle")
    /\ LogRecord(a, "delete")
    /\ moved' = [moved EXCEPT ![c] = <<>>]
    /\ agent' = [agent EXCEPT ![c] = None]
    /\ UNCHANGED <<heap, entries, tampered, written, read, seen, lasting>>

\* The list is one shorter; the last slot of the old one stays as it was.
FinishDelete(c) ==
    LET a == agent[c] IN
    /\ DOMAIN moved[c] = {}
    /\ Goto(c, "shift", "idle")
    /\ entries' = [entries EXCEPT ![a] = [arr |-> @.arr, len |-> @.len - 1]]
    /\ LogRecord(a, "delete")
    /\ moved' = [moved EXCEPT ![c] = <<>>]
    /\ agent' = [agent EXCEPT ![c] = None]
    /\ UNCHANGED <<heap, tampered, written, read, seen, lasting>>

\* TamperForTesting: the Content of a stored entry changes behind the store.
Tamper(a, id) ==
    /\ Free
    /\ \E i \in 1..entries[a].len :
          /\ IndexOf(a, id, i)
          /\ tampered' = tampered \cup {heap[a][entries[a].arr][i]}
    /\ UNCHANGED <<heap, entries, audit, written, pc, agent, read, moved, seen, lasting>>

-----------------------------------------------------------------------------

Next ==
    \/ \E a \in Agents : RejectWrite(a)
    \/ \E a \in Agents, id \in Ids : Tamper(a, id)
    \/ \E c \in Callers :
          \/ \E e \in Entry : InsertEntry(c, e)
          \/ LogWrite(c)
          \/ \E a \in Agents : BeginRead(c, a)
          \/ ReadSlot(c)
          \/ FinishRead(c)
          \/ RaiseAlarm(c)
          \/ ReturnResults(c)
          \/ \E a \in Agents, id \in Ids : FindEntry(c, a, id)
          \/ \E k \in DOMAIN moved[c] : ShiftSlot(c, k)
          \/ FinishDelete(c)

Spec == Init /\ [][Next]_vars

-----------------------------------------------------------------------------
(* Properties *)

ResultsOf(c) == {results[c][i] : i \in DOMAIN results[c]}

\* However Delete and Write rework the array that a Read walks without the
\* lock, a Read returns nothing but entries that were in the store of its agent at
\* some time since it began: no deleted entry comes back.
ReadReturnsStored ==
    \A c \in Callers : pc[c] = "returned" =>
        ResultsOf(c) \subseteq seen[c]

\* Nothing that was tampered with before a Read began is among its results.
ReadIsIntact ==
    \A c \in Callers : pc[c] = "returned" => ResultsOf(c) \cap stale[c] = {}

\* The audit log adds up: the entries of an agent are the writes it counts and
\* those yet to be counted, less the deletions.
AuditAddsUp ==
    \A a \in Agents :
        LET late == {c \in Callers : pc[c] = "log" /\ agent[c] = a}
        IN  audit[a]["write"] + Cardinality(late) = entries[a].len + audit[a]["delete"]

\* Who is shifting a's list, and who has yet to overwrite slot i of it.
Shifting(a) == {c \in Callers : pc[c] = "shift" /\ agent[c] = a}
Holding(a, i) == {c \in Shifting(a) : i \in DOMAIN moved[c]}

\* The lists, as they are once every shift is complete.
Size(a) == IF Shifting(a) = {} THEN entries[a].len ELSE entries[a].len - 1

Item(a, i) ==
    IF Holding(a, i) = {} THEN heap[a][entries[a].arr][i]
    ELSE LET c == CHOOSE c \in Holding(a, i) : TRUE IN moved[c][i]

contents == [a \in Agents |-> [i \in 1..Size(a) |-> Item(a, i)]]

Lists == INSTANCE EntryList WITH list <- contents

\* However many slots a Delete has overwritten, whatever stale pointers the
\* array keeps and however often append moves the list to another array, Write
\* and Delete (MemoryStore, memory.go:91) each change one agent's list in one
\* step: no entry is lost, doubled, brought back or put out of order.
ImplementsEntryList == Lists!Spec

\* memory.go:190 says that Read returns all entries of the agent: at least
\* those that were in the store from its beginning to its end.
ReadReturnsAll ==
    \A c \in Callers : pc[c] = "returned" => lasting[c] \subseteq ResultsOf(c)
=============================================================================
