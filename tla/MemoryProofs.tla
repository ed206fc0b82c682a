---------------------------- MODULE MemoryProofs ----------------------------
(***************************************************************************)
(* Proofs about Memory.  IInv says what a Read may rely on while it walks  *)
(* an array without the lock: every slot that it has yet to load holds an  *)
(* entry that was stored since it began.  It survives a Write, which puts  *)
(* a new entry into a free slot or a new array, and a Delete, which only   *)
(* moves entries of the list within it.  The last part shows that to those *)
(* who write and delete the store is the lists of EntryList.               *)
(***************************************************************************)
EXTENDS Memory, FiniteSetTheorems, SequenceTheorems, TLAPS

-----------------------------------------------------------------------------
(* The inductive invariant *)

Slot == Entry \cup {None}

IsReading(c) == pc[c] \in {"read", "alarm", "returned"}

\* The history variables have their types, and a goroutine that does not read
\* has collected nothing.
LocalsOK ==
    /\ DOMAIN moved = Callers
    /\ seen \in [Callers -> SUBSET Entry]
    /\ stale \in [Callers -> SUBSET Entry]
    /\ \A c \in Callers : ~IsReading(c) => results[c] = <<>>

\* append doubles an array, so none may be empty.
Backed == \A a \in Agents : \A n \in 1..Len(heap[a]) : Len(heap[a][n]) >= 1

\* One Delete at a time holds the lock.
Mutex == \A c, d \in Callers : pc[c] = "shift" /\ pc[d] = "shift" => c = d

\* What a Delete has yet to move stays within the list, and every Read of the
\* list may see it.
Shift(c) == pc[c] = "shift" =>
    /\ entries[agent[c]].len >= 1
    /\ DOMAIN moved[c] \subseteq 1..(entries[agent[c]].len - 1)
    /\ \A k \in DOMAIN moved[c] :
          /\ moved[c][k] \in Entry
          /\ \A d \in Callers : Reading(d, agent[c]) => moved[c][k] \in seen[d]

\* A Read may see whatever its copy of the slice, the list itself and its
\* results hold.
Window(c) == IsReading(c) =>
    /\ stored[c].arr \in 0..Len(heap[agent[c]])
    /\ stored[c].len <= Cap(agent[c], stored[c].arr)
    /\ Len(results[c]) <= stored[c].len
    /\ Listed(agent[c], stored[c]) \subseteq seen[c]
    /\ Listed(agent[c], entries[agent[c]]) \subseteq seen[c]
    /\ ResultsOf(c) \subseteq seen[c]

IInv ==
    /\ TypeOK /\ LocalsOK /\ Backed /\ Mutex
    /\ \A c \in Callers : Shift(c) /\ Window(c)

\* What was tampered with before a Read began is in none of its results.
Intact ==
    \A c \in Callers : stale[c] \subseteq tampered /\ ResultsOf(c) \cap stale[c] = {}

-----------------------------------------------------------------------------
(* The backing arrays *)

Heap == [Agents -> Seq(Seq(Slot))]

(* g has the arrays of h, with v in some slots of a's and perhaps arrays after them. *)
Kept(h, g, a, v) ==
    \A b \in Agents :
        /\ Len(g[b]) >= Len(h[b])
        /\ \A m \in 1..Len(h[b]) :
              /\ Len(g[b][m]) = Len(h[b][m])
              /\ \A i \in 1..Len(h[b][m]) :
                    g[b][m][i] = h[b][m][i] \/ (b = a /\ g[b][m][i] = v)

\* Agents, arrays and slots have their types.
LEMMA HeapTypes ==
    ASSUME NEW h \in Heap, NEW b \in Agents
    PROVE  /\ Len(h[b]) \in Nat
           /\ \A m \in 1..Len(h[b]) :
                 h[b][m] \in Seq(Slot) /\ Len(h[b][m]) \in Nat
                 /\ \A i \in 1..Len(h[b][m]) : h[b][m][i] \in Slot
<1>1. h[b] \in Seq(Seq(Slot))
  BY DEF Heap
<1>2. Len(h[b]) \in Nat
  BY <1>1
<1>3. ASSUME NEW m \in 1..Len(h[b])
      PROVE  h[b][m] \in Seq(Slot) /\ Len(h[b][m]) \in Nat
             /\ \A i \in 1..Len(h[b][m]) : h[b][m][i] \in Slot
  <2>1. h[b][m] \in Seq(Slot)
    BY <1>1, ElementOfSeq
  <2>2. Len(h[b][m]) \in Nat
    BY <2>1
  <2>3. \A i \in 1..Len(h[b][m]) : h[b][m][i] \in Slot
    BY <2>1, ElementOfSeq
  <2> QED
    BY <2>1, <2>2, <2>3
<1> QED
  BY <1>2, <1>3

\* The heap h with v in a slot, and the heap h with one more array.
Put(h, a, n, k, v) == [h EXCEPT ![a][n][k] = v]
Push(h, a, w) == [h EXCEPT ![a] = Append(h[a], w)]

IsPut(h, g, a, n, k, v) ==
    /\ g \in Heap
    /\ \A b \in Agents :
          /\ Len(g[b]) = Len(h[b])
          /\ \A m \in 1..Len(h[b]) :
                /\ Len(g[b][m]) = Len(h[b][m])
                /\ \A i \in 1..Len(h[b][m]) :
                      g[b][m][i] = IF b = a /\ m = n /\ i = k THEN v ELSE h[b][m][i]

IsPush(h, g, a, w) ==
    /\ g \in Heap
    /\ \A b \in Agents :
          /\ Len(g[b]) = IF b = a THEN Len(h[b]) + 1 ELSE Len(h[b])
          /\ \A m \in 1..Len(h[b]) : g[b][m] = h[b][m]
    /\ g[a][Len(h[a]) + 1] = w

\* Overwriting a slot changes that slot and no length.
LEMMA PutSlot ==
    ASSUME NEW h \in Heap, NEW a \in Agents, NEW n \in 1..Len(h[a]),
           NEW k \in 1..Len(h[a][n]), NEW v \in Slot
    PROVE  IsPut(h, Put(h, a, n, k, v), a, n, k, v)
<1> DEFINE g == Put(h, a, n, k, v)
<1> DEFINE arr == [h[a][n] EXCEPT ![k] = v]
           arrs == [h[a] EXCEPT ![n] = arr]
<1>1. h[a] \in Seq(Seq(Slot)) /\ h[a][n] \in Seq(Slot)
  BY HeapTypes DEF Heap
<1>2. /\ arr \in Seq(Slot) /\ Len(arr) = Len(h[a][n])
      /\ \A i \in 1..Len(h[a][n]) : arr[i] = IF i = k THEN v ELSE h[a][n][i]
  <2> HIDE DEF Slot
  <2> QED
    BY <1>1, ExceptSeq
<1>3. g = [h EXCEPT ![a] = arrs]
  BY DEF Put
<1> HIDE DEF arr, g
<1>4. /\ arrs \in Seq(Seq(Slot)) /\ Len(arrs) = Len(h[a])
      /\ \A m \in 1..Len(h[a]) : arrs[m] = IF m = n THEN arr ELSE h[a][m]
  <2> DEFINE T == Seq(Slot)
  <2>1. h[a] \in Seq(T) /\ arr \in T
    BY <1>1, <1>2
  <2> HIDE DEF T
  <2>2. /\ arrs \in Seq(T) /\ Len(arrs) = Len(h[a])
        /\ \A m \in 1..Len(h[a]) : arrs[m] = IF m = n THEN arr ELSE h[a][m]
    BY <2>1, ExceptSeq
  <2> QED
    BY <2>2 DEF T
<1> HIDE DEF arrs
<1>5. g \in Heap
  BY <1>3, <1>4 DEF Heap
<1>6. \A b \in Agents : g[b] = IF b = a THEN arrs ELSE h[b]
  BY <1>3 DEF Heap
<1>7. ASSUME NEW b \in Agents, NEW m \in 1..Len(h[b])
      PROVE  g[b][m] = IF b = a /\ m = n THEN arr ELSE h[b][m]
  <2>1. CASE b = a
    BY <2>1, <1>6, <1>4
  <2>2. CASE b # a
    BY <2>2, <1>6
  <2> QED
    BY <2>1, <2>2
<1>8. IsPut(h, g, a, n, k, v)
  BY <1>2, <1>4, <1>5, <1>6, <1>7 DEF IsPut
<1> QED
  BY <1>8 DEF g

\* A new array leaves the ones before it alone.
LEMMA PushArray ==
    ASSUME NEW h \in Heap, NEW a \in Agents, NEW w \in Seq(Slot)
    PROVE  IsPush(h, Push(h, a, w), a, w)
<1> DEFINE g == Push(h, a, w)
<1> DEFINE arrs == Append(h[a], w)
           T == Seq(Slot)
<1>1. h[a] \in Seq(T) /\ w \in T
  BY DEF Heap
<1>2. g = [h EXCEPT ![a] = arrs]
  BY DEF Push
<1> HIDE DEF T, g
<1>3. /\ arrs \in Seq(T) /\ Len(arrs) = Len(h[a]) + 1
      /\ \A m \in 1..Len(h[a]) : arrs[m] = h[a][m]
      /\ arrs[Len(h[a]) + 1] = w
  BY <1>1, AppendProperties
<1>4. arrs \in Seq(Seq(Slot))
  BY <1>3 DEF T
<1> HIDE DEF arrs
<1>5. g \in Heap
  BY <1>2, <1>4 DEF Heap
<1>6. \A b \in Agents : g[b] = IF b = a THEN arrs ELSE h[b]
  BY <1>2 DEF Heap
<1>7. IsPush(h, g, a, w)
  BY <1>3, <1>5, <1>6 DEF IsPush
<1> QED
  BY <1>7 DEF g

-----------------------------------------------------------------------------
(* Slices over the arrays *)

\* A list lies within the capacity of its array and holds entries only.
SliceOK(b) ==
    /\ entries[b].arr \in 0..Len(heap[b])
    /\ entries[b].len <= Cap(b, entries[b].arr)
    /\ Listed(b, entries[b]) \subseteq Entry

\* A slice within its capacity indexes slots that exist.
LEMMA SliceFacts ==
    ASSUME TypeOK, NEW a \in Agents, NEW s \in [arr : Nat, len : Nat],
           s.arr \in 0..Len(heap[a]), s.len <= Cap(a, s.arr)
    PROVE  /\ s.arr # 0 => s.arr \in 1..Len(heap[a]) /\ s.len <= Len(heap[a][s.arr])
           /\ s.arr = 0 => s.len = 0
           /\ \A i \in 1..s.len : s.arr # 0 /\ i \in 1..Len(heap[a][s.arr])
           /\ Len(heap[a]) \in Nat
           /\ s.arr # 0 => Len(heap[a][s.arr]) \in Nat
<1>1. heap \in Heap
  BY DEF TypeOK, Heap, Slot
<1>2. Len(heap[a]) \in Nat
  BY <1>1, HeapTypes
<1>3. s.arr \in Nat /\ s.len \in Nat
  OBVIOUS
<1>4. s.arr # 0 => s.arr \in 1..Len(heap[a])
  BY <1>2, <1>3
<1>5. s.arr # 0 => Len(heap[a][s.arr]) \in Nat
  BY <1>1, <1>4, HeapTypes
<1>6. s.arr # 0 => s.len <= Len(heap[a][s.arr])
  BY <1>3 DEF Cap
<1>7. s.arr = 0 => s.len = 0
  BY <1>3 DEF Cap
<1> QED
  BY <1>2, <1>3, <1>4, <1>5, <1>6, <1>7

\* Every slice lasts; a slot of it that has changed holds v.
LEMMA ListedKept ==
    ASSUME TypeOK, NEW a, NEW v, Kept(heap, heap', a, v),
           NEW b \in Agents, NEW s \in [arr : Nat, len : Nat],
           s.arr \in 0..Len(heap[b]), s.len <= Cap(b, s.arr), Len(heap'[b]) \in Nat
    PROVE  /\ s.arr \in 0..Len(heap'[b])
           /\ s.len <= (IF s.arr = 0 THEN 0 ELSE Len(heap'[b][s.arr]))
           /\ \A i \in 1..s.len :
                 heap'[b][s.arr][i] = heap[b][s.arr][i] \/ (b = a /\ heap'[b][s.arr][i] = v)
<1>1. /\ s.arr # 0 => s.arr \in 1..Len(heap[b]) /\ s.len <= Len(heap[b][s.arr])
      /\ s.arr = 0 => s.len = 0
      /\ \A i \in 1..s.len : s.arr # 0 /\ i \in 1..Len(heap[b][s.arr])
      /\ Len(heap[b]) \in Nat
  BY SliceFacts
<1>2. /\ Len(heap'[b]) >= Len(heap[b])
      /\ \A m \in 1..Len(heap[b]) :
            /\ Len(heap'[b][m]) = Len(heap[b][m])
            /\ \A i \in 1..Len(heap[b][m]) :
                  heap'[b][m][i] = heap[b][m][i] \/ (b = a /\ heap'[b][m][i] = v)
  BY DEF Kept
<1> QED
  BY <1>1, <1>2

LEMMA SliceKept ==
    ASSUME TypeOK, NEW a, NEW v \in Entry, Kept(heap, heap', a, v),
           NEW b \in Agents, entries'[b] = entries[b], Len(heap'[b]) \in Nat
    PROVE  SliceOK(b)'
<1> DEFINE s == entries[b]
<1>1. /\ s \in [arr : Nat, len : Nat] /\ s.arr \in 0..Len(heap[b]) /\ s.len <= Cap(b, s.arr)
      /\ \A i \in 1..s.len : heap[b][s.arr][i] \in Entry
  BY DEF TypeOK, Listed
<1>2. /\ s.arr \in 0..Len(heap'[b])
      /\ s.len <= (IF s.arr = 0 THEN 0 ELSE Len(heap'[b][s.arr]))
      /\ \A i \in 1..s.len :
            heap'[b][s.arr][i] = heap[b][s.arr][i] \/ (b = a /\ heap'[b][s.arr][i] = v)
  BY <1>1, ListedKept
<1>3. \A i \in 1..s.len : heap'[b][s.arr][i] \in Entry
  BY <1>1, <1>2
<1> QED
  BY <1>2, <1>3 DEF SliceOK, Listed, Cap

\* If v was stored since the Read began, the Read may rely on its window.
LEMMA WindowKept ==
    ASSUME TypeOK, NEW a, NEW v, Kept(heap, heap', a, v),
           NEW d \in Callers, IsReading(d), Window(d),
           agent'[d] = agent[d], stored'[d] = stored[d], results'[d] = results[d],
           Len(heap'[agent[d]]) \in Nat,
           seen[d] \subseteq seen'[d], agent[d] = a => v \in seen'[d],
           (Listed(agent[d], entries[agent[d]]))' \subseteq seen'[d]
    PROVE  Window(d)'
<1> DEFINE b == agent[d]
           s == stored[d]
<1>1. b \in Agents /\ s \in [arr : Nat, len : Nat]
  BY DEF TypeOK, IsReading
<1>2. /\ s.arr \in 0..Len(heap[b]) /\ s.len <= Cap(b, s.arr)
      /\ Len(results[d]) <= s.len
      /\ \A i \in 1..s.len : heap[b][s.arr][i] \in seen[d]
      /\ ResultsOf(d) \subseteq seen[d]
  BY DEF Window, Listed
<1>3. /\ s.arr \in 0..Len(heap'[b])
      /\ s.len <= (IF s.arr = 0 THEN 0 ELSE Len(heap'[b][s.arr]))
      /\ \A i \in 1..s.len :
            heap'[b][s.arr][i] = heap[b][s.arr][i] \/ (b = a /\ heap'[b][s.arr][i] = v)
  BY <1>1, <1>2, ListedKept
<1>4. \A i \in 1..s.len : heap'[b][s.arr][i] \in seen'[d]
  BY <1>2, <1>3
<1>5. s.len <= Cap(b, s.arr)'
  BY <1>3 DEF Cap
<1>6. (Listed(b, s))' \subseteq seen'[d]
  BY <1>4 DEF Listed
<1>7. ResultsOf(d)' \subseteq seen'[d]
  BY <1>2 DEF ResultsOf
<1> QED
  BY <1>2, <1>3, <1>5, <1>6, <1>7 DEF Window

LEMMA PutBacked ==
    ASSUME Backed, heap \in Heap, NEW a, NEW n, NEW k, NEW v,
           IsPut(heap, heap', a, n, k, v)
    PROVE  Backed' /\ Kept(heap, heap', a, v)
<1>1. \A b \in Agents : Len(heap[b]) \in Nat
  BY HeapTypes
<1>2. ASSUME NEW b \in Agents, NEW m \in 1..Len(heap'[b])
      PROVE  Len(heap'[b][m]) >= 1
  <2>1. m \in 1..Len(heap[b]) /\ Len(heap'[b][m]) = Len(heap[b][m])
    BY <1>2 DEF IsPut
  <2> QED
    BY <2>1 DEF Backed
<1>3. Backed'
  BY <1>2 DEF Backed
<1>4. Kept(heap, heap', a, v)
  BY <1>1 DEF Kept, IsPut
<1> QED
  BY <1>3, <1>4

\* append adds e at the end of the list and keeps every array.
LEMMA Appended ==
    ASSUME TypeOK, Backed, NEW a \in Agents, NEW e \in Entry, Append1(a, e)
    PROVE  /\ heap' \in Heap /\ Backed'
           /\ Kept(heap, heap', a, e)
           /\ entries' \in [Agents -> [arr : Nat, len : Nat]]
           /\ \A b \in Agents \ {a} : entries'[b] = entries[b]
           /\ entries'[a].len = entries[a].len + 1
           /\ SliceOK(a)'
           /\ (Listed(a, entries[a]))' \subseteq Listed(a, entries[a]) \cup {e}
           /\ \A i \in 1..(entries[a].len + 1) :
                 heap'[a][entries'[a].arr][i] =
                     IF i = entries[a].len + 1 THEN e ELSE heap[a][entries[a].arr][i]
<1> DEFINE s == entries[a]
<1>1. heap \in Heap
  BY DEF TypeOK, Heap, Slot
<1>2. /\ s \in [arr : Nat, len : Nat] /\ s.arr \in 0..Len(heap[a]) /\ s.len <= Cap(a, s.arr)
      /\ s.len \in Nat /\ s.arr \in Nat
      /\ Listed(a, s) \subseteq Entry
  BY DEF TypeOK
<1>3. /\ s.arr # 0 => s.arr \in 1..Len(heap[a]) /\ s.len <= Len(heap[a][s.arr])
      /\ s.arr = 0 => s.len = 0
      /\ \A i \in 1..s.len : s.arr # 0 /\ i \in 1..Len(heap[a][s.arr])
      /\ Len(heap[a]) \in Nat
      /\ s.arr # 0 => Len(heap[a][s.arr]) \in Nat
  BY <1>2, SliceFacts
<1>4. CASE s.len < Cap(a, s.arr)
  <2> DEFINE n == s.arr
             k == s.len + 1
  <2>1. /\ heap' = [heap EXCEPT ![a][n][k] = e]
        /\ entries' = [entries EXCEPT ![a] = [arr |-> n, len |-> k]]
    BY <1>4 DEF Append1
  <2>2. n \in 1..Len(heap[a]) /\ k \in 1..Len(heap[a][n]) /\ n # 0
    BY <1>2, <1>3, <1>4 DEF Cap
  <2>3. k \in Nat /\ k = s.len + 1 /\ n \in Nat /\ n = s.arr /\ e \in Slot
    BY <1>2 DEF Slot
  <2> HIDE DEF n, k
  <2>4. IsPut(heap, heap', a, n, k, e)
    BY <1>1, <2>1, <2>2, <2>3, PutSlot DEF Put
  <2>6. Backed' /\ Kept(heap, heap', a, e)
    BY <1>1, <2>4, PutBacked
  <2>8. /\ entries' \in [Agents -> [arr : Nat, len : Nat]]
        /\ entries'[a] = [arr |-> n, len |-> k]
        /\ \A b \in Agents \ {a} : entries'[b] = entries[b]
    BY <2>1, <2>3 DEF TypeOK
  <2>9. \A i \in 1..k : heap'[a][n][i] = IF i = k THEN e ELSE heap[a][n][i]
    <3>1. Len(heap[a][n]) \in Nat
      BY <1>1, <2>2, HeapTypes
    <3>2. \A i \in 1..k : i \in 1..Len(heap[a][n])
      BY <3>1, <2>2, <2>3
    <3>3. \A i \in 1..Len(heap[a][n]) :
             heap'[a][n][i] = IF i = k THEN e ELSE heap[a][n][i]
      BY <2>2, <2>4 DEF IsPut
    <3> QED
      BY <3>2, <3>3
  <2>10. (Listed(a, entries[a]))' \subseteq Listed(a, s) \cup {e}
    BY <2>8, <2>9, <2>3, <1>2 DEF Listed
  <2>11. Len(heap'[a]) = Len(heap[a]) /\ Len(heap'[a][n]) = Len(heap[a][n])
    BY <2>2, <2>4 DEF IsPut
  <2>12. SliceOK(a)'
    BY <2>2, <2>8, <2>10, <2>11, <1>2, <2>3 DEF SliceOK, Cap
  <2> QED
    BY <2>3, <2>4, <2>6, <2>8, <2>9, <2>10, <2>12 DEF IsPut
<1>5. CASE ~(s.len < Cap(a, s.arr))
  <2> DEFINE n == IF s.arr = 0 THEN 1 ELSE 2 * s.len
             new == [i \in 1..n |-> IF i <= s.len THEN heap[a][s.arr][i]
                                    ELSE IF i = s.len + 1 THEN e ELSE None]
  <2>1. /\ heap' = [heap EXCEPT ![a] = Append(heap[a], new)]
        /\ entries' = [entries EXCEPT ![a] = [arr |-> Len(heap[a]) + 1, len |-> s.len + 1]]
    BY <1>5 DEF Append1
  <2>2. n \in Nat /\ s.len + 1 <= n
    <3>1. CASE s.arr = 0
      BY <3>1, <1>3
    <3>2. CASE s.arr # 0
      <4>1. Len(heap[a][s.arr]) >= 1
        BY <3>2, <1>3 DEF Backed
      <4>2. s.len >= 1
        BY <3>2, <4>1, <1>2, <1>3, <1>5 DEF Cap
      <4> QED
        BY <4>2, <3>2, <1>2
    <3> QED
      BY <3>1, <3>2
  <2> HIDE DEF n
  <2>3. /\ new \in [1..n -> Slot] /\ DOMAIN new = 1..n
        /\ \A i \in 1..n : new[i] = IF i <= s.len THEN heap[a][s.arr][i]
                                    ELSE IF i = s.len + 1 THEN e ELSE None
    <3>1. \A i \in 1..n : i <= s.len => heap[a][s.arr][i] \in Entry
      BY <1>2 DEF Listed
    <3> QED
      BY <3>1, <1>2 DEF Slot
  <2> HIDE DEF new
  <2>4. new \in Seq(Slot) /\ Len(new) = n
    BY <2>2, <2>3
  <2>50. IsPush(heap, heap', a, new)
    BY <1>1, <2>1, <2>4, PushArray DEF Push
  <2>5. /\ heap' \in Heap
        /\ \A b \in Agents :
              /\ Len(heap'[b]) = IF b = a THEN Len(heap[b]) + 1 ELSE Len(heap[b])
              /\ \A m \in 1..Len(heap[b]) : heap'[b][m] = heap[b][m]
        /\ heap'[a][Len(heap[a]) + 1] = new
    BY <2>50 DEF IsPush
  <2>6. Backed' /\ Kept(heap, heap', a, e)
    <3>1. \A b \in Agents : Len(heap[b]) \in Nat
      BY <1>1, HeapTypes
    <3>2. ASSUME NEW b \in Agents, NEW m \in 1..Len(heap'[b])
          PROVE  Len(heap'[b][m]) >= 1
      <4>1. CASE m \in 1..Len(heap[b])
        BY <4>1, <2>5 DEF Backed
      <4>2. CASE m \notin 1..Len(heap[b])
        <5>1. b = a /\ m = Len(heap[a]) + 1
          BY <4>2, <2>5, <3>1
        <5> QED
          BY <5>1, <2>5, <2>4, <2>2, <1>2
      <4> QED
        BY <4>1, <4>2
    <3>3. Backed'
      BY <3>2 DEF Backed
    <3>4. Kept(heap, heap', a, e)
      BY <2>5, <3>1 DEF Kept
    <3> QED
      BY <3>3, <3>4
  <2>7. entries' \in [Agents -> [arr : Nat, len : Nat]]
    BY <2>1, <1>2, <1>3 DEF TypeOK
  <2>8. /\ entries'[a] = [arr |-> Len(heap[a]) + 1, len |-> s.len + 1]
        /\ \A b \in Agents \ {a} : entries'[b] = entries[b]
    BY <2>1 DEF TypeOK
  <2>9. \A i \in 1..(s.len + 1) :
           heap'[a][Len(heap[a]) + 1][i] = IF i = s.len + 1 THEN e ELSE heap[a][s.arr][i]
    BY <2>2, <2>3, <2>5, <1>2
  <2>10. (Listed(a, entries[a]))' \subseteq Listed(a, s) \cup {e}
    BY <2>8, <2>9, <1>2 DEF Listed
  <2>11. SliceOK(a)'
    BY <2>2, <2>4, <2>5, <2>8, <2>10, <1>2, <1>3 DEF SliceOK, Cap
  <2> QED
    BY <2>5, <2>6, <2>7, <2>8, <2>9, <2>10, <2>11
<1> QED
  BY <1>4, <1>5

\* Delete overwrites one slot with an entry of the list.
LEMMA Shifted ==
    ASSUME TypeOK, LocalsOK, Backed, NEW c \in Callers, Shift(c),
           NEW k \in DOMAIN moved[c], ShiftSlot(c, k)
    PROVE  /\ heap' \in Heap /\ Backed'
           /\ agent[c] \in Agents /\ moved[c][k] \in Entry
           /\ Kept(heap, heap', agent[c], moved[c][k])
           /\ IsPut(heap, heap', agent[c], entries[agent[c]].arr, k, moved[c][k])
<1> DEFINE a == agent[c]
           n == entries[a].arr
           v == moved[c][k]
<1>1. heap \in Heap
  BY DEF TypeOK, Heap, Slot
<1>2. a \in Agents /\ v \in Entry /\ pc[c] = "shift"
  BY DEF TypeOK, Shift, ShiftSlot
<1>3. /\ entries[a] \in [arr : Nat, len : Nat]
      /\ n \in 0..Len(heap[a]) /\ entries[a].len <= Cap(a, n)
  BY <1>2 DEF TypeOK
<1>4. n \in 1..Len(heap[a]) /\ k \in 1..Len(heap[a][n])
  <2>1. k \in 1..(entries[a].len - 1)
    BY <1>2 DEF Shift
  <2>2. /\ n # 0 => n \in 1..Len(heap[a]) /\ entries[a].len <= Len(heap[a][n])
        /\ n = 0 => entries[a].len = 0
        /\ n # 0 => Len(heap[a][n]) \in Nat
    BY <1>2, <1>3, SliceFacts
  <2>3. entries[a].len \in Nat
    BY <1>3
  <2> QED
    BY <2>1, <2>2, <2>3
<1>5. heap' = [heap EXCEPT ![a][n][k] = v]
  BY DEF ShiftSlot
<1> HIDE DEF n, v
<1>6. v \in Slot
  BY <1>2 DEF Slot
<1>7. IsPut(heap, heap', a, n, k, v)
  BY <1>1, <1>2, <1>4, <1>5, <1>6, PutSlot DEF Put
<1>8. Backed' /\ Kept(heap, heap', a, v)
  BY <1>1, <1>7, PutBacked
<1> QED
  <2>1. heap' \in Heap
    BY <1>7 DEF IsPut
  <2> QED
    BY <2>1, <1>2, <1>7, <1>8 DEF v, n

LEMMA StoreStays ==
    ASSUME TypeOK, Backed, UNCHANGED <<heap, entries>>
    PROVE  /\ Backed'
           /\ heap' \in [Agents -> Seq(Seq(Entry \cup {None}))]
           /\ entries' \in [Agents -> [arr : Nat, len : Nat]]
           /\ \A b \in Agents : SliceOK(b)'
<1>1. \A b \in Agents : SliceOK(b)
  BY DEF TypeOK, SliceOK
<1> QED
  BY <1>1 DEF TypeOK, Backed, SliceOK, Listed, Cap

LEMMA WindowStays ==
    ASSUME UNCHANGED <<heap, entries>>, NEW d \in Callers, Window(d), IsReading(d),
           agent'[d] = agent[d], stored'[d] = stored[d],
           results'[d] = results[d], seen[d] \subseteq seen'[d]
    PROVE  Window(d)'
BY DEF Window, IsReading, Cap, Listed, ResultsOf

LEMMA ShiftStays ==
    ASSUME UNCHANGED <<entries, moved, seen>>, NEW c \in Callers, Shift(c),
           pc'[c] = pc[c], agent'[c] = agent[c],
           \A d \in Callers : Reading(d, agent[c])' => Reading(d, agent[c])
    PROVE  Shift(c)'
BY DEF Shift

\* No goroutine deletes: nobody has slots to overwrite.
LEMMA NobodyShifts ==
    ASSUME Free, NEW d \in Callers, pc'[d] = pc[d]
    PROVE  Shift(d)'
BY DEF Free, Shift

-----------------------------------------------------------------------------
(* Each action preserves the invariant *)

\* The types, but for the slices.
Types ==
    /\ heap \in [Agents -> Seq(Seq(Entry \cup {None}))]
    /\ entries \in [Agents -> [arr : Nat, len : Nat]]
    /\ audit \in [Agents -> [Ops -> Nat]]
    /\ tampered \subseteq Entry
    /\ written \subseteq Serials
    /\ pc \in [Callers -> {"idle", "log", "read", "alarm", "returned", "shift"}]
    /\ agent \in [Callers -> Agents \cup {None}]
    /\ stored \in [Callers -> [arr : Nat, len : Nat]]
    /\ results \in [Callers -> Seq(Entry)]
    /\ \A c \in Callers : pc[c] # "idle" => agent[c] # None

LEMMA TypeParts ==
    /\ TypeOK => Types /\ \A a \in Agents : SliceOK(a)
    /\ Types' /\ (\A a \in Agents : SliceOK(a)') => TypeOK'
<1>1. TypeOK => Types /\ \A a \in Agents : SliceOK(a)
  BY DEF TypeOK, Types, SliceOK
<1>2. Types' /\ (\A a \in Agents : SliceOK(a)') => TypeOK'
  BY DEF TypeOK, Types, SliceOK
<1> QED
  BY <1>1, <1>2

\* One more record is counted.
LEMMA Logged ==
    ASSUME TypeOK, NEW a \in Agents, NEW op \in Ops, LogRecord(a, op)
    PROVE  /\ audit' \in [Agents -> [Ops -> Nat]]
           /\ audit'[a][op] = audit[a][op] + 1
           /\ \A b \in Agents, o \in Ops : b # a \/ o # op => audit'[b][o] = audit[b][o]
BY DEF TypeOK, LogRecord

\* A busy goroutine works for some agent.
LEMMA OfAgent ==
    ASSUME TypeOK, NEW c \in Callers, pc[c] # "idle"
    PROVE  agent[c] \in Agents
BY DEF TypeOK

\* A refused Write.
LEMMA RejectKeeps ==
    ASSUME IInv, NEW a \in Agents, RejectWrite(a)
    PROVE  IInv'
<1>1. /\ TypeOK /\ LocalsOK /\ Backed /\ Mutex
      /\ \A c \in Callers : Shift(c) /\ Window(c)
  BY DEF IInv
<1>2. audit' \in [Agents -> [Ops -> Nat]]
  BY <1>1, Logged DEF RejectWrite, Ops
<1>3. Backed' /\ \A b \in Agents : SliceOK(b)'
  BY <1>1, StoreStays DEF RejectWrite
<1>4. TypeOK'
  BY <1>1, <1>2, <1>3, TypeParts DEF Types, RejectWrite, read
<1>5. LocalsOK' /\ Mutex'
  BY <1>1 DEF LocalsOK, Mutex, IsReading, RejectWrite, read
<1>6. ASSUME NEW d \in Callers PROVE Shift(d)' /\ Window(d)'
  BY <1>1 DEF Shift, Window, Reading, IsReading, Cap, Listed, ResultsOf, RejectWrite, read
<1> QED
  BY <1>3, <1>4, <1>5, <1>6 DEF IInv

\* Tampering changes no slot.
LEMMA TamperKeeps ==
    ASSUME IInv, NEW a \in Agents, NEW id \in Ids, Tamper(a, id)
    PROVE  IInv'
<1>1. /\ TypeOK /\ LocalsOK /\ Backed /\ Mutex
      /\ \A c \in Callers : Shift(c) /\ Window(c)
  BY DEF IInv
<1>2. tampered' \subseteq Entry
  BY <1>1 DEF Tamper, TypeOK, Listed
<1>3. Backed' /\ \A b \in Agents : SliceOK(b)'
  BY <1>1, StoreStays DEF Tamper
<1>4. TypeOK'
  BY <1>1, <1>2, <1>3, TypeParts DEF Types, Tamper, read
<1>5. LocalsOK' /\ Mutex'
  BY <1>1 DEF LocalsOK, Mutex, IsReading, Tamper, read
<1>6. ASSUME NEW d \in Callers PROVE Shift(d)' /\ Window(d)'
  BY <1>1 DEF Shift, Window, Reading, IsReading, Cap, Listed, ResultsOf, Tamper, read
<1> QED
  BY <1>3, <1>4, <1>5, <1>6 DEF IInv

\* A Write is logged.
LEMMA LogKeeps ==
    ASSUME IInv, NEW c \in Callers, LogWrite(c)
    PROVE  IInv'
<1>1. /\ TypeOK /\ LocalsOK /\ Backed /\ Mutex
      /\ \A d \in Callers : Shift(d) /\ Window(d)
  BY DEF IInv
<1>2. agent[c] \in Agents
  BY <1>1, OfAgent DEF LogWrite, Goto
<1>3. audit' \in [Agents -> [Ops -> Nat]]
  BY <1>1, <1>2, Logged DEF LogWrite, Ops
<1>4. Backed' /\ \A b \in Agents : SliceOK(b)'
  BY <1>1, StoreStays DEF LogWrite
<1>5. /\ pc \in [Callers -> {"idle", "log", "read", "alarm", "returned", "shift"}]
      /\ agent \in [Callers -> Agents \cup {None}]
  BY <1>1 DEF TypeOK
<1>6. /\ pc[c] = "log" /\ pc'[c] = "idle" /\ agent'[c] = None
      /\ \A d \in Callers \ {c} : pc'[d] = pc[d] /\ agent'[d] = agent[d]
  BY <1>5 DEF LogWrite, Goto
<1>7. TypeOK'
  BY <1>1, <1>3, <1>4, <1>6, TypeParts DEF Types, LogWrite, Goto, read
<1>8. LocalsOK' /\ Mutex'
  BY <1>1, <1>6 DEF LocalsOK, Mutex, IsReading, LogWrite, read
<1>9. ASSUME NEW d \in Callers PROVE Shift(d)' /\ Window(d)'
  <2>1. CASE d = c
    BY <2>1, <1>6 DEF Shift, Window, IsReading
  <2>2. CASE d # c
    <3>1. pc'[d] = pc[d] /\ agent'[d] = agent[d] /\ Shift(d) /\ Window(d)
      BY <2>2, <1>1, <1>6
    <3>2. Shift(d)'
      BY <3>1, NobodyShifts DEF LogWrite
    <3>3. Window(d)'
      BY <3>1, WindowStays DEF LogWrite, read, IsReading, Window
    <3> QED
      BY <3>2, <3>3
  <2> QED
    BY <2>1, <2>2
<1> QED
  BY <1>4, <1>7, <1>8, <1>9 DEF IInv

\* A Write: every other Read of the list may see the new entry.
LEMMA InsertKeeps ==
    ASSUME IInv, NEW c \in Callers, NEW e \in Entry, InsertEntry(c, e)
    PROVE  IInv'
<1> DEFINE a == e.agent
<1>1. /\ TypeOK /\ LocalsOK /\ Backed /\ Mutex
      /\ \A d \in Callers : Shift(d) /\ Window(d)
  BY DEF IInv
<1>2. a \in Agents /\ a # None /\ e.serial \in Serials
  BY MemoryAssumption DEF Entry
<1>3. /\ pc \in [Callers -> {"idle", "log", "read", "alarm", "returned", "shift"}]
      /\ agent \in [Callers -> Agents \cup {None}]
      /\ seen \in [Callers -> SUBSET Entry]
  BY <1>1 DEF TypeOK, LocalsOK
<1>4. /\ Free /\ pc[c] = "idle" /\ pc'[c] = "log" /\ agent'[c] = a
      /\ \A d \in Callers \ {c} : pc'[d] = pc[d] /\ agent'[d] = agent[d]
  BY <1>3 DEF InsertEntry, Goto
<1>5. /\ heap' \in Heap /\ Backed'
      /\ Kept(heap, heap', a, e)
      /\ entries' \in [Agents -> [arr : Nat, len : Nat]]
      /\ \A b \in Agents \ {a} : entries'[b] = entries[b]
      /\ SliceOK(a)'
      /\ (Listed(a, entries[a]))' \subseteq Listed(a, entries[a]) \cup {e}
  BY <1>1, <1>2, Appended DEF InsertEntry
<1>6. \A b \in Agents : Len(heap'[b]) \in Nat
  BY <1>5, HeapTypes
<1>7. \A b \in Agents : SliceOK(b)'
  <2> SUFFICES ASSUME NEW b \in Agents, b # a PROVE SliceOK(b)'
    BY <1>5
  <2>1. entries'[b] = entries[b] /\ Len(heap'[b]) \in Nat
    BY <1>5, <1>6
  <2> HIDE DEF a
  <2> QED
    BY <2>1, <1>1, <1>5, SliceKept
<1>8. Types'
  <2>1. heap' \in [Agents -> Seq(Seq(Entry \cup {None}))]
    BY <1>5 DEF Heap, Slot
  <2>2. /\ pc' \in [Callers -> {"idle", "log", "read", "alarm", "returned", "shift"}]
        /\ agent' \in [Callers -> Agents \cup {None}]
    BY <1>2, <1>3 DEF InsertEntry, Goto
  <2>3. written' \subseteq Serials /\ UNCHANGED <<audit, tampered, stored, results>>
    BY <1>1, <1>2 DEF InsertEntry, read, TypeOK
  <2>4. \A d \in Callers : pc'[d] # "idle" => agent'[d] # None
    BY <1>1, <1>2, <1>4 DEF TypeOK
  <2> QED
    BY <1>1, <1>5, <2>1, <2>2, <2>3, <2>4 DEF Types, TypeOK
<1>9. /\ seen' \in [Callers -> SUBSET Entry]
      /\ \A d \in Callers : seen[d] \subseteq seen'[d] /\ (Reading(d, a) => e \in seen'[d])
  BY <1>3 DEF InsertEntry
<1>10. UNCHANGED <<stored, results, stale, moved>>
  BY DEF InsertEntry, read
<1>11. LocalsOK' /\ Mutex'
  BY <1>1, <1>4, <1>9, <1>10 DEF LocalsOK, Mutex, IsReading
<1>12. ASSUME NEW d \in Callers PROVE Shift(d)' /\ Window(d)'
  <2>1. CASE d = c
    BY <2>1, <1>4 DEF Shift, Window, IsReading
  <2>2. CASE d # c
    <3>1. pc'[d] = pc[d] /\ agent'[d] = agent[d] /\ Window(d)
      BY <2>2, <1>1, <1>4
    <3>2. Shift(d)'
      BY <3>1, <1>4, NobodyShifts
    <3>3. CASE ~IsReading(d)
      BY <3>1, <3>2, <3>3 DEF Window, IsReading
    <3>4. CASE IsReading(d)
      <4> DEFINE b == agent[d]
      <4>1. b \in Agents /\ Listed(b, entries[b]) \subseteq seen[d]
        BY <3>1, <3>4, <1>1, OfAgent DEF Window, IsReading
      <4>2. b = a => e \in seen'[d]
        BY <1>9, <3>4 DEF Reading, IsReading
      <4>3. (Listed(agent[d], entries[agent[d]]))' \subseteq seen'[d]
        <5>1. CASE b = a
          <6>1. (Listed(a, entries[a]))' \subseteq seen'[d]
            BY <5>1, <4>1, <4>2, <1>5, <1>9
          <6> QED
            BY <5>1, <6>1, <3>1 DEF Listed
        <5>2. CASE b # a
          <6>1. entries'[b] = entries[b] /\ b \in Agents /\ entries[b] \in [arr : Nat, len : Nat]
                /\ entries[b].arr \in 0..Len(heap[b]) /\ entries[b].len <= Cap(b, entries[b].arr)
            BY <5>2, <4>1, <1>5, <1>1 DEF TypeOK
          <6>2. \A i \in 1..entries[b].len :
                   heap'[b][entries[b].arr][i] = heap[b][entries[b].arr][i]
            <7> HIDE DEF a, b
            <7> QED
              BY <5>2, <6>1, <1>1, <1>5, <1>6, ListedKept
          <6> QED
            BY <6>1, <6>2, <4>1, <1>9, <3>1 DEF Listed
        <5> QED
          BY <5>1, <5>2
      <4>4. stored'[d] = stored[d] /\ results'[d] = results[d] /\ Len(heap'[b]) \in Nat
        BY <1>6, <1>10, <4>1
      <4>5. Window(d)'
        <5> HIDE DEF a
        <5> QED
          BY <1>1, <1>5, <1>9, <3>1, <3>4, <4>2, <4>3, <4>4, WindowKept
      <4> QED
        BY <3>2, <4>5
    <3> QED
      BY <3>2, <3>3, <3>4
  <2> QED
    BY <2>1, <2>2
<1> QED
  BY <1>5, <1>7, <1>8, <1>11, <1>12, TypeParts DEF IInv

\* A Read begins: its copy of the slice is the list.
LEMMA BeginKeeps ==
    ASSUME IInv, NEW c \in Callers, NEW a \in Agents, BeginRead(c, a)
    PROVE  IInv'
<1>1. /\ TypeOK /\ LocalsOK /\ Backed /\ Mutex
      /\ \A d \in Callers : Shift(d) /\ Window(d)
  BY DEF IInv
<1>2. /\ UNCHANGED <<heap, entries, audit, tampered, written, results, moved>>
      /\ Free /\ a # None
  BY MemoryAssumption DEF BeginRead, store
<1>3. Types /\ \A b \in Agents : SliceOK(b)
  BY <1>1, TypeParts
<1>4. /\ pc[c] = "idle" /\ pc'[c] = "read" /\ agent'[c] = a
      /\ stored'[c] = entries[a] /\ seen'[c] = Listed(a, entries[a])
      /\ \A d \in Callers \ {c} : /\ pc'[d] = pc[d] /\ agent'[d] = agent[d]
                                  /\ stored'[d] = stored[d] /\ seen'[d] = seen[d]
  BY <1>1, <1>3 DEF BeginRead, Goto, Types, LocalsOK
<1>5. Listed(a, entries[a]) \subseteq Entry /\ entries[a] \in [arr : Nat, len : Nat]
  BY <1>3 DEF SliceOK, Types
<1>6. Types'
  <2>1. /\ pc' \in [Callers -> {"idle", "log", "read", "alarm", "returned", "shift"}]
        /\ agent' \in [Callers -> Agents \cup {None}]
        /\ stored' \in [Callers -> [arr : Nat, len : Nat]]
    BY <1>3, <1>5 DEF BeginRead, Goto, Types
  <2>2. \A d \in Callers : pc'[d] # "idle" => agent'[d] # None
    BY <1>2, <1>3, <1>4 DEF Types
  <2> QED
    BY <1>2, <1>3, <2>1, <2>2 DEF Types
<1>7. Backed' /\ \A b \in Agents : SliceOK(b)'
  BY <1>1, <1>2, StoreStays
<1>8. LocalsOK'
  <2>1. /\ seen' \in [Callers -> SUBSET Entry]
        /\ stale' \in [Callers -> SUBSET Entry]
    BY <1>1, <1>3, <1>5 DEF BeginRead, LocalsOK, Types
  <2> QED
    BY <1>1, <1>2, <1>4, <2>1 DEF LocalsOK, IsReading
<1>9. Mutex'
  BY <1>1, <1>4 DEF Mutex
<1>10. ASSUME NEW d \in Callers PROVE Shift(d)' /\ Window(d)'
  <2>1. CASE d = c
    <3>1. results[c] = <<>>
      BY <1>1, <1>4 DEF LocalsOK, IsReading
    <3>2. Len(results[c]) = 0 /\ ResultsOf(c) = {}
      BY <3>1 DEF ResultsOf
    <3>3. Shift(c)'
      BY <1>4 DEF Shift
    <3>4. Window(c)'
      <4>1. /\ entries[a].arr \in 0..Len(heap[a]) /\ entries[a].len <= Cap(a, entries[a].arr)
            /\ entries[a].len \in Nat
        BY <1>3, <1>5 DEF SliceOK
      <4>2. ResultsOf(c)' = {}
        BY <1>2, <3>2 DEF ResultsOf
      <4>3. /\ Cap(a, entries[a].arr)' = Cap(a, entries[a].arr)
            /\ (Listed(agent[c], entries[agent[c]]))' = Listed(a, entries[a])
            /\ (Listed(agent[c], stored[c]))' = Listed(a, entries[a])
            /\ (Cap(agent[c], stored[c].arr))' = Cap(a, entries[a].arr)
        BY <1>2, <1>4 DEF Cap, Listed
      <4> QED
        BY <1>2, <1>4, <3>2, <4>1, <4>2, <4>3 DEF Window
    <3> QED
      BY <2>1, <3>3, <3>4
  <2>2. CASE d # c
    <3>1. pc'[d] = pc[d] /\ agent'[d] = agent[d] /\ Window(d)
      BY <2>2, <1>1, <1>4
    <3>2. Shift(d)'
      BY <3>1, <1>2, NobodyShifts
    <3>3. Window(d)'
      BY <2>2, <3>1, <1>2, <1>4, WindowStays DEF IsReading, Window
    <3> QED
      BY <3>2, <3>3
  <2> QED
    BY <2>1, <2>2
<1> QED
  BY <1>6, <1>7, <1>8, <1>9, <1>10, TypeParts DEF IInv

\* What a Read loads from a slot is an entry that it may see.
LEMMA Loaded ==
    ASSUME IInv, NEW c \in Callers, pc[c] = "read", Len(results[c]) < stored[c].len,
           NEW e, e = heap[agent[c]][stored[c].arr][Len(results[c]) + 1]
    PROVE  e \in seen[c] /\ e \in Entry
<1>1. stored[c].len \in Nat /\ Len(results[c]) \in Nat
  BY DEF IInv, TypeOK
<1>2. Len(results[c]) + 1 \in 1..stored[c].len
  BY <1>1
<1>3. Listed(agent[c], stored[c]) \subseteq seen[c]
  BY DEF IInv, Window, IsReading
<1>4. e \in seen[c]
  BY <1>2, <1>3 DEF Listed
<1> QED
  BY <1>4 DEF IInv, LocalsOK

\* A Read loads a slot or stops at one that was tampered with.
LEMMA LoadKeeps ==
    ASSUME IInv, NEW c \in Callers, ReadSlot(c)
    PROVE  IInv'
<1>1. /\ TypeOK /\ LocalsOK /\ Backed /\ Mutex
      /\ \A d \in Callers : Shift(d) /\ Window(d)
  BY DEF IInv
<1> DEFINE e == heap[agent[c]][stored[c].arr][Len(results[c]) + 1]
<1>2. /\ pc[c] = "read" /\ Len(results[c]) < stored[c].len
      /\ UNCHANGED <<heap, entries, audit, tampered, written, agent, stored, stale, moved, seen>>
  BY DEF ReadSlot, store
<1>3. e \in seen[c] /\ e \in Entry
  BY <1>2, Loaded
<1>4. \/ Goto(c, "read", "alarm") /\ UNCHANGED results
      \/ results' = [results EXCEPT ![c] = Append(results[c], e)] /\ UNCHANGED pc
  BY DEF ReadSlot
<1> HIDE DEF e
<1>5. Types /\ \A b \in Agents : SliceOK(b)
  BY <1>1, TypeParts
<1>6. results[c] \in Seq(Entry) /\ stored[c].len \in Nat /\ Len(results[c]) \in Nat
  BY <1>5 DEF Types
<1>7. /\ Append(results[c], e) \in Seq(Entry)
      /\ Len(Append(results[c], e)) = Len(results[c]) + 1
      /\ \A i \in 1..Len(results[c]) : Append(results[c], e)[i] = results[c][i]
      /\ Append(results[c], e)[Len(results[c]) + 1] = e
  BY <1>3, <1>6, AppendProperties
<1>8. /\ pc' \in [Callers -> {"idle", "log", "read", "alarm", "returned", "shift"}]
      /\ results' \in [Callers -> Seq(Entry)]
      /\ pc'[c] \in {"read", "alarm"}
      /\ \A d \in Callers \ {c} : pc'[d] = pc[d] /\ results'[d] = results[d]
      /\ Len(results'[c]) <= stored[c].len
      /\ results'[c] = results[c] \/ results'[c] = Append(results[c], e)
  <2>1. CASE Goto(c, "read", "alarm") /\ UNCHANGED results
    BY <2>1, <1>2, <1>5, <1>6 DEF Goto, Types
  <2>2. CASE results' = [results EXCEPT ![c] = Append(results[c], e)] /\ UNCHANGED pc
    <3>1. results'[c] = Append(results[c], e) /\ results' \in [Callers -> Seq(Entry)]
          /\ \A d \in Callers \ {c} : results'[d] = results[d]
      BY <2>2, <1>5, <1>7 DEF Types
    <3> QED
      BY <2>2, <3>1, <1>2, <1>5, <1>6, <1>7 DEF Types
  <2> QED
    BY <1>4, <2>1, <2>2
<1>9. ResultsOf(c)' \subseteq ResultsOf(c) \cup {e}
  <2>1. DOMAIN results[c] = 1..Len(results[c])
    BY <1>6
  <2>2. CASE results'[c] = results[c]
    BY <2>2 DEF ResultsOf
  <2>3. CASE results'[c] = Append(results[c], e)
    <3>1. DOMAIN results'[c] = 1..(Len(results[c]) + 1)
      BY <2>3, <1>6, <1>7
    <3>2. \A i \in 1..(Len(results[c]) + 1) :
             i \in 1..Len(results[c]) \/ i = Len(results[c]) + 1
      BY <1>6
    <3>3. \A i \in DOMAIN results'[c] : results'[c][i] \in ResultsOf(c) \cup {e}
      BY <2>1, <2>3, <3>1, <3>2, <1>7 DEF ResultsOf
    <3> QED
      BY <3>3 DEF ResultsOf
  <2> QED
    BY <1>8, <2>2, <2>3
<1>10. Types'
  BY <1>2, <1>5, <1>8 DEF Types
<1>11. Backed' /\ \A b \in Agents : SliceOK(b)'
  BY <1>1, <1>2, StoreStays
<1>12. LocalsOK' /\ Mutex'
  BY <1>1, <1>2, <1>8 DEF LocalsOK, Mutex, IsReading
<1>13. ASSUME NEW d \in Callers PROVE Shift(d)' /\ Window(d)'
  <2>1. Shift(d)'
    <3>1. CASE d = c
      BY <3>1, <1>8 DEF Shift
    <3>2. CASE d # c
      <4>1. \A f \in Callers : Reading(f, agent[d])' => Reading(f, agent[d])
        BY <1>2, <1>8 DEF Reading
      <4> QED
        BY <3>2, <4>1, <1>1, <1>2, <1>8, ShiftStays
    <3> QED
      BY <3>1, <3>2
  <2>2. Window(d)'
    <3>1. CASE d = c
      <4>1. Window(c) /\ IsReading(c)
        BY <1>1, <1>2 DEF IsReading
      <4>2. ResultsOf(c)' \subseteq seen[c]
        BY <4>1, <1>3, <1>9 DEF Window
      <4> QED
        BY <3>1, <4>1, <4>2, <1>2, <1>8 DEF Window, Cap, Listed
    <3>2. CASE d # c
      BY <3>2, <1>1, <1>2, <1>8, WindowStays DEF IsReading, Window
    <3> QED
      BY <3>1, <3>2
  <2> QED
    BY <2>1, <2>2
<1> QED
  BY <1>10, <1>11, <1>12, <1>13, TypeParts DEF IInv

\* A Read has loaded every slot.
LEMMA FinishKeeps ==
    ASSUME IInv, NEW c \in Callers, FinishRead(c)
    PROVE  IInv'
<1>1. /\ TypeOK /\ LocalsOK /\ Backed /\ Mutex
      /\ \A d \in Callers : Shift(d) /\ Window(d)
  BY DEF IInv
<1>2. UNCHANGED <<heap, entries, audit, tampered, written, agent, stored, results, stale,
                  moved, seen>>
  BY DEF FinishRead, store, read
<1>3. Types /\ \A b \in Agents : SliceOK(b)
  BY <1>1, TypeParts
<1>4. /\ pc' \in [Callers -> {"idle", "log", "read", "alarm", "returned", "shift"}]
      /\ pc[c] = "read" /\ pc'[c] = "returned"
      /\ \A d \in Callers \ {c} : pc'[d] = pc[d]
  BY <1>3 DEF FinishRead, Goto, Types
<1>5. Types'
  BY <1>2, <1>3, <1>4 DEF Types
<1>6. Backed' /\ \A b \in Agents : SliceOK(b)'
  BY <1>1, <1>2, StoreStays
<1>7. LocalsOK' /\ Mutex'
  BY <1>1, <1>2, <1>4 DEF LocalsOK, Mutex, IsReading
<1>8. ASSUME NEW d \in Callers PROVE Shift(d)' /\ Window(d)'
  <2>1. Shift(d)'
    <3>1. \A f \in Callers : Reading(f, agent[d])' => Reading(f, agent[d])
      BY <1>2, <1>4 DEF Reading
    <3>2. d = c => Shift(d)'
      BY <1>4 DEF Shift
    <3>3. d # c => Shift(d)'
      BY <3>1, <1>1, <1>2, <1>4, ShiftStays
    <3> QED
      BY <3>2, <3>3
  <2>2. Window(d)'
    <3>1. CASE IsReading(d)
      BY <3>1, <1>1, <1>2, WindowStays
    <3>2. CASE ~IsReading(d)
      BY <3>2, <1>4 DEF IsReading, Window
    <3> QED
      BY <3>1, <3>2
  <2> QED
    BY <2>1, <2>2
<1> QED
  BY <1>5, <1>6, <1>7, <1>8, TypeParts DEF IInv

\* The end of a Read, whatever else it does to the audit counts.
LEMMA EndKeeps ==
    ASSUME IInv, NEW c \in Callers, NEW from \in {"alarm", "returned"}, EndRead(c, from),
           UNCHANGED <<heap, entries, tampered, written, moved>>,
           audit' \in [Agents -> [Ops -> Nat]]
    PROVE  IInv'
<1>1. /\ TypeOK /\ LocalsOK /\ Backed /\ Mutex
      /\ \A d \in Callers : Shift(d) /\ Window(d)
  BY DEF IInv
<1>2. Types /\ \A b \in Agents : SliceOK(b)
  BY <1>1, TypeParts
<1>3. /\ pc[c] = from /\ pc'[c] = "idle" /\ results'[c] = <<>>
      /\ \A d \in Callers \ {c} :
            /\ pc'[d] = pc[d] /\ agent'[d] = agent[d] /\ stored'[d] = stored[d]
            /\ results'[d] = results[d] /\ seen'[d] = seen[d]
  BY <1>1, <1>2 DEF EndRead, Goto, Types, LocalsOK
<1>4. Types'
  <2>1. /\ pc' \in [Callers -> {"idle", "log", "read", "alarm", "returned", "shift"}]
        /\ agent' \in [Callers -> Agents \cup {None}]
        /\ stored' \in [Callers -> [arr : Nat, len : Nat]]
        /\ results' \in [Callers -> Seq(Entry)]
    BY <1>2 DEF EndRead, Goto, Types, Nil
  <2> QED
    BY <1>2, <1>3, <2>1 DEF Types
<1>5. Backed' /\ \A b \in Agents : SliceOK(b)'
  BY <1>1, StoreStays
<1>6. LocalsOK'
  <2>1. /\ seen' \in [Callers -> SUBSET Entry]
        /\ stale' \in [Callers -> SUBSET Entry]
    BY <1>1 DEF EndRead, LocalsOK
  <2> QED
    BY <1>1, <1>3, <2>1 DEF LocalsOK, IsReading
<1>7. Mutex'
  BY <1>1, <1>3 DEF Mutex
<1>8. ASSUME NEW d \in Callers PROVE Shift(d)' /\ Window(d)'
  <2>1. CASE d = c
    BY <2>1, <1>3 DEF Shift, Window, IsReading
  <2>2. CASE d # c
    <3>1. \A f \in Callers : f # c => seen'[f] = seen[f]
      BY <1>3
    <3>2. \A f \in Callers : Reading(f, agent[d])' => Reading(f, agent[d]) /\ f # c
      BY <2>2, <1>3 DEF Reading
    <3>3. Shift(d)'
      BY <2>2, <3>1, <3>2, <1>1, <1>3 DEF Shift
    <3>4. Window(d)'
      BY <2>2, <1>1, <1>3, WindowStays DEF IsReading, Window
    <3> QED
      BY <3>3, <3>4
  <2> QED
    BY <2>1, <2>2
<1> QED
  BY <1>4, <1>5, <1>6, <1>7, <1>8, TypeParts DEF IInv

\* A Read that failed is logged.
LEMMA AlarmKeeps ==
    ASSUME IInv, NEW c \in Callers, RaiseAlarm(c)
    PROVE  IInv'
<1>1. TypeOK /\ pc[c] = "alarm"
  BY DEF IInv, RaiseAlarm, EndRead, Goto
<1>2. agent[c] \in Agents
  BY <1>1, OfAgent
<1>3. audit' \in [Agents -> [Ops -> Nat]]
  <2>1. CASE LogRecord(agent[c], "integrity_fail")
    BY <2>1, <1>1, <1>2, Logged DEF Ops
  <2>2. CASE UNCHANGED audit
    BY <2>2, <1>1 DEF TypeOK
  <2> QED
    BY <2>1, <2>2 DEF RaiseAlarm
<1> QED
  BY <1>3, EndKeeps DEF RaiseAlarm

\* A Read returns.
LEMMA ReturnKeeps ==
    ASSUME IInv, NEW c \in Callers, ReturnResults(c)
    PROVE  IInv'
<1>1. audit' \in [Agents -> [Ops -> Nat]]
  BY DEF IInv, TypeOK, ReturnResults, store
<1> QED
  BY <1>1, EndKeeps DEF ReturnResults, store

\* A Delete has found its entry: what it will move is in the list.
LEMMA FindKeeps ==
    ASSUME IInv, NEW c \in Callers, NEW a \in Agents, NEW id \in Ids, FindEntry(c, a, id)
    PROVE  IInv'
<1>1. /\ TypeOK /\ LocalsOK /\ Backed /\ Mutex
      /\ \A d \in Callers : Shift(d) /\ Window(d)
  BY DEF IInv
<1>2. /\ UNCHANGED <<heap, entries, audit, tampered, written, stored, results, stale, seen>>
      /\ Free /\ a # None
  BY MemoryAssumption DEF FindEntry, store, read
<1>3. Types /\ \A b \in Agents : SliceOK(b)
  BY <1>1, TypeParts
<1>4. /\ pc[c] = "idle" /\ pc'[c] = "shift" /\ agent'[c] = a
      /\ \A d \in Callers \ {c} : pc'[d] = pc[d] /\ agent'[d] = agent[d]
  BY <1>3 DEF FindEntry, Goto, Types
<1>5. PICK i \in 1..entries[a].len :
         moved' = [moved EXCEPT ![c] =
                     [k \in i..(entries[a].len - 1) |-> heap[a][entries[a].arr][k + 1]]]
  BY DEF FindEntry
<1>6. /\ DOMAIN moved' = Callers
      /\ moved'[c] = [k \in i..(entries[a].len - 1) |-> heap[a][entries[a].arr][k + 1]]
  BY <1>1, <1>5 DEF LocalsOK
<1>7. entries[a].len \in Nat /\ i \in Nat /\ i >= 1 /\ entries[a].len >= 1
  BY <1>3 DEF Types
<1>8. Types'
  <2>1. /\ pc' \in [Callers -> {"idle", "log", "read", "alarm", "returned", "shift"}]
        /\ agent' \in [Callers -> Agents \cup {None}]
    BY <1>3 DEF FindEntry, Goto, Types
  <2>2. \A d \in Callers : pc'[d] # "idle" => agent'[d] # None
    BY <1>2, <1>3, <1>4 DEF Types
  <2> QED
    BY <1>2, <1>3, <2>1, <2>2 DEF Types
<1>9. Backed' /\ \A b \in Agents : SliceOK(b)'
  BY <1>1, <1>2, StoreStays
<1>10. LocalsOK'
  BY <1>1, <1>2, <1>4, <1>6 DEF LocalsOK, IsReading
<1>11. Mutex'
  BY <1>2, <1>4 DEF Mutex, Free
<1>12. Shift(c)'
  <2>1. DOMAIN moved'[c] \subseteq 1..(entries[a].len - 1)
    BY <1>6, <1>7
  <2>2. ASSUME NEW k \in DOMAIN moved'[c] PROVE moved'[c][k] \in Listed(a, entries[a])
    <3>1. k \in i..(entries[a].len - 1) /\ moved'[c][k] = heap[a][entries[a].arr][k + 1]
      BY <1>6
    <3>2. k + 1 \in 1..entries[a].len
      BY <3>1, <1>7
    <3> QED
      BY <3>1, <3>2 DEF Listed
  <2>3. Listed(a, entries[a]) \subseteq Entry
    BY <1>3 DEF SliceOK
  <2>4. \A d \in Callers : Reading(d, a)' => Listed(a, entries[a]) \subseteq seen[d]
    BY <1>1, <1>4 DEF Reading, Window, IsReading
  <2> QED
    BY <1>2, <1>4, <1>7, <2>1, <2>2, <2>3, <2>4 DEF Shift
<1>13. ASSUME NEW d \in Callers PROVE Shift(d)' /\ Window(d)'
  <2>1. CASE d = c
    BY <2>1, <1>4, <1>12 DEF Window, IsReading
  <2>2. CASE d # c
    <3>1. pc'[d] = pc[d] /\ agent'[d] = agent[d] /\ Window(d)
      BY <2>2, <1>1, <1>4
    <3>2. Shift(d)'
      BY <3>1, <1>2, NobodyShifts
    <3>3. Window(d)'
      BY <3>1, <1>2, WindowStays DEF IsReading, Window
    <3> QED
      BY <3>2, <3>3
  <2> QED
    BY <2>1, <2>2
<1> QED
  BY <1>8, <1>9, <1>10, <1>11, <1>13, TypeParts DEF IInv

\* A Delete overwrites a slot.
LEMMA ShiftKeeps ==
    ASSUME IInv, NEW c \in Callers, NEW k \in DOMAIN moved[c], ShiftSlot(c, k)
    PROVE  IInv'
<1> DEFINE a == agent[c]
           v == moved[c][k]
<1>1. /\ TypeOK /\ LocalsOK /\ Backed /\ Mutex
      /\ \A d \in Callers : Shift(d) /\ Window(d)
  BY DEF IInv
<1>2. /\ pc[c] = "shift"
      /\ moved' = [moved EXCEPT ![c] = [i \in DOMAIN moved[c] \ {k} |-> moved[c][i]]]
      /\ UNCHANGED <<entries, audit, tampered, written, pc, agent, stored, results, stale, seen>>
  BY DEF ShiftSlot, read
<1>3. /\ heap' \in Heap /\ Backed'
      /\ a \in Agents /\ v \in Entry
      /\ Kept(heap, heap', a, v)
  BY <1>1, Shifted
<1>4. \A b \in Agents : Len(heap'[b]) \in Nat
  BY <1>3, HeapTypes
<1>5. \A d \in Callers : Reading(d, a) => v \in seen[d]
  BY <1>1, <1>2 DEF Shift
<1> HIDE DEF v
<1>6. Types /\ \A b \in Agents : SliceOK(b)
  BY <1>1, TypeParts
<1>7. Types'
  BY <1>2, <1>3, <1>6 DEF Types, Heap, Slot
<1>8. \A b \in Agents : SliceOK(b)'
  BY <1>1, <1>2, <1>3, <1>4, SliceKept
<1>9. /\ DOMAIN moved' = Callers
      /\ \A d \in Callers \ {c} : moved'[d] = moved[d]
      /\ moved'[c] = [i \in DOMAIN moved[c] \ {k} |-> moved[c][i]]
  BY <1>1, <1>2 DEF LocalsOK
<1>10. LocalsOK' /\ Mutex'
  BY <1>1, <1>2, <1>9 DEF LocalsOK, Mutex, IsReading
<1>11. ASSUME NEW d \in Callers PROVE Shift(d)'
  <2>1. CASE d = c
    BY <2>1, <1>1, <1>2, <1>9 DEF Shift, Reading
  <2>2. CASE d # c
    BY <2>2, <1>1, <1>2 DEF Mutex, Shift
  <2> QED
    BY <2>1, <2>2
<1>12. ASSUME NEW d \in Callers PROVE Window(d)'
  <2>1. CASE ~IsReading(d)
    BY <2>1, <1>2 DEF IsReading, Window
  <2>2. CASE IsReading(d)
    <3> DEFINE b == agent[d]
               s == entries[b]
    <3>1. b \in Agents /\ Listed(b, s) \subseteq seen[d] /\ Window(d)
      BY <2>2, <1>1, OfAgent DEF Window, IsReading
    <3>2. b = a => v \in seen[d]
      BY <2>2, <1>5 DEF Reading, IsReading
    <3>3. s \in [arr : Nat, len : Nat] /\ s.arr \in 0..Len(heap[b]) /\ s.len <= Cap(b, s.arr)
      BY <3>1, <1>6 DEF Types, SliceOK
    <3>4. \A i \in 1..s.len :
             heap'[b][s.arr][i] = heap[b][s.arr][i] \/ (b = a /\ heap'[b][s.arr][i] = v)
      <4> HIDE DEF a, b, s
      <4> QED
        BY <3>1, <3>3, <1>1, <1>3, <1>4, ListedKept
    <3>5. (Listed(agent[d], entries[agent[d]]))' \subseteq seen'[d]
      BY <3>1, <3>2, <3>4, <1>2 DEF Listed
    <3>6. /\ agent'[d] = agent[d] /\ stored'[d] = stored[d] /\ results'[d] = results[d]
          /\ Len(heap'[agent[d]]) \in Nat /\ seen'[d] = seen[d]
      BY <1>2, <1>4, <3>1
    <3>7. agent[d] = a => v \in seen'[d]
      BY <3>2, <3>6
    <3> HIDE DEF a, b, s
    <3> QED
      BY <1>1, <1>3, <2>2, <3>1, <3>5, <3>6, <3>7, WindowKept
  <2> QED
    BY <2>1, <2>2
<1> QED
  BY <1>3, <1>7, <1>8, <1>10, <1>11, <1>12, TypeParts DEF IInv

\* A Delete is done: the list is one shorter.
LEMMA DeleteKeeps ==
    ASSUME IInv, NEW c \in Callers, FinishDelete(c)
    PROVE  IInv'
<1> DEFINE a == agent[c]
<1>1. /\ TypeOK /\ LocalsOK /\ Backed /\ Mutex
      /\ \A d \in Callers : Shift(d) /\ Window(d)
  BY DEF IInv
<1>2. /\ pc[c] = "shift"
      /\ entries' = [entries EXCEPT ![a] = [arr |-> entries[a].arr, len |-> entries[a].len - 1]]
      /\ moved' = [moved EXCEPT ![c] = <<>>]
      /\ UNCHANGED <<heap, tampered, written, stored, results, stale, seen>>
  BY DEF FinishDelete, Goto, read
<1>3. a \in Agents /\ entries[a].len >= 1
  BY <1>1, <1>2, OfAgent DEF Shift
<1>4. Types /\ \A b \in Agents : SliceOK(b)
  BY <1>1, TypeParts
<1>5. /\ pc' \in [Callers -> {"idle", "log", "read", "alarm", "returned", "shift"}]
      /\ agent' \in [Callers -> Agents \cup {None}]
      /\ pc'[c] = "idle"
      /\ \A d \in Callers \ {c} : pc'[d] = pc[d] /\ agent'[d] = agent[d]
  BY <1>4 DEF FinishDelete, Goto, Types
<1>6. audit' \in [Agents -> [Ops -> Nat]]
  BY <1>1, <1>3, Logged DEF FinishDelete, Ops
<1>7. entries[a] \in [arr : Nat, len : Nat] /\ entries[a].len \in Nat /\ entries[a].arr \in Nat
  BY <1>3, <1>4 DEF Types
<1>8. /\ entries' \in [Agents -> [arr : Nat, len : Nat]]
      /\ \A b \in Agents : /\ entries'[b].arr = entries[b].arr
                           /\ entries'[b].len \in Nat /\ entries[b].len \in Nat
                           /\ entries'[b].len <= entries[b].len
  BY <1>2, <1>3, <1>4, <1>7 DEF Types
<1>9. \A b \in Agents : (Listed(b, entries[b]))' \subseteq Listed(b, entries[b])
  BY <1>2, <1>8 DEF Listed
<1>10. \A b \in Agents : SliceOK(b)'
  <2> SUFFICES ASSUME NEW b \in Agents PROVE SliceOK(b)'
    OBVIOUS
  <2>1. /\ entries[b].arr \in 0..Len(heap[b])
        /\ entries[b].len <= Cap(b, entries[b].arr)
        /\ Listed(b, entries[b]) \subseteq Entry
    BY <1>4 DEF SliceOK
  <2>2. entries'[b].arr = entries[b].arr /\ entries'[b].len <= entries[b].len
        /\ entries'[b].len \in Nat /\ entries[b].len \in Nat
    BY <1>8
  <2>3. Cap(b, entries[b].arr) \in Nat
    <3>1. heap \in Heap
      BY <1>4 DEF Types, Heap, Slot
    <3>2. entries[b].arr \in Nat /\ Len(heap[b]) \in Nat
      BY <1>4, <3>1, HeapTypes DEF Types
    <3>3. entries[b].arr # 0 => Len(heap[b][entries[b].arr]) \in Nat
      BY <3>1, <3>2, <2>1, HeapTypes
    <3> QED
      BY <3>3 DEF Cap
  <2>4. (Cap(b, entries[b].arr))' = Cap(b, entries[b].arr)
    BY <1>2, <2>2 DEF Cap
  <2>5. entries'[b].len <= (Cap(b, entries[b].arr))'
    BY <2>1, <2>2, <2>3, <2>4
  <2>6. (Listed(b, entries[b]))' \subseteq Entry
    BY <2>1, <1>9
  <2> QED
    BY <2>1, <2>2, <2>5, <2>6, <1>2 DEF SliceOK
<1>11. Types'
  <2>1. \A d \in Callers : pc'[d] # "idle" => agent'[d] # None
    BY <1>4, <1>5 DEF Types
  <2> QED
    BY <1>2, <1>4, <1>5, <1>6, <1>8, <2>1 DEF Types
<1>12. Backed'
  BY <1>1, <1>2 DEF Backed
<1>13. LocalsOK' /\ Mutex'
  BY <1>1, <1>2, <1>5 DEF LocalsOK, Mutex, IsReading
<1>14. ASSUME NEW d \in Callers PROVE Shift(d)' /\ Window(d)'
  <2>1. CASE d = c
    BY <2>1, <1>5 DEF Shift, Window, IsReading
  <2>2. CASE d # c
    <3>1. pc'[d] = pc[d] /\ agent'[d] = agent[d] /\ Window(d) /\ pc[d] # "shift"
      BY <2>2, <1>1, <1>2, <1>5 DEF Mutex
    <3>2. Shift(d)'
      BY <3>1 DEF Shift
    <3>3. CASE ~IsReading(d)
      BY <3>1, <3>2, <3>3 DEF Window, IsReading
    <3>4. CASE IsReading(d)
      <4>1. agent[d] \in Agents
        BY <3>4, <1>1, OfAgent DEF IsReading
      <4>2. (Listed(agent[d], entries[agent[d]]))' \subseteq seen'[d]
        <5>1. Listed(agent[d], entries[agent[d]]) \subseteq seen[d]
          BY <3>1, <3>4 DEF Window
        <5>2. {heap'[agent[d]][entries'[agent[d]].arr][i] : i \in 1..entries'[agent[d]].len}
                \subseteq Listed(agent[d], entries[agent[d]])
          BY <4>1, <1>9 DEF Listed
        <5> QED
          BY <5>1, <5>2, <3>1, <1>2 DEF Listed
      <4>3. Window(d)'
        BY <3>1, <3>4, <4>2, <1>2 DEF Window, Cap, Listed, ResultsOf
      <4> QED
        BY <3>2, <4>3
    <3> QED
      BY <3>2, <3>3, <3>4
  <2> QED
    BY <2>1, <2>2
<1> QED
  BY <1>10, <1>11, <1>12, <1>13, <1>14, TypeParts DEF IInv

-----------------------------------------------------------------------------
(* The invariant holds *)

LEMMA Inductive == IInv /\ [Next]_vars => IInv'
<1> SUFFICES ASSUME IInv, [Next]_vars PROVE IInv'
  OBVIOUS
<1>1. CASE UNCHANGED vars
  <2>1. UNCHANGED <<heap, entries, audit, tampered, written, pc, agent, stored, results, stale,
                    moved, seen>>
    BY <1>1 DEF vars, store, read
  <2>2. TypeOK'
    BY <2>1 DEF IInv, TypeOK, Cap, Listed
  <2>3. LocalsOK' /\ Backed' /\ Mutex'
    BY <2>1 DEF IInv, LocalsOK, Backed, Mutex, IsReading
  <2>4. \A c \in Callers : Shift(c)' /\ Window(c)'
    BY <2>1 DEF IInv, Shift, Window, IsReading, Reading, Cap, Listed, ResultsOf
  <2> QED
    BY <2>2, <2>3, <2>4 DEF IInv
<1>2. CASE Next
  BY <1>2, RejectKeeps, TamperKeeps, InsertKeeps, LogKeeps, BeginKeeps, LoadKeeps, FinishKeeps,
     AlarmKeeps, ReturnKeeps, FindKeeps, ShiftKeeps, DeleteKeeps DEF Next
<1> QED
  BY <1>1, <1>2

LEMMA Initial == Init => IInv
<1> SUFFICES ASSUME Init PROVE IInv
  OBVIOUS
<1>1. /\ heap = [a \in Agents |-> <<>>]
      /\ \A a \in Agents : heap[a] = <<>> /\ Len(heap[a]) = 0
      /\ entries \in [Agents -> [arr : Nat, len : Nat]]
      /\ \A a \in Agents : entries[a].arr = 0 /\ entries[a].len = 0
  BY DEF Init, Nil
<1>2. <<>> \in Seq(Seq(Slot)) /\ <<>> \in Seq(Entry)
  OBVIOUS
<1>3. Types
  <2>1. heap \in [Agents -> Seq(Seq(Entry \cup {None}))]
    BY <1>1, <1>2 DEF Slot
  <2>2. stored \in [Callers -> [arr : Nat, len : Nat]] /\ results \in [Callers -> Seq(Entry)]
    BY <1>2 DEF Init, Nil
  <2> QED
    BY <1>1, <2>1, <2>2 DEF Init, Types
<1>4. \A a \in Agents : SliceOK(a)
  BY <1>1 DEF SliceOK, Cap, Listed
<1>5. LocalsOK /\ Backed /\ Mutex
  BY <1>1 DEF Init, LocalsOK, Backed, Mutex
<1>6. \A c \in Callers : Shift(c) /\ Window(c)
  BY DEF Init, Shift, Window, IsReading
<1>7. TypeOK
  BY <1>3, <1>4 DEF TypeOK, Types, SliceOK
<1> QED
  BY <1>5, <1>6, <1>7 DEF IInv

LEMMA Invariance == Spec => []IInv
BY Initial, Inductive, PTL DEF Spec

\* pkg/memory/memory.go: slices, audit counts and locals keep their types; no
\* list is longer than the array behind it.
THEOREM TypeCorrect == Spec => []TypeOK
<1>1. IInv => TypeOK
  BY DEF IInv
<1> QED
  BY <1>1, Invariance, PTL

\* However a Delete shifts the array and a Write fills it under a Read that
\* walks it without the lock (pkg/memory/memory.go:198), the Read returns only
\* entries that were in the store of its agent since it began.
THEOREM ReadsAreStored == Spec => []ReadReturnsStored
<1>1. IInv => ReadReturnsStored
  BY DEF IInv, Window, IsReading, ReadReturnsStored
<1> QED
  BY <1>1, Invariance, PTL

-----------------------------------------------------------------------------
(* Integrity *)

LEMMA StaysIntact == IInv /\ Intact /\ [Next]_vars => Intact'
<1> SUFFICES ASSUME IInv, Intact, [Next]_vars, NEW d \in Callers
             PROVE  stale'[d] \subseteq tampered' /\ ResultsOf(d)' \cap stale'[d] = {}
  BY DEF Intact
<1>1. /\ stale[d] \subseteq tampered /\ ResultsOf(d) \cap stale[d] = {}
      /\ results \in [Callers -> Seq(Entry)] /\ stale \in [Callers -> SUBSET Entry]
      /\ pc \in [Callers -> {"idle", "log", "read", "alarm", "returned", "shift"}]
      /\ ~IsReading(d) => results[d] = <<>>
  BY DEF Intact, IInv, TypeOK, LocalsOK
<1>2. ASSUME UNCHANGED <<stale, results>>, tampered \subseteq tampered'
      PROVE  stale'[d] \subseteq tampered' /\ ResultsOf(d)' \cap stale'[d] = {}
  BY <1>1, <1>2 DEF ResultsOf
<1>3. CASE UNCHANGED vars
  BY <1>2, <1>3 DEF vars, store, read
<1>4. ASSUME NEW a \in Agents, RejectWrite(a) PROVE UNCHANGED <<stale, results, tampered>>
  BY <1>4 DEF RejectWrite, read
<1>5. ASSUME NEW a \in Agents, NEW id \in Ids, Tamper(a, id)
      PROVE  UNCHANGED <<stale, results>> /\ tampered \subseteq tampered'
  BY <1>5 DEF Tamper, read
<1>6. ASSUME NEW c \in Callers, NEW e \in Entry, InsertEntry(c, e)
      PROVE  UNCHANGED <<stale, results, tampered>>
  BY <1>6 DEF InsertEntry, read
<1>7. ASSUME NEW c \in Callers, LogWrite(c) PROVE UNCHANGED <<stale, results, tampered>>
  BY <1>7 DEF LogWrite, read
<1>8. ASSUME NEW c \in Callers, NEW a \in Agents, BeginRead(c, a)
      PROVE  stale'[d] \subseteq tampered' /\ ResultsOf(d)' \cap stale'[d] = {}
  <2>1. UNCHANGED <<results, tampered>> /\ pc[c] = "idle"
    BY <1>8 DEF BeginRead, store, Goto
  <2>2. CASE d = c
    <3>1. stale'[d] = tampered /\ results[d] = <<>>
      BY <1>1, <1>8, <2>1, <2>2 DEF BeginRead, IsReading
    <3> QED
      BY <2>1, <3>1 DEF ResultsOf
  <2>3. CASE d # c
    <3>1. stale'[d] = stale[d]
      BY <1>1, <1>8, <2>3 DEF BeginRead
    <3> QED
      BY <1>1, <2>1, <3>1 DEF ResultsOf
  <2> QED
    BY <2>2, <2>3
<1>9. ASSUME NEW c \in Callers, ReadSlot(c)
      PROVE  stale'[d] \subseteq tampered' /\ ResultsOf(d)' \cap stale'[d] = {}
  <2> DEFINE e == heap[agent[c]][stored[c].arr][Len(results[c]) + 1]
  <2>1. UNCHANGED <<stale, tampered>> /\ pc[c] = "read" /\ Len(results[c]) < stored[c].len
    BY <1>9 DEF ReadSlot, store
  <2>2. e \in Entry
    BY <2>1, Loaded
  <2>3. \/ UNCHANGED results
        \/ e \notin tampered /\ results' = [results EXCEPT ![c] = Append(results[c], e)]
    BY <1>9 DEF ReadSlot
  <2> HIDE DEF e
  <2>4. CASE e \notin tampered /\ results' = [results EXCEPT ![c] = Append(results[c], e)]
    <3>1. CASE d = c
      <4>1. results'[d] = Append(results[d], e) /\ results[d] \in Seq(Entry)
        BY <1>1, <2>4, <3>1
      <4>2. /\ Append(results[d], e) \in Seq(Entry)
            /\ Len(Append(results[d], e)) = Len(results[d]) + 1
            /\ \A i \in 1..Len(results[d]) : Append(results[d], e)[i] = results[d][i]
            /\ Append(results[d], e)[Len(results[d]) + 1] = e
        BY <2>2, <4>1, AppendProperties
      <4>3. /\ DOMAIN results[d] = 1..Len(results[d]) /\ Len(results[d]) \in Nat
            /\ DOMAIN results'[d] = 1..(Len(results[d]) + 1)
        BY <4>1, <4>2
      <4>4. \A i \in DOMAIN results'[d] :
               i \in DOMAIN results[d] \/ i = Len(results[d]) + 1
        BY <4>3
      <4>5. \A i \in DOMAIN results'[d] : results'[d][i] \in ResultsOf(d) \cup {e}
        BY <4>1, <4>2, <4>3, <4>4 DEF ResultsOf
      <4>6. ResultsOf(d)' \subseteq ResultsOf(d) \cup {e}
        BY <4>5 DEF ResultsOf
      <4> QED
        BY <4>6, <1>1, <2>1, <2>4
    <3>2. CASE d # c
      <4>1. results'[d] = results[d]
        BY <1>1, <2>4, <3>2
      <4> QED
        BY <4>1, <1>1, <2>1 DEF ResultsOf
    <3> QED
      BY <3>1, <3>2
  <2> QED
    BY <2>1, <2>3, <2>4, <1>2
<1>10. ASSUME NEW c \in Callers, FinishRead(c) PROVE UNCHANGED <<stale, results, tampered>>
  BY <1>10 DEF FinishRead, store, read
<1>11. ASSUME NEW c \in Callers, NEW from, EndRead(c, from), UNCHANGED tampered
       PROVE  stale'[d] \subseteq tampered' /\ ResultsOf(d)' \cap stale'[d] = {}
  <2>1. CASE d = c
    <3>1. stale'[d] = {}
      BY <1>1, <1>11, <2>1 DEF EndRead
    <3> QED
      BY <3>1
  <2>2. CASE d # c
    <3>1. stale'[d] = stale[d] /\ results'[d] = results[d]
      BY <1>1, <1>11, <2>2 DEF EndRead
    <3> QED
      BY <3>1, <1>1, <1>11 DEF ResultsOf
  <2> QED
    BY <2>1, <2>2
<1>12. ASSUME NEW c \in Callers, RaiseAlarm(c) PROVE EndRead(c, "alarm") /\ UNCHANGED tampered
  BY <1>12 DEF RaiseAlarm
<1>13. ASSUME NEW c \in Callers, ReturnResults(c)
       PROVE  EndRead(c, "returned") /\ UNCHANGED tampered
  BY <1>13 DEF ReturnResults, store
<1>14. ASSUME NEW c \in Callers, NEW a \in Agents, NEW id \in Ids, FindEntry(c, a, id)
       PROVE  UNCHANGED <<stale, results, tampered>>
  BY <1>14 DEF FindEntry, store, read
<1>15. ASSUME NEW c \in Callers, NEW k \in DOMAIN moved[c], ShiftSlot(c, k)
       PROVE  UNCHANGED <<stale, results, tampered>>
  BY <1>15 DEF ShiftSlot, read
<1>16. ASSUME NEW c \in Callers, FinishDelete(c) PROVE UNCHANGED <<stale, results, tampered>>
  BY <1>16 DEF FinishDelete, read
<1>17. CASE Next
  BY <1>2, <1>4, <1>5, <1>6, <1>7, <1>8, <1>9, <1>10, <1>11, <1>12, <1>13, <1>14, <1>15, <1>16,
     <1>17 DEF Next
<1> QED
  BY <1>3, <1>17

\* The hash is recomputed for every slot (pkg/memory/memory.go:200): no result
\* of a Read was tampered with before the Read began.
THEOREM ReadsAreIntact == Spec => []ReadIsIntact
<1>1. Init => Intact
  BY DEF Init, Intact, ResultsOf
<1>2. Intact => ReadIsIntact
  BY DEF Intact, ReadIsIntact
<1> QED
  BY <1>1, <1>2, StaysIntact, Invariance, PTL DEF Spec

-----------------------------------------------------------------------------
(* The audit log adds up *)

\* The writes to a's list that are yet to be logged.
Late(a) == {c \in Callers : pc[c] = "log" /\ agent[c] = a}

Sum(a) == audit[a]["write"] + Cardinality(Late(a)) = entries[a].len + audit[a]["delete"]

LEMMA AddsUpParts ==
    /\ AuditAddsUp => \A a \in Agents : Sum(a)
    /\ (\A a \in Agents : Sum(a)') => AuditAddsUp'
BY DEF AuditAddsUp, Sum, Late

\* One goroutine enters or leaves a set of them.
LEMMA OneMore ==
    ASSUME NEW S \in SUBSET Callers, NEW c \in Callers
    PROVE  /\ Cardinality(S) \in Nat /\ Cardinality(S \ {c}) \in Nat
           /\ c \notin S => Cardinality(S \cup {c}) = Cardinality(S) + 1
           /\ c \in S => Cardinality(S \ {c}) = Cardinality(S) - 1
<1>1. IsFiniteSet(S) /\ IsFiniteSet(S \ {c})
  BY MemoryAssumption, FS_Subset
<1>2. Cardinality(S) \in Nat /\ Cardinality(S \ {c}) \in Nat
  BY <1>1, FS_CardinalityType
<1>3. c \notin S => Cardinality(S \cup {c}) = Cardinality(S) + 1
  BY <1>1, FS_AddElement
<1>4. c \in S => Cardinality(S \ {c}) = Cardinality(S) - 1
  BY <1>1, FS_RemoveElement
<1> QED
  BY <1>2, <1>3, <1>4

\* A step that neither writes, deletes nor logs one of them.
LEMMA SumStays ==
    ASSUME TypeOK, NEW a \in Agents, Sum(a), UNCHANGED entries,
           audit'[a]["write"] = audit[a]["write"], audit'[a]["delete"] = audit[a]["delete"],
           \A d \in Callers : (pc'[d] = "log" /\ agent'[d] = a) <=> (pc[d] = "log" /\ agent[d] = a)
    PROVE  Sum(a)'
<1>1. Late(a)' = Late(a)
  BY DEF Late
<1> QED
  BY <1>1 DEF Sum

\* The same for a step of a goroutine that is not to log a write.
LEMMA SumsStay ==
    ASSUME TypeOK, \A a \in Agents : Sum(a), UNCHANGED entries, NEW c \in Callers,
           NEW from, NEW to, Goto(c, from, to), from # "log", to # "log",
           \A d \in Callers \ {c} : agent'[d] = agent[d],
           \A a \in Agents : /\ audit'[a]["write"] = audit[a]["write"]
                             /\ audit'[a]["delete"] = audit[a]["delete"]
    PROVE  \A a \in Agents : Sum(a)'
<1>1. \A d \in Callers \ {c} : pc'[d] = pc[d]
  BY DEF Goto, TypeOK
<1>2. pc[c] # "log" /\ pc'[c] # "log"
  BY DEF Goto, TypeOK
<1> SUFFICES ASSUME NEW a \in Agents PROVE Sum(a)'
  OBVIOUS
<1>3. \A d \in Callers : (pc'[d] = "log" /\ agent'[d] = a) <=> (pc[d] = "log" /\ agent[d] = a)
  BY <1>1, <1>2
<1> QED
  BY <1>3, SumStays

LEMMA InsertAddsUp ==
    ASSUME IInv, \A a \in Agents : Sum(a), NEW c \in Callers, NEW e \in Entry, InsertEntry(c, e),
           NEW a \in Agents
    PROVE  Sum(a)'
<1>1. TypeOK /\ Backed
  BY DEF IInv
<1>2. /\ pc[c] = "idle" /\ pc'[c] = "log" /\ agent'[c] = e.agent /\ UNCHANGED audit
      /\ \A d \in Callers \ {c} : pc'[d] = pc[d] /\ agent'[d] = agent[d]
  BY <1>1 DEF InsertEntry, Goto, TypeOK
<1>3. e.agent \in Agents
  BY DEF Entry
<1>4. /\ \A b \in Agents \ {e.agent} : entries'[b] = entries[b]
      /\ entries'[e.agent].len = entries[e.agent].len + 1
  BY <1>1, <1>3, Appended DEF InsertEntry
<1>5. /\ audit[a]["write"] \in Nat /\ audit[a]["delete"] \in Nat /\ entries[a].len \in Nat
      /\ Sum(a)
  BY <1>1 DEF TypeOK, Ops
<1>6. CASE a = e.agent
  <2>1. Late(a)' = Late(a) \cup {c} /\ c \notin Late(a) /\ Late(a) \in SUBSET Callers
    BY <1>2, <1>6 DEF Late
  <2>2. Cardinality(Late(a)') = Cardinality(Late(a)) + 1 /\ Cardinality(Late(a)) \in Nat
    BY <2>1, OneMore
  <2> QED
    BY <2>2, <1>2, <1>4, <1>5, <1>6 DEF Sum
<1>7. CASE a # e.agent
  <2>1. Late(a)' = Late(a)
    BY <1>2, <1>7 DEF Late
  <2> QED
    BY <2>1, <1>2, <1>4, <1>5, <1>7 DEF Sum
<1> QED
  BY <1>6, <1>7

LEMMA LogAddsUp ==
    ASSUME IInv, \A a \in Agents : Sum(a), NEW c \in Callers, LogWrite(c), NEW a \in Agents
    PROVE  Sum(a)'
<1>1. TypeOK /\ UNCHANGED entries
  BY DEF IInv, LogWrite
<1>2. /\ pc[c] = "log" /\ pc'[c] = "idle"
      /\ \A d \in Callers \ {c} : pc'[d] = pc[d] /\ agent'[d] = agent[d]
  BY <1>1 DEF LogWrite, Goto, TypeOK
<1>3. agent[c] \in Agents
  BY <1>1, <1>2, OfAgent
<1>4. /\ audit'[agent[c]]["write"] = audit[agent[c]]["write"] + 1
      /\ \A b \in Agents, o \in Ops : b # agent[c] \/ o # "write" => audit'[b][o] = audit[b][o]
  BY <1>1, <1>3, Logged DEF LogWrite, Ops
<1>5. /\ audit[a]["write"] \in Nat /\ audit[a]["delete"] \in Nat /\ entries[a].len \in Nat
      /\ audit'[a]["delete"] = audit[a]["delete"] /\ Sum(a)
  BY <1>1, <1>4 DEF TypeOK, Ops
<1>6. CASE a = agent[c]
  <2>1. Late(a)' = Late(a) \ {c} /\ c \in Late(a) /\ Late(a) \in SUBSET Callers
    BY <1>2, <1>6 DEF Late
  <2>2. Cardinality(Late(a)') = Cardinality(Late(a)) - 1 /\ Cardinality(Late(a)) \in Nat
    BY <2>1, OneMore
  <2> QED
    BY <2>2, <1>1, <1>4, <1>5, <1>6 DEF Sum
<1>7. CASE a # agent[c]
  <2>1. Late(a)' = Late(a)
    BY <1>2, <1>7 DEF Late
  <2>2. audit'[a]["write"] = audit[a]["write"]
    BY <1>4, <1>7 DEF Ops
  <2> QED
    BY <2>1, <2>2, <1>1, <1>5 DEF Sum
<1> QED
  BY <1>6, <1>7

LEMMA DeleteAddsUp ==
    ASSUME IInv, \A a \in Agents : Sum(a), NEW c \in Callers, FinishDelete(c), NEW a \in Agents
    PROVE  Sum(a)'
<1> DEFINE b == agent[c]
<1>1. TypeOK /\ Shift(c)
  BY DEF IInv
<1>2. /\ pc[c] = "shift" /\ pc'[c] = "idle"
      /\ \A d \in Callers \ {c} : pc'[d] = pc[d] /\ agent'[d] = agent[d]
      /\ entries' = [entries EXCEPT ![b] = [arr |-> entries[b].arr, len |-> entries[b].len - 1]]
  BY <1>1 DEF FinishDelete, Goto, TypeOK
<1>3. b \in Agents
  BY <1>1, <1>2, OfAgent
<1>4. /\ audit'[b]["delete"] = audit[b]["delete"] + 1
      /\ \A x \in Agents, o \in Ops : x # b \/ o # "delete" => audit'[x][o] = audit[x][o]
  BY <1>1, <1>3, Logged DEF FinishDelete, Ops
<1>5. /\ entries'[b].len = entries[b].len - 1
      /\ \A x \in Agents \ {b} : entries'[x] = entries[x]
  BY <1>1, <1>2, <1>3 DEF TypeOK
<1>6. /\ audit[a]["write"] \in Nat /\ audit[a]["delete"] \in Nat /\ entries[a].len \in Nat
      /\ audit'[a]["write"] = audit[a]["write"] /\ Sum(a)
  BY <1>1, <1>4 DEF TypeOK, Ops
<1>7. Late(a)' = Late(a) /\ Late(a) \in SUBSET Callers
  BY <1>2 DEF Late
<1>8. Cardinality(Late(a)) \in Nat
  BY <1>7, OneMore
<1> HIDE DEF b
<1>9. CASE a = b
  BY <1>4, <1>5, <1>6, <1>7, <1>8, <1>9 DEF Sum
<1>10. CASE a # b
  <2>1. audit'[a]["delete"] = audit[a]["delete"] /\ entries'[a] = entries[a]
    BY <1>4, <1>5, <1>10 DEF Ops
  <2> QED
    BY <2>1, <1>6, <1>7 DEF Sum
<1> QED
  BY <1>9, <1>10

LEMMA StaysAddedUp == IInv /\ AuditAddsUp /\ [Next]_vars => AuditAddsUp'
<1> SUFFICES ASSUME IInv, AuditAddsUp, [Next]_vars PROVE \A a \in Agents : Sum(a)'
  BY AddsUpParts
<1>1. TypeOK /\ \A a \in Agents : Sum(a)
  BY AddsUpParts DEF IInv
<1>2. /\ pc \in [Callers -> {"idle", "log", "read", "alarm", "returned", "shift"}]
      /\ agent \in [Callers -> Agents \cup {None}]
  BY <1>1 DEF TypeOK
<1>3. ASSUME UNCHANGED <<entries, audit, pc, agent>> PROVE \A a \in Agents : Sum(a)'
  BY <1>1, <1>3, SumStays
<1>4. CASE UNCHANGED vars
  BY <1>3, <1>4 DEF vars, store
<1>5. ASSUME NEW b \in Agents, RejectWrite(b) PROVE \A a \in Agents : Sum(a)'
  <2>1. \A a \in Agents : /\ audit'[a]["write"] = audit[a]["write"]
                          /\ audit'[a]["delete"] = audit[a]["delete"]
    BY <1>1, <1>5, Logged DEF RejectWrite, Ops
  <2>2. UNCHANGED <<entries, pc, agent>>
    BY <1>5 DEF RejectWrite
  <2> QED
    BY <2>1, <2>2, <1>1, SumStays
<1>6. ASSUME NEW b \in Agents, NEW id \in Ids, Tamper(b, id) PROVE \A a \in Agents : Sum(a)'
  BY <1>3, <1>6 DEF Tamper
<1>7. ASSUME NEW c \in Callers, NEW e \in Entry, InsertEntry(c, e)
      PROVE  \A a \in Agents : Sum(a)'
  BY <1>1, <1>7, InsertAddsUp
<1>8. ASSUME NEW c \in Callers, LogWrite(c) PROVE \A a \in Agents : Sum(a)'
  BY <1>1, <1>8, LogAddsUp
<1>9. ASSUME NEW c \in Callers, NEW b \in Agents, BeginRead(c, b)
      PROVE  \A a \in Agents : Sum(a)'
  <2>1. /\ UNCHANGED <<entries, audit>> /\ Goto(c, "idle", "read")
        /\ \A d \in Callers \ {c} : agent'[d] = agent[d]
    BY <1>2, <1>9 DEF BeginRead, store
  <2> QED
    BY <2>1, <1>1, SumsStay
<1>10. ASSUME NEW c \in Callers, ReadSlot(c) PROVE \A a \in Agents : Sum(a)'
  <2>1. UNCHANGED <<entries, audit, agent>> /\ (Goto(c, "read", "alarm") \/ UNCHANGED pc)
    BY <1>10 DEF ReadSlot, store
  <2> QED
    BY <2>1, <1>1, <1>3, SumsStay
<1>11. ASSUME NEW c \in Callers, FinishRead(c) PROVE \A a \in Agents : Sum(a)'
  <2>1. UNCHANGED <<entries, audit, agent>> /\ Goto(c, "read", "returned")
    BY <1>11 DEF FinishRead, store
  <2> QED
    BY <2>1, <1>1, SumsStay
<1>12. ASSUME NEW c \in Callers, RaiseAlarm(c) PROVE \A a \in Agents : Sum(a)'
  <2>1. /\ UNCHANGED entries /\ Goto(c, "alarm", "idle")
        /\ \A d \in Callers \ {c} : agent'[d] = agent[d]
    BY <1>2, <1>12 DEF RaiseAlarm, EndRead
  <2>2. agent[c] \in Agents
    BY <1>1, <2>1, OfAgent DEF Goto
  <2>3. \A a \in Agents : /\ audit'[a]["write"] = audit[a]["write"]
                          /\ audit'[a]["delete"] = audit[a]["delete"]
    <3>1. CASE LogRecord(agent[c], "integrity_fail")
      BY <3>1, <2>2, <1>1, Logged DEF Ops
    <3>2. CASE UNCHANGED audit
      BY <3>2
    <3> QED
      BY <3>1, <3>2, <1>12 DEF RaiseAlarm
  <2> QED
    BY <2>1, <2>3, <1>1, SumsStay
<1>13. ASSUME NEW c \in Callers, ReturnResults(c) PROVE \A a \in Agents : Sum(a)'
  <2>1. /\ UNCHANGED <<entries, audit>> /\ Goto(c, "returned", "idle")
        /\ \A d \in Callers \ {c} : agent'[d] = agent[d]
    BY <1>2, <1>13 DEF ReturnResults, EndRead, store
  <2> QED
    BY <2>1, <1>1, SumsStay
<1>14. ASSUME NEW c \in Callers, NEW b \in Agents, NEW id \in Ids, FindEntry(c, b, id)
       PROVE  \A a \in Agents : Sum(a)'
  <2>1. /\ UNCHANGED <<entries, audit>> /\ Goto(c, "idle", "shift")
        /\ \A d \in Callers \ {c} : agent'[d] = agent[d]
    BY <1>2, <1>14 DEF FindEntry, store
  <2> QED
    BY <2>1, <1>1, SumsStay
<1>15. ASSUME NEW c \in Callers, NEW k \in DOMAIN moved[c], ShiftSlot(c, k)
       PROVE  \A a \in Agents : Sum(a)'
  BY <1>3, <1>15 DEF ShiftSlot
<1>16. ASSUME NEW c \in Callers, FinishDelete(c) PROVE \A a \in Agents : Sum(a)'
  BY <1>1, <1>16, DeleteAddsUp
<1>17. CASE Next
  BY <1>5, <1>6, <1>7, <1>8, <1>9, <1>10, <1>11, <1>12, <1>13, <1>14, <1>15, <1>16, <1>17
     DEF Next
<1> QED
  BY <1>4, <1>17

\* The record of a Write is logged after the lock was given up
\* (pkg/memory/memory.go:186): the writes that are counted and those about to be
\* account for the list and the deletions, with any number of goroutines.
THEOREM AuditAccounts == Spec => []AuditAddsUp
<1>1. Init => AuditAddsUp
  <2> SUFFICES ASSUME Init PROVE AuditAddsUp
    OBVIOUS
  <2>1. \A a \in Agents : Late(a) = {}
    BY DEF Init, Late
  <2>2. \A a \in Agents : /\ entries[a].len = 0
                          /\ audit[a]["write"] = 0 /\ audit[a]["delete"] = 0
    BY DEF Init, Nil, Ops
  <2> QED
    BY <2>1, <2>2, FS_EmptySet DEF AuditAddsUp, Late
<1> QED
  BY <1>1, StaysAddedUp, Invariance, PTL DEF Spec

-----------------------------------------------------------------------------
(* The store implements a list of entries for every agent *)

\* The lists as the slices show them, and as they are while c is shifting.
Stored ==
    [a \in Agents |-> [i \in 1..entries[a].len |-> heap[a][entries[a].arr][i]]]

Shorter(c) ==
    [i \in 1..(entries[agent[c]].len - 1) |->
        IF i \in DOMAIN moved[c] THEN moved[c][i] ELSE heap[agent[c]][entries[agent[c]].arr][i]]

Without(c) == [a \in Agents |-> IF a = agent[c] THEN Shorter(c) ELSE Stored[a]]

\* Without a Delete the slices show the lists.
LEMMA Quiet ==
    /\ Free => contents = Stored
    /\ Free' => contents' = Stored'
<1>1. ASSUME Free PROVE contents = Stored
  <2>1. \A a \in Agents : Shifting(a) = {}
    BY <1>1 DEF Free, Shifting
  <2>2. \A a \in Agents : Size(a) = entries[a].len
                          /\ \A i : Item(a, i) = heap[a][entries[a].arr][i]
    BY <2>1 DEF Size, Item, Holding
  <2> QED
    BY <2>2 DEF contents, Stored
<1>2. ASSUME Free' PROVE contents' = Stored'
  <2>1. \A a \in Agents : Shifting(a)' = {}
    BY <1>2 DEF Free, Shifting
  <2>2. \A a \in Agents : Size(a)' = entries'[a].len
                          /\ \A i : Item(a, i)' = heap'[a][entries'[a].arr][i]
    BY <2>1 DEF Size, Item, Holding
  <2> QED
    BY <2>2 DEF contents, Stored
<1> QED
  BY <1>1, <1>2

\* With one they show those of the other agents.
LEMMA Held ==
    ASSUME NEW c \in Callers
    PROVE  /\ Mutex /\ pc[c] = "shift" => contents = Without(c)
           /\ Mutex' /\ pc'[c] = "shift" => contents' = Without(c)'
<1>1. ASSUME Mutex, pc[c] = "shift" PROVE contents = Without(c)
  <2>1. \A a \in Agents : Shifting(a) = IF a = agent[c] THEN {c} ELSE {}
    BY <1>1 DEF Mutex, Shifting
  <2>2. \A a \in Agents : \A i :
           Holding(a, i) = IF a = agent[c] /\ i \in DOMAIN moved[c] THEN {c} ELSE {}
    BY <2>1 DEF Holding
  <2>3. \A a \in Agents : \A i :
           Item(a, i) = IF a = agent[c] /\ i \in DOMAIN moved[c] THEN moved[c][i]
                                                       ELSE heap[a][entries[a].arr][i]
    BY <2>2 DEF Item
  <2>4. \A a \in Agents :
           Size(a) = IF a = agent[c] THEN entries[a].len - 1 ELSE entries[a].len
    BY <2>1 DEF Size
  <2>5. ASSUME NEW a \in Agents
        PROVE  contents[a] = IF a = agent[c] THEN Shorter(c) ELSE Stored[a]
    <3>1. CASE a = agent[c]
      BY <3>1, <2>3, <2>4 DEF contents, Shorter
    <3>2. CASE a # agent[c]
      BY <3>2, <2>3, <2>4 DEF contents, Stored
    <3> QED
      BY <3>1, <3>2
  <2> QED
    BY <2>5 DEF contents, Without
<1>2. ASSUME Mutex', pc'[c] = "shift" PROVE contents' = Without(c)'
  <2>1. \A a \in Agents : Shifting(a)' = IF a = agent'[c] THEN {c} ELSE {}
    BY <1>2 DEF Mutex, Shifting
  <2>2. \A a \in Agents : \A i :
           Holding(a, i)' = IF a = agent'[c] /\ i \in DOMAIN moved'[c] THEN {c} ELSE {}
    BY <2>1 DEF Holding
  <2>3. \A a \in Agents : \A i :
           Item(a, i)' = IF a = agent'[c] /\ i \in DOMAIN moved'[c] THEN moved'[c][i]
                                                       ELSE heap'[a][entries'[a].arr][i]
    BY <2>2 DEF Item
  <2>4. \A a \in Agents :
           Size(a)' = IF a = agent'[c] THEN entries'[a].len - 1 ELSE entries'[a].len
    BY <2>1 DEF Size
  <2>5. ASSUME NEW a \in Agents
        PROVE  contents'[a] = IF a = agent'[c] THEN Shorter(c)' ELSE Stored'[a]
    <3>1. CASE a = agent'[c]
      BY <3>1, <2>3, <2>4 DEF contents, Shorter
    <3>2. CASE a # agent'[c]
      BY <3>2, <2>3, <2>4 DEF contents, Stored
    <3> QED
      BY <3>1, <3>2
  <2> QED
    BY <2>5 DEF contents, Without
<1> QED
  BY <1>1, <1>2

\* A step that leaves the slices and whoever shifts alone.
LEMMA ContentsStay ==
    ASSUME UNCHANGED <<heap, entries, moved>>,
           \A c \in Callers : pc'[c] = "shift" <=> pc[c] = "shift",
           \A c \in Callers : pc[c] = "shift" => agent'[c] = agent[c]
    PROVE  UNCHANGED contents
<1>1. \A a \in Agents : Shifting(a)' = Shifting(a)
  BY DEF Shifting
<1>2. \A a \in Agents : \A i : Holding(a, i)' = Holding(a, i)
  BY <1>1 DEF Holding
<1>3. ASSUME NEW a \in Agents, NEW i PROVE Item(a, i)' = Item(a, i)
  <2>1. (CHOOSE c \in Holding(a, i) : TRUE)' = CHOOSE c \in Holding(a, i) : TRUE
    BY <1>2, Zenon
  <2>2. Holding(a, i)' = Holding(a, i)
    BY <1>2
  <2> QED
    BY <2>1, <2>2, Zenon DEF Item
<1>4. \A a \in Agents : Size(a)' = Size(a)
  BY <1>1 DEF Size
<1> QED
  BY <1>3, <1>4 DEF contents

LEMMA ContentsStayAt ==
    ASSUME TypeOK, UNCHANGED <<heap, entries, moved>>, NEW c \in Callers, NEW from, NEW to,
           Goto(c, from, to), from # "shift", to # "shift",
           \A d \in Callers \ {c} : agent'[d] = agent[d]
    PROVE  UNCHANGED contents
<1>1. pc[c] = from /\ pc'[c] = to /\ \A d \in Callers \ {c} : pc'[d] = pc[d]
  BY DEF Goto, TypeOK
<1> QED
  BY <1>1, ContentsStay

-----------------------------------------------------------------------------

\* Write puts its entry at the end of the list.
LEMMA InsertIsWrite ==
    ASSUME IInv, NEW c \in Callers, NEW e \in Entry, InsertEntry(c, e)
    PROVE  Lists!Write(e)
<1> DEFINE a == e.agent
           n == entries[a].len
           old == Stored[a]
<1>1. TypeOK /\ Backed /\ a \in Agents /\ Append1(a, e)
  BY DEF IInv, Entry, InsertEntry
<1>2. contents = Stored /\ contents' = Stored'
  <2>1. Free /\ Free'
    BY <1>1 DEF InsertEntry, Free, Goto, TypeOK
  <2> QED
    BY <2>1, Quiet
<1>3. /\ \A b \in Agents \ {a} : entries'[b] = entries[b]
      /\ entries'[a].len = n + 1
      /\ \A i \in 1..(n + 1) :
            heap'[a][entries'[a].arr][i] = IF i = n + 1 THEN e ELSE heap[a][entries[a].arr][i]
  BY <1>1, Appended
<1>4. \A b \in Agents \ {a} : heap'[b] = heap[b]
  BY <1>1 DEF Append1, TypeOK
<1>5. n \in Nat
  BY <1>1 DEF TypeOK
<1>6. old = [i \in 1..n |-> heap[a][entries[a].arr][i]]
  BY <1>1 DEF Stored
<1>7. Stored'[a] = [i \in 1..(n + 1) |-> heap'[a][entries'[a].arr][i]]
  BY <1>1, <1>3 DEF Stored
<1>8. Stored'[a] = Append(old, e)
  <2>1. old \in Seq(Entry) /\ Len(old) = n
    <3>1. \A i \in 1..n : heap[a][entries[a].arr][i] \in Entry
      BY <1>1 DEF TypeOK, Listed
    <3> HIDE DEF n, old
    <3> QED
      BY <3>1, <1>5, <1>6
  <2>2. DOMAIN Stored'[a] = 1..(n + 1)
        /\ \A i \in 1..(n + 1) : Stored'[a][i] = IF i = n + 1 THEN e ELSE old[i]
    BY <1>3, <1>5, <1>6, <1>7
  <2> DEFINE new == Append(old, e)
  <2> HIDE DEF old, n
  <2>3. /\ DOMAIN new = 1..(n + 1)
        /\ \A i \in 1..(n + 1) : new[i] = IF i = n + 1 THEN e ELSE old[i]
    BY <2>1, <1>5
  <2>4. Stored'[a] = [i \in 1..(n + 1) |-> IF i = n + 1 THEN e ELSE old[i]]
    BY <2>2, <1>7
  <2>5. new = [i \in 1..(n + 1) |-> IF i = n + 1 THEN e ELSE old[i]]
    <3>1. new \in Seq(Entry)
      BY <2>1
    <3> HIDE DEF new
    <3> QED
      BY <3>1, <2>3
  <2> QED
    BY <2>4, <2>5
<1>9. \A b \in Agents \ {a} : Stored'[b] = Stored[b]
  BY <1>3, <1>4 DEF Stored
<1>10. Stored' = [Stored EXCEPT ![a] = Append(old, e)]
  BY <1>1, <1>8, <1>9 DEF Stored
<1> QED
  BY <1>2, <1>10 DEF Lists!Write

\* Delete takes the entry out when it has found it.
LEMMA FindIsDelete ==
    ASSUME IInv, NEW c \in Callers, NEW a \in Agents, NEW id \in Ids, FindEntry(c, a, id)
    PROVE  Lists!Delete(a, id)
<1> DEFINE n == entries[a].len
           h == heap[a][entries[a].arr]
           old == Stored[a]
           rest == [i \in 1..(n - 1) |-> h[i]]
<1>1. TypeOK /\ Free /\ UNCHANGED <<heap, entries>> /\ DOMAIN moved = Callers
  BY DEF IInv, LocalsOK, FindEntry, store
<1>2. Mutex' /\ pc'[c] = "shift" /\ agent'[c] = a
  <2>1. Mutex'
    BY FindKeeps DEF IInv
  <2>2. pc \in [Callers -> {"idle", "log", "read", "alarm", "returned", "shift"}]
        /\ agent \in [Callers -> Agents \cup {None}]
    BY <1>1 DEF TypeOK
  <2> QED
    BY <2>1, <2>2 DEF FindEntry, Goto
<1>3. contents = Stored /\ contents' = Without(c)'
  BY <1>1, <1>2, Quiet, Held
<1>4. PICK i \in 1..n :
         /\ IndexOf(a, id, i)
         /\ moved' = [moved EXCEPT ![c] = [k \in i..(n - 1) |-> h[k + 1]]]
  BY DEF FindEntry
<1>5. moved'[c] = [k \in i..(n - 1) |-> h[k + 1]]
  BY <1>1, <1>4
<1>6. n \in Nat /\ i \in Nat /\ 1 <= i /\ i <= n /\ \A k \in 1..n : h[k] \in Entry
  BY <1>1 DEF TypeOK, Listed
<1>7. old = [k \in 1..n |-> h[k]]
  BY DEF Stored
<1>8. Shorter(c)' = [k \in 1..(n - 1) |-> IF k \in i..(n - 1) THEN h[k + 1] ELSE h[k]]
  BY <1>1, <1>2, <1>5 DEF Shorter
<1>9. old \in Seq(Entry) /\ Len(old) = n
  <2> HIDE DEF n, h, old
  <2> QED
    BY <1>6, <1>7
<1>10. Shorter(c)' = SubSeq(old, 1, i - 1) \o SubSeq(old, i + 1, n)
  <2> DEFINE front == SubSeq(old, 1, i - 1)
             back == SubSeq(old, i + 1, n)
  <2> HIDE DEF old, n, h
  <2>1. /\ front \in Seq(Entry) /\ Len(front) = i - 1
        /\ \A k \in 1..(i - 1) : front[k] = h[k]
    BY <1>6, <1>7, <1>9
  <2>2. /\ back \in Seq(Entry) /\ Len(back) = n - i
        /\ \A k \in 1..(n - i) : back[k] = h[k + i]
    BY <1>6, <1>7, <1>9
  <2> HIDE DEF front, back
  <2>3. /\ front \o back \in Seq(Entry) /\ Len(front \o back) = Len(front) + Len(back)
        /\ \A k \in 1..(Len(front) + Len(back)) :
              (front \o back)[k] = IF k <= Len(front) THEN front[k] ELSE back[k - Len(front)]
    BY <2>1, <2>2, ConcatProperties
  <2>4. Len(front \o back) = n - 1
    BY <2>1, <2>2, <2>3, <1>6
  <2>5. ASSUME NEW k \in 1..(n - 1)
        PROVE  (front \o back)[k] = IF k \in i..(n - 1) THEN h[k + 1] ELSE h[k]
    <3>1. CASE k <= i - 1
      BY <3>1, <2>1, <2>2, <2>3, <1>6
    <3>2. CASE ~(k <= i - 1)
      <4>1. (front \o back)[k] = back[k - (i - 1)] /\ k - (i - 1) \in 1..(n - i)
        BY <3>2, <2>1, <2>2, <2>3, <1>6
      <4>2. back[k - (i - 1)] = h[k - (i - 1) + i] /\ k - (i - 1) + i = k + 1
        BY <4>1, <2>2, <1>6
      <4> QED
        BY <4>1, <4>2, <3>2, <1>6
    <3> QED
      BY <3>1, <3>2, <1>6
  <2>6. front \o back = [k \in 1..(n - 1) |-> IF k \in i..(n - 1) THEN h[k + 1] ELSE h[k]]
    <3> DEFINE both == front \o back
    <3>1. both \in Seq(Entry) /\ Len(both) = n - 1
      BY <2>3, <2>4
    <3>2. \A k \in 1..(n - 1) : both[k] = IF k \in i..(n - 1) THEN h[k + 1] ELSE h[k]
      BY <2>5
    <3> HIDE DEF both
    <3>3. both = [k \in 1..(n - 1) |-> both[k]]
      BY <3>1
    <3>4. both = [k \in 1..(n - 1) |-> IF k \in i..(n - 1) THEN h[k + 1] ELSE h[k]]
      BY <3>2, <3>3
    <3> QED
      BY <3>4 DEF both
  <2> QED
    BY <2>6, <1>8 DEF front, back
<1>11. \A b \in Agents \ {a} : Without(c)'[b] = Stored[b]
  BY <1>1, <1>2 DEF Without, Stored
<1>12. Without(c)'[a] = Shorter(c)'
  BY <1>2 DEF Without
<1> DEFINE new == SubSeq(old, 1, i - 1) \o SubSeq(old, i + 1, n)
<1>13. contents' = [contents EXCEPT ![a] = new]
  <2>1. Without(c)'[a] = new
    BY <1>10, <1>12
  <2>2. \A b \in Agents : Without(c)'[b] = IF b = a THEN new ELSE Stored[b]
    BY <2>1, <1>11
  <2> HIDE DEF new
  <2> QED
    BY <2>2, <1>3 DEF Without, Stored
<1>14. Lists!First(a, id, i)
  <2>1. contents[a] = old
    BY <1>3
  <2>2. \A k \in 1..n : old[k] = h[k]
    BY <1>7
  <2>3. h[i].id = id /\ \A j \in 1..(i - 1) : h[j].id # id
    BY <1>4 DEF IndexOf
  <2>4. i \in DOMAIN contents[a]
    BY <2>1, <1>7
  <2>5. \A j \in 1..(i - 1) : j \in 1..n
    BY <1>6
  <2> HIDE DEF old, h, n
  <2> QED
    BY <2>1, <2>2, <2>3, <2>4, <2>5 DEF Lists!First
<1>15. i \in 1..Len(contents[a]) /\ Len(contents[a]) = n
  BY <1>3, <1>9
<1>16. contents' = [contents EXCEPT ![a] = SubSeq(contents[a], 1, i - 1)
                                          \o SubSeq(contents[a], i + 1, Len(contents[a]))]
  BY <1>3, <1>13, <1>15
<1> QED
  BY <1>14, <1>15, <1>16 DEF Lists!Delete

\* Overwriting a slot with what is to be there changes no list.
LEMMA ShiftIsHidden ==
    ASSUME IInv, NEW c \in Callers, NEW k \in DOMAIN moved[c], ShiftSlot(c, k)
    PROVE  UNCHANGED contents
<1> DEFINE a == agent[c]
           n == entries[a].arr
<1>1. /\ TypeOK /\ LocalsOK /\ Backed /\ Mutex /\ Shift(c)
      /\ pc[c] = "shift" /\ a \in Agents
      /\ UNCHANGED <<entries, pc, agent>>
      /\ moved' = [moved EXCEPT ![c] = [i \in DOMAIN moved[c] \ {k} |-> moved[c][i]]]
  BY OfAgent DEF IInv, ShiftSlot
<1>2. Mutex'
  BY <1>1 DEF Mutex
<1>3. contents = Without(c) /\ contents' = Without(c)'
  BY <1>1, <1>2, Held
<1>4. moved'[c] = [i \in DOMAIN moved[c] \ {k} |-> moved[c][i]]
  BY <1>1 DEF LocalsOK
<1>5. IsPut(heap, heap', a, n, k, moved[c][k])
  BY <1>1, Shifted
<1>6. /\ entries[a] \in [arr : Nat, len : Nat] /\ n \in 0..Len(heap[a])
      /\ entries[a].len <= Cap(a, n)
  BY <1>1 DEF TypeOK
<1>7. /\ n # 0 => n \in 1..Len(heap[a]) /\ entries[a].len <= Len(heap[a][n])
      /\ \A i \in 1..entries[a].len : n # 0 /\ i \in 1..Len(heap[a][n])
  BY <1>1, <1>6, SliceFacts
<1>8. \A i \in 1..(entries[a].len - 1) :
         heap'[a][n][i] = IF i = k THEN moved[c][k] ELSE heap[a][n][i]
  <2>1. \A i \in 1..(entries[a].len - 1) : i \in 1..entries[a].len
    BY <1>6
  <2> QED
    BY <2>1, <1>1, <1>5, <1>7 DEF IsPut
<1>9. Shorter(c)' = Shorter(c)
  BY <1>1, <1>4, <1>8 DEF Shorter
<1>10. \A b \in Agents \ {a} : heap'[b] = heap[b]
  BY <1>1 DEF ShiftSlot, TypeOK
<1>11. \A b \in Agents \ {a} : Stored'[b] = Stored[b]
  BY <1>1, <1>10 DEF Stored
<1> QED
  BY <1>1, <1>3, <1>9, <1>11 DEF Without

\* When every slot is overwritten the shorter slice shows the list.
LEMMA FinishIsHidden ==
    ASSUME IInv, NEW c \in Callers, FinishDelete(c)
    PROVE  UNCHANGED contents
<1> DEFINE a == agent[c]
<1>1. /\ TypeOK /\ Mutex
      /\ pc[c] = "shift" /\ a \in Agents /\ DOMAIN moved[c] = {}
      /\ UNCHANGED heap /\ pc' = [pc EXCEPT ![c] = "idle"]
      /\ entries' = [entries EXCEPT ![a] = [arr |-> entries[a].arr, len |-> entries[a].len - 1]]
  BY OfAgent DEF IInv, FinishDelete, Goto
<1>2. Free'
  BY <1>1 DEF Mutex, Free, TypeOK
<1>3. contents = Without(c) /\ contents' = Stored'
  BY <1>1, <1>2, Held, Quiet
<1>4. /\ entries'[a].arr = entries[a].arr /\ entries'[a].len = entries[a].len - 1
      /\ \A b \in Agents \ {a} : entries'[b] = entries[b]
  BY <1>1 DEF TypeOK
<1>5. Stored'[a] = Shorter(c)
  <2>1. Stored'[a] = [i \in 1..entries'[a].len |-> heap'[a][entries'[a].arr][i]]
    BY <1>1 DEF Stored
  <2>2. Shorter(c) = [i \in 1..(entries[a].len - 1) |-> heap[a][entries[a].arr][i]]
    BY <1>1 DEF Shorter
  <2>3. heap' = heap
    BY <1>1
  <2> QED
    BY <2>1, <2>2, <2>3, <1>4
<1>6. \A b \in Agents \ {a} : Stored'[b] = Stored[b]
  BY <1>1, <1>4 DEF Stored
<1> QED
  BY <1>1, <1>3, <1>5, <1>6 DEF Without, Stored

LEMMA StepList == IInv /\ [Next]_vars => [Lists!Next]_contents
<1> SUFFICES ASSUME IInv, [Next]_vars PROVE Lists!Next \/ UNCHANGED contents
  OBVIOUS
<1>1. TypeOK /\ agent \in [Callers -> Agents \cup {None}]
  BY DEF IInv, TypeOK
<1>2. ASSUME UNCHANGED <<heap, entries, moved, pc, agent>> PROVE UNCHANGED contents
  BY <1>2, ContentsStay
<1>3. CASE UNCHANGED vars
  BY <1>2, <1>3 DEF vars, store
<1>4. ASSUME NEW b \in Agents, RejectWrite(b) PROVE UNCHANGED contents
  BY <1>2, <1>4 DEF RejectWrite
<1>5. ASSUME NEW b \in Agents, NEW id \in Ids, Tamper(b, id) PROVE UNCHANGED contents
  BY <1>2, <1>5 DEF Tamper
<1>6. ASSUME NEW c \in Callers, NEW e \in Entry, InsertEntry(c, e) PROVE Lists!Next
  BY <1>6, InsertIsWrite DEF Lists!Next
<1>7. ASSUME NEW c \in Callers, LogWrite(c) PROVE UNCHANGED contents
  <2>1. /\ UNCHANGED <<heap, entries, moved>> /\ Goto(c, "log", "idle")
        /\ \A d \in Callers \ {c} : agent'[d] = agent[d]
    BY <1>1, <1>7 DEF LogWrite
  <2> QED
    BY <2>1, <1>1, ContentsStayAt
<1>8. ASSUME NEW c \in Callers, NEW b \in Agents, BeginRead(c, b) PROVE UNCHANGED contents
  <2>1. /\ UNCHANGED <<heap, entries, moved>> /\ Goto(c, "idle", "read")
        /\ \A d \in Callers \ {c} : agent'[d] = agent[d]
    BY <1>1, <1>8 DEF BeginRead, store
  <2> QED
    BY <2>1, <1>1, ContentsStayAt
<1>9. ASSUME NEW c \in Callers, ReadSlot(c) PROVE UNCHANGED contents
  <2>1. UNCHANGED <<heap, entries, moved, agent>> /\ (Goto(c, "read", "alarm") \/ UNCHANGED pc)
    BY <1>9 DEF ReadSlot, store
  <2> QED
    BY <2>1, <1>1, <1>2, ContentsStayAt
<1>10. ASSUME NEW c \in Callers, FinishRead(c) PROVE UNCHANGED contents
  <2>1. UNCHANGED <<heap, entries, moved, agent>> /\ Goto(c, "read", "returned")
    BY <1>10 DEF FinishRead, store
  <2> QED
    BY <2>1, <1>1, ContentsStayAt
<1>11. ASSUME NEW c \in Callers, RaiseAlarm(c) PROVE UNCHANGED contents
  <2>1. /\ UNCHANGED <<heap, entries, moved>> /\ Goto(c, "alarm", "idle")
        /\ \A d \in Callers \ {c} : agent'[d] = agent[d]
    BY <1>1, <1>11 DEF RaiseAlarm, EndRead
  <2> QED
    BY <2>1, <1>1, ContentsStayAt
<1>12. ASSUME NEW c \in Callers, ReturnResults(c) PROVE UNCHANGED contents
  <2>1. /\ UNCHANGED <<heap, entries, moved>> /\ Goto(c, "returned", "idle")
        /\ \A d \in Callers \ {c} : agent'[d] = agent[d]
    BY <1>1, <1>12 DEF ReturnResults, EndRead, store
  <2> QED
    BY <2>1, <1>1, ContentsStayAt
<1>13. ASSUME NEW c \in Callers, NEW b \in Agents, NEW id \in Ids, FindEntry(c, b, id)
       PROVE  Lists!Next
  BY <1>13, FindIsDelete DEF Lists!Next
<1>14. ASSUME NEW c \in Callers, NEW k \in DOMAIN moved[c], ShiftSlot(c, k)
       PROVE  UNCHANGED contents
  BY <1>14, ShiftIsHidden
<1>15. ASSUME NEW c \in Callers, FinishDelete(c) PROVE UNCHANGED contents
  BY <1>15, FinishIsHidden
<1>16. CASE Next
  BY <1>4, <1>5, <1>6, <1>7, <1>8, <1>9, <1>10, <1>11, <1>12, <1>13, <1>14, <1>15, <1>16
     DEF Next
<1> QED
  BY <1>3, <1>16

\* Write and Delete (pkg/memory/memory.go:183, 219) change one agent's list in
\* one step each, for any number of goroutines, agents and entries, although
\* the array behind the list is reworked slot by slot and is shared by slices.
THEOREM KeepsLists == Spec => ImplementsEntryList
<1>1. Init => Lists!Init
  <2> SUFFICES ASSUME Init PROVE contents = [a \in Agents |-> <<>>]
    BY DEF Lists!Init
  <2>1. Free /\ \A a \in Agents : entries[a].len = 0
    BY DEF Init, Free, Nil
  <2>2. \A a \in Agents : [i \in 1..entries[a].len |-> heap[a][entries[a].arr][i]] = <<>>
    BY <2>1
  <2> QED
    BY <2>1, <2>2, Quiet DEF Stored
<1> QED
  BY <1>1, StepList, Invariance, PTL DEF Spec, ImplementsEntryList, Lists!Spec
=============================================================================
