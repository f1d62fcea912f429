--------------------------- MODULE FirstFitProofs ---------------------------
(***************************************************************************)
(* Theorems of the allocator's model under first fit: the heap is as next  *)
(* fit keeps it, and the table of records that first fit adds to the list  *)
(* stays in order and in its bounds, through the cut of a block,           *)
(* update_flp and its overflow, the search, the merge and the growth of    *)
(* the heap.  Where the records are exact the search gives the lowest      *)
(* block that fits.                                                        *)
(***************************************************************************)
EXTENDS FreeListProofs

-----------------------------------------------------------------------------
(* The table of first fit                                                   *)

\* Positions in the free list, 0 that of the sentinel, and addresses.
LEMMA PositionFacts ==
  ASSUME NEW n, Rising(n.fl)
  PROVE  /\ Len(n.fl) \in Nat /\ At(n, 0) = Nil
         /\ \A q \in 0 .. Len(n.fl) : /\ At(n, q) \in Range(n.fl) \cup {Nil}
                                      /\ At(n, q) \in Nat /\ Pos(n, At(n, q)) = q
         /\ \A q \in 1 .. Len(n.fl) : At(n, q) = n.fl[q] /\ n.fl[q] \in Range(n.fl)
         /\ \A p, q \in 0 .. Len(n.fl) : p < q <=> At(n, p) < At(n, q)
         /\ \A a \in Range(n.fl) \cup {Nil} : /\ Pos(n, a) \in 0 .. Len(n.fl)
                                              /\ At(n, Pos(n, a)) = a /\ a \in Nat
         /\ \A a, b \in Range(n.fl) \cup {Nil} : a < b <=> Pos(n, a) < Pos(n, b)
         /\ \A q \in 0 .. Len(n.fl) - 1 : Next_small(n, At(n, q)) = n.fl[q + 1]
<1>. DEFINE N == Len(n.fl)
            R == Range(n.fl)
<1>1. /\ N \in Nat /\ \A i \in 1 .. N : n.fl[i] \in R /\ n.fl[i] \in Nat \ {0}
      /\ \A i, j \in 1 .. N : n.fl[i] < n.fl[j] <=> i < j
      /\ \A a \in R : \E i \in 1 .. N : n.fl[i] = a
  BY RisingRange
<1>2. /\ Pos(n, Nil) = 0 /\ \A i \in 1 .. N : Pos(n, n.fl[i]) = i
  BY PosFacts
<1>3. At(n, 0) = Nil /\ \A q \in 1 .. N : At(n, q) = n.fl[q]
  BY DEF At
<1>4. \A q \in 0 .. N : q = 0 \/ q \in 1 .. N
  BY <1>1
<1>. DEFINE fl(i) == n.fl[i]
<1>5. \A q \in 0 .. N : At(n, q) \in R \cup {Nil} /\ At(n, q) \in Nat /\ Pos(n, At(n, q)) = q
  <2>. HIDE DEF N, R
  <2>1. ASSUME NEW q \in 0 .. N
        PROVE  At(n, q) \in R \cup {Nil} /\ At(n, q) \in Nat /\ Pos(n, At(n, q)) = q
    <3>1. CASE q = 0
      BY <1>2, <1>3, <3>1 DEF Nil
    <3>2. CASE q \in 1 .. N
      BY <1>1, <1>2, <1>3, <3>2
    <3>. QED BY <1>4, <3>1, <3>2
  <2>. QED BY <2>1
<1>6. \A p, q \in 0 .. N : p < q <=> At(n, p) < At(n, q)
  <2>. HIDE DEF N, R
  <2>1. ASSUME NEW p \in 0 .. N, NEW q \in 0 .. N PROVE p < q <=> At(n, p) < At(n, q)
    <3>1. CASE p \in 1 .. N /\ q \in 1 .. N
      BY <1>1, <1>3, <3>1
    <3>2. CASE p = 0 /\ q \in 1 .. N
      <4>1. At(n, p) = 0 /\ At(n, q) \in Nat \ {0}
        BY <1>1, <1>3, <3>2 DEF Nil
      <4>. QED BY <3>2, <4>1
    <3>3. CASE q = 0
      <4>1. At(n, q) = 0 /\ At(n, p) \in Nat
        BY <1>3, <1>5, <3>3 DEF Nil
      <4>. QED BY <3>3, <4>1
    <3>. QED BY <1>4, <3>1, <3>2, <3>3
  <2>. QED BY <2>1
<1>7. \A a \in R \cup {Nil} : Pos(n, a) \in 0 .. N /\ At(n, Pos(n, a)) = a /\ a \in Nat
  <2>. HIDE DEF N, R
  <2>1. ASSUME NEW a \in R PROVE Pos(n, a) \in 0 .. N /\ At(n, Pos(n, a)) = a /\ a \in Nat
    <3>1. PICK i \in 1 .. N : n.fl[i] = a
      BY <1>1
    <3>. QED BY <1>1, <1>2, <1>3, <3>1
  <2>2. Pos(n, Nil) \in 0 .. N /\ At(n, Pos(n, Nil)) = Nil /\ Nil \in Nat
    BY <1>1, <1>2, <1>3 DEF Nil
  <2>. QED BY <2>1, <2>2
<1>8. \A a, b \in R \cup {Nil} : a < b <=> Pos(n, a) < Pos(n, b)
  <2>. HIDE DEF N, R
  <2>. QED BY <1>6, <1>7
<1>9. \A q \in 0 .. N - 1 : Next_small(n, At(n, q)) = n.fl[q + 1]
  <2>. HIDE DEF N, R
  <2>1. ASSUME NEW q \in 0 .. N - 1 PROVE Next_small(n, At(n, q)) = n.fl[q + 1]
    <3>1. q \in 0 .. N /\ q + 1 \in 1 .. N
      BY <1>1
    <3>. QED BY <1>3, <1>5, <3>1 DEF Next_small
  <2>. QED BY <2>1
<1>10. /\ N \in Nat /\ At(n, 0) = Nil
       /\ \A q \in 1 .. N : At(n, q) = n.fl[q] /\ n.fl[q] \in R
  BY <1>1, <1>3
<1>. QED BY <1>5, <1>6, <1>7, <1>8, <1>9, <1>10

\* flp rises through blocks of the list S, or the sentinel, that have a
\* successor in it, and beyond is null or a block after them.
Table(S, flp, beyond) ==
  /\ flp \in Seq(Nat)
  /\ \A i \in 1 .. Len(flp) : flp[i] \in S \cup {Nil} /\ \E b \in S : flp[i] < b
  /\ \A i, j \in 1 .. Len(flp) : i < j => flp[i] < flp[j]
  /\ beyond \in S \cup {Nil}
  /\ beyond # Nil => \A i \in 1 .. Len(flp) : flp[i] < beyond

\* A prefix of the table, for another list and another beyond.
LEMMA TablePrefix ==
  ASSUME NEW S, NEW flp, NEW beyond, Table(S, flp, beyond), NEW k \in 0 .. Len(flp),
         NEW T, \A i \in 1 .. k : flp[i] \in T \cup {Nil} /\ \E b \in T : flp[i] < b,
         NEW x \in T \cup {Nil}, x # Nil => \A i \in 1 .. k : flp[i] < x
  PROVE  Table(T, SubSeq(flp, 1, k), x)
<1>. DEFINE s == SubSeq(flp, 1, k)
<1>1. flp \in Seq(Nat) /\ \A i, j \in 1 .. Len(flp) : i < j => flp[i] < flp[j]
  BY DEF Table
<1>2. s \in Seq(Nat) /\ Len(s) = k /\ \A i \in 1 .. k : s[i] = flp[i] /\ i \in 1 .. Len(flp)
  BY <1>1
<1>. HIDE DEF s
<1>. QED BY <1>1, <1>2 DEF Table, s

\* What first fit keeps of its own besides the list.
FlpOk(n) ==
  /\ n.prev = Nil /\ n.flpmax \in Nat \ {0} /\ Len(n.flp) <= n.flpmax
  /\ Table(Range(n.fl), n.flp, n.beyond)

\* Before counts the records whose blocks lie before changed.
LEMMA Before_facts ==
  ASSUME NEW n, Rising(n.fl), Table(Range(n.fl), n.flp, n.beyond), NEW changed \in Nat
  PROVE  /\ Before(n, changed) \in 0 .. Len(n.flp)
         /\ \A i \in 1 .. Before(n, changed) :
              \E b \in Range(n.fl) : n.flp[i] < b /\ b < changed
         /\ Before(n, changed) # 0 =>
              Next_small(n, n.flp[Before(n, changed)]) < changed
<1>. DEFINE N == Len(n.flp)
            T == {0} \union {i \in 1 .. N : Next_small(n, n.flp[i]) < changed}
            x == Before(n, changed)
            R == Range(n.fl)
<1>1. /\ N \in Nat /\ \A i \in 1 .. N : n.flp[i] \in R \cup {Nil} /\ \E b \in R : n.flp[i] < b
      /\ \A i, j \in 1 .. N : i < j => n.flp[i] < n.flp[j]
      /\ \A i \in 1 .. N : n.flp[i] \in Nat
  BY DEF Table
<1>2. x = Max(T)
  BY DEF Before
<1>3. T \in SUBSET (0 .. N) /\ T # {}
  BY <1>1
<1>. HIDE DEF x
<1>4. x \in T /\ \A i \in T : i <= x
  <2>. HIDE DEF T, N
  <2>. QED BY <1>1, <1>2, <1>3, MaxOf
<1>5. x \in 0 .. N /\ (x # 0 => x \in 1 .. N /\ Next_small(n, n.flp[x]) < changed)
  BY <1>1, <1>3, <1>4
<1>6. ASSUME NEW i \in 1 .. x PROVE \E b \in R : n.flp[i] < b /\ b < changed
  <2>. DEFINE b == Next_small(n, n.flp[x])
  <2>1. x \in 1 .. N /\ b < changed
    BY <1>5
  <2>2. NextAbove(R, n.flp[x], b) /\ \E c \in R : n.flp[x] < c
    <3>1. n.flp[x] \in R \cup {Nil}
      BY <1>1, <2>1
    <3>. QED BY <1>1, <2>1, <3>1, NextSmallFacts
  <2>3. b \in R /\ n.flp[x] < b
    BY <2>2 DEF NextAbove
  <2>4. n.flp[i] <= n.flp[x] /\ i \in 1 .. N
    <3>1. i \in 1 .. N /\ (i = x \/ i < x)
      BY <1>1, <1>5
    <3>. QED BY <1>1, <2>1, <3>1
  <2>5. b \in Nat /\ n.flp[i] \in Nat /\ n.flp[x] \in Nat
    <3>1. \A a \in R : a \in Nat
      BY RisingRange
    <3>. QED BY <1>1, <2>1, <2>3, <2>4, <3>1
  <2>. HIDE DEF b
  <2>. QED BY <2>1, <2>3, <2>4, <2>5
<1>. QED BY <1>5, <1>6 DEF x

\* k is n with the table flp and beyond.
Tabled(n, k, flp, beyond) ==
  Allocator(k) /\ k.flp = flp /\ k.beyond = beyond
  /\ \A f \in Fields \ {"flp", "beyond"} : k[f] = n[f]

\* A new table, a new beyond, or both.
LEMMA TableSets ==
  \A n, flp, beyond : Allocator(n) =>
    /\ Tabled(n, [n EXCEPT !.flp = flp, !.beyond = beyond], flp, beyond)
    /\ Tabled(n, [n EXCEPT !.flp = flp], flp, n.beyond)
    /\ Tabled(n, [n EXCEPT !.beyond = beyond], n.flp, beyond)
<1>. SUFFICES ASSUME NEW n, NEW flp, NEW beyond, Allocator(n)
              PROVE  /\ Tabled(n, [n EXCEPT !.flp = flp, !.beyond = beyond], flp, beyond)
                     /\ Tabled(n, [n EXCEPT !.flp = flp], flp, n.beyond)
                     /\ Tabled(n, [n EXCEPT !.beyond = beyond], n.flp, beyond)
  OBVIOUS
<1>. DEFINE a == [n EXCEPT !["flp"] = flp]
            b == [a EXCEPT !["beyond"] = beyond]
            d == [n EXCEPT !["beyond"] = beyond]
<1>1. "flp" \in Fields \ {"blk"} /\ "beyond" \in Fields \ {"blk"} /\ "flp" # "beyond"
  BY DEF Fields
<1>2. /\ a = [n EXCEPT !.flp = flp] /\ b = [n EXCEPT !.flp = flp, !.beyond = beyond]
      /\ d = [n EXCEPT !.beyond = beyond]
  OBVIOUS
<1>3. Changed(n, a, "flp", flp)
  <2>. HIDE DEF b, d
  <2>. QED BY <1>1, FieldChanges
<1>4. Changed(n, d, "beyond", beyond)
  <2>. HIDE DEF a, b
  <2>. QED BY <1>1, FieldChanges
<1>. HIDE DEF a, d
<1>5. Changed(a, b, "beyond", beyond)
  <2>1. Allocator(a)
    BY <1>3 DEF Changed
  <2>. QED BY <1>1, <2>1, FieldChanges
<1>. HIDE DEF b
<1>6. Tabled(n, a, flp, n.beyond)
  BY <1>1, <1>3 DEF Changed, Tabled, Fields
<1>7. Tabled(n, d, n.flp, beyond)
  BY <1>1, <1>4 DEF Changed, Tabled, Fields
<1>8. Tabled(n, b, flp, beyond)
  <2>1. b.flp = a.flp /\ a.flp = flp /\ b.beyond = beyond /\ Allocator(b)
    BY <1>1, <1>3, <1>5 DEF Changed, Fields
  <2>2. \A f \in Fields \ {"flp", "beyond"} : b[f] = a[f] /\ a[f] = n[f]
    BY <1>3, <1>5 DEF Changed
  <2>. QED BY <2>1, <2>2 DEF Tabled
<1>. QED BY <1>2, <1>6, <1>7, <1>8

\* The table and beyond stop before the block changed of the list.
Stops(n, k, changed) ==
  /\ Tabled(n, k, k.flp, k.beyond) /\ Len(k.flp) <= Len(n.flp)
  /\ \A T : {b \in Range(n.fl) : b <= changed} \subseteq T => Table(T, k.flp, k.beyond)
  /\ k.beyond # Nil => k.beyond < changed
  /\ k.flp # <<>> => Next_small(n, k.flp[Len(k.flp)]) < changed

\* ff_truncate_flp stops the table before the changed block.
LEMMA TruncateStops ==
  ASSUME NEW n, Allocator(n), Rising(n.fl), Table(Range(n.fl), n.flp, n.beyond),
         NEW changed \in Range(n.fl) \cup {Nil}
  PROVE  Stops(n, ff_truncate_flp(n, changed), changed)
<1>. DEFINE k == ff_truncate_flp(n, changed)
            R == Range(n.fl)
            B == Before(n, changed)
            s == SubSeq(n.flp, 1, B)
            y == IF n.beyond >= changed THEN Nil ELSE n.beyond
<1>1. /\ n.flp \in Seq(Nat) /\ Len(n.flp) \in Nat
      /\ \A i \in 1 .. Len(n.flp) : n.flp[i] \in R \cup {Nil}
      /\ \A i, j \in 1 .. Len(n.flp) : i < j => n.flp[i] < n.flp[j]
      /\ n.beyond \in R \cup {Nil}
      /\ n.beyond # Nil => \A i \in 1 .. Len(n.flp) : n.flp[i] < n.beyond
  BY DEF Table
<1>2. R \subseteq Nat \ {0} /\ changed \in Nat /\ n.beyond \in Nat
  BY <1>1, RisingRange DEF Nil
<1>3. ASSUME changed = Nil PROVE Stops(n, k, changed)
  <2>1. k = [n EXCEPT !.flp = <<>>, !.beyond = Nil]
    BY <1>3 DEF ff_truncate_flp
  <2>. HIDE DEF k
  <2>2. Tabled(n, k, <<>>, Nil)
    <3>. DEFINE none == <<>>
                nothing == Nil
    <3>. HIDE DEF none, nothing
    <3>1. Tabled(n, [n EXCEPT !.flp = none, !.beyond = nothing], none, nothing)
      BY TableSets
    <3>. QED BY <2>1, <3>1 DEF none, nothing
  <2>3. k.flp = <<>> /\ k.beyond = Nil
    BY <2>2 DEF Tabled
  <2>4. \A T : Table(T, <<>>, Nil)
    BY DEF Table
  <2>. QED BY <1>1, <2>2, <2>3, <2>4 DEF Stops
<1>4. ASSUME changed # Nil PROVE Stops(n, k, changed)
  <2>1. k = [n EXCEPT !.flp = s, !.beyond = y]
    BY <1>4 DEF ff_truncate_flp
  <2>2. changed \in R
    BY <1>4
  <2>3. /\ B \in 0 .. Len(n.flp)
        /\ \A i \in 1 .. B : \E b \in R : n.flp[i] < b /\ b < changed
        /\ B # 0 => Next_small(n, n.flp[B]) < changed
    BY <1>2, Before_facts
  <2>. HIDE DEF k, B, y
  <2>4. Tabled(n, k, s, y)
    <3>. HIDE DEF s
    <3>. QED BY <2>1, TableSets
  <2>5. y \in Nat /\ (y # Nil => y = n.beyond /\ y < changed)
    BY <1>2 DEF y, Nil
  <2>6. s \in Seq(Nat) /\ Len(s) = B /\ \A i \in 1 .. B : s[i] = n.flp[i]
    BY <1>1, <2>3
  <2>. HIDE DEF s
  <2>7. ASSUME NEW T, {b \in R : b <= changed} \subseteq T PROVE Table(T, s, y)
    <3>1. \A i \in 1 .. B : i \in 1 .. Len(n.flp)
      BY <1>1, <2>3
    <3>2. ASSUME NEW i \in 1 .. B PROVE n.flp[i] \in T \cup {Nil} /\ \E b \in T : n.flp[i] < b
      <4>1. PICK b \in R : n.flp[i] < b /\ b < changed
        BY <2>3
      <4>2. n.flp[i] \in Nat /\ b \in Nat /\ n.flp[i] \in R \cup {Nil}
        BY <1>1, <1>2, <3>1
      <4>3. b <= changed /\ (n.flp[i] \in R => n.flp[i] <= changed)
        BY <1>2, <4>1, <4>2
      <4>. QED BY <2>7, <4>1, <4>2, <4>3
    <3>3. y \in T \cup {Nil}
      <4>. SUFFICES ASSUME y # Nil PROVE y \in T
        OBVIOUS
      <4>1. y \in R /\ y <= changed
        BY <1>1, <1>2, <2>5
      <4>. QED BY <2>7, <4>1
    <3>4. y # Nil => \A i \in 1 .. B : n.flp[i] < y
      BY <1>1, <2>5, <3>1
    <3>5. Table(T, SubSeq(n.flp, 1, B), y)
      BY <2>3, <3>2, <3>3, <3>4, TablePrefix
    <3>. QED BY <3>5 DEF s
  <2>8. k.flp = s /\ k.beyond = y
    BY <2>4 DEF Tabled
  <2>9. Len(s) <= Len(n.flp)
    BY <1>1, <2>3, <2>6
  <2>10. s # <<>> => Next_small(n, s[Len(s)]) < changed
    <3>. SUFFICES ASSUME s # <<>> PROVE Next_small(n, s[Len(s)]) < changed
      OBVIOUS
    <3>1. B # 0
      BY <2>6
    <3>2. B \in 1 .. B
      BY <1>1, <2>3, <3>1
    <3>. QED BY <2>3, <2>6, <3>1, <3>2
  <2>. QED BY <2>4, <2>5, <2>7, <2>8, <2>9, <2>10 DEF Stops
<1>. QED BY <1>3, <1>4 DEF k

\* The sweeper gives a white block back to first fit.
LEMMA FirstMerges ==
  ASSUME NEW n, NEW C, NEW sc, NEW lv, HeapInv(n, C, sc, lv), FlpOk(n),
         n.phase = "sweep", n.hp < Limit(sc), n.blk[n.hp].col = "white"
  PROVE  LET r == ff_merge_block([n EXCEPT !.hp = Next_in_mem(n, n.hp)], n.hp)
             k == [r.m EXCEPT !.hp = r.next]
         IN  HeapInv(k, C, sc, lv) /\ FlpOk(k)
<1>. DEFINE q == [n EXCEPT !.hp = Next_in_mem(n, n.hp)]
            p == ff_truncate_flp(q, q.merge)
            r == nf_merge_block(p, n.hp)
            k == [r.m EXCEPT !.hp = r.next]
<1>1. Changed(n, q, "hp", Next_in_mem(n, n.hp))
  <2>. DEFINE v == Next_in_mem(n, n.hp)
  <2>1. Allocator(n) /\ "hp" \in Fields \ {"blk"}
    BY HeapFacts DEF Fields
  <2>2. q = [n EXCEPT !["hp"] = v]
    OBVIOUS
  <2>. HIDE DEF v, q
  <2>3. Changed(n, q, "hp", v)
    BY <2>1, <2>2, FieldChanges
  <2>. QED BY <2>3 DEF v
<1>. HIDE DEF q
<1>2. /\ Allocator(q) /\ q.blk = n.blk /\ q.fl = n.fl /\ q.merge = n.merge /\ q.frag = n.frag
      /\ q.phase = n.phase /\ q.least = n.least /\ q.prev = n.prev /\ q.wsz = n.wsz
      /\ q.flp = n.flp /\ q.beyond = n.beyond /\ q.flpmax = n.flpmax
  BY <1>1 DEF Changed, Fields
<1>3. /\ n.prev = Nil /\ n.flpmax \in Nat \ {0} /\ Len(n.flp) <= n.flpmax
      /\ Table(Range(n.fl), n.flp, n.beyond) /\ Len(n.flp) \in Nat
  BY DEF FlpOk, Table
<1>4. /\ Rising(n.fl) /\ Range(n.fl) \in SUBSET (Nat \ {0}) /\ n.merge \in Range(n.fl) \cup {Nil}
  BY HeapFacts, SweeperFacts DEF NextBelow
<1>5. Stops(q, p, n.merge)
  BY <1>2, <1>3, <1>4, TruncateStops
<1>6. q.merge = n.merge
  BY <1>2
<1>. HIDE DEF p
<1>7. /\ Tabled(q, p, p.flp, p.beyond) /\ Len(p.flp) <= Len(n.flp)
      /\ \A T : {b \in Range(n.fl) : b <= n.merge} \subseteq T => Table(T, p.flp, p.beyond)
  BY <1>2, <1>5 DEF Stops
<1>8. /\ Allocator(p) /\ p.blk = n.blk /\ p.fl = n.fl /\ p.merge = n.merge /\ p.frag = n.frag
      /\ p.phase = n.phase /\ p.least = n.least /\ p.prev = n.prev /\ p.wsz = n.wsz
      /\ p.flpmax = n.flpmax
  BY <1>2, <1>7 DEF Tabled, Fields
<1>9. AtMerge(n, p) /\ n.prev \in Range(n.fl) \cup {Nil}
  BY <1>3, <1>8 DEF AtMerge
<1>10. HeapInv(k, C, sc, lv) /\ Before_merge(p, k)
  BY <1>8, <1>9, MergeKeeps
<1>. HIDE DEF k
<1>11. FlpOk(k)
  <2>1. k.flp = p.flp /\ k.beyond = p.beyond /\ k.flpmax = n.flpmax /\ k.prev = Nil
    BY <1>3, <1>8, <1>10 DEF Before_merge
  <2>2. {b \in Range(n.fl) : b <= n.merge} \subseteq Range(k.fl)
    BY <1>4, <1>8, <1>10 DEF Before_merge
  <2>3. Table(Range(k.fl), k.flp, k.beyond)
    BY <1>7, <2>1, <2>2
  <2>4. Len(k.flp) \in Nat
    BY <2>3 DEF Table
  <2>. QED BY <1>3, <1>7, <2>1, <2>3, <2>4 DEF FlpOk
<1>. QED BY <1>10, <1>11 DEF k, r, p, q, ff_merge_block

\* A sequence of addresses, null perhaps, that rise.
Climbs(s) == s \in Seq(Nat) /\ \A i, j \in 1 .. Len(s) : i < j => s[i] < s[j]

\* Two rising sequences, one after the other, rise.
LEMMA ClimbsOn ==
  ASSUME NEW x, Climbs(x), NEW y, Climbs(y),
         \A i \in 1 .. Len(x), j \in 1 .. Len(y) : x[i] < y[j]
  PROVE  /\ Climbs(x \o y) /\ Len(x \o y) = Len(x) + Len(y)
         /\ \A k \in 1 .. Len(x \o y) : \/ \E i \in 1 .. Len(x) : (x \o y)[k] = x[i]
                                        \/ \E j \in 1 .. Len(y) : (x \o y)[k] = y[j]
<1>. DEFINE z == x \o y
            p == Len(x)
            q == Len(y)
<1>1. /\ x \in Seq(Nat) /\ y \in Seq(Nat)
      /\ \A i, j \in 1 .. p : i < j => x[i] < x[j]
      /\ \A i, j \in 1 .. q : i < j => y[i] < y[j]
  BY DEF Climbs
<1>2. /\ z \in Seq(Nat) /\ Len(z) = p + q /\ p \in Nat /\ q \in Nat
      /\ \A j \in 1 .. p : z[j] = x[j]
      /\ \A j \in 1 .. q : z[p + j] = y[j]
  BY <1>1, Concatenated
<1>. HIDE DEF z, p, q
<1>3. \A k \in 1 .. p + q : k \in 1 .. p \/ (k - p \in 1 .. q /\ k = p + (k - p))
  BY <1>2
<1>4. \A k \in 1 .. p + q : k \in 1 .. p \/ (k - p \in 1 .. q /\ z[k] = y[k - p])
  BY <1>2, <1>3
<1>5. ASSUME NEW i \in 1 .. p + q, NEW j \in 1 .. p + q, i < j PROVE z[i] < z[j]
  <2>1. CASE i \in 1 .. p /\ j \in 1 .. p
    BY <1>1, <1>2, <1>5, <2>1 DEF p
  <2>2. CASE i \in 1 .. p /\ j \notin 1 .. p
    BY <1>2, <1>4, <2>2 DEF p, q
  <2>3. CASE i \notin 1 .. p /\ j \notin 1 .. p
    <3>1. i - p \in 1 .. q /\ j - p \in 1 .. q /\ z[i] = y[i - p] /\ z[j] = y[j - p]
      BY <1>4, <2>3
    <3>2. i - p < j - p
      BY <1>2, <1>5
    <3>. QED BY <1>1, <3>1, <3>2 DEF q
  <2>4. CASE i \notin 1 .. p /\ j \in 1 .. p
    BY <1>2, <1>5, <2>4
  <2>. QED BY <2>1, <2>2, <2>3, <2>4
<1>6. Climbs(z)
  BY <1>2, <1>5 DEF Climbs
<1>7. \A k \in 1 .. p + q : \/ \E i \in 1 .. p : z[k] = x[i]
                            \/ \E j \in 1 .. q : z[k] = y[j]
  BY <1>2, <1>4
<1>. QED BY <1>2, <1>6, <1>7 DEF z, p, q

\* s is what Maxima finds.
AreMaxima(s, n, lo, hi, base) ==
  /\ Rising(s) /\ Len(s) \in Nat
  /\ \A k \in 1 .. Len(s) : s[k] \in lo .. hi /\ Sz(n, n.fl[s[k]]) > base
  /\ \A x \in lo .. hi :
       Sz(n, n.fl[x]) > base /\ (\A j \in lo .. x - 1 : Sz(n, n.fl[j]) < Sz(n, n.fl[x]))
         => \E k \in 1 .. Len(s) : s[k] = x

\* The positions that Maxima finds.
LEMMA MaximaFacts ==
  ASSUME NEW n, NEW lo \in Nat \ {0}, NEW hi \in Nat, NEW base
  PROVE  AreMaxima(Maxima(n, lo, hi, base), n, lo, hi, base)
<1>. DEFINE S == {k \in lo .. hi : /\ Sz(n, n.fl[k]) > base
                                   /\ \A j \in lo .. k - 1 : Sz(n, n.fl[j]) < Sz(n, n.fl[k])}
            s == Maxima(n, lo, hi, base)
<1>1. s = Sorted(S)
  BY DEF Maxima
<1>2. S \in SUBSET (Nat \ {0}) /\ IsFiniteSet(S)
  <2>1. IsFiniteSet(lo .. hi)
    BY FS_Interval
  <2>2. S \subseteq lo .. hi
    OBVIOUS
  <2>3. lo .. hi \subseteq Nat \ {0}
    OBVIOUS
  <2>. HIDE DEF S
  <2>. QED BY <2>1, <2>2, <2>3, FS_Subset
<1>. HIDE DEF s
<1>3. Rising(s) /\ Range(s) = S
  <2>. HIDE DEF S
  <2>. QED BY <1>1, <1>2, SortedFacts
<1>4. /\ Len(s) \in Nat /\ \A k \in 1 .. Len(s) : s[k] \in S
      /\ \A x \in S : \E k \in 1 .. Len(s) : s[k] = x
  <2>. HIDE DEF S
  <2>. QED BY <1>3, RisingRange
<1>5. AreMaxima(s, n, lo, hi, base)
  BY <1>3, <1>4 DEF AreMaxima
<1>. QED BY <1>5 DEF s

\* The records of the first j positions of s, between the positions a and e.
LEMMA RecordsOf ==
  ASSUME NEW n, Rising(n.fl), NEW a \in 0 .. Len(n.fl), NEW e \in 0 .. Len(n.fl),
         NEW s, Rising(s), \A k \in 1 .. Len(s) : s[k] \in a + 1 .. e,
         NEW j \in 0 .. Len(s)
  PROVE  LET t == [k \in 1 .. j |-> At(n, s[k] - 1)]
         IN  /\ Climbs(t) /\ Len(t) = j
             /\ \A k \in 1 .. j : /\ t[k] \in Range(n.fl) \cup {Nil}
                                  /\ At(n, a) <= t[k] /\ t[k] < At(n, e)
                                  /\ Next_small(n, t[k]) = n.fl[s[k]]
                                  /\ n.fl[s[k]] \in Range(n.fl) /\ t[k] < n.fl[s[k]]
<1>. DEFINE t == [k \in 1 .. j |-> At(n, s[k] - 1)]
            N == Len(n.fl)
            R == Range(n.fl)
<1>1. /\ N \in Nat
      /\ \A q \in 0 .. N : At(n, q) \in R \cup {Nil} /\ At(n, q) \in Nat
      /\ \A q \in 1 .. N : At(n, q) = n.fl[q] /\ n.fl[q] \in R
      /\ \A p, q \in 0 .. N : p < q <=> At(n, p) < At(n, q)
      /\ \A q \in 0 .. N - 1 : Next_small(n, At(n, q)) = n.fl[q + 1]
  BY PositionFacts
<1>2. /\ Len(s) \in Nat /\ \A k, h \in 1 .. Len(s) : s[k] < s[h] <=> k < h
  BY RisingRange
<1>3. a \in 0 .. N /\ e \in 0 .. N
  OBVIOUS
<1>. HIDE DEF N, R
<1>4. \A k \in 1 .. j : /\ k \in 1 .. Len(s) /\ s[k] \in Nat /\ s[k] - 1 \in 0 .. N - 1
                        /\ s[k] - 1 \in 0 .. N /\ s[k] \in 1 .. N /\ (s[k] - 1) + 1 = s[k]
                        /\ a <= s[k] - 1 /\ s[k] - 1 < e
  <2>. SUFFICES ASSUME NEW k \in 1 .. j
                PROVE  /\ k \in 1 .. Len(s) /\ s[k] \in Nat /\ s[k] - 1 \in 0 .. N - 1
                       /\ s[k] - 1 \in 0 .. N /\ s[k] \in 1 .. N /\ (s[k] - 1) + 1 = s[k]
                       /\ a <= s[k] - 1 /\ s[k] - 1 < e
    OBVIOUS
  <2>1. k \in 1 .. Len(s)
    BY <1>2
  <2>2. s[k] \in a + 1 .. e
    BY <2>1
  <2>. DEFINE x == s[k]
  <2>3. a \in Nat /\ e \in Nat /\ e <= N /\ x \in a + 1 .. e
    BY <1>1, <1>3, <2>2
  <2>. HIDE DEF x
  <2>4. x \in Nat /\ a + 1 <= x /\ x <= e
    BY <2>3
  <2>5. /\ x - 1 \in 0 .. N - 1 /\ x - 1 \in 0 .. N /\ x \in 1 .. N /\ (x - 1) + 1 = x
        /\ a <= x - 1 /\ x - 1 < e
    BY <1>1, <2>3, <2>4
  <2>. QED BY <2>1, <2>4, <2>5 DEF x
<1>5. ASSUME NEW k \in 1 .. j
      PROVE  /\ t[k] = At(n, s[k] - 1) /\ t[k] \in R \cup {Nil} /\ t[k] \in Nat
             /\ At(n, a) <= t[k] /\ t[k] < At(n, e)
             /\ Next_small(n, t[k]) = n.fl[s[k]] /\ n.fl[s[k]] \in R /\ t[k] < n.fl[s[k]]
  <2>. DEFINE q == s[k] - 1
  <2>1. /\ q \in 0 .. N - 1 /\ q \in 0 .. N /\ q + 1 \in 1 .. N /\ q + 1 = s[k]
        /\ a <= q /\ q < e /\ q \in Nat /\ q < q + 1 /\ q + 1 \in 0 .. N
    <3>1. q \in 0 .. N - 1 /\ q \in 0 .. N /\ q + 1 = s[k] /\ a <= q /\ q < e
      BY <1>4
    <3>. HIDE DEF q
    <3>2. q + 1 \in 1 .. N /\ q \in Nat /\ q < q + 1 /\ q + 1 \in 0 .. N
      BY <1>1, <3>1
    <3>. QED BY <3>1, <3>2
  <2>2. t[k] = At(n, q)
    OBVIOUS
  <2>. HIDE DEF q, t
  <2>3. At(n, a) <= At(n, q)
    <3>1. a = q \/ a < q
      BY <1>3, <2>1
    <3>2. At(n, a) \in Nat /\ At(n, q) \in Nat
      BY <1>1, <1>3, <2>1
    <3>. QED BY <1>1, <1>3, <2>1, <3>1, <3>2
  <2>4. At(n, q) < At(n, e)
    BY <1>1, <1>3, <2>1
  <2>5. At(n, q + 1) = n.fl[q + 1] /\ n.fl[q + 1] \in R /\ Next_small(n, At(n, q)) = n.fl[q + 1]
    BY <1>1, <2>1
  <2>6. At(n, q) < At(n, q + 1)
    BY <1>1, <2>1
  <2>7. At(n, q) \in R \cup {Nil} /\ At(n, q) \in Nat
    BY <1>1, <2>1
  <2>. QED BY <2>1, <2>2, <2>3, <2>4, <2>5, <2>6, <2>7 DEF q
<1>6. j \in Nat
  BY <1>2
<1>7. t \in Seq(Nat) /\ Len(t) = j
  <2>1. t \in [1 .. j -> Nat]
    <3>1. \A k \in 1 .. j : At(n, s[k] - 1) \in Nat
      BY <1>5
    <3>. QED BY <3>1
  <2>. HIDE DEF t
  <2>. QED BY <1>6, <2>1
<1>8. \A k, h \in 1 .. j : k < h => t[k] < t[h]
  <2>. SUFFICES ASSUME NEW k \in 1 .. j, NEW h \in 1 .. j, k < h PROVE t[k] < t[h]
    OBVIOUS
  <2>1. /\ s[k] < s[h] /\ s[k] \in Nat /\ s[h] \in Nat
        /\ s[k] - 1 \in 0 .. N /\ s[h] - 1 \in 0 .. N
    BY <1>2, <1>4
  <2>2. s[k] - 1 < s[h] - 1
    BY <2>1
  <2>3. At(n, s[k] - 1) < At(n, s[h] - 1)
    BY <1>1, <2>1, <2>2
  <2>. QED BY <1>5, <2>3
<1>. HIDE DEF t
<1>9. Climbs(t)
  BY <1>7, <1>8 DEF Climbs
<1>. QED BY <1>5, <1>7, <1>9 DEF t, R

\* The table while the record i is put right: the next record may be the same,
\* and beyond means nothing when i is the last one.
Loose(S, flp, beyond, i) ==
  /\ flp \in Seq(Nat)
  /\ \A j \in 1 .. Len(flp) : flp[j] \in S \cup {Nil} /\ \E b \in S : flp[j] < b
  /\ \A j, k \in 1 .. Len(flp) :
       j < k => flp[j] < flp[k] \/ (j = i /\ k = i + 1 /\ flp[j] = flp[k])
  /\ i # Len(flp) => /\ beyond \in S \cup {Nil}
                     /\ beyond # Nil => \A j \in 1 .. Len(flp) : flp[j] < beyond

\* The block cur recorded at i leaves the list, or stays in it.
LEMMA TableCuts ==
  ASSUME NEW S \in SUBSET (Nat \ {0}), NEW flp, NEW beyond, NEW i \in 1 .. Len(flp),
         Table(S, flp, IF i = Len(flp) THEN Nil ELSE beyond),
         NEW cur \in S, NextAbove(S, flp[i], cur)
  PROVE  /\ i < Len(flp) /\ flp[i + 1] = cur =>
              Loose(S \ {cur}, [flp EXCEPT ![i + 1] = flp[i]], beyond, i)
         /\ i < Len(flp) /\ flp[i + 1] # cur => Loose(S \ {cur}, flp, beyond, i)
         /\ i = Len(flp) => Loose(S \ {cur}, Front(flp), flp[i], i)
         /\ Loose(S, flp, beyond, i)
<1>. DEFINE N == Len(flp)
            T == S \ {cur}
<1>1. /\ flp \in Seq(Nat) /\ N \in Nat /\ i \in 1 .. N
      /\ \A j \in 1 .. N : flp[j] \in S \cup {Nil} /\ flp[j] \in Nat /\ \E b \in S : flp[j] < b
      /\ \A j, k \in 1 .. N : j < k => flp[j] < flp[k]
      /\ i # N => /\ beyond \in S \cup {Nil}
                  /\ beyond # Nil => \A j \in 1 .. N : flp[j] < beyond
  BY DEF Table
<1>2. /\ flp[i] < cur /\ cur \in Nat \ {0} /\ \A a \in S : flp[i] < a => cur <= a
  BY DEF NextAbove, Nil
<1>3. \A j \in 1 .. i : j \in 1 .. N /\ flp[j] <= flp[i] /\ flp[j] < cur
  <2>. SUFFICES ASSUME NEW j \in 1 .. i PROVE j \in 1 .. N /\ flp[j] <= flp[i] /\ flp[j] < cur
    OBVIOUS
  <2>1. j \in 1 .. N /\ (j = i \/ j < i)
    BY <1>1
  <2>2. flp[j] \in Nat /\ flp[i] \in Nat /\ (j = i \/ flp[j] < flp[i])
    BY <1>1, <2>1
  <2>. QED BY <1>2, <2>1, <2>2
<1>4. Loose(S, flp, beyond, i)
  BY <1>1 DEF Loose
<1>5. ASSUME i < N
      PROVE  /\ i + 1 \in 1 .. N /\ flp[i + 1] \in S /\ cur <= flp[i + 1]
             /\ \E c \in T : \A j \in 1 .. N : flp[j] < c
             /\ \A j \in 1 .. N : j > i + 1 => flp[j] \in T /\ cur < flp[j]
             /\ beyond # Nil => beyond \in T
  <2>1. i + 1 \in 1 .. N /\ i < i + 1 /\ N \in 1 .. N
    BY <1>1, <1>5
  <2>2. flp[i + 1] \in S /\ cur <= flp[i + 1] /\ flp[i + 1] \in Nat
    <3>1. flp[i] < flp[i + 1] /\ flp[i] \in Nat /\ flp[i + 1] \in Nat /\ flp[i + 1] \in S \cup {Nil}
      BY <1>1, <2>1
    <3>2. flp[i + 1] # Nil
      BY <3>1 DEF Nil
    <3>. QED BY <1>2, <3>1, <3>2
  <2>3. \A j \in 1 .. N : j > i + 1 => flp[j] \in T /\ cur < flp[j]
    <3>. SUFFICES ASSUME NEW j \in 1 .. N, j > i + 1 PROVE flp[j] \in T /\ cur < flp[j]
      OBVIOUS
    <3>1. flp[i + 1] < flp[j] /\ flp[j] \in Nat /\ flp[j] \in S \cup {Nil}
      BY <1>1, <2>1
    <3>2. cur < flp[j]
      BY <1>2, <2>2, <3>1
    <3>. QED BY <1>2, <3>1, <3>2 DEF Nil
  <2>4. PICK c \in S : flp[N] < c
    BY <1>1, <2>1
  <2>5. \A j \in 1 .. N : flp[j] < c
    <3>. SUFFICES ASSUME NEW j \in 1 .. N PROVE flp[j] < c
      OBVIOUS
    <3>0. j = N \/ j < N
      BY <1>1
    <3>1. flp[j] \in Nat /\ flp[N] \in Nat /\ c \in Nat /\ (j = N \/ flp[j] < flp[N])
      <4>. HIDE DEF N
      <4>. QED BY <1>1, <2>1, <3>0
    <3>. QED BY <2>4, <3>1
  <2>6. c \in T
    <3>1. flp[i + 1] < c /\ c \in Nat
      BY <2>1, <2>5
    <3>. QED BY <1>2, <2>2, <3>1
  <2>7. beyond # Nil => beyond \in T
    <3>. SUFFICES ASSUME beyond # Nil PROVE beyond \in T
      OBVIOUS
    <3>. DEFINE y == flp[i + 1]
    <3>0. i # N
      BY <1>1, <1>5
    <3>1. beyond \in S /\ beyond \in Nat
      BY <1>1, <3>0
    <3>2. y < beyond /\ cur <= y /\ y \in Nat
      BY <1>1, <2>1, <2>2, <3>0
    <3>. HIDE DEF y
    <3>. QED BY <1>2, <3>1, <3>2
  <2>. QED BY <2>1, <2>2, <2>3, <2>5, <2>6, <2>7
<1>6. ASSUME i < N, flp[i + 1] = cur
      PROVE  Loose(T, [flp EXCEPT ![i + 1] = flp[i]], beyond, i)
  <2>. DEFINE g == [flp EXCEPT ![i + 1] = flp[i]]
  <2>1. PICK c \in T : \A j \in 1 .. N : flp[j] < c
    BY <1>5, <1>6
  <2>2. /\ i + 1 \in 1 .. N /\ \A j \in 1 .. N : j > i + 1 => flp[j] \in T /\ cur < flp[j]
        /\ beyond # Nil => beyond \in T
    BY <1>5, <1>6
  <2>3. g \in Seq(Nat) /\ Len(g) = N
    BY <1>1, <2>2
  <2>4. g[i + 1] = flp[i] /\ \A j \in 1 .. N : j # i + 1 => g[j] = flp[j]
    BY <1>1, <2>2
  <2>. HIDE DEF g
  <2>5. ASSUME NEW j \in 1 .. N
        PROVE  g[j] \in T \cup {Nil} /\ g[j] < c /\ g[j] <= flp[j]
    <3>1. CASE j = i + 1
      <4>1. flp[i] \in T \cup {Nil} /\ flp[i] < c /\ flp[i] < flp[i + 1] /\ flp[i] \in Nat /\ flp[i + 1] \in Nat
        BY <1>1, <1>2, <2>1, <2>2
      <4>. QED BY <2>4, <3>1, <4>1
    <3>2. CASE j \in 1 .. i
      <4>1. flp[j] \in S \cup {Nil} /\ flp[j] < cur /\ flp[j] < c /\ flp[j] \in Nat /\ j # i + 1
        BY <1>1, <1>3, <2>1, <3>2
      <4>2. flp[j] # cur
        BY <1>2, <4>1
      <4>. QED BY <2>4, <4>1, <4>2
    <3>3. CASE j > i + 1
      BY <1>1, <2>1, <2>2, <2>4, <3>3
    <3>4. j = i + 1 \/ j \in 1 .. i \/ j > i + 1
      BY <1>1
    <3>. QED BY <3>1, <3>2, <3>3, <3>4
  <2>6. ASSUME NEW j \in 1 .. N, NEW k \in 1 .. N, j < k
        PROVE  g[j] < g[k] \/ (j = i /\ k = i + 1 /\ g[j] = g[k])
    <3>1. CASE k = i + 1 /\ j = i
      BY <2>4, <3>1
    <3>2. CASE k = i + 1 /\ j # i
      <4>1. j < i /\ j # i + 1
        BY <1>1, <2>6, <3>2
      <4>2. g[j] = flp[j] /\ g[k] = flp[i] /\ flp[j] < flp[i]
        BY <1>1, <2>4, <3>2, <4>1
      <4>. QED BY <4>2
    <3>3. CASE k # i + 1
      <4>1. g[j] <= flp[j] /\ g[k] = flp[k] /\ flp[j] < flp[k] /\ flp[j] \in Nat /\ flp[k] \in Nat
        BY <1>1, <2>4, <2>5, <2>6, <3>3
      <4>2. g[j] \in Nat
        <5>1. g[j] = flp[j] \/ g[j] = flp[i]
          BY <2>4
        <5>. QED BY <1>1, <5>1
      <4>. QED BY <4>1, <4>2
    <3>. QED BY <3>1, <3>2, <3>3
  <2>7. i # N => /\ beyond \in T \cup {Nil}
                 /\ beyond # Nil => \A j \in 1 .. N : g[j] < beyond
    <3>1. beyond \in T \cup {Nil}
      BY <1>1, <1>6, <2>2
    <3>2. ASSUME beyond # Nil, NEW j \in 1 .. N PROVE g[j] < beyond
      <4>1. g[j] = flp[j] \/ g[j] = flp[i]
        BY <2>4
      <4>2. flp[j] < beyond /\ flp[i] < beyond
        BY <1>1, <1>6, <3>2
      <4>. QED BY <4>1, <4>2
    <3>. QED BY <3>1, <3>2
  <2>8. \A j \in 1 .. N : g[j] \in T \cup {Nil} /\ \E b \in T : g[j] < b
    BY <2>5
  <2>9. Loose(T, g, beyond, i)
    <3>. HIDE DEF T
    <3>. QED BY <2>3, <2>6, <2>7, <2>8 DEF Loose
  <2>. QED BY <2>9 DEF g
<1>7. ASSUME i < N, flp[i + 1] # cur PROVE Loose(T, flp, beyond, i)
  <2>1. PICK c \in T : \A j \in 1 .. N : flp[j] < c
    BY <1>5, <1>7
  <2>2. /\ i + 1 \in 1 .. N /\ \A j \in 1 .. N : j > i + 1 => flp[j] \in T
        /\ beyond # Nil => beyond \in T
        /\ flp[i + 1] \in T
    BY <1>5, <1>7
  <2>3. ASSUME NEW j \in 1 .. N PROVE flp[j] \in T \cup {Nil}
    <3>1. j = i + 1 \/ j \in 1 .. i \/ j > i + 1
      BY <1>1
    <3>2. CASE j \in 1 .. i
      <4>1. flp[j] \in S \cup {Nil} /\ flp[j] < cur /\ flp[j] \in Nat
        BY <1>1, <1>3, <3>2
      <4>2. flp[j] # cur
        BY <1>2, <4>1
      <4>. QED BY <4>1, <4>2
    <3>. QED BY <2>2, <3>1, <3>2
  <2>4. \A j \in 1 .. N : flp[j] \in T \cup {Nil} /\ \E b \in T : flp[j] < b
    BY <2>1, <2>3
  <2>5. beyond \in T \cup {Nil}
    BY <1>1, <1>7, <2>2
  <2>. HIDE DEF T
  <2>. QED BY <1>1, <1>7, <2>4, <2>5 DEF Loose
<1>8. ASSUME i = N PROVE Loose(T, Front(flp), flp[i], i)
  <2>. DEFINE g == Front(flp)
  <2>1. g \in Seq(Nat) /\ Len(g) = N - 1 /\ \A j \in 1 .. N - 1 : g[j] = flp[j] /\ j \in 1 .. N /\ j < i
    BY <1>1, <1>8 DEF Front
  <2>. HIDE DEF g
  <2>2. flp[i] \in T \cup {Nil}
    <3>1. flp[i] \in S \cup {Nil} /\ flp[i] < cur /\ flp[i] \in Nat
      BY <1>1, <1>2
    <3>2. flp[i] # cur
      BY <1>2, <3>1
    <3>. QED BY <3>1, <3>2
  <2>3. ASSUME NEW j \in 1 .. N - 1
        PROVE  g[j] \in T \cup {Nil} /\ g[j] < flp[i] /\ flp[i] \in T
    <3>1. flp[j] < flp[i] /\ flp[j] \in Nat /\ flp[i] \in Nat /\ g[j] = flp[j] /\ flp[j] \in S \cup {Nil}
      BY <1>1, <2>1
    <3>2. flp[i] # Nil
      BY <3>1 DEF Nil
    <3>3. flp[j] # cur
      BY <1>2, <3>1
    <3>. QED BY <2>2, <3>1, <3>2, <3>3
  <2>4. \A j \in 1 .. N - 1 : g[j] \in T \cup {Nil} /\ \E b \in T : g[j] < b
    BY <2>3
  <2>5. \A j, k \in 1 .. N - 1 : j < k => g[j] < g[k]
    BY <1>1, <2>1
  <2>6. Loose(T, g, flp[i], i)
    <3>. HIDE DEF T
    <3>. QED BY <2>1, <2>2, <2>3, <2>4, <2>5 DEF Loose
  <2>. QED BY <2>6 DEF g
<1>. QED BY <1>4, <1>6, <1>7, <1>8

\* The block a of the list, or the sentinel, has a successor.
Leads(S, a) == a \in S \cup {Nil} /\ \E b \in S : a < b

\* A sequence of such blocks that climbs is a table, with a beyond after them.
LEMMA TableOf ==
  \A S, w : \A beyond \in S \cup {Nil} :
    /\ Climbs(w) /\ \A k \in 1 .. Len(w) : Leads(S, w[k])
    /\ beyond # Nil => \A k \in 1 .. Len(w) : w[k] < beyond
    => Table(S, w, beyond)
BY DEF Climbs, Leads, Table

\* The middle of the table is replaced: x, then t, then z.
LEMMA Splices ==
  ASSUME NEW S \in SUBSET (Nat \ {0}), NEW flp, NEW beyond, NEW i \in 1 .. Len(flp) - 1,
         Loose(S, flp, beyond, i),
         NEW t, Climbs(t),
         \A k \in 1 .. Len(t) : Leads(S, t[k]) /\ flp[i] <= t[k] /\ t[k] < flp[i + 1]
  PROVE  LET w == SubSeq(flp, 1, i - 1) \o t \o SubSeq(flp, i + 1, Len(flp))
         IN  Table(S, w, beyond)
<1>. DEFINE N == Len(flp)
            x == SubSeq(flp, 1, i - 1)
            z == SubSeq(flp, i + 1, N)
            y == x \o t
            w == y \o z
<1>1. /\ flp \in Seq(Nat) /\ N \in Nat /\ i \in Nat /\ 1 <= i /\ i < N /\ i # N
      /\ \A j \in 1 .. N : flp[j] \in Nat /\ Leads(S, flp[j])
      /\ \A j, k \in 1 .. N : j < k /\ j # i => flp[j] < flp[k]
      /\ beyond \in S \cup {Nil}
      /\ beyond # Nil => \A j \in 1 .. N : flp[j] < beyond
  <2>1. flp \in Seq(Nat) /\ N \in Nat /\ i \in Nat /\ 1 <= i /\ i < N /\ i # N
    BY DEF Loose
  <2>. HIDE DEF N
  <2>2. \A j \in 1 .. N : flp[j] \in Nat
    BY <2>1 DEF N
  <2>. QED BY <2>1, <2>2 DEF Loose, Leads, N
<1>2. /\ x \in Seq(Nat) /\ Len(x) = i - 1
      /\ \A q \in 1 .. i - 1 : x[q] = flp[q] /\ q \in 1 .. N /\ q < i
  BY <1>1
<1>3. /\ z \in Seq(Nat) /\ Len(z) = N - i
      /\ \A q \in 1 .. N - i : z[q] = flp[i + q] /\ i + q \in 1 .. N /\ i < i + q /\ i + 1 <= i + q
  BY <1>1
<1>. HIDE DEF N, x, z, y
<1>4. Climbs(x)
  <2>1. \A j, k \in 1 .. Len(x) : j < k => x[j] < x[k]
    BY <1>1, <1>2
  <2>. QED BY <1>2, <2>1 DEF Climbs
<1>5. Climbs(z)
  <2>1. ASSUME NEW j \in 1 .. N - i, NEW k \in 1 .. N - i, j < k PROVE z[j] < z[k]
    <3>1. i + j \in 1 .. N /\ i + k \in 1 .. N /\ i + j < i + k /\ i + j # i
      BY <1>1, <1>3, <2>1
    <3>. QED BY <1>1, <1>3, <3>1
  <2>. QED BY <1>3, <2>1 DEF Climbs
<1>6. i \in 1 .. N /\ i + 1 \in 1 .. N
  BY <1>1
<1>7. \A q \in 1 .. Len(x), k \in 1 .. Len(t) : x[q] < t[k]
  <2>. SUFFICES ASSUME NEW q \in 1 .. Len(x), NEW k \in 1 .. Len(t) PROVE x[q] < t[k]
    OBVIOUS
  <2>1. x[q] = flp[q] /\ q \in 1 .. N /\ q < i
    BY <1>2
  <2>2. flp[q] < flp[i] /\ flp[q] \in Nat /\ flp[i] \in Nat
    BY <1>1, <1>6, <2>1
  <2>3. flp[i] <= t[k] /\ t[k] \in Nat
    BY DEF Climbs
  <2>. QED BY <2>1, <2>2, <2>3
<1>8. /\ Climbs(y) /\ Len(y) = Len(x) + Len(t)
      /\ \A k \in 1 .. Len(y) : \/ \E q \in 1 .. Len(x) : y[k] = x[q]
                                \/ \E j \in 1 .. Len(t) : y[k] = t[j]
  BY <1>4, <1>7, ClimbsOn DEF y
<1>9. \A r \in 1 .. Len(z) : /\ \A q \in 1 .. Len(x) : x[q] < z[r]
                             /\ \A k \in 1 .. Len(t) : t[k] < z[r]
  <2>. SUFFICES ASSUME NEW r \in 1 .. Len(z)
                PROVE  /\ \A q \in 1 .. Len(x) : x[q] < z[r]
                       /\ \A k \in 1 .. Len(t) : t[k] < z[r]
    OBVIOUS
  <2>1. z[r] = flp[i + r] /\ i + r \in 1 .. N /\ i < i + r /\ i + 1 <= i + r /\ i + r \in Nat
    BY <1>1, <1>3
  <2>2. \A q \in 1 .. Len(x) : x[q] < z[r]
    <3>. SUFFICES ASSUME NEW q \in 1 .. Len(x) PROVE x[q] < z[r]
      OBVIOUS
    <3>1. x[q] = flp[q] /\ q \in 1 .. N /\ q < i
      BY <1>2
    <3>2. q < i + r /\ q # i
      BY <1>1, <2>1, <3>1
    <3>. QED BY <1>1, <2>1, <3>1, <3>2
  <2>3. \A k \in 1 .. Len(t) : t[k] < z[r]
    <3>. SUFFICES ASSUME NEW k \in 1 .. Len(t) PROVE t[k] < z[r]
      OBVIOUS
    <3>1. t[k] < flp[i + 1] /\ t[k] \in Nat
      BY DEF Climbs
    <3>2. i + r = i + 1 \/ i + 1 < i + r
      BY <1>1, <2>1
    <3>3. i + 1 # i
      BY <1>1
    <3>4. flp[i + 1] <= flp[i + r] /\ flp[i + 1] \in Nat /\ flp[i + r] \in Nat
      <4>. DEFINE u == i + 1
                  v == i + r
      <4>1. u \in 1 .. N /\ v \in 1 .. N /\ u # i /\ v # i /\ (v = u \/ u < v)
        BY <1>1, <1>6, <2>1, <3>2, <3>3
      <4>. HIDE DEF u, v
      <4>2. flp[u] <= flp[v] /\ flp[u] \in Nat /\ flp[v] \in Nat
        <5>1. flp[u] \in Nat /\ flp[v] \in Nat
          BY <1>1, <4>1
        <5>2. ASSUME u < v PROVE flp[u] < flp[v]
          BY <1>1, <4>1, <5>2
        <5>3. ASSUME v = u PROVE flp[u] = flp[v]
          BY <5>3
        <5>. QED BY <4>1, <5>1, <5>2, <5>3
      <4>. QED BY <4>2 DEF u, v
    <3>. QED BY <2>1, <3>1, <3>4
  <2>. QED BY <2>2, <2>3
<1>10. \A k \in 1 .. Len(y), r \in 1 .. Len(z) : y[k] < z[r]
  BY <1>8, <1>9
<1>11. /\ Climbs(w)
       /\ \A k \in 1 .. Len(w) : \/ \E q \in 1 .. Len(y) : w[k] = y[q]
                                 \/ \E j \in 1 .. Len(z) : w[k] = z[j]
  <2>1. Climbs(y)
    BY <1>8
  <2>. QED BY <1>5, <1>10, <2>1, ClimbsOn
<1>. HIDE DEF w
<1>12. \A k \in 1 .. Len(w) : \/ \E q \in 1 .. N : w[k] = flp[q]
                              \/ \E j \in 1 .. Len(t) : w[k] = t[j]
  <2>1. \A k \in 1 .. Len(y) : \/ \E q \in 1 .. N : y[k] = flp[q]
                               \/ \E j \in 1 .. Len(t) : y[k] = t[j]
    BY <1>2, <1>8
  <2>2. \A k \in 1 .. Len(z) : \E q \in 1 .. N : z[k] = flp[q]
    BY <1>3
  <2>. SUFFICES ASSUME NEW k \in 1 .. Len(w)
                PROVE  (\E q \in 1 .. N : w[k] = flp[q]) \/ (\E j \in 1 .. Len(t) : w[k] = t[j])
    OBVIOUS
  <2>3. CASE \E q \in 1 .. Len(y) : w[k] = y[q]
    BY <2>1, <2>3
  <2>4. CASE \E j \in 1 .. Len(z) : w[k] = z[j]
    BY <2>2, <2>4
  <2>. QED BY <1>11, <2>3, <2>4
<1>13. \A k \in 1 .. Len(w) : Leads(S, w[k])
  BY <1>1, <1>12
<1>14. beyond # Nil => \A k \in 1 .. Len(w) : w[k] < beyond
  <2>. SUFFICES ASSUME beyond # Nil, NEW k \in 1 .. Len(w) PROVE w[k] < beyond
    OBVIOUS
  <2>1. \A j \in 1 .. N : flp[j] < beyond
    BY <1>1
  <2>2. \A j \in 1 .. Len(t) : t[j] < beyond
    <3>. SUFFICES ASSUME NEW j \in 1 .. Len(t) PROVE t[j] < beyond
      OBVIOUS
    <3>1. t[j] < flp[i + 1]
      OBVIOUS
    <3>2. t[j] \in Nat
      BY DEF Climbs
    <3>3. flp[i + 1] \in Nat /\ flp[i + 1] < beyond
      BY <1>1, <1>6, <2>1
    <3>4. beyond \in Nat
      BY <1>1
    <3>. QED BY <3>1, <3>2, <3>3, <3>4
  <2>. QED BY <1>12, <2>1, <2>2
<1>15. Table(S, w, beyond)
  BY <1>1, <1>11, <1>13, <1>14, TableOf
<1>. QED BY <1>15 DEF w, y, x, z, N

\* k is n with its table in order.
Updated(n, k) ==
  /\ Tabled(n, k, k.flp, k.beyond) /\ Table(Range(n.fl), k.flp, k.beyond)
  /\ Len(k.flp) <= n.flpmax

\* A record whose table is put in order is updated.
LEMMA UpdatedBy ==
  ASSUME NEW n, Allocator(n), NEW k, NEW flp, NEW beyond, Tabled(n, k, flp, beyond),
         Table(Range(n.fl), flp, beyond), Len(flp) <= n.flpmax
  PROVE  Updated(n, k)
BY DEF Tabled, Updated

\* update_flp puts the record i right, whatever block it leads to now.
LEMMA Updates ==
  ASSUME NEW n, Allocator(n), Rising(n.fl), NEW i \in Nat \ {0},
         Loose(Range(n.fl), n.flp, n.beyond, i),
         n.flpmax \in Nat \ {0}, Len(n.flp) <= n.flpmax
  PROVE  Updated(n, update_flp(n, i))
<1>. DEFINE S == Range(n.fl)
            flp == n.flp
            N == Len(flp)
            cur == Next_small(n, flp[i])
            a == Pos(n, flp[i])
            e == Pos(n, flp[i + 1])
            buf == Maxima(n, a + 1, e, Largest(n, i - 1))
            j == Min({Len(buf), n.flpmax - i + 1})
            t == [k \in 1 .. j |-> At(n, buf[k] - 1)]
            w == SubSeq(flp, 1, i - 1) \o t \o SubSeq(flp, i + 1, N)
<1>1. /\ flp \in Seq(Nat) /\ N \in Nat
      /\ \A k \in 1 .. N : flp[k] \in Nat /\ Leads(S, flp[k])
      /\ \A k, h \in 1 .. N : k < h => flp[k] < flp[h] \/ (k = i /\ h = i + 1 /\ flp[k] = flp[h])
      /\ i # N => /\ n.beyond \in S \cup {Nil}
                  /\ n.beyond # Nil => \A k \in 1 .. N : flp[k] < n.beyond
  <2>1. flp \in Seq(Nat) /\ N \in Nat
    BY DEF Loose
  <2>2. \A k \in 1 .. N : flp[k] \in Nat
    BY <2>1
  <2>. QED BY <2>1, <2>2 DEF Loose, Leads
<1>2. S \in SUBSET (Nat \ {0})
  BY RisingRange
<1>3. ASSUME NEW b \in S \cup {Nil}, \E c \in S : b < c
      PROVE  Next_small(n, b) \in S /\ b < Next_small(n, b)
  <2>1. NextAbove(S, b, Next_small(n, b))
    BY NextSmallFacts
  <2>. QED BY <1>3, <2>1 DEF NextAbove
<1>4. ASSUME i > N PROVE Updated(n, update_flp(n, i))
  <2>1. update_flp(n, i) = n
    BY <1>4 DEF update_flp
  <2>2. Climbs(flp) /\ i # N
    <3>1. i # N
      BY <1>1, <1>4
    <3>2. \A k, h \in 1 .. N : k < h => flp[k] < flp[h]
      BY <1>1, <1>4
    <3>. QED BY <1>1, <3>1, <3>2 DEF Climbs
  <2>3. Table(S, flp, n.beyond)
    BY <1>1, <2>2, TableOf
  <2>4. Tabled(n, n, flp, n.beyond)
    BY DEF Tabled
  <2>. QED BY <2>1, <2>3, <2>4, UpdatedBy
<1>5. ASSUME i = N PROVE Updated(n, update_flp(n, i))
  <2>1. i \in 1 .. N /\ ~(i > N)
    BY <1>1, <1>5
  <2>2. cur \in S /\ flp[i] < cur
    BY <1>1, <1>3, <2>1 DEF Leads
  <2>. DEFINE g == Front(flp)
              p == [n EXCEPT !.beyond = cur, !.flp = g]
              q == [n EXCEPT !.beyond = Nil]
  <2>3. update_flp(n, i) = p \/ update_flp(n, i) = q
    BY <1>5, <2>1 DEF update_flp
  <2>. HIDE DEF cur
  <2>4. /\ g \in Seq(Nat) /\ Len(g) = N - 1
        /\ \A k \in 1 .. N - 1 : g[k] = flp[k] /\ k \in 1 .. N /\ k < i /\ k < i + 1
    BY <1>1, <1>5, <2>1 DEF Front
  <2>5. p = [n EXCEPT !.flp = g, !.beyond = cur]
    OBVIOUS
  <2>. HIDE DEF g, p
  <2>6. ASSUME NEW k \in 1 .. N - 1, NEW h \in 1 .. N - 1, k < h PROVE g[k] < g[h]
    <3>1. k \in 1 .. N /\ h \in 1 .. N /\ h # i + 1
      BY <1>1, <1>5, <2>4
    <3>. QED BY <1>1, <2>4, <2>6, <3>1
  <2>7. Climbs(g)
    BY <2>4, <2>6 DEF Climbs
  <2>8. \A k \in 1 .. Len(g) : Leads(S, g[k]) /\ g[k] < cur
    <3>. SUFFICES ASSUME NEW k \in 1 .. N - 1 PROVE Leads(S, g[k]) /\ g[k] < cur
      BY <2>4
    <3>1. g[k] = flp[k] /\ k \in 1 .. N /\ k < i
      BY <2>4
    <3>2. flp[k] < flp[i] \/ flp[k] = flp[i]
      BY <1>1, <2>1, <3>1
    <3>3. flp[k] \in Nat /\ flp[i] \in Nat /\ cur \in Nat /\ Leads(S, flp[k])
      BY <1>1, <1>2, <2>1, <2>2, <3>1
    <3>. QED BY <2>2, <3>1, <3>2, <3>3
  <2>9. Table(S, g, cur)
    BY <2>2, <2>7, <2>8, TableOf
  <2>10. Tabled(n, p, g, cur) /\ Tabled(n, q, flp, Nil)
    <3>. DEFINE nothing == Nil
    <3>. HIDE DEF nothing
    <3>1. Tabled(n, [n EXCEPT !.beyond = nothing], n.flp, nothing)
      BY TableSets
    <3>. QED BY <2>5, <3>1, TableSets DEF nothing
  <2>11. Table(S, flp, Nil)
    <3>1. \A k, h \in 1 .. N : k < h => flp[k] < flp[h]
      BY <1>1, <1>5
    <3>2. Climbs(flp)
      BY <1>1, <3>1 DEF Climbs
    <3>. QED BY <1>1, <3>2, TableOf
  <2>12. Len(g) <= n.flpmax
    BY <1>1, <2>4
  <2>13. Updated(n, p)
    BY <2>9, <2>10, <2>12, UpdatedBy
  <2>14. Updated(n, q)
    <3>. HIDE DEF q
    <3>. QED BY <2>10, <2>11, UpdatedBy
  <2>. QED BY <2>3, <2>13, <2>14
<1>6. ASSUME i < N PROVE Updated(n, update_flp(n, i))
  <2>1. i \in 1 .. N /\ i + 1 \in 1 .. N /\ ~(i > N) /\ i # N /\ i \in 1 .. N - 1
    BY <1>1, <1>6
  <2>2. /\ a \in 0 .. Len(n.fl) /\ At(n, a) = flp[i]
        /\ e \in 0 .. Len(n.fl) /\ At(n, e) = flp[i + 1] /\ Len(n.fl) \in Nat
    <3>1. flp[i] \in S \cup {Nil} /\ flp[i + 1] \in S \cup {Nil}
      BY <1>1, <2>1 DEF Leads
    <3>. QED BY <3>1, PositionFacts
  <2>. HIDE DEF a, e
  <2>3. /\ Rising(buf) /\ Len(buf) \in Nat
        /\ \A k \in 1 .. Len(buf) : buf[k] \in a + 1 .. e
    <3>. DEFINE lo == a + 1
                base == Largest(n, i - 1)
    <3>1. lo \in Nat \ {0} /\ e \in Nat
      BY <2>2
    <3>. HIDE DEF lo, base
    <3>2. /\ Rising(Maxima(n, lo, e, base)) /\ Len(Maxima(n, lo, e, base)) \in Nat
          /\ \A k \in 1 .. Len(Maxima(n, lo, e, base)) : Maxima(n, lo, e, base)[k] \in lo .. e
      BY <3>1, MaximaFacts DEF AreMaxima
    <3>. QED BY <3>2 DEF lo, base
  <2>. HIDE DEF buf
  <2>4. j \in 0 .. Len(buf)
    <3>. DEFINE u == Len(buf)
                v == n.flpmax - i + 1
                T == {u, v}
    <3>1. T \in SUBSET Nat /\ T # {} /\ u \in Nat
      <4>1. v \in Nat
        BY <1>1, <2>1
      <4>. QED BY <2>3, <4>1
    <3>2. j = Min(T) /\ u \in T
      OBVIOUS
    <3>. HIDE DEF T, j, u, v
    <3>3. j \in T /\ j <= u
      BY <3>1, <3>2, MinOf
    <3>. QED BY <3>1, <3>3 DEF u
  <2>. HIDE DEF j
  <2>5. /\ Climbs(t) /\ Len(t) = j
        /\ \A k \in 1 .. j : /\ t[k] \in S \cup {Nil}
                             /\ At(n, a) <= t[k] /\ t[k] < At(n, e)
                             /\ n.fl[buf[k]] \in S /\ t[k] < n.fl[buf[k]]
    <3>. HIDE DEF w, N
    <3>1. /\ Climbs(t) /\ Len(t) = j
          /\ \A k \in 1 .. j : /\ t[k] \in Range(n.fl) \cup {Nil}
                               /\ At(n, a) <= t[k] /\ t[k] < At(n, e)
                               /\ Next_small(n, t[k]) = n.fl[buf[k]]
                               /\ n.fl[buf[k]] \in Range(n.fl) /\ t[k] < n.fl[buf[k]]
      BY <2>2, <2>3, <2>4, RecordsOf
    <3>. HIDE DEF t
    <3>. QED BY <3>1
  <2>. HIDE DEF t
  <2>6. \A k \in 1 .. Len(t) : Leads(S, t[k]) /\ flp[i] <= t[k] /\ t[k] < flp[i + 1]
    BY <2>2, <2>5 DEF Leads
  <2>7. Table(S, w, n.beyond)
    <3>. HIDE DEF S
    <3>. QED BY <1>2, <2>1, <2>5, <2>6, Splices DEF S
  <2>. DEFINE f == n.flpmax
              p == [n EXCEPT !.flp = w]
              s == SubSeq(w, 1, f - 1)
              y == Next_small(n, w[f])
              q == [n EXCEPT !.flp = s, !.beyond = y]
  <2>8. update_flp(n, i) = IF Len(w) <= f THEN p ELSE q
    BY <2>1 DEF update_flp, t, j, buf, a, e
  <2>. HIDE DEF w
  <2>9. ASSUME Len(w) <= f PROVE Updated(n, p)
    <3>1. Tabled(n, p, w, n.beyond)
      BY TableSets
    <3>. HIDE DEF p
    <3>. QED BY <2>7, <2>9, <3>1, UpdatedBy
  <2>10. ASSUME ~(Len(w) <= f) PROVE Updated(n, q)
    <3>1. /\ w \in Seq(Nat) /\ Len(w) \in Nat
          /\ \A k \in 1 .. Len(w) : w[k] \in S \cup {Nil} /\ \E b \in S : w[k] < b
          /\ \A k, h \in 1 .. Len(w) : k < h => w[k] < w[h]
      BY <2>7 DEF Table
    <3>2. f \in 1 .. Len(w) /\ f - 1 \in 0 .. Len(w) /\ f \in Nat \ {0}
      BY <2>10, <3>1
    <3>3. y \in S /\ w[f] < y
      BY <1>3, <3>1, <3>2
    <3>. HIDE DEF y
    <3>4. \A k \in 1 .. f - 1 : k \in 1 .. Len(w) /\ k < f
      BY <3>1, <3>2
    <3>5. \A k \in 1 .. f - 1 : w[k] < y
      <4>. SUFFICES ASSUME NEW k \in 1 .. f - 1 PROVE w[k] < y
        OBVIOUS
      <4>. HIDE DEF f
      <4>1. w[k] < w[f] /\ w[k] \in Nat /\ w[f] \in Nat /\ y \in Nat
        BY <1>2, <3>1, <3>2, <3>3, <3>4
      <4>. QED BY <3>3, <4>1
    <3>6. Table(S, s, y)
      <4>. DEFINE h == f - 1
      <4>. HIDE DEF f
      <4>1. h \in 0 .. Len(w) /\ \A k \in 1 .. h : w[k] \in S \cup {Nil} /\ \E b \in S : w[k] < b
        BY <3>1, <3>2, <3>4
      <4>2. y \in S \cup {Nil} /\ (y # Nil => \A k \in 1 .. h : w[k] < y)
        BY <3>3, <3>5
      <4>. HIDE DEF h, S
      <4>3. Table(S, SubSeq(w, 1, h), y)
        BY <2>7, <4>1, <4>2, TablePrefix
      <4>. QED BY <4>3 DEF h
    <3>7. Len(s) <= n.flpmax
      <4>1. Len(s) = f - 1
        BY <3>1, <3>2
      <4>. QED BY <3>2, <4>1
    <3>. HIDE DEF s
    <3>8. Tabled(n, q, s, y)
      BY TableSets
    <3>. HIDE DEF q
    <3>. QED BY <3>6, <3>7, <3>8, UpdatedBy
  <2>. QED BY <2>8, <2>9, <2>10
<1>7. i > N \/ i = N \/ i < N
  BY <1>1
<1>. QED BY <1>4, <1>5, <1>6, <1>7

\* What is left of the list when a block of wo fields has been cut from cur.
Remaining(n, wo, cur) ==
  IF Sz(n, cur) <= wo + 1 THEN Range(n.fl) \ {cur} ELSE Range(n.fl)

\* allocate_block takes cur off the list when nothing useful is left of it.
LEMMA CutList ==
  ASSUME NEW n, NEW C, NEW sc, NEW lv, HeapInv(n, C, sc, lv), NEW wo \in Requests,
         NEW prev, NEW cur \in Range(n.fl), wo <= Sz(n, cur)
  PROVE  LET k == allocate_block(n, wo, prev, cur).m
         IN  Rising(k.fl) /\ Range(k.fl) = Remaining(n, wo, cur)
<1>. DEFINE b == allocate_block(n, wo, prev, cur)
            u == Unlink(n, cur)
            p == Hd(u, cur, 0, "white")
            q == Hd(n, cur, Sz(n, cur) - wo - 1, "blue")
<1>1. /\ Allocator(n) /\ Rising(n.fl) /\ Sz(n, cur) \in Nat /\ Sz(n, cur) <= MaxWosize
      /\ MaxWosize \in Nat /\ wo \in Nat
  BY HeapFacts, FreeListAssumption
<1>2. "fl" \in Fields \ {"blk"}
  BY DEF Fields
<1>3. ASSUME Sz(n, cur) <= wo + 1
      PROVE  Rising(b.m.fl) /\ Range(b.m.fl) = Remaining(n, wo, cur)
  <2>1. Allocator(u) /\ Rising(u.fl) /\ Range(u.fl) = Range(n.fl) \ {cur}
    BY <1>1, UnlinkFacts
  <2>2. 0 \in 0 .. MaxWosize /\ "white" \in Colours
    BY <1>1 DEF Colours
  <2>3. b.m = [p EXCEPT !.wsz = @ - (Sz(n, cur) + 1), !.merge = IF @ = cur THEN prev ELSE @]
    BY <1>3 DEF allocate_block
  <2>. HIDE DEF u
  <2>4. Rewritten(u, p, cur, 0, "white")
    BY <2>1, <2>2, HdRewrites
  <2>. HIDE DEF p, b
  <2>5. p.fl = u.fl /\ p = [f \in Fields |-> p[f]]
    BY <1>2, <2>4 DEF Rewritten, Allocator
  <2>6. b.m.fl = p.fl
    BY <2>3, <2>5 DEF Fields
  <2>. QED BY <1>3, <2>1, <2>5, <2>6 DEF Remaining
<1>4. ASSUME ~(Sz(n, cur) <= wo + 1)
      PROVE  Rising(b.m.fl) /\ Range(b.m.fl) = Remaining(n, wo, cur)
  <2>1. Sz(n, cur) - wo - 1 \in 0 .. MaxWosize /\ "blue" \in Colours
    BY <1>1, <1>4 DEF Colours
  <2>2. Rewritten(n, q, cur, Sz(n, cur) - wo - 1, "blue")
    BY <1>1, <2>1, HdRewrites
  <2>3. b.m = [q EXCEPT !.wsz = @ - (wo + 1)]
    BY <1>4 DEF allocate_block
  <2>. HIDE DEF q, b
  <2>4. q.fl = n.fl /\ q = [f \in Fields |-> q[f]]
    BY <1>2, <2>2 DEF Rewritten, Allocator
  <2>5. b.m.fl = q.fl
    BY <2>3, <2>4 DEF Fields
  <2>. QED BY <1>1, <1>4, <2>4, <2>5 DEF Remaining
<1>. QED BY <1>3, <1>4

\* r is the answer of ff_allocate_block: the block is cut, and the table is flp
\* and beyond.
Cuts(n, r, wo, prev, cur, flp, beyond) ==
  /\ Found(n, r, wo, prev, cur)
  /\ r.m.prev = n.prev /\ r.m.flpmax = n.flpmax
  /\ Rising(r.m.fl) /\ Range(r.m.fl) = Remaining(n, wo, cur)
  /\ r.m.flp = flp /\ r.m.beyond = beyond

\* Such an answer, with another table.
LEMMA CutsAre ==
  ASSUME NEW n, NEW C, NEW sc, NEW lv, HeapInv(n, C, sc, lv), NEW wo \in Requests,
         NEW cur \in Range(n.fl), wo <= Sz(n, cur),
         NEW prev, NextBelow(Range(n.fl), cur, prev), NEW r, NEW flp, NEW beyond,
         r.hp = Piece(n, wo, cur),
         Tabled(allocate_block(n, wo, prev, cur).m, r.m, flp, beyond)
  PROVE  Cuts(n, r, wo, prev, cur, flp, beyond)
<1>. DEFINE k == allocate_block(n, wo, prev, cur).m
<1>1. Rising(k.fl) /\ Range(k.fl) = Remaining(n, wo, cur)
  BY CutList
<1>2. Cut(n, k)
  BY CutFacts
<1>. HIDE DEF k
<1>3. /\ Allocator(r.m) /\ r.m.flp = flp /\ r.m.beyond = beyond
      /\ \A f \in Fields \ {"flp", "beyond"} : r.m[f] = k[f]
  BY DEF Tabled, k
<1>4. r.m.prev = k.prev /\ r.m.flpmax = k.flpmax /\ r.m.fl = k.fl
  BY <1>3 DEF Fields
<1>5. k.prev = n.prev /\ k.flpmax = n.flpmax
  BY <1>2 DEF Cut, Fields
<1>6. \A f \in HeapFields : r.m[f] = k[f]
  BY <1>3 DEF HeapFields
<1>7. Found(n, r, wo, prev, cur)
  BY <1>3, <1>6 DEF Found, k
<1>. QED BY <1>1, <1>3, <1>4, <1>5, <1>7 DEF Cuts

\* ff_allocate_block cuts the block and puts one record right.
LEMMA BlockCuts ==
  ASSUME NEW n, NEW C, NEW sc, NEW lv, HeapInv(n, C, sc, lv), NEW wo \in Requests,
         NEW cur \in Range(n.fl), wo <= Sz(n, cur),
         NEW prev, NextBelow(Range(n.fl), cur, prev), NEW i
  PROVE  LET r == ff_allocate_block(n, wo, i, prev, cur)
             out == Sz(n, cur) <= wo + 1
         IN  /\ r = [m |-> r.m, hp |-> r.hp]
             /\ ~out => Cuts(n, r, wo, prev, cur, n.flp, n.beyond)
             /\ out /\ i < Len(n.flp) /\ n.flp[i + 1] = cur =>
                  Cuts(n, r, wo, prev, cur, [n.flp EXCEPT ![i + 1] = prev], n.beyond)
             /\ out /\ i = Len(n.flp) /\ ~(i < Len(n.flp)) =>
                  Cuts(n, r, wo, prev, cur, Front(n.flp), prev)
             /\ out /\ i # Len(n.flp) /\ ~(i < Len(n.flp) /\ n.flp[i + 1] = cur) =>
                  Cuts(n, r, wo, prev, cur, n.flp, n.beyond)
<1>. DEFINE r == ff_allocate_block(n, wo, i, prev, cur)
            out == Sz(n, cur) <= wo + 1
            b == allocate_block(n, wo, prev, cur)
            flp == n.flp
            e == Piece(n, wo, cur)
            hit == i < Len(flp) /\ flp[i + 1] = cur
<1>1. Sz(n, cur) \in Nat /\ wo \in Nat /\ Allocator(n)
  BY HeapFacts, FreeListAssumption
<1>2. b = [m |-> b.m, hp |-> e] /\ Cut(n, b.m)
  BY CutFacts
<1>3. Allocator(b.m) /\ b.m.flp = flp /\ b.m.beyond = n.beyond
  BY <1>2 DEF Cut, Fields
<1>4. Sz(n, cur) > wo + 1 <=> ~out
  BY <1>1
<1>5. r = IF ~out THEN b
          ELSE IF hit THEN [b EXCEPT !.m.flp[i + 1] = prev]
          ELSE IF i = Len(flp) THEN [b EXCEPT !.m.flp = Front(@), !.m.beyond = prev]
          ELSE b
  BY <1>4 DEF ff_allocate_block
<1>. DEFINE k == b.m
            s == [flp EXCEPT ![i + 1] = prev]
            g == Front(flp)
<1>. HIDE DEF r, out, e, hit
<1>6. b = [m |-> k, hp |-> e] /\ k.flp = flp
  BY <1>2, <1>3
<1>7. Tabled(k, k, flp, n.beyond)
  BY <1>3 DEF Tabled
<1>8. ASSUME r = b PROVE r = [m |-> r.m, hp |-> r.hp] /\ Cuts(n, r, wo, prev, cur, flp, n.beyond)
  <2>1. r = [m |-> r.m, hp |-> r.hp] /\ r.hp = e /\ r.m = k
    BY <1>6, <1>8
  <2>2. Tabled(b.m, r.m, flp, n.beyond)
    BY <1>7, <2>1
  <2>. QED BY <2>1, <2>2, CutsAre DEF e
<1>9. ASSUME r = [b EXCEPT !.m.flp[i + 1] = prev]
      PROVE  r = [m |-> r.m, hp |-> r.hp] /\ Cuts(n, r, wo, prev, cur, s, n.beyond)
  <2>. HIDE DEF b, k, flp
  <2>1. r = [m |-> [k EXCEPT !.flp = s], hp |-> e]
    BY <1>6, <1>9
  <2>. HIDE DEF s
  <2>2. Tabled(k, [k EXCEPT !.flp = s], s, k.beyond)
    BY <1>3, TableSets DEF k
  <2>3. r.hp = e /\ r = [m |-> r.m, hp |-> r.hp] /\ Tabled(b.m, r.m, s, n.beyond)
    BY <1>3, <2>1, <2>2 DEF k
  <2>. QED BY <2>3, CutsAre DEF e, b
<1>10. ASSUME r = [b EXCEPT !.m.flp = Front(@), !.m.beyond = prev]
       PROVE  r = [m |-> r.m, hp |-> r.hp] /\ Cuts(n, r, wo, prev, cur, g, prev)
  <2>. HIDE DEF b, k, flp
  <2>1. r = [m |-> [k EXCEPT !.flp = g, !.beyond = prev], hp |-> e]
    BY <1>6, <1>10
  <2>. HIDE DEF g
  <2>2. Tabled(k, [k EXCEPT !.flp = g, !.beyond = prev], g, prev)
    BY <1>3, TableSets DEF k
  <2>3. r.hp = e /\ r = [m |-> r.m, hp |-> r.hp] /\ Tabled(b.m, r.m, g, prev)
    BY <2>1, <2>2 DEF k
  <2>. QED BY <2>3, CutsAre DEF e, b
<1>11. /\ r = [m |-> r.m, hp |-> r.hp]
       /\ ~out => Cuts(n, r, wo, prev, cur, flp, n.beyond)
       /\ out /\ hit => Cuts(n, r, wo, prev, cur, s, n.beyond)
       /\ out /\ i = Len(flp) /\ ~hit => Cuts(n, r, wo, prev, cur, g, prev)
       /\ out /\ i # Len(flp) /\ ~hit => Cuts(n, r, wo, prev, cur, flp, n.beyond)
  <2>. HIDE DEF s, g, flp, b, k
  <2>. QED BY <1>5, <1>8, <1>9, <1>10
<1>. QED BY <1>11 DEF r, out, hit

\* The answer of ff_allocate_block once update_flp has put the record i right.
Settled(r, i) == [r EXCEPT !.m = update_flp(@, i)]

\* The table is in order again after ff_allocate_block and update_flp.
LEMMA CutsSettle ==
  ASSUME NEW n, n.prev = Nil, n.flpmax \in Nat \ {0}, NEW wo, NEW prev, NEW cur,
         NEW r, r = [m |-> r.m, hp |-> r.hp], NEW flp, NEW beyond,
         Cuts(n, r, wo, prev, cur, flp, beyond), NEW i \in Nat \ {0},
         Loose(Remaining(n, wo, cur), flp, beyond, i), Len(flp) <= n.flpmax
  PROVE  Found(n, Settled(r, i), wo, prev, cur) /\ FlpOk(Settled(r, i).m)
<1>. DEFINE k == r.m
            u == update_flp(k, i)
<1>1. /\ Found(n, r, wo, prev, cur) /\ k.prev = Nil /\ k.flpmax = n.flpmax
      /\ Rising(k.fl) /\ Range(k.fl) = Remaining(n, wo, cur)
      /\ k.flp = flp /\ k.beyond = beyond
  BY DEF Cuts
<1>2. Allocator(k)
  BY <1>1 DEF Found
<1>3. Settled(r, i).m = u /\ Settled(r, i).hp = r.hp
  BY DEF Settled
<1>. HIDE DEF k
<1>4. Updated(k, u)
  BY <1>1, <1>2, Updates
<1>. HIDE DEF u
<1>5. /\ Allocator(u) /\ \A f \in Fields \ {"flp", "beyond"} : u[f] = k[f]
      /\ Table(Range(k.fl), u.flp, u.beyond) /\ Len(u.flp) <= k.flpmax
  BY <1>4 DEF Updated, Tabled
<1>6. u.fl = k.fl /\ u.prev = k.prev /\ u.flpmax = k.flpmax
  BY <1>5 DEF Fields
<1>7. FlpOk(u)
  BY <1>1, <1>5, <1>6 DEF FlpOk
<1>8. \A f \in HeapFields : u[f] = k[f]
  BY <1>5 DEF HeapFields
<1>9. Found(n, Settled(r, i), wo, prev, cur)
  BY <1>1, <1>3, <1>5, <1>8 DEF Found, k
<1>. QED BY <1>3, <1>7, <1>9

\* A search that gives a block, and leaves first fit's table in order.
Gave(n, r, wo) ==
  /\ \E cur \in Range(n.fl), prev \in Range(n.fl) \cup {Nil} : Found(n, r, wo, prev, cur)
  /\ FlpOk(r.m)

\* TakeRecorded on a recorded block that is large enough; beyond may be the
\* last recorded predecessor itself when the last record is the one.
LEMMA RecordedGives ==
  ASSUME NEW n, NEW C, NEW sc, NEW lv, HeapInv(n, C, sc, lv), NEW wo \in Requests,
         n.prev = Nil, n.flpmax \in Nat \ {0}, Len(n.flp) <= n.flpmax,
         NEW i \in 1 .. Len(n.flp),
         Table(Range(n.fl), n.flp, IF i = Len(n.flp) THEN Nil ELSE n.beyond),
         wo <= Sz(n, Next_small(n, n.flp[i]))
  PROVE  Gave(n, TakeRecorded(n, wo, i), wo)
<1>. DEFINE flp == n.flp
            a == flp[i]
            cur == Next_small(n, a)
            R == Range(n.fl)
            r == ff_allocate_block(n, wo, i, a, cur)
            out == Sz(n, cur) <= wo + 1
            cut == [flp EXCEPT ![i + 1] = a]
<1>1. /\ Rising(n.fl) /\ R \in SUBSET (Nat \ {0})
  BY HeapFacts
<1>2. flp \in Seq(Nat) /\ a \in R \cup {Nil} /\ \E b \in R : a < b
  BY DEF Table
<1>3. Len(flp) \in Nat /\ i \in Nat \ {0} /\ i <= Len(flp)
  BY <1>2
<1>4. TakeRecorded(n, wo, i) = Settled(r, i)
  BY DEF TakeRecorded, Settled
<1>. HIDE DEF flp
<1>5. NextAbove(R, a, cur) /\ cur \in R /\ NextBelow(R, cur, a)
  <2>1. NextAbove(R, a, cur)
    BY <1>1, <1>2, NextSmallFacts
  <2>. HIDE DEF cur, a, R
  <2>2. a \in Nat
    BY <1>1, <1>2, PositionFacts DEF R
  <2>3. cur \in R /\ a < cur /\ \A x \in R : a < x => cur <= x
    BY <1>1, <1>2, <2>1, <2>2 DEF NextAbove
  <2>4. \A x \in R : x < cur => x <= a
    BY <1>1, <2>2, <2>3
  <2>5. a = Nil => \A x \in R : ~(x < cur)
    BY <1>1, <2>4 DEF Nil
  <2>. QED BY <1>2, <2>1, <2>3, <2>4, <2>5 DEF NextBelow
<1>. HIDE DEF cur, a, R, r
<1>6. wo <= Sz(n, cur)
  BY DEF cur, a, flp
<1>7. /\ r = [m |-> r.m, hp |-> r.hp]
      /\ ~out => Cuts(n, r, wo, a, cur, flp, n.beyond)
      /\ out /\ i < Len(flp) /\ flp[i + 1] = cur => Cuts(n, r, wo, a, cur, cut, n.beyond)
      /\ out /\ i = Len(flp) /\ ~(i < Len(flp)) => Cuts(n, r, wo, a, cur, Front(flp), a)
      /\ out /\ i # Len(flp) /\ ~(i < Len(flp) /\ flp[i + 1] = cur) =>
           Cuts(n, r, wo, a, cur, flp, n.beyond)
  BY <1>5, <1>6, BlockCuts DEF r, flp, R
<1>8. /\ i < Len(flp) /\ flp[i + 1] = cur => Loose(R \ {cur}, cut, n.beyond, i)
      /\ i < Len(flp) /\ flp[i + 1] # cur => Loose(R \ {cur}, flp, n.beyond, i)
      /\ i = Len(flp) => Loose(R \ {cur}, Front(flp), a, i)
      /\ Loose(R, flp, n.beyond, i)
  <2>1. Table(R, flp, IF i = Len(flp) THEN Nil ELSE n.beyond)
    BY DEF R, flp
  <2>2. i \in 1 .. Len(flp)
    BY <1>3
  <2>. HIDE DEF out
  <2>. QED BY <1>1, <1>5, <2>1, <2>2, TableCuts DEF a
<1>9. Len(flp) <= n.flpmax /\ Len(cut) = Len(flp) /\ Len(Front(flp)) <= n.flpmax
  <2>1. Len(flp) <= n.flpmax
    BY DEF flp
  <2>2. Len(cut) = Len(flp)
    BY <1>2
  <2>3. Len(Front(flp)) = Len(flp) - 1
    <3>1. Len(flp) - 1 \in Nat /\ flp \in Seq(Nat)
      BY <1>2, <1>3
    <3>. HIDE DEF a, cut
    <3>2. Front(flp) = SubSeq(flp, 1, Len(flp) - 1)
      BY <3>1 DEF Front
    <3>. DEFINE h == Len(flp) - 1
    <3>3. h \in 0 .. Len(flp) /\ flp \in Seq(Nat)
      BY <1>2, <1>3
    <3>. HIDE DEF h
    <3>4. Len(SubSeq(flp, 1, h)) = h
      BY <3>3
    <3>. QED BY <3>2, <3>4 DEF h
  <2>. QED BY <1>3, <2>1, <2>2, <2>3
<1>10. Remaining(n, wo, cur) = IF out THEN R \ {cur} ELSE R
  BY DEF Remaining, R
<1>. HIDE DEF out, cut
<1>11. Found(n, Settled(r, i), wo, a, cur) /\ FlpOk(Settled(r, i).m)
  <2>1. CASE ~out
    BY <1>3, <1>7, <1>8, <1>9, <1>10, <2>1, CutsSettle
  <2>2. CASE out /\ i < Len(flp) /\ flp[i + 1] = cur
    <3>1. i < Len(flp) <=> i # Len(flp)
      BY <1>3
    <3>2. /\ Cuts(n, r, wo, a, cur, cut, n.beyond) /\ Loose(R \ {cur}, cut, n.beyond, i)
          /\ Len(cut) <= n.flpmax
      BY <1>7, <1>8, <1>9, <2>2, <3>1
    <3>3. Remaining(n, wo, cur) = R \ {cur}
      BY <1>10, <2>2
    <3>4. Loose(Remaining(n, wo, cur), cut, n.beyond, i)
      BY <3>2, <3>3
    <3>. QED BY <1>3, <1>7, <3>2, <3>4, CutsSettle
  <2>3. CASE out /\ i = Len(flp)
    <3>1. i < Len(flp) <=> i # Len(flp)
      BY <1>3
    <3>2. /\ Cuts(n, r, wo, a, cur, Front(flp), a) /\ Loose(R \ {cur}, Front(flp), a, i)
          /\ Len(Front(flp)) <= n.flpmax
      BY <1>7, <1>8, <1>9, <2>3, <3>1
    <3>3. Remaining(n, wo, cur) = R \ {cur}
      BY <1>10, <2>3
    <3>4. Loose(Remaining(n, wo, cur), Front(flp), a, i)
      BY <3>2, <3>3
    <3>. QED BY <1>3, <1>7, <3>2, <3>4, CutsSettle
  <2>4. CASE out /\ i < Len(flp) /\ flp[i + 1] # cur
    <3>1. i < Len(flp) <=> i # Len(flp)
      BY <1>3
    <3>2. /\ Cuts(n, r, wo, a, cur, flp, n.beyond) /\ Loose(R \ {cur}, flp, n.beyond, i)
          /\ Len(flp) <= n.flpmax
      BY <1>7, <1>8, <1>9, <2>4, <3>1
    <3>3. Remaining(n, wo, cur) = R \ {cur}
      BY <1>10, <2>4
    <3>4. Loose(Remaining(n, wo, cur), flp, n.beyond, i)
      BY <3>2, <3>3
    <3>. QED BY <1>3, <1>7, <3>2, <3>4, CutsSettle
  <2>5. i = Len(flp) \/ i < Len(flp)
    BY <1>3
  <2>. QED BY <2>1, <2>2, <2>3, <2>4, <2>5
<1>12. \E x \in Range(n.fl), prev \in Range(n.fl) \cup {Nil} :
         Found(n, Settled(r, i), wo, prev, x)
  BY <1>2, <1>5, <1>11 DEF R
<1>. QED BY <1>4, <1>11, <1>12 DEF Gave

-----------------------------------------------------------------------------
(* The search of first fit                                                  *)

\* Another table leaves the heap and the list as they are.
LEMMA TabledHeap ==
  ASSUME NEW n, NEW C, NEW sc, NEW lv, HeapInv(n, C, sc, lv), NEW k, NEW flp, NEW beyond,
         Tabled(n, k, flp, beyond)
  PROVE  /\ HeapInv(k, C, sc, lv)
         /\ k.fl = n.fl /\ k.blk = n.blk /\ k.prev = n.prev /\ k.flpmax = n.flpmax
         /\ k.last = n.last /\ k.flp = flp /\ k.beyond = beyond
         /\ \A a : Sz(k, a) = Sz(n, a) /\ Next_small(k, a) = Next_small(n, a) /\ Pos(k, a) = Pos(n, a)
<1>1. Allocator(k) /\ \A f \in HeapFields : k[f] = n[f]
  BY DEF Tabled, HeapFields
<1>2. HeapInv(k, C, sc, lv)
  BY <1>1, HeapKeeps
<1>3. /\ k.fl = n.fl /\ k.blk = n.blk /\ k.prev = n.prev /\ k.flpmax = n.flpmax
      /\ k.last = n.last /\ k.flp = flp /\ k.beyond = beyond
  BY DEF Tabled, Fields
<1>4. \A a : Sz(k, a) = Sz(n, a)
  BY <1>3 DEF Sz
<1>5. \A a : Pos(k, a) = Pos(n, a)
  BY <1>3 DEF Pos
<1>6. \A i : At(k, i) = At(n, i)
  BY <1>3 DEF At
<1>7. \A a : Next_small(k, a) = Next_small(n, a)
  BY <1>5, <1>6 DEF Next_small
<1>. QED BY <1>2, <1>3, <1>4, <1>5, <1>7

\* The request is answered by a block, and first fit is in order.
Answers(r, wo, C, sc, lv) ==
  /\ r.hp # Nil
  /\ HeapInv(Given(r, wo), C, sc, Put(lv, r.hp, wo)) /\ FlpOk(Given(r, wo))

\* No recorded block is large enough.
NoRecord(n, wo) == \A i \in 1 .. Len(n.flp) : ~(wo <= Sz(n, Next_small(n, n.flp[i])))

\* It is refused: no record fits, and ff_last is the end of the list.
Refuses(r, wo, C, sc, lv) ==
  /\ r.hp = Nil
  /\ HeapInv(r.m, C, sc, lv) /\ FlpOk(r.m)
  /\ HeapInv([r.m EXCEPT !.last = Nil], C, sc, lv) /\ FlpOk([r.m EXCEPT !.last = Nil])
  /\ r.m.last = LastFree(r.m) /\ NoRecord(r.m, wo)

\* A block given with the table in order is an answer.
LEMMA GaveAnswers ==
  ASSUME NEW n, NEW C, NEW sc, NEW lv, HeapInv(n, C, sc, lv), NEW wo \in Requests,
         NEW r, Gave(n, r, wo)
  PROVE  Answers(r, wo, C, sc, lv)
<1>1. PICK cur \in Range(n.fl), prev \in Range(n.fl) \cup {Nil} : Found(n, r, wo, prev, cur)
  BY DEF Gave
<1>2. FlpOk(r.m) /\ r.m.prev = Nil
  BY DEF Gave, FlpOk
<1>3. Searched(n, r, wo)
  BY <1>1, <1>2 DEF Searched
<1>4. r.hp # Nil
  <2>1. r.hp = cur + Sz(n, cur) - wo /\ wo <= Sz(n, cur)
    BY <1>1 DEF Found, Piece
  <2>2. cur \in Nat \ {0} /\ Sz(n, cur) \in Nat
    BY HeapFacts
  <2>3. wo \in 1 .. MaxWosize /\ MaxWosize \in Nat
    BY FreeListAssumption
  <2>. QED BY <2>1, <2>2, <2>3 DEF Nil
<1>. DEFINE g == Given(r, wo)
<1>5. /\ HeapInv(g, C, sc, Put(lv, r.hp, wo))
      /\ g.fl = r.m.fl /\ g.prev = r.m.prev /\ g.flp = r.m.flp
      /\ g.beyond = r.m.beyond /\ g.flpmax = r.m.flpmax
  BY <1>3, <1>4, GiveKeeps
<1>. HIDE DEF g
<1>6. FlpOk(g)
  BY <1>2, <1>5 DEF FlpOk
<1>. QED BY <1>4, <1>5, <1>6 DEF Answers, g

\* An answer of null, when no record fits, is a refusal in order.
LEMMA NotFoundRefuses ==
  ASSUME NEW n, NEW C, NEW sc, NEW lv, HeapInv(n, C, sc, lv), FlpOk(n),
         NEW wo \in Requests, NoRecord(n, wo)
  PROVE  Refuses(NotFound(n), wo, C, sc, lv)
<1>. DEFINE r == NotFound(n)
            p == r.m
            k == [p EXCEPT !.last = Nil]
<1>1. /\ r.hp = Nil /\ Allocator(p) /\ p.last = LastFree(n)
      /\ \A f \in Fields \ {"last"} : p[f] = n[f]
  BY HeapFacts, NotFoundFacts
<1>. HIDE DEF r
<1>2. p.prev = n.prev /\ \A f \in HeapFields : p[f] = n[f]
  BY <1>1 DEF HeapFields, Fields
<1>3. Searched(n, r, wo)
  BY <1>1, <1>2 DEF Searched
<1>4. /\ HeapInv(p, C, sc, lv) /\ p.fl = n.fl /\ p.prev = n.prev
      /\ HeapInv(k, C, sc, lv) /\ \A f \in Fields \ {"last"} : k[f] = p[f]
  BY <1>1, <1>3, RefusedKeeps
<1>. HIDE DEF p, k
<1>5. /\ p.fl = n.fl /\ p.prev = n.prev /\ p.flp = n.flp /\ p.beyond = n.beyond
      /\ p.flpmax = n.flpmax /\ p.blk = n.blk
  BY <1>1 DEF Fields
<1>6. /\ k.fl = p.fl /\ k.prev = p.prev /\ k.flp = p.flp /\ k.beyond = p.beyond
      /\ k.flpmax = p.flpmax
  BY <1>4 DEF Fields
<1>7. FlpOk(p)
  BY <1>5 DEF FlpOk
<1>8. FlpOk(k)
  BY <1>6, <1>7 DEF FlpOk
<1>9. LastFree(p) = LastFree(n)
  BY <1>5 DEF LastFree, At
<1>10. \A a : Sz(p, a) = Sz(n, a) /\ Next_small(p, a) = Next_small(n, a)
  BY <1>5 DEF Sz, Next_small, At, Pos
<1>11. NoRecord(p, wo)
  BY <1>5, <1>10 DEF NoRecord
<1>. QED BY <1>1, <1>4, <1>7, <1>8, <1>9, <1>11 DEF Refuses, p, k, r

\* The position after which the slow search begins.
SlowEnd(n) == IF n.beyond # Nil THEN Pos(n, n.beyond) ELSE Pos(n, Last(n.flp))

\* Every record lies at or before it.
LEMMA SlowEndFacts ==
  ASSUME NEW n, Rising(n.fl), FlpOk(n), Len(n.flp) = n.flpmax
  PROVE  /\ SlowEnd(n) \in 0 .. Len(n.fl)
         /\ n.beyond # Nil => n.beyond = At(n, SlowEnd(n))
         /\ \A i \in 1 .. Len(n.flp) : n.flp[i] \in Nat /\ n.flp[i] <= At(n, SlowEnd(n))
<1>. DEFINE flp == n.flp
            p == SlowEnd(n)
            size == Len(flp)
<1>1. /\ flp \in Seq(Nat) /\ size \in Nat \ {0}
      /\ \A i \in 1 .. size : flp[i] \in Range(n.fl) \cup {Nil}
      /\ \A i, j \in 1 .. size : i < j => flp[i] < flp[j]
      /\ n.beyond \in Range(n.fl) \cup {Nil}
      /\ n.beyond # Nil => \A i \in 1 .. size : flp[i] < n.beyond
  BY DEF FlpOk, Table
<1>2. Last(flp) = flp[size] /\ size \in 1 .. size
  BY <1>1 DEF Last
<1>3. \A a \in Range(n.fl) \cup {Nil} : /\ Pos(n, a) \in 0 .. Len(n.fl)
                                        /\ At(n, Pos(n, a)) = a /\ a \in Nat
  BY PositionFacts
<1>4. p = IF n.beyond # Nil THEN Pos(n, n.beyond) ELSE Pos(n, flp[size])
  BY <1>2 DEF SlowEnd
<1>. HIDE DEF p, flp, size
<1>5. flp[size] \in Range(n.fl) \cup {Nil}
  BY <1>1, <1>2
<1>6. CASE n.beyond # Nil
  <2>1. p \in 0 .. Len(n.fl) /\ At(n, p) = n.beyond
    BY <1>1, <1>3, <1>4, <1>6
  <2>2. \A i \in 1 .. size : flp[i] \in Nat /\ flp[i] <= n.beyond
    BY <1>1, <1>3, <1>6
  <2>. QED BY <2>1, <2>2 DEF p, flp, size
<1>7. CASE n.beyond = Nil
  <2>1. p \in 0 .. Len(n.fl) /\ At(n, p) = flp[size]
    BY <1>3, <1>4, <1>5, <1>7
  <2>2. ASSUME NEW i \in 1 .. size PROVE flp[i] \in Nat /\ flp[i] <= flp[size]
    <3>1. flp[i] \in Nat /\ flp[size] \in Nat
      BY <1>1, <1>3, <1>5
    <3>2. i = size \/ i < size
      BY <1>1
    <3>. QED BY <1>1, <1>2, <3>1, <3>2
  <2>. QED BY <1>7, <2>1, <2>2 DEF p, flp, size
<1>. QED BY <1>6, <1>7

\* The slow search finds a block if there is one after that position.
LEMMA SlowSearches ==
  ASSUME NEW n, NEW C, NEW sc, NEW lv, HeapInv(n, C, sc, lv), FlpOk(n),
         Len(n.flp) = n.flpmax, NEW wo \in Requests, NoRecord(n, wo)
  PROVE  LET r == SlowSearch(n, wo)
         IN  /\ r.hp # Nil => Answers(r, wo, C, sc, lv)
             /\ r.hp = Nil => /\ Refuses(r, wo, C, sc, lv)
                              /\ \A x \in SlowEnd(n) + 1 .. Len(n.fl) : ~(wo <= Sz(n, n.fl[x]))
<1>. DEFINE R == Range(n.fl)
            flp == n.flp
            N == Len(n.fl)
            p == SlowEnd(n)
            fit == Fits(n, wo, p + 1 .. N)
            g == IF fit = {} THEN N + 1 ELSE Min(fit)
            low == {k \in p + 1 .. g - 1 : Sz(n, n.fl[k]) < Largest(n, n.flpmax)}
            b == IF low = {} THEN n.beyond ELSE n.fl[Max(low)]
            m1 == [n EXCEPT !.beyond = b]
            r == SlowSearch(n, wo)
<1>1. /\ Rising(n.fl) /\ R \in SUBSET (Nat \ {0}) /\ Allocator(n)
      /\ \A a \in R : Sz(n, a) \in Nat
  BY HeapFacts
<1>2. wo \in Nat
  BY FreeListAssumption
<1>3. /\ n.prev = Nil /\ n.flpmax \in Nat \ {0} /\ Len(flp) <= n.flpmax
      /\ Table(R, flp, n.beyond)
  BY DEF FlpOk
<1>4. /\ flp \in Seq(Nat)
      /\ \A i \in 1 .. Len(flp) : flp[i] \in R \cup {Nil} /\ \E a \in R : flp[i] < a
      /\ \A i, j \in 1 .. Len(flp) : i < j => flp[i] < flp[j]
      /\ n.beyond \in R \cup {Nil}
  BY <1>3 DEF Table
<1>5. /\ p \in 0 .. N /\ N \in Nat
      /\ n.beyond # Nil => n.beyond = At(n, p)
      /\ \A i \in 1 .. Len(flp) : flp[i] \in Nat /\ flp[i] <= At(n, p)
  BY <1>1, SlowEndFacts, PositionFacts
<1>6. \A x \in 1 .. N : p < x => /\ n.fl[x] \in R /\ n.fl[x] \in Nat /\ At(n, p) < n.fl[x]
                                 /\ At(n, p) \in Nat
  <2>1. /\ \A x, y \in 0 .. N : x < y <=> At(n, x) < At(n, y)
        /\ \A x \in 0 .. N : At(n, x) \in Nat
        /\ \A x \in 1 .. N : At(n, x) = n.fl[x] /\ n.fl[x] \in R
    BY <1>1, PositionFacts
  <2>. HIDE DEF p, N, R
  <2>. QED BY <1>5, <2>1
<1>7. fit \in SUBSET (1 .. N) /\ \A x \in fit : p < x /\ wo <= Sz(n, n.fl[x])
  <2>. HIDE DEF p, N
  <2>1. \A x \in p + 1 .. N : x \in 1 .. N /\ p < x
    BY <1>5
  <2>2. \A x \in fit : x \in p + 1 .. N /\ Sz(n, n.fl[x]) >= wo
    BY DEF Fits
  <2>3. \A x \in 1 .. N : Sz(n, n.fl[x]) \in Nat
    BY <1>1, RisingRange DEF N
  <2>. QED BY <1>2, <2>1, <2>2, <2>3
<1>8. fit # {} => g \in fit
  BY <1>5, <1>7, MinOf
<1>9. r = IF fit = {} THEN NotFound(m1)
          ELSE ff_allocate_block(m1, wo, Len(flp) + 1, At(n, g - 1), n.fl[g])
  BY DEF SlowSearch, SlowEnd
<1>10. g \in Nat /\ g <= N + 1
  BY <1>5, <1>7, <1>8
<1>. HIDE DEF g, fit
<1>11. low # {} => Max(low) \in 1 .. N /\ p < Max(low) /\ Max(low) < g
  <2>. HIDE DEF p, N
  <2>1. low \in SUBSET (0 .. N) /\ \A x \in low : x \in 1 .. N /\ p < x /\ x < g
    BY <1>5, <1>10
  <2>. HIDE DEF low
  <2>. QED BY <1>5, <2>1, MaxOf
<1>. HIDE DEF low
<1>12. /\ b \in R \cup {Nil}
       /\ b # Nil => \A i \in 1 .. Len(flp) : flp[i] < b
       /\ b # Nil => b = At(n, p) \/ \E x \in 1 .. N : p < x /\ x < g /\ b = n.fl[x]
  <2>1. ASSUME low = {}
        PROVE  b = n.beyond
    BY <2>1
  <2>2. ASSUME low # {}
        PROVE  b = n.fl[Max(low)]
    BY <2>2
  <2>3. n.beyond # Nil => \A i \in 1 .. Len(flp) : flp[i] < n.beyond
    BY <1>3 DEF Table
  <2>. HIDE DEF b, p, N, R, flp
  <2>4. CASE low = {}
    BY <1>4, <1>5, <2>1, <2>3, <2>4
  <2>5. CASE low # {}
    <3>. DEFINE x == Max(low)
    <3>1. x \in 1 .. N /\ p < x /\ x < g /\ b = n.fl[x]
      BY <1>11, <2>2, <2>5
    <3>. HIDE DEF x
    <3>2. b \in R /\ b \in Nat /\ At(n, p) < b /\ At(n, p) \in Nat
      BY <1>6, <3>1
    <3>3. \A i \in 1 .. Len(flp) : flp[i] < b
      BY <1>5, <3>2
    <3>. QED BY <3>1, <3>2, <3>3
  <2>. QED BY <2>4, <2>5
<1>. HIDE DEF b
<1>13. Tabled(n, m1, flp, b)
  BY <1>1, TableSets
<1>. HIDE DEF m1
<1>14. /\ HeapInv(m1, C, sc, lv) /\ m1.fl = n.fl /\ m1.prev = Nil /\ m1.flpmax = n.flpmax
       /\ m1.flp = flp /\ m1.beyond = b
       /\ \A a : Sz(m1, a) = Sz(n, a) /\ Next_small(m1, a) = Next_small(n, a)
  BY <1>3, <1>13, TabledHeap
<1>15. NoRecord(m1, wo)
  BY <1>14 DEF NoRecord
<1>16. ASSUME fit = {}
       PROVE  /\ r.hp = Nil /\ Refuses(r, wo, C, sc, lv)
              /\ \A x \in p + 1 .. N : ~(wo <= Sz(n, n.fl[x]))
  <2>1. Table(R, flp, b)
    BY <1>3, <1>4, <1>12 DEF Table
  <2>2. FlpOk(m1)
    BY <1>3, <1>14, <2>1 DEF FlpOk
  <2>3. r = NotFound(m1)
    BY <1>9, <1>16
  <2>4. Refuses(r, wo, C, sc, lv)
    BY <1>14, <1>15, <2>2, <2>3, NotFoundRefuses
  <2>5. \A x \in p + 1 .. N : ~(wo <= Sz(n, n.fl[x]))
    <3>1. \A x \in p + 1 .. N : x \in 1 .. N
      <4>. HIDE DEF p, N
      <4>. QED BY <1>5
    <3>2. \A x \in 1 .. N : Sz(n, n.fl[x]) \in Nat
      BY <1>1, RisingRange DEF N
    <3>3. \A x \in p + 1 .. N : ~(Sz(n, n.fl[x]) >= wo)
      BY <1>16 DEF fit, Fits
    <3>. HIDE DEF p, N
    <3>. QED BY <1>2, <3>1, <3>2, <3>3
  <2>. QED BY <2>4, <2>5 DEF Refuses
<1>17. ASSUME fit # {}
       PROVE  Answers(r, wo, C, sc, lv)
  <2>. DEFINE cur == n.fl[g]
              prev == At(n, g - 1)
              i == Len(flp) + 1
  <2>1. g \in 1 .. N /\ p < g /\ wo <= Sz(n, cur)
    BY <1>7, <1>8, <1>17
  <2>2. /\ cur \in R /\ NextBelow(R, cur, prev) /\ prev \in R \cup {Nil}
    BY <1>1, <2>1, AtFacts
  <2>3. cur \in Nat /\ At(n, p) < cur /\ At(n, p) \in Nat
    BY <1>6, <2>1
  <2>4. ~(i < Len(flp)) /\ i # Len(flp)
    BY <1>4
  <2>5. r = ff_allocate_block(m1, wo, i, prev, cur)
    BY <1>9, <1>17
  <2>. HIDE DEF cur, prev, i, r
  <2>6. Cuts(m1, r, wo, prev, cur, flp, b)
    <3>1. /\ cur \in Range(m1.fl) /\ wo <= Sz(m1, cur) /\ NextBelow(Range(m1.fl), cur, prev)
      BY <1>14, <2>1, <2>2
    <3>2. \/ Cuts(m1, r, wo, prev, cur, m1.flp, m1.beyond)
      BY <1>14, <2>4, <2>5, <3>1, BlockCuts
    <3>. QED BY <1>14, <3>2
  <2>7. Remaining(m1, wo, cur) = R \/ Remaining(m1, wo, cur) = R \ {cur}
    BY <1>14 DEF Remaining
  <2>8. Table(R \ {cur}, flp, b) /\ Table(R, flp, b)
    <3>1. \A j \in 1 .. Len(flp) : flp[j] \in (R \ {cur}) \cup {Nil}
      BY <1>4, <1>5, <2>3
    <3>2. ASSUME NEW j \in 1 .. Len(flp) PROVE \E a \in R \ {cur} : flp[j] < a
      <4>. DEFINE y == Next_small(n, flp[j])
      <4>1. ~(wo <= Sz(n, y))
        BY DEF NoRecord
      <4>2. NextAbove(R, flp[j], y)
        BY <1>1, <1>4, NextSmallFacts
      <4>. HIDE DEF y
      <4>3. y \in R /\ flp[j] < y
        BY <1>4, <4>2 DEF NextAbove
      <4>4. y # cur
        BY <2>1, <4>1
      <4>. QED BY <4>3, <4>4
    <3>3. b \in (R \ {cur}) \cup {Nil}
      <4>1. ASSUME NEW x \in 1 .. N, x < g PROVE n.fl[x] # cur
        BY <1>1, <2>1, <4>1, RisingRange DEF cur
      <4>2. At(n, p) # cur
        BY <2>3
      <4>. QED BY <1>12, <4>1, <4>2
    <3>. HIDE DEF R, flp
    <3>. QED BY <1>4, <1>12, <3>1, <3>2, <3>3 DEF Table
  <2>9. FlpOk(r.m)
    <3>1. /\ r.m.prev = Nil /\ r.m.flpmax = n.flpmax /\ r.m.flp = flp /\ r.m.beyond = b
          /\ Range(r.m.fl) = Remaining(m1, wo, cur)
      BY <1>14, <2>6 DEF Cuts
    <3>2. Table(Range(r.m.fl), flp, b)
      BY <2>7, <2>8, <3>1
    <3>. QED BY <1>3, <3>1, <3>2 DEF FlpOk
  <2>10. Gave(m1, r, wo)
    <3>1. Found(m1, r, wo, prev, cur)
      BY <2>6 DEF Cuts
    <3>. QED BY <1>14, <2>2, <2>9, <3>1 DEF Gave
  <2>. QED BY <1>14, <2>10, GaveAnswers
<1>18. Answers(r, wo, C, sc, lv) => r.hp # Nil
  BY DEF Answers
<1>. HIDE DEF r
<1>19. /\ r.hp # Nil => Answers(r, wo, C, sc, lv)
       /\ r.hp = Nil => /\ Refuses(r, wo, C, sc, lv)
                        /\ \A x \in p + 1 .. N : ~(wo <= Sz(n, n.fl[x]))
  BY <1>16, <1>17, <1>18
<1>. QED BY <1>19 DEF r, p, N

\* w is the table flp followed by the records of s, which lie before e.
Extended(n, flp, e, s, w) ==
  /\ Climbs(w) /\ Len(w) = Len(flp) + Len(s)
  /\ \A k \in 1 .. Len(w) : Leads(Range(n.fl), w[k]) /\ w[k] < At(n, e)
  /\ \A k \in 1 .. Len(w) : \/ \E i \in 1 .. Len(flp) : w[k] = flp[i]
                            \/ \E i \in 1 .. Len(s) : Next_small(n, w[k]) = n.fl[s[i]]
  /\ Len(s) # 0 => Next_small(n, w[Len(w)]) = n.fl[s[Len(s)]]

\* The table flp, before the position p, followed by the records of s.
LEMMA FlpExtends ==
  ASSUME NEW n, Rising(n.fl), NEW flp, Climbs(flp),
         \A i \in 1 .. Len(flp) : Leads(Range(n.fl), flp[i]),
         NEW p \in 0 .. Len(n.fl), \A i \in 1 .. Len(flp) : flp[i] < At(n, p),
         NEW e \in 0 .. Len(n.fl), p <= e,
         NEW s, Rising(s), \A k \in 1 .. Len(s) : s[k] \in p + 1 .. e
  PROVE  Extended(n, flp, e, s, flp \o [k \in 1 .. Len(s) |-> At(n, s[k] - 1)])
<1>. DEFINE t == [k \in 1 .. Len(s) |-> At(n, s[k] - 1)]
            w == flp \o t
            R == Range(n.fl)
<1>1. Len(s) \in Nat /\ Len(s) \in 0 .. Len(s)
  BY RisingRange
<1>2. /\ Climbs(t) /\ Len(t) = Len(s)
      /\ \A k \in 1 .. Len(s) : /\ t[k] \in Range(n.fl) \cup {Nil}
                                /\ At(n, p) <= t[k] /\ t[k] < At(n, e)
                                /\ Next_small(n, t[k]) = n.fl[s[k]]
                                /\ n.fl[s[k]] \in Range(n.fl) /\ t[k] < n.fl[s[k]]
  BY <1>1, RecordsOf
<1>3. At(n, p) \in Nat /\ At(n, e) \in Nat /\ At(n, p) <= At(n, e)
  <2>1. /\ \A q \in 0 .. Len(n.fl) : At(n, q) \in Nat
        /\ \A x, y \in 0 .. Len(n.fl) : x < y <=> At(n, x) < At(n, y)
        /\ Len(n.fl) \in Nat
    BY PositionFacts
  <2>2. p = e \/ p < e
    BY <2>1
  <2>. QED BY <2>1, <2>2
<1>. HIDE DEF t
<1>4. /\ flp \in Seq(Nat) /\ Len(flp) \in Nat /\ \A i \in 1 .. Len(flp) : flp[i] \in Nat
      /\ t \in Seq(Nat) /\ \A k \in 1 .. Len(s) : t[k] \in Nat
  BY <1>2 DEF Climbs
<1>5. \A i \in 1 .. Len(flp), k \in 1 .. Len(t) : flp[i] < t[k]
  <2>. SUFFICES ASSUME NEW i \in 1 .. Len(flp), NEW k \in 1 .. Len(t) PROVE flp[i] < t[k]
    OBVIOUS
  <2>1. flp[i] < At(n, p) /\ flp[i] \in Nat
    BY <1>4
  <2>2. At(n, p) <= t[k] /\ t[k] \in Nat
    BY <1>2, <1>4
  <2>. QED BY <1>3, <2>1, <2>2
<1>6. /\ Climbs(w) /\ Len(w) = Len(flp) + Len(s)
      /\ \A k \in 1 .. Len(w) : \/ \E i \in 1 .. Len(flp) : w[k] = flp[i]
                                \/ \E i \in 1 .. Len(s) : w[k] = t[i]
  <2>1. /\ Climbs(w) /\ Len(w) = Len(flp) + Len(t)
        /\ \A k \in 1 .. Len(w) : \/ \E i \in 1 .. Len(flp) : w[k] = flp[i]
                                  \/ \E i \in 1 .. Len(t) : w[k] = t[i]
    <3>1. Climbs(t) /\ \A i \in 1 .. Len(flp), j \in 1 .. Len(t) : flp[i] < t[j]
      BY <1>2, <1>5
    <3>. HIDE DEF R
    <3>. QED BY ONLY Climbs(flp), <3>1, ClimbsOn
  <2>. QED BY <1>2, <2>1
<1>7. Len(s) # 0 => w[Len(w)] = t[Len(s)]
  <2>1. Len(s) # 0 => Len(s) \in 1 .. Len(t)
    BY <1>1, <1>2
  <2>2. \A i \in 1 .. Len(t) : w[Len(flp) + i] = t[i]
    BY <1>4, Concatenated
  <2>. QED BY <1>6, <2>1, <2>2
<1>. HIDE DEF w
<1>8. ASSUME NEW k \in 1 .. Len(w)
      PROVE  /\ Leads(R, w[k]) /\ w[k] < At(n, e)
             /\ \/ \E i \in 1 .. Len(flp) : w[k] = flp[i]
                \/ \E i \in 1 .. Len(s) : Next_small(n, w[k]) = n.fl[s[i]]
  <2>1. CASE \E i \in 1 .. Len(flp) : w[k] = flp[i]
    BY <1>3, <1>4, <2>1
  <2>2. CASE \E i \in 1 .. Len(s) : w[k] = t[i]
    BY <1>2, <2>2 DEF Leads
  <2>. QED BY <1>6, <2>1, <2>2
<1>9. Len(s) # 0 => Next_small(n, w[Len(w)]) = n.fl[s[Len(s)]]
  <2>1. Len(s) # 0 => Len(s) \in 1 .. Len(s)
    BY <1>1
  <2>. QED BY <1>2, <1>7, <2>1
<1>10. Extended(n, flp, e, s, w)
  BY <1>6, <1>8, <1>9 DEF Extended, R
<1>. QED BY <1>10 DEF w, t

\* The position after which ff_allocate extends the table.
FlpEnd(n) ==
  LET size == Len(n.flp)
  IN IF n.beyond # Nil /\ size > 0 THEN Pos(n, n.beyond)
     ELSE IF size > 0 THEN Pos(n, Next_small(n, n.flp[size])) ELSE 0

\* The table ends within the list, and its records lie before that end.
LEMMA FlpEndFacts ==
  ASSUME NEW n, Rising(n.fl), FlpOk(n)
  PROVE  /\ FlpEnd(n) \in 0 .. Len(n.fl)
         /\ Climbs(n.flp) /\ \A i \in 1 .. Len(n.flp) : Leads(Range(n.fl), n.flp[i])
         /\ \A i \in 1 .. Len(n.flp) : n.flp[i] < At(n, FlpEnd(n))
<1>. DEFINE flp == n.flp
            p == FlpEnd(n)
            size == Len(flp)
            R == Range(n.fl)
            y == Next_small(n, flp[size])
<1>1. /\ flp \in Seq(Nat) /\ size \in Nat
      /\ \A i \in 1 .. size : flp[i] \in R \cup {Nil} /\ flp[i] \in Nat /\ \E b \in R : flp[i] < b
      /\ \A i, j \in 1 .. size : i < j => flp[i] < flp[j]
      /\ n.beyond \in R \cup {Nil}
      /\ n.beyond # Nil => \A i \in 1 .. size : flp[i] < n.beyond
  BY DEF FlpOk, Table
<1>2. \A a \in R \cup {Nil} : Pos(n, a) \in 0 .. Len(n.fl) /\ At(n, Pos(n, a)) = a /\ a \in Nat
  BY PositionFacts
<1>3. Len(n.fl) \in Nat /\ 0 \in 0 .. Len(n.fl)
  BY RisingRange
<1>4. p = IF n.beyond # Nil /\ size > 0 THEN Pos(n, n.beyond)
          ELSE IF size > 0 THEN Pos(n, y) ELSE 0
  BY DEF FlpEnd
<1>5. Climbs(flp) /\ \A i \in 1 .. size : Leads(R, flp[i])
  BY <1>1 DEF Climbs, Leads
<1>6. ASSUME size > 0 PROVE y \in R /\ flp[size] < y /\ size \in 1 .. size
  <2>1. size \in 1 .. size
    BY <1>1, <1>6
  <2>2. NextAbove(R, flp[size], y)
    BY <1>1, <2>1, NextSmallFacts
  <2>. HIDE DEF y
  <2>. QED BY <1>1, <2>1, <2>2 DEF NextAbove
<1>. HIDE DEF p, flp, size, R, y
<1>7. CASE size > 0 /\ n.beyond # Nil
  <2>1. p \in 0 .. Len(n.fl) /\ At(n, p) = n.beyond
    BY <1>1, <1>2, <1>4, <1>7
  <2>. QED BY <1>1, <1>5, <1>7, <2>1 DEF p, flp, size, R
<1>8. CASE size > 0 /\ n.beyond = Nil
  <2>1. p \in 0 .. Len(n.fl) /\ At(n, p) = y /\ y \in Nat
    BY <1>2, <1>4, <1>6, <1>8
  <2>2. ASSUME NEW i \in 1 .. size PROVE flp[i] < y
    <3>1. i = size \/ i < size
      BY <1>1
    <3>2. i \in 1 .. size /\ size \in 1 .. size
      BY <1>6, <1>8
    <3>3. flp[i] \in Nat /\ flp[size] \in Nat /\ flp[size] < y
      BY <1>1, <1>6, <1>8, <3>2
    <3>4. i < size => flp[i] < flp[size]
      BY <1>1, <3>2
    <3>. QED BY <2>1, <3>1, <3>3, <3>4
  <2>. QED BY <1>5, <2>1, <2>2 DEF p, flp, size, R
<1>9. CASE ~(size > 0)
  <2>1. p = 0 /\ \A i \in 1 .. size : FALSE
    BY <1>1, <1>4, <1>9
  <2>. QED BY <1>3, <1>5, <2>1 DEF p, flp, size, R
<1>. QED BY <1>7, <1>8, <1>9

\* What ff_allocate finds after that position: the blocks that fit, how far it
\* goes, the larger and larger blocks on the way and those it records.
FlpFit(n, wo) == Fits(n, wo, FlpEnd(n) + 1 .. Len(n.fl))
FlpUpto(n, wo) == IF FlpFit(n, wo) = {} THEN Len(n.fl) ELSE Min(FlpFit(n, wo))
FlpMaxima(n, wo) == Maxima(n, FlpEnd(n) + 1, FlpUpto(n, wo), Largest(n, Len(n.flp)))
FlpNew(n, wo) ==
  LET s == FlpMaxima(n, wo)
  IN  SubSeq(s, 1, Min({n.flpmax - Len(n.flp), Len(s)}))
Longer(n, wo) ==
  LET s == FlpNew(n, wo)
  IN  n.flp \o [k \in 1 .. Len(s) |-> At(n, s[k] - 1)]

\* The first block past the table that fits, and how far the table is extended.
LEMMA FlpFitFacts ==
  ASSUME NEW n, NEW C, NEW sc, NEW lv, HeapInv(n, C, sc, lv), FlpOk(n), NEW wo \in Requests
  PROVE  LET fit == FlpFit(n, wo)
             upto == FlpUpto(n, wo)
         IN  /\ \A x \in FlpEnd(n) + 1 .. Len(n.fl) : x \notin fit => ~(wo <= Sz(n, n.fl[x]))
             /\ upto \in 0 .. Len(n.fl) /\ FlpEnd(n) <= upto
             /\ fit # {} => /\ upto \in 1 .. Len(n.fl) /\ FlpEnd(n) < upto
                            /\ wo <= Sz(n, n.fl[upto])
             /\ \A x \in fit : upto <= x
<1>. DEFINE p == FlpEnd(n)
            N == Len(n.fl)
            fit == FlpFit(n, wo)
            upto == FlpUpto(n, wo)
<1>1. /\ Rising(n.fl) /\ \A a \in Range(n.fl) : Sz(n, a) \in Nat
  BY HeapFacts
<1>2. wo \in Nat
  BY FreeListAssumption
<1>3. p \in 0 .. N /\ N \in Nat /\ \A x \in 1 .. N : Sz(n, n.fl[x]) \in Nat
  BY <1>1, FlpEndFacts, RisingRange
<1>4. \A x \in fit : x \in p + 1 .. N /\ Sz(n, n.fl[x]) >= wo
  BY DEF FlpFit, Fits
<1>5. \A x \in p + 1 .. N : x \notin fit => ~(Sz(n, n.fl[x]) >= wo)
  BY DEF FlpFit, Fits
<1>6. upto = IF fit = {} THEN N ELSE Min(fit)
  BY DEF FlpUpto
<1>. HIDE DEF p, N, fit, upto
<1>7. \A x \in p + 1 .. N : x \in 1 .. N /\ p < x
  BY <1>3
<1>8. \A x \in p + 1 .. N : x \notin fit => ~(wo <= Sz(n, n.fl[x]))
  BY <1>2, <1>3, <1>5, <1>7
<1>9. ASSUME fit # {}
      PROVE  upto \in fit /\ \A x \in fit : upto <= x
  <2>1. fit \in SUBSET Nat
    BY <1>3, <1>4, <1>7
  <2>. QED BY <1>6, <1>9, <2>1, MinOf
<1>10. fit # {} => upto \in 1 .. N /\ p < upto /\ wo <= Sz(n, n.fl[upto])
  <2>. SUFFICES ASSUME fit # {} PROVE upto \in 1 .. N /\ p < upto /\ wo <= Sz(n, n.fl[upto])
    OBVIOUS
  <2>1. upto \in 1 .. N /\ p < upto /\ Sz(n, n.fl[upto]) >= wo
    BY <1>4, <1>7, <1>9
  <2>. QED BY <1>2, <1>3, <2>1
<1>11. upto \in 0 .. N /\ p <= upto
  BY <1>3, <1>6, <1>10
<1>. QED BY <1>8, <1>9, <1>10, <1>11 DEF p, N, fit, upto

\* What they are when no record fits.
LEMMA FlpNewFacts ==
  ASSUME NEW n, NEW C, NEW sc, NEW lv, HeapInv(n, C, sc, lv), FlpOk(n),
         NEW wo \in Requests, NoRecord(n, wo)
  PROVE  LET fit == FlpFit(n, wo)
             upto == FlpUpto(n, wo)
             maxima == FlpMaxima(n, wo)
             new == FlpNew(n, wo)
             room == n.flpmax - Len(n.flp)
         IN  /\ Rising(new) /\ \A k \in 1 .. Len(new) : new[k] \in FlpEnd(n) + 1 .. upto
             /\ Len(new) \in Nat /\ Len(maxima) \in Nat /\ room \in Nat
             /\ Len(new) <= room /\ (Len(new) = room \/ Len(new) = Len(maxima))
             /\ fit = {} \/ Len(maxima) > room =>
                  \A k \in 1 .. Len(new) : new[k] \notin fit
             /\ fit # {} => Len(maxima) # 0
             /\ fit # {} /\ Len(maxima) <= room => new[Len(new)] = upto
             /\ fit # {} /\ Len(maxima) > room => \A k \in 1 .. Len(new) : new[k] < upto
<1>. DEFINE p == FlpEnd(n)
            fit == FlpFit(n, wo)
            upto == FlpUpto(n, wo)
            base == Largest(n, Len(n.flp))
            s == FlpMaxima(n, wo)
            room == n.flpmax - Len(n.flp)
            j == Min({room, Len(s)})
            new == FlpNew(n, wo)
<1>1. /\ \A x \in p + 1 .. Len(n.fl) : x \notin fit => ~(wo <= Sz(n, n.fl[x]))
      /\ upto \in 0 .. Len(n.fl) /\ p <= upto
      /\ fit # {} => upto \in 1 .. Len(n.fl) /\ p < upto /\ wo <= Sz(n, n.fl[upto])
      /\ \A x \in fit : upto <= x
  BY FlpFitFacts
<1>2. /\ Rising(n.fl) /\ \A a \in DOMAIN n.blk : Sz(n, a) \in Nat
      /\ Range(n.fl) \subseteq DOMAIN n.blk
  BY HeapFacts
<1>3. /\ p \in 0 .. Len(n.fl) /\ Len(n.fl) \in Nat
      /\ \A x \in 1 .. Len(n.fl) : Sz(n, n.fl[x]) \in Nat
  BY <1>2, FlpEndFacts, RisingRange
<1>4. wo \in Nat /\ wo > 0
  BY FreeListAssumption
<1>5. /\ Len(n.flp) \in Nat /\ n.flpmax \in Nat /\ Len(n.flp) <= n.flpmax /\ room \in Nat
  BY DEF FlpOk, Table
<1>6. base \in Nat => base < wo
  <2>1. CASE Len(n.flp) = 0
    BY <1>4, <2>1 DEF Largest
  <2>2. CASE Len(n.flp) # 0
    <3>1. Len(n.flp) \in 1 .. Len(n.flp)
      BY <1>5, <2>2
    <3>2. ~(wo <= Sz(n, Next_small(n, n.flp[Len(n.flp)])))
      BY <3>1 DEF NoRecord
    <3>3. base = Sz(n, Next_small(n, n.flp[Len(n.flp)]))
      BY <2>2 DEF Largest
    <3>. QED BY <1>4, <3>2, <3>3
  <2>. QED BY <2>1, <2>2
<1>7. base \in Nat
  <2>1. CASE Len(n.flp) = 0
    BY <2>1 DEF Largest
  <2>2. CASE Len(n.flp) # 0
    <3>. DEFINE a == n.flp[Len(n.flp)]
    <3>1. Len(n.flp) \in 1 .. Len(n.flp)
      BY <1>5, <2>2
    <3>2. a \in Range(n.fl) \cup {Nil} /\ a \in Nat /\ \E b \in Range(n.fl) : a < b
      BY <3>1 DEF FlpOk, Table
    <3>3. base = Sz(n, Next_small(n, a))
      BY <2>2 DEF Largest
    <3>. HIDE DEF a
    <3>4. NextAbove(Range(n.fl), a, Next_small(n, a))
      BY <1>2, <3>2, NextSmallFacts
    <3>5. Next_small(n, a) \in Range(n.fl)
      BY <3>2, <3>4 DEF NextAbove
    <3>. QED BY <1>2, <3>3, <3>5
  <2>. QED BY <2>1, <2>2
<1>8. s = Maxima(n, p + 1, upto, base)
  BY DEF FlpMaxima
<1>9. new = SubSeq(s, 1, j)
  BY DEF FlpNew
<1>. HIDE DEF p, fit, upto, base, s, new, room
<1>. DEFINE lo == p + 1
<1>10. lo \in Nat \ {0} /\ upto \in Nat /\ s = Maxima(n, lo, upto, base)
  BY <1>1, <1>3, <1>8
<1>. HIDE DEF lo
<1>11. /\ Rising(s) /\ Len(s) \in Nat
       /\ \A k \in 1 .. Len(s) : s[k] \in lo .. upto /\ Sz(n, n.fl[s[k]]) > base
       /\ \A x \in lo .. upto :
            Sz(n, n.fl[x]) > base /\ (\A i \in lo .. x - 1 : Sz(n, n.fl[i]) < Sz(n, n.fl[x]))
              => \E k \in 1 .. Len(s) : s[k] = x
  <2>. DEFINE t == Maxima(n, lo, upto, base)
  <2>1. AreMaxima(t, n, lo, upto, base)
    BY <1>10, MaximaFacts
  <2>2. s = t
    BY <1>10
  <2>. HIDE DEF t
  <2>3. AreMaxima(s, n, lo, upto, base)
    BY <2>1, <2>2
  <2>. QED BY <2>3 DEF AreMaxima
<1>12. /\ j \in 0 .. Len(s) /\ j <= room /\ (j = room \/ j = Len(s))
  <2>1. {room, Len(s)} \in SUBSET Nat /\ {room, Len(s)} # {}
    BY <1>5, <1>11
  <2>2. j \in {room, Len(s)} /\ \A k \in {room, Len(s)} : j <= k
    BY <2>1, MinOf
  <2>. HIDE DEF j
  <2>. QED BY <1>5, <1>11, <2>2
<1>. HIDE DEF j
<1>13. /\ Rising(new) /\ Len(new) = j
       /\ \A k \in 1 .. j : new[k] = s[k] /\ k \in 1 .. Len(s)
  <2>1. s \in Seq(Nat \ {0}) /\ \A i, k \in 1 .. Len(s) : i < k => s[i] < s[k]
    BY <1>11 DEF Rising
  <2>2. /\ new \in Seq(Nat \ {0}) /\ Len(new) = j
        /\ \A k \in 1 .. j : new[k] = s[k] /\ k \in 1 .. Len(s)
    BY <1>9, <1>11, <1>12, <2>1
  <2>. QED BY <2>1, <2>2 DEF Rising
<1>14. fit # {} => \E k \in 1 .. Len(s) : s[k] = upto
  <2>. SUFFICES ASSUME fit # {} PROVE \E k \in 1 .. Len(s) : s[k] = upto
    OBVIOUS
  <2>1. upto \in lo .. upto /\ upto \in 1 .. Len(n.fl) /\ wo <= Sz(n, n.fl[upto])
    BY <1>1, <1>3 DEF lo
  <2>2. Sz(n, n.fl[upto]) > base
    BY <1>3, <1>4, <1>6, <1>7, <2>1
  <2>3. ASSUME NEW i \in lo .. upto - 1 PROVE Sz(n, n.fl[i]) < Sz(n, n.fl[upto])
    <3>1. i \in p + 1 .. Len(n.fl) /\ i \in 1 .. Len(n.fl) /\ i < upto
      BY <1>3, <2>1 DEF lo
    <3>2. i \notin fit
      BY <1>1, <1>10, <3>1
    <3>3. ~(wo <= Sz(n, n.fl[i]))
      BY <1>1, <3>1, <3>2
    <3>. QED BY <1>3, <1>4, <2>1, <3>1, <3>3
  <2>. QED BY <1>11, <2>1, <2>2, <2>3
<1>15. fit # {} => Len(s) \in 1 .. Len(s) /\ s[Len(s)] = upto
  <2>. SUFFICES ASSUME fit # {} PROVE Len(s) \in 1 .. Len(s) /\ s[Len(s)] = upto
    OBVIOUS
  <2>1. PICK k \in 1 .. Len(s) : s[k] = upto
    BY <1>14
  <2>2. Len(s) \in 1 .. Len(s)
    BY <1>11, <2>1
  <2>3. s[Len(s)] <= upto /\ s[Len(s)] \in Nat
    BY <1>3, <1>10, <1>11, <2>2
  <2>4. ASSUME k < Len(s) PROVE FALSE
    BY <1>10, <1>11, <2>1, <2>2, <2>3, <2>4 DEF Rising
  <2>. QED BY <1>11, <2>1, <2>2, <2>4
<1>16. \A k \in 1 .. j : new[k] \in lo .. upto
  BY <1>11, <1>13
<1>17. fit # {} /\ Len(s) > room => \A k \in 1 .. j : new[k] < upto
  <2>. SUFFICES ASSUME fit # {}, Len(s) > room, NEW k \in 1 .. j PROVE new[k] < upto
    OBVIOUS
  <2>1. k \in 1 .. Len(s) /\ Len(s) \in 1 .. Len(s) /\ k < Len(s)
    BY <1>5, <1>11, <1>12, <1>15
  <2>2. s[k] < s[Len(s)]
    BY <1>11, <2>1 DEF Rising
  <2>. QED BY <1>13, <1>15, <2>2
<1>18. fit = {} \/ Len(s) > room => \A k \in 1 .. j : new[k] \notin fit
  <2>. SUFFICES ASSUME fit = {} \/ Len(s) > room, NEW k \in 1 .. j, new[k] \in fit PROVE FALSE
    OBVIOUS
  <2>1. fit # {} /\ upto <= new[k]
    BY <1>1
  <2>2. new[k] < upto /\ new[k] \in Nat
    BY <1>10, <1>16, <1>17, <2>1
  <2>. QED BY <1>10, <2>1, <2>2
<1>19. fit # {} /\ Len(s) <= room => new[j] = upto
  <2>. SUFFICES ASSUME fit # {}, Len(s) <= room PROVE new[j] = upto
    OBVIOUS
  <2>1. j = Len(s)
    BY <1>5, <1>11, <1>12
  <2>. QED BY <1>13, <1>15, <2>1
<1>20. fit # {} => Len(s) # 0
  BY <1>15
<1>. HIDE DEF lo
<1>21. \A k \in 1 .. j : new[k] \in p + 1 .. upto
  BY <1>16 DEF lo
<1>22. /\ Rising(new) /\ \A k \in 1 .. Len(new) : new[k] \in p + 1 .. upto
       /\ Len(new) \in Nat /\ Len(s) \in Nat /\ room \in Nat
       /\ Len(new) <= room /\ (Len(new) = room \/ Len(new) = Len(s))
       /\ fit = {} \/ Len(s) > room => \A k \in 1 .. Len(new) : new[k] \notin fit
       /\ fit # {} => Len(s) # 0
       /\ fit # {} /\ Len(s) <= room => new[Len(new)] = upto
       /\ fit # {} /\ Len(s) > room => \A k \in 1 .. Len(new) : new[k] < upto
  BY <1>5, <1>11, <1>12, <1>13, <1>17, <1>18, <1>19, <1>20, <1>21
<1>. QED BY <1>22 DEF p, fit, upto, s, new, room

\* The longer table.
LEMMA LongerFacts ==
  ASSUME NEW n, NEW C, NEW sc, NEW lv, HeapInv(n, C, sc, lv), FlpOk(n),
         NEW wo \in Requests, NoRecord(n, wo)
  PROVE  LET w == Longer(n, wo)
             fit == FlpFit(n, wo)
             upto == FlpUpto(n, wo)
             new == FlpNew(n, wo)
             full == Len(FlpMaxima(n, wo)) > n.flpmax - Len(n.flp)
         IN  /\ Climbs(w) /\ Len(w) = Len(n.flp) + Len(new) /\ Len(w) \in Nat
             /\ Len(w) <= n.flpmax
             /\ \A k \in 1 .. Len(w) : Leads(Range(n.fl), w[k]) /\ w[k] < At(n, upto)
             /\ fit = {} \/ full =>
                  \A k \in 1 .. Len(w) : ~(wo <= Sz(n, Next_small(n, w[k])))
             /\ fit # {} /\ ~full =>
                  Len(w) # 0 /\ Next_small(n, w[Len(w)]) = n.fl[upto]
             /\ fit # {} => Len(new) = n.flpmax - Len(n.flp) \/ ~full
             /\ new # <<>> => /\ Last(new) \in 1 .. upto /\ (fit # {} /\ full => Last(new) < upto)
                              /\ \A k \in 1 .. Len(w) : w[k] < n.fl[Last(new)]
<1>. DEFINE p == FlpEnd(n)
            fit == FlpFit(n, wo)
            upto == FlpUpto(n, wo)
            s == FlpMaxima(n, wo)
            room == n.flpmax - Len(n.flp)
            new == FlpNew(n, wo)
            w == Longer(n, wo)
            flp == n.flp
            R == Range(n.fl)
<1>1. /\ Rising(new) /\ \A k \in 1 .. Len(new) : new[k] \in p + 1 .. upto
      /\ Len(new) \in Nat /\ Len(s) \in Nat /\ room \in Nat
      /\ Len(new) <= room /\ (Len(new) = room \/ Len(new) = Len(s))
      /\ fit = {} \/ Len(s) > room => \A k \in 1 .. Len(new) : new[k] \notin fit
      /\ fit # {} => Len(s) # 0
      /\ fit # {} /\ Len(s) <= room => new[Len(new)] = upto
      /\ fit # {} /\ Len(s) > room => \A k \in 1 .. Len(new) : new[k] < upto
  BY FlpNewFacts
<1>2. /\ \A x \in p + 1 .. Len(n.fl) : x \notin fit => ~(wo <= Sz(n, n.fl[x]))
      /\ upto \in 0 .. Len(n.fl) /\ p <= upto
  BY FlpFitFacts
<1>3. Rising(n.fl) /\ Len(n.fl) \in Nat
  BY HeapFacts, RisingRange
<1>4. /\ p \in 0 .. Len(n.fl) /\ Climbs(flp)
      /\ \A i \in 1 .. Len(flp) : Leads(R, flp[i])
      /\ \A i \in 1 .. Len(flp) : flp[i] < At(n, p)
  BY <1>3, FlpEndFacts
<1>5. Len(flp) \in Nat /\ n.flpmax \in Nat
  BY <1>4 DEF Climbs, FlpOk
<1>6. w = flp \o [k \in 1 .. Len(new) |-> At(n, new[k] - 1)]
  BY DEF Longer
<1>7. \A i \in 1 .. Len(flp) : ~(wo <= Sz(n, Next_small(n, flp[i])))
  BY DEF NoRecord
<1>8. \A x \in p + 1 .. upto : x \in p + 1 .. Len(n.fl) /\ x \in 1 .. upto /\ x \in 1 .. Len(n.fl)
  BY <1>2, <1>3, <1>4
<1>9. room = n.flpmax - Len(flp)
  OBVIOUS
<1>. HIDE DEF p, fit, upto, s, room, new, w, flp
<1>10. /\ Climbs(w) /\ Len(w) = Len(flp) + Len(new)
       /\ \A k \in 1 .. Len(w) : Leads(R, w[k]) /\ w[k] < At(n, upto)
       /\ \A k \in 1 .. Len(w) : \/ \E i \in 1 .. Len(flp) : w[k] = flp[i]
                                 \/ \E i \in 1 .. Len(new) : Next_small(n, w[k]) = n.fl[new[i]]
       /\ Len(new) # 0 => Next_small(n, w[Len(w)]) = n.fl[new[Len(new)]]
  <2>. HIDE DEF R
  <2>1. Extended(n, flp, upto, new, flp \o [k \in 1 .. Len(new) |-> At(n, new[k] - 1)])
    BY <1>1, <1>2, <1>3, <1>4, FlpExtends DEF R
  <2>2. Extended(n, flp, upto, new, w)
    BY <1>6, <2>1
  <2>. QED BY <2>2 DEF Extended, R
<1>11. Len(w) \in Nat /\ Len(w) <= n.flpmax
  BY <1>1, <1>5, <1>9, <1>10
<1>12. ASSUME fit = {} \/ Len(s) > room, NEW k \in 1 .. Len(w)
       PROVE  ~(wo <= Sz(n, Next_small(n, w[k])))
  <2>1. CASE \E i \in 1 .. Len(flp) : w[k] = flp[i]
    BY <1>7, <2>1
  <2>2. CASE \E i \in 1 .. Len(new) : Next_small(n, w[k]) = n.fl[new[i]]
    <3>1. PICK i \in 1 .. Len(new) : Next_small(n, w[k]) = n.fl[new[i]]
      BY <2>2
    <3>2. new[i] \notin fit /\ new[i] \in p + 1 .. Len(n.fl)
      BY <1>1, <1>8, <1>12
    <3>3. ~(wo <= Sz(n, n.fl[new[i]]))
      BY <1>2, <3>2
    <3>. QED BY <3>1, <3>3
  <2>. QED BY <1>10, <2>1, <2>2
<1>13. ASSUME fit # {}, ~(Len(s) > room)
       PROVE  Len(w) # 0 /\ Next_small(n, w[Len(w)]) = n.fl[upto]
  <2>1. Len(s) <= room /\ Len(new) # 0
    BY <1>1, <1>13
  <2>2. new[Len(new)] = upto
    BY <1>1, <1>13, <2>1
  <2>. QED BY <1>1, <1>5, <1>10, <2>1, <2>2
<1>14. fit # {} => Len(new) = room \/ ~(Len(s) > room)
  BY <1>1
<1>15. ASSUME new # <<>>
       PROVE  /\ Last(new) \in 1 .. upto /\ (fit # {} /\ Len(s) > room => Last(new) < upto)
              /\ \A k \in 1 .. Len(w) : w[k] < n.fl[Last(new)]
  <2>. DEFINE e == new[Len(new)]
  <2>1. Last(new) = e /\ Len(new) \in 1 .. Len(new)
    <3>1. Len(new) # 0
      BY <1>1, <1>15 DEF Rising
    <3>. QED BY <1>1, <3>1 DEF Last
  <2>2. e \in p + 1 .. upto /\ e \in 1 .. upto /\ e \in 1 .. Len(n.fl)
    BY <1>1, <1>8, <2>1
  <2>3. fit # {} /\ Len(s) > room => e < upto
    BY <1>1, <2>1
  <2>4. ASSUME NEW k \in 1 .. Len(new) PROVE new[k] \in p + 1 .. e
    <3>1. new[k] \in p + 1 .. upto /\ (k = Len(new) \/ k < Len(new))
      BY <1>1
    <3>2. k < Len(new) => new[k] < e
      BY <1>1, <2>1 DEF Rising
    <3>. HIDE DEF e
    <3>3. new[k] <= e
      BY <1>2, <1>4, <2>2, <3>1, <3>2 DEF e
    <3>. QED BY <1>2, <1>4, <2>2, <3>1, <3>3
  <2>. HIDE DEF e
  <2>5. e \in 0 .. Len(n.fl) /\ p <= e
    BY <1>3, <1>4, <2>2
  <2>6. \A k \in 1 .. Len(w) : w[k] < At(n, e)
    <3>1. Extended(n, flp, e, new, flp \o [k \in 1 .. Len(new) |-> At(n, new[k] - 1)])
      BY <1>1, <1>3, <1>4, <2>4, <2>5, FlpExtends
    <3>2. Extended(n, flp, e, new, w)
      BY <1>6, <3>1
    <3>. QED BY <3>2 DEF Extended
  <2>7. At(n, e) = n.fl[e]
    BY <2>2 DEF At
  <2>. QED BY <2>1, <2>2, <2>3, <2>6, <2>7
<1>. QED BY <1>10, <1>11, <1>12, <1>13, <1>14, <1>15 DEF fit, upto, s, room, new, w, flp

\* The table is longer now, and reaches b.
Reached(n, wo, b) == [n EXCEPT !.flp = Longer(n, wo), !.beyond = b]

\* A table made longer by the search is still in order.
LEMMA ReachedFacts ==
  ASSUME NEW n, NEW C, NEW sc, NEW lv, HeapInv(n, C, sc, lv), FlpOk(n),
         NEW wo \in Requests, NoRecord(n, wo),
         NEW b \in Range(n.fl) \cup {Nil},
         b # Nil => \A k \in 1 .. Len(Longer(n, wo)) : Longer(n, wo)[k] < b
  PROVE  LET k == Reached(n, wo, b)
         IN  /\ HeapInv(k, C, sc, lv) /\ FlpOk(k)
             /\ k.fl = n.fl /\ k.flp = Longer(n, wo) /\ k.beyond = b /\ k.flpmax = n.flpmax
             /\ \A a : Sz(k, a) = Sz(n, a) /\ Next_small(k, a) = Next_small(n, a) /\ Pos(k, a) = Pos(n, a)
<1>. DEFINE w == Longer(n, wo)
            k == Reached(n, wo, b)
<1>1. /\ Climbs(w) /\ Len(w) <= n.flpmax
      /\ \A i \in 1 .. Len(w) : Leads(Range(n.fl), w[i])
  BY LongerFacts
<1>2. k = [n EXCEPT !.flp = w, !.beyond = b]
  BY DEF Reached
<1>3. Allocator(n)
  BY HeapFacts
<1>. HIDE DEF w, k
<1>4. Tabled(n, k, w, b)
  BY <1>2, <1>3, TableSets
<1>5. /\ HeapInv(k, C, sc, lv)
      /\ k.fl = n.fl /\ k.prev = n.prev /\ k.flpmax = n.flpmax
      /\ k.flp = w /\ k.beyond = b
      /\ \A a : Sz(k, a) = Sz(n, a) /\ Next_small(k, a) = Next_small(n, a) /\ Pos(k, a) = Pos(n, a)
  BY <1>4, TabledHeap
<1>6. Table(Range(n.fl), w, b)
  <2>1. b # Nil => \A i \in 1 .. Len(w) : w[i] < b
    BY DEF w
  <2>. QED BY <1>1, <2>1, TableOf
<1>7. FlpOk(k)
  BY <1>1, <1>5, <1>6 DEF FlpOk
<1>. QED BY <1>5, <1>7 DEF w, k

\* The four ways out of ff_allocate.
LEMMA FirstAllocates ==
  ASSUME NEW n, NEW wo
  PROVE  LET rec == {i \in 1 .. Len(n.flp) : Largest(n, i) >= wo}
             new == FlpNew(n, wo)
         IN  ff_allocate(n, wo) =
               IF rec # {} THEN TakeRecorded(n, wo, Min(rec))
               ELSE IF FlpFit(n, wo) # {} /\ Len(FlpMaxima(n, wo)) <= n.flpmax - Len(n.flp)
                 THEN TakeRecorded(Reached(n, wo, n.fl[FlpUpto(n, wo)]), wo, Len(n.flp) + Len(new))
               ELSE IF Len(n.flp) + Len(new) < n.flpmax
                 THEN NotFound(Reached(n, wo, LastFree(n)))
               ELSE SlowSearch(Reached(n, wo, IF new = <<>> THEN Nil ELSE n.fl[Last(new)]), wo)
BY DEF ff_allocate, FlpNew, FlpFit, FlpMaxima, FlpUpto, FlpEnd, Reached, Longer

\* ff_allocate answers, or refuses when no record fits and no block does that
\* lies after the table.
LEMMA FirstSearches ==
  ASSUME NEW n, NEW C, NEW sc, NEW lv, HeapInv(n, C, sc, lv), FlpOk(n), NEW wo \in Requests
  PROVE  LET r == ff_allocate(n, wo)
         IN  /\ r.hp # Nil => Answers(r, wo, C, sc, lv)
             /\ r.hp = Nil => /\ Refuses(r, wo, C, sc, lv)
                              /\ NoRecord(n, wo) /\ FlpFit(n, wo) = {}
<1>. DEFINE size == Len(n.flp)
            N == Len(n.fl)
            R == Range(n.fl)
            rec == {i \in 1 .. size : Largest(n, i) >= wo}
            w == Longer(n, wo)
            fit == FlpFit(n, wo)
            upto == FlpUpto(n, wo)
            new == FlpNew(n, wo)
            room == n.flpmax - size
            got == Len(FlpMaxima(n, wo))
            r == ff_allocate(n, wo)
            out == /\ r.hp # Nil => Answers(r, wo, C, sc, lv)
                   /\ r.hp = Nil => Refuses(r, wo, C, sc, lv) /\ NoRecord(n, wo) /\ fit = {}
<1>1. /\ Rising(n.fl) /\ \A a \in R : Sz(n, a) \in Nat
  BY HeapFacts
<1>2. wo \in Nat
  BY FreeListAssumption
<1>3. /\ size \in Nat /\ n.flpmax \in Nat \ {0} /\ size <= n.flpmax /\ n.prev = Nil
      /\ Table(R, n.flp, n.beyond)
      /\ \A i \in 1 .. size : n.flp[i] \in R \cup {Nil} /\ n.flp[i] \in Nat /\ \E b \in R : n.flp[i] < b
  BY DEF FlpOk, Table
<1>4. \A i \in 1 .. size : Largest(n, i) = Sz(n, Next_small(n, n.flp[i])) /\ Largest(n, i) \in Nat
  <2>. SUFFICES ASSUME NEW i \in 1 .. size
                PROVE  Largest(n, i) = Sz(n, Next_small(n, n.flp[i])) /\ Largest(n, i) \in Nat
    OBVIOUS
  <2>. DEFINE a == n.flp[i]
  <2>1. i # 0
    BY <1>3
  <2>2. Largest(n, i) = Sz(n, Next_small(n, a))
    BY <2>1 DEF Largest
  <2>3. a \in R \cup {Nil} /\ a \in Nat /\ \E b \in R : a < b
    BY <1>3
  <2>. HIDE DEF a
  <2>4. NextAbove(R, a, Next_small(n, a))
    BY <1>1, <2>3, NextSmallFacts
  <2>5. Next_small(n, a) \in R
    BY <2>3, <2>4 DEF NextAbove
  <2>. QED BY <1>1, <2>2, <2>5 DEF a
<1>5. r = IF rec # {} THEN TakeRecorded(n, wo, Min(rec))
          ELSE IF fit # {} /\ got <= room
            THEN TakeRecorded(Reached(n, wo, n.fl[upto]), wo, size + Len(new))
          ELSE IF size + Len(new) < n.flpmax
            THEN NotFound(Reached(n, wo, LastFree(n)))
          ELSE SlowSearch(Reached(n, wo, IF new = <<>> THEN Nil ELSE n.fl[Last(new)]), wo)
  BY FirstAllocates
<1>6. Answers(r, wo, C, sc, lv) => out
  BY DEF Answers
<1>. HIDE DEF r, out, rec
<1>7. ASSUME rec # {} PROVE out
  <2>. DEFINE i == Min(rec)
  <2>1. rec \in SUBSET Nat
    BY <1>3 DEF rec
  <2>2. i \in rec
    BY <1>7, <2>1, MinOf
  <2>. HIDE DEF i
  <2>3. i \in 1 .. size /\ Largest(n, i) >= wo
    BY <2>2 DEF rec
  <2>4. wo <= Sz(n, Next_small(n, n.flp[i]))
    BY <1>2, <1>4, <2>3
  <2>5. Table(R, n.flp, IF i = size THEN Nil ELSE n.beyond)
    BY <1>3 DEF Table
  <2>6. Gave(n, TakeRecorded(n, wo, i), wo)
    BY <1>3, <2>3, <2>4, <2>5, RecordedGives
  <2>7. r = TakeRecorded(n, wo, i)
    BY <1>5, <1>7 DEF i
  <2>. QED BY <1>6, <2>6, <2>7, GaveAnswers
<1>8. ASSUME rec = {} PROVE NoRecord(n, wo)
  <2>. SUFFICES ASSUME NEW i \in 1 .. size PROVE ~(wo <= Sz(n, Next_small(n, n.flp[i])))
    BY DEF NoRecord
  <2>1. ~(Largest(n, i) >= wo)
    BY <1>8 DEF rec
  <2>. QED BY <1>2, <1>4, <2>1
<1>. DEFINE full == got > room
<1>9. ASSUME rec = {}
      PROVE  /\ Len(w) = size + Len(new) /\ Len(w) \in Nat /\ Len(w) <= n.flpmax
             /\ \A k \in 1 .. Len(w) : Leads(R, w[k]) /\ w[k] < At(n, upto) /\ w[k] \in Nat
             /\ fit = {} \/ full => \A k \in 1 .. Len(w) : ~(wo <= Sz(n, Next_small(n, w[k])))
             /\ fit # {} /\ ~full => Len(w) # 0 /\ Next_small(n, w[Len(w)]) = n.fl[upto]
             /\ fit # {} => Len(new) = room \/ ~full
             /\ new # <<>> => /\ Last(new) \in 1 .. upto /\ (fit # {} /\ full => Last(new) < upto)
                              /\ \A k \in 1 .. Len(w) : w[k] < n.fl[Last(new)]
  BY <1>8, <1>9, LongerFacts DEF Climbs
<1>10. /\ upto \in 0 .. N /\ N \in Nat
       /\ fit # {} => upto \in 1 .. N /\ wo <= Sz(n, n.fl[upto])
  BY <1>1, FlpFitFacts, RisingRange
<1>11. fit = {} => upto = N
  BY DEF FlpUpto
<1>12. /\ \A q \in 1 .. N : At(n, q) = n.fl[q] /\ n.fl[q] \in R
       /\ \A q \in 0 .. N : At(n, q) \in R \cup {Nil} /\ Pos(n, At(n, q)) = q
       /\ \A a, b \in R \cup {Nil} : a < b <=> Pos(n, a) < Pos(n, b)
  BY <1>1, PositionFacts
<1>13. rec = {} => got \in Nat /\ room \in Nat
  BY <1>8, FlpNewFacts
<1>. DEFINE Good(b) == b \in R \cup {Nil} /\ (b # Nil => \A k \in 1 .. Len(w) : w[k] < b)
            k(b) == Reached(n, wo, b)
<1>14. ASSUME rec = {}, NEW b, Good(b)
       PROVE  /\ HeapInv(k(b), C, sc, lv) /\ FlpOk(k(b))
              /\ k(b).fl = n.fl /\ k(b).flp = w /\ k(b).beyond = b /\ k(b).flpmax = n.flpmax
              /\ \A a : /\ Sz(k(b), a) = Sz(n, a) /\ Next_small(k(b), a) = Next_small(n, a)
                        /\ Pos(k(b), a) = Pos(n, a)
  BY <1>8, <1>14, ReachedFacts
<1>15. ASSUME rec = {}, NEW b, Good(b), fit = {} \/ full
       PROVE  NoRecord(k(b), wo)
  BY <1>9, <1>14, <1>15 DEF NoRecord
<1>. HIDE DEF k, full, w, fit, upto, new, room, got, size, N
<1>16. ASSUME rec = {}, fit # {}, got <= room PROVE out
  <2>. DEFINE b == n.fl[upto]
              i == size + Len(new)
              q == k(b)
  <2>1. ~full
    BY <1>13, <1>16 DEF full
  <2>2. Good(b) /\ At(n, upto) = b
    BY <1>9, <1>10, <1>12, <1>16
  <2>3. i = Len(w) /\ i \in 1 .. Len(w) /\ Next_small(n, w[i]) = b
    BY <1>9, <1>16, <2>1
  <2>. HIDE DEF b, i, q, Good
  <2>4. /\ HeapInv(q, C, sc, lv) /\ FlpOk(q)
        /\ q.fl = n.fl /\ q.flp = w /\ q.beyond = b /\ q.flpmax = n.flpmax
        /\ \A a : Sz(q, a) = Sz(n, a) /\ Next_small(q, a) = Next_small(n, a)
    BY <1>14, <1>16, <2>2 DEF q
  <2>5. wo <= Sz(q, Next_small(q, q.flp[i]))
    BY <1>10, <1>16, <2>3, <2>4 DEF b
  <2>6. /\ q.prev = Nil /\ q.flpmax \in Nat \ {0} /\ Len(q.flp) <= q.flpmax
        /\ Table(Range(q.fl), q.flp, q.beyond)
    BY <2>4 DEF FlpOk
  <2>7. Table(Range(q.fl), q.flp, IF i = Len(q.flp) THEN Nil ELSE q.beyond)
    BY <2>6 DEF Table
  <2>8. Gave(q, TakeRecorded(q, wo, i), wo)
    BY <2>3, <2>4, <2>5, <2>6, <2>7, RecordedGives
  <2>9. r = TakeRecorded(q, wo, i)
    BY <1>5, <1>16 DEF q, b, i, k
  <2>. QED BY <1>6, <2>4, <2>8, <2>9, GaveAnswers
<1>17. ASSUME rec = {}, ~(fit # {} /\ got <= room), size + Len(new) < n.flpmax PROVE out
  <2>. DEFINE b == LastFree(n)
              q == k(b)
  <2>1. fit = {}
    <3>1. ASSUME fit # {} PROVE FALSE
      <4>1. full /\ Len(new) = room
        BY <1>9, <1>13, <1>17, <3>1 DEF full
      <4>. QED BY <1>3, <1>17, <4>1 DEF room
    <3>. QED BY <3>1
  <2>2. b = At(n, upto) /\ upto \in 0 .. N
    BY <1>10, <1>11, <2>1 DEF LastFree, N
  <2>. HIDE DEF b
  <2>3. Good(b)
    BY <1>9, <1>12, <1>17, <2>2
  <2>. HIDE DEF q, Good
  <2>4. HeapInv(q, C, sc, lv) /\ FlpOk(q)
    BY <1>14, <1>17, <2>3 DEF q
  <2>5. NoRecord(q, wo)
    BY <1>15, <1>17, <2>1, <2>3 DEF q
  <2>6. r = NotFound(q)
    BY <1>5, <1>17 DEF q, b, k
  <2>7. Refuses(r, wo, C, sc, lv)
    BY <2>4, <2>5, <2>6, NotFoundRefuses
  <2>. QED BY <1>8, <1>17, <2>1, <2>7 DEF Refuses, out
<1>18. ASSUME rec = {}, ~(fit # {} /\ got <= room), ~(size + Len(new) < n.flpmax) PROVE out
  <2>. DEFINE b == IF new = <<>> THEN Nil ELSE n.fl[Last(new)]
              q == k(b)
  <2>1. fit = {} \/ full
    BY <1>13, <1>18 DEF full
  <2>2. Len(w) = n.flpmax /\ Len(w) \in 1 .. Len(w)
    BY <1>3, <1>9, <1>18
  <2>3. ASSUME new # <<>>
        PROVE  /\ b = n.fl[Last(new)] /\ Last(new) \in 1 .. N /\ b \in R
               /\ Pos(n, b) = Last(new) /\ (fit # {} => Last(new) < upto)
    <3>1. Last(new) \in 1 .. upto /\ (fit # {} => Last(new) < upto)
      BY <1>9, <1>18, <2>1, <2>3
    <3>2. Last(new) \in 1 .. N /\ Last(new) \in 0 .. N
      BY <1>10, <3>1
    <3>. QED BY <1>12, <2>3, <3>1, <3>2
  <2>4. new = <<>> => b = Nil
    OBVIOUS
  <2>5. new # <<>> => \A i \in 1 .. Len(w) : w[i] < n.fl[Last(new)]
    BY <1>9, <1>18
  <2>. HIDE DEF b
  <2>6. Good(b)
    BY <2>3, <2>4, <2>5
  <2>. HIDE DEF q, Good
  <2>7. /\ HeapInv(q, C, sc, lv) /\ FlpOk(q)
        /\ q.fl = n.fl /\ q.flp = w /\ q.beyond = b /\ q.flpmax = n.flpmax
        /\ \A a : Sz(q, a) = Sz(n, a) /\ Pos(q, a) = Pos(n, a)
    BY <1>14, <1>18, <2>6 DEF q
  <2>8. NoRecord(q, wo)
    BY <1>15, <1>18, <2>1, <2>6 DEF q
  <2>9. r = SlowSearch(q, wo)
    BY <1>5, <1>18 DEF q, b, k
  <2>10. /\ r.hp # Nil => Answers(r, wo, C, sc, lv)
         /\ r.hp = Nil => /\ Refuses(r, wo, C, sc, lv)
                          /\ \A x \in SlowEnd(q) + 1 .. N : ~(wo <= Sz(q, q.fl[x]))
    BY <2>2, <2>7, <2>8, <2>9, SlowSearches DEF N
  <2>11. ASSUME r.hp = Nil, fit # {} PROVE FALSE
    <3>1. upto \in 1 .. N /\ wo <= Sz(n, n.fl[upto])
      BY <1>10, <2>11
    <3>2. SlowEnd(q) \in Nat /\ SlowEnd(q) < upto
      <4>1. CASE b # Nil
        <5>1. SlowEnd(q) = Pos(n, b) /\ new # <<>>
          BY <2>4, <2>7, <4>1 DEF SlowEnd
        <5>. QED BY <2>3, <2>11, <5>1
      <4>2. CASE b = Nil
        <5>1. Last(w) = w[Len(w)] /\ Len(w) \in 1 .. Len(w)
          BY <2>2 DEF Last
        <5>2. w[Len(w)] \in R \cup {Nil} /\ w[Len(w)] < At(n, upto)
          BY <1>9, <1>18, <5>1 DEF Leads
        <5>3. SlowEnd(q) = Pos(n, w[Len(w)])
          BY <2>7, <4>2, <5>1 DEF SlowEnd
        <5>4. At(n, upto) \in R \cup {Nil} /\ Pos(n, At(n, upto)) = upto
          BY <1>10, <1>12
        <5>5. Pos(n, w[Len(w)]) < upto
          BY <1>12, <5>2, <5>4
        <5>6. Pos(n, w[Len(w)]) \in Nat
          BY <1>1, <5>2, PositionFacts DEF R
        <5>. QED BY <5>3, <5>5, <5>6
      <4>. QED BY <4>1, <4>2
    <3>3. upto \in SlowEnd(q) + 1 .. N
      BY <1>10, <3>1, <3>2
    <3>. QED BY <2>7, <2>10, <2>11, <3>1, <3>3
  <2>. QED BY <1>8, <1>18, <2>10, <2>11 DEF out
<1>19. out
  BY <1>7, <1>16, <1>17, <1>18
<1>. QED BY <1>19 DEF out, r, fit

\* A block that fits and lies after the last recorded predecessor and beyond
\* is found, or another one is.
LEMMA FindsAfter ==
  ASSUME NEW n, NEW C, NEW sc, NEW lv, HeapInv(n, C, sc, lv), FlpOk(n), NEW wo \in Requests,
         NEW x \in Range(n.fl), wo <= Sz(n, x), n.beyond # Nil => n.beyond < x,
         Len(n.flp) > 0 => n.flp[Len(n.flp)] < x
  PROVE  Answers(ff_allocate(n, wo), wo, C, sc, lv)
<1>. DEFINE r == ff_allocate(n, wo)
            R == Range(n.fl)
            N == Len(n.fl)
            size == Len(n.flp)
            a == n.flp[size]
            y == Next_small(n, a)
<1>1. /\ r.hp # Nil => Answers(r, wo, C, sc, lv)
      /\ r.hp = Nil => NoRecord(n, wo) /\ FlpFit(n, wo) = {}
  BY FirstSearches
<1>2. Rising(n.fl) /\ Sz(n, x) \in Nat /\ wo \in Nat /\ R \in SUBSET (Nat \ {0})
  BY HeapFacts, FreeListAssumption
<1>3. /\ \A b \in R \cup {Nil} : Pos(n, b) \in 0 .. N /\ b \in Nat
      /\ \A b, d \in R \cup {Nil} : b < d <=> Pos(n, b) < Pos(n, d)
      /\ N \in Nat
  BY <1>2, PositionFacts
<1>4. Pos(n, x) \in 1 .. N /\ n.fl[Pos(n, x)] = x
  BY <1>2, PosFacts
<1>5. /\ size \in Nat /\ n.beyond \in R \cup {Nil}
      /\ size > 0 => a \in R \cup {Nil} /\ a \in Nat
  <2>1. /\ n.flp \in Seq(Nat) /\ n.beyond \in R \cup {Nil}
        /\ \A i \in 1 .. size : n.flp[i] \in R \cup {Nil}
    BY DEF FlpOk, Table
  <2>2. size \in Nat
    BY <2>1
  <2>3. size > 0 => size \in 1 .. size
    BY <2>2
  <2>. QED BY <2>1, <2>2, <2>3
<1>6. FlpEnd(n) = IF n.beyond # Nil /\ size > 0 THEN Pos(n, n.beyond)
                  ELSE IF size > 0 THEN Pos(n, y) ELSE 0
  BY DEF FlpEnd
<1>. HIDE DEF r
<1>7. ASSUME r.hp = Nil PROVE FALSE
  <2>1. NoRecord(n, wo) /\ FlpFit(n, wo) = {}
    BY <1>1, <1>7
  <2>2. ASSUME size > 0 PROVE y \in R /\ y < x
    <3>1. size \in 1 .. size
      BY <1>5, <2>2
    <3>2. ~(wo <= Sz(n, y))
      BY <2>1, <3>1 DEF NoRecord
    <3>3. NextAbove(R, a, y) /\ a < x
      BY <1>2, <1>5, <2>2, NextSmallFacts
    <3>. HIDE DEF y, a
    <3>4. y \in R /\ y <= x
      BY <3>3 DEF NextAbove
    <3>5. y # x
      BY <3>2
    <3>. QED BY <1>3, <3>4, <3>5
  <2>. HIDE DEF R, N, size, y, a
  <2>3. FlpEnd(n) \in Nat /\ FlpEnd(n) < Pos(n, x)
    <3>1. CASE n.beyond # Nil /\ size > 0
      BY <1>3, <1>5, <1>6, <3>1 DEF R
    <3>2. CASE ~(n.beyond # Nil) /\ size > 0
      BY <1>3, <1>6, <2>2, <3>2 DEF R
    <3>3. CASE ~(size > 0)
      BY <1>4, <1>6, <3>3
    <3>. QED BY <3>1, <3>2, <3>3
  <2>4. Pos(n, x) \in FlpEnd(n) + 1 .. N
    BY <1>3, <1>4, <2>3
  <2>5. Sz(n, n.fl[Pos(n, x)]) >= wo
    BY <1>2, <1>4
  <2>6. Pos(n, x) \in FlpFit(n, wo)
    BY <2>4, <2>5 DEF FlpFit, Fits, N
  <2>. QED BY <2>1, <2>6
<1>. QED BY <1>1, <1>7 DEF r

\* A larger list leaves the table in order.
LEMMA TableGrows ==
  \A S, T, flp, beyond : Table(S, flp, beyond) /\ S \subseteq T => Table(T, flp, beyond)
BY DEF Table

\* The last block of the list is at its end.
LEMMA LastFreeFacts ==
  ASSUME NEW n, Rising(n.fl)
  PROVE  /\ LastFree(n) \in Range(n.fl) \cup {Nil} /\ LastFree(n) \in Nat
         /\ \A a \in Range(n.fl) : a <= LastFree(n)
<1>1. /\ Len(n.fl) \in Nat
      /\ \A q \in 0 .. Len(n.fl) : At(n, q) \in Range(n.fl) \cup {Nil} /\ At(n, q) \in Nat
      /\ \A p, q \in 0 .. Len(n.fl) : p < q <=> At(n, p) < At(n, q)
      /\ \A a \in Range(n.fl) \cup {Nil} : /\ Pos(n, a) \in 0 .. Len(n.fl)
                                           /\ At(n, Pos(n, a)) = a /\ a \in Nat
  BY PositionFacts
<1>2. Len(n.fl) \in 0 .. Len(n.fl) /\ LastFree(n) = At(n, Len(n.fl))
  BY <1>1 DEF LastFree
<1>3. ASSUME NEW a \in Range(n.fl) PROVE a <= At(n, Len(n.fl))
  <2>. DEFINE p == Pos(n, a)
  <2>1. p \in 0 .. Len(n.fl) /\ At(n, p) = a /\ a \in Nat
    BY <1>1
  <2>. HIDE DEF p
  <2>2. p < Len(n.fl) \/ p = Len(n.fl)
    BY <1>1, <2>1
  <2>. QED BY <1>1, <1>2, <2>1, <2>2
<1>. QED BY <1>1, <1>2, <1>3

\* The only record that fits is the last one, and beyond may be its predecessor.
LEMMA LastRecordAnswers ==
  ASSUME NEW n, NEW C, NEW sc, NEW lv, HeapInv(n, C, sc, lv), NEW wo \in Requests,
         n.prev = Nil, n.flpmax \in Nat \ {0}, Len(n.flp) <= n.flpmax,
         Table(Range(n.fl), n.flp, Nil), Len(n.flp) # 0,
         wo <= Sz(n, Next_small(n, n.flp[Len(n.flp)])),
         \A i \in 1 .. Len(n.flp) - 1 : ~(wo <= Sz(n, Next_small(n, n.flp[i])))
  PROVE  Answers(ff_allocate(n, wo), wo, C, sc, lv)
<1>. DEFINE size == Len(n.flp)
            R == Range(n.fl)
            rec == {i \in 1 .. size : Largest(n, i) >= wo}
<1>1. Rising(n.fl) /\ (\A a \in R : Sz(n, a) \in Nat) /\ wo \in Nat
  BY HeapFacts, FreeListAssumption
<1>2. /\ size \in Nat /\ size \in 1 .. size
      /\ \A i \in 1 .. size : n.flp[i] \in R \cup {Nil} /\ n.flp[i] \in Nat /\ \E b \in R : n.flp[i] < b
  BY DEF Table
<1>3. \A i \in 1 .. size : Largest(n, i) = Sz(n, Next_small(n, n.flp[i])) /\ Largest(n, i) \in Nat
  <2>. SUFFICES ASSUME NEW i \in 1 .. size
                PROVE  Largest(n, i) = Sz(n, Next_small(n, n.flp[i])) /\ Largest(n, i) \in Nat
    OBVIOUS
  <2>. DEFINE a == n.flp[i]
  <2>1. i # 0
    BY <1>2
  <2>2. Largest(n, i) = Sz(n, Next_small(n, a))
    BY <2>1 DEF Largest
  <2>3. a \in R \cup {Nil} /\ a \in Nat /\ \E b \in R : a < b
    BY <1>2
  <2>. HIDE DEF a
  <2>4. NextAbove(R, a, Next_small(n, a))
    BY <1>1, <2>3, NextSmallFacts
  <2>5. Next_small(n, a) \in R
    BY <2>3, <2>4 DEF NextAbove
  <2>. QED BY <1>1, <2>2, <2>5 DEF a
<1>4. size \in rec
  <2>1. Largest(n, size) >= wo
    BY <1>1, <1>2, <1>3
  <2>. QED BY <1>2, <2>1
<1>5. \A i \in rec : i = size
  <2>. SUFFICES ASSUME NEW i \in rec, i # size PROVE FALSE
    OBVIOUS
  <2>1. i \in 1 .. size - 1 /\ i \in 1 .. size /\ Largest(n, i) >= wo
    BY <1>2
  <2>. QED BY <1>1, <1>3, <2>1
<1>6. rec # {} => ff_allocate(n, wo) = TakeRecorded(n, wo, Min(rec))
  BY FirstAllocates
<1>. HIDE DEF rec
<1>7. rec # {} /\ Min(rec) = size
  <2>1. rec \in SUBSET Nat
    BY <1>2, <1>5
  <2>. QED BY <1>4, <1>5, <2>1, MinOf
<1>8. ff_allocate(n, wo) = TakeRecorded(n, wo, size)
  BY <1>6, <1>7
<1>9. Gave(n, TakeRecorded(n, wo, size), wo)
  <2>1. Table(R, n.flp, IF size = Len(n.flp) THEN Nil ELSE n.beyond)
    OBVIOUS
  <2>. QED BY <1>2, <2>1, RecordedGives
<1>. QED BY <1>8, <1>9, GaveAnswers

\* Filling a chunk leaves every pointer of the allocator alone.
LEMMA FilledFields ==
  ASSUME NEW n, NEW C, Allocator(n), Tiled(n, C), NEW c \in Places \ C
  PROVE  \A g \in Fields \ {"blk"} : Filled(n, c)[g] = n[g]
<1>. DEFINE f == Filled(n, c)
<1>1. /\ Allocator(f) /\ Tiled(f, C \cup {c})
      /\ \A g \in Fields \ {"blk"} : f[g] = n[g]
      /\ DOMAIN f.blk = DOMAIN n.blk \cup BlockStarts(c)
      /\ DOMAIN n.blk \cap BlockStarts(c) = {}
      /\ \A a \in DOMAIN n.blk : f.blk[a] = n.blk[a]
      /\ \A a \in BlockStarts(c) :
           /\ Sz(f, a) = BlockSize(c, a)
           /\ f.blk[a].col = IF BlockSize(c, a) = 0 THEN "white" ELSE "blue"
  BY FilledFacts
<1>. HIDE DEF f
<1>. QED BY <1>1 DEF f

\* ff_add_blocks after the list has been spliced.
LEMMA AddBlocksIs ==
  ASSUME NEW f, NEW bs, NEW x, bs[1] = x
  PROVE  ff_add_blocks(f, bs)
         = IF x > f.last
           THEN [add_blocks(f, bs) EXCEPT !.flp = IF Len(@) < f.flpmax THEN Append(@, f.last) ELSE @]
           ELSE ff_truncate_flp(add_blocks(f, bs), x)
<1>. DEFINE q0 == add_blocks(f, bs)
<1>. HIDE DEF q0
<1>. QED BY DEF ff_add_blocks, q0

\* A request that was refused is answered once the heap has a chunk that fits.
LEMMA FirstExpands ==
  ASSUME NEW n, NEW C, NEW sc, NEW lv, HeapInv(n, C, sc, lv), FlpOk(n), NEW wo \in Requests,
         n.last = LastFree(n), NoRecord(n, wo),
         NEW c \in Places \ C, BlockSize(c, c.start) >= wo
  PROVE  Answers(ff_allocate(ff_add_blocks(Filled(n, c), NewBlocks(c)), wo), wo,
                 C \cup {c}, sc, lv)
<1>. DEFINE R == Range(n.fl)
            D == C \cup {c}
            f == Filled(n, c)
            bs == NewBlocks(c)
            q0 == add_blocks(f, bs)
            q == ff_add_blocks(f, bs)
            S == Range(q0.fl)
            x == c.start
            last == n.last
            flp == n.flp
            w == Append(flp, last)
<1>1. /\ HeapInv(q0, D, sc, lv) /\ Cut(n, q0)
      /\ S = R \cup Range(bs) /\ \A a \in R : Sz(q0, a) = Sz(n, a)
      /\ bs[1] = x /\ x \in S /\ wo <= Sz(q0, x)
  BY AddedFits
<1>2. /\ Rising(n.fl) /\ R \in SUBSET (Nat \ {0}) /\ Allocator(n) /\ Tiled(n, C)
  BY HeapFacts
<1>3. /\ Rising(q0.fl) /\ S \in SUBSET (Nat \ {0})
  BY <1>1, HeapFacts
<1>4. /\ Allocator(q0) /\ q0.prev = n.prev /\ q0.flpmax = n.flpmax /\ q0.flp = flp
      /\ q0.beyond = n.beyond
  BY <1>1 DEF Cut, Fields
<1>5. /\ n.prev = Nil /\ n.flpmax \in Nat \ {0} /\ Len(flp) <= n.flpmax
      /\ Table(R, flp, n.beyond)
  BY DEF FlpOk
<1>6. /\ flp \in Seq(Nat) /\ Len(flp) \in Nat
      /\ \A i \in 1 .. Len(flp) : flp[i] \in R \cup {Nil} /\ flp[i] \in Nat /\ \E b \in R : flp[i] < b
      /\ \A i, j \in 1 .. Len(flp) : i < j => flp[i] < flp[j]
      /\ n.beyond \in R \cup {Nil}
  BY <1>5 DEF Table
<1>7. last \in R \cup {Nil} /\ last \in Nat /\ \A a \in R : a <= last
  BY <1>2, LastFreeFacts
<1>8. \A a \in Range(bs) : x <= a
  BY FillFacts, NewBlocksFacts
<1>9. f.last = last
  <2>1. \A g \in Fields \ {"blk"} : f[g] = n[g]
    BY <1>2, FilledFields
  <2>. HIDE DEF f
  <2>. QED BY <2>1 DEF Fields
<1>10. q = IF x > last
             THEN [q0 EXCEPT !.flp = IF Len(@) < f.flpmax THEN Append(@, f.last) ELSE @]
             ELSE ff_truncate_flp(q0, x)
  <2>1. bs[1] = x
    BY <1>1
  <2>. HIDE DEF x, f, bs
  <2>2. q = IF x > f.last
            THEN [add_blocks(f, bs) EXCEPT !.flp = IF Len(@) < f.flpmax THEN Append(@, f.last) ELSE @]
            ELSE ff_truncate_flp(add_blocks(f, bs), x)
    BY <2>1, AddBlocksIs
  <2>3. f.last = last
    BY <1>9
  <2>. HIDE DEF q, last
  <2>. QED BY <2>2, <2>3
<1>11. f.flpmax = n.flpmax
  <2>1. \A g \in Fields \ {"blk"} : f[g] = n[g]
    BY <1>2, FilledFields
  <2>. HIDE DEF f
  <2>. QED BY <2>1 DEF Fields
<1>12. x \in Nat
  BY <1>1, <1>3
<1>13. q = IF x > last
             THEN IF Len(flp) < n.flpmax THEN [q0 EXCEPT !.flp = w] ELSE [q0 EXCEPT !.flp = flp]
             ELSE ff_truncate_flp(q0, x)
  <2>. HIDE DEF q0, f, q, x, last, flp
  <2>. QED BY <1>4, <1>9, <1>10, <1>11
<1>14. Table(S, flp, n.beyond)
  <2>1. R \subseteq S
    BY <1>1
  <2>. HIDE DEF S, R
  <2>. QED BY <1>5, <2>1, TableGrows
<1>. HIDE DEF q0, f, q, S, D, x, last, flp
<1>15. ASSUME x > last, Len(flp) < n.flpmax
       PROVE  Answers(ff_allocate(q, wo), wo, D, sc, lv)
  <2>1. q = [q0 EXCEPT !.flp = w]
    BY <1>13, <1>15
  <2>2. /\ w \in Seq(Nat) /\ Len(w) = Len(flp) + 1 /\ w[Len(w)] = last
        /\ \A i \in 1 .. Len(flp) : w[i] = flp[i]
    BY <1>6, <1>7
  <2>3. \A i \in 1 .. Len(w) : i \in 1 .. Len(flp) \/ i = Len(w)
    BY <1>6, <2>2
  <2>. HIDE DEF w
  <2>4. Tabled(q0, q, w, q0.beyond)
    BY <1>4, <2>1, TableSets
  <2>5. /\ HeapInv(q, D, sc, lv) /\ q.fl = q0.fl /\ q.prev = Nil /\ q.flpmax = n.flpmax
        /\ q.flp = w
        /\ \A a : Sz(q, a) = Sz(q0, a) /\ Next_small(q, a) = Next_small(q0, a)
    BY <1>1, <1>4, <1>5, <2>4, TabledHeap
  <2>6. \A i \in 1 .. Len(flp) : flp[i] < last
    <3>. SUFFICES ASSUME NEW i \in 1 .. Len(flp) PROVE flp[i] < last
      OBVIOUS
    <3>1. PICK b \in R : flp[i] < b
      BY <1>6
    <3>2. b <= last /\ b \in Nat /\ flp[i] \in Nat
      BY <1>2, <1>6, <1>7
    <3>. QED BY <1>7, <3>1, <3>2
  <2>7. Table(S, w, Nil)
    <3>1. ASSUME NEW i \in 1 .. Len(w) PROVE w[i] \in S \cup {Nil} /\ \E b \in S : w[i] < b
      <4>1. CASE i \in 1 .. Len(flp)
        <5>1. w[i] = flp[i]
          BY <2>2, <4>1
        <5>. QED BY <1>14, <4>1, <5>1 DEF Table
      <4>2. CASE i = Len(w)
        <5>1. w[i] = last /\ last \in S \cup {Nil} /\ last < x
          BY <1>1, <1>7, <1>12, <1>15, <2>2, <4>2
        <5>. QED BY <1>1, <5>1
      <4>. QED BY <2>3, <4>1, <4>2
    <3>2. ASSUME NEW i \in 1 .. Len(w), NEW j \in 1 .. Len(w), i < j PROVE w[i] < w[j]
      <4>1. i \in 1 .. Len(flp)
        BY <1>6, <2>2, <3>2
      <4>2. CASE j \in 1 .. Len(flp)
        BY <1>6, <2>2, <3>2, <4>1, <4>2
      <4>3. CASE j = Len(w)
        BY <2>2, <2>6, <4>1, <4>3
      <4>. QED BY <2>3, <4>2, <4>3
    <3>. QED BY <2>2, <3>1, <3>2 DEF Table
  <2>8. Next_small(q0, last) = x
    <3>1. last \in S \cup {Nil}
      BY <1>1, <1>7
    <3>2. NextAbove(S, last, Next_small(q0, last))
      BY <1>3, <3>1, NextSmallFacts DEF S
    <3>. DEFINE y == Next_small(q0, last)
    <3>. HIDE DEF y
    <3>3. last < x /\ x \in S
      BY <1>1, <1>7, <1>12, <1>15
    <3>4. y \in S /\ last < y /\ y <= x
      BY <3>2, <3>3 DEF NextAbove, y
    <3>5. x <= y
      <4>1. CASE y \in R
        BY <1>2, <1>7, <3>4, <4>1
      <4>2. CASE y \in Range(bs)
        BY <1>8, <4>2
      <4>. QED BY <1>1, <3>4, <4>1, <4>2
    <3>6. y \in Nat
      BY <1>3, <3>4
    <3>7. y = x
      BY <1>12, <3>4, <3>5, <3>6
    <3>. QED BY <3>7 DEF y
  <2>9. ASSUME NEW i \in 1 .. Len(flp) PROVE ~(wo <= Sz(q0, Next_small(q0, flp[i])))
    <3>. DEFINE a == flp[i]
                y == Next_small(n, a)
                z == Next_small(q0, a)
    <3>1. a \in R \cup {Nil} /\ a \in Nat /\ \E b \in R : a < b
      BY <1>6
    <3>2. ~(wo <= Sz(n, y))
      BY DEF NoRecord, flp
    <3>. HIDE DEF a
    <3>3. NextAbove(R, a, y) /\ NextAbove(S, a, z)
      <4>1. a \in S \cup {Nil}
        BY <1>1, <3>1
      <4>. QED BY <1>2, <1>3, <3>1, <4>1, NextSmallFacts DEF S
    <3>. HIDE DEF y, z
    <3>4. y \in R /\ a < y /\ y <= last /\ y \in Nat
      BY <1>2, <1>7, <3>1, <3>3 DEF NextAbove
    <3>5. z \in S /\ a < z /\ z <= y /\ z \in Nat
      BY <1>1, <1>3, <3>3, <3>4 DEF NextAbove
    <3>6. z \notin Range(bs)
      BY <1>7, <1>8, <1>12, <1>15, <3>4, <3>5
    <3>7. z \in R
      BY <1>1, <3>5, <3>6
    <3>8. y <= z
      BY <3>3, <3>5, <3>7 DEF NextAbove
    <3>9. y = z
      BY <3>4, <3>5, <3>8
    <3>. QED BY <1>1, <3>2, <3>4, <3>9 DEF z, a
  <2>10. wo <= Sz(q, Next_small(q, w[Len(w)]))
    BY <1>1, <2>2, <2>5, <2>8
  <2>11. \A i \in 1 .. Len(w) - 1 : ~(wo <= Sz(q, Next_small(q, w[i])))
    <3>1. \A i \in 1 .. Len(w) - 1 : i \in 1 .. Len(flp)
      BY <1>6, <2>2
    <3>. QED BY <2>2, <2>5, <2>9, <3>1
  <2>12. Len(w) <= n.flpmax /\ Len(w) # 0
    BY <1>5, <1>6, <1>15, <2>2
  <2>13. Table(Range(q.fl), w, Nil)
    BY <2>5, <2>7 DEF S
  <2>. QED BY <1>5, <2>5, <2>10, <2>11, <2>12, <2>13, LastRecordAnswers
<1>16. ASSUME NEW k, HeapInv(k, D, sc, lv), FlpOk(k), k.fl = q0.fl, \A a : Sz(k, a) = Sz(q0, a),
              k.beyond # Nil => k.beyond < x, Len(k.flp) > 0 => k.flp[Len(k.flp)] < x
       PROVE  Answers(ff_allocate(k, wo), wo, D, sc, lv)
  <2>1. x \in Range(k.fl) /\ wo <= Sz(k, x)
    BY <1>1, <1>16 DEF S
  <2>. QED BY <1>16, <2>1, FindsAfter
<1>17. ASSUME x > last, ~(Len(flp) < n.flpmax)
       PROVE  Answers(ff_allocate(q, wo), wo, D, sc, lv)
  <2>1. q = [q0 EXCEPT !.flp = flp]
    BY <1>13, <1>17
  <2>2. Tabled(q0, q, flp, q0.beyond)
    BY <1>4, <2>1, TableSets
  <2>3. /\ HeapInv(q, D, sc, lv) /\ q.fl = q0.fl /\ q.prev = Nil /\ q.flpmax = n.flpmax
        /\ q.flp = flp /\ q.beyond = n.beyond
        /\ \A a : Sz(q, a) = Sz(q0, a)
    BY <1>1, <1>4, <1>5, <2>2, TabledHeap
  <2>4. FlpOk(q)
    BY <1>5, <1>14, <2>3 DEF FlpOk, S
  <2>5. n.beyond # Nil => n.beyond < x
    <3>1. n.beyond # Nil => n.beyond <= last /\ n.beyond \in Nat
      BY <1>2, <1>6, <1>7
    <3>. QED BY <1>7, <1>12, <1>17, <3>1
  <2>6. Len(flp) > 0 => flp[Len(flp)] < x
    <3>1. Len(flp) > 0 => Len(flp) \in 1 .. Len(flp)
      BY <1>6
    <3>2. \A i \in 1 .. Len(flp) : flp[i] <= last /\ flp[i] \in Nat
      BY <1>6, <1>7
    <3>. QED BY <1>7, <1>12, <1>17, <3>1, <3>2
  <2>. QED BY <1>16, <2>3, <2>4, <2>5, <2>6
<1>18. ASSUME ~(x > last)
       PROVE  Answers(ff_allocate(q, wo), wo, D, sc, lv)
  <2>1. q = ff_truncate_flp(q0, x)
    BY <1>13, <1>18
  <2>2. Stops(q0, q, x)
    BY <1>1, <1>3, <1>4, <1>14, <2>1, TruncateStops DEF S
  <2>3. /\ Tabled(q0, q, q.flp, q.beyond) /\ Len(q.flp) <= Len(flp)
        /\ Table(S, q.flp, q.beyond)
        /\ q.beyond # Nil => q.beyond < x
        /\ q.flp # <<>> => Next_small(q0, q.flp[Len(q.flp)]) < x
    BY <1>4, <2>2 DEF Stops, S
  <2>4. /\ HeapInv(q, D, sc, lv) /\ q.fl = q0.fl /\ q.prev = Nil /\ q.flpmax = n.flpmax
        /\ \A a : Sz(q, a) = Sz(q0, a)
    BY <1>1, <1>4, <1>5, <2>3, TabledHeap
  <2>5. q.flp \in Seq(Nat) /\ Len(q.flp) \in Nat
    BY <2>3 DEF Table
  <2>6. FlpOk(q)
    <3>1. Len(q.flp) <= n.flpmax
      BY <1>5, <1>6, <2>3, <2>5
    <3>. QED BY <1>5, <2>3, <2>4, <3>1 DEF FlpOk, S
  <2>7. ASSUME Len(q.flp) > 0 PROVE q.flp[Len(q.flp)] < x
    <3>. DEFINE a == q.flp[Len(q.flp)]
    <3>1. Len(q.flp) \in 1 .. Len(q.flp) /\ q.flp # <<>>
      BY <2>5, <2>7
    <3>2. a \in S \cup {Nil} /\ a \in Nat /\ \E b \in S : a < b
      BY <2>3, <2>5, <3>1 DEF Table
    <3>3. Next_small(q0, a) < x
      BY <2>3, <3>1
    <3>. HIDE DEF a
    <3>4. NextAbove(S, a, Next_small(q0, a))
      BY <1>3, <3>2, NextSmallFacts DEF S
    <3>5. Next_small(q0, a) \in S /\ a < Next_small(q0, a)
      BY <3>2, <3>4 DEF NextAbove
    <3>6. Next_small(q0, a) \in Nat
      BY <1>3, <3>5
    <3>7. a < x
      BY <1>12, <3>2, <3>3, <3>5, <3>6
    <3>. QED BY <3>7 DEF a
  <2>. QED BY <1>16, <2>3, <2>4, <2>6, <2>7
<1>19. Answers(ff_allocate(q, wo), wo, D, sc, lv)
  BY <1>15, <1>17, <1>18
<1>. QED BY <1>19 DEF q, f, D

-----------------------------------------------------------------------------
(* What first fit finds                                                     *)

\* The block at position g is the lowest that is large enough.
Lowest(n, wo, g) ==
  /\ g \in 1 .. Len(n.fl) /\ wo <= Sz(n, n.fl[g])
  /\ \A x \in 1 .. g - 1 : ~(wo <= Sz(n, n.fl[x]))

\* FlpRecords of the state n.
Exact(n) ==
  LET all == Maxima(n, 1, Len(n.fl), 0)
      size == Len(n.flp)
  IN /\ size <= Len(all)
     /\ \A i \in 1 .. size : Next_small(n, n.flp[i]) = n.fl[all[i]]
     /\ size < Len(all) /\ n.beyond # Nil => all[size + 1] > Pos(n, n.beyond)

\* What ff_allocate_block and TakeRecorded return is the end of the block.
LEMMA BlockEnds ==
  /\ \A n, wo, i, prev, cur : ff_allocate_block(n, wo, i, prev, cur).hp = Piece(n, wo, cur)
  /\ \A n, wo, i : TakeRecorded(n, wo, i).hp = Piece(n, wo, Next_small(n, n.flp[i]))
<1>1. ASSUME NEW n, NEW wo, NEW i, NEW prev, NEW cur
      PROVE  ff_allocate_block(n, wo, i, prev, cur).hp = Piece(n, wo, cur)
  <2>. DEFINE a == allocate_block(n, wo, prev, cur)
              r == ff_allocate_block(n, wo, i, prev, cur)
  <2>1. a = [m |-> a.m, hp |-> Piece(n, wo, cur)]
    BY DEF allocate_block, Piece
  <2>. HIDE DEF a
  <2>2. r.hp = a.hp
    BY <2>1 DEF ff_allocate_block, a
  <2>. QED BY <2>1, <2>2
<1>2. ASSUME NEW n, NEW wo, NEW i
      PROVE  TakeRecorded(n, wo, i).hp = Piece(n, wo, Next_small(n, n.flp[i]))
  <2>. DEFINE cur == Next_small(n, n.flp[i])
              r == ff_allocate_block(n, wo, i, n.flp[i], cur)
  <2>1. r.hp = Piece(n, wo, cur)
    BY <1>1
  <2>. HIDE DEF r
  <2>2. TakeRecorded(n, wo, i) = [r EXCEPT !.m = update_flp(@, i)]
    BY DEF TakeRecorded, r
  <2>3. [r EXCEPT !.m = update_flp(@, i)].hp = r.hp
    OBVIOUS
  <2>. QED BY <2>1, <2>2, <2>3
<1>. QED BY <1>1, <1>2

\* The slow search gives the lowest block that fits, if it begins before it, and
\* none when none fits.
LEMMA SlowGives ==
  ASSUME NEW n, NEW wo \in Nat, Rising(n.fl), \A x \in 1 .. Len(n.fl) : Sz(n, n.fl[x]) \in Nat,
         SlowEnd(n) \in 0 .. Len(n.fl)
  PROVE  /\ \A g : Lowest(n, wo, g) /\ SlowEnd(n) < g
                     => SlowSearch(n, wo).hp = Piece(n, wo, n.fl[g])
         /\ (\A x \in 1 .. Len(n.fl) : ~(wo <= Sz(n, n.fl[x]))) => SlowSearch(n, wo).hp = Nil
<1>. DEFINE N == Len(n.fl)
            p == SlowEnd(n)
            fit == Fits(n, wo, p + 1 .. N)
            g0 == IF fit = {} THEN N + 1 ELSE Min(fit)
            low == {k \in p + 1 .. g0 - 1 : Sz(n, n.fl[k]) < Largest(n, n.flpmax)}
            b == IF low = {} THEN n.beyond ELSE n.fl[Max(low)]
            m1 == [n EXCEPT !.beyond = b]
            r == SlowSearch(n, wo)
<1>1. N \in Nat /\ p \in 0 .. N
  BY RisingRange
<1>2. r = IF fit = {} THEN NotFound(m1)
          ELSE ff_allocate_block(m1, wo, Len(n.flp) + 1, At(n, g0 - 1), n.fl[g0])
  BY DEF SlowSearch, SlowEnd
<1>. HIDE DEF r, p, N, b
<1>3. \A x \in fit : x \in 1 .. N /\ p < x /\ wo <= Sz(n, n.fl[x])
  <2>1. \A x \in p + 1 .. N : x \in 1 .. N /\ p < x
    BY <1>1
  <2>2. \A x \in fit : x \in p + 1 .. N /\ Sz(n, n.fl[x]) >= wo
    BY DEF Fits
  <2>. QED BY <2>1, <2>2 DEF N
<1>4. ASSUME NEW g, Lowest(n, wo, g), p < g PROVE r.hp = Piece(n, wo, n.fl[g])
  <2>1. g \in 1 .. N /\ wo <= Sz(n, n.fl[g]) /\ \A x \in 1 .. g - 1 : ~(wo <= Sz(n, n.fl[x]))
    BY <1>4 DEF Lowest, N
  <2>2. g \in fit
    <3>1. g \in p + 1 .. N
      BY <1>1, <1>4, <2>1
    <3>2. Sz(n, n.fl[g]) >= wo
      BY <2>1 DEF N
    <3>. QED BY <3>1, <3>2 DEF Fits
  <2>3. fit \in SUBSET Nat
    BY <1>3
  <2>4. g0 \in fit /\ g0 <= g
    BY <2>2, <2>3, MinOf
  <2>5. g0 = g
    <3>1. g0 \in 1 .. N /\ wo <= Sz(n, n.fl[g0])
      BY <1>3, <2>4
    <3>. HIDE DEF g0
    <3>2. ASSUME g0 < g PROVE FALSE
      <4>1. g0 \in 1 .. g - 1
        BY <2>1, <3>1, <3>2
      <4>. QED BY <2>1, <3>1, <4>1
    <3>. QED BY <1>1, <2>1, <2>4, <3>1, <3>2
  <2>6. r.hp = Piece(m1, wo, n.fl[g])
    <3>. HIDE DEF fit, g0, m1
    <3>. QED BY <1>2, <2>2, <2>5, BlockEnds
  <2>. QED BY <2>6 DEF Piece, Sz
<1>5. ASSUME \A x \in 1 .. N : ~(wo <= Sz(n, n.fl[x])) PROVE r.hp = Nil
  <2>1. fit = {}
    <3>. HIDE DEF fit
    <3>. QED BY <1>3, <1>5
  <2>. HIDE DEF m1, fit
  <2>. QED BY <1>2, <2>1 DEF NotFound
<1>. QED BY <1>4, <1>5 DEF p, N, r

\* The lowest block that fits is larger than all before it.
LEMMA LowestIsMaximum ==
  ASSUME NEW n, NEW C, NEW sc, NEW lv, HeapInv(n, C, sc, lv), NEW wo \in Requests,
         NEW g, Lowest(n, wo, g)
  PROVE  LET all == Maxima(n, 1, Len(n.fl), 0)
         IN  \E j \in 1 .. Len(all) : all[j] = g
<1>. DEFINE N == Len(n.fl)
            all == Maxima(n, 1, N, 0)
<1>1. Rising(n.fl) /\ \A a \in Range(n.fl) : Sz(n, a) \in Nat
  BY HeapFacts
<1>2. N \in Nat /\ \A x \in 1 .. N : Sz(n, n.fl[x]) \in Nat
  BY <1>1, RisingRange
<1>3. wo \in Nat \ {0}
  BY FreeListAssumption
<1>4. AreMaxima(all, n, 1, N, 0)
  BY <1>2, MaximaFacts
<1>5. g \in 1 .. N /\ wo <= Sz(n, n.fl[g]) /\ \A x \in 1 .. g - 1 : ~(wo <= Sz(n, n.fl[x]))
  BY DEF Lowest
<1>. HIDE DEF N, all
<1>6. Sz(n, n.fl[g]) > 0
  BY <1>2, <1>3, <1>5
<1>7. ASSUME NEW x \in 1 .. g - 1 PROVE Sz(n, n.fl[x]) < Sz(n, n.fl[g])
  <2>1. x \in 1 .. N
    BY <1>2, <1>5
  <2>. QED BY <1>2, <1>3, <1>5, <2>1
<1>8. \E j \in 1 .. Len(all) : all[j] = g
  BY <1>4, <1>5, <1>6, <1>7 DEF AreMaxima
<1>. QED BY <1>8 DEF all, N

\* With exact records, the first that is large enough leads to the lowest block
\* that is; when none is, that block lies after the table.
LEMMA ExactLeads ==
  ASSUME NEW n, NEW C, NEW sc, NEW lv, HeapInv(n, C, sc, lv), FlpOk(n), Exact(n),
         NEW wo \in Requests, NEW g, Lowest(n, wo, g)
  PROVE  LET rec == {i \in 1 .. Len(n.flp) : Largest(n, i) >= wo}
         IN  /\ rec # {} => Min(rec) \in rec /\ Next_small(n, n.flp[Min(rec)]) = n.fl[g]
             /\ rec = {} => FlpEnd(n) < g
<1>. DEFINE N == Len(n.fl)
            all == Maxima(n, 1, N, 0)
            size == Len(n.flp)
            rec == {i \in 1 .. size : Largest(n, i) >= wo}
<1>1. Rising(n.fl) /\ \A a \in Range(n.fl) : Sz(n, a) \in Nat
  BY HeapFacts
<1>2. N \in Nat /\ \A x \in 1 .. N : Sz(n, n.fl[x]) \in Nat
  BY <1>1, RisingRange
<1>3. wo \in Nat \ {0}
  BY FreeListAssumption
<1>4. /\ Rising(all) /\ Len(all) \in Nat
      /\ \A k \in 1 .. Len(all) : all[k] \in 1 .. N
      /\ \A i, j \in 1 .. Len(all) : all[i] < all[j] <=> i < j
  <2>1. AreMaxima(all, n, 1, N, 0)
    BY <1>2, MaximaFacts
  <2>. HIDE DEF all
  <2>. QED BY <2>1, RisingRange DEF AreMaxima
<1>5. PICK j \in 1 .. Len(all) : all[j] = g
  BY LowestIsMaximum
<1>6. g \in 1 .. N /\ wo <= Sz(n, n.fl[g]) /\ \A x \in 1 .. g - 1 : ~(wo <= Sz(n, n.fl[x]))
  BY DEF Lowest
<1>7. /\ size \in Nat /\ size <= Len(all)
      /\ \A i \in 1 .. size : Next_small(n, n.flp[i]) = n.fl[all[i]]
      /\ size < Len(all) /\ n.beyond # Nil => all[size + 1] > Pos(n, n.beyond)
  BY DEF Exact, FlpOk, Table
<1>8. \A i \in 1 .. size : Largest(n, i) = Sz(n, n.fl[all[i]]) /\ i \in 1 .. Len(all)
  <2>. SUFFICES ASSUME NEW i \in 1 .. size
                PROVE  Largest(n, i) = Sz(n, n.fl[all[i]]) /\ i \in 1 .. Len(all)
    OBVIOUS
  <2>1. i # 0 /\ i \in 1 .. Len(all)
    BY <1>4, <1>7
  <2>2. Largest(n, i) = Sz(n, Next_small(n, n.flp[i]))
    BY <2>1 DEF Largest
  <2>. QED BY <1>7, <2>1, <2>2
<1>9. FlpEnd(n) = IF n.beyond # Nil /\ size > 0 THEN Pos(n, n.beyond)
                  ELSE IF size > 0 THEN Pos(n, Next_small(n, n.flp[size])) ELSE 0
  BY DEF FlpEnd
<1>10. \A x \in 1 .. N : Pos(n, n.fl[x]) = x
  BY <1>1, PosFacts
<1>. HIDE DEF N, all, size
<1>11. j \in 1 .. size => j \in rec
  <2>. SUFFICES ASSUME j \in 1 .. size PROVE Largest(n, j) >= wo
    OBVIOUS
  <2>1. Largest(n, j) = Sz(n, n.fl[g])
    BY <1>5, <1>8
  <2>. QED BY <1>2, <1>3, <1>6, <2>1
<1>12. ASSUME NEW i \in rec PROVE j <= i /\ i \in 1 .. size
  <2>1. i \in 1 .. size /\ Largest(n, i) >= wo
    OBVIOUS
  <2>2. i \in 1 .. Len(all) /\ all[i] \in 1 .. N /\ wo <= Sz(n, n.fl[all[i]])
    <3>1. i \in 1 .. Len(all) /\ all[i] \in 1 .. N
      BY <1>4, <1>8, <2>1
    <3>2. Largest(n, i) = Sz(n, n.fl[all[i]]) /\ Sz(n, n.fl[all[i]]) \in Nat
      BY <1>2, <1>8, <2>1, <3>1
    <3>. QED BY <1>3, <2>1, <3>1, <3>2
  <2>3. ~(all[i] < g)
    <3>. SUFFICES ASSUME all[i] < g PROVE FALSE
      OBVIOUS
    <3>1. all[i] \in 1 .. g - 1
      BY <1>2, <1>6, <2>2
    <3>. QED BY <1>6, <2>2, <3>1
  <2>4. ~(i < j)
    BY <1>4, <1>5, <2>2, <2>3
  <2>. QED BY <1>4, <1>5, <2>1, <2>2, <2>4
<1>13. ASSUME rec # {} PROVE Min(rec) \in rec /\ Next_small(n, n.flp[Min(rec)]) = n.fl[g]
  <2>1. rec \in SUBSET Nat
    BY <1>7
  <2>2. Min(rec) \in rec /\ \A k \in rec : Min(rec) <= k
    BY <1>13, <2>1, MinOf
  <2>. DEFINE i == Min(rec)
  <2>. HIDE DEF rec, i
  <2>3. j <= i /\ i \in 1 .. size
    BY <1>12, <2>2 DEF i
  <2>4. j \in 1 .. size
    BY <1>4, <1>5, <1>7, <2>3
  <2>5. i = j
    BY <1>4, <1>7, <1>11, <2>2, <2>3, <2>4 DEF i
  <2>6. Next_small(n, n.flp[i]) = n.fl[g]
    BY <1>5, <1>7, <2>4, <2>5
  <2>. QED BY <2>2, <2>6 DEF i
<1>14. ASSUME rec = {} PROVE FlpEnd(n) < g
  <2>1. size < j /\ size < Len(all)
    BY <1>4, <1>5, <1>7, <1>11, <1>14
  <2>2. CASE n.beyond # Nil /\ size > 0
    <3>. DEFINE u == size + 1
    <3>1. u \in 1 .. Len(all) /\ (u = j \/ u < j)
      BY <1>4, <1>7, <2>1
    <3>2. all[u] > Pos(n, n.beyond)
      BY <1>7, <2>1, <2>2
    <3>. HIDE DEF u
    <3>3. all[u] = g \/ all[u] < g
      BY <1>4, <1>5, <3>1
    <3>4. all[u] \in Nat /\ g \in Nat
      BY <1>2, <1>4, <1>6, <3>1
    <3>5. Pos(n, n.beyond) \in Nat
      <4>1. n.beyond \in Range(n.fl) \cup {Nil}
        BY DEF FlpOk, Table
      <4>. QED BY <1>1, <4>1, PositionFacts
    <3>. QED BY <1>9, <2>2, <3>2, <3>3, <3>4, <3>5
  <2>3. CASE ~(n.beyond # Nil) /\ size > 0
    <3>1. size \in 1 .. size /\ size \in 1 .. Len(all)
      BY <1>7, <1>8, <2>3
    <3>2. Next_small(n, n.flp[size]) = n.fl[all[size]] /\ all[size] \in 1 .. N
      BY <1>4, <1>7, <3>1
    <3>3. FlpEnd(n) = all[size]
      BY <1>9, <1>10, <2>3, <3>2
    <3>4. all[size] < all[j]
      BY <1>4, <1>5, <2>1, <3>1
    <3>. QED BY <1>5, <3>3, <3>4
  <2>4. CASE ~(size > 0)
    BY <1>6, <1>9, <2>4
  <2>. QED BY <2>2, <2>3, <2>4
<1>. QED BY <1>13, <1>14 DEF N, size, rec

\* When the table cannot be made long enough, the slow search begins before the
\* lowest block that fits.
LEMMA SlowFromReached ==
  ASSUME NEW n, NEW C, NEW sc, NEW lv, HeapInv(n, C, sc, lv), FlpOk(n), NEW wo \in Requests,
         NoRecord(n, wo), Len(n.flp) + Len(FlpNew(n, wo)) = n.flpmax,
         FlpFit(n, wo) = {} \/ Len(FlpMaxima(n, wo)) > n.flpmax - Len(n.flp)
  PROVE  LET new == FlpNew(n, wo)
             q == Reached(n, wo, IF new = <<>> THEN Nil ELSE n.fl[Last(new)])
         IN  /\ q.fl = n.fl /\ \A a : Sz(q, a) = Sz(n, a)
             /\ SlowEnd(q) \in 0 .. Len(n.fl)
             /\ FlpFit(n, wo) # {} => SlowEnd(q) < FlpUpto(n, wo)
<1>. DEFINE N == Len(n.fl)
            R == Range(n.fl)
            w == Longer(n, wo)
            fit == FlpFit(n, wo)
            upto == FlpUpto(n, wo)
            new == FlpNew(n, wo)
            b == IF new = <<>> THEN Nil ELSE n.fl[Last(new)]
            q == Reached(n, wo, b)
<1>1. Rising(n.fl) /\ n.flpmax \in Nat \ {0} /\ N \in Nat
  BY HeapFacts, RisingRange DEF FlpOk
<1>2. /\ upto \in 0 .. N /\ FlpEnd(n) <= upto
      /\ fit # {} => upto \in 1 .. N
  BY FlpFitFacts
<1>3. /\ Len(w) = Len(n.flp) + Len(new) /\ Len(w) \in Nat
      /\ \A k \in 1 .. Len(w) : Leads(R, w[k]) /\ w[k] < At(n, upto)
      /\ new # <<>> => /\ Last(new) \in 1 .. upto /\ (fit # {} => Last(new) < upto)
                       /\ \A k \in 1 .. Len(w) : w[k] < n.fl[Last(new)]
  BY LongerFacts
<1>4. /\ \A x \in 1 .. N : At(n, x) = n.fl[x] /\ n.fl[x] \in R
      /\ \A x \in 0 .. N : At(n, x) \in R \cup {Nil} /\ Pos(n, At(n, x)) = x
      /\ \A c, d \in R \cup {Nil} : c < d <=> Pos(n, c) < Pos(n, d)
      /\ \A c \in R \cup {Nil} : Pos(n, c) \in 0 .. N
  BY <1>1, PositionFacts
<1>. HIDE DEF N, R, w, fit, upto, new, b
<1>5. ASSUME new # <<>>
      PROVE  /\ b = n.fl[Last(new)] /\ b \in R /\ b # Nil /\ Pos(n, b) = Last(new)
             /\ Last(new) \in 1 .. N /\ (fit # {} => Last(new) < upto)
             /\ \A k \in 1 .. Len(w) : w[k] < b
  <2>1. b = n.fl[Last(new)]
    BY <1>5 DEF b
  <2>2. Last(new) \in 1 .. N /\ Last(new) \in 0 .. N
    BY <1>1, <1>2, <1>3, <1>5
  <2>3. b \in R /\ Pos(n, b) = Last(new)
    BY <1>4, <2>1, <2>2
  <2>4. b # Nil
    BY <1>1, <2>3, RisingRange DEF R
  <2>. QED BY <1>3, <1>5, <2>1, <2>2, <2>3, <2>4
<1>6. new = <<>> => b = Nil
  BY DEF b
<1>7. /\ q.fl = n.fl /\ q.flp = w /\ q.beyond = b
      /\ \A a : Sz(q, a) = Sz(n, a) /\ Pos(q, a) = Pos(n, a)
  <2>1. b \in R \cup {Nil} /\ (b # Nil => \A k \in 1 .. Len(w) : w[k] < b)
    BY <1>5, <1>6
  <2>. HIDE DEF q
  <2>. QED BY <2>1, ReachedFacts DEF q, w, R
<1>. HIDE DEF q
<1>8. ASSUME b # Nil
      PROVE  SlowEnd(q) \in 0 .. N /\ (fit # {} => SlowEnd(q) < upto)
  <2>1. new # <<>> /\ SlowEnd(q) = Pos(n, b)
    BY <1>6, <1>7, <1>8 DEF SlowEnd
  <2>. QED BY <1>1, <1>5, <2>1
<1>9. ASSUME b = Nil
      PROVE  SlowEnd(q) \in 0 .. N /\ (fit # {} => SlowEnd(q) < upto)
  <2>1. Len(w) \in 1 .. Len(w) /\ Last(w) = w[Len(w)]
    BY <1>1, <1>3 DEF Last, new
  <2>2. w[Len(w)] \in R \cup {Nil} /\ w[Len(w)] < At(n, upto)
    BY <1>3, <2>1 DEF Leads
  <2>3. SlowEnd(q) = Pos(n, w[Len(w)])
    BY <1>7, <1>9, <2>1 DEF SlowEnd
  <2>4. Pos(n, w[Len(w)]) \in 0 .. N
    BY <1>4, <2>2
  <2>5. Pos(n, w[Len(w)]) < upto
    <3>1. At(n, upto) \in R \cup {Nil} /\ Pos(n, At(n, upto)) = upto
      BY <1>2, <1>4
    <3>. QED BY <1>4, <2>2, <3>1
  <2>. QED BY <2>3, <2>4, <2>5
<1>10. SlowEnd(q) \in 0 .. N /\ (fit # {} => SlowEnd(q) < upto)
  BY <1>8, <1>9
<1>. QED BY <1>7, <1>10 DEF q, b, new, fit, upto, N

\* ff_allocate gives the lowest block that fits when its records are exact, and
\* none when none fits.
LEMMA FirstGives ==
  ASSUME NEW n, NEW C, NEW sc, NEW lv, HeapInv(n, C, sc, lv), FlpOk(n), NEW wo \in Requests
  PROVE  /\ Exact(n) => \A g : Lowest(n, wo, g) => ff_allocate(n, wo).hp = Piece(n, wo, n.fl[g])
         /\ (\A x \in 1 .. Len(n.fl) : ~(wo <= Sz(n, n.fl[x]))) => ff_allocate(n, wo).hp = Nil
<1>. DEFINE N == Len(n.fl)
            size == Len(n.flp)
            rec == {i \in 1 .. size : Largest(n, i) >= wo}
            fit == FlpFit(n, wo)
            upto == FlpUpto(n, wo)
            new == FlpNew(n, wo)
            room == n.flpmax - size
            got == Len(FlpMaxima(n, wo))
            w == Longer(n, wo)
            b == IF new = <<>> THEN Nil ELSE n.fl[Last(new)]
            q == Reached(n, wo, b)
            r == ff_allocate(n, wo)
            none == \A x \in 1 .. N : ~(wo <= Sz(n, n.fl[x]))
<1>1. Rising(n.fl) /\ \A a \in Range(n.fl) : Sz(n, a) \in Nat
  BY HeapFacts
<1>2. N \in Nat /\ \A x \in 1 .. N : Sz(n, n.fl[x]) \in Nat /\ n.fl[x] \in Range(n.fl)
  BY <1>1, RisingRange
<1>3. wo \in Nat \ {0}
  BY FreeListAssumption
<1>4. size \in Nat /\ n.flpmax \in Nat \ {0} /\ size <= n.flpmax
  BY DEF FlpOk, Table
<1>5. \A i \in 1 .. size : Largest(n, i) = Sz(n, Next_small(n, n.flp[i]))
  <2>. SUFFICES ASSUME NEW i \in 1 .. size
                PROVE  Largest(n, i) = Sz(n, Next_small(n, n.flp[i]))
    OBVIOUS
  <2>1. i # 0
    BY <1>4
  <2>. QED BY <2>1 DEF Largest
<1>6. \A i \in 1 .. size : \E x \in 1 .. N : Next_small(n, n.flp[i]) = n.fl[x]
  <2>. SUFFICES ASSUME NEW i \in 1 .. size
                PROVE  \E x \in 1 .. N : Next_small(n, n.flp[i]) = n.fl[x]
    OBVIOUS
  <2>. DEFINE a == n.flp[i]
  <2>1. a \in Range(n.fl) \cup {Nil} /\ a \in Nat /\ \E c \in Range(n.fl) : a < c
    BY DEF FlpOk, Table
  <2>. HIDE DEF a
  <2>2. NextAbove(Range(n.fl), a, Next_small(n, a))
    BY <1>1, <2>1, NextSmallFacts
  <2>3. Next_small(n, a) \in Range(n.fl)
    BY <2>1, <2>2 DEF NextAbove
  <2>4. \E x \in 1 .. N : Next_small(n, a) = n.fl[x]
    BY <1>1, <2>3, RisingRange
  <2>. QED BY <2>4 DEF a
<1>7. r = IF rec # {} THEN TakeRecorded(n, wo, Min(rec))
          ELSE IF fit # {} /\ got <= room
            THEN TakeRecorded(Reached(n, wo, n.fl[upto]), wo, size + Len(new))
          ELSE IF size + Len(new) < n.flpmax
            THEN NotFound(Reached(n, wo, LastFree(n)))
          ELSE SlowSearch(q, wo)
  BY FirstAllocates
<1>. HIDE DEF r, q
<1>8. ASSUME rec = {} PROVE NoRecord(n, wo)
  <2>. SUFFICES ASSUME NEW i \in 1 .. size PROVE ~(wo <= Sz(n, Next_small(n, n.flp[i])))
    BY DEF NoRecord
  <2>1. ~(Largest(n, i) >= wo)
    BY <1>8
  <2>2. PICK x \in 1 .. N : Next_small(n, n.flp[i]) = n.fl[x]
    BY <1>6
  <2>. QED BY <1>2, <1>3, <1>5, <2>1, <2>2
<1>. HIDE DEF rec
<1>9. /\ \A x \in FlpEnd(n) + 1 .. N : x \notin fit => ~(wo <= Sz(n, n.fl[x]))
      /\ fit # {} => upto \in 1 .. N /\ wo <= Sz(n, n.fl[upto])
      /\ \A x \in fit : upto <= x
      /\ FlpEnd(n) \in 0 .. N
  BY <1>1, FlpFitFacts, FlpEndFacts
<1>10. ASSUME rec = {}
       PROVE  /\ Len(w) = size + Len(new) /\ Len(new) \in Nat /\ got \in Nat /\ room \in Nat
              /\ fit # {} /\ got <= room => Len(w) # 0 /\ Next_small(n, w[Len(w)]) = n.fl[upto]
              /\ fit # {} => Len(new) = room \/ got <= room
              /\ size + Len(new) <= n.flpmax
  <2>1. NoRecord(n, wo)
    BY <1>8, <1>10
  <2>2. got \in Nat /\ room \in Nat
    BY <2>1, FlpNewFacts
  <2>3. Len(new) \in Nat
    BY <2>1, FlpNewFacts
  <2>4. /\ Len(w) = size + Len(new) /\ Len(w) <= n.flpmax
        /\ fit # {} /\ ~(got > room) => Len(w) # 0 /\ Next_small(n, w[Len(w)]) = n.fl[upto]
        /\ fit # {} => Len(new) = room \/ ~(got > room)
    BY <2>1, LongerFacts
  <2>. HIDE DEF w, fit, upto, new, room, got, size
  <2>5. got > room <=> ~(got <= room)
    BY <2>2
  <2>. QED BY <2>2, <2>3, <2>4, <2>5
<1>11. ASSUME rec = {}, size + Len(new) = n.flpmax, fit = {} \/ got > room
       PROVE  /\ q.fl = n.fl /\ \A a : Sz(q, a) = Sz(n, a)
              /\ SlowEnd(q) \in 0 .. N
              /\ fit # {} => SlowEnd(q) < upto
  BY <1>8, <1>11, SlowFromReached DEF q
<1>12. ASSUME rec = {}, fit # {}, got <= room
       PROVE  r.hp = Piece(n, wo, n.fl[upto])
  <2>. DEFINE k == Reached(n, wo, n.fl[upto])
  <2>1. /\ k.flp = w /\ \A a : Sz(k, a) = Sz(n, a) /\ Next_small(k, a) = Next_small(n, a)
    <3>. DEFINE c == n.fl[upto]
    <3>1. NoRecord(n, wo)
      BY <1>8, <1>12
    <3>2. c \in Range(n.fl) /\ At(n, upto) = c
      BY <1>1, <1>2, <1>9, <1>12, PositionFacts
    <3>3. \A x \in 1 .. Len(w) : w[x] < At(n, upto)
      BY <3>1, LongerFacts
    <3>. HIDE DEF c
    <3>4. c \in Range(n.fl) \cup {Nil} /\ (c # Nil => \A x \in 1 .. Len(w) : w[x] < c)
      BY <3>2, <3>3
    <3>. HIDE DEF k
    <3>. QED BY <3>1, <3>4, ReachedFacts DEF k, c
  <2>. HIDE DEF k, w, upto, new, fit, room, got, size
  <2>2. r = TakeRecorded(k, wo, size + Len(new))
    BY <1>7, <1>12 DEF k
  <2>3. r.hp = Piece(k, wo, Next_small(k, k.flp[size + Len(new)]))
    BY <2>2, BlockEnds
  <2>4. Next_small(k, k.flp[size + Len(new)]) = n.fl[upto]
    BY <1>10, <1>12, <2>1
  <2>. QED BY <2>1, <2>3, <2>4 DEF Piece
<1>13. ASSUME Exact(n), NEW g, Lowest(n, wo, g) PROVE r.hp = Piece(n, wo, n.fl[g])
  <2>1. /\ rec # {} => Min(rec) \in rec /\ Next_small(n, n.flp[Min(rec)]) = n.fl[g]
        /\ rec = {} => FlpEnd(n) < g
    BY <1>13, ExactLeads DEF rec
  <2>2. CASE rec # {}
    <3>1. r.hp = Piece(n, wo, Next_small(n, n.flp[Min(rec)]))
      BY <1>7, <2>2, BlockEnds
    <3>. QED BY <2>1, <2>2, <3>1
  <2>3. ASSUME rec = {} PROVE fit # {} /\ upto = g
    <3>1. g \in 1 .. N /\ wo <= Sz(n, n.fl[g]) /\ \A x \in 1 .. g - 1 : ~(wo <= Sz(n, n.fl[x]))
      BY <1>13 DEF Lowest
    <3>. HIDE DEF fit, upto, N
    <3>2. g \in fit
      <4>1. g \in FlpEnd(n) + 1 .. N
        BY <1>2, <1>9, <2>1, <2>3, <3>1
      <4>. QED BY <1>9, <3>1, <4>1
    <3>3. upto \in 1 .. N /\ wo <= Sz(n, n.fl[upto]) /\ upto <= g
      BY <1>9, <3>2
    <3>4. ASSUME upto < g PROVE FALSE
      <4>1. upto \in 1 .. g - 1
        BY <1>2, <3>1, <3>3, <3>4
      <4>. QED BY <3>1, <3>3, <4>1
    <3>. QED BY <1>2, <3>1, <3>2, <3>3, <3>4
  <2>4. CASE rec = {} /\ got <= room
    BY <1>12, <2>3, <2>4
  <2>5. CASE rec = {} /\ ~(got <= room)
    <3>1. got > room /\ size + Len(new) = n.flpmax
      <4>. HIDE DEF got, new, room, fit
      <4>1. Len(new) = room /\ got > room
        BY <1>10, <2>3, <2>5
      <4>. QED BY <1>4, <4>1 DEF room
    <3>2. r = SlowSearch(q, wo)
      <4>. HIDE DEF got, new, room, fit, size
      <4>. QED BY <1>4, <1>7, <2>5, <3>1
    <3>3. /\ q.fl = n.fl /\ \A a : Sz(q, a) = Sz(n, a)
          /\ SlowEnd(q) \in 0 .. N /\ SlowEnd(q) < g
      BY <1>11, <2>3, <2>5, <3>1
    <3>4. Lowest(q, wo, g)
      BY <1>13, <3>3 DEF Lowest
    <3>5. SlowSearch(q, wo).hp = Piece(q, wo, q.fl[g])
      <4>1. Rising(q.fl) /\ \A x \in 1 .. Len(q.fl) : Sz(q, q.fl[x]) \in Nat
        BY <1>1, <1>2, <3>3
      <4>2. SlowEnd(q) \in 0 .. Len(q.fl) /\ wo \in Nat
        BY <1>3, <3>3
      <4>. QED BY <3>3, <3>4, <4>1, <4>2, SlowGives
    <3>. QED BY <3>2, <3>3, <3>5 DEF Piece
  <2>. QED BY <2>2, <2>4, <2>5
<1>14. ASSUME none PROVE r.hp = Nil
  <2>1. rec = {}
    <3>. SUFFICES ASSUME NEW i \in rec PROVE FALSE
      OBVIOUS
    <3>1. i \in 1 .. size /\ Largest(n, i) >= wo
      BY DEF rec
    <3>2. PICK x \in 1 .. N : Next_small(n, n.flp[i]) = n.fl[x]
      BY <1>6, <3>1
    <3>3. Sz(n, n.fl[x]) >= wo /\ Sz(n, n.fl[x]) \in Nat
      BY <1>2, <1>5, <3>1, <3>2
    <3>. QED BY <1>3, <1>14, <3>2, <3>3
  <2>2. fit = {}
    BY <1>9, <1>14
  <2>. HIDE DEF none, fit, got, room, new, size, upto
  <2>3. CASE size + Len(new) < n.flpmax
    <3>1. r = NotFound(Reached(n, wo, LastFree(n)))
      BY <1>7, <2>1, <2>2, <2>3
    <3>. QED BY <3>1 DEF NotFound
  <2>4. CASE ~(size + Len(new) < n.flpmax)
    <3>1. r = SlowSearch(q, wo) /\ size + Len(new) = n.flpmax
      BY <1>4, <1>7, <1>10, <2>1, <2>2, <2>4
    <3>2. q.fl = n.fl /\ (\A a : Sz(q, a) = Sz(n, a)) /\ SlowEnd(q) \in 0 .. N
      BY <1>11, <2>1, <2>2, <3>1
    <3>3. /\ Rising(q.fl) /\ \A x \in 1 .. Len(q.fl) : Sz(q, q.fl[x]) \in Nat
          /\ SlowEnd(q) \in 0 .. Len(q.fl) /\ wo \in Nat
      BY <1>1, <1>2, <1>3, <3>2
    <3>4. \A x \in 1 .. Len(q.fl) : ~(wo <= Sz(q, q.fl[x]))
      BY <1>14, <3>2 DEF none
    <3>. QED BY <3>1, <3>3, <3>4, SlowGives
  <2>. QED BY <2>3, <2>4
<1>. QED BY <1>13, <1>14 DEF r

\* FitFound of first fit, from its invariant and the exactness of its records.
LEMMA FirstFinds ==
  ASSUME policy = "first", HeapInv(m, chunks, scan, live), FlpOk(m), FlpRecords
  PROVE  FitFound
<1>. SUFFICES ASSUME NEW wo \in Requests
              PROVE  LET hp == ff_allocate(m, wo).hp
                         fit == {a \in Range(m.fl) : Sz(m, a) >= wo}
                     IN IF fit = {} THEN hp = Nil
                        ELSE \E a \in fit : /\ hp = a + Sz(m, a) - wo
                                            /\ \A b \in fit : a <= b
  BY DEF FitFound, caml_fl_allocate, FreeSet
<1>. DEFINE N == Len(m.fl)
            r == ff_allocate(m, wo)
            fit == {a \in Range(m.fl) : Sz(m, a) >= wo}
            at == {x \in 1 .. N : Sz(m, m.fl[x]) >= wo}
<1>1. Exact(m)
  BY DEF FlpRecords, Exact
<1>2. /\ Rising(m.fl) /\ \A a \in Range(m.fl) : Sz(m, a) \in Nat
      /\ wo \in Nat
  BY HeapFacts, FreeListAssumption
<1>3. /\ N \in Nat
      /\ \A x \in 1 .. N : m.fl[x] \in Range(m.fl) /\ m.fl[x] \in Nat
      /\ \A a \in Range(m.fl) : \E x \in 1 .. N : m.fl[x] = a
      /\ \A x, y \in 1 .. N : m.fl[x] < m.fl[y] <=> x < y
      /\ \A x, y \in 1 .. N : m.fl[x] = m.fl[y] => x = y
  BY <1>2, RisingRange
<1>4. /\ \A g : Lowest(m, wo, g) => r.hp = Piece(m, wo, m.fl[g])
      /\ (\A x \in 1 .. N : ~(wo <= Sz(m, m.fl[x]))) => r.hp = Nil
  BY <1>1, FirstGives
<1>. HIDE DEF r, N
<1>5. ASSUME fit = {} PROVE r.hp = Nil
  <2>1. \A x \in 1 .. N : ~(wo <= Sz(m, m.fl[x]))
    <3>. SUFFICES ASSUME NEW x \in 1 .. N, wo <= Sz(m, m.fl[x]) PROVE FALSE
      OBVIOUS
    <3>1. m.fl[x] \in Range(m.fl) /\ Sz(m, m.fl[x]) \in Nat
      BY <1>2, <1>3
    <3>2. Sz(m, m.fl[x]) >= wo
      BY <1>2, <3>1
    <3>. QED BY <1>5, <3>1, <3>2
  <2>. QED BY <1>4, <2>1
<1>6. ASSUME fit # {}
      PROVE  \E a \in fit : r.hp = a + Sz(m, a) - wo /\ \A b \in fit : a <= b
  <2>1. at \in SUBSET Nat /\ at # {}
    <3>1. PICK a \in Range(m.fl) : Sz(m, a) >= wo
      BY <1>6
    <3>2. PICK x \in 1 .. N : m.fl[x] = a
      BY <1>3
    <3>. QED BY <1>3, <3>1, <3>2
  <2>. DEFINE g == Min(at)
  <2>2. g \in at /\ \A k \in at : g <= k
    BY <2>1, MinOf
  <2>. HIDE DEF g
  <2>3. g \in 1 .. N /\ Sz(m, m.fl[g]) >= wo /\ m.fl[g] \in Range(m.fl)
        /\ Sz(m, m.fl[g]) \in Nat
    BY <1>2, <1>3, <2>2
  <2>4. Lowest(m, wo, g)
    <3>1. wo <= Sz(m, m.fl[g])
      BY <1>2, <2>3
    <3>2. ASSUME NEW x \in 1 .. g - 1, wo <= Sz(m, m.fl[x]) PROVE FALSE
      <4>1. x \in 1 .. N /\ ~(g <= x)
        BY <1>3, <2>3
      <4>2. Sz(m, m.fl[x]) >= wo
        BY <1>2, <1>3, <3>2, <4>1
      <4>. QED BY <2>2, <4>1, <4>2
    <3>. QED BY <2>3, <3>1, <3>2 DEF Lowest, N
  <2>5. r.hp = m.fl[g] + Sz(m, m.fl[g]) - wo
    BY <1>4, <2>4 DEF Piece
  <2>6. ASSUME NEW b \in fit PROVE m.fl[g] <= b
    <3>1. b \in Range(m.fl) /\ Sz(m, b) >= wo
      OBVIOUS
    <3>2. PICK x \in 1 .. N : m.fl[x] = b
      BY <1>3, <3>1
    <3>3. g <= x
      BY <2>2, <3>1, <3>2
    <3>4. g < x \/ g = x
      BY <1>3, <2>3, <3>3
    <3>. QED BY <1>3, <2>3, <3>2, <3>4
  <2>. QED BY <2>3, <2>5, <2>6
<1>. QED BY <1>5, <1>6 DEF r

-----------------------------------------------------------------------------
(* The invariant of first fit                                               *)

FirstInv ==
  /\ policy \in Policies
  /\ policy = "first" => HeapInv(m, chunks, scan, live) /\ FlpOk(m)

\* A step that leaves the list and the table alone leaves the table in order.
LEMMA TableKept ==
  ASSUME NEW n, NEW k, FlpOk(n),
         \A f \in {"fl", "prev", "flp", "beyond", "flpmax"} : k[f] = n[f]
  PROVE  FlpOk(k)
<1>1. k.fl = n.fl /\ k.prev = n.prev /\ k.flp = n.flp /\ k.beyond = n.beyond /\ k.flpmax = n.flpmax
  OBVIOUS
<1>. QED BY <1>1 DEF FlpOk

\* The first heap is in order under first fit.
LEMMA FirstInit == FLInit => FirstInv
<1>. SUFFICES ASSUME FLInit, policy = "first" PROVE HeapInv(m, chunks, scan, live) /\ FlpOk(m)
  BY DEF FLInit, FirstInv
<1>1. PICK c \in Places : \E max \in FlpMaxes :
        /\ chunks = {c} /\ scan = c /\ live = <<>>
        /\ m = FreedAll(Filled([Free0 EXCEPT !.flpmax = max], c), NewBlocks(c))
  BY Zenon DEF FLInit, FreedAll
<1>2. PICK max \in FlpMaxes :
        /\ chunks = {c} /\ scan = c /\ live = <<>>
        /\ m = FreedAll(Filled([Free0 EXCEPT !.flpmax = max], c), NewBlocks(c))
  BY <1>1
<1>3. max \in Nat \ {0}
  BY FreeListAssumption
<1>4. /\ HeapInv(m, {c}, c, <<>>) /\ m.prev = Nil /\ m.flp = <<>> /\ m.beyond = Nil
      /\ m.flpmax = max
  <2>1. max \in Nat
    BY <1>3
  <2>. QED BY <1>2, <2>1, FirstHeap
<1>5. FlpOk(m)
  <2>1. Len(m.flp) = 0 /\ m.flp \in Seq(Nat)
    BY <1>4
  <2>2. Table(Range(m.fl), m.flp, m.beyond)
    BY <1>4, <2>1 DEF Table
  <2>. QED BY <1>3, <1>4, <2>1, <2>2 DEF FlpOk
<1>. QED BY <1>2, <1>4, <1>5

\* Every step of the allocator and of the sweeper keeps first fit's heap and its
\* table in order.
LEMMA FirstNext == FirstInv /\ [FLNext]_vars => FirstInv'
<1>. SUFFICES ASSUME FirstInv, [FLNext]_vars, policy = "first"
              PROVE  HeapInv(m', chunks', scan', live') /\ FlpOk(m')
  BY DEF FirstInv, FLNext, vars, Alloc, AllocExpand, AllocOutOfMemory, Drop, init_sweep_phase,
         sweep_white, sweep_blue, sweep_black, sweep_chunk
<1>1. HeapInv(m, chunks, scan, live) /\ FlpOk(m)
  BY DEF FirstInv
<1>2. ASSUME NEW wo \in Requests, Alloc(wo)
      PROVE  HeapInv(m', chunks', scan', live') /\ FlpOk(m')
  <2>. DEFINE r == ff_allocate(m, wo)
  <2>1. /\ r.hp # Nil /\ m' = Given(r, wo) /\ live' = Put(live, r.hp, wo)
        /\ chunks' = chunks /\ scan' = scan
    BY <1>2 DEF Alloc, Give, Given, caml_fl_allocate
  <2>2. Answers(r, wo, chunks, scan, live)
    BY <1>1, <2>1, FirstSearches
  <2>. HIDE DEF r
  <2>. QED BY <2>1, <2>2 DEF Answers
<1>3. ASSUME NEW wo \in Requests, AllocExpand(wo)
      PROVE  HeapInv(m', chunks', scan', live') /\ FlpOk(m')
  <2>. DEFINE r == ff_allocate(m, wo)
              n == r.m
              s(c) == ff_allocate(ff_add_blocks(Filled(n, c), NewBlocks(c)), wo)
  <2>1. PICK c \in Places \ chunks :
          /\ r.hp = Nil /\ BlockSize(c, c.start) >= wo
          /\ m' = Given(s(c), wo) /\ live' = Put(live, s(c).hp, wo)
          /\ chunks' = chunks \cup {c} /\ scan' = scan
    BY <1>3 DEF AllocExpand, Give, Given, caml_fl_allocate, caml_fl_add_blocks
  <2>2. Refuses(r, wo, chunks, scan, live)
    BY <1>1, <2>1, FirstSearches
  <2>3. HeapInv(n, chunks, scan, live) /\ FlpOk(n) /\ n.last = LastFree(n) /\ NoRecord(n, wo)
    <3>. HIDE DEF r
    <3>. QED BY <2>2 DEF Refuses
  <2>. HIDE DEF n
  <2>4. Answers(s(c), wo, chunks \cup {c}, scan, live)
    BY <2>1, <2>3, FirstExpands
  <2>. HIDE DEF s
  <2>. QED BY <2>1, <2>4 DEF Answers
<1>4. ASSUME NEW wo \in Requests, AllocOutOfMemory(wo)
      PROVE  HeapInv(m', chunks', scan', live') /\ FlpOk(m')
  <2>. DEFINE r == ff_allocate(m, wo)
  <2>1. /\ r.hp = Nil /\ m' = [r.m EXCEPT !.last = Nil] /\ live' = live
        /\ chunks' = chunks /\ scan' = scan
    BY <1>4 DEF AllocOutOfMemory, caml_fl_allocate
  <2>2. Refuses(r, wo, chunks, scan, live)
    BY <1>1, <2>1, FirstSearches
  <2>. HIDE DEF r
  <2>. QED BY <2>1, <2>2 DEF Refuses
<1>5. ASSUME Drop PROVE HeapInv(m', chunks', scan', live') /\ FlpOk(m')
  <2>1. PICK a \in DOMAIN live : /\ live' = Without(live, a)
                                 /\ m' = m /\ chunks' = chunks /\ scan' = scan
    BY <1>5 DEF Drop
  <2>. QED BY <1>1, <2>1, DropKeeps
<1>6. ASSUME init_sweep_phase PROVE HeapInv(m', chunks', scan', live') /\ FlpOk(m')
  <2>1. PICK first \in chunks :
          /\ \A c \in chunks : first.start <= c.start
          /\ scan' = first /\ chunks' = chunks /\ live' = live
          /\ Starts(m, live, first, m')
    BY <1>6 DEF init_sweep_phase, caml_fl_init_merge, Starts
  <2>2. /\ HeapInv(m', chunks, first, live)
        /\ \A f \in Fields \ {"blk", "phase", "hp", "frag", "merge"} : m'[f] = m[f]
    BY <1>1, <2>1, StartKeeps
  <2>3. \A f \in {"fl", "prev", "flp", "beyond", "flpmax"} : m'[f] = m[f]
    BY <2>2 DEF Fields
  <2>. QED BY <1>1, <2>1, <2>2, <2>3, TableKept
<1>7. ASSUME sweep_white PROVE HeapInv(m', chunks', scan', live') /\ FlpOk(m')
  <2>. DEFINE r == ff_merge_block([m EXCEPT !.hp = Next_in_mem(m, m.hp)], m.hp)
              k == [r.m EXCEPT !.hp = r.next]
  <2>1. /\ m.phase = "sweep" /\ m.hp < Limit(scan) /\ m.blk[m.hp].col = "white"
        /\ m' = k /\ chunks' = chunks /\ scan' = scan /\ live' = live
    BY <1>7 DEF sweep_white, Sweeping, caml_fl_merge_block
  <2>2. HeapInv(k, chunks, scan, live) /\ FlpOk(k)
    BY <1>1, <2>1, FirstMerges
  <2>. HIDE DEF k
  <2>. QED BY <2>1, <2>2
<1>8. ASSUME sweep_blue PROVE HeapInv(m', chunks', scan', live') /\ FlpOk(m')
  <2>1. /\ m.phase = "sweep" /\ m.hp < Limit(scan) /\ m.blk[m.hp].col = "blue"
        /\ OverBlue(m, m') /\ chunks' = chunks /\ scan' = scan /\ live' = live
    BY <1>8 DEF sweep_blue, Sweeping, OverBlue
  <2>2. HeapInv(m', chunks, scan, live) /\ \A f \in Fields \ {"merge", "hp"} : m'[f] = m[f]
    BY <1>1, <2>1, BlueKeeps
  <2>3. \A f \in {"fl", "prev", "flp", "beyond", "flpmax"} : m'[f] = m[f]
    BY <2>2 DEF Fields
  <2>. QED BY <1>1, <2>1, <2>2, <2>3, TableKept
<1>9. ASSUME sweep_black PROVE HeapInv(m', chunks', scan', live') /\ FlpOk(m')
  <2>1. /\ m.phase = "sweep" /\ m.hp < Limit(scan) /\ m.blk[m.hp].col = "black"
        /\ OverBlack(m, m') /\ chunks' = chunks /\ scan' = scan /\ live' = live
    BY <1>9 DEF sweep_black, Sweeping, OverBlack
  <2>2. HeapInv(m', chunks, scan, live) /\ \A f \in Fields \ {"blk", "hp"} : m'[f] = m[f]
    BY <1>1, <2>1, BlackKeeps
  <2>3. \A f \in {"fl", "prev", "flp", "beyond", "flpmax"} : m'[f] = m[f]
    BY <2>2 DEF Fields
  <2>. QED BY <1>1, <2>1, <2>2, <2>3, TableKept
<1>10. ASSUME sweep_chunk PROVE HeapInv(m', chunks', scan', live') /\ FlpOk(m')
  <2>1. /\ m.phase = "sweep" /\ m.hp = Limit(scan) /\ chunks' = chunks /\ live' = live
    BY <1>10 DEF sweep_chunk
  <2>2. CASE Chunk_next(scan) = {}
    <3>1. m' = [m EXCEPT !.phase = "idle"] /\ scan' = scan
      BY <1>10, <2>2 DEF sweep_chunk
    <3>2. HeapInv(m', chunks, scan, live) /\ \A f \in Fields \ {"phase"} : m'[f] = m[f]
      BY <1>1, <3>1, EndKeeps
    <3>3. \A f \in {"fl", "prev", "flp", "beyond", "flpmax"} : m'[f] = m[f]
      BY <3>2 DEF Fields
    <3>. QED BY <1>1, <2>1, <3>1, <3>2, <3>3, TableKept
  <2>3. CASE Chunk_next(scan) # {}
    <3>1. PICK c \in Chunk_next(scan) :
            /\ \A d \in Chunk_next(scan) : c.start <= d.start
            /\ scan' = c /\ m' = [m EXCEPT !.hp = c.start]
      BY <1>10, <2>3 DEF sweep_chunk
    <3>2. /\ c \in chunks /\ c.start > scan.start
          /\ \A d \in chunks : d.start > scan.start => c.start <= d.start
      BY <3>1 DEF Chunk_next
    <3>3. HeapInv(m', chunks, c, live) /\ \A f \in Fields \ {"hp"} : m'[f] = m[f]
      BY <1>1, <2>1, <3>1, <3>2, ChunkKeeps
    <3>4. \A f \in {"fl", "prev", "flp", "beyond", "flpmax"} : m'[f] = m[f]
      BY <3>3 DEF Fields
    <3>5. FlpOk(m')
      BY <1>1, <3>4, TableKept
    <3>. QED BY <2>1, <3>1, <3>3, <3>5
  <2>. QED BY <2>2, <2>3
<1>11. ASSUME UNCHANGED vars PROVE HeapInv(m', chunks', scan', live') /\ FlpOk(m')
  BY <1>1, <1>11 DEF vars
<1>. QED BY <1>2, <1>3, <1>4, <1>5, <1>6, <1>7, <1>8, <1>9, <1>10, <1>11 DEF FLNext

\* Every step of first fit keeps the invariant.
LEMMA FirstInvAlways == FLSpec => []FirstInv
<1>. QED BY FirstInit, FirstNext, PTL DEF FLSpec

\* The type invariant of the allocator's state under first fit: the records of
\* the table are null or the address of a block.
THEOREM FirstFitType == FLSpec => [](policy = "first" => FLTypeOK)
<1>1. FirstInv => (policy = "first" => FLTypeOK)
  <2>. SUFFICES ASSUME FirstInv, policy = "first" PROVE FLTypeOK
    OBVIOUS
  <2>1. HeapInv(m, chunks, scan, live) /\ FlpOk(m)
    BY DEF FirstInv
  <2>2. policy \in Policies
    BY DEF FirstInv
  <2>3. m.prev \in Range(m.fl) \cup {Nil}
    BY <2>1 DEF FlpOk
  <2>4. Range(m.flp) \subseteq Range(m.fl) \cup {Nil}
    <3>1. /\ m.flp \in Seq(Nat)
          /\ \A i \in 1 .. Len(m.flp) : m.flp[i] \in Range(m.fl) \cup {Nil}
      BY <2>1 DEF FlpOk, Table
    <3>2. Range(m.flp) = {m.flp[i] : i \in 1 .. Len(m.flp)}
      BY <3>1 DEF Range
    <3>. QED BY <3>1, <3>2
  <2>. QED BY <2>1, <2>2, <2>3, <2>4, HeapShowsType
<1>. QED BY <1>1, FirstInvAlways, PTL

\* Under first fit the blocks tile the chunks, and what the program holds keeps its
\* size and is never free.
THEOREM FirstFitTiled == FLSpec => [](policy = "first" => HeapTiled)
<1>1. FirstInv => (policy = "first" => HeapTiled)
  BY HeapShowsTiled DEF FirstInv
<1>. QED BY <1>1, FirstInvAlways, PTL

\* Under first fit the free list is the blue blocks and caml_fl_cur_wsz their size.
THEOREM FirstFitFreeSet == FLSpec => [](policy = "first" => FreeSetExact)
<1>1. FirstInv => (policy = "first" => FreeSetExact)
  BY HeapShowsFreeSet DEF FirstInv
<1>. QED BY <1>1, FirstInvAlways, PTL

\* Under first fit two free blocks side by side are always coalesced.
THEOREM FirstFitCoalesces == FLSpec => [](policy = "first" => Coalesced)
<1>1. FirstInv => (policy = "first" => Coalesced)
  BY HeapShowsCoalesced DEF FirstInv
<1>. QED BY <1>1, FirstInvAlways, PTL

\* Under first fit the list is sorted and caml_fl_merge is where ff_check wants it.
THEOREM FirstFitList == FLSpec => [](policy = "first" => ListInOrder)
<1>1. FirstInv => (policy = "first" => ListInOrder)
  BY HeapShowsList DEF FirstInv
<1>. QED BY <1>1, FirstInvAlways, PTL

\* Under first fit the table never outgrows FLP_MAX entries, its records rise, each
\* has a block of the list behind it, and beyond lies behind them all.
THEOREM FirstFitTable == FLSpec => [](policy = "first" => FlpSafe)
<1>1. FirstInv => (policy = "first" => FlpSafe)
  <2>. SUFFICES ASSUME FirstInv, policy = "first" PROVE FlpSafe
    OBVIOUS
  <2>1. HeapInv(m, chunks, scan, live) /\ Len(m.flp) <= m.flpmax
        /\ Table(Range(m.fl), m.flp, m.beyond)
    BY DEF FirstInv, FlpOk
  <2>2. Rising(m.fl)
    BY <2>1, HeapFacts
  <2>3. LastFree(m) \in Nat /\ \A b \in Range(m.fl) : b \in Nat /\ b <= LastFree(m)
    <3>1. LastFree(m) \in Nat /\ \A b \in Range(m.fl) : b <= LastFree(m)
      BY <2>2, LastFreeFacts
    <3>2. \A b \in Range(m.fl) : b \in Nat
      BY <2>2, PositionFacts
    <3>. QED BY <3>1, <3>2
  <2>4. ASSUME NEW i \in 1 .. Len(m.flp)
        PROVE  /\ m.flp[i] \in Range(m.fl) \cup {Nil} /\ m.flp[i] < LastFree(m)
               /\ \A j \in 1 .. i - 1 : m.flp[j] < m.flp[i]
    <3>1. m.flp \in Seq(Nat) /\ m.flp[i] \in Nat /\ m.flp[i] \in Range(m.fl) \cup {Nil}
      BY <2>1 DEF Table
    <3>2. PICK b \in Range(m.fl) : m.flp[i] < b
      BY <2>1 DEF Table
    <3>3. m.flp[i] < LastFree(m)
      BY <2>3, <3>1, <3>2
    <3>4. \A j \in 1 .. i - 1 : j \in 1 .. Len(m.flp) /\ j < i
      BY <3>1
    <3>. QED BY <2>1, <3>1, <3>3, <3>4 DEF Table
  <2>5. /\ m.beyond \in Range(m.fl) \cup {Nil}
        /\ m.beyond # Nil => \A i \in 1 .. Len(m.flp) : m.flp[i] < m.beyond
    BY <2>1 DEF Table
  <2>. QED BY <2>1, <2>4, <2>5 DEF FlpSafe
<1>. QED BY <1>1, FirstInvAlways, PTL

\* Where its records are exact, first fit gives the lowest block that is large
\* enough, and refuses a request only when no block is.
THEOREM FirstFitFinds == FLSpec => [](policy = "first" /\ FlpRecords => FitFound)
<1>1. FirstInv => (policy = "first" /\ FlpRecords => FitFound)
  <2>. SUFFICES ASSUME FirstInv, policy = "first", FlpRecords PROVE FitFound
    OBVIOUS
  <2>1. HeapInv(m, chunks, scan, live) /\ FlpOk(m)
    BY DEF FirstInv
  <2>. QED BY <2>1, FirstFinds
<1>. QED BY <1>1, FirstInvAlways, PTL
=============================================================================
