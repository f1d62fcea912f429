--------------------------- MODULE OcamlGCProofs ---------------------------
(***************************************************************************)
(* What the two collectors keep, for every heap, every number of values    *)
(* held and every size of the mark stack.  Marking keeps Protected, the    *)
(* least set that holds the black blocks and whatever the pending fields   *)
(* lead to through blocks; the program only holds what is in it, so that   *)
(* it is what is black when marking ends, and it stays closed until the    *)
(* sweep is over.                                                          *)
(***************************************************************************)
EXTENDS OcamlGC, FiniteSetTheorems, TLAPS

-----------------------------------------------------------------------------
(* The inductive invariant *)

Alloc == {a \in Addr : tag[a] # "free"}
Values(S) == S \cup {Unit}

\* The fields the mark stack and the addresses to redarken still lead to.
Pending(m) ==
  {p \in Major \X Ix :
     /\ IsBlock(p[1])
     /\ \/ p[1] \in m.redarken /\ p[1] \in m.black
        \/ \E j \in Ix : j <= p[2] /\ <<p[1], j>> \in m.stack}

\* S holds the black blocks, and all that marking reaches from it and from the
\* pending fields through blocks alone.
Shield(f, m, S) ==
  /\ m.black \subseteq S
  /\ \A a \in Major, i \in Ix :
       /\ f[a][i] \in Major
       /\ <<a, i>> \in Pending(m) \/ (a \in S \ m.black /\ IsBlock(a))
       => f[a][i] \in S

Shields == {S \in SUBSET Major : Shield(fld, mk, S)}

\* The least of them: what marking keeps whatever the program does.
Protected == {a \in Major : \A S \in Shields : a \in S}

Kept(a) ==
  \/ phase = "idle"
  \/ Marking /\ a \in Protected
  \/ phase = "clean" /\ a \in mk.black
  \/ phase = "sweep" /\ (a \in mk.black \/ a < hp)

\* What is not freed before the next cycle.
Safe == {a \in Alloc : a \in Young \/ Kept(a)}

StackOK(m) == \A e \in m.stack : e[1] \in m.black /\ IsBlock(e[1])

Colours ==
  /\ mk.black \subseteq Alloc
  /\ phase = "idle" => mk.black = {}
  /\ phase = "sweep" => \A a \in mk.black : a >= hp
  /\ ~Marking => mk.stack = {} /\ mk.redarken = {}
  /\ StackOK(mk)

RootsSafe == roots \subseteq Safe

\* Until blocks are freed every value is one of an allocated block.
HeapClosed ==
  phase # "sweep" => \A a \in Alloc, i \in Ix : fld[a][i] \in Values(Alloc)

BlocksSafe ==
  \A a \in Safe, i \in Ix : IsBlock(a) => fld[a][i] \in Values(Safe)

\* The values of the finalisation functions; those that the marking has not
\* examined yet may still be white.
FinsSafe ==
  \A f \in Funs :
    /\ FinIs(f, "unused") => fin[f].val = Unit
    /\ FinIs(f, "todo") => fin[f].val \in Values(Safe \ Young)
    /\ FinIs(f, "recent") => fin[f].val \in Safe
    /\ FinIs(f, "old") =>
         /\ fin[f].val \in Alloc \ Young
         /\ phase = "mark_main" \/ (phase = "mark_final" /\ f \in LastFuns)
            \/ fin[f].val \in Safe

IsEphe(a) == tag[a] = "ephe"

Lists ==
  /\ \A e \in Ephes : IsEphe(e)
  /\ \A e \in Major : IsEphe(e) /\ (phase \in {"clean", "sweep"} => e \in Safe) => e \in Ephes
  /\ phase = "clean" => eph.skipped = {} /\ eph.checked \subseteq Safe
  /\ phase = "sweep" => Ephes \subseteq Safe

\* The data of an ephemeron that the marking has seen is safe, or waits for the
\* ephemeron or its key; once the cleaning has seen it the key is safe too.
EphesSafe ==
  /\ Marking => \A e \in eph.checked : fld[e][Data] \in Values(Safe)
  /\ Marking /\ mk.pure =>
       \A e \in eph.skipped :
         fld[e][Data] \in Values(Safe) \/ e \in White(mk) \/ fld[e][Key] \in White(mk)
  /\ phase = "clean" =>
       \A e \in Safe : IsEphe(e) /\ fld[e][Key] \in Values(Safe) => fld[e][Data] \in Values(Safe)
  /\ phase = "clean" => \A e \in eph.checked, i \in Ix : fld[e][i] \in Values(Safe)
  /\ phase = "sweep" =>
       \A e \in Safe, i \in Ix : IsEphe(e) => fld[e][i] \in Values(Safe)

Tables ==
  /\ Remembered
  /\ \A r \in refs \cup epheRefs : r[1] \in Safe
  /\ YoungEmpty => refs = {} /\ epheRefs = {}

GCInv ==
  /\ GCTypeOK
  /\ Colours
  /\ HeapClosed
  /\ RootsSafe
  /\ BlocksSafe
  /\ FinsSafe
  /\ Lists
  /\ EphesSafe
  /\ Tables

-----------------------------------------------------------------------------
(* Recursion over an interval *)

\* A set of natural numbers that is not empty has a least element: the sets of
\* numbers up to each of them are finite, and strict inclusion of finite sets
\* is well founded.
LEMMA LeastOf ==
  ASSUME NEW T \in SUBSET Nat, T # {}
  PROVE  \E m \in T : \A k \in T : m <= k
<1>. DEFINE U == {0 .. n : n \in T}
<1>1. U \subseteq FiniteSubsetsOf(Nat) /\ U # {}
  <2>1. \A n \in T : IsFiniteSet(0 .. n) /\ 0 .. n \subseteq Nat
    BY FS_Interval
  <2>2. \A n \in T : 0 .. n \in FiniteSubsetsOf(Nat)
    BY <2>1 DEF FiniteSubsetsOf
  <2>. QED BY <2>2
<1>2. IsWellFoundedOn(StrictSubsetOrdering(Nat), FiniteSubsetsOf(Nat))
  BY FS_StrictSubsetOrderingWellFounded
<1>3. PICK x \in U : \A y \in U : ~(<<y, x>> \in StrictSubsetOrdering(Nat))
  <2>. HIDE DEF U
  <2>. QED BY <1>1, <1>2, WFMin
<1>4. PICK m \in T : x = 0 .. m
  BY <1>3
<1>5. ASSUME NEW k \in T, k < m PROVE FALSE
  <2>1. 0 .. k \subseteq 0 .. m /\ 0 .. k # 0 .. m
    BY <1>5
  <2>2. 0 .. k \in U /\ 0 .. m \in U
    OBVIOUS
  <2>3. <<0 .. k, 0 .. m>> \in StrictSubsetOrdering(Nat)
    BY <2>1, <2>2, <1>1 DEF StrictSubsetOrdering, FiniteSubsetsOf
  <2>. QED BY <2>2, <2>3, <1>3, <1>4
<1>. QED BY <1>4, <1>5

\* Induction over an interval, by its least counterexample.
LEMMA UpTo ==
  ASSUME NEW N \in Nat, NEW Good, 0 \in Good,
         \A n \in 1 .. N : n - 1 \in Good => n \in Good
  PROVE  \A n \in 0 .. N : n \in Good
<1>. SUFFICES ASSUME (0 .. N) \ Good # {} PROVE FALSE
  OBVIOUS
<1>. DEFINE T == (0 .. N) \ Good
<1>1. PICK m \in T : \A k \in T : m <= k
  <2>1. T \in SUBSET Nat /\ T # {}
    OBVIOUS
  <2>. HIDE DEF T
  <2>. QED BY <2>1, LeastOf
<1>2. m \in 1 .. N /\ m - 1 \in 0 .. N
  BY <1>1
<1>3. m - 1 \in Good
  BY <1>1, <1>2
<1>. QED BY <1>1, <1>2, <1>3

\* g is base at 0, and at each number up to N what F makes of the value before.
Iterates(g, N, base, F) ==
  g[0] = base /\ \A n \in 1 .. N : g[n] = F[n][g[n - 1]]

\* Such a function exists.
LEMMA RecursiveFunction ==
  ASSUME NEW N \in Nat, NEW X, NEW base \in X, NEW F,
         \A n \in 1 .. N, x \in X : F[n][x] \in X
  PROVE  \E g \in [0 .. N -> X] : Iterates(g, N, base, F)
<1>. DEFINE Ok(k, g) == g[0] = base /\ \A n \in 1 .. k : g[n] = F[n][g[n - 1]]
            Good == {k \in 0 .. N : \E g \in [0 .. k -> X] : Ok(k, g)}
<1>1. 0 \in Good
  <2>1. [n \in 0 .. 0 |-> base] \in [0 .. 0 -> X] /\ Ok(0, [n \in 0 .. 0 |-> base])
    OBVIOUS
  <2>. HIDE DEF Ok
  <2>. QED BY <2>1
<1>2. ASSUME NEW k \in 1 .. N, k - 1 \in Good PROVE k \in Good
  <2>1. PICK g \in [0 .. (k - 1) -> X] : Ok(k - 1, g)
    BY <1>2
  <2>. DEFINE h == [n \in 0 .. k |-> IF n = k THEN F[k][g[k - 1]] ELSE g[n]]
  <2>2. g[k - 1] \in X /\ F[k][g[k - 1]] \in X
    <3>1. g[k - 1] \in X
      OBVIOUS
    <3>. QED BY <3>1
  <2>3. h \in [0 .. k -> X]
    <3>. SUFFICES ASSUME NEW n \in 0 .. k, n # k PROVE g[n] \in X
      BY <2>2
    <3>. QED OBVIOUS
  <2>4. Ok(k, h)
    <3>1. h[0] = base
      BY <2>1
    <3>2. ASSUME NEW n \in 1 .. k PROVE h[n] = F[n][h[n - 1]]
      <4>1. h[n - 1] = g[n - 1]
        BY <3>2
      <4>2. CASE n = k
        <5>1. h[k] = F[k][g[k - 1]]
          OBVIOUS
        <5>. QED BY <4>1, <4>2, <5>1
      <4>3. CASE n # k
        BY <4>1, <4>3, <2>1
      <4>. QED BY <4>2, <4>3
    <3>. QED BY <3>1, <3>2
  <2>. HIDE DEF Ok, h
  <2>. QED BY <2>3, <2>4
<1>3. N \in 0 .. N /\ N \in Good
  <2>. HIDE DEF Good
  <2>1. \A n \in 1 .. N : n - 1 \in Good => n \in Good
    BY <1>2
  <2>2. \A n \in 0 .. N : n \in Good
    BY <1>1, <2>1, UpTo
  <2>. QED BY <2>2
<1>. QED BY <1>3 DEF Iterates

-----------------------------------------------------------------------------
(* Darkening *)

MarkState == [black : SUBSET Major, stack : SUBSET (Major \X Ix),
              redarken : SUBSET Major, pure : BOOLEAN]

\* g[n] is the marking once the values up to n of S are darkened.
DarkensTo(g, f, S, m) ==
  /\ g[0] = m
  /\ \A n \in Major :
       g[n] = IF n \in S THEN caml_darken(f, n, g[n - 1]) ELSE g[n - 1]
  /\ caml_darken_all(f, S, m) = g[NMajor]

\* What caml_darken_all computes is the last of the steps one expects.
LEMMA DarkenAllSteps ==
  ASSUME NEW f, NEW S, NEW X, NEW m \in X,
         \A x \in X, v \in Major \cap S : caml_darken(f, v, x) \in X
  PROVE  \E g \in [0 .. NMajor -> X] : DarkensTo(g, f, S, m)
<1>. DEFINE Step(g, n) == IF n \in S THEN caml_darken(f, n, g[n - 1]) ELSE g[n - 1]
            Upto(g) == g = [n \in 0 .. NMajor |-> IF n = 0 THEN m
                                ELSE IF n \in S THEN caml_darken(f, n, g[n - 1])
                                ELSE g[n - 1]]
<1>1. NMajor \in Nat
  BY GCAssumption
<1>2. PICK F \in [1 .. NMajor -> [X -> X]] :
        \A n \in 1 .. NMajor, x \in X :
          F[n][x] = IF n \in S THEN caml_darken(f, n, x) ELSE x
  <2>. DEFINE G == [n \in 1 .. NMajor |-> [x \in X |->
                      IF n \in S THEN caml_darken(f, n, x) ELSE x]]
  <2>1. G \in [1 .. NMajor -> [X -> X]]
    BY DEF Major
  <2>2. \A n \in 1 .. NMajor, x \in X :
          G[n][x] = IF n \in S THEN caml_darken(f, n, x) ELSE x
    OBVIOUS
  <2>. HIDE DEF G
  <2>. QED BY <2>1, <2>2
<1>3. PICK g \in [0 .. NMajor -> X] :
        g[0] = m /\ \A n \in 1 .. NMajor : g[n] = F[n][g[n - 1]]
  <2>1. \A n \in 1 .. NMajor, x \in X : F[n][x] \in X
    BY <1>2
  <2>2. \E g \in [0 .. NMajor -> X] : Iterates(g, NMajor, m, F)
    BY <1>1, <2>1, RecursiveFunction
  <2>. QED BY <2>2 DEF Iterates
<1>4. ASSUME NEW n \in 1 .. NMajor PROVE g[n] = Step(g, n)
  <2>1. n - 1 \in 0 .. NMajor /\ g[n - 1] \in X
    BY <1>1
  <2>. QED BY <1>2, <1>3, <2>1
<1>5. Upto(g)
  <2>1. \A n \in 0 .. NMajor : g[n] = IF n = 0 THEN m ELSE Step(g, n)
    BY <1>1, <1>3, <1>4
  <2>. QED BY <2>1
<1>. DEFINE h == CHOOSE x : Upto(x)
<1>6. Upto(h)
  <2>. HIDE DEF Upto
  <2>. QED BY <1>5
<1>7. caml_darken_all(f, S, m) = h[NMajor]
  BY Zenon DEF caml_darken_all
<1>8. /\ DOMAIN h = 0 .. NMajor /\ h[0] = m
      /\ \A n \in Major : h[n] = Step(h, n)
  <2>. HIDE DEF h
  <2>. QED BY <1>1, <1>6 DEF Major
<1>9. h \in [0 .. NMajor -> X]
  <2>. HIDE DEF h
  <2>. DEFINE Good == {n \in 0 .. NMajor : h[n] \in X}
  <2>1. 0 \in Good
    BY <1>1, <1>8
  <2>2. ASSUME NEW n \in 1 .. NMajor, n - 1 \in Good PROVE n \in Good
    <3>1. n \in Major /\ n \in 0 .. NMajor /\ h[n - 1] \in X
      BY <1>1, <2>2 DEF Major
    <3>2. h[n] = Step(h, n)
      BY <1>8, <3>1
    <3>3. n \in S => caml_darken(f, n, h[n - 1]) \in X
      BY <3>1
    <3>. QED BY <3>1, <3>2, <3>3
  <2>3. \A n \in 0 .. NMajor : n \in Good
    <3>. HIDE DEF Good
    <3>. QED BY <1>1, <2>1, <2>2, UpTo
  <2>4. h = [n \in 0 .. NMajor |-> h[n]]
    BY <1>6
  <2>. QED BY <2>3, <2>4
<1>. HIDE DEF h
<1>. QED BY <1>7, <1>8, <1>9 DEF DarkensTo

\* The least field of some fields of a block.
LEMMA LeastField ==
  ASSUME NEW L \in SUBSET Ix, L # {}
  PROVE  Min(L) \in L /\ \A j \in L : Min(L) <= j
<1>1. \E x \in L : \A y \in L : x <= y
  <2>1. L \in SUBSET Nat
    BY DEF Ix
  <2>. QED BY <2>1, LeastOf
<1>. QED BY <1>1 DEF Min

LEMMA PruneTypes ==
  ASSUME NEW m \in MarkState
  PROVE  mark_stack_prune(m) \in MarkState
BY DEF mark_stack_prune, MarkState

\* mark_stack_push leaves the colours alone, forgets no pending field of a
\* black block, and makes the fields from i on pending.
LEMMA PushTypes ==
  ASSUME NEW m \in MarkState, NEW f, NEW a \in Major, NEW i \in Nat, i >= 1
  PROVE  mark_stack_push(f, m, a, i) \in MarkState
<1>. DEFINE left == {j \in i .. 2 : f[a][j] \in Major}
            room == IF Cardinality(m.stack) = MarkStackSize
                      THEN mark_stack_prune(m) ELSE m
<1>1. room \in MarkState
  BY PruneTypes
<1>2. left \in SUBSET Ix
  BY DEF Ix
<1>3. left # {} => [room EXCEPT !.stack = @ \cup {<<a, Min(left)>>}] \in MarkState
  <2>1. left # {} => Min(left) \in Ix
    <3>. HIDE DEF left
    <3>. QED BY <1>2, LeastField
  <2>. HIDE DEF room, left
  <2>. QED BY <1>1, <2>1 DEF MarkState
<1>4. mark_stack_push(f, m, a, i) =
        IF left = {} THEN m ELSE [room EXCEPT !.stack = @ \cup {<<a, Min(left)>>}]
  BY DEF mark_stack_push
<1>. HIDE DEF left, room
<1>. QED BY <1>3, <1>4

LEMMA PruneKeeps ==
  ASSUME NEW m \in MarkState, StackOK(m)
  PROVE  LET n == mark_stack_prune(m) IN
         /\ n.black = m.black /\ n.pure = m.pure /\ StackOK(n)
         /\ Pending(m) \subseteq Pending(n)
<1>. DEFINE n == mark_stack_prune(m)
            lost == m.redarken \cup {e[1] : e \in m.stack}
<1>1. /\ n.black = m.black /\ n.pure = m.pure /\ n.stack = {}
      /\ n.redarken = {a \in Major : \E l, h \in lost : l <= a /\ a <= h}
  BY DEF mark_stack_prune, MarkState
<1>2. \A a \in lost : a \in Major /\ a \in n.redarken
  <2>1. \A a \in lost : a \in Major /\ a <= a
    BY DEF MarkState, Major
  <2>. HIDE DEF lost, n
  <2>. QED BY <1>1, <2>1
<1>3. ASSUME NEW p \in Pending(m) PROVE p \in Pending(n)
  <2>1. p \in Major \X Ix /\ IsBlock(p[1])
    BY DEF Pending
  <2>2. p[1] \in lost /\ p[1] \in m.black
    <3>1. CASE p[1] \in m.redarken /\ p[1] \in m.black
      BY <3>1
    <3>2. ASSUME NEW j \in Ix, <<p[1], j>> \in m.stack PROVE p[1] \in lost /\ p[1] \in m.black
      BY <3>2 DEF StackOK
    <3>. HIDE DEF lost
    <3>. QED BY <3>1, <3>2 DEF Pending
  <2>. HIDE DEF n, lost
  <2>. QED BY <1>1, <1>2, <2>1, <2>2 DEF Pending
<1>4. StackOK(n)
  BY <1>1 DEF StackOK
<1>. QED BY <1>1, <1>3, <1>4

\* The fields of a from i on are pushed: n forgets nothing that m leads to.
Pushed(f, m, n, a, i) ==
  /\ n.black = m.black /\ n.pure = m.pure /\ StackOK(n)
  /\ Pending(m) \subseteq Pending(n)
  /\ \A j \in Ix : j >= i /\ f[a][j] \in Major => <<a, j>> \in Pending(n)

LEMMA PushKeeps ==
  ASSUME NEW m \in MarkState, StackOK(m), NEW f, NEW a \in m.black, IsBlock(a),
         NEW i \in Nat, i >= 1
  PROVE  Pushed(f, m, mark_stack_push(f, m, a, i), a, i)
<1>. DEFINE left == {j \in i .. 2 : f[a][j] \in Major}
            room == IF Cardinality(m.stack) = MarkStackSize
                      THEN mark_stack_prune(m) ELSE m
            n == mark_stack_push(f, m, a, i)
            Keeps == /\ n.black = m.black /\ n.pure = m.pure /\ StackOK(n)
                     /\ Pending(m) \subseteq Pending(n)
                     /\ \A j \in Ix : j >= i /\ f[a][j] \in Major => <<a, j>> \in Pending(n)
<1>0. a \in Major
  BY DEF MarkState
<1>1. /\ room \in MarkState /\ room.black = m.black /\ room.pure = m.pure
      /\ StackOK(room) /\ Pending(m) \subseteq Pending(room)
  BY PruneTypes, PruneKeeps
<1>2. left \in SUBSET Ix
  BY DEF Ix
<1>3. n = IF left = {} THEN m ELSE [room EXCEPT !.stack = @ \cup {<<a, Min(left)>>}]
  BY DEF mark_stack_push
<1>4. \A j \in Ix : j >= i /\ f[a][j] \in Major => j \in left
  BY DEF Ix
<1>5. left # {} => Min(left) \in Ix /\ \A j \in left : Min(left) <= j
  <2>. HIDE DEF left
  <2>. QED BY <1>2, LeastField
<1>. HIDE DEF left, room, n
<1>6. ASSUME left = {} PROVE Keeps
  BY <1>3, <1>4, <1>6
<1>7. ASSUME left # {} PROVE Keeps
  <2>1. /\ n.black = room.black /\ n.pure = room.pure /\ n.redarken = room.redarken
        /\ n.stack = room.stack \cup {<<a, Min(left)>>}
    BY <1>1, <1>3, <1>7 DEF MarkState
  <2>2. StackOK(n)
    BY <1>1, <2>1 DEF StackOK
  <2>3. Pending(room) \subseteq Pending(n)
    BY <2>1 DEF Pending
  <2>4. \A j \in left : <<a, j>> \in Pending(n)
    <3>1. \A j \in left : <<a, j>> \in Major \X Ix /\ Min(left) <= j
      BY <1>0, <1>2, <1>5, <1>7
    <3>2. <<a, Min(left)>> \in n.stack /\ Min(left) \in Ix
      BY <1>5, <1>7, <2>1
    <3>. QED BY <3>1, <3>2 DEF Pending
  <2>. QED BY <1>1, <1>4, <2>1, <2>2, <2>3, <2>4
<1>. QED BY <1>6, <1>7 DEF n, Pushed

\* From m to n the marking has only advanced: every pending field, and every
\* field of a block that became black, is pending or names a black block.
Grown(f, m, n) ==
  /\ m.black \subseteq n.black
  /\ n.pure => m.pure /\ n.black = m.black
  /\ \A a \in Major, i \in Ix :
       /\ f[a][i] \in Major
       /\ <<a, i>> \in Pending(m) \/ (IsBlock(a) /\ a \in n.black \ m.black)
       => <<a, i>> \in Pending(n) \/ f[a][i] \in n.black

LEMMA GrownTransitive ==
  ASSUME NEW f, NEW m, NEW n, NEW p, Grown(f, m, n), Grown(f, n, p)
  PROVE  Grown(f, m, p)
<1>1. m.black \subseteq p.black /\ (p.pure => m.pure /\ p.black = m.black)
  BY DEF Grown
<1>2. ASSUME NEW a \in Major, NEW i \in Ix, f[a][i] \in Major,
             <<a, i>> \in Pending(m) \/ (IsBlock(a) /\ a \in p.black \ m.black)
      PROVE  <<a, i>> \in Pending(p) \/ f[a][i] \in p.black
  <2>1. CASE <<a, i>> \in Pending(n) \/ f[a][i] \in n.black
    BY <1>2, <2>1 DEF Grown
  <2>2. CASE IsBlock(a) /\ a \in p.black \ n.black
    BY <1>2, <2>2 DEF Grown
  <2>. QED BY <1>2, <2>1, <2>2 DEF Grown
<1>. QED BY <1>1, <1>2 DEF Grown

\* What closes the set around n closes it around m.
LEMMA ShieldShrinks ==
  ASSUME NEW f, NEW m, NEW n, Grown(f, m, n), NEW S, Shield(f, n, S)
  PROVE  Shield(f, m, S)
<1>1. m.black \subseteq S
  BY DEF Grown, Shield
<1>2. ASSUME NEW a \in Major, NEW i \in Ix, f[a][i] \in Major,
             <<a, i>> \in Pending(m) \/ (a \in S \ m.black /\ IsBlock(a))
      PROVE  f[a][i] \in S
  <2>1. CASE <<a, i>> \in Pending(n) \/ f[a][i] \in n.black
    BY <1>2, <2>1 DEF Shield
  <2>2. CASE a \in S \ n.black /\ IsBlock(a)
    BY <1>2, <2>2 DEF Shield
  <2>. QED BY <1>2, <2>1, <2>2 DEF Grown
<1>. QED BY <1>1, <1>2 DEF Shield

LEMMA DarkenTypes ==
  ASSUME NEW f, NEW v, NEW m \in MarkState
  PROVE  caml_darken(f, v, m) \in MarkState
<1>. DEFINE b == [m EXCEPT !.black = @ \cup {v}, !.pure = FALSE]
<1>1. CASE v \in White(m)
  <2>1. v \in Major /\ b \in MarkState
    BY <1>1 DEF MarkState, White
  <2>2. mark_stack_push(f, b, v, 1) \in MarkState
    <3>. HIDE DEF b
    <3>. QED BY <2>1, PushTypes
  <2>. QED BY <1>1, <2>1, <2>2 DEF caml_darken
<1>. QED BY <1>1 DEF caml_darken

\* caml_darken makes v black, and nothing else.
LEMMA DarkenGrows ==
  ASSUME NEW f, NEW v, NEW m \in MarkState, StackOK(m)
  PROVE  LET n == caml_darken(f, v, m) IN
         /\ n \in MarkState /\ StackOK(n) /\ Grown(f, m, n)
         /\ v \in Major => v \in n.black
         /\ n.black \subseteq m.black \cup {v}
<1>. DEFINE n == caml_darken(f, v, m)
            b == [m EXCEPT !.black = @ \cup {v}, !.pure = FALSE]
            Good == /\ StackOK(n) /\ Grown(f, m, n) /\ (v \in Major => v \in n.black)
                    /\ n.black \subseteq m.black \cup {v}
<1>1. ASSUME v \notin White(m) PROVE Good
  <2>1. n = m
    BY <1>1 DEF caml_darken
  <2>2. Grown(f, m, m)
    BY DEF Grown
  <2>. QED BY <1>1, <2>1, <2>2 DEF White
<1>2. ASSUME v \in White(m) PROVE Good
  <2>1. /\ v \in Major /\ v \notin m.black /\ b \in MarkState /\ b.black = m.black \cup {v}
        /\ b.pure = FALSE /\ b.stack = m.stack /\ b.redarken = m.redarken
    BY <1>2 DEF MarkState, White
  <2>2. StackOK(b)
    BY <2>1 DEF StackOK
  <2>3. Pending(m) \subseteq Pending(b)
    BY <2>1 DEF Pending
  <2>4. n = IF IsBlock(v) THEN mark_stack_push(f, b, v, 1) ELSE b
    BY <1>2 DEF caml_darken
  <2>. HIDE DEF b, n
  <2>5. ASSUME ~IsBlock(v) PROVE Good
    <3>1. Grown(f, m, b)
      BY <2>1, <2>3, <2>5 DEF Grown
    <3>. QED BY <2>1, <2>2, <2>4, <2>5, <3>1
  <2>6. ASSUME IsBlock(v) PROVE Good
    <3>1. /\ n.black = b.black /\ n.pure = b.pure /\ StackOK(n)
          /\ Pending(b) \subseteq Pending(n)
          /\ \A j \in Ix : j >= 1 /\ f[v][j] \in Major => <<v, j>> \in Pending(n)
      <4>1. v \in b.black /\ 1 \in Nat /\ 1 >= 1
        BY <2>1
      <4>2. n = mark_stack_push(f, b, v, 1)
        BY <2>4, <2>6
      <4>3. Pushed(f, b, n, v, 1)
        BY <2>1, <2>2, <2>6, <4>1, <4>2, PushKeeps
      <4>. QED BY <4>3 DEF Pushed
    <3>2. \A j \in Ix : f[v][j] \in Major => <<v, j>> \in Pending(n)
      BY <3>1 DEF Ix
    <3>3. Grown(f, m, n)
      BY <2>1, <2>3, <3>1, <3>2 DEF Grown
    <3>. QED BY <2>1, <3>1, <3>3
  <2>. QED BY <2>5, <2>6
<1>3. n \in MarkState
  BY DarkenTypes
<1>. HIDE DEF n
<1>4. Good
  BY <1>1, <1>2
<1>. QED BY <1>3, <1>4 DEF n

LEMMA DarkenAllTypes ==
  ASSUME NEW f, NEW S, NEW m \in MarkState
  PROVE  caml_darken_all(f, S, m) \in MarkState
<1>1. \A x \in MarkState, v \in Major \cap S : caml_darken(f, v, x) \in MarkState
  BY DarkenTypes
<1>2. PICK g \in [0 .. NMajor -> MarkState] : DarkensTo(g, f, S, m)
  BY <1>1, DarkenAllSteps
<1>. QED BY <1>2, GCAssumption DEF DarkensTo

\* caml_darken_all makes the values of S in the major heap black.
LEMMA DarkenAllGrows ==
  ASSUME NEW f, NEW S, NEW m \in MarkState, StackOK(m)
  PROVE  LET n == caml_darken_all(f, S, m) IN
         /\ n \in MarkState /\ StackOK(n) /\ Grown(f, m, n)
         /\ S \cap Major \subseteq n.black
         /\ n.black \subseteq m.black \cup S
<1>. DEFINE X == {x \in MarkState : /\ StackOK(x) /\ Grown(f, m, x)
                                    /\ x.black \subseteq m.black \cup S}
            n == caml_darken_all(f, S, m)
<1>1. m \in X
  BY DEF Grown
<1>2. ASSUME NEW x \in X, NEW v \in Major \cap S
      PROVE  /\ caml_darken(f, v, x) \in X
             /\ v \in caml_darken(f, v, x).black
             /\ x.black \subseteq caml_darken(f, v, x).black
  <2>. DEFINE y == caml_darken(f, v, x)
  <2>1. /\ y \in MarkState /\ StackOK(y) /\ Grown(f, x, y)
        /\ v \in y.black /\ y.black \subseteq x.black \cup {v}
    BY DarkenGrows
  <2>2. Grown(f, m, y)
    BY <2>1, GrownTransitive
  <2>3. x.black \subseteq y.black
    BY <2>1 DEF Grown
  <2>. HIDE DEF y
  <2>4. y \in X
    BY <2>1, <2>2
  <2>. QED BY <2>1, <2>3, <2>4 DEF y
<1>. HIDE DEF X
<1>3. PICK g \in [0 .. NMajor -> X] :
        /\ g[0] = m
        /\ \A k \in Major :
             g[k] = IF k \in S THEN caml_darken(f, k, g[k - 1]) ELSE g[k - 1]
        /\ n = g[NMajor]
  <2>1. PICK g \in [0 .. NMajor -> X] : DarkensTo(g, f, S, m)
    BY <1>1, <1>2, DarkenAllSteps
  <2>. QED BY <2>1 DEF DarkensTo
<1>4. NMajor \in Nat
  BY GCAssumption
<1>. DEFINE Good == {k \in 0 .. NMajor : S \cap (1 .. k) \subseteq g[k].black}
<1>5. 0 \in Good
  BY <1>4
<1>6. ASSUME NEW k \in 1 .. NMajor, k - 1 \in Good PROVE k \in Good
  <2>1. k \in Major /\ k - 1 \in 0 .. NMajor /\ g[k - 1] \in X
    BY <1>4 DEF Major
  <2>2. S \cap (1 .. (k - 1)) \subseteq g[k - 1].black
    BY <1>6
  <2>3. g[k - 1].black \subseteq g[k].black /\ (k \in S => k \in g[k].black)
    BY <1>2, <1>3, <2>1
  <2>4. \A j \in 1 .. k : j = k \/ j \in 1 .. (k - 1)
    OBVIOUS
  <2>. QED BY <2>2, <2>3, <2>4
<1>7. S \cap Major \subseteq n.black
  <2>1. NMajor \in Good
    <3>1. \A k \in 1 .. NMajor : k - 1 \in Good => k \in Good
      BY <1>6
    <3>. HIDE DEF Good
    <3>. QED BY <1>4, <1>5, <3>1, UpTo
  <2>. QED BY <1>3, <2>1 DEF Major
<1>8. n \in X
  BY <1>3, <1>4
<1>. QED BY <1>7, <1>8 DEF X

-----------------------------------------------------------------------------
(* Types *)

Field == Addr \cup {Unit}
FinState == [st : {"unused", "recent", "old", "todo"}, val : Field]

LEMMA AddressFacts ==
  /\ Major \subseteq Nat \ {0} /\ Young \subseteq Nat \ {0} /\ Major \cap Young = {}
  /\ Addr = Major \cup Young /\ Unit \notin Addr /\ NMajor \in Nat /\ NYoung \in Nat
  /\ Data \in Ix /\ Key \in Ix /\ Data # Key /\ \A i \in Ix : i = Data \/ i = Key
BY GCAssumption DEF Major, Young, Addr, Unit, Data, Key, Ix

LEMMA BlockFields ==
  ASSUME NEW T, NEW u \in T, NEW v \in T
  PROVE  /\ <<u, v>> \in [Ix -> T]
         /\ <<u, v>>[Data] = u /\ <<u, v>>[Key] = v
BY DEF Ix, Data, Key

LEMMA BlankFields ==
  /\ Blank \in [Ix -> Field] /\ \A i \in Ix : Blank[i] = Unit
BY DEF Blank, Field

LEMMA ColouredTypes ==
  ASSUME mk \in MarkState, NEW S \in SUBSET Major
  PROVE  Coloured(S) \in MarkState
BY DEF MarkState, Coloured

\* The parts of the type invariant that a step may disturb.
HeapTypes ==
  /\ tag \in [Addr -> {"free", "block", "ephe"}]
  /\ fld \in [Addr -> [Ix -> Field]]
  /\ \A a \in Addr : tag[a] = "free" => fld[a] = Blank
  /\ \A y \in Young : tag[y] # "ephe"

TableTypes == refs \subseteq Major \X Ix /\ epheRefs \subseteq Major \X Ix
ListTypes == eph \in [checked : SUBSET Major, skipped : SUBSET Major, toCheck : SUBSET Major]
PhaseTypes == phase \in Phases /\ hp \in 1 .. NMajor + 1
FinTypes == fin \in [Funs -> FinState]

LEMMA TypeParts ==
  GCTypeOK <=> /\ HeapTypes /\ roots \subseteq Addr /\ TableTypes /\ PhaseTypes
               /\ mk \in MarkState /\ ListTypes /\ FinTypes
BY DEF GCTypeOK, HeapTypes, TableTypes, PhaseTypes, MarkState, ListTypes, FinTypes, Field, FinState

LEMMA HeapFacts ==
  ASSUME HeapTypes
  PROVE  /\ \A a \in Addr, i \in Ix : fld[a][i] \in Field
         /\ \A a \in Addr : fld[a] \in [Ix -> Field]
         /\ \A a \in Addr : tag[a] = "free" \/ tag[a] = "block" \/ tag[a] = "ephe"
         /\ \A a \in Addr, i \in Ix : tag[a] = "free" => fld[a][i] = Unit
         /\ \A y \in Young : tag[y] = "free" \/ tag[y] = "block"
<1>1. \A a \in Addr : fld[a] \in [Ix -> Field]
  BY DEF HeapTypes
<1>2. \A a \in Addr : tag[a] \in {"free", "block", "ephe"}
  BY DEF HeapTypes
<1>. QED BY <1>1, <1>2, AddressFacts, BlankFields DEF HeapTypes

LEMMA TypePartsNext ==
  GCTypeOK' <=> /\ HeapTypes' /\ roots' \subseteq Addr /\ TableTypes' /\ PhaseTypes'
                /\ mk' \in MarkState /\ ListTypes' /\ FinTypes'
BY DEF GCTypeOK, HeapTypes, TableTypes, PhaseTypes, MarkState, ListTypes, FinTypes, Field, FinState

LEMMA CopiedTypes ==
  ASSUME NEW T \in SUBSET Major, NEW S \in SUBSET Young, NEW fwd \in [S -> T],
         NEW v \in Field
  PROVE  /\ Copied(fwd, v) \in Field
         /\ v \in Addr => Copied(fwd, v) \in Addr
         /\ Copied(fwd, Unit) = Unit
BY AddressFacts DEF Copied, Field

\* The block that a copy is made of.
LEMMA OriginFacts ==
  ASSUME NEW S, NEW T, NEW fwd \in [S -> T], NEW a \in Image(fwd)
  PROVE  Origin(fwd, a) \in S /\ fwd[Origin(fwd, a)] = a
<1>1. DOMAIN fwd = S
  OBVIOUS
<1>2. \E y \in S : fwd[y] = a
  BY <1>1 DEF Image
<1>. QED BY <1>1, <1>2 DEF Origin

\* The oldifying reaches young blocks only, in any number of rounds.
OldifyRounds(g) ==
  /\ g[0] = OldifyRoots
  /\ \A n \in 1 .. NYoung : g[n] = Oldify(g[n - 1])
  /\ Survivors = g[NYoung]

LEMMA SurvivorRounds ==
  \E g \in [0 .. NYoung -> SUBSET Young] : OldifyRounds(g)
<1>. DEFINE Upto(g) == g = [n \in 0 .. NYoung |->
                              IF n = 0 THEN OldifyRoots ELSE Oldify(g[n - 1])]
<1>1. NYoung \in Nat
  BY GCAssumption
<1>2. OldifyRoots \in SUBSET Young
  BY DEF OldifyRoots
<1>3. \A S \in SUBSET Young : Oldify(S) \in SUBSET Young
  BY DEF Oldify
<1>4. PICK F : \A n \in 1 .. NYoung, S \in SUBSET Young : F[n][S] = Oldify(S)
  <2>. DEFINE G == [n \in 1 .. NYoung |-> [S \in SUBSET Young |-> Oldify(S)]]
  <2>1. \A n \in 1 .. NYoung, S \in SUBSET Young : G[n][S] = Oldify(S)
    OBVIOUS
  <2>. HIDE DEF G
  <2>. QED BY <2>1
<1>5. PICK g \in [0 .. NYoung -> SUBSET Young] : Iterates(g, NYoung, OldifyRoots, F)
  <2>1. \A n \in 1 .. NYoung, S \in SUBSET Young : F[n][S] \in SUBSET Young
    BY <1>3, <1>4
  <2>. QED BY <1>1, <1>2, <2>1, RecursiveFunction
<1>6. Upto(g)
  <2>1. ASSUME NEW n \in 1 .. NYoung PROVE g[n] = Oldify(g[n - 1])
    <3>1. g[n - 1] \in SUBSET Young
      BY <1>1
    <3>. QED BY <1>4, <1>5, <3>1 DEF Iterates
  <2>2. \A n \in 0 .. NYoung : g[n] = IF n = 0 THEN OldifyRoots ELSE Oldify(g[n - 1])
    BY <1>1, <1>5, <2>1 DEF Iterates
  <2>. QED BY <2>2
<1>. DEFINE h == CHOOSE x : Upto(x)
<1>7. Upto(h)
  <2>. HIDE DEF Upto
  <2>. QED BY <1>6
<1>8. Survivors = h[NYoung]
  BY Zenon DEF Survivors
<1>9. /\ DOMAIN h = 0 .. NYoung /\ h[0] = OldifyRoots
      /\ \A n \in 1 .. NYoung : h[n] = Oldify(h[n - 1])
  <2>. HIDE DEF h
  <2>. QED BY <1>1, <1>7
<1>10. h \in [0 .. NYoung -> SUBSET Young]
  <2>. HIDE DEF h
  <2>. DEFINE Good == {n \in 0 .. NYoung : h[n] \in SUBSET Young}
  <2>1. 0 \in Good
    BY <1>1, <1>2, <1>9
  <2>2. ASSUME NEW n \in 1 .. NYoung, n - 1 \in Good PROVE n \in Good
    BY <1>3, <1>9, <2>2
  <2>3. \A n \in 0 .. NYoung : n \in Good
    <3>. HIDE DEF Good
    <3>. QED BY <1>1, <2>1, <2>2, UpTo
  <2>4. h = [n \in 0 .. NYoung |-> h[n]]
    BY <1>7
  <2>. QED BY <2>3, <2>4
<1>. HIDE DEF h
<1>. QED BY <1>8, <1>9, <1>10 DEF OldifyRounds

LEMMA SurvivorsYoung == Survivors \in SUBSET Young
<1>1. PICK g \in [0 .. NYoung -> SUBSET Young] : OldifyRounds(g)
  BY SurvivorRounds
<1>. QED BY <1>1, GCAssumption DEF OldifyRounds

LEMMA MinorTypes ==
  ASSUME GCTypeOK, caml_empty_minor_heap
  PROVE  GCTypeOK'
<1>. USE AddressFacts
<1>0. /\ HeapTypes /\ roots \subseteq Addr /\ TableTypes /\ PhaseTypes
      /\ mk \in MarkState /\ ListTypes /\ FinTypes
  BY TypeParts
<1>. DEFINE T == {a \in Major : tag[a] = "free"}
<1>1. PICK fwd \in Injections(Survivors, T) :
        /\ tag' = [a \in Addr |-> IF a \in Young THEN "free"
                                  ELSE IF a \in Image(fwd) THEN "block" ELSE tag[a]]
        /\ fld' = [a \in Addr |-> IF a \in Young THEN Blank
                                  ELSE [i \in Ix |-> FieldCopied(fwd, a, i)]]
        /\ roots' = {Copied(fwd, v) : v \in roots}
        /\ mk' = Coloured(Image(fwd))
        /\ fin' = generic_final_minor_update(fwd)
        /\ refs' = {} /\ epheRefs' = {}
        /\ UNCHANGED <<phase, eph, hp>>
  BY DEF caml_empty_minor_heap
<1>2. Survivors \in SUBSET Young /\ T \in SUBSET Major /\ fwd \in [Survivors -> T]
  BY SurvivorsYoung DEF Injections
<1>3. Image(fwd) \in SUBSET Major
  BY <1>2 DEF Image
<1>4. \A v \in Field : Copied(fwd, v) \in Field
                       /\ (v \in Addr => Copied(fwd, v) \in Addr) /\ Copied(fwd, Unit) = Unit
  BY <1>2, CopiedTypes
<1>. HIDE DEF T
<1>5. ASSUME NEW a \in Major, NEW i \in Ix PROVE FieldCopied(fwd, a, i) \in Field
  <2>1. fld[a][i] \in Field
    BY <1>0 DEF HeapTypes
  <2>2. a \in Image(fwd) => fld[Origin(fwd, a)][i] \in Field
    <3>. SUFFICES ASSUME a \in Image(fwd) PROVE fld[Origin(fwd, a)][i] \in Field
      OBVIOUS
    <3>1. Origin(fwd, a) \in Addr
      BY <1>2, OriginFacts
    <3>. QED BY <1>0, <3>1, HeapFacts
  <2>. QED BY <1>4, <2>1, <2>2 DEF FieldCopied, Field
<1>6. ASSUME NEW a \in Major, tag'[a] = "free" PROVE fld'[a] = Blank
  <2>1. a \notin Image(fwd) /\ tag[a] = "free"
    BY <1>1, <1>6
  <2>2. \A i \in Ix : fld[a][i] = Unit
    BY <1>0, <2>1, BlankFields DEF HeapTypes
  <2>3. \A i \in Ix : FieldCopied(fwd, a, i) = Unit
    BY <1>4, <2>1, <2>2 DEF FieldCopied, Field
  <2>. QED BY <1>1, <2>3 DEF Blank
<1>7. HeapTypes'
  <2>1. tag' \in [Addr -> {"free", "block", "ephe"}]
    BY <1>0, <1>1 DEF HeapTypes
  <2>2. fld' \in [Addr -> [Ix -> Field]]
    BY <1>1, <1>5, BlankFields
  <2>3. \A a \in Addr : tag'[a] = "free" => fld'[a] = Blank
    BY <1>1, <1>6
  <2>4. \A y \in Young : tag'[y] # "ephe"
    BY <1>1
  <2>. QED BY <2>1, <2>2, <2>3, <2>4 DEF HeapTypes
<1>8. roots' \subseteq Addr
  BY <1>0, <1>1, <1>4 DEF Field
<1>9. mk' \in MarkState
  BY <1>0, <1>1, <1>3, ColouredTypes
<1>10. FinTypes'
  BY <1>0, <1>1, <1>4 DEF FinTypes, FinState, generic_final_minor_update, Field
<1>11. TableTypes' /\ PhaseTypes' /\ ListTypes'
  BY <1>0, <1>1 DEF TableTypes, PhaseTypes, ListTypes
<1>. QED BY <1>7, <1>8, <1>9, <1>10, <1>11, TypePartsNext

LEMMA SliceTypes ==
  ASSUME GCTypeOK, caml_major_collection_slice
  PROVE  GCTypeOK'
<1>. USE AddressFacts
<1>0. /\ HeapTypes /\ roots \subseteq Addr /\ TableTypes /\ PhaseTypes
      /\ mk \in MarkState /\ ListTypes /\ FinTypes
  BY TypeParts
<1>. DEFINE Rest == /\ roots' \subseteq Addr /\ TableTypes' /\ PhaseTypes' /\ ListTypes'
                    /\ FinTypes'
<1>1. CASE start_cycle
  <2>1. Rest /\ HeapTypes'
    BY <1>0, <1>1 DEF start_cycle, heap, tables, HeapTypes, TableTypes, PhaseTypes, ListTypes,
                      FinTypes, WholeList, Ephes, Phases
  <2>2. mk' \in MarkState
    <3>1. caml_darken_all(fld, roots \cup {fin[f].val : f \in ToDo}, mk) \in MarkState
      BY <1>0, DarkenAllTypes
    <3>2. \A m \in MarkState : [m EXCEPT !.pure = TRUE] \in MarkState
      BY DEF MarkState
    <3>. QED BY <1>1, <3>1, <3>2 DEF start_cycle
  <2>. QED BY <2>1, <2>2, TypePartsNext
<1>2. CASE mark_slice_darken
  <2>1. Rest /\ HeapTypes'
    BY <1>0, <1>2 DEF mark_slice_darken, heap, tables, HeapTypes, TableTypes, PhaseTypes,
                      ListTypes, FinTypes
  <2>2. mk' \in MarkState
    <3>1. PICK e \in mk.stack :
            mk' = mark_stack_push(fld, caml_darken(fld, fld[e[1]][e[2]],
                                                   [mk EXCEPT !.stack = @ \ {e}]), e[1], e[2] + 1)
      BY <1>2 DEF mark_slice_darken
    <3>2. [mk EXCEPT !.stack = @ \ {e}] \in MarkState /\ e[1] \in Major
          /\ e[2] + 1 \in Nat /\ e[2] + 1 >= 1
      BY <1>0 DEF MarkState, Ix
    <3>. QED BY <3>1, <3>2, DarkenTypes, PushTypes
  <2>. QED BY <2>1, <2>2, TypePartsNext
<1>3. CASE redarken_chunk
  <2>1. Rest /\ HeapTypes'
    BY <1>0, <1>3 DEF redarken_chunk, heap, tables, HeapTypes, TableTypes, PhaseTypes, ListTypes,
                      FinTypes
  <2>2. mk' \in MarkState
    <3>. DEFINE a == Min(mk.redarken)
                m == [mk EXCEPT !.redarken = @ \ {a}]
    <3>1. m \in MarkState
      BY <1>0 DEF MarkState
    <3>2. a \in mk.black => mark_stack_push(fld, m, a, 1) \in MarkState
      <4>. HIDE DEF a, m
      <4>. SUFFICES ASSUME a \in mk.black PROVE mark_stack_push(fld, m, a, 1) \in MarkState
        OBVIOUS
      <4>1. a \in Major
        BY <1>0 DEF MarkState
      <4>. QED BY <3>1, <4>1, PushTypes
    <3>3. mk' = m \/ (a \in mk.black /\ mk' = mark_stack_push(fld, m, a, 1))
      BY <1>3 DEF redarken_chunk
    <3>. QED BY <3>1, <3>2, <3>3
  <2>. QED BY <2>1, <2>2, TypePartsNext
<1>4. CASE mark_ephe_aux
  <2>0. PICK e \in eph.toCheck :
          \/ eph' = [eph EXCEPT !.toCheck = @ \ {e}, !.skipped = @ \cup {e}]
          \/ eph' = [eph EXCEPT !.toCheck = @ \ {e}, !.checked = @ \cup {e}]
    BY <1>4 DEF mark_ephe_aux
  <2>1. Rest /\ HeapTypes'
    <3>1. ListTypes'
      BY <1>0, <2>0 DEF ListTypes
    <3>. QED BY <1>0, <1>4, <3>1
             DEF mark_ephe_aux, heap, tables, HeapTypes, TableTypes, PhaseTypes, FinTypes
  <2>2. mk' \in MarkState
    BY <1>0, <1>4, DarkenTypes DEF mark_ephe_aux
  <2>. QED BY <2>1, <2>2, TypePartsNext
<1>5. CASE mark_scan_again
  BY <1>0, <1>5, TypePartsNext
     DEF mark_scan_again, heap, tables, HeapTypes, TableTypes, PhaseTypes, ListTypes, FinTypes,
         Rescan, MarkState
<1>6. CASE mark_main_done
  <2>1. roots' \subseteq Addr /\ TableTypes' /\ PhaseTypes' /\ ListTypes' /\ HeapTypes'
    BY <1>0, <1>6 DEF mark_main_done, heap, tables, HeapTypes, TableTypes, PhaseTypes, ListTypes,
                      Rescan, Phases
  <2>2. FinTypes'
    BY <1>0, <1>6 DEF mark_main_done, FinTypes, FinState, generic_final_update, Field
  <2>3. mk' \in MarkState
    BY <1>0, <1>6, DarkenAllTypes DEF mark_main_done
  <2>. QED BY <2>1, <2>2, <2>3, TypePartsNext
<1>7. CASE mark_final_done
  <2>1. /\ roots' \subseteq Addr /\ TableTypes' /\ PhaseTypes' /\ ListTypes' /\ HeapTypes'
        /\ mk' \in MarkState
    BY <1>0, <1>7 DEF mark_final_done, heap, tables, HeapTypes, TableTypes, PhaseTypes, ListTypes,
                      WholeList, Ephes, Phases
  <2>2. FinTypes'
    BY <1>0, <1>7 DEF mark_final_done, FinTypes, FinState, generic_final_update, Field
  <2>. QED BY <2>1, <2>2, TypePartsNext
<1>8. CASE clean_slice
  <2>0. PICK e \in eph.toCheck :
          \/ eph' = [eph EXCEPT !.toCheck = @ \ {e}]
          \/ eph' = [eph EXCEPT !.toCheck = @ \ {e}, !.checked = @ \cup {e}]
    BY <1>8 DEF clean_slice
  <2>1. Rest /\ mk' \in MarkState
    <3>1. ListTypes'
      BY <1>0, <2>0 DEF ListTypes
    <3>. QED BY <1>0, <1>8, <3>1 DEF clean_slice, tables, TableTypes, PhaseTypes, FinTypes
  <2>2. HeapTypes'
    <3>1. PICK x \in eph.toCheck : fld' = fld \/ fld' = [fld EXCEPT ![x] = Blank]
      BY <1>8 DEF clean_slice, caml_ephe_clean
    <3>. QED BY <1>0, <1>8, <3>1, BlankFields DEF clean_slice, HeapTypes
  <2>. QED BY <2>1, <2>2, TypePartsNext
<1>9. CASE init_sweep_phase
  BY <1>0, <1>9, TypePartsNext
     DEF init_sweep_phase, heap, tables, HeapTypes, TableTypes, PhaseTypes, ListTypes, FinTypes,
         WholeList, Ephes, Phases
<1>10. CASE sweep_slice
  <2>1. Rest
    BY <1>0, <1>10 DEF sweep_slice, tables, TableTypes, PhaseTypes, ListTypes, FinTypes, Major
  <2>2. mk' \in MarkState
    BY <1>0, <1>10 DEF sweep_slice, MarkState
  <2>3. HeapTypes'
    BY <1>0, <1>10, BlankFields DEF sweep_slice, heap, HeapTypes
  <2>. QED BY <2>1, <2>2, <2>3, TypePartsNext
<1>11. CASE sweep_done
  BY <1>0, <1>11, TypePartsNext
     DEF sweep_done, heap, tables, HeapTypes, TableTypes, PhaseTypes, ListTypes, FinTypes, Phases
<1>. QED BY <1>1, <1>2, <1>3, <1>4, <1>5, <1>6, <1>7, <1>8, <1>9, <1>10, <1>11
         DEF caml_major_collection_slice

LEMMA ProgramTypes ==
  ASSUME GCTypeOK, Program
  PROVE  GCTypeOK'
<1>. USE AddressFacts
<1>0. /\ HeapTypes /\ roots \subseteq Addr /\ TableTypes /\ PhaseTypes
      /\ mk \in MarkState /\ ListTypes /\ FinTypes
  BY TypeParts
<1>a. Held \subseteq Field
  BY <1>0 DEF Held, Field
<1>1. CASE Alloc_small
  <2>1. PICK y \in Free(Young), u \in Held, v \in Held :
          tag' = [tag EXCEPT ![y] = "block"] /\ fld' = [fld EXCEPT ![y] = <<u, v>>]
          /\ Hold(roots \cup {y})
    BY <1>1 DEF Alloc_small
  <2>2. y \in Addr /\ <<u, v>> \in [Ix -> Field]
    BY <1>a, BlockFields DEF Free
  <2>3. HeapTypes'
    BY <1>0, <2>1, <2>2 DEF HeapTypes
  <2>. QED BY <1>0, <1>1, <2>1, <2>2, <2>3, TypePartsNext
           DEF Alloc_small, Hold, tables, TableTypes, PhaseTypes, ListTypes, FinTypes
<1>2. CASE caml_alloc_shr
  <2>1. PICK a \in Free(Major), u \in Held, v \in Held :
          /\ tag' = [tag EXCEPT ![a] = "block"] /\ fld' = [fld EXCEPT ![a] = <<u, v>>]
          /\ refs' = refs \cup {<<a, i>> : i \in {j \in Ix : <<u, v>>[j] \in Young}}
          /\ mk' = Coloured({a})
          /\ Hold(roots \cup {a})
    BY <1>2 DEF caml_alloc_shr
  <2>2. a \in Major /\ a \in Addr /\ <<u, v>> \in [Ix -> Field]
    BY <1>a, BlockFields DEF Free
  <2>3. HeapTypes'
    BY <1>0, <2>1, <2>2 DEF HeapTypes
  <2>4. mk' \in MarkState
    BY <1>0, <2>1, <2>2, ColouredTypes
  <2>. QED BY <1>0, <1>2, <2>1, <2>2, <2>3, <2>4, TypePartsNext
           DEF caml_alloc_shr, Hold, TableTypes, PhaseTypes, ListTypes, FinTypes
<1>3. CASE caml_ephemeron_create
  <2>1. PICK a \in Free(Major) :
          /\ tag' = [tag EXCEPT ![a] = "ephe"]
          /\ mk' = Coloured({a})
          /\ \/ eph' = [eph EXCEPT !.checked = @ \cup {a}]
             \/ eph' = [eph EXCEPT !.skipped = @ \cup {a}]
             \/ eph' = [eph EXCEPT !.toCheck = @ \cup {a}]
          /\ Hold(roots \cup {a})
    BY <1>3 DEF caml_ephemeron_create
  <2>2. a \in Major /\ a \in Addr
    BY DEF Free
  <2>3. HeapTypes'
    BY <1>0, <1>3, <2>1, <2>2 DEF HeapTypes, caml_ephemeron_create
  <2>4. mk' \in MarkState
    BY <1>0, <2>1, <2>2, ColouredTypes
  <2>5. ListTypes'
    BY <1>0, <2>1, <2>2 DEF ListTypes
  <2>. QED BY <1>0, <1>3, <2>1, <2>2, <2>3, <2>4, <2>5, TypePartsNext
           DEF caml_ephemeron_create, Hold, tables, TableTypes, PhaseTypes, FinTypes
<1>4. CASE caml_modify
  <2>1. PICK a \in HeldBlocks, i \in Ix, v \in Held :
          /\ fld' = [fld EXCEPT ![a][i] = v]
          /\ IF a \in Young \/ fld[a][i] \in Young THEN UNCHANGED <<mk, refs>>
             ELSE /\ mk' = IF Marking THEN caml_darken(fld', fld[a][i], mk) ELSE mk
                  /\ refs' = IF v \in Young THEN refs \cup {<<a, i>>} ELSE refs
    BY <1>4 DEF caml_modify
  <2>2. a \in Addr /\ tag[a] = "block" /\ v \in Field
    BY <1>a DEF HeldBlocks, IsBlock
  <2>3. HeapTypes'
    BY <1>0, <1>4, <2>1, <2>2 DEF HeapTypes, caml_modify
  <2>4. mk' \in MarkState
    BY <1>0, <2>1, DarkenTypes
  <2>5. TableTypes'
    BY <1>0, <1>4, <2>1, <2>2 DEF TableTypes, caml_modify
  <2>. QED BY <1>0, <1>4, <2>3, <2>4, <2>5, TypePartsNext
           DEF caml_modify, PhaseTypes, ListTypes, FinTypes
<1>5. CASE Load \/ Drop
  <2>1. roots' \subseteq Addr
    BY <1>0, <1>5 DEF Load, Drop, Hold
  <2>. QED BY <1>0, <1>5, <2>1, TypePartsNext
           DEF Load, Drop, heap, tables, HeapTypes, TableTypes, PhaseTypes, ListTypes, FinTypes
<1>. DEFINE Clean(g, e) == g = fld \/ g = [fld EXCEPT ![e] = Blank]
<1>b. ASSUME NEW e \in HeldEphes
      PROVE  /\ e \in Major /\ tag[e] = "ephe" /\ Clean(do_check_key_clean(e), e)
             /\ do_check_key_clean(e) \in [Addr -> [Ix -> Field]]
             /\ \A x \in Addr : x # e => do_check_key_clean(e)[x] = fld[x]
  <2>1. e \in Addr /\ tag[e] = "ephe"
    BY DEF HeldEphes
  <2>2. e \notin Young
    BY <1>0, <2>1 DEF HeapTypes
  <2>3. Clean(do_check_key_clean(e), e)
    BY DEF do_check_key_clean, caml_ephe_clean
  <2>4. fld \in [Addr -> [Ix -> Field]]
    BY <1>0 DEF HeapTypes
  <2>. QED BY <2>1, <2>2, <2>3, <2>4, BlankFields
<1>c. ASSUME NEW e \in HeldEphes, NEW i \in Ix, NEW v \in Field,
             \/ fld' = [fld EXCEPT ![e][i] = v]
             \/ fld' = [do_check_key_clean(e) EXCEPT ![e][i] = v]
             \/ fld' = do_check_key_clean(e),
             UNCHANGED tag
      PROVE  HeapTypes'
  <2>1. fld' \in [Addr -> [Ix -> Field]]
    <3>1. fld \in [Addr -> [Ix -> Field]] /\ do_check_key_clean(e) \in [Addr -> [Ix -> Field]]
      BY <1>0, <1>b DEF HeapTypes
    <3>2. \A g \in [Addr -> [Ix -> Field]] : [g EXCEPT ![e][i] = v] \in [Addr -> [Ix -> Field]]
      BY <1>b
    <3>. QED BY <1>c, <3>1, <3>2
  <2>2. \A x \in Addr : x # e => fld'[x] = fld[x]
    <3>. HIDE DEF Clean
    <3>1. fld \in [Addr -> [Ix -> Field]] /\ do_check_key_clean(e) \in [Addr -> [Ix -> Field]]
          /\ \A x \in Addr : x # e => do_check_key_clean(e)[x] = fld[x]
      BY <1>0, <1>b DEF HeapTypes
    <3>. QED BY <1>c, <3>1
  <2>. QED BY <1>0, <1>b, <1>c, <2>1, <2>2 DEF HeapTypes
<1>6. CASE caml_ephemeron_set_key \/ caml_ephemeron_set_data
  <2>1. PICK e \in HeldEphes, i \in Ix, v \in roots : do_set(do_check_key_clean(e), e, i, v)
    BY <1>6 DEF caml_ephemeron_set_key, caml_ephemeron_set_data
  <2>2. /\ v \in Field /\ fld' = [do_check_key_clean(e) EXCEPT ![e][i] = v]
        /\ epheRefs' \subseteq epheRefs \cup {<<e, i>>}
    BY <1>0, <2>1 DEF do_set, Field
  <2>3. HeapTypes'
    BY <1>6, <1>c, <2>2 DEF caml_ephemeron_set_key, caml_ephemeron_set_data
  <2>4. TableTypes'
    BY <1>0, <1>6, <1>b, <2>2 DEF caml_ephemeron_set_key, caml_ephemeron_set_data, TableTypes
  <2>. QED BY <1>0, <1>6, <2>3, <2>4, TypePartsNext
           DEF caml_ephemeron_set_key, caml_ephemeron_set_data, PhaseTypes, ListTypes, FinTypes
<1>7. CASE caml_ephemeron_unset_key \/ caml_ephemeron_unset_data
  <2>1. PICK e \in HeldEphes, i \in Ix :
          \/ fld' = [fld EXCEPT ![e][i] = Unit]
          \/ fld' = [do_check_key_clean(e) EXCEPT ![e][i] = Unit]
    BY <1>7 DEF caml_ephemeron_unset_key, caml_ephemeron_unset_data
  <2>2. Unit \in Field
    BY DEF Field
  <2>3. HeapTypes'
    BY <1>7, <1>c, <2>1, <2>2 DEF caml_ephemeron_unset_key, caml_ephemeron_unset_data
  <2>. QED BY <1>0, <1>7, <2>3, TypePartsNext
           DEF caml_ephemeron_unset_key, caml_ephemeron_unset_data, tables, TableTypes,
               PhaseTypes, ListTypes, FinTypes
<1>8. ASSUME NEW i \in Ix, caml_ephemeron_get(i) PROVE GCTypeOK'
  <2>1. PICK e \in HeldEphes :
          LET v == do_check_key_clean(e)[e][i] IN
          /\ fld' = do_check_key_clean(e)
          /\ Hold(roots \cup ({v} \ {Unit}))
          /\ mk' = IF Marking THEN caml_darken(fld, v, mk) ELSE mk
    BY <1>8 DEF caml_ephemeron_get
  <2>2. do_check_key_clean(e)[e][i] \in Field
    BY <1>b
  <2>3. HeapTypes'
    BY <1>8, <1>c, <2>1, <2>2 DEF caml_ephemeron_get
  <2>4. roots' \subseteq Addr /\ mk' \in MarkState
    <3>. DEFINE w == do_check_key_clean(e)[e][i]
    <3>1. w \in Field /\ Hold(roots \cup ({w} \ {Unit}))
          /\ mk' = IF Marking THEN caml_darken(fld, w, mk) ELSE mk
      BY <2>1, <2>2
    <3>. HIDE DEF w
    <3>. QED BY <1>0, <3>1, DarkenTypes DEF Hold, Field
  <2>. QED BY <1>0, <1>8, <2>3, <2>4, TypePartsNext
           DEF caml_ephemeron_get, tables, TableTypes, PhaseTypes, ListTypes, FinTypes
<1>9. CASE generic_final_register
  <2>1. FinTypes'
    BY <1>0, <1>9 DEF generic_final_register, FinTypes, FinState, Field, HeldBlocks
  <2>. QED BY <1>0, <1>9, <2>1, TypePartsNext
           DEF generic_final_register, heap, tables, HeapTypes, TableTypes, PhaseTypes, ListTypes
<1>10. CASE caml_final_do_calls
  <2>1. PICK f \in ToDo : fin' = [fin EXCEPT ![f] = Unused]
                          /\ Hold(roots \cup ({fin[f].val} \ {Unit}))
    BY <1>10 DEF caml_final_do_calls
  <2>2. f \in Funs /\ fin[f].val \in Field
    BY <1>0 DEF FinTypes, FinState, ToDo
  <2>3. Unused \in FinState
    BY DEF Unused, FinState, Field
  <2>4. FinTypes' /\ roots' \subseteq Addr
    BY <1>0, <2>1, <2>2, <2>3 DEF FinTypes, Hold, Field
  <2>. QED BY <1>0, <1>10, <2>4, TypePartsNext
           DEF caml_final_do_calls, heap, tables, HeapTypes, TableTypes, PhaseTypes, ListTypes
<1>. QED BY <1>1, <1>2, <1>3, <1>4, <1>5, <1>6, <1>7, <1>8, <1>9, <1>10 DEF Program

\* Each variable keeps its shape and a free address holds nothing, whatever the
\* size of the heap and whatever ephemerons the program edits.
THEOREM GCTypes == GCSpec => []GCTypeOK
<1>1. GCInit => GCTypeOK
  BY AddressFacts, BlankFields
     DEF GCInit, GCTypeOK, Phases, Unused, Field
<1>2. GCTypeOK /\ [GCNext]_vars => GCTypeOK'
  <2>1. CASE UNCHANGED vars
    BY <2>1 DEF vars, GCTypeOK
  <2>2. ASSUME GCTypeOK, MinorCollection PROVE GCTypeOK'
    BY <2>2, MinorTypes DEF MinorCollection
  <2>. QED BY <2>1, <2>2, SliceTypes, ProgramTypes DEF GCNext, Collector
<1>. QED BY <1>1, <1>2, PTL DEF GCSpec

-----------------------------------------------------------------------------
(* What is safe *)

LEMMA AllocFacts ==
  GCTypeOK => /\ Alloc \subseteq Addr
              /\ \A a \in Addr : a \in Alloc <=> tag[a] # "free"
              /\ \A a \in Addr : IsBlock(a) \/ IsEphe(a) <=> a \in Alloc
              /\ \A a \in Addr : ~(IsBlock(a) /\ IsEphe(a))
              /\ \A a \in Addr \ Alloc, i \in Ix : fld[a][i] = Unit
              /\ \A a \in Addr, i \in Ix : fld[a][i] \in Field
              /\ \A y \in Young : ~IsEphe(y)
BY TypeParts, HeapFacts DEF Alloc, IsBlock, IsEphe

LEMMA ProtectedFacts ==
  GCTypeOK => /\ mk.black \subseteq Protected /\ Protected \subseteq Major
              /\ \A a \in Protected \ mk.black, i \in Ix :
                   IsBlock(a) /\ fld[a][i] \in Major => fld[a][i] \in Protected
              /\ \A a \in Major, i \in Ix :
                   <<a, i>> \in Pending(mk) /\ fld[a][i] \in Major => fld[a][i] \in Protected
<1>. SUFFICES ASSUME GCTypeOK
              PROVE  /\ mk.black \subseteq Protected /\ Protected \subseteq Major
                     /\ \A a \in Protected \ mk.black, i \in Ix :
                          IsBlock(a) /\ fld[a][i] \in Major => fld[a][i] \in Protected
                     /\ \A a \in Major, i \in Ix :
                          <<a, i>> \in Pending(mk) /\ fld[a][i] \in Major
                          => fld[a][i] \in Protected
  OBVIOUS
<1>1. mk.black \subseteq Major
  BY TypeParts DEF MarkState
<1>2. \A S \in Shields : mk.black \subseteq S
  BY DEF Shields, Shield
<1>3. ASSUME NEW a \in Major, NEW i \in Ix, fld[a][i] \in Major, NEW S \in Shields,
             <<a, i>> \in Pending(mk) \/ (a \in S \ mk.black /\ IsBlock(a))
      PROVE  fld[a][i] \in S
  BY <1>3 DEF Shields, Shield
<1>. QED BY <1>1, <1>2, <1>3 DEF Protected

\* What is protected is allocated, as long as nothing is freed.
LEMMA ProtectedAlloc ==
  GCTypeOK /\ Colours /\ HeapClosed /\ phase # "sweep" => Protected \subseteq Alloc
<1>. SUFFICES ASSUME GCTypeOK, Colours, HeapClosed, phase # "sweep"
              PROVE  Alloc \cap Major \in Shields
  BY DEF Protected
<1>1. mk.black \subseteq Alloc \cap Major
  BY TypeParts DEF MarkState, Colours
<1>2. ASSUME NEW a \in Major, NEW i \in Ix, fld[a][i] \in Major,
             <<a, i>> \in Pending(mk) \/ (a \in (Alloc \cap Major) \ mk.black /\ IsBlock(a))
      PROVE  fld[a][i] \in Alloc \cap Major
  <2>1. IsBlock(a)
    BY <1>2 DEF Pending
  <2>2. a \in Alloc
    BY <2>1, AllocFacts, AddressFacts
  <2>3. fld[a][i] \in Values(Alloc)
    BY <2>2 DEF HeapClosed
  <2>. QED BY <1>2, <2>3, AddressFacts DEF Values
<1>. QED BY <1>1, <1>2 DEF Shields, Shield

\* With nothing pending only the black blocks are protected.
LEMMA ProtectedBlack ==
  GCTypeOK /\ NoStack => Protected = mk.black
<1>. SUFFICES ASSUME GCTypeOK, NoStack PROVE Protected = mk.black
  OBVIOUS
<1>1. mk.black \in SUBSET Major
  BY TypeParts DEF MarkState
<1>2. Pending(mk) = {}
  BY DEF NoStack, Pending
<1>3. mk.black \in Shields
  BY <1>1, <1>2 DEF Shields, Shield
<1>. QED BY <1>3, ProtectedFacts DEF Protected

LEMMA SafeFacts ==
  GCTypeOK /\ Colours /\ HeapClosed =>
    /\ Safe \subseteq Alloc /\ Alloc \subseteq Addr /\ mk.black \subseteq Safe
    /\ Alloc \cap Young \subseteq Safe
    /\ phase = "idle" => Safe = Alloc
    /\ Marking => Safe = (Alloc \cap Young) \cup Protected
    /\ phase = "clean" => Safe = (Alloc \cap Young) \cup mk.black
    /\ phase = "sweep" => \A a \in Major : a \in Safe <=> a \in Alloc /\ (a \in mk.black \/ a < hp)
<1>. SUFFICES ASSUME GCTypeOK, Colours, HeapClosed
              PROVE  /\ Safe \subseteq Alloc /\ Alloc \subseteq Addr /\ mk.black \subseteq Safe
                     /\ Alloc \cap Young \subseteq Safe
                     /\ phase = "idle" => Safe = Alloc
                     /\ Marking => Safe = (Alloc \cap Young) \cup Protected
                     /\ phase = "clean" => Safe = (Alloc \cap Young) \cup mk.black
                     /\ phase = "sweep" =>
                          \A a \in Major : a \in Safe <=> a \in Alloc /\ (a \in mk.black \/ a < hp)
  OBVIOUS
<1>1. /\ mk.black \subseteq Alloc /\ mk.black \subseteq Major /\ Alloc \subseteq Addr
      /\ phase \in Phases /\ (phase = "idle" => mk.black = {})
  BY TypeParts DEF Colours, MarkState, PhaseTypes, Alloc
<1>2. Safe \subseteq Alloc /\ Alloc \cap Young \subseteq Safe
  BY <1>1, AddressFacts DEF Safe
<1>3. /\ Marking => Protected \subseteq Alloc
      /\ mk.black \subseteq Protected /\ Protected \subseteq Major
  BY ProtectedAlloc, ProtectedFacts DEF Marking, MarkPhases
<1>4. \A a \in Alloc : a \in Safe <=> a \in Young \/ Kept(a)
  BY DEF Safe
<1>5. CASE phase = "idle"
  BY <1>1, <1>2, <1>4, <1>5 DEF Kept, Marking, MarkPhases
<1>6. CASE Marking
  BY <1>1, <1>2, <1>3, <1>4, <1>6, AddressFacts DEF Kept, Marking, MarkPhases
<1>7. CASE phase = "clean"
  BY <1>1, <1>2, <1>4, <1>7, AddressFacts DEF Kept, Marking, MarkPhases
<1>8. CASE phase = "sweep"
  BY <1>1, <1>2, <1>4, <1>8, AddressFacts DEF Kept, Marking, MarkPhases
<1>. QED BY <1>1, <1>5, <1>6, <1>7, <1>8 DEF Phases, Marking, MarkPhases

LEMMA AllocFactsNext ==
  GCTypeOK' => /\ Alloc' \subseteq Addr
               /\ \A a \in Addr : a \in Alloc' <=> tag'[a] # "free"
               /\ \A a \in Addr : tag'[a] = "block" \/ tag'[a] = "ephe" <=> a \in Alloc'
               /\ \A a \in Addr \ Alloc', i \in Ix : fld'[a][i] = Unit
               /\ \A a \in Addr, i \in Ix : fld'[a][i] \in Field
               /\ \A y \in Young : tag'[y] # "ephe"
<1>1. (GCTypeOK => /\ Alloc \subseteq Addr
                   /\ \A a \in Addr : a \in Alloc <=> tag[a] # "free"
                   /\ \A a \in Addr : IsBlock(a) \/ IsEphe(a) <=> a \in Alloc
                   /\ \A a \in Addr : ~(IsBlock(a) /\ IsEphe(a))
                   /\ \A a \in Addr \ Alloc, i \in Ix : fld[a][i] = Unit
                   /\ \A a \in Addr, i \in Ix : fld[a][i] \in Field
                   /\ \A y \in Young : ~IsEphe(y))'
  BY AllocFacts, PTL
<1>. QED BY <1>1 DEF IsBlock, IsEphe

LEMMA SafeFactsNext ==
  GCTypeOK' /\ Colours' /\ HeapClosed' =>
    /\ Safe' \subseteq Alloc' /\ Alloc' \subseteq Addr /\ mk'.black \subseteq Safe'
    /\ Alloc' \cap Young \subseteq Safe'
    /\ phase' = "idle" => Safe' = Alloc'
    /\ Marking' => Safe' = (Alloc' \cap Young) \cup Protected'
    /\ phase' = "clean" => Safe' = (Alloc' \cap Young) \cup mk'.black
    /\ phase' = "sweep" =>
         \A a \in Major : a \in Safe' <=> a \in Alloc' /\ (a \in mk'.black \/ a < hp')
<1>1. (GCTypeOK /\ Colours /\ HeapClosed =>
        /\ Safe \subseteq Alloc /\ Alloc \subseteq Addr /\ mk.black \subseteq Safe
        /\ Alloc \cap Young \subseteq Safe
        /\ phase = "idle" => Safe = Alloc
        /\ Marking => Safe = (Alloc \cap Young) \cup Protected
        /\ phase = "clean" => Safe = (Alloc \cap Young) \cup mk.black
        /\ phase = "sweep" =>
             \A a \in Major : a \in Safe <=> a \in Alloc /\ (a \in mk.black \/ a < hp))'
  BY SafeFacts, PTL
<1>. QED BY <1>1

-----------------------------------------------------------------------------
(* What a step keeps safe *)

\* A step that undoes no marking, and darkens what it takes out of a block,
\* protects at least what was protected.
LEMMA ProtectedGrows ==
  ASSUME GCTypeOK, mk.black \subseteq mk'.black,
         \A a \in Major : IsBlock(a) => tag'[a] = "block",
         \A a \in Major, i \in Ix :
           IsBlock(a) /\ fld[a][i] \in Major =>
             fld'[a][i] = fld[a][i] \/ fld[a][i] \in mk'.black,
         \A a \in Major, i \in Ix :
           /\ IsBlock(a) /\ fld[a][i] \in Major
           /\ <<a, i>> \in Pending(mk) \/ a \in mk'.black \ mk.black
           => <<a, i>> \in Pending(mk)' \/ fld[a][i] \in mk'.black
  PROVE  Protected \subseteq Protected'
<1>1. ASSUME NEW S \in Shields' PROVE S \in Shields
  <2>1. S \in SUBSET Major /\ mk'.black \subseteq S
    BY DEF Shields, Shield
  <2>2. ASSUME NEW a \in Major, NEW i \in Ix, fld'[a][i] \in Major,
               <<a, i>> \in Pending(mk)' \/ (a \in S \ mk'.black /\ tag'[a] = "block")
        PROVE  fld'[a][i] \in S
    BY <2>2 DEF Shields, Shield, IsBlock
  <2>3. ASSUME NEW a \in Major, NEW i \in Ix, fld[a][i] \in Major,
               <<a, i>> \in Pending(mk) \/ (a \in S \ mk.black /\ IsBlock(a)),
               fld[a][i] \notin mk'.black
        PROVE  fld[a][i] \in S
    <3>1. IsBlock(a)
      BY <2>3 DEF Pending
    <3>2. fld'[a][i] = fld[a][i] /\ tag'[a] = "block"
      BY <2>3, <3>1
    <3>3. CASE <<a, i>> \in Pending(mk) \/ a \in mk'.black \ mk.black
      BY <2>2, <2>3, <3>1, <3>2, <3>3
    <3>4. CASE a \in S \ mk'.black
      BY <2>2, <2>3, <3>2, <3>4
    <3>. QED BY <2>3, <3>3, <3>4
  <2>. QED BY <2>1, <2>3 DEF Shields, Shield
<1>. QED BY <1>1 DEF Protected

LEMMA SafeGrows ==
  ASSUME UNCHANGED <<phase, hp>>, Alloc \subseteq Alloc', mk.black \subseteq mk'.black,
         Marking => Protected \subseteq Protected'
  PROVE  Safe \subseteq Safe'
BY DEF Safe, Kept, Marking

LEMMA SafeUnmarked ==
  ASSUME ~Marking, UNCHANGED <<phase, hp>>, mk'.black \subseteq mk.black \cup (Addr \ Alloc)
  PROVE  Safe' \cap Alloc \subseteq Safe
BY DEF Safe, Kept, Marking

LEMMA ProtectedFactsNext ==
  GCTypeOK' => /\ mk'.black \subseteq Protected' /\ Protected' \subseteq Major
               /\ \A a \in Protected' \ mk'.black, i \in Ix :
                    tag'[a] = "block" /\ fld'[a][i] \in Major => fld'[a][i] \in Protected'
               /\ \A a \in Major, i \in Ix :
                    <<a, i>> \in Pending(mk)' /\ fld'[a][i] \in Major
                    => fld'[a][i] \in Protected'
<1>1. (GCTypeOK => /\ mk.black \subseteq Protected /\ Protected \subseteq Major
                   /\ \A a \in Protected \ mk.black, i \in Ix :
                        IsBlock(a) /\ fld[a][i] \in Major => fld[a][i] \in Protected
                   /\ \A a \in Major, i \in Ix :
                        <<a, i>> \in Pending(mk) /\ fld[a][i] \in Major
                        => fld[a][i] \in Protected)'
  BY ProtectedFacts, PTL
<1>. QED BY <1>1 DEF IsBlock

\* While marking, the blocks to look at are the young and the black ones.
LEMMA MarkedBlocks ==
  ASSUME GCTypeOK', Colours', HeapClosed', Marking',
         \A a \in Alloc', i \in Ix :
           /\ tag'[a] = "block" /\ (a \in Young \/ a \in mk'.black)
           /\ fld'[a][i] \in Major
           => fld'[a][i] \in Safe'
  PROVE  BlocksSafe'
<1>1. ASSUME NEW a \in Safe', NEW i \in Ix, tag'[a] = "block"
      PROVE  fld'[a][i] \in Safe' \cup {Unit}
  <2>1. a \in Alloc' /\ (a \in Young \/ a \in Protected') /\ a \in Addr
    BY SafeFactsNext
  <2>2. fld'[a][i] \in Alloc' \cup {Unit}
    <3>1. phase' # "sweep"
      BY DEF Marking, MarkPhases
    <3>. QED BY <2>1, <3>1 DEF HeapClosed, Values
  <2>3. fld'[a][i] \in Young => fld'[a][i] \in Safe'
    BY <2>2, SafeFactsNext, AddressFacts
  <2>4. fld'[a][i] \in Major => fld'[a][i] \in Safe'
    BY <1>1, <2>1, ProtectedFactsNext, SafeFactsNext
  <2>. QED BY <2>2, <2>3, <2>4, AllocFactsNext, AddressFacts
<1>. QED BY <1>1 DEF BlocksSafe, IsBlock, Values

LEMMA FinsKept ==
  ASSUME FinsSafe, UNCHANGED <<fin, phase>>, Safe \subseteq Safe', Alloc \subseteq Alloc'
  PROVE  FinsSafe'
BY DEF FinsSafe, FinIs, Values

\* A step that touches neither the heap nor the marking.
LEMMA QuietStep ==
  ASSUME GCInv, GCTypeOK', UNCHANGED <<heap, tables, phase, mk, eph, hp>>
  PROVE  /\ Safe' = Safe /\ Alloc' = Alloc
         /\ RootsSafe' /\ FinsSafe' => GCInv'
<1>1. Alloc' = Alloc
  BY DEF Alloc, heap
<1>2. Shields' = Shields
  BY DEF Shields, Shield, Pending, IsBlock, heap
<1>3. Protected' = Protected
  BY <1>2 DEF Protected
<1>4. Safe' = Safe
  BY <1>1, <1>3 DEF Safe, Kept, Marking
<1>5. Colours' /\ HeapClosed' /\ BlocksSafe'
  BY <1>1, <1>4 DEF GCInv, Colours, HeapClosed, BlocksSafe, StackOK, IsBlock, Marking, heap, Values
<1>6. Lists' /\ EphesSafe'
  BY <1>1, <1>4 DEF GCInv, Lists, EphesSafe, IsEphe, Ephes, Marking, White, heap, Values
<1>7. Tables'
  BY <1>1, <1>4 DEF GCInv, Tables, Remembered, IsBlock, Ephes, YoungEmpty, heap, tables
<1>. QED BY <1>1, <1>4, <1>5, <1>6, <1>7 DEF GCInv

-----------------------------------------------------------------------------
(* The steps of the program *)

\* GCInv with its parts and what they say of values.
LEMMA InvFacts ==
  GCInv => /\ GCTypeOK /\ Colours /\ HeapClosed /\ RootsSafe /\ BlocksSafe /\ FinsSafe
           /\ Lists /\ EphesSafe /\ Tables
           /\ Safe \subseteq Alloc /\ Alloc \subseteq Addr /\ roots \subseteq Safe
           /\ Held \subseteq Values(Safe)
           /\ mk \in MarkState /\ StackOK(mk) /\ mk.black \subseteq Safe
           /\ mk.black \subseteq Major
BY SafeFacts, TypeParts DEF GCInv, RootsSafe, Held, Values, Colours, MarkState

LEMMA RegisterSteps ==
  ASSUME GCInv, GCTypeOK', Load \/ Drop \/ generic_final_register \/ caml_final_do_calls
  PROVE  GCInv'
<1>1. UNCHANGED <<heap, tables, phase, mk, eph, hp>>
  BY DEF Load, Drop, generic_final_register, caml_final_do_calls
<1>2. Safe' = Safe /\ Alloc' = Alloc
  BY <1>1, QuietStep
<1>3. CASE Load
  <2>1. roots' \subseteq Safe
    <3>1. PICK a \in HeldBlocks, i \in Ix :
            fld[a][i] \in Addr /\ roots' = roots \cup {fld[a][i]}
      BY <1>3 DEF Load, Hold
    <3>2. fld[a][i] \in Values(Safe)
      BY InvFacts DEF HeldBlocks, BlocksSafe
    <3>. QED BY <3>1, <3>2, InvFacts, AddressFacts DEF Values
  <2>. QED BY <1>1, <1>2, <1>3, <2>1, QuietStep, FinsKept, InvFacts DEF Load, RootsSafe
<1>4. CASE Drop
  BY <1>1, <1>2, <1>4, QuietStep, FinsKept, InvFacts DEF Drop, RootsSafe
<1>5. CASE generic_final_register
  <2>1. PICK f \in Funs, v \in HeldBlocks : fin' = [fin EXCEPT ![f] = [st |-> "recent", val |-> v]]
    BY <1>5 DEF generic_final_register
  <2>2. v \in Safe /\ DOMAIN fin = Funs
    BY InvFacts, TypeParts DEF HeldBlocks, FinTypes
  <2>3. FinsSafe'
    BY <1>1, <1>2, <2>1, <2>2, InvFacts DEF FinsSafe, FinIs, Values
  <2>. QED BY <1>1, <1>2, <1>5, <2>3, QuietStep, InvFacts DEF generic_final_register, RootsSafe
<1>6. CASE caml_final_do_calls
  <2>1. PICK f \in ToDo : fin' = [fin EXCEPT ![f] = Unused]
                          /\ roots' = roots \cup ({fin[f].val} \ {Unit})
    BY <1>6 DEF caml_final_do_calls, Hold
  <2>2. f \in Funs /\ FinIs(f, "todo") /\ DOMAIN fin = Funs
    BY InvFacts, TypeParts DEF ToDo, FinTypes
  <2>3. roots' \subseteq Safe
    BY <2>1, <2>2, InvFacts DEF FinsSafe, Values
  <2>4. FinsSafe'
    BY <1>1, <1>2, <2>1, <2>2, InvFacts DEF FinsSafe, FinIs, Values, Unused
  <2>. QED BY <1>1, <1>2, <2>3, <2>4, QuietStep DEF RootsSafe
<1>. QED BY <1>3, <1>4, <1>5, <1>6

\* The write barrier: the old value is darkened, the new one is safe.
LEMMA ModifyStep ==
  ASSUME GCInv, GCTypeOK', caml_modify
  PROVE  GCInv'
<1>. USE AddressFacts
<1>0. PICK a \in HeldBlocks, i \in Ix, v \in Held :
        /\ fld' = [fld EXCEPT ![a][i] = v]
        /\ IF a \in Young \/ fld[a][i] \in Young THEN UNCHANGED <<mk, refs>>
           ELSE /\ mk' = IF Marking THEN caml_darken(fld', fld[a][i], mk) ELSE mk
                /\ refs' = IF v \in Young THEN refs \cup {<<a, i>>} ELSE refs
  BY DEF caml_modify
<1>1. UNCHANGED <<tag, roots, epheRefs, phase, eph, hp, fin>>
  BY DEF caml_modify
<1>2. /\ a \in Safe /\ a \in Addr /\ IsBlock(a) /\ tag[a] = "block" /\ ~IsEphe(a)
      /\ v \in Values(Safe) /\ v \in Values(Alloc)
  BY InvFacts DEF HeldBlocks, Values, IsBlock, IsEphe
<1>3. /\ fld'[a][i] = v
      /\ \A b \in Addr, j \in Ix : b # a \/ j # i => fld'[b][j] = fld[b][j]
      /\ \A b \in Addr : b # a => fld'[b] = fld[b]
  <2>1. fld \in [Addr -> [Ix -> Field]]
    BY InvFacts, TypeParts DEF HeapTypes
  <2>. QED BY <1>0, <1>2, <2>1
<1>4. Alloc' = Alloc /\ (YoungEmpty' <=> YoungEmpty)
  BY <1>1 DEF Alloc, YoungEmpty
<1>5. HeapClosed'
  <2>1. ASSUME NEW b \in Alloc, NEW j \in Ix, phase # "sweep" PROVE fld'[b][j] \in Values(Alloc)
    <3>1. fld[b][j] \in Values(Alloc) /\ b \in Addr
      BY <2>1, InvFacts DEF HeapClosed
    <3>. QED BY <1>2, <1>3, <3>1
  <2>. QED BY <1>1, <1>4, <2>1 DEF HeapClosed, Values
<1>. DEFINE old == fld[a][i]
<1>6. /\ StackOK(mk') /\ Grown(fld', mk, mk') /\ mk'.black \subseteq mk.black \cup {old}
      /\ Marking /\ a \in Major /\ old \in Major => old \in mk'.black
      /\ ~Marking => mk' = mk
  <2>1. StackOK(mk) /\ mk \in MarkState /\ Grown(fld', mk, mk)
    BY InvFacts DEF Grown
  <2>2. LET n == caml_darken(fld', old, mk) IN
         /\ n \in MarkState /\ StackOK(n) /\ Grown(fld', mk, n)
         /\ old \in Major => old \in n.black
         /\ n.black \subseteq mk.black \cup {old}
    BY <2>1, DarkenGrows
  <2>. QED BY <1>0, <2>1, <2>2
<1>7. StackOK(mk)'
  BY <1>1, <1>6 DEF StackOK, IsBlock
<1>8. Colours'
  <2>1. Marking => old \in Values(Alloc)
    BY <1>2, InvFacts DEF HeapClosed, Marking, MarkPhases
  <2>2. mk'.black \subseteq Major
    BY TypePartsNext DEF MarkState
  <2>3. mk'.black \subseteq Alloc'
    BY <1>4, <1>6, <2>1, <2>2, InvFacts DEF Colours, Values
  <2>. QED BY <1>1, <1>6, <1>7, <2>3, InvFacts DEF Colours, Marking, MarkPhases
<1>9. Marking => Protected \subseteq Protected'
  <2>. SUFFICES ASSUME Marking PROVE Protected \subseteq Protected'
    OBVIOUS
  <2>1. mk.black \subseteq mk'.black
    BY <1>6 DEF Grown
  <2>2. \A b \in Major : IsBlock(b) => tag'[b] = "block"
    BY <1>1 DEF IsBlock
  <2>3. \A b \in Major, j \in Ix :
          IsBlock(b) /\ fld[b][j] \in Major => fld'[b][j] = fld[b][j] \/ fld[b][j] \in mk'.black
    BY <1>3, <1>6
  <2>4. ASSUME NEW b \in Major, NEW j \in Ix, IsBlock(b), fld[b][j] \in Major,
               <<b, j>> \in Pending(mk) \/ b \in mk'.black \ mk.black
        PROVE  <<b, j>> \in Pending(mk)' \/ fld[b][j] \in mk'.black
    <3>1. CASE b = a /\ j = i
      BY <1>6, <2>4, <3>1
    <3>2. CASE ~(b = a /\ j = i)
      <4>1. fld'[b][j] = fld[b][j]
        BY <1>3, <3>2
      <4>2. <<b, j>> \in Pending(mk') \/ fld[b][j] \in mk'.black
        BY <1>6, <2>4, <4>1 DEF Grown
      <4>3. Pending(mk') = Pending(mk)'
        BY <1>1 DEF Pending, IsBlock
      <4>. QED BY <4>2, <4>3
    <3>. QED BY <3>1, <3>2
  <2>. QED BY <2>1, <2>2, <2>3, <2>4, ProtectedGrows, InvFacts
<1>10. Safe \subseteq Safe' /\ (~Marking => Safe' = Safe)
  <2>1. mk.black \subseteq mk'.black
    BY <1>6 DEF Grown
  <2>2. Safe \subseteq Safe'
    BY <1>1, <1>4, <1>9, <2>1, SafeGrows
  <2>3. Safe' \subseteq Alloc
    BY <1>4, <1>5, <1>8, SafeFactsNext
  <2>4. ~Marking => Safe' \cap Alloc \subseteq Safe
    BY <1>1, <1>6, SafeUnmarked
  <2>. QED BY <2>2, <2>3, <2>4
<1>11. BlocksSafe'
  <2>1. ASSUME NEW b \in Safe, NEW j \in Ix, IsBlock(b)
        PROVE  fld'[b][j] \in Values(Safe')
    <3>1. fld[b][j] \in Values(Safe)
      BY <2>1, InvFacts DEF BlocksSafe
    <3>2. b \in Addr
      BY InvFacts
    <3>. QED BY <1>2, <1>3, <1>10, <3>1, <3>2 DEF Values
  <2>2. CASE ~Marking
    BY <1>1, <1>10, <2>1, <2>2 DEF BlocksSafe, IsBlock, Values
  <2>3. CASE Marking
    <3>1. ASSUME NEW b \in Alloc', NEW j \in Ix, tag'[b] = "block",
                 b \in Young \/ b \in mk'.black, fld'[b][j] \in Major
          PROVE  fld'[b][j] \in Safe'
      <4>1. b \in Alloc /\ b \in Addr /\ IsBlock(b)
        BY <1>1, <1>4, <3>1, InvFacts DEF IsBlock
      <4>2. CASE b \in Young \/ b \in mk.black
        <5>1. b \in Safe
          BY <4>1, <4>2, SafeFacts, InvFacts
        <5>. QED BY <2>1, <3>1, <4>1, <5>1 DEF Values
      <4>3. CASE b \in mk'.black \ mk.black
        <5>1. b \in Major
          BY <4>3, TypePartsNext DEF MarkState
        <5>2. <<b, j>> \in Pending(mk') \/ fld'[b][j] \in mk'.black
          BY <1>6, <3>1, <4>1, <4>3, <5>1 DEF Grown
        <5>3. Pending(mk') = Pending(mk)'
          BY <1>1 DEF Pending, IsBlock
        <5>4. Marking'
          BY <1>1, <2>3 DEF Marking
        <5>. QED BY <1>5, <1>8, <3>1, <5>1, <5>2, <5>3, <5>4, ProtectedFactsNext, SafeFactsNext
      <4>. QED BY <3>1, <4>2, <4>3
    <3>2. Marking'
      BY <1>1, <2>3 DEF Marking
    <3>. QED BY <1>5, <1>8, <3>1, <3>2, MarkedBlocks
  <2>. QED BY <2>2, <2>3
<1>12. FinsSafe' /\ RootsSafe'
  BY <1>1, <1>4, <1>10, FinsKept, InvFacts DEF RootsSafe
<1>13. Lists'
  BY <1>1, <1>10, InvFacts DEF Lists, IsEphe, Ephes, Marking, MarkPhases
<1>14. EphesSafe'
  <2>1. \A e \in Addr, j \in Ix : IsEphe(e) => fld'[e][j] = fld[e][j]
    BY <1>2, <1>3 DEF IsEphe
  <2>2. /\ eph.checked \subseteq Addr /\ eph.skipped \subseteq Addr
        /\ \A e \in eph.checked \cup eph.skipped : IsEphe(e)
    BY InvFacts, TypeParts DEF ListTypes, Lists, Ephes
  <2>3. mk'.pure => mk.pure /\ mk'.black = mk.black
    BY <1>6 DEF Grown
  <2>4. Marking => EphesSafe'
    <3>. SUFFICES ASSUME Marking PROVE EphesSafe'
      OBVIOUS
    <3>1. Safe \subseteq Safe' /\ Marking' /\ phase' \in MarkPhases
      BY <1>1, <1>10 DEF Marking
    <3>2. \A e \in eph.checked \cup eph.skipped :
            e \in Addr /\ fld'[e][Data] = fld[e][Data] /\ fld'[e][Key] = fld[e][Key]
      BY <2>1, <2>2
    <3>3. \A e \in eph.checked : fld'[e][Data] \in Safe' \cup {Unit}
      BY <3>1, <3>2, InvFacts DEF EphesSafe, Values
    <3>4. mk'.pure =>
            \A e \in eph.skipped : \/ fld'[e][Data] \in Safe' \cup {Unit}
                                   \/ e \in White(mk') \/ fld'[e][Key] \in White(mk')
      BY <2>3, <3>1, <3>2, InvFacts DEF EphesSafe, Values, White
    <3>. QED BY <1>1, <3>1, <3>3, <3>4 DEF EphesSafe, MarkPhases, Values, White
  <2>5. ~Marking => EphesSafe'
    <3>. SUFFICES ASSUME ~Marking PROVE EphesSafe'
      OBVIOUS
    <3>1. Safe' = Safe /\ Safe \subseteq Addr /\ ~Marking'
      BY <1>1, <1>10, InvFacts DEF Marking
    <3>2. /\ \A e \in Safe, j \in Ix : tag[e] = "ephe" => fld'[e][j] = fld[e][j]
          /\ \A e \in eph.checked, j \in Ix : fld'[e][j] = fld[e][j]
      BY <2>1, <2>2, <3>1 DEF IsEphe
    <3>3. phase = "clean" =>
            \A e \in Safe : tag[e] = "ephe" /\ fld'[e][Key] \in Safe \cup {Unit}
                           => fld'[e][Data] \in Safe \cup {Unit}
      BY <3>2, AddressFacts, InvFacts DEF EphesSafe, Values, IsEphe
    <3>4. phase = "clean" => \A e \in eph.checked, j \in Ix : fld'[e][j] \in Safe \cup {Unit}
      BY <3>2, InvFacts DEF EphesSafe, Values
    <3>5. phase = "sweep" =>
            \A e \in Safe, j \in Ix : tag[e] = "ephe" => fld'[e][j] \in Safe \cup {Unit}
      BY <3>2, InvFacts DEF EphesSafe, Values, IsEphe
    <3>. QED BY <1>1, <3>1, <3>3, <3>4, <3>5 DEF EphesSafe, Values, IsEphe
  <2>. QED BY <2>4, <2>5
<1>15. Tables'
  <2>1. refs' = refs \/ (refs' = refs \cup {<<a, i>>} /\ v \in Young /\ a \in Major)
    BY <1>0, <1>2
  <2>2. refs' # refs => ~YoungEmpty
    <3>1. ASSUME v \in Young PROVE tag[v] # "free"
      <4>1. v \in Alloc
        BY <1>2, <3>1 DEF Values
      <4>. QED BY <4>1 DEF Alloc
    <3>. QED BY <2>1, <3>1 DEF YoungEmpty
  <2>3. ASSUME a \in Major, v \in Young PROVE <<a, i>> \in refs'
    <3>1. ASSUME old \in Young PROVE <<a, i>> \in refs
      <4>1. Remembered /\ tag[a] # "ephe"
        BY <1>2, InvFacts DEF Tables
      <4>. QED BY <2>3, <3>1, <4>1 DEF Remembered
    <3>2. old \in Young => <<a, i>> \in refs'
      BY <2>1, <3>1
    <3>3. old \notin Young => <<a, i>> \in refs'
      BY <1>0, <2>3
    <3>. QED BY <3>2, <3>3
  <2>4. \A b \in Major, j \in Ix :
          fld'[b][j] \in Young => <<b, j>> \in (IF tag'[b] = "ephe" THEN epheRefs' ELSE refs')
    BY <1>1, <1>2, <1>3, <2>1, <2>3, InvFacts DEF Tables, Remembered
  <2>5. Remembered'
    BY <1>1, <1>2, <2>1, <2>4, InvFacts DEF Tables, Remembered, IsBlock, Ephes
  <2>6. \A r \in refs' \cup epheRefs' : r[1] \in Safe'
    <3>1. \A r \in refs \cup epheRefs : r[1] \in Safe'
      BY <1>10, InvFacts DEF Tables
    <3>2. a \in Safe'
      BY <1>2, <1>10
    <3>. QED BY <1>1, <2>1, <3>1, <3>2
  <2>7. YoungEmpty' => refs' = {} /\ epheRefs' = {}
    BY <1>1, <1>4, <2>2, InvFacts DEF Tables
  <2>. QED BY <2>5, <2>6, <2>7 DEF Tables
<1>. QED BY <1>5, <1>8, <1>11, <1>12, <1>13, <1>14, <1>15 DEF GCInv

\* A step that rewrites the fields of an ephemeron the program holds, or darkens
\* a value of the heap, and leaves its key alone while marking.
LEMMA EpheStep ==
  ASSUME GCInv, GCTypeOK', UNCHANGED <<tag, refs, phase, eph, hp, fin>>,
         NEW e \in HeldEphes,
         \A a \in Addr : a # e => fld'[a] = fld[a],
         \A i \in Ix : fld'[e][i] = fld[e][i] \/ fld'[e][i] \in Values(Safe),
         Marking => fld'[e][Key] = fld[e][Key],
         mk' = mk \/ (Marking /\ \E v \in Values(Alloc) : mk' = caml_darken(fld, v, mk)),
         phase = "clean" =>
           (fld'[e][Key] \in Values(Safe) => fld'[e][Data] \in Values(Safe)),
         epheRefs \subseteq epheRefs', epheRefs' \subseteq epheRefs \cup ({e} \X Ix),
         \A i \in Ix : fld'[e][i] \in Young => <<e, i>> \in epheRefs',
         YoungEmpty => epheRefs' = epheRefs,
         \A v \in roots' : v \in Safe \/ v \in mk'.black
  PROVE  GCInv'
<1>. USE AddressFacts
<1>1. e \in Safe /\ e \in Major /\ e \in Addr /\ tag[e] = "ephe" /\ IsEphe(e)
  BY InvFacts, AllocFacts DEF HeldEphes, IsEphe
<1>2. Alloc' = Alloc /\ (YoungEmpty' <=> YoungEmpty)
  BY DEF Alloc, YoungEmpty
<1>3. /\ StackOK(mk') /\ Grown(fld, mk, mk') /\ mk'.black \subseteq Alloc
      /\ ~Marking => mk' = mk
  <2>1. CASE mk' = mk
    BY <2>1, InvFacts DEF Grown, Colours
  <2>2. ASSUME NEW v \in Values(Alloc), mk' = caml_darken(fld, v, mk), Marking
        PROVE  StackOK(mk') /\ Grown(fld, mk, mk') /\ mk'.black \subseteq Alloc
    <3>1. mk \in MarkState /\ StackOK(mk) /\ mk.black \subseteq Alloc
      BY InvFacts DEF Colours
    <3>2. /\ StackOK(mk') /\ Grown(fld, mk, mk') /\ mk'.black \subseteq mk.black \cup {v}
      BY <2>2, <3>1, DarkenGrows
    <3>3. mk'.black \subseteq Major
      BY TypePartsNext DEF MarkState
    <3>. QED BY <3>1, <3>2, <3>3 DEF Values
  <2>. QED BY <2>1, <2>2
<1>4. StackOK(mk)' /\ Pending(mk') = Pending(mk)'
  BY <1>3 DEF StackOK, IsBlock, Pending
<1>5. Colours'
  BY <1>2, <1>3, <1>4, InvFacts DEF Colours, Marking, MarkPhases
<1>6. HeapClosed'
  <2>1. ASSUME NEW b \in Alloc, NEW j \in Ix, phase # "sweep" PROVE fld'[b][j] \in Values(Alloc)
    <3>1. fld[b][j] \in Values(Alloc) /\ b \in Addr
      BY <2>1, InvFacts DEF HeapClosed
    <3>. QED BY <3>1, InvFacts DEF Values
  <2>. QED BY <1>2, <2>1 DEF HeapClosed, Values
<1>7. mk.black \subseteq mk'.black
  BY <1>3 DEF Grown
<1>8. Safe \subseteq Safe' /\ (~Marking => Safe' = Safe)
  <2>1. \A b \in Major : IsBlock(b) => b # e /\ tag'[b] = "block"
    BY <1>1 DEF IsBlock
  <2>2. Protected \subseteq Protected'
    <3>1. \A b \in Major, j \in Ix : IsBlock(b) => fld'[b][j] = fld[b][j]
      BY <2>1
    <3>2. \A b \in Major, j \in Ix :
            /\ IsBlock(b) /\ fld[b][j] \in Major
            /\ <<b, j>> \in Pending(mk) \/ b \in mk'.black \ mk.black
            => <<b, j>> \in Pending(mk)' \/ fld[b][j] \in mk'.black
      BY <1>3, <1>4 DEF Grown
    <3>. QED BY <1>7, <2>1, <3>1, <3>2, ProtectedGrows, InvFacts
  <2>3. Safe \subseteq Safe'
    BY <1>2, <1>7, <2>2, SafeGrows
  <2>4. Safe' \subseteq Alloc
    BY <1>2, <1>5, <1>6, SafeFactsNext
  <2>5. ~Marking => Safe' \cap Alloc \subseteq Safe
    BY <1>3, SafeUnmarked
  <2>. QED BY <2>3, <2>4, <2>5
<1>9. \A b \in Addr, j \in Ix : IsBlock(b) => fld'[b][j] = fld[b][j]
  BY <1>1 DEF IsBlock
<1>10. BlocksSafe'
  <2>1. ASSUME NEW b \in Safe, NEW j \in Ix, IsBlock(b) PROVE fld'[b][j] \in Values(Safe')
    <3>1. fld[b][j] \in Values(Safe) /\ b \in Addr
      BY <2>1, InvFacts DEF BlocksSafe
    <3>. QED BY <1>8, <1>9, <2>1, <3>1 DEF Values
  <2>2. CASE ~Marking
    BY <1>8, <2>1, <2>2 DEF BlocksSafe, IsBlock, Values
  <2>3. CASE Marking
    <3>0. Marking'
      BY <2>3 DEF Marking
    <3>1. ASSUME NEW b \in Alloc', NEW j \in Ix, tag'[b] = "block",
                 b \in Young \/ b \in mk'.black, fld'[b][j] \in Major
          PROVE  fld'[b][j] \in Safe'
      <4>1. b \in Alloc /\ b \in Addr /\ IsBlock(b)
        BY <1>2, <3>1, InvFacts DEF IsBlock
      <4>2. CASE b \in Young \/ b \in mk.black
        <5>1. b \in Safe
          BY <4>1, <4>2, SafeFacts, InvFacts
        <5>. QED BY <2>1, <3>1, <4>1, <5>1 DEF Values
      <4>3. CASE b \in mk'.black \ mk.black
        <5>1. b \in Major
          BY <4>3, TypePartsNext DEF MarkState
        <5>2. <<b, j>> \in Pending(mk') \/ fld'[b][j] \in mk'.black
          BY <1>3, <1>9, <3>1, <4>1, <4>3, <5>1 DEF Grown
        <5>3. CASE <<b, j>> \in Pending(mk)'
          <6>1. fld'[b][j] \in Protected'
            BY <3>1, <5>1, <5>3, ProtectedFactsNext
          <6>. QED BY <1>5, <1>6, <3>0, <6>1, SafeFactsNext
        <5>4. CASE fld'[b][j] \in mk'.black
          BY <1>5, <1>6, <5>4, SafeFactsNext
        <5>. QED BY <1>4, <5>2, <5>3, <5>4
      <4>. QED BY <3>1, <4>2, <4>3
    <3>. QED BY <1>5, <1>6, <3>0, <3>1, MarkedBlocks
  <2>. QED BY <2>2, <2>3
<1>11. FinsSafe' /\ RootsSafe' /\ Lists'
  <2>1. FinsSafe'
    BY <1>2, <1>8, FinsKept, InvFacts
  <2>2. RootsSafe'
    BY <1>5, <1>6, <1>8, SafeFactsNext DEF RootsSafe
  <2>3. Lists'
    BY <1>8, InvFacts DEF Lists, IsEphe, Ephes, Marking, MarkPhases
  <2>. QED BY <2>1, <2>2, <2>3
<1>12. EphesSafe'
  <2>1. /\ eph.checked \subseteq Addr /\ eph.skipped \subseteq Addr
    BY InvFacts, TypeParts DEF ListTypes
  <2>2. mk'.pure => mk.pure /\ mk'.black = mk.black
    BY <1>3 DEF Grown
  <2>3. \A b \in Addr, j \in Ix : fld'[b][j] = fld[b][j] \/ fld'[b][j] \in Values(Safe')
    BY <1>8 DEF Values
  <2>4. Marking => \A b \in Addr : fld'[b][Key] = fld[b][Key]
    OBVIOUS
  <2>5. Marking => EphesSafe'
    <3>. SUFFICES ASSUME Marking PROVE EphesSafe'
      OBVIOUS
    <3>1. \A b \in eph.checked : fld'[b][Data] \in Values(Safe')
      BY <1>8, <2>1, <2>3, InvFacts DEF EphesSafe, Values
    <3>2. mk'.pure =>
            \A b \in eph.skipped : fld'[b][Data] \in Values(Safe') \/ b \in Major \ mk'.black
                                   \/ fld'[b][Key] \in Major \ mk'.black
      BY <1>8, <2>1, <2>2, <2>3, <2>4, InvFacts DEF EphesSafe, Values, White
    <3>. QED BY <3>1, <3>2 DEF EphesSafe, Marking, MarkPhases, Values, White
  <2>6. ~Marking => EphesSafe'
    <3>. SUFFICES ASSUME ~Marking PROVE EphesSafe'
      OBVIOUS
    <3>1. Safe' = Safe /\ Safe \subseteq Addr /\ ~Marking'
      BY <1>8, InvFacts DEF Marking
    <3>2. phase = "clean" =>
            \A b \in Safe : tag[b] = "ephe" /\ fld'[b][Key] \in Safe \cup {Unit}
                           => fld'[b][Data] \in Safe \cup {Unit}
      BY <3>1, InvFacts DEF EphesSafe, Values, IsEphe
    <3>3. phase = "clean" => \A b \in eph.checked, j \in Ix : fld'[b][j] \in Safe \cup {Unit}
      BY <2>1, <2>3, <3>1, InvFacts DEF EphesSafe, Values
    <3>4. phase = "sweep" =>
            \A b \in Safe, j \in Ix : tag[b] = "ephe" => fld'[b][j] \in Safe \cup {Unit}
      BY <2>3, <3>1, InvFacts DEF EphesSafe, Values, IsEphe
    <3>. QED BY <3>1, <3>2, <3>3, <3>4 DEF EphesSafe, Values, IsEphe
  <2>. QED BY <2>5, <2>6
<1>13. Tables'
  <2>1. e \in Ephes
    BY <1>1, InvFacts DEF Lists
  <2>2. \A b \in Major, j \in Ix :
          fld'[b][j] \in Young => <<b, j>> \in (IF tag'[b] = "ephe" THEN epheRefs' ELSE refs')
    BY <1>1, InvFacts DEF Tables, Remembered
  <2>3. Remembered'
    BY <1>1, <2>1, <2>2, InvFacts DEF Tables, Remembered, IsBlock, Ephes
  <2>. QED BY <1>1, <1>2, <1>8, <2>3, InvFacts DEF Tables
<1>. QED BY <1>5, <1>6, <1>10, <1>11, <1>12, <1>13 DEF GCInv

\* What do_check_key_clean leaves in an ephemeron may be given to the program.
LEMMA CheckedFields ==
  ASSUME GCInv, NEW e \in HeldEphes
  PROVE  LET g == do_check_key_clean(e) IN
         /\ g \in [Addr -> [Ix -> Field]] /\ e \in Major
         /\ \A a \in Addr : a # e => g[a] = fld[a]
         /\ \A i \in Ix : g[e][i] = fld[e][i] \/ g[e][i] = Unit
         /\ phase # "clean" => g = fld
         /\ \A i \in Ix : g[e][i] \in Values(Alloc)
         /\ ~Marking => \A i \in Ix : g[e][i] \in Values(Safe)
         /\ \A i \in Ix : g[e][i] \in Young => <<e, i>> \in epheRefs
<1>. USE AddressFacts
<1>. DEFINE g == do_check_key_clean(e)
<1>1. e \in Safe /\ e \in Major /\ e \in Addr /\ e \in Alloc /\ tag[e] = "ephe" /\ IsEphe(e)
  BY InvFacts, AllocFacts DEF HeldEphes, IsEphe
<1>2. fld \in [Addr -> [Ix -> Field]]
  BY InvFacts, TypeParts DEF HeapTypes
<1>3. g = fld \/ g = [fld EXCEPT ![e] = Blank]
  BY DEF do_check_key_clean, caml_ephe_clean
<1>4. phase # "clean" => g = fld
  BY DEF do_check_key_clean
<1>5. phase = "clean" => fld[e][Key] \notin White(mk) \/ \A i \in Ix : g[e][i] = Unit
  <2>. SUFFICES ASSUME phase = "clean", fld[e][Key] \in White(mk)
                PROVE  \A i \in Ix : g[e][i] = Unit
    OBVIOUS
  <2>1. g = [fld EXCEPT ![e] = Blank]
    BY DEF do_check_key_clean, caml_ephe_clean
  <2>. HIDE DEF g
  <2>. QED BY <1>1, <1>2, <2>1, BlankFields
<1>. HIDE DEF g
<1>6. /\ g \in [Addr -> [Ix -> Field]] /\ \A a \in Addr : a # e => g[a] = fld[a]
      /\ \A i \in Ix : g[e][i] = fld[e][i] \/ g[e][i] = Unit
  BY <1>1, <1>2, <1>3, BlankFields
<1>7. phase # "sweep" => \A i \in Ix : fld[e][i] \in Values(Alloc)
  BY <1>1, InvFacts DEF HeapClosed
<1>8. phase = "idle" => Safe = Alloc
  BY InvFacts, SafeFacts
<1>9. ASSUME phase = "clean" PROVE \A i \in Ix : g[e][i] \in Values(Safe)
  <2>1. CASE fld[e][Key] \notin White(mk)
    <3>1. fld[e][Key] \in Values(Alloc)
      BY <1>7, <1>9
    <3>2. fld[e][Key] \in Values(Safe)
      BY <2>1, <3>1, InvFacts, SafeFacts DEF Values, White
    <3>3. fld[e][Data] \in Values(Safe)
      BY <1>1, <1>9, <3>2, InvFacts DEF EphesSafe
    <3>. QED BY <1>6, <3>2, <3>3 DEF Values
  <2>. QED BY <1>5, <1>9, <2>1 DEF Values
<1>10. phase = "sweep" => \A i \in Ix : fld[e][i] \in Values(Safe)
  BY <1>1, InvFacts DEF EphesSafe
<1>11. \A i \in Ix : g[e][i] \in Values(Alloc)
  BY <1>6, <1>7, <1>10, InvFacts DEF Values
<1>12. ~Marking => \A i \in Ix : g[e][i] \in Values(Safe)
  <2>1. phase \in Phases
    BY InvFacts, TypeParts DEF PhaseTypes
  <2>. QED BY <1>4, <1>7, <1>8, <1>9, <1>10, <2>1 DEF Phases, Marking, MarkPhases
<1>13. \A i \in Ix : g[e][i] \in Young => <<e, i>> \in epheRefs
  BY <1>1, <1>6, InvFacts DEF Tables, Remembered
<1>. QED BY <1>1, <1>4, <1>6, <1>11, <1>12, <1>13 DEF g

\* do_set of a value the program holds; the key is left alone while marking.
LEMMA SetStep ==
  ASSUME GCInv, GCTypeOK', UNCHANGED <<tag, roots, refs, phase, mk, eph, hp, fin>>,
         NEW e \in HeldEphes, NEW i \in Ix, NEW v \in roots,
         do_set(do_check_key_clean(e), e, i, v), Marking => i = Data
  PROVE  GCInv'
<1>. USE AddressFacts
<1>. DEFINE g == do_check_key_clean(e)
<1>1. /\ g \in [Addr -> [Ix -> Field]] /\ e \in Major /\ e \in Addr
      /\ \A a \in Addr : a # e => g[a] = fld[a]
      /\ \A j \in Ix : g[e][j] = fld[e][j] \/ g[e][j] = Unit
      /\ phase # "clean" => g = fld
      /\ ~Marking => \A j \in Ix : g[e][j] \in Values(Safe)
      /\ \A j \in Ix : g[e][j] \in Young => <<e, j>> \in epheRefs
  BY CheckedFields
<1>2. /\ fld' = [g EXCEPT ![e][i] = v]
      /\ epheRefs' = IF v \in Young /\ g[e][i] \notin Young
                       THEN epheRefs \cup {<<e, i>>} ELSE epheRefs
  BY DEF do_set
<1>. HIDE DEF g
<1>3. v \in Safe /\ v \in Alloc
  BY InvFacts
<1>4. /\ fld'[e][i] = v /\ \A j \in Ix : j # i => fld'[e][j] = g[e][j]
      /\ \A a \in Addr : a # e => fld'[a] = fld[a]
  BY <1>1, <1>2
<1>5. \A j \in Ix : fld'[e][j] = fld[e][j] \/ fld'[e][j] \in Values(Safe)
  BY <1>1, <1>3, <1>4 DEF Values
<1>6. Marking => fld'[e][Key] = fld[e][Key]
  BY <1>1, <1>4 DEF Marking, MarkPhases
<1>7. phase = "clean" => fld'[e][Data] \in Values(Safe)
  BY <1>1, <1>3, <1>4 DEF Values, Marking, MarkPhases
<1>8. /\ epheRefs \subseteq epheRefs' /\ epheRefs' \subseteq epheRefs \cup ({e} \X Ix)
      /\ \A j \in Ix : fld'[e][j] \in Young => <<e, j>> \in epheRefs'
  BY <1>1, <1>2, <1>4
<1>9. YoungEmpty => epheRefs' = epheRefs
  BY <1>2, <1>3, AllocFacts, InvFacts DEF YoungEmpty
<1>. QED BY <1>4, <1>5, <1>6, <1>7, <1>8, <1>9, InvFacts, EpheStep

\* A field of an ephemeron is removed; not its key while marking.
LEMMA UnsetStep ==
  ASSUME GCInv, GCTypeOK', UNCHANGED <<tag, roots, tables, phase, mk, eph, hp, fin>>,
         NEW e \in HeldEphes, NEW i \in Ix,
         \/ fld' = [fld EXCEPT ![e][i] = Unit] /\ i = Data
         \/ fld' = [do_check_key_clean(e) EXCEPT ![e][i] = Unit] /\ ~Marking
  PROVE  GCInv'
<1>. USE AddressFacts
<1>. DEFINE g == do_check_key_clean(e)
<1>1. /\ g \in [Addr -> [Ix -> Field]] /\ e \in Major /\ e \in Addr
      /\ \A a \in Addr : a # e => g[a] = fld[a]
      /\ ~Marking => \A j \in Ix : g[e][j] \in Values(Safe)
      /\ \A j \in Ix : g[e][j] \in Young => <<e, j>> \in epheRefs
  BY CheckedFields
<1>. HIDE DEF g
<1>2. fld \in [Addr -> [Ix -> Field]] /\ UNCHANGED <<refs, epheRefs>>
  BY InvFacts, TypeParts DEF HeapTypes, tables
<1>3. \A j \in Ix : fld[e][j] \in Young => <<e, j>> \in epheRefs
  BY <1>1, InvFacts DEF HeldEphes, Tables, Remembered
<1>4. CASE fld' = [fld EXCEPT ![e][i] = Unit] /\ i = Data
  <2>1. /\ fld'[e][Data] = Unit /\ fld'[e][Key] = fld[e][Key]
        /\ \A a \in Addr : a # e => fld'[a] = fld[a]
    BY <1>1, <1>2, <1>4
  <2>2. \A j \in Ix : fld'[e][j] = fld[e][j] \/ fld'[e][j] \in Values(Safe)
    BY <2>1 DEF Values
  <2>3. phase = "clean" => fld'[e][Data] \in Values(Safe)
    BY <2>1 DEF Values
  <2>4. \A j \in Ix : fld'[e][j] \in Young => <<e, j>> \in epheRefs'
    BY <1>2, <1>3, <2>1
  <2>. QED BY <1>2, <2>1, <2>2, <2>3, <2>4, InvFacts, EpheStep
<1>5. CASE fld' = [g EXCEPT ![e][i] = Unit] /\ ~Marking
  <2>1. /\ fld'[e][i] = Unit /\ \A j \in Ix : j # i => fld'[e][j] = g[e][j]
        /\ \A a \in Addr : a # e => fld'[a] = fld[a]
    BY <1>1, <1>5
  <2>2. \A j \in Ix : fld'[e][j] \in Values(Safe)
    BY <1>1, <1>5, <2>1 DEF Values
  <2>3. \A j \in Ix : fld'[e][j] \in Young => <<e, j>> \in epheRefs'
    BY <1>1, <1>2, <2>1
  <2>. QED BY <1>2, <1>5, <2>1, <2>2, <2>3, InvFacts, EpheStep
<1>. QED BY <1>4, <1>5 DEF g

\* caml_ephemeron_get_key and caml_ephemeron_get_data
LEMMA GetStep ==
  ASSUME GCInv, GCTypeOK', NEW i \in Ix, caml_ephemeron_get(i)
  PROVE  GCInv'
<1>. USE AddressFacts
<1>0. PICK e \in HeldEphes :
        LET v == do_check_key_clean(e)[e][i] IN
        /\ fld' = do_check_key_clean(e)
        /\ Hold(roots \cup ({v} \ {Unit}))
        /\ mk' = IF Marking THEN caml_darken(fld, v, mk) ELSE mk
  BY DEF caml_ephemeron_get
<1>1. UNCHANGED <<tag, refs, epheRefs, phase, eph, hp, fin>>
  BY DEF caml_ephemeron_get, tables
<1>. DEFINE g == do_check_key_clean(e)
            w == g[e][i]
<1>2. /\ g \in [Addr -> [Ix -> Field]] /\ e \in Major
      /\ \A a \in Addr : a # e => g[a] = fld[a]
      /\ \A j \in Ix : g[e][j] = fld[e][j] \/ g[e][j] = Unit
      /\ phase # "clean" => g = fld
      /\ \A j \in Ix : g[e][j] \in Values(Alloc)
      /\ ~Marking => \A j \in Ix : g[e][j] \in Values(Safe)
      /\ \A j \in Ix : g[e][j] \in Young => <<e, j>> \in epheRefs
  BY CheckedFields
<1>3. /\ fld' = g /\ roots' = roots \cup ({w} \ {Unit})
      /\ mk' = IF Marking THEN caml_darken(fld, w, mk) ELSE mk
  BY <1>0 DEF Hold
<1>4. w \in Values(Alloc) /\ (~Marking => w \in Values(Safe))
  BY <1>2
<1>. HIDE DEF g, w
<1>5. mk' = mk \/ (Marking /\ \E v \in Values(Alloc) : mk' = caml_darken(fld, v, mk))
  BY <1>3, <1>4
<1>6. \A v \in roots' : v \in Safe \/ v \in mk'.black
  <2>1. \A v \in roots : v \in Safe
    BY InvFacts
  <2>2. CASE ~Marking
    BY <1>3, <1>4, <2>1, <2>2 DEF Values
  <2>3. CASE Marking
    <3>1. w \in Young => w \in Safe
      BY <1>4, InvFacts, SafeFacts DEF Values
    <3>2. w \in Major => w \in mk'.black
      BY <1>3, <2>3, InvFacts, DarkenGrows
    <3>. QED BY <1>3, <1>4, <2>1, <3>1, <3>2, InvFacts DEF Values
  <2>. QED BY <2>2, <2>3
<1>7. /\ \A j \in Ix : fld'[e][j] = fld[e][j] \/ fld'[e][j] \in Values(Safe)
      /\ Marking => fld'[e][Key] = fld[e][Key]
      /\ phase = "clean" => fld'[e][Data] \in Values(Safe)
  BY <1>2, <1>3 DEF Values, Marking, MarkPhases
<1>8. (\A a \in Addr : a # e => fld'[a] = fld[a])
      /\ \A j \in Ix : fld'[e][j] \in Young => <<e, j>> \in epheRefs'
  BY <1>1, <1>2, <1>3
<1>. QED BY <1>1, <1>5, <1>6, <1>7, <1>8, EpheStep

\* The program edits no key while the collector marks.
KeysKeptWhileMarking == KeyEditPhases \cap MarkPhases = {}

LEMMA EphemeronSteps ==
  ASSUME GCInv, GCTypeOK', KeysKeptWhileMarking,
         \/ caml_ephemeron_set_key \/ caml_ephemeron_unset_key
         \/ caml_ephemeron_set_data \/ caml_ephemeron_unset_data
         \/ \E i \in Ix : caml_ephemeron_get(i)
  PROVE  GCInv'
<1>. USE AddressFacts
<1>1. CASE caml_ephemeron_set_key
  <2>1. ~Marking
    BY <1>1 DEF caml_ephemeron_set_key, KeysKeptWhileMarking, Marking
  <2>2. PICK e \in HeldEphes, k \in roots : do_set(do_check_key_clean(e), e, Key, k)
    BY <1>1 DEF caml_ephemeron_set_key
  <2>. QED BY <1>1, <2>1, <2>2, SetStep DEF caml_ephemeron_set_key
<1>2. CASE caml_ephemeron_unset_key
  <2>1. ~Marking
    BY <1>2 DEF caml_ephemeron_unset_key, KeysKeptWhileMarking, Marking
  <2>2. PICK e \in HeldEphes : fld' = [do_check_key_clean(e) EXCEPT ![e][Key] = Unit]
    BY <1>2 DEF caml_ephemeron_unset_key
  <2>. QED BY <1>2, <2>1, <2>2, UnsetStep DEF caml_ephemeron_unset_key
<1>3. CASE caml_ephemeron_set_data
  <2>2. PICK e \in HeldEphes, d \in roots : do_set(do_check_key_clean(e), e, Data, d)
    BY <1>3 DEF caml_ephemeron_set_data
  <2>. QED BY <1>3, <2>2, SetStep DEF caml_ephemeron_set_data
<1>4. CASE caml_ephemeron_unset_data
  <2>2. PICK e \in HeldEphes : fld' = [fld EXCEPT ![e][Data] = Unit]
    BY <1>4 DEF caml_ephemeron_unset_data
  <2>. QED BY <1>4, <2>2, UnsetStep DEF caml_ephemeron_unset_data
<1>. QED BY <1>1, <1>2, <1>3, <1>4, GetStep

\* caml_allocation_color keeps the new block n, and changes nothing else of the
\* marking.
LEMMA NewColour ==
  ASSUME mk \in MarkState, phase \in Phases, hp \in Nat, NEW n \in Major,
         NEW c, c = Coloured({n})
  PROVE  /\ c.stack = mk.stack /\ c.redarken = mk.redarken /\ c.pure = mk.pure
         /\ mk.black \subseteq c.black /\ c.black \subseteq mk.black \cup {n}
         /\ phase = "idle" => c.black = mk.black
         /\ Marking \/ phase = "clean" => n \in c.black
         /\ phase = "sweep" /\ n >= hp => n \in c.black
         /\ phase = "sweep" /\ n < hp => c.black = mk.black
<1>. USE AddressFacts
<1>1. /\ c.stack = mk.stack /\ c.redarken = mk.redarken /\ c.pure = mk.pure
      /\ c.black = mk.black \cup {a \in {n} : caml_allocation_color(a) = "black"}
  BY DEF MarkState, Coloured
<1>2. caml_allocation_color(n) = "black" <=>
        phase \in MarkPhases \cup {"clean"} \/ (phase = "sweep" /\ n >= hp)
  BY DEF caml_allocation_color
<1>3. caml_allocation_color(n) = "black" => c.black = mk.black \cup {n}
  BY <1>1
<1>4. caml_allocation_color(n) # "black" => c.black = mk.black
  BY <1>1
<1>5. CASE phase = "idle"
  BY <1>1, <1>2, <1>4, <1>5 DEF Marking, MarkPhases
<1>6. CASE phase \in MarkPhases \cup {"clean"}
  BY <1>1, <1>2, <1>3, <1>6 DEF Marking, MarkPhases
<1>7. CASE phase = "sweep"
  <2>1. n < hp => ~(n >= hp)
    OBVIOUS
  <2>. QED BY <1>1, <1>2, <1>3, <1>4, <1>7, <2>1 DEF Marking, MarkPhases
<1>. QED BY <1>5, <1>6, <1>7 DEF Phases, MarkPhases

\* A block or an ephemeron is made of a free address n, with fields the program
\* holds.
LEMMA AllocStep ==
  ASSUME GCInv, GCTypeOK', UNCHANGED <<phase, hp, fin, epheRefs>>,
         NEW n \in Addr, n \notin Alloc, NEW k \in {"block", "ephe"},
         tag' = [tag EXCEPT ![n] = k],
         \A a \in Addr : a # n => fld'[a] = fld[a],
         \A i \in Ix : fld'[n][i] \in Held,
         k = "ephe" => n \in Major /\ fld' = fld,
         mk' = IF n \in Major THEN Coloured({n}) ELSE mk,
         roots' = roots \cup {n},
         refs \subseteq refs',
         \A r \in refs' \ refs : r[1] = n /\ k = "block" /\ r[2] \in Ix /\ fld'[n][r[2]] \in Young,
         n \in Major => \A i \in Ix : fld'[n][i] \in Young => <<n, i>> \in refs',
         /\ eph.checked \subseteq eph'.checked /\ eph'.checked \subseteq eph.checked \cup {n}
         /\ eph.skipped \subseteq eph'.skipped /\ eph'.skipped \subseteq eph.skipped \cup {n}
         /\ eph.toCheck \subseteq eph'.toCheck /\ eph'.toCheck \subseteq eph.toCheck \cup {n},
         k = "ephe" => n \in Ephes',
         k = "block" => eph' = eph,
         eph.skipped = {} => eph'.skipped = {}
  PROVE  GCInv'
<1>. USE AddressFacts
<1>1. /\ tag \in [Addr -> {"free", "block", "ephe"}] /\ tag'[n] = k
      /\ \A a \in Addr : a # n => tag'[a] = tag[a]
  BY InvFacts, TypeParts DEF HeapTypes
<1>2. Alloc' = Alloc \cup {n} /\ Alloc \subseteq Addr
  BY <1>1 DEF Alloc
<1>3. /\ mk \in MarkState /\ phase \in Phases /\ hp \in Nat /\ n \in Nat /\ mk.black \subseteq Alloc
      /\ mk' \in MarkState /\ StackOK(mk)
  <2>1. n \in Nat
    OBVIOUS
  <2>2. hp \in Nat
    <3>1. hp \in 1 .. NMajor + 1
      BY InvFacts, TypeParts DEF PhaseTypes
    <3>. QED BY <3>1
  <2>. QED BY <2>1, <2>2, InvFacts, TypeParts, TypePartsNext DEF PhaseTypes, Colours
<1>4. /\ mk'.stack = mk.stack /\ mk'.redarken = mk.redarken /\ mk'.pure = mk.pure
      /\ mk.black \subseteq mk'.black /\ mk'.black \subseteq mk.black \cup {n}
      /\ mk'.black # mk.black => n \in Major
      /\ phase = "idle" => mk'.black = mk.black
      /\ n \in Major /\ (Marking \/ phase = "clean") => n \in mk'.black
      /\ phase = "sweep" /\ n >= hp /\ n \in Major => n \in mk'.black
      /\ phase = "sweep" /\ n < hp => mk'.black = mk.black
  <2>1. CASE n \in Major
    <3>1. mk' = Coloured({n})
      BY <2>1
    <3>2. /\ mk'.stack = mk.stack /\ mk'.redarken = mk.redarken /\ mk'.pure = mk.pure
          /\ mk.black \subseteq mk'.black /\ mk'.black \subseteq mk.black \cup {n}
          /\ phase = "idle" => mk'.black = mk.black
          /\ Marking \/ phase = "clean" => n \in mk'.black
          /\ phase = "sweep" /\ n >= hp => n \in mk'.black
          /\ phase = "sweep" /\ n < hp => mk'.black = mk.black
      BY <1>3, <2>1, <3>1, NewColour
    <3>. QED BY <2>1, <3>2
  <2>2. CASE n \notin Major
    <3>1. mk' = mk
      BY <2>2
    <3>. QED BY <1>3, <2>2, <3>1
  <2>. QED BY <2>1, <2>2
<1>5. Colours'
  <2>1. mk'.black \subseteq Alloc'
    BY <1>2, <1>3, <1>4
  <2>2. phase = "sweep" => \A a \in mk'.black : a >= hp
    <3>1. phase = "sweep" => \A a \in mk.black : a >= hp
      BY InvFacts DEF Colours
    <3>2. CASE n < hp
      BY <1>4, <3>1, <3>2
    <3>3. CASE n >= hp
      BY <1>4, <3>1, <3>3
    <3>4. n < hp \/ n >= hp
      BY <1>3
    <3>. QED BY <3>2, <3>3, <3>4
  <2>3. StackOK(mk)'
    <3>1. \A e \in mk.stack : e[1] \in mk.black /\ tag[e[1]] = "block"
      BY <1>3 DEF StackOK, IsBlock
    <3>2. \A a \in mk.black : a # n /\ a \in Addr
      BY <1>2, <1>3
    <3>. QED BY <1>1, <1>4, <3>1, <3>2 DEF StackOK, IsBlock
  <2>. QED BY <1>4, <2>1, <2>2, <2>3, InvFacts DEF Colours, Marking
<1>6. \A i \in Ix : fld'[n][i] \in Values(Safe) /\ fld'[n][i] \in Values(Alloc)
  BY InvFacts DEF Values
<1>7. HeapClosed'
  <2>1. ASSUME NEW b \in Alloc', NEW j \in Ix, phase # "sweep" PROVE fld'[b][j] \in Values(Alloc')
    <3>1. CASE b = n
      BY <1>2, <1>6, <3>1 DEF Values
    <3>2. CASE b # n
      <4>1. b \in Alloc /\ fld'[b] = fld[b]
        BY <1>2, <2>1, <3>2
      <4>2. fld[b][j] \in Values(Alloc)
        BY <2>1, <4>1, InvFacts DEF HeapClosed
      <4>. QED BY <1>2, <4>1, <4>2 DEF Values
    <3>. QED BY <3>1, <3>2
  <2>. QED BY <2>1 DEF HeapClosed, Values
<1>8. Protected \subseteq Protected'
  <2>1. \A b \in Major : IsBlock(b) => b # n /\ tag'[b] = "block"
    BY <1>1, InvFacts, AllocFacts DEF IsBlock
  <2>2. \A b \in Major, j \in Ix : IsBlock(b) => fld'[b][j] = fld[b][j]
    BY <2>1
  <2>3. Pending(mk) \subseteq Pending(mk)'
    BY <1>4, <2>1 DEF Pending, IsBlock
  <2>4. \A b \in mk'.black \ mk.black : ~IsBlock(b)
    BY <1>4, <2>1
  <2>. QED BY <1>4, <2>1, <2>2, <2>3, <2>4, ProtectedGrows, InvFacts
<1>9. Safe \subseteq Safe'
  BY <1>2, <1>4, <1>8, SafeGrows
<1>10. n \in Safe'
  <2>1. n \in Alloc' /\ phase' = phase /\ hp' = hp
    BY <1>2
  <2>2. CASE n \in Young
    BY <2>1, <2>2 DEF Safe
  <2>3. CASE n \in mk'.black
    BY <1>5, <1>7, <2>3, SafeFactsNext
  <2>4. CASE n \in Major /\ n \notin mk'.black
    <3>1. phase = "idle" \/ (phase = "sweep" /\ ~(n >= hp))
      BY <1>3, <1>4, <2>4 DEF Phases, Marking, MarkPhases
    <3>2. ~(n >= hp) => n < hp
      BY <1>3
    <3>. QED BY <2>1, <2>4, <3>1, <3>2 DEF Safe, Kept
  <2>. QED BY <2>2, <2>3, <2>4
<1>11. ~Marking => Safe' = Safe \cup {n}
  <2>1. ~Marking => Safe' \cap Alloc \subseteq Safe
    BY <1>4, SafeUnmarked
  <2>2. Safe' \subseteq Alloc'
    BY <1>5, <1>7, SafeFactsNext
  <2>. QED BY <1>2, <1>9, <1>10, <2>1, <2>2
<1>12. \A b \in Safe : b # n /\ b \in Addr /\ tag'[b] = tag[b] /\ fld'[b] = fld[b]
  BY <1>1, InvFacts
<1>13. BlocksSafe'
  <2>1. ASSUME NEW b \in Safe \cup {n}, NEW j \in Ix, tag'[b] = "block"
        PROVE  fld'[b][j] \in Values(Safe')
    <3>1. CASE b = n
      BY <1>6, <1>9, <3>1 DEF Values
    <3>2. CASE b \in Safe
      <4>1. fld[b][j] \in Values(Safe)
        BY <1>12, <2>1, <3>2, InvFacts DEF BlocksSafe, IsBlock
      <4>. QED BY <1>9, <1>12, <3>2, <4>1 DEF Values
    <3>. QED BY <3>1, <3>2
  <2>2. CASE ~Marking
    BY <1>11, <2>1, <2>2 DEF BlocksSafe, IsBlock, Values
  <2>3. CASE Marking
    <3>0. Marking'
      BY <2>3 DEF Marking
    <3>1. ASSUME NEW b \in Alloc', NEW j \in Ix, tag'[b] = "block",
                 b \in Young \/ b \in mk'.black, fld'[b][j] \in Major
          PROVE  fld'[b][j] \in Safe'
      <4>1. b \in Safe \cup {n}
        BY <1>2, <1>4, <3>1, InvFacts, SafeFacts
      <4>. QED BY <2>1, <3>1, <4>1 DEF Values
    <3>. QED BY <1>5, <1>7, <3>0, <3>1, MarkedBlocks
  <2>. QED BY <2>2, <2>3
<1>14. FinsSafe' /\ RootsSafe'
  <2>1. FinsSafe'
    BY <1>2, <1>9, FinsKept, InvFacts
  <2>. QED BY <1>9, <1>10, <2>1, InvFacts DEF RootsSafe
<1>15. Lists'
  <2>1. \A e \in Ephes : e # n /\ e \in Major /\ tag[e] = "ephe" /\ tag'[e] = "ephe"
    <3>1. \A e \in Ephes : e \in Major /\ tag[e] = "ephe"
      BY InvFacts, TypeParts DEF Lists, IsEphe, Ephes, ListTypes
    <3>. QED BY <1>1, <3>1, InvFacts DEF Alloc
  <2>2. Ephes \subseteq Ephes' /\ Ephes' \subseteq Ephes \cup {n}
    BY DEF Ephes
  <2>3. k = "block" => Ephes' = Ephes
    BY DEF Ephes
  <2>4. \A e \in Ephes' : tag'[e] = "ephe"
    BY <1>1, <2>1, <2>2, <2>3
  <2>5. ASSUME NEW e \in Major, tag'[e] = "ephe",
               phase' \in {"clean", "sweep"} => e \in Safe'
        PROVE  e \in Ephes'
    <3>1. CASE e = n
      BY <1>1, <2>5, <3>1
    <3>2. CASE e # n
      <4>1. phase \in {"clean", "sweep"} => e \in Safe
        BY <1>11, <2>5, <3>2 DEF Marking, MarkPhases
      <4>. QED BY <1>1, <2>2, <2>5, <3>2, <4>1, InvFacts DEF Lists, IsEphe
    <3>. QED BY <3>1, <3>2
  <2>6. phase = "clean" => eph'.skipped = {} /\ eph'.checked \subseteq Safe'
    BY <1>9, <1>10, InvFacts DEF Lists
  <2>7. phase = "sweep" => Ephes' \subseteq Safe'
    BY <1>9, <1>10, <2>2, InvFacts DEF Lists
  <2>. QED BY <2>4, <2>5, <2>6, <2>7 DEF Lists, IsEphe
<1>16. EphesSafe'
  <2>1. \A e \in eph.checked \cup eph.skipped : e # n /\ e \in Addr /\ e \in Alloc /\ fld'[e] = fld[e]
    <3>1. \A e \in Ephes : e \in Major /\ tag[e] = "ephe"
      BY InvFacts, TypeParts DEF Lists, IsEphe, Ephes, ListTypes
    <3>. QED BY <3>1, <1>2 DEF Alloc, Ephes
  <2>2. Marking => \A e \in eph'.checked : fld'[e][Data] \in Values(Safe')
    <3>1. Marking => \A e \in eph.checked : fld[e][Data] \in Values(Safe)
      BY InvFacts DEF EphesSafe
    <3>. QED BY <1>6, <1>9, <2>1, <3>1 DEF Values
  <2>3. Marking /\ mk'.pure =>
          \A e \in eph'.skipped : fld'[e][Data] \in Values(Safe') \/ e \in Major \ mk'.black
                                  \/ fld'[e][Key] \in Major \ mk'.black
    <3>. SUFFICES ASSUME Marking, mk'.pure, NEW e \in eph'.skipped
                  PROVE  fld'[e][Data] \in Values(Safe') \/ e \in Major \ mk'.black
                         \/ fld'[e][Key] \in Major \ mk'.black
      OBVIOUS
    <3>1. CASE e = n
      BY <1>6, <1>9, <3>1 DEF Values
    <3>2. CASE e # n
      <4>1. e \in eph.skipped
        BY <3>2
      <4>2. fld[e][Data] \in Values(Safe) \/ e \in Major \ mk.black
            \/ fld[e][Key] \in Major \ mk.black
        BY <1>4, <4>1, InvFacts DEF EphesSafe, White
      <4>3. fld[e][Key] \in Values(Alloc)
        BY <2>1, <4>1, InvFacts DEF HeapClosed, Marking, MarkPhases
      <4>4. fld[e][Key] # n
        BY <4>3 DEF Values
      <4>. QED BY <1>4, <1>9, <2>1, <3>2, <4>1, <4>2, <4>4 DEF Values
    <3>. QED BY <3>1, <3>2
  <2>4. phase = "clean" =>
          \A e \in Safe' : tag'[e] = "ephe" /\ fld'[e][Key] \in Values(Safe')
                           => fld'[e][Data] \in Values(Safe')
    <3>. SUFFICES ASSUME phase = "clean", NEW e \in Safe', tag'[e] = "ephe",
                         fld'[e][Key] \in Values(Safe')
                  PROVE  fld'[e][Data] \in Values(Safe')
      OBVIOUS
    <3>1. Safe' = Safe \cup {n}
      BY <1>11 DEF Marking, MarkPhases
    <3>2. CASE e = n
      BY <1>6, <1>9, <3>2 DEF Values
    <3>3. CASE e \in Safe
      <4>1. fld[e][Key] \in Values(Alloc)
        BY <3>3, InvFacts DEF HeapClosed
      <4>2. fld[e][Key] \in Values(Safe)
        BY <1>12, <3>1, <3>3, <4>1 DEF Values
      <4>3. fld[e][Data] \in Values(Safe)
        BY <1>12, <3>3, <4>2, InvFacts DEF EphesSafe, IsEphe
      <4>. QED BY <1>9, <1>12, <3>3, <4>3 DEF Values
    <3>. QED BY <3>1, <3>2, <3>3
  <2>5. phase = "clean" => \A e \in eph'.checked, j \in Ix : fld'[e][j] \in Values(Safe')
    <3>1. phase = "clean" => \A e \in eph.checked, j \in Ix : fld[e][j] \in Values(Safe)
      BY InvFacts DEF EphesSafe
    <3>. QED BY <1>6, <1>9, <2>1, <3>1 DEF Values
  <2>6. phase = "sweep" =>
          \A e \in Safe', j \in Ix : tag'[e] = "ephe" => fld'[e][j] \in Values(Safe')
    <3>1. phase = "sweep" => Safe' = Safe \cup {n}
      BY <1>11 DEF Marking, MarkPhases
    <3>2. phase = "sweep" => \A e \in Safe, j \in Ix : tag[e] = "ephe" => fld[e][j] \in Values(Safe)
      BY InvFacts DEF EphesSafe, IsEphe
    <3>. QED BY <1>6, <1>9, <1>12, <3>1, <3>2 DEF Values
  <2>. QED BY <2>2, <2>3, <2>4, <2>5, <2>6 DEF EphesSafe, IsEphe, Marking, White, Values
<1>17. Tables'
  <2>1. ASSUME NEW b \in Major, NEW j \in Ix, fld'[b][j] \in Young
        PROVE  <<b, j>> \in (IF tag'[b] = "ephe" THEN epheRefs' ELSE refs')
    <3>1. CASE b # n
      <4>1. fld[b][j] \in Young /\ tag'[b] = tag[b]
        BY <1>1, <2>1, <3>1
      <4>. QED BY <4>1, InvFacts DEF Tables, Remembered
    <3>2. CASE b = n /\ k = "block"
      BY <1>1, <2>1, <3>2
    <3>3. CASE b = n /\ k = "ephe"
      <4>1. fld'[n][j] = fld[n][j] /\ fld[n][j] = Unit
        BY <3>3, InvFacts, AllocFacts
      <4>. QED BY <2>1, <3>3, <4>1
    <3>. QED BY <3>1, <3>2, <3>3
  <2>2. \A r \in refs \cup epheRefs : r[1] \in Safe
    BY InvFacts DEF Tables
  <2>3. \A r \in refs' : tag'[r[1]] = "block" /\ r[1] \in Safe'
    <3>1. \A r \in refs : tag[r[1]] = "block"
      BY InvFacts DEF Tables, Remembered, IsBlock
    <3>. QED BY <1>1, <1>9, <1>10, <1>12, <2>2, <3>1
  <2>4. \A r \in epheRefs' : tag'[r[1]] = "ephe" /\ r[1] \in Ephes' /\ r[1] \in Safe'
    <3>1. \A r \in epheRefs : tag[r[1]] = "ephe" /\ r[1] \in Ephes
      BY InvFacts DEF Tables, Remembered
    <3>2. Ephes \subseteq Ephes'
      BY DEF Ephes
    <3>. QED BY <1>9, <1>12, <2>2, <3>1, <3>2
  <2>5. YoungEmpty' => refs' = {} /\ epheRefs' = {}
    <3>. SUFFICES ASSUME YoungEmpty' PROVE refs' = {} /\ epheRefs' = {}
      OBVIOUS
    <3>1. n \notin Young /\ YoungEmpty
      BY <1>1 DEF YoungEmpty
    <3>2. refs = {} /\ epheRefs = {}
      BY <3>1, InvFacts DEF Tables
    <3>3. \A y \in Young : y \notin Alloc
      BY <3>1 DEF YoungEmpty, Alloc
    <3>4. \A i \in Ix : fld'[n][i] \notin Young
      BY <1>6, <3>3 DEF Values
    <3>. QED BY <3>2, <3>4
  <2>. QED BY <2>1, <2>3, <2>4, <2>5 DEF Tables, Remembered, IsBlock
<1>. QED BY <1>5, <1>7, <1>13, <1>14, <1>15, <1>16, <1>17 DEF GCInv

LEMMA AllocSteps ==
  ASSUME GCInv, GCTypeOK', Alloc_small \/ caml_alloc_shr \/ caml_ephemeron_create
  PROVE  GCInv'
<1>. USE AddressFacts
<1>0. /\ fld \in [Addr -> [Ix -> Field]] /\ ListTypes
      /\ \A a \in Addr : tag[a] = "free" => a \notin Alloc /\ \A i \in Ix : fld[a][i] = Unit
  BY InvFacts, TypeParts, HeapFacts DEF HeapTypes, Alloc
<1>a. \A u, v \in Held : <<u, v>> \in [Ix -> Held]
  BY BlockFields
<1>1. CASE Alloc_small
  <2>1. PICK y \in Free(Young), u \in Held, v \in Held :
          /\ tag' = [tag EXCEPT ![y] = "block"] /\ fld' = [fld EXCEPT ![y] = <<u, v>>]
          /\ roots' = roots \cup {y}
    BY <1>1 DEF Alloc_small, Hold
  <2>2. UNCHANGED <<refs, epheRefs, phase, mk, eph, hp, fin>>
    BY <1>1 DEF Alloc_small, tables
  <2>3. y \in Young /\ y \in Addr /\ y \notin Major /\ y \notin Alloc
    BY <1>0 DEF Free
  <2>4. /\ \A a \in Addr : a # y => fld'[a] = fld[a]
        /\ fld'[y] = <<u, v>>
    BY <1>0, <2>1, <2>3
  <2>5. \A i \in Ix : fld'[y][i] \in Held
    BY <1>a, <2>4
  <2>. QED BY <2>1, <2>2, <2>3, <2>4, <2>5, AllocStep
<1>2. CASE caml_alloc_shr
  <2>1. PICK a \in Free(Major), u \in Held, v \in Held :
          /\ tag' = [tag EXCEPT ![a] = "block"] /\ fld' = [fld EXCEPT ![a] = <<u, v>>]
          /\ refs' = refs \cup {<<a, i>> : i \in {j \in Ix : <<u, v>>[j] \in Young}}
          /\ mk' = Coloured({a})
          /\ roots' = roots \cup {a}
    BY <1>2 DEF caml_alloc_shr, Hold
  <2>2. UNCHANGED <<epheRefs, phase, eph, hp, fin>>
    BY <1>2 DEF caml_alloc_shr
  <2>3. a \in Major /\ a \in Addr /\ a \notin Alloc
    BY <1>0 DEF Free
  <2>4. /\ \A b \in Addr : b # a => fld'[b] = fld[b]
        /\ fld'[a] = <<u, v>>
    BY <1>0, <2>1, <2>3
  <2>5. \A i \in Ix : fld'[a][i] \in Held
    BY <1>a, <2>4
  <2>6. /\ refs \subseteq refs'
        /\ \A r \in refs' \ refs : r[1] = a /\ r[2] \in Ix /\ fld'[a][r[2]] \in Young
        /\ \A i \in Ix : fld'[a][i] \in Young => <<a, i>> \in refs'
    BY <2>1, <2>4
  <2>. QED BY <2>1, <2>2, <2>3, <2>4, <2>5, <2>6, AllocStep
<1>3. CASE caml_ephemeron_create
  <2>1. PICK a \in Free(Major) :
          /\ tag' = [tag EXCEPT ![a] = "ephe"]
          /\ mk' = Coloured({a})
          /\ eph' = IF eph.checked # {}
                      THEN [eph EXCEPT !.checked = @ \cup {a}]
                    ELSE IF eph.skipped # {}
                      THEN [eph EXCEPT !.skipped = @ \cup {a}]
                    ELSE [eph EXCEPT !.toCheck = @ \cup {a}]
          /\ roots' = roots \cup {a}
    BY <1>3 DEF caml_ephemeron_create, Hold
  <2>2. UNCHANGED <<fld, refs, epheRefs, phase, hp, fin>>
    BY <1>3 DEF caml_ephemeron_create, tables
  <2>3. a \in Major /\ a \in Addr /\ a \notin Alloc
    BY <1>0 DEF Free
  <2>4. \A i \in Ix : fld'[a][i] \in Held /\ fld'[a][i] \notin Young
    BY <1>0, <2>1, <2>2, <2>3 DEF Free, Held
  <2>5. /\ eph.checked \subseteq eph'.checked /\ eph'.checked \subseteq eph.checked \cup {a}
        /\ eph.skipped \subseteq eph'.skipped /\ eph'.skipped \subseteq eph.skipped \cup {a}
        /\ eph.toCheck \subseteq eph'.toCheck /\ eph'.toCheck \subseteq eph.toCheck \cup {a}
        /\ a \in eph'.checked \cup eph'.skipped \cup eph'.toCheck
        /\ eph.skipped = {} => eph'.skipped = {}
    BY <1>0, <2>1 DEF ListTypes
  <2>6. a \in Ephes'
    BY <2>5 DEF Ephes
  <2>. QED BY <2>1, <2>2, <2>3, <2>4, <2>5, <2>6, AllocStep
<1>. QED BY <1>1, <1>2, <1>3

-----------------------------------------------------------------------------
(* The marking slices *)

\* A step of the marker, that undoes nothing of what is marked.
LEMMA MarkStep ==
  ASSUME GCInv, GCTypeOK', UNCHANGED <<heap, roots, tables, hp>>, Marking, Marking',
         StackOK(mk'), mk'.black \subseteq Alloc, mk.black \subseteq mk'.black,
         \A a \in Major, i \in Ix :
           /\ IsBlock(a) /\ fld[a][i] \in Major
           /\ <<a, i>> \in Pending(mk) \/ a \in mk'.black \ mk.black
           => <<a, i>> \in Pending(mk') \/ fld[a][i] \in mk'.black,
         Ephes' = Ephes
  PROVE  /\ Safe \subseteq Safe' /\ Alloc' = Alloc /\ mk'.black \subseteq Safe'
         /\ Alloc \cap Young \subseteq Safe'
         /\ FinsSafe' /\ EphesSafe' => GCInv'
<1>. USE AddressFacts
<1>1. /\ UNCHANGED <<tag, fld, refs, epheRefs>> /\ phase # "sweep" /\ phase' # "sweep"
      /\ phase # "clean" /\ phase' # "clean" /\ phase' # "idle"
  BY DEF heap, tables, Marking, MarkPhases
<1>2. Alloc' = Alloc /\ (YoungEmpty' <=> YoungEmpty)
  BY <1>1 DEF Alloc, YoungEmpty
<1>3. StackOK(mk)' /\ Pending(mk') = Pending(mk)'
  BY <1>1 DEF StackOK, IsBlock, Pending
<1>4. Colours'
  BY <1>1, <1>2, <1>3 DEF Colours
<1>5. HeapClosed'
  BY <1>1, <1>2, InvFacts DEF HeapClosed, Values
<1>6. Safe \subseteq Safe'
  <2>1. \A b \in Major : IsBlock(b) => tag'[b] = "block"
    BY <1>1 DEF IsBlock
  <2>2. Protected \subseteq Protected'
    BY <1>1, <1>3, <2>1, ProtectedGrows, InvFacts
  <2>. QED BY <1>2, <2>2 DEF Safe, Kept, Marking, MarkPhases
<1>7. /\ mk'.black \subseteq Safe' /\ Alloc' \cap Young \subseteq Safe'
  BY <1>4, <1>5, SafeFactsNext
<1>8. BlocksSafe'
  <2>1. ASSUME NEW b \in Alloc', NEW j \in Ix, tag'[b] = "block",
               b \in Young \/ b \in mk'.black, fld'[b][j] \in Major
        PROVE  fld'[b][j] \in Safe'
    <3>1. b \in Alloc /\ b \in Addr /\ IsBlock(b) /\ fld'[b][j] = fld[b][j]
      BY <1>1, <1>2, <2>1, InvFacts DEF IsBlock
    <3>2. CASE b \in Young \/ b \in mk.black
      <4>1. b \in Safe
        BY <3>1, <3>2, SafeFacts, InvFacts
      <4>2. fld[b][j] \in Values(Safe)
        BY <3>1, <4>1, InvFacts DEF BlocksSafe
      <4>. QED BY <1>6, <2>1, <3>1, <4>2 DEF Values
    <3>3. CASE b \in mk'.black \ mk.black
      <4>1. b \in Major
        BY <3>3, TypePartsNext DEF MarkState
      <4>2. <<b, j>> \in Pending(mk)' \/ fld'[b][j] \in mk'.black
        BY <1>3, <2>1, <3>1, <3>3, <4>1
      <4>3. CASE <<b, j>> \in Pending(mk)'
        <5>1. fld'[b][j] \in Protected'
          BY <2>1, <4>1, <4>3, ProtectedFactsNext
        <5>. QED BY <1>4, <1>5, <5>1, SafeFactsNext
      <4>. QED BY <1>7, <4>2, <4>3
    <3>. QED BY <2>1, <3>2, <3>3
  <2>. QED BY <1>4, <1>5, <2>1, MarkedBlocks
<1>9. RootsSafe' /\ Lists'
  BY <1>1, <1>6, InvFacts DEF RootsSafe, Lists, IsEphe
<1>10. Tables'
  BY <1>1, <1>2, <1>6, InvFacts DEF Tables, Remembered, IsBlock
<1>. QED BY <1>2, <1>4, <1>5, <1>6, <1>7, <1>8, <1>9, <1>10 DEF GCInv

\* A step of the marker that leaves the ephemerons and the values with a
\* finalisation function alone.
LEMMA MarkOnly ==
  ASSUME GCInv, GCTypeOK', UNCHANGED <<heap, roots, tables, phase, eph, hp, fin>>, Marking,
         StackOK(mk'), mk'.black \subseteq Alloc, Grown(fld, mk, mk')
  PROVE  GCInv'
<1>. USE AddressFacts
<1>1. Marking' /\ Ephes' = Ephes /\ UNCHANGED <<tag, fld>>
  BY DEF Marking, Ephes, heap
<1>2. mk.black \subseteq mk'.black /\ (mk'.pure => mk.pure /\ mk'.black = mk.black)
  BY DEF Grown
<1>3. \A a \in Major, i \in Ix :
        /\ IsBlock(a) /\ fld[a][i] \in Major
        /\ <<a, i>> \in Pending(mk) \/ a \in mk'.black \ mk.black
        => <<a, i>> \in Pending(mk') \/ fld[a][i] \in mk'.black
  BY DEF Grown
<1>4. Safe \subseteq Safe' /\ Alloc' = Alloc /\ (FinsSafe' /\ EphesSafe' => GCInv')
  BY <1>1, <1>2, <1>3, MarkStep
<1>5. FinsSafe'
  BY <1>4, FinsKept, InvFacts
<1>6. EphesSafe'
  <2>1. \A b \in eph.checked : fld[b][Data] \in Values(Safe')
    BY <1>4, InvFacts DEF EphesSafe, Values
  <2>2. mk'.pure =>
          \A b \in eph.skipped : fld[b][Data] \in Values(Safe') \/ b \in Major \ mk'.black
                                 \/ fld[b][Key] \in Major \ mk'.black
    BY <1>2, <1>4, InvFacts DEF EphesSafe, Values, White
  <2>. QED BY <1>1, <2>1, <2>2 DEF EphesSafe, Marking, MarkPhases, Values, White
<1>. QED BY <1>4, <1>5, <1>6

LEMMA DarkenStep ==
  ASSUME GCInv, GCTypeOK', mark_slice_darken
  PROVE  GCInv'
<1>. USE AddressFacts
<1>1. PICK e \in mk.stack :
        mk' = mark_stack_push(fld, caml_darken(fld, fld[e[1]][e[2]],
                                               [mk EXCEPT !.stack = @ \ {e}]), e[1], e[2] + 1)
  BY DEF mark_slice_darken
<1>. DEFINE v == fld[e[1]][e[2]]
            m == [mk EXCEPT !.stack = @ \ {e}]
            n == caml_darken(fld, v, m)
<1>2. /\ mk \in MarkState /\ e[1] \in mk.black /\ IsBlock(e[1]) /\ e[1] \in Major /\ e[2] \in Ix
      /\ e[2] \in Nat /\ e = <<e[1], e[2]>>
  BY InvFacts DEF MarkState, StackOK, Ix
<1>3. /\ m \in MarkState /\ m.black = mk.black /\ m.stack = mk.stack \ {e}
      /\ m.redarken = mk.redarken /\ m.pure = mk.pure
  BY <1>2 DEF MarkState
<1>4. StackOK(m)
  BY <1>3, InvFacts DEF StackOK
<1>. HIDE DEF m
<1>5. /\ n \in MarkState /\ StackOK(n) /\ Grown(fld, m, n)
      /\ v \in Major => v \in n.black
      /\ n.black \subseteq m.black \cup {v}
  BY <1>3, <1>4, DarkenGrows
<1>. HIDE DEF n
<1>6. Pushed(fld, n, mk', e[1], e[2] + 1)
  <2>1. e[1] \in n.black
    BY <1>2, <1>3, <1>5 DEF Grown
  <2>2. e[2] + 1 \in Nat /\ e[2] + 1 >= 1
    BY <1>2
  <2>3. mk' = mark_stack_push(fld, n, e[1], e[2] + 1)
    BY <1>1 DEF n, m
  <2>. QED BY <1>2, <1>5, <2>1, <2>2, <2>3, PushKeeps
<1>7. StackOK(mk') /\ mk'.black = n.black /\ mk'.pure = n.pure
  BY <1>6 DEF Pushed
<1>8. mk'.black \subseteq Alloc
  <2>1. v \in Values(Alloc)
    <3>1. e[1] \in Alloc /\ phase # "sweep"
      BY <1>2, InvFacts DEF mark_slice_darken, Marking, MarkPhases
    <3>. QED BY <1>2, <3>1, InvFacts DEF HeapClosed
  <2>2. n.black \subseteq Major
    BY <1>5 DEF MarkState
  <2>. QED BY <1>3, <1>5, <1>7, <2>1, <2>2, InvFacts DEF Values
<1>9. Grown(fld, mk, mk')
  <2>1. mk.black \subseteq mk'.black /\ (mk'.pure => mk.pure /\ mk'.black = mk.black)
    BY <1>3, <1>5, <1>7 DEF Grown
  <2>2. ASSUME NEW a \in Major, NEW i \in Ix, fld[a][i] \in Major,
               <<a, i>> \in Pending(mk) \/ (IsBlock(a) /\ a \in mk'.black \ mk.black)
        PROVE  <<a, i>> \in Pending(mk') \/ fld[a][i] \in mk'.black
    <3>1. CASE <<a, i>> \in Pending(m) \/ (IsBlock(a) /\ a \in n.black \ m.black)
      <4>1. <<a, i>> \in Pending(n) \/ fld[a][i] \in n.black
        BY <1>5, <2>2, <3>1 DEF Grown
      <4>. QED BY <1>6, <1>7, <4>1 DEF Pushed
    <3>2. CASE <<a, i>> \in Pending(mk) /\ <<a, i>> \notin Pending(m)
      <4>1. a = e[1] /\ e[2] <= i
        <5>1. /\ a \notin mk.redarken \/ a \notin mk.black
              /\ \A j \in Ix : j <= i => <<a, j>> \notin mk.stack \ {e}
          BY <1>3, <3>2 DEF Pending
        <5>2. PICK j \in Ix : j <= i /\ <<a, j>> \in mk.stack
          BY <3>2, <5>1 DEF Pending
        <5>. QED BY <1>2, <5>1, <5>2
      <4>2. CASE e[2] = i
        BY <1>5, <1>7, <2>2, <4>1, <4>2
      <4>3. CASE e[2] # i
        <5>1. i >= e[2] + 1
          BY <1>2, <4>1, <4>3 DEF Ix
        <5>. QED BY <1>6, <2>2, <4>1, <5>1 DEF Pushed
      <4>. QED BY <4>2, <4>3
    <3>. QED BY <1>3, <1>7, <2>2, <3>1, <3>2
  <2>. QED BY <2>1, <2>2 DEF Grown
<1>. QED BY <1>7, <1>8, <1>9, MarkOnly DEF mark_slice_darken

LEMMA RedarkenStep ==
  ASSUME GCInv, GCTypeOK', redarken_chunk
  PROVE  GCInv'
<1>. USE AddressFacts
<1>. DEFINE a == Min(mk.redarken)
            m == [mk EXCEPT !.redarken = @ \ {a}]
<1>1. mk' = IF a \in mk.black /\ IsBlock(a) THEN mark_stack_push(fld, m, a, 1) ELSE m
  BY DEF redarken_chunk
<1>2. /\ m \in MarkState /\ m.black = mk.black /\ m.stack = mk.stack
      /\ m.redarken = mk.redarken \ {a} /\ m.pure = mk.pure
  BY InvFacts DEF MarkState
<1>. HIDE DEF a, m
<1>3. StackOK(m)
  BY <1>2, InvFacts DEF StackOK
<1>4. /\ StackOK(mk') /\ mk'.black = mk.black /\ mk'.pure = mk.pure
      /\ Pending(m) \subseteq Pending(mk')
      /\ a \in mk.black /\ IsBlock(a) =>
           \A j \in Ix : fld[a][j] \in Major => <<a, j>> \in Pending(mk')
  <2>1. CASE a \in mk.black /\ IsBlock(a)
    <3>1. Pushed(fld, m, mk', a, 1)
      BY <1>1, <1>2, <1>3, <2>1, PushKeeps
    <3>2. \A j \in Ix : j >= 1
      BY DEF Ix
    <3>. QED BY <1>2, <3>1, <3>2 DEF Pushed
  <2>2. CASE ~(a \in mk.black /\ IsBlock(a))
    <3>1. mk' = m
      BY <1>1, <2>2
    <3>. QED BY <1>2, <1>3, <2>2, <3>1
  <2>. QED BY <2>1, <2>2
<1>5. Grown(fld, mk, mk')
  <2>1. ASSUME NEW b \in Major, NEW i \in Ix, fld[b][i] \in Major, <<b, i>> \in Pending(mk)
        PROVE  <<b, i>> \in Pending(mk')
    <3>1. CASE <<b, i>> \in Pending(m)
      BY <1>4, <3>1
    <3>2. CASE <<b, i>> \notin Pending(m)
      <4>1. b = a /\ a \in mk.black /\ IsBlock(a)
        BY <1>2, <2>1, <3>2 DEF Pending
      <4>. QED BY <1>4, <2>1, <4>1
    <3>. QED BY <3>1, <3>2
  <2>. QED BY <1>4, <2>1 DEF Grown
<1>6. mk'.black \subseteq Alloc
  BY <1>4, InvFacts
<1>. QED BY <1>4, <1>5, <1>6, MarkOnly DEF redarken_chunk

LEMMA ScanSteps ==
  ASSUME GCInv, GCTypeOK', mark_ephe_aux \/ mark_scan_again
  PROVE  GCInv'
<1>. USE AddressFacts
<1>1. /\ UNCHANGED <<tag, fld, roots, refs, epheRefs, phase, hp, fin>> /\ Marking /\ Marking'
      /\ phase # "sweep" /\ UNCHANGED <<heap, tables>>
  BY DEF mark_ephe_aux, mark_scan_again, ListDone, heap, tables, Marking, MarkPhases
<1>2. ListTypes /\ mk \in MarkState /\ StackOK(mk) /\ mk.black \subseteq Alloc
  BY InvFacts, TypeParts
<1>3. CASE mark_ephe_aux
  <2>1. PICK e \in eph.toCheck :
          LET d == fld[e][Data]
              wait == d \in White(mk) /\ (e \in White(mk) \/ fld[e][Key] \in White(mk))
          IN /\ mk' = IF wait THEN mk ELSE caml_darken(fld, d, mk)
             /\ eph' = IF wait
                  THEN [eph EXCEPT !.toCheck = @ \ {e}, !.skipped = @ \cup {e}]
                  ELSE [eph EXCEPT !.toCheck = @ \ {e}, !.checked = @ \cup {e}]
    BY <1>3 DEF mark_ephe_aux
  <2>. DEFINE d == fld[e][Data]
              wait == d \in White(mk) /\ (e \in White(mk) \/ fld[e][Key] \in White(mk))
  <2>2. /\ mk' = IF wait THEN mk ELSE caml_darken(fld, d, mk)
        /\ ~wait => /\ eph'.checked = eph.checked \cup {e} /\ eph'.skipped = eph.skipped
                    /\ eph'.toCheck = eph.toCheck \ {e}
        /\ wait => /\ eph'.checked = eph.checked /\ eph'.skipped = eph.skipped \cup {e}
                   /\ eph'.toCheck = eph.toCheck \ {e}
    BY <1>2, <2>1 DEF ListTypes
  <2>3. d \in Values(Alloc)
    <3>1. e \in Major /\ IsEphe(e)
      BY <1>2, InvFacts DEF Lists, Ephes, ListTypes
    <3>2. e \in Alloc
      BY <3>1, AllocFacts, InvFacts
    <3>. QED BY <1>1, <3>2, InvFacts DEF HeapClosed
  <2>4. wait => e \in White(mk) \/ fld[e][Key] \in White(mk)
    OBVIOUS
  <2>. HIDE DEF d, wait
  <2>5. /\ StackOK(mk') /\ Grown(fld, mk, mk') /\ mk'.black \subseteq Alloc
        /\ ~wait /\ d \in Major => d \in mk'.black
    <3>1. CASE wait
      BY <1>2, <2>2, <3>1 DEF Grown
    <3>2. CASE ~wait
      <4>1. /\ mk' \in MarkState /\ StackOK(mk') /\ Grown(fld, mk, mk')
            /\ d \in Major => d \in mk'.black
            /\ mk'.black \subseteq mk.black \cup {d}
        BY <1>2, <2>2, <3>2, DarkenGrows
      <4>2. mk'.black \subseteq Major
        BY <4>1 DEF MarkState
      <4>. QED BY <1>2, <2>3, <4>1, <4>2 DEF Values
    <3>. QED BY <3>1, <3>2
  <2>6. Ephes' = Ephes
    BY <2>2 DEF Ephes
  <2>7. /\ mk.black \subseteq mk'.black
        /\ \A a \in Major, i \in Ix :
             /\ IsBlock(a) /\ fld[a][i] \in Major
             /\ <<a, i>> \in Pending(mk) \/ a \in mk'.black \ mk.black
             => <<a, i>> \in Pending(mk') \/ fld[a][i] \in mk'.black
    BY <2>5 DEF Grown
  <2>8. /\ Safe \subseteq Safe' /\ Alloc' = Alloc /\ mk'.black \subseteq Safe'
        /\ Alloc \cap Young \subseteq Safe'
        /\ FinsSafe' /\ EphesSafe' => GCInv'
    BY <1>1, <2>5, <2>6, <2>7, MarkStep
  <2>9. FinsSafe'
    BY <1>1, <2>8, FinsKept, InvFacts
  <2>10. EphesSafe'
    <3>1. \A b \in eph'.checked : fld[b][Data] \in Values(Safe')
      <4>1. \A b \in eph.checked : fld[b][Data] \in Values(Safe')
        BY <1>1, <2>8, InvFacts DEF EphesSafe, Values
      <4>2. ~wait => d \in Values(Safe')
        BY <2>3, <2>5, <2>8, InvFacts DEF Values
      <4>. QED BY <2>2, <4>1, <4>2 DEF d
    <3>2. mk'.pure =>
            \A b \in eph'.skipped : fld[b][Data] \in Values(Safe') \/ b \in Major \ mk'.black
                                    \/ fld[b][Key] \in Major \ mk'.black
      <4>. SUFFICES ASSUME mk'.pure, NEW b \in eph'.skipped
                    PROVE  fld[b][Data] \in Values(Safe') \/ b \in Major \ mk'.black
                           \/ fld[b][Key] \in Major \ mk'.black
        OBVIOUS
      <4>1. mk.pure /\ mk'.black = mk.black
        BY <2>5 DEF Grown
      <4>2. CASE b \in eph.skipped
        BY <1>1, <2>8, <4>1, <4>2, InvFacts DEF EphesSafe, Values, White
      <4>3. CASE wait /\ b = e
        BY <2>4, <4>1, <4>3 DEF White
      <4>. QED BY <2>2, <4>2, <4>3
    <3>. QED BY <1>1, <3>1, <3>2 DEF EphesSafe, Marking, MarkPhases, Values, White
  <2>. QED BY <2>8, <2>9, <2>10
<1>4. CASE mark_scan_again
  <2>1. mk' = [mk EXCEPT !.pure = TRUE] /\ eph' = Rescan /\ eph.toCheck = {}
    BY <1>4 DEF mark_scan_again, ListDone
  <2>2. /\ mk'.black = mk.black /\ mk'.stack = mk.stack /\ mk'.redarken = mk.redarken
        /\ eph'.checked = eph.checked /\ eph'.skipped = {} /\ Ephes' = Ephes
    BY <1>2, <2>1 DEF MarkState, ListTypes, Rescan, Ephes
  <2>3. StackOK(mk') /\ Pending(mk') = Pending(mk)
    BY <1>2, <2>2 DEF StackOK, Pending
  <2>4. /\ Safe \subseteq Safe' /\ Alloc' = Alloc
        /\ FinsSafe' /\ EphesSafe' => GCInv'
    BY <1>1, <1>2, <2>2, <2>3, MarkStep
  <2>5. FinsSafe'
    BY <1>1, <2>4, FinsKept, InvFacts
  <2>6. EphesSafe'
    <3>1. \A b \in eph.checked : fld[b][Data] \in Values(Safe')
      BY <1>1, <2>4, InvFacts DEF EphesSafe, Values
    <3>. QED BY <1>1, <2>2, <3>1 DEF EphesSafe, Marking, MarkPhases, Values
  <2>. QED BY <2>4, <2>5, <2>6
<1>. QED BY <1>3, <1>4

-----------------------------------------------------------------------------
(* The other slices *)

LEMMA StartStep ==
  ASSUME GCInv, GCTypeOK', start_cycle
  PROVE  GCInv'
<1>. USE AddressFacts
<1>1. /\ UNCHANGED <<tag, fld, roots, refs, epheRefs, hp, fin>> /\ phase = "idle"
      /\ phase' = "mark_main" /\ Marking' /\ YoungEmpty /\ NoRecent
  BY DEF start_cycle, heap, tables, Marking, MarkPhases
<1>. DEFINE S == roots \cup {fin[f].val : f \in ToDo}
            n == caml_darken_all(fld, S, mk)
<1>2. /\ mk \in MarkState /\ StackOK(mk) /\ mk.black = {} /\ mk.stack = {} /\ mk.redarken = {}
      /\ Safe = Alloc /\ mk' \in MarkState
  BY <1>1, InvFacts, SafeFacts, TypePartsNext DEF Colours, Marking, MarkPhases
<1>3. /\ n \in MarkState /\ StackOK(n) /\ Grown(fld, mk, n)
      /\ S \cap Major \subseteq n.black
      /\ n.black \subseteq mk.black \cup S
  BY <1>2, DarkenAllGrows
<1>4. mk' = [n EXCEPT !.pure = TRUE] /\ eph' = WholeList
  BY DEF start_cycle
<1>5. \A f \in ToDo : fin[f].val \in Values(Safe \ Young)
  BY InvFacts DEF FinsSafe, ToDo
<1>6. S \subseteq Values(Alloc)
  BY <1>2, <1>5, InvFacts DEF Values
<1>. HIDE DEF S, n
<1>7. /\ mk'.black = n.black /\ mk'.stack = n.stack /\ mk'.redarken = n.redarken
      /\ StackOK(mk)' /\ Pending(mk)' = Pending(n)
  BY <1>1, <1>3, <1>4 DEF MarkState, StackOK, IsBlock, Pending
<1>8. Alloc' = Alloc /\ \A y \in Young : y \notin Alloc
  BY <1>1 DEF Alloc, YoungEmpty
<1>9. mk'.black \subseteq Alloc
  <2>1. mk'.black \subseteq Major
    BY <1>2 DEF MarkState
  <2>. QED BY <1>2, <1>3, <1>6, <1>7, <2>1 DEF Values
<1>10. Colours' /\ HeapClosed'
  <2>1. Colours'
    BY <1>1, <1>7, <1>8, <1>9 DEF Colours
  <2>2. HeapClosed'
    BY <1>1, <1>8, InvFacts DEF HeapClosed, Values
  <2>. QED BY <2>1, <2>2
<1>11. mk'.black \subseteq Safe'
  BY <1>10, SafeFactsNext
<1>12. \A v \in S : v \in Values(Safe')
  <2>1. \A v \in S : v \in Major \/ v = Unit
    BY <1>6, <1>8, InvFacts DEF Values
  <2>. QED BY <1>3, <1>7, <1>11, <2>1 DEF Values
<1>13. RootsSafe'
  BY <1>1, <1>12, InvFacts DEF RootsSafe, Values, S
<1>14. BlocksSafe'
  <2>1. ASSUME NEW b \in Alloc', NEW j \in Ix, tag'[b] = "block",
               b \in Young \/ b \in mk'.black, fld'[b][j] \in Major
        PROVE  fld'[b][j] \in Safe'
    <3>1. b \in n.black /\ b \in Major /\ IsBlock(b) /\ fld[b][j] \in Major
      BY <1>1, <1>7, <1>8, <1>9, <2>1, InvFacts DEF IsBlock
    <3>2. <<b, j>> \in Pending(n) \/ fld[b][j] \in n.black
      BY <1>2, <1>3, <3>1 DEF Grown
    <3>3. CASE <<b, j>> \in Pending(n)
      <4>1. fld'[b][j] \in Protected'
        BY <1>1, <1>7, <3>1, <3>3, ProtectedFactsNext
      <4>. QED BY <1>1, <1>10, <4>1, SafeFactsNext
    <3>. QED BY <1>1, <1>7, <1>11, <3>2, <3>3
  <2>. QED BY <1>1, <1>10, <2>1, MarkedBlocks
<1>15. FinsSafe'
  <2>1. ASSUME NEW f \in Funs, FinIs(f, "todo") PROVE fin[f].val \in Values(Safe' \ Young)
    <3>1. fin[f].val \in Values(Safe \ Young)
      BY <2>1, InvFacts DEF FinsSafe
    <3>2. fin[f].val \in S
      BY <2>1 DEF S, ToDo
    <3>. QED BY <1>12, <3>1, <3>2 DEF Values
  <2>2. \A f \in Funs : FinIs(f, "unused") => fin[f].val = Unit
    BY InvFacts DEF FinsSafe
  <2>3. \A f \in Funs : FinIs(f, "old") => fin[f].val \in Alloc \ Young
    BY InvFacts DEF FinsSafe
  <2>. QED BY <1>1, <1>8, <2>1, <2>2, <2>3 DEF FinsSafe, FinIs, NoRecent, Values
<1>16. Ephes' = Ephes /\ eph'.checked = {} /\ eph'.skipped = {}
  BY <1>4 DEF WholeList, Ephes
<1>17. Lists' /\ EphesSafe'
  BY <1>1, <1>16, InvFacts DEF Lists, EphesSafe, IsEphe
<1>18. Tables'
  <2>1. refs = {} /\ epheRefs = {}
    BY <1>1, InvFacts DEF Tables
  <2>. QED BY <1>1, <1>16, <2>1, InvFacts DEF Tables, Remembered, IsBlock
<1>. QED BY <1>10, <1>13, <1>14, <1>15, <1>17, <1>18 DEF GCInv

LEMMA MainDoneStep ==
  ASSUME GCInv, GCTypeOK', mark_main_done
  PROVE  GCInv'
<1>. USE AddressFacts
<1>. DEFINE S == WhiteOld(FirstFuns)
            V == {fin[f].val : f \in S}
<1>1. /\ UNCHANGED <<tag, fld, roots, refs, epheRefs, hp>> /\ UNCHANGED <<heap, tables>>
      /\ phase = "mark_main" /\ phase' = "mark_final" /\ Marking /\ Marking'
      /\ eph.toCheck = {} /\ eph' = Rescan
      /\ fin' = generic_final_update(S, TRUE)
      /\ mk' = caml_darken_all(fld, V, mk)
  BY DEF mark_main_done, ListDone, heap, tables, Marking, MarkPhases
<1>2. ListTypes /\ mk \in MarkState /\ StackOK(mk) /\ mk.black \subseteq Alloc /\ FinTypes
  BY InvFacts, TypeParts
<1>3. /\ mk' \in MarkState /\ StackOK(mk') /\ Grown(fld, mk, mk')
      /\ V \cap Major \subseteq mk'.black
      /\ mk'.black \subseteq mk.black \cup V
  BY <1>1, <1>2, DarkenAllGrows
<1>4. \A f \in S : f \in FirstFuns /\ FinIs(f, "old") /\ fin[f].val \in Major /\ fin[f].val \in V
  BY DEF WhiteOld, White
<1>5. V \subseteq Alloc
  <2>1. \A f \in S : fin[f].val \in Alloc
    BY <1>4, InvFacts DEF FinsSafe, Funs
  <2>. QED BY <2>1
<1>6. \A f \in Funs : FinIs(f, "old") /\ f \in FirstFuns /\ f \notin S => fin[f].val \notin White(mk)
  BY DEF WhiteOld
<1>. HIDE DEF S, V
<1>7. /\ eph'.checked = eph.checked /\ eph'.skipped = {} /\ Ephes' = Ephes
  BY <1>1, <1>2 DEF ListTypes, Rescan, Ephes
<1>8. mk'.black \subseteq Alloc /\ mk.black \subseteq mk'.black
  BY <1>2, <1>3, <1>5 DEF Grown
<1>9. \A a \in Major, i \in Ix :
        /\ IsBlock(a) /\ fld[a][i] \in Major
        /\ <<a, i>> \in Pending(mk) \/ a \in mk'.black \ mk.black
        => <<a, i>> \in Pending(mk') \/ fld[a][i] \in mk'.black
  BY <1>3 DEF Grown
<1>10. /\ Safe \subseteq Safe' /\ Alloc' = Alloc /\ mk'.black \subseteq Safe'
       /\ FinsSafe' /\ EphesSafe' => GCInv'
  BY <1>1, <1>3, <1>7, <1>8, <1>9, MarkStep
<1>11. FinsSafe'
  <2>1. \A f \in Funs : fin'[f] = IF f \in S THEN [st |-> "todo", val |-> fin[f].val] ELSE fin[f]
    BY <1>1 DEF generic_final_update
  <2>2. ASSUME NEW f \in S PROVE fin[f].val \in Values(Safe' \ Young)
    BY <1>3, <1>4, <1>10 DEF Values
  <2>3. ASSUME NEW f \in Funs, f \notin S, FinIs(f, "old")
        PROVE  fin[f].val \in Alloc \ Young /\ (f \in LastFuns \/ fin[f].val \in Safe')
    <3>1. fin[f].val \in Alloc \ Young
      BY <2>3, InvFacts DEF FinsSafe
    <3>2. CASE f \in LastFuns
      BY <3>1, <3>2
    <3>3. CASE f \notin LastFuns
      <4>1. fin[f].val \notin White(mk) /\ fin[f].val \in Major
        BY <1>6, <2>3, <3>1, <3>3, InvFacts DEF Funs
      <4>. QED BY <1>8, <1>10, <3>1, <4>1 DEF White
    <3>. QED BY <3>2, <3>3
  <2>4. ASSUME NEW f \in Funs, f \notin S
        PROVE  /\ FinIs(f, "unused") => fin[f].val = Unit
               /\ FinIs(f, "todo") => fin[f].val \in Values(Safe' \ Young)
               /\ FinIs(f, "recent") => fin[f].val \in Safe'
    BY <1>10, InvFacts DEF FinsSafe, Values
  <2>5. ASSUME NEW f \in Funs
        PROVE  /\ fin'[f].st = "unused" => fin'[f].val = Unit
               /\ fin'[f].st = "todo" => fin'[f].val \in Values(Safe' \ Young)
               /\ fin'[f].st = "recent" => fin'[f].val \in Safe'
               /\ fin'[f].st = "old" =>
                    fin'[f].val \in Alloc \ Young /\ (f \in LastFuns \/ fin'[f].val \in Safe')
    <3>1. CASE f \in S
      <4>0. fin'[f] = [st |-> "todo", val |-> fin[f].val]
        BY Zenon, <2>1, <3>1
      <4>1. fin'[f].st = "todo" /\ fin'[f].val = fin[f].val
        BY <4>0
      <4>2. fin[f].val \in Values(Safe' \ Young)
        BY <2>2, <3>1
      <4>. QED BY <4>1, <4>2
    <3>2. CASE f \notin S
      <4>1. fin'[f] = fin[f]
        BY <2>1, <3>2
      <4>. QED BY <2>3, <2>4, <3>2, <4>1 DEF FinIs
    <3>. QED BY <3>1, <3>2
  <2>. QED BY <1>1, <1>10, <2>5 DEF FinsSafe, FinIs, Values
<1>12. EphesSafe'
  <2>1. \A b \in eph.checked : fld[b][Data] \in Values(Safe')
    BY <1>1, <1>10, InvFacts DEF EphesSafe, Values
  <2>. QED BY <1>1, <1>7, <2>1 DEF EphesSafe, Marking, MarkPhases, Values
<1>. QED BY <1>10, <1>11, <1>12

\* A step that keeps Safe, when no marking is left to do.
LEMMA SameSafe ==
  ASSUME GCInv, GCTypeOK', UNCHANGED <<roots, tables>>, Safe' = Safe, ~Marking',
         \A b \in Safe : tag'[b] = tag[b],
         \A b \in Safe, i \in Ix : IsBlock(b) => fld'[b][i] = fld[b][i],
         \A b \in Major, i \in Ix :
           fld'[b][i] = Unit \/ (fld'[b][i] = fld[b][i] /\ tag'[b] = tag[b]),
         Ephes \cap Safe \subseteq Ephes',
         \A y \in Young : tag'[y] = tag[y]
  PROVE  RootsSafe' /\ BlocksSafe' /\ Tables'
<1>. USE AddressFacts
<1>1. RootsSafe'
  BY InvFacts DEF RootsSafe
<1>2. BlocksSafe'
  BY InvFacts DEF BlocksSafe, IsBlock, Values
<1>3. UNCHANGED <<refs, epheRefs>>
  BY DEF tables
<1>4. Remembered'
  <2>1. \A a \in Major, i \in Ix :
          fld'[a][i] \in Young =>
            <<a, i>> \in (IF tag'[a] = "ephe" THEN epheRefs' ELSE refs')
    BY <1>3, InvFacts DEF Tables, Remembered
  <2>2. \A r \in refs : tag'[r[1]] = "block"
    BY InvFacts DEF Tables, Remembered, IsBlock
  <2>3. \A r \in epheRefs : tag'[r[1]] = "ephe" /\ r[1] \in Ephes'
    BY InvFacts DEF Tables, Remembered
  <2>. QED BY <1>3, <2>1, <2>2, <2>3 DEF Remembered, IsBlock
<1>5. YoungEmpty' <=> YoungEmpty
  BY DEF YoungEmpty
<1>. QED BY <1>1, <1>2, <1>3, <1>4, <1>5, InvFacts DEF Tables

LEMMA FinalDoneStep ==
  ASSUME GCInv, GCTypeOK', mark_final_done
  PROVE  GCInv'
<1>. USE AddressFacts
<1>. DEFINE S == WhiteOld(LastFuns)
<1>1. /\ UNCHANGED <<tag, fld, roots, refs, epheRefs, mk>> /\ UNCHANGED <<heap, tables>>
      /\ phase = "mark_final" /\ Marking /\ NoStack
      /\ eph.toCheck = {} /\ eph' = WholeList /\ mk.pure
      /\ fin' = generic_final_update(S, FALSE)
      /\ \/ phase' = "sweep" /\ hp' = 1 /\ Ephes = {}
         \/ phase' = "clean" /\ hp' = hp
      /\ ~Marking'
  BY DEF mark_final_done, ListDone, heap, tables, Marking, MarkPhases
<1>2. ListTypes /\ mk \in MarkState /\ FinTypes
  BY InvFacts, TypeParts
<1>3. \A f \in S : f \in LastFuns /\ f \in Funs /\ FinIs(f, "old")
  BY DEF WhiteOld, Funs
<1>4. \A f \in Funs : FinIs(f, "old") /\ f \in LastFuns /\ f \notin S => fin[f].val \notin White(mk)
  BY DEF WhiteOld
<1>. HIDE DEF S
<1>5. Alloc' = Alloc /\ Safe = (Alloc \cap Young) \cup mk.black /\ mk.black \subseteq Alloc
      /\ mk.black \subseteq Major
  BY <1>1, InvFacts, SafeFacts, ProtectedBlack DEF Alloc, Colours
<1>6. Colours'
  <2>1. phase' = "sweep" => \A a \in mk.black : a >= hp'
    <3>1. \A a \in Major : a >= 1
      BY DEF Major
    <3>. QED BY <1>1, <1>5, <3>1
  <2>2. StackOK(mk)'
    BY <1>1, InvFacts DEF StackOK, IsBlock
  <2>. QED BY <1>1, <1>5, <2>1, <2>2 DEF Colours, NoStack
<1>7. HeapClosed'
  BY <1>1, <1>5, InvFacts DEF HeapClosed, Values
<1>8. Safe' = Safe
  <2>1. \A a \in Major : ~(a < 1)
    BY DEF Major
  <2>2. CASE phase' = "clean"
    BY <1>1, <1>5, <1>6, <1>7, <2>2, SafeFactsNext
  <2>3. CASE phase' = "sweep" /\ hp' = 1
    <3>1. \A a \in Major : a \in Safe' <=> a \in Alloc /\ a \in mk.black
      BY <1>1, <1>5, <1>6, <1>7, <2>1, <2>3, SafeFactsNext
    <3>2. Alloc \cap Young \subseteq Safe' /\ Safe' \subseteq Addr
      BY <1>5, <1>6, <1>7, SafeFactsNext
    <3>3. Safe' \cap Young \subseteq Alloc
      BY <1>5, <1>6, <1>7, SafeFactsNext
    <3>. QED BY <1>5, <3>1, <3>2, <3>3
  <2>. QED BY <1>1, <2>2, <2>3
<1>9. Ephes' = Ephes /\ eph'.checked = {} /\ eph'.skipped = {}
  BY <1>1 DEF WholeList, Ephes
<1>10. RootsSafe' /\ BlocksSafe' /\ Tables'
  BY <1>1, <1>8, <1>9, SameSafe, InvFacts, AllocFacts
<1>11. FinsSafe'
  <2>1. \A f \in Funs : fin'[f] = IF f \in S THEN [st |-> "todo", val |-> Unit] ELSE fin[f]
    BY <1>1 DEF generic_final_update
  <2>2. ASSUME NEW f \in Funs, f \notin S, FinIs(f, "old")
        PROVE  fin[f].val \in Alloc \ Young /\ fin[f].val \in Safe
    <3>1. /\ fin[f].val \in Alloc \ Young
          /\ f \in LastFuns \/ fin[f].val \in Safe
      BY <1>1, <2>2, InvFacts DEF FinsSafe
    <3>2. CASE f \in LastFuns
      <4>1. fin[f].val \notin White(mk) /\ fin[f].val \in Major
        BY <1>4, <2>2, <3>1, <3>2, InvFacts
      <4>. QED BY <1>5, <3>1, <4>1 DEF White
    <3>. QED BY <3>1, <3>2
  <2>3. ASSUME NEW f \in Funs, f \notin S
        PROVE  /\ FinIs(f, "unused") => fin[f].val = Unit
               /\ FinIs(f, "todo") => fin[f].val \in Values(Safe \ Young)
               /\ FinIs(f, "recent") => fin[f].val \in Safe
    BY InvFacts DEF FinsSafe
  <2>4. ASSUME NEW f \in Funs
        PROVE  /\ fin'[f].st = "unused" => fin'[f].val = Unit
               /\ fin'[f].st = "todo" => fin'[f].val \in Values(Safe \ Young)
               /\ fin'[f].st = "recent" => fin'[f].val \in Safe
               /\ fin'[f].st = "old" => fin'[f].val \in Alloc \ Young /\ fin'[f].val \in Safe
    <3>1. CASE f \in S
      BY <2>1, <3>1 DEF Values
    <3>2. CASE f \notin S
      <4>1. fin'[f] = fin[f]
        BY <2>1, <3>2
      <4>. QED BY <2>2, <2>3, <3>2, <4>1 DEF FinIs
    <3>. QED BY <3>1, <3>2
  <2>. QED BY <1>1, <1>5, <1>8, <2>4 DEF FinsSafe, FinIs, Values
<1>12. Lists'
  BY <1>1, <1>8, <1>9, InvFacts DEF Lists, IsEphe
<1>13. \A e \in Safe : IsEphe(e) => e \in Major /\ e \in Ephes
  BY <1>1, InvFacts, AllocFacts DEF Lists, MarkPhases
<1>14. EphesSafe'
  <2>1. ASSUME NEW e \in Safe, IsEphe(e), fld[e][Key] \in Values(Safe)
        PROVE  fld[e][Data] \in Values(Safe)
    <3>1. e \in eph.checked \cup eph.skipped /\ e \in Major
      BY <1>1, <1>13, <2>1 DEF Ephes
    <3>2. e \notin White(mk) /\ fld[e][Key] \notin White(mk)
      BY <1>5, <2>1, <3>1 DEF White, Values
    <3>. QED BY <1>1, <3>1, <3>2, InvFacts DEF EphesSafe
  <2>2. phase' = "sweep" => \A e \in Safe : ~IsEphe(e)
    BY <1>1, <1>13
  <2>. QED BY <1>1, <1>8, <1>9, <2>1, <2>2 DEF EphesSafe, IsEphe, Values
<1>. QED BY <1>6, <1>7, <1>10, <1>11, <1>12, <1>14 DEF GCInv

LEMMA CleanStep ==
  ASSUME GCInv, GCTypeOK', clean_slice
  PROVE  GCInv'
<1>. USE AddressFacts
<1>1. /\ UNCHANGED <<tag, roots, refs, epheRefs, mk, hp, fin, phase>> /\ UNCHANGED tables
      /\ phase = "clean" /\ ~Marking /\ ~Marking'
  BY DEF clean_slice, tables, Marking, MarkPhases
<1>2. PICK e \in eph.toCheck :
        IF e \in White(mk)
          THEN /\ eph' = [eph EXCEPT !.toCheck = @ \ {e}]
               /\ UNCHANGED fld
          ELSE /\ eph' = [eph EXCEPT !.toCheck = @ \ {e}, !.checked = @ \cup {e}]
               /\ fld' = caml_ephe_clean(fld, e)
  BY DEF clean_slice
<1>3. /\ ListTypes /\ e \in Major /\ IsEphe(e) /\ e \in Alloc /\ eph.skipped = {}
      /\ fld \in [Addr -> [Ix -> Field]] /\ e \in Addr
  BY <1>1, InvFacts, TypeParts, AllocFacts DEF Lists, Ephes, ListTypes, HeapTypes
<1>4. /\ eph'.skipped = {} /\ eph'.toCheck = eph.toCheck \ {e}
      /\ e \in White(mk) => eph'.checked = eph.checked /\ fld' = fld
      /\ e \notin White(mk) => eph'.checked = eph.checked \cup {e}
  BY <1>2, <1>3 DEF ListTypes
<1>5. /\ \A b \in Addr : b # e => fld'[b] = fld[b]
      /\ \A i \in Ix : fld'[e][i] = fld[e][i] \/ fld'[e][i] = Unit
      /\ e \notin White(mk) =>
           \/ \A i \in Ix : fld'[e][i] = Unit
           \/ fld' = fld /\ fld[e][Key] \notin White(mk)
  <2>1. CASE e \in White(mk)
    BY <1>4, <2>1
  <2>2. CASE e \notin White(mk) /\ fld[e][Key] \in White(mk)
    <3>1. fld' = [fld EXCEPT ![e] = Blank]
      BY <1>2, <2>2 DEF caml_ephe_clean
    <3>. QED BY <1>3, <3>1, BlankFields
  <2>3. CASE e \notin White(mk) /\ fld[e][Key] \notin White(mk)
    BY <1>2, <2>3 DEF caml_ephe_clean
  <2>. QED BY <2>1, <2>2, <2>3
<1>6. Alloc' = Alloc /\ Safe = (Alloc \cap Young) \cup mk.black
  BY <1>1, InvFacts, SafeFacts DEF Alloc
<1>7. Colours'
  BY <1>1, <1>6, InvFacts DEF Colours, StackOK, IsBlock
<1>8. HeapClosed'
  <2>1. ASSUME NEW b \in Alloc, NEW j \in Ix PROVE fld'[b][j] \in Values(Alloc)
    <3>1. fld[b][j] \in Values(Alloc) /\ b \in Addr
      BY <1>1, InvFacts DEF HeapClosed
    <3>. QED BY <1>5, <3>1 DEF Values
  <2>. QED BY <1>6, <2>1 DEF HeapClosed, Values
<1>9. Safe' = Safe
  BY <1>1, <1>6, <1>7, <1>8, SafeFactsNext
<1>10. \A b \in Ephes \cap Safe : b \in Ephes'
  <2>1. e \in White(mk) => e \notin Safe
    BY <1>3, <1>6 DEF White
  <2>. QED BY <1>3, <1>4, <2>1 DEF Ephes
<1>11. Ephes' \subseteq Ephes
  BY <1>3, <1>4 DEF Ephes
<1>12. RootsSafe' /\ BlocksSafe' /\ Tables'
  <2>1. \A b \in Safe, i \in Ix : IsBlock(b) => fld'[b][i] = fld[b][i]
    BY <1>3, <1>5, InvFacts DEF IsBlock, IsEphe
  <2>2. \A b \in Major, i \in Ix : fld'[b][i] = Unit \/ (fld'[b][i] = fld[b][i] /\ tag'[b] = tag[b])
    BY <1>1, <1>5
  <2>. QED BY <1>1, <1>9, <1>10, <2>1, <2>2, SameSafe
<1>13. FinsSafe'
  BY <1>1, <1>6, <1>9, FinsKept, InvFacts
<1>14. Lists'
  <2>1. e \notin White(mk) => e \in Safe
    BY <1>3, <1>6 DEF White
  <2>2. \A b \in Ephes' : tag[b] = "ephe"
    BY <1>11, InvFacts DEF Lists, IsEphe
  <2>3. \A b \in Safe : IsEphe(b) /\ b \in Major => b \in Ephes'
    BY <1>10, InvFacts DEF Lists
  <2>4. eph'.checked \subseteq Safe
    BY <1>1, <1>4, <2>1, InvFacts DEF Lists
  <2>. QED BY <1>1, <1>4, <1>9, <2>2, <2>3, <2>4 DEF Lists, IsEphe
<1>15. EphesSafe'
  <2>1. ASSUME NEW b \in Safe, tag[b] = "ephe", fld'[b][Key] \in Values(Safe)
        PROVE  fld'[b][Data] \in Values(Safe)
    <3>1. CASE fld'[b] = fld[b]
      BY <1>1, <2>1, <3>1, InvFacts DEF EphesSafe, IsEphe
    <3>2. CASE b = e /\ e \notin White(mk)
      <4>1. CASE \A i \in Ix : fld'[e][i] = Unit
        BY <3>2, <4>1 DEF Values
      <4>2. CASE fld' = fld
        BY <3>1, <4>2
      <4>. QED BY <1>5, <3>2, <4>1, <4>2
    <3>3. CASE b = e /\ e \in White(mk)
      BY <1>4, <3>1, <3>3
    <3>. QED BY <1>5, <3>1, <3>2, <3>3, InvFacts
  <2>2. ASSUME NEW b \in eph'.checked, NEW i \in Ix PROVE fld'[b][i] \in Values(Safe)
    <3>1. CASE b \in eph.checked /\ b # e
      <4>1. fld[b][i] \in Values(Safe) /\ b \in Addr
        BY <1>1, <1>3, <3>1, InvFacts DEF EphesSafe, ListTypes
      <4>. QED BY <1>5, <3>1, <4>1
    <3>2. CASE b = e /\ e \notin White(mk) /\ fld' = fld /\ fld[e][Key] \notin White(mk)
      <4>1. fld[e][Key] \in Values(Alloc)
        BY <1>1, <1>3, InvFacts DEF HeapClosed
      <4>2. fld[e][Key] \in Values(Safe)
        BY <1>6, <3>2, <4>1, InvFacts DEF Values, White
      <4>3. e \in Safe
        BY <1>3, <1>6, <3>2 DEF White
      <4>. QED BY <1>1, <1>3, <3>2, <4>2, <4>3, InvFacts DEF EphesSafe
    <3>3. CASE b = e /\ e \notin White(mk) /\ \A k \in Ix : fld'[e][k] = Unit
      BY <3>3 DEF Values
    <3>4. CASE b = e /\ e \in White(mk)
      <4>1. b \in eph.checked
        BY <1>4, <3>4
      <4>. QED BY <1>1, <1>4, <3>4, <4>1, InvFacts DEF EphesSafe
    <3>5. b \in eph.checked \/ (b = e /\ e \notin White(mk))
      BY <1>4
    <3>. QED BY <1>5, <3>1, <3>2, <3>3, <3>4, <3>5
  <2>. QED BY <1>1, <1>9, <2>1, <2>2 DEF EphesSafe, IsEphe, Values
<1>. QED BY <1>7, <1>8, <1>12, <1>13, <1>14, <1>15 DEF GCInv

LEMMA InitSweepStep ==
  ASSUME GCInv, GCTypeOK', init_sweep_phase
  PROVE  GCInv'
<1>. USE AddressFacts
<1>1. /\ UNCHANGED <<tag, fld, roots, refs, epheRefs, mk, fin>> /\ UNCHANGED tables
      /\ phase = "clean" /\ phase' = "sweep" /\ ~Marking /\ ~Marking' /\ hp' = 1
      /\ eph' = WholeList /\ eph.toCheck = {}
  BY DEF init_sweep_phase, heap, tables, Marking, MarkPhases
<1>2. /\ eph.skipped = {} /\ eph.checked \subseteq Safe /\ Ephes' = Ephes /\ Ephes = eph.checked
  BY <1>1, InvFacts DEF Lists, Ephes, WholeList
<1>3. Alloc' = Alloc /\ Safe = (Alloc \cap Young) \cup mk.black /\ mk.black \subseteq Alloc
  BY <1>1, InvFacts, SafeFacts DEF Alloc
<1>4. Colours' /\ HeapClosed'
  <2>1. \A a \in mk.black : a >= 1
    <3>1. \A a \in Major : a >= 1
      BY DEF Major
    <3>. QED BY <3>1, InvFacts
  <2>2. StackOK(mk)' /\ mk.stack = {} /\ mk.redarken = {}
    BY <1>1, InvFacts DEF StackOK, IsBlock, Colours
  <2>. QED BY <1>1, <1>3, <2>1, <2>2 DEF Colours, HeapClosed
<1>5. Safe' = Safe
  <2>1. \A a \in Major : ~(a < 1)
    BY DEF Major
  <2>2. \A a \in Major : a \in Safe' <=> a \in Alloc /\ a \in mk.black
    BY <1>1, <1>3, <1>4, <2>1, SafeFactsNext
  <2>3. Alloc \cap Young \subseteq Safe' /\ Safe' \subseteq Addr /\ Safe' \cap Young \subseteq Alloc
    BY <1>3, <1>4, SafeFactsNext
  <2>. QED BY <1>3, <2>2, <2>3, InvFacts
<1>6. RootsSafe' /\ BlocksSafe' /\ Tables'
  BY <1>1, <1>2, <1>5, SameSafe
<1>7. FinsSafe'
  BY <1>1, <1>3, <1>5, InvFacts DEF FinsSafe, FinIs, Values
<1>8. Lists'
  BY <1>1, <1>2, <1>5, InvFacts DEF Lists, IsEphe
<1>9. EphesSafe'
  <2>1. ASSUME NEW e \in Safe, NEW i \in Ix, tag[e] = "ephe" PROVE fld[e][i] \in Values(Safe)
    <3>1. e \in Major
      BY <2>1, InvFacts, AllocFacts DEF IsEphe
    <3>2. e \in eph.checked
      BY <1>2, <2>1, <3>1, InvFacts DEF Lists, IsEphe
    <3>. QED BY <1>1, <3>2, InvFacts DEF EphesSafe
  <2>. QED BY <1>1, <1>5, <2>1 DEF EphesSafe, IsEphe, Values
<1>. QED BY <1>4, <1>6, <1>7, <1>8, <1>9 DEF GCInv

LEMMA SweepStep ==
  ASSUME GCInv, GCTypeOK', sweep_slice
  PROVE  GCInv'
<1>. USE AddressFacts
<1>1. /\ UNCHANGED <<roots, refs, epheRefs, phase, eph, fin>> /\ UNCHANGED tables
      /\ phase = "sweep" /\ ~Marking /\ ~Marking' /\ hp' = hp + 1 /\ hp \in Major
      /\ hp \in Nat /\ hp \in Addr
  BY DEF sweep_slice, tables, Marking, MarkPhases
<1>2. /\ tag \in [Addr -> {"free", "block", "ephe"}] /\ fld \in [Addr -> [Ix -> Field]]
      /\ mk \in MarkState
  BY InvFacts, TypeParts DEF HeapTypes
<1>3. /\ hp \in White(mk) => /\ tag' = [tag EXCEPT ![hp] = "free"]
                             /\ fld' = [fld EXCEPT ![hp] = Blank] /\ mk' = mk
      /\ hp \notin White(mk) => /\ mk' = [mk EXCEPT !.black = @ \ {hp}]
                                /\ tag' = tag /\ fld' = fld
  BY DEF sweep_slice, heap
<1>4. /\ \A b \in Addr : b # hp => tag'[b] = tag[b] /\ fld'[b] = fld[b]
      /\ hp \in White(mk) => tag'[hp] = "free" /\ \A i \in Ix : fld'[hp][i] = Unit
      /\ hp \notin White(mk) => tag'[hp] = tag[hp] /\ fld'[hp] = fld[hp]
      /\ mk'.black = mk.black \ {hp}
      /\ mk'.stack = mk.stack /\ mk'.redarken = mk.redarken
  <2>1. CASE hp \in White(mk)
    BY <1>1, <1>2, <1>3, <2>1, BlankFields DEF White
  <2>2. CASE hp \notin White(mk)
    BY <1>1, <1>2, <1>3, <2>2 DEF MarkState
  <2>. QED BY <2>1, <2>2
<1>5. \A b \in Addr : b \in Alloc' <=> b \in Alloc /\ ~(b = hp /\ hp \in White(mk))
  BY <1>4 DEF Alloc
<1>6. /\ \A a \in Major : a \in Safe <=> a \in Alloc /\ (a \in mk.black \/ a < hp)
      /\ Alloc \cap Young \subseteq Safe /\ Safe \subseteq Alloc /\ \A a \in mk.black : a >= hp
  BY <1>1, InvFacts, SafeFacts DEF Colours
<1>7. \A a \in Major : a \in Nat /\ (a < hp + 1 <=> a < hp \/ a = hp) /\ (a >= hp /\ a # hp => a >= hp + 1)
  BY <1>1
<1>8. Colours' /\ HeapClosed'
  <2>1. StackOK(mk)' /\ mk.stack = {} /\ mk.redarken = {}
    BY <1>1, <1>4, InvFacts DEF StackOK, IsBlock, Colours
  <2>2. mk'.black \subseteq Alloc'
    BY <1>4, <1>5, InvFacts
  <2>3. \A a \in mk'.black : a >= hp'
    BY <1>1, <1>4, <1>6, <1>7, InvFacts
  <2>. QED BY <1>1, <1>4, <2>1, <2>2, <2>3 DEF Colours, HeapClosed
<1>9. Safe' = Safe
  <2>1. \A a \in Major : a \in Safe' <=> a \in Alloc' /\ (a \in mk'.black \/ a < hp')
    BY <1>1, <1>8, SafeFactsNext
  <2>2. Safe' \subseteq Addr /\ \A a \in Young : a \in Safe' <=> a \in Alloc'
    BY <1>8, SafeFactsNext
  <2>3. ASSUME NEW a \in Major PROVE a \in Safe' <=> a \in Safe
    <3>1. CASE a = hp
      <4>1. ~(hp < hp) /\ hp < hp + 1
        BY <1>1
      <4>. QED BY <1>1, <1>5, <1>6, <2>1, <3>1, <4>1 DEF White
    <3>2. CASE a # hp
      BY <1>1, <1>4, <1>5, <1>6, <1>7, <2>1, <3>2
    <3>. QED BY <3>1, <3>2
  <2>4. \A a \in Young : a \in Safe' <=> a \in Safe
    BY <1>1, <1>5, <1>6, <2>2
  <2>. QED BY <2>2, <2>3, <2>4, InvFacts
<1>10. \A b \in Safe : tag'[b] = tag[b] /\ fld'[b] = fld[b]
  <2>1. hp \in White(mk) => hp \notin Safe
    <3>1. ~(hp < hp)
      BY <1>1
    <3>. QED BY <1>1, <1>6, <3>1 DEF White
  <2>. QED BY <1>4, <2>1, InvFacts
<1>11. Ephes' = Ephes /\ Ephes \subseteq Safe
  BY <1>1, InvFacts DEF Ephes, Lists
<1>12. RootsSafe' /\ BlocksSafe' /\ Tables'
  <2>1. \A b \in Major, i \in Ix : fld'[b][i] = Unit \/ (fld'[b][i] = fld[b][i] /\ tag'[b] = tag[b])
    BY <1>4
  <2>2. \A y \in Young : tag'[y] = tag[y]
    BY <1>1, <1>4
  <2>. QED BY <1>1, <1>9, <1>10, <1>11, <2>1, <2>2, SameSafe
<1>13. FinsSafe'
  <2>1. \A f \in Funs : FinIs(f, "old") => fin[f].val \in Safe /\ fin[f].val \notin Young
    BY <1>1, InvFacts DEF FinsSafe
  <2>2. Safe \subseteq Alloc'
    BY <1>8, <1>9, SafeFactsNext
  <2>. QED BY <1>1, <1>9, <2>1, <2>2, InvFacts DEF FinsSafe, FinIs, Values
<1>14. Lists'
  BY <1>1, <1>9, <1>10, <1>11, InvFacts DEF Lists, IsEphe
<1>15. EphesSafe'
  BY <1>1, <1>9, <1>10, InvFacts DEF EphesSafe, IsEphe, Values
<1>. QED BY <1>8, <1>12, <1>13, <1>14, <1>15 DEF GCInv

LEMMA SweepDoneStep ==
  ASSUME GCInv, GCTypeOK', sweep_done
  PROVE  GCInv'
<1>. USE AddressFacts
<1>1. /\ UNCHANGED <<tag, fld, roots, refs, epheRefs, mk, eph, hp, fin>> /\ UNCHANGED tables
      /\ phase = "sweep" /\ phase' = "idle" /\ ~Marking /\ ~Marking' /\ hp \notin Major
  BY DEF sweep_done, heap, tables, Marking, MarkPhases
<1>2. hp \in Nat /\ hp > NMajor
  <2>1. hp \in 1 .. NMajor + 1
    BY InvFacts, TypeParts DEF PhaseTypes
  <2>. QED BY <1>1, <2>1 DEF Major
<1>3. \A a \in Major : a < hp /\ ~(a >= hp)
  BY <1>2 DEF Major
<1>4. mk.black = {}
  BY <1>1, <1>3, InvFacts DEF Colours
<1>5. Alloc' = Alloc /\ Safe = Alloc
  <2>1. \A a \in Major : a \in Safe <=> a \in Alloc
    BY <1>1, <1>3, InvFacts, SafeFacts
  <2>2. Alloc \cap Young \subseteq Safe
    BY InvFacts, SafeFacts
  <2>. QED BY <1>1, <2>1, <2>2, InvFacts DEF Alloc
<1>6. Colours'
  BY <1>1, <1>4, <1>5, InvFacts DEF Colours, StackOK, IsBlock
<1>7. HeapClosed'
  <2>1. ASSUME NEW b \in Alloc, NEW j \in Ix PROVE fld[b][j] \in Values(Alloc)
    <3>1. IsBlock(b) \/ IsEphe(b)
      BY InvFacts, AllocFacts
    <3>2. CASE IsBlock(b)
      BY <1>5, <3>2, InvFacts DEF BlocksSafe
    <3>3. CASE IsEphe(b)
      BY <1>1, <1>5, <3>3, InvFacts DEF EphesSafe
    <3>. QED BY <3>1, <3>2, <3>3
  <2>. QED BY <1>1, <1>5, <2>1 DEF HeapClosed, Values
<1>8. Safe' = Safe
  BY <1>1, <1>5, <1>6, <1>7, SafeFactsNext
<1>9. RootsSafe' /\ BlocksSafe' /\ Tables'
  <2>1. Ephes' = Ephes
    BY <1>1 DEF Ephes
  <2>. QED BY <1>1, <1>8, <2>1, SameSafe
<1>10. FinsSafe'
  BY <1>1, <1>5, <1>8, InvFacts DEF FinsSafe, FinIs, Values
<1>11. Lists'
  <2>1. \A b \in Major : IsEphe(b) => b \in Ephes
    BY <1>1, <1>5, InvFacts, AllocFacts DEF Lists
  <2>. QED BY <1>1, <1>8, <2>1, InvFacts DEF Lists, IsEphe, Ephes
<1>12. EphesSafe'
  BY <1>1 DEF EphesSafe
<1>. QED BY <1>6, <1>7, <1>9, <1>10, <1>11, <1>12 DEF GCInv

LEMMA SliceSteps ==
  ASSUME GCInv, GCTypeOK', caml_major_collection_slice
  PROVE  GCInv'
BY StartStep, DarkenStep, RedarkenStep, ScanSteps, MainDoneStep, FinalDoneStep, CleanStep,
   InitSweepStep, SweepStep, SweepDoneStep DEF caml_major_collection_slice

-----------------------------------------------------------------------------
(* The minor collection *)

\* Rounds that only add to a set of at most N elements are over after N of them.
LEMMA RoundsClose ==
  ASSUME NEW N \in Nat, NEW A, IsFiniteSet(A), Cardinality(A) <= N,
         NEW F, \A S \in SUBSET A : F[S] \in SUBSET A /\ S \subseteq F[S],
         NEW g \in [0 .. N -> SUBSET A], \A n \in 1 .. N : g[n] = F[g[n - 1]]
  PROVE  g[0] \subseteq g[N] /\ F[g[N]] = g[N]
<1>. DEFINE Good == {n \in 0 .. N : /\ g[0] \subseteq g[n]
                                    /\ F[g[n]] = g[n] \/ Cardinality(g[n]) >= n}
<1>1. \A n \in 0 .. N : /\ g[n] \in SUBSET A /\ IsFiniteSet(g[n]) /\ Cardinality(g[n]) \in Nat
                        /\ Cardinality(g[n]) <= Cardinality(A)
                        /\ Cardinality(g[n]) = Cardinality(A) => g[n] = A
  <2>. SUFFICES ASSUME NEW n \in 0 .. N
                PROVE  /\ g[n] \in SUBSET A /\ IsFiniteSet(g[n]) /\ Cardinality(g[n]) \in Nat
                       /\ Cardinality(g[n]) <= Cardinality(A)
                       /\ Cardinality(g[n]) = Cardinality(A) => g[n] = A
    OBVIOUS
  <2>1. g[n] \in SUBSET A
    OBVIOUS
  <2>2. IsFiniteSet(g[n]) /\ Cardinality(g[n]) <= Cardinality(A)
        /\ (Cardinality(g[n]) = Cardinality(A) => g[n] = A)
    BY <2>1, FS_Subset
  <2>3. Cardinality(g[n]) \in Nat
    BY <2>2, FS_CardinalityType
  <2>. QED BY <2>1, <2>2, <2>3
<1>2. 0 \in Good
  BY <1>1
<1>3. ASSUME NEW n \in 1 .. N, n - 1 \in Good PROVE n \in Good
  <2>1. n - 1 \in 0 .. N /\ n \in 0 .. N /\ g[n] = F[g[n - 1]] /\ g[n - 1] \in SUBSET A
        /\ g[0] \subseteq g[n - 1]
    BY <1>3
  <2>2. g[n - 1] \subseteq g[n]
    BY <2>1
  <2>3. CASE g[n] = g[n - 1]
    <3>1. F[g[n]] = g[n]
      BY <2>1, <2>3
    <3>. QED BY <2>1, <2>2, <3>1
  <2>4. CASE g[n] # g[n - 1]
    <3>1. Cardinality(g[n - 1]) >= n - 1
      BY <1>3, <2>1, <2>4
    <3>2. /\ Cardinality(g[n - 1]) <= Cardinality(g[n])
          /\ Cardinality(g[n - 1]) = Cardinality(g[n]) => g[n] = g[n - 1]
      <4>1. IsFiniteSet(g[n]) /\ g[n - 1] \in SUBSET g[n]
        BY <1>1, <2>1, <2>2
      <4>. QED BY <4>1, FS_Subset
    <3>3. Cardinality(g[n]) \in Nat /\ Cardinality(g[n - 1]) \in Nat
      BY <1>1, <2>1
    <3>4. Cardinality(g[n]) >= n
      BY <2>4, <3>1, <3>2, <3>3
    <3>. QED BY <2>1, <2>2, <3>4
  <2>. QED BY <2>3, <2>4
<1>4. N \in Good
  <2>1. \A n \in 1 .. N : n - 1 \in Good => n \in Good
    BY <1>3
  <2>. HIDE DEF Good
  <2>. QED BY <1>2, <2>1, UpTo
<1>5. CASE Cardinality(g[N]) >= N
  <2>1. Cardinality(A) \in Nat
    BY FS_CardinalityType
  <2>2. g[N] = A
    BY <1>1, <1>5, <2>1
  <2>3. F[A] \in SUBSET A /\ A \subseteq F[A]
    OBVIOUS
  <2>4. F[A] = A
    BY <2>3
  <2>. QED BY <1>4, <2>2, <2>4
<1>. QED BY <1>4, <1>5

\* What caml_oldify_mopup copies is closed: the copies name no block that is
\* left behind.
SurvivorsClosed == OldifyRoots \subseteq Survivors /\ Oldify(Survivors) = Survivors

LEMMA SurvivorsAreClosed == SurvivorsClosed
<1>1. PICK g \in [0 .. NYoung -> SUBSET Young] : OldifyRounds(g)
  BY SurvivorRounds
<1>2. PICK F : \A S \in SUBSET Young : F[S] = Oldify(S)
  <2>. DEFINE G == [S \in SUBSET Young |-> Oldify(S)]
  <2>1. \A S \in SUBSET Young : G[S] = Oldify(S)
    OBVIOUS
  <2>. HIDE DEF G
  <2>. QED BY <2>1
<1>3. NYoung \in Nat /\ NMajor \in Nat
  BY GCAssumption
<1>4. IsFiniteSet(Young) /\ Cardinality(Young) <= NYoung
  <2>1. Cardinality(Young) = IF NMajor + 1 > NMajor + NYoung THEN 0
                             ELSE NMajor + NYoung - (NMajor + 1) + 1
    BY <1>3, FS_Interval DEF Young
  <2>2. IsFiniteSet(Young)
    BY <1>3, FS_Interval DEF Young
  <2>. QED BY <1>3, <2>1, <2>2
<1>5. \A S \in SUBSET Young : F[S] \in SUBSET Young /\ S \subseteq F[S]
  BY <1>2 DEF Oldify
<1>6. \A n \in 1 .. NYoung : g[n] = F[g[n - 1]]
  <2>. SUFFICES ASSUME NEW n \in 1 .. NYoung PROVE g[n] = F[g[n - 1]]
    OBVIOUS
  <2>1. g[n - 1] \in SUBSET Young
    BY <1>3
  <2>. QED BY <1>1, <1>2, <2>1 DEF OldifyRounds
<1>7. g[0] \subseteq g[NYoung] /\ F[g[NYoung]] = g[NYoung]
  BY <1>3, <1>4, <1>5, <1>6, RoundsClose
<1>8. g[NYoung] \in SUBSET Young
  BY <1>3
<1>. QED BY <1>1, <1>2, <1>7, <1>8 DEF OldifyRounds, SurvivorsClosed

\* What survives is allocated.
LEMMA SurvivorsAlloc ==
  ASSUME GCInv
  PROVE  Survivors \subseteq Alloc
<1>. USE AddressFacts
<1>1. PICK g \in [0 .. NYoung -> SUBSET Young] : OldifyRounds(g)
  BY SurvivorRounds
<1>2. \A a \in Safe, i \in Ix : fld[a][i] \in Values(Alloc)
  <2>. SUFFICES ASSUME NEW a \in Safe, NEW i \in Ix PROVE fld[a][i] \in Values(Alloc)
    OBVIOUS
  <2>1. CASE phase # "sweep"
    BY <2>1, InvFacts DEF HeapClosed
  <2>2. CASE phase = "sweep"
    <3>1. IsBlock(a) \/ IsEphe(a)
      BY InvFacts, AllocFacts
    <3>2. fld[a][i] \in Values(Safe)
      BY <2>2, <3>1, InvFacts DEF BlocksSafe, EphesSafe
    <3>. QED BY <3>2, InvFacts DEF Values
  <2>. QED BY <2>1, <2>2
<1>3. \A r \in refs \cup epheRefs : r[1] \in Safe /\ r[2] \in Ix
  BY InvFacts, TypeParts DEF Tables, TableTypes
<1>4. OldifyRoots \subseteq Alloc
  <2>1. \A f \in FirstFuns : FinIs(f, "recent") => fin[f].val \in Alloc
    BY InvFacts DEF FinsSafe, Funs
  <2>2. \A r \in refs : fld[r[1]][r[2]] \in Values(Alloc)
    BY <1>2, <1>3
  <2>3. \A v \in Young : v # Unit
    OBVIOUS
  <2>. QED BY <2>1, <2>2, <2>3, InvFacts DEF OldifyRoots, Values
<1>5. ASSUME NEW S \in SUBSET Young, S \subseteq Alloc PROVE Oldify(S) \subseteq Alloc
  <2>1. S \subseteq Safe
    BY <1>5, InvFacts, SafeFacts
  <2>2. \A y \in S, i \in Ix : fld[y][i] \in Values(Alloc)
    BY <1>2, <2>1
  <2>3. \A r \in epheRefs : fld[r[1]][Data] \in Values(Alloc)
    BY <1>2, <1>3
  <2>4. \A v \in Oldify(S) : v \in Values(Alloc) /\ v \in Young
    <3>1. \A v \in S : v \in Values(Alloc)
      BY <1>5 DEF Values
    <3>. QED BY <2>2, <2>3, <3>1 DEF Oldify
  <2>5. \A v \in Young : v # Unit
    OBVIOUS
  <2>. QED BY <2>4, <2>5 DEF Values
<1>. DEFINE Good == {n \in 0 .. NYoung : g[n] \subseteq Alloc}
<1>6. 0 \in Good
  BY <1>1, <1>4 DEF OldifyRounds
<1>7. ASSUME NEW n \in 1 .. NYoung, n - 1 \in Good PROVE n \in Good
  <2>1. g[n - 1] \in SUBSET Young /\ g[n - 1] \subseteq Alloc /\ n \in 0 .. NYoung
    BY <1>7
  <2>2. g[n] = Oldify(g[n - 1])
    BY <1>1 DEF OldifyRounds
  <2>. QED BY <1>5, <2>1, <2>2
<1>8. NYoung \in Good
  <2>1. \A n \in 1 .. NYoung : n - 1 \in Good => n \in Good
    BY <1>7
  <2>. HIDE DEF Good
  <2>. QED BY <1>6, <2>1, UpTo
<1>. QED BY <1>1, <1>8 DEF OldifyRounds

\* What the closure says of each field.
LEMMA SurvivorFields ==
  ASSUME GCInv
  PROVE  /\ \A v \in roots : v \in Young => v \in Survivors
         /\ \A r \in refs : fld[r[1]][r[2]] \in Young => fld[r[1]][r[2]] \in Survivors
         /\ \A f \in FirstFuns : FinIs(f, "recent") /\ fin[f].val \in Young
                                 => fin[f].val \in Survivors
         /\ \A y \in Survivors, i \in Ix : fld[y][i] \in Young => fld[y][i] \in Survivors
         /\ \A r \in epheRefs :
              r[2] = Data /\ fld[r[1]][Key] \notin Young \ Survivors /\ fld[r[1]][Data] \in Young
              => fld[r[1]][Data] \in Survivors
<1>1. OldifyRoots \subseteq Survivors /\ Oldify(Survivors) \subseteq Survivors
  BY SurvivorsAreClosed DEF SurvivorsClosed
<1>2. \A v \in roots : v \in Young => v \in OldifyRoots
  BY DEF OldifyRoots
<1>3. \A r \in refs : fld[r[1]][r[2]] \in Young => fld[r[1]][r[2]] \in OldifyRoots
  BY DEF OldifyRoots
<1>4. \A f \in FirstFuns : FinIs(f, "recent") /\ fin[f].val \in Young => fin[f].val \in OldifyRoots
  BY DEF OldifyRoots
<1>5. \A y \in Survivors, i \in Ix : fld[y][i] \in Young => fld[y][i] \in Oldify(Survivors)
  BY DEF Oldify
<1>6. \A r \in epheRefs :
        r[2] = Data /\ fld[r[1]][Key] \notin Young \ Survivors /\ fld[r[1]][Data] \in Young
        => fld[r[1]][Data] \in Oldify(Survivors)
  BY DEF Oldify
<1>. QED BY <1>1, <1>2, <1>3, <1>4, <1>5, <1>6

\* What becomes of the field of a major block that was there before.
LEMMA MinorFields ==
  ASSUME GCInv, NEW T, NEW fwd \in [Survivors -> T],
         NEW a \in Major, a \notin Image(fwd), NEW i \in Ix
  PROVE  /\ \/ FieldCopied(fwd, a, i) = Unit /\ IsEphe(a) /\ (i = Key => fld[a][i] \in Young)
            \/ fld[a][i] \in Survivors /\ FieldCopied(fwd, a, i) = fwd[fld[a][i]]
            \/ fld[a][i] \notin Young /\ FieldCopied(fwd, a, i) = fld[a][i]
<1>. USE AddressFacts
<1>1. DOMAIN fwd = Survivors /\ Survivors \subseteq Young
  BY SurvivorsYoung
<1>2. CASE DeadFields(fwd, a) # {} /\ (i = Data \/ <<a, i>> \in DeadFields(fwd, a))
  <2>1. FieldCopied(fwd, a, i) = Unit
    BY <1>2 DEF FieldCopied
  <2>2. IsEphe(a)
    BY <1>2, InvFacts DEF DeadFields, Tables, Remembered, IsEphe
  <2>3. i = Key => fld[a][i] \in Young
    BY <1>2 DEF DeadFields
  <2>. QED BY <2>1, <2>2, <2>3
<1>3. CASE ~(DeadFields(fwd, a) # {} /\ (i = Data \/ <<a, i>> \in DeadFields(fwd, a)))
           /\ <<a, i>> \in refs \cup epheRefs
  <2>1. FieldCopied(fwd, a, i) = Copied(fwd, fld[a][i])
    BY <1>3 DEF FieldCopied
  <2>2. fld[a][i] \in Young => fld[a][i] \in Survivors
    <3>1. CASE <<a, i>> \in refs
      BY <3>1, SurvivorFields
    <3>2. CASE <<a, i>> \in epheRefs /\ fld[a][i] \in Young \ Survivors
      <4>1. <<a, i>> \in DeadFields(fwd, a)
        BY <1>1, <3>2 DEF DeadFields
      <4>. QED BY <1>3, <4>1
    <3>. QED BY <1>3, <3>1, <3>2
  <2>. QED BY <1>1, <2>1, <2>2 DEF Copied
<1>4. CASE ~(DeadFields(fwd, a) # {} /\ (i = Data \/ <<a, i>> \in DeadFields(fwd, a)))
           /\ <<a, i>> \notin refs \cup epheRefs
  <2>1. FieldCopied(fwd, a, i) = fld[a][i]
    BY <1>4 DEF FieldCopied
  <2>2. fld[a][i] \notin Young
    BY <1>4, InvFacts DEF Tables, Remembered
  <2>. QED BY <2>1, <2>2
<1>. QED BY <1>2, <1>3, <1>4

\* The colours of a set of new blocks.
LEMMA NewColours ==
  ASSUME mk \in MarkState, phase \in Phases, hp \in Nat, NEW S \in SUBSET Major,
         NEW c, c = Coloured(S)
  PROVE  /\ c.stack = mk.stack /\ c.redarken = mk.redarken /\ c.pure = mk.pure
         /\ mk.black \subseteq c.black /\ c.black \subseteq mk.black \cup S
         /\ \A n \in S : /\ phase = "idle" /\ n \in c.black => n \in mk.black
                         /\ Marking \/ phase = "clean" => n \in c.black
                         /\ phase = "sweep" /\ n >= hp => n \in c.black
                         /\ phase = "sweep" /\ n \in c.black => n >= hp \/ n \in mk.black
<1>. USE AddressFacts
<1>1. /\ c.stack = mk.stack /\ c.redarken = mk.redarken /\ c.pure = mk.pure
      /\ c.black = mk.black \cup {a \in S : caml_allocation_color(a) = "black"}
  BY DEF MarkState, Coloured
<1>2. \A n \in S : caml_allocation_color(n) = "black" <=>
        phase \in MarkPhases \cup {"clean"} \/ (phase = "sweep" /\ n >= hp)
  BY DEF caml_allocation_color
<1>3. \A n \in S : n \in c.black <=> n \in mk.black \/ caml_allocation_color(n) = "black"
  BY <1>1
<1>. HIDE DEF Phases
<1>4. \A n \in S : n \in c.black <=>
        n \in mk.black \/ phase \in MarkPhases \cup {"clean"} \/ (phase = "sweep" /\ n >= hp)
  BY <1>2, <1>3
<1>. QED BY <1>1, <1>4 DEF Marking, MarkPhases

\* A minor collection: what is safe and young survives, the copies are safe, and
\* the major heap forgets nothing of what it held.
LEMMA MinorStep ==
  ASSUME GCInv, GCTypeOK', caml_empty_minor_heap
  PROVE  GCInv'
<1>. USE AddressFacts
<1>. DEFINE T == {a \in Major : tag[a] = "free"}
<1>0. PICK fwd \in Injections(Survivors, T) :
        /\ tag' = [a \in Addr |-> IF a \in Young THEN "free"
                                  ELSE IF a \in Image(fwd) THEN "block" ELSE tag[a]]
        /\ fld' = [a \in Addr |-> IF a \in Young THEN Blank
                                  ELSE [i \in Ix |-> FieldCopied(fwd, a, i)]]
        /\ roots' = {Copied(fwd, v) : v \in roots}
        /\ mk' = Coloured(Image(fwd))
        /\ fin' = generic_final_minor_update(fwd)
        /\ refs' = {} /\ epheRefs' = {}
        /\ UNCHANGED <<phase, eph, hp>>
  BY DEF caml_empty_minor_heap
<1>. DEFINE I == Image(fwd)
<1>1. /\ fwd \in [Survivors -> T] /\ DOMAIN fwd = Survivors /\ Survivors \subseteq Young
      /\ Survivors \subseteq Safe
  BY SurvivorsYoung, SurvivorsAlloc, InvFacts, SafeFacts DEF Injections
<1>2. /\ I \subseteq Major /\ \A a \in I : tag[a] = "free" /\ a \notin Alloc
      /\ \A y \in Survivors : fwd[y] \in I
  BY <1>1 DEF Image, Alloc
<1>3. /\ \A a \in Major \ I : tag'[a] = tag[a] /\ \A i \in Ix : fld'[a][i] = FieldCopied(fwd, a, i)
      /\ \A a \in I : tag'[a] = "block" /\ \A i \in Ix : fld'[a][i] = FieldCopied(fwd, a, i)
      /\ \A y \in Young : tag'[y] = "free"
  BY <1>0, <1>2
<1>4. /\ mk \in MarkState /\ phase \in Phases /\ hp \in Nat /\ mk.black \subseteq Alloc
      /\ StackOK(mk) /\ mk.black \subseteq Major
  <2>1. hp \in Nat
    <3>1. hp \in 1 .. NMajor + 1
      BY InvFacts, TypeParts DEF PhaseTypes
    <3>. QED BY <3>1
  <2>. QED BY <2>1, InvFacts, TypeParts DEF PhaseTypes, Colours
<1>. HIDE DEF T, I
<1>5. \A v : /\ v \in Survivors => Copied(fwd, v) = fwd[v] /\ fwd[v] \in I
             /\ v \notin Survivors => Copied(fwd, v) = v
  BY <1>1, <1>2 DEF Copied
<1>6. Alloc' = (Alloc \cap Major) \cup I
  <2>1. \A a \in Addr : a \in Alloc' <=> tag'[a] # "free"
    BY AllocFactsNext
  <2>2. \A a \in Addr : a \in Alloc <=> tag[a] # "free"
    BY InvFacts, AllocFacts
  <2>3. Alloc' \subseteq Addr
    BY AllocFactsNext
  <2>4. ASSUME NEW a \in Addr PROVE a \in Alloc' <=> a \in (Alloc \cap Major) \cup I
    <3>1. CASE a \in Young
      BY <1>2, <1>3, <2>1, <3>1
    <3>2. CASE a \in I
      BY <1>3, <2>1, <3>2
    <3>3. CASE a \in Major \ I
      BY <1>3, <2>1, <2>2, <3>3
    <3>. QED BY <3>1, <3>2, <3>3
  <2>5. (Alloc \cap Major) \cup I \subseteq Addr
    BY <1>2
  <2>. QED BY <2>3, <2>4, <2>5
\* The fields of the copies and those of the other major blocks.
<1>7. ASSUME NEW a \in I, NEW i \in Ix
      PROVE  \E v \in Values(Safe) : /\ fld'[a][i] = Copied(fwd, v)
                                     /\ v \in Young => v \in Survivors
  <2>1. Origin(fwd, a) \in Survivors
    BY <1>1, OriginFacts DEF I
  <2>. DEFINE y == Origin(fwd, a)
  <2>2. fld'[a][i] = Copied(fwd, fld[y][i])
    BY <1>3, <1>7 DEF FieldCopied, I
  <2>3. y \in Safe /\ IsBlock(y)
    BY <1>1, <2>1, InvFacts, AllocFacts
  <2>4. fld[y][i] \in Values(Safe)
    BY <2>3, InvFacts DEF BlocksSafe
  <2>5. fld[y][i] \in Young => fld[y][i] \in Survivors
    BY <2>1, SurvivorFields
  <2>. QED BY <2>2, <2>4, <2>5
<1>8. \A a \in Major \ I, i \in Ix :
        \/ fld'[a][i] = Unit /\ IsEphe(a) /\ (i = Key => fld[a][i] \in Young)
        \/ fld[a][i] \in Survivors /\ fld'[a][i] \in I
        \/ fld[a][i] \notin Young /\ fld'[a][i] = fld[a][i]
  BY <1>1, <1>3, <1>5, MinorFields DEF I
<1>9. /\ mk'.stack = mk.stack /\ mk'.redarken = mk.redarken /\ mk'.pure = mk.pure
      /\ mk.black \subseteq mk'.black /\ mk'.black \subseteq mk.black \cup I
      /\ \A n \in I : /\ phase = "idle" /\ n \in mk'.black => n \in mk.black
                      /\ Marking \/ phase = "clean" => n \in mk'.black
                      /\ phase = "sweep" /\ n >= hp => n \in mk'.black
                      /\ phase = "sweep" /\ n \in mk'.black => n >= hp \/ n \in mk.black
  BY <1>0, <1>2, <1>4, NewColours DEF I
<1>10. \A a \in Alloc \cap Major : a \notin I /\ tag'[a] = tag[a]
  BY <1>2, <1>3
<1>11. Colours'
  <2>1. phase = "sweep" => \A a \in mk'.black : a >= hp
    BY <1>9, InvFacts DEF Colours
  <2>2. phase = "idle" => mk'.black = {}
    BY <1>9, InvFacts DEF Colours
  <2>3. StackOK(mk)'
    <3>1. \A e \in mk.stack : e[1] \in mk.black /\ tag[e[1]] = "block"
      BY <1>4 DEF StackOK, IsBlock
    <3>. QED BY <1>4, <1>9, <1>10, <3>1 DEF StackOK, IsBlock
  <2>4. mk'.black \subseteq Alloc'
    BY <1>4, <1>6, <1>9
  <2>5. ~Marking => mk'.stack = {} /\ mk'.redarken = {}
    BY <1>9, InvFacts DEF Colours
  <2>. QED BY <1>0, <2>1, <2>2, <2>3, <2>4, <2>5 DEF Colours, Marking
<1>12. HeapClosed'
  <2>1. ASSUME NEW a \in Alloc', NEW i \in Ix, phase # "sweep" PROVE fld'[a][i] \in Values(Alloc')
    <3>1. CASE a \in I
      <4>1. PICK v \in Values(Safe) : /\ fld'[a][i] = Copied(fwd, v)
                                      /\ v \in Young => v \in Survivors
        BY <1>7, <3>1
      <4>. QED BY <1>5, <1>6, <4>1, InvFacts DEF Values
    <3>2. CASE a \in Alloc \cap Major
      <4>1. fld[a][i] \in Values(Alloc)
        BY <2>1, <3>2, InvFacts DEF HeapClosed
      <4>2. a \in Major \ I
        BY <1>10, <3>2
      <4>. QED BY <1>6, <1>8, <4>1, <4>2, InvFacts DEF Values
    <3>. QED BY <1>6, <2>1, <3>1, <3>2
  <2>. QED BY <1>0, <2>1 DEF HeapClosed, Values
<1>13. Safe \cap Major \subseteq Safe'
  <2>1. Protected \subseteq Protected'
    <3>1. \A a \in Major : IsBlock(a) => a \in Alloc /\ a \notin I /\ tag'[a] = "block" /\ ~IsEphe(a)
      BY <1>3, <1>10, InvFacts, AllocFacts DEF IsBlock
    <3>2. \A a \in Major, i \in Ix :
            IsBlock(a) /\ fld[a][i] \in Major =>
              fld'[a][i] = fld[a][i] \/ fld[a][i] \in mk'.black
      BY <1>1, <1>8, <3>1
    <3>3. Pending(mk) \subseteq Pending(mk)'
      BY <1>9, <3>1 DEF Pending, IsBlock
    <3>4. \A a \in mk'.black \ mk.black : ~IsBlock(a)
      BY <1>2, <1>9, <3>1
    <3>5. \A a \in Major, i \in Ix :
            /\ IsBlock(a) /\ fld[a][i] \in Major
            /\ <<a, i>> \in Pending(mk) \/ a \in mk'.black \ mk.black
            => <<a, i>> \in Pending(mk)' \/ fld[a][i] \in mk'.black
      BY <3>3, <3>4
    <3>6. \A a \in Major : IsBlock(a) => tag'[a] = "block"
      BY <3>1
    <3>7. mk.black \subseteq mk'.black
      BY <1>9
    <3>. QED BY <3>2, <3>5, <3>6, <3>7, ProtectedGrows, InvFacts
  <2>. QED BY <1>0, <1>6, <1>9, <2>1 DEF Safe, Kept, Marking
<1>14. I \subseteq Safe'
  <2>. SUFFICES ASSUME NEW n \in I PROVE n \in Safe'
    OBVIOUS
  <2>1. n \in Alloc' /\ n \in Nat
    BY <1>2, <1>6
  <2>2. CASE n \in mk'.black
    BY <1>11, <1>12, <2>2, SafeFactsNext
  <2>3. CASE n \notin mk'.black
    <3>1. phase = "idle" \/ (phase = "sweep" /\ ~(n >= hp))
      BY <1>4, <1>9, <2>3 DEF Phases, Marking, MarkPhases
    <3>2. ~(n >= hp) => n < hp
      BY <1>4, <2>1
    <3>. QED BY <1>0, <2>1, <3>1, <3>2 DEF Safe, Kept
  <2>. QED BY <2>2, <2>3
<1>15. ~Marking => Safe' = (Safe \cap Major) \cup I
  <2>1. Safe' \subseteq (Alloc \cap Major) \cup I
    BY <1>6, <1>11, <1>12, SafeFactsNext
  <2>2. ~Marking => Safe' \cap Alloc \subseteq Safe
    <3>1. mk'.black \subseteq mk.black \cup (Addr \ Alloc)
      BY <1>2, <1>9
    <3>. QED BY <1>0, <3>1, SafeUnmarked
  <2>. QED BY <1>13, <1>14, <2>1, <2>2
\* A safe value that is not left behind stays safe.
<1>16. ASSUME NEW v \in Values(Safe), v \in Young => v \in Survivors
       PROVE  Copied(fwd, v) \in Values(Safe') /\ Copied(fwd, v) \notin Young
  <2>1. CASE v \in Survivors
    BY <1>2, <1>5, <1>14, <2>1 DEF Values
  <2>2. CASE v \notin Survivors
    <3>1. v = Unit \/ v \in Safe \cap Major
      BY <1>16, <2>2, InvFacts DEF Values
    <3>. QED BY <1>5, <1>13, <2>2, <3>1 DEF Values
  <2>. QED BY <2>1, <2>2
<1>17. \A a \in I, i \in Ix : fld'[a][i] \in Values(Safe') /\ fld'[a][i] \notin Young
  BY <1>7, <1>16
<1>18. ASSUME NEW a \in Major \ I, NEW i \in Ix, fld[a][i] \in Values(Safe)
       PROVE  fld'[a][i] \in Values(Safe')
  <2>1. fld[a][i] \in Young \/ fld[a][i] = Unit \/ fld[a][i] \in Safe \cap Major
    BY <1>18, InvFacts DEF Values
  <2>. QED BY <1>8, <1>13, <1>14, <2>1 DEF Values
<1>19. BlocksSafe'
  <2>1. ASSUME NEW b \in (Safe \cap Major) \cup I, NEW j \in Ix, tag'[b] = "block"
        PROVE  fld'[b][j] \in Values(Safe')
    <3>1. CASE b \in I
      BY <1>17, <3>1
    <3>2. CASE b \in Safe \cap Major
      <4>1. IsBlock(b) /\ b \in Major \ I
        BY <1>10, <2>1, <3>2, InvFacts DEF IsBlock
      <4>2. fld[b][j] \in Values(Safe)
        BY <3>2, <4>1, InvFacts DEF BlocksSafe
      <4>. QED BY <1>18, <4>1, <4>2
    <3>. QED BY <3>1, <3>2
  <2>2. CASE ~Marking
    BY <1>15, <2>1, <2>2 DEF BlocksSafe, IsBlock, Values
  <2>3. CASE Marking
    <3>0. Marking'
      BY <1>0, <2>3 DEF Marking
    <3>1. ASSUME NEW b \in Alloc', NEW j \in Ix, tag'[b] = "block",
                 b \in Young \/ b \in mk'.black, fld'[b][j] \in Major
          PROVE  fld'[b][j] \in Safe'
      <4>1. b \in (Safe \cap Major) \cup I
        BY <1>4, <1>6, <1>9, <1>2, <3>1, InvFacts
      <4>. QED BY <2>1, <3>1, <4>1 DEF Values
    <3>. QED BY <1>11, <1>12, <3>0, <3>1, MarkedBlocks
  <2>. QED BY <2>2, <2>3
<1>20. RootsSafe'
  <2>1. \A v \in roots : Copied(fwd, v) \in Values(Safe')
    BY <1>16, SurvivorFields, InvFacts DEF Values
  <2>2. roots' \subseteq Addr
    BY TypePartsNext
  <2>. QED BY <1>0, <2>1, <2>2 DEF RootsSafe, Values
<1>21. FinsSafe'
  <2>1. ASSUME NEW f \in Funs
        PROVE  /\ fin'[f].st = "unused" => fin'[f].val = Unit
               /\ fin'[f].st = "todo" => fin'[f].val \in Values(Safe' \ Young)
               /\ fin'[f].st = "recent" => fin'[f].val \in Safe'
               /\ fin'[f].st = "old" =>
                    /\ fin'[f].val \in Alloc' \ Young
                    /\ phase = "mark_main" \/ (phase = "mark_final" /\ f \in LastFuns)
                       \/ fin'[f].val \in Safe'
    <3>1. fin'[f] = IF ~FinIs(f, "recent") THEN fin[f]
                    ELSE IF f \in LastFuns /\ fin[f].val \in Young \ DOMAIN fwd
                      THEN [st |-> "todo", val |-> Unit]
                    ELSE [st |-> "old", val |-> Copied(fwd, fin[f].val)]
      BY <1>0 DEF generic_final_minor_update
    <3>2. CASE ~FinIs(f, "recent")
      <4>1. fin'[f] = fin[f]
        BY <3>1, <3>2
      <4>2. /\ fin[f].st = "unused" => fin[f].val = Unit
            /\ fin[f].st = "todo" => fin[f].val \in Values(Safe \ Young)
            /\ fin[f].st = "old" =>
                 /\ fin[f].val \in Alloc \ Young
                 /\ phase = "mark_main" \/ (phase = "mark_final" /\ f \in LastFuns)
                    \/ fin[f].val \in Safe
        BY InvFacts DEF FinsSafe, FinIs
      <4>3. Safe \ Young \subseteq Safe' /\ Alloc \ Young \subseteq Alloc'
        BY <1>6, <1>13, InvFacts
      <4>4. fin[f].st # "recent"
        BY <3>2 DEF FinIs
      <4>. QED BY <4>1, <4>2, <4>3, <4>4 DEF Values
    <3>3. CASE FinIs(f, "recent") /\ f \in LastFuns /\ fin[f].val \in Young \ DOMAIN fwd
      <4>1. fin'[f] = [st |-> "todo", val |-> Unit]
        BY <3>1, <3>3
      <4>. QED BY <4>1 DEF Values
    <3>4. CASE FinIs(f, "recent") /\ ~(f \in LastFuns /\ fin[f].val \in Young \ DOMAIN fwd)
      <4>1. fin'[f] = [st |-> "old", val |-> Copied(fwd, fin[f].val)]
        BY <3>1, <3>4
      <4>2. fin'[f].st = "old" /\ fin'[f].val = Copied(fwd, fin[f].val)
        BY <4>1
      <4>3. fin[f].val \in Safe
        BY <3>4, InvFacts DEF FinsSafe
      <4>4. fin[f].val \in Young => fin[f].val \in Survivors
        BY <1>1, <3>4, SurvivorFields DEF Funs
      <4>5. Copied(fwd, fin[f].val) \in Values(Safe') /\ Copied(fwd, fin[f].val) \notin Young
        BY <1>16, <4>3, <4>4 DEF Values
      <4>6. Copied(fwd, fin[f].val) # Unit
        <5>1. fin[f].val \in Addr /\ \A a \in I : a \in Addr
          BY <1>2, <4>3, InvFacts
        <5>2. Copied(fwd, fin[f].val) \in Addr
          BY <1>5, <5>1
        <5>. QED BY <5>2
      <4>7. Safe' \subseteq Alloc'
        BY <1>11, <1>12, SafeFactsNext
      <4>. QED BY <4>2, <4>5, <4>6, <4>7 DEF Values
    <3>. QED BY <3>2, <3>3, <3>4
  <2>. QED BY <1>0, <2>1 DEF FinsSafe, FinIs, Values
<1>22. \A e \in Major : tag'[e] = "ephe" <=> IsEphe(e)
  BY <1>2, <1>3 DEF IsEphe
<1>23. Lists'
  <2>1. Ephes' = Ephes /\ Ephes \subseteq Major
    BY <1>0, InvFacts, TypeParts DEF Ephes, ListTypes
  <2>2. \A e \in Ephes : tag'[e] = "ephe"
    BY <1>22, <2>1, InvFacts DEF Lists
  <2>3. ASSUME NEW e \in Major, tag'[e] = "ephe", phase \in {"clean", "sweep"} => e \in Safe'
        PROVE  e \in Ephes
    <3>1. IsEphe(e) /\ e \notin I
      BY <1>3, <1>22, <2>3
    <3>2. phase \in {"clean", "sweep"} => e \in Safe
      BY <1>15, <2>3, <3>1 DEF Marking, MarkPhases
    <3>. QED BY <3>1, <3>2, InvFacts DEF Lists
  <2>4. phase = "clean" => eph.skipped = {} /\ eph.checked \subseteq Safe'
    BY <1>13, <2>1, InvFacts DEF Lists, Ephes
  <2>5. phase = "sweep" => Ephes \subseteq Safe'
    BY <1>13, <2>1, InvFacts DEF Lists
  <2>. QED BY <1>0, <2>1, <2>2, <2>3, <2>4, <2>5 DEF Lists, IsEphe
<1>24. EphesSafe'
  <2>1. \A e \in eph.checked \cup eph.skipped :
          /\ e \in Major \ I /\ IsEphe(e) /\ e \in Alloc
    <3>1. \A e \in Ephes : e \in Major /\ IsEphe(e)
      BY InvFacts, TypeParts DEF Lists, Ephes, ListTypes
    <3>. QED BY <1>10, <3>1, InvFacts, AllocFacts DEF Ephes
  <2>2. Marking => \A e \in eph.checked : fld'[e][Data] \in Values(Safe')
    BY <1>18, <2>1, InvFacts DEF EphesSafe
  <2>3. Marking /\ mk'.pure =>
          \A e \in eph.skipped : fld'[e][Data] \in Values(Safe') \/ e \in Major \ mk'.black
                                 \/ fld'[e][Key] \in Major \ mk'.black
    <3>. SUFFICES ASSUME Marking, mk'.pure, NEW e \in eph.skipped
                  PROVE  fld'[e][Data] \in Values(Safe') \/ e \in Major \ mk'.black
                         \/ fld'[e][Key] \in Major \ mk'.black
      OBVIOUS
    <3>1. fld[e][Data] \in Values(Safe) \/ e \in Major \ mk.black \/ fld[e][Key] \in Major \ mk.black
      BY <1>9, InvFacts DEF EphesSafe, White
    <3>2. CASE fld[e][Data] \in Values(Safe)
      BY <1>18, <2>1, <3>2
    <3>3. CASE e \in Major \ mk.black
      BY <1>9, <2>1, <3>3
    <3>4. CASE fld[e][Key] \in Major \ mk.black
      <4>1. fld[e][Key] \in Values(Alloc)
        BY <2>1, InvFacts DEF HeapClosed, Marking, MarkPhases
      <4>2. fld[e][Key] \notin I
        BY <1>2, <3>4, <4>1 DEF Values
      <4>3. fld'[e][Key] = fld[e][Key]
        BY <1>1, <1>8, <2>1, <3>4
      <4>. QED BY <1>9, <3>4, <4>2, <4>3
    <3>. QED BY <3>1, <3>2, <3>3, <3>4
  <2>4. phase = "clean" =>
          \A e \in Safe' : tag'[e] = "ephe" /\ fld'[e][Key] \in Values(Safe')
                           => fld'[e][Data] \in Values(Safe')
    <3>. SUFFICES ASSUME phase = "clean", NEW e \in Safe', tag'[e] = "ephe",
                         fld'[e][Key] \in Values(Safe')
                  PROVE  fld'[e][Data] \in Values(Safe')
      OBVIOUS
    <3>1. Safe' = (Safe \cap Major) \cup I
      BY <1>15 DEF Marking, MarkPhases
    <3>2. e \in Safe /\ e \in Major \ I /\ IsEphe(e)
      BY <1>2, <1>3, <1>22, <3>1
    <3>3. fld[e][Key] \in Values(Alloc)
      BY <3>2, InvFacts DEF HeapClosed
    <3>4. CASE fld[e][Key] \in Values(Safe)
      <4>1. fld[e][Data] \in Values(Safe)
        BY <3>2, <3>4, InvFacts DEF EphesSafe
      <4>. QED BY <1>18, <3>2, <4>1
    <3>5. CASE fld[e][Key] \notin Values(Safe)
      <4>1. fld[e][Key] \in Major /\ fld[e][Key] \notin I /\ fld[e][Key] # Unit
        BY <1>2, <3>3, <3>5, InvFacts, SafeFacts DEF Values
      <4>2. fld'[e][Key] = fld[e][Key]
        BY <1>1, <1>8, <3>2, <4>1
      <4>. QED BY <3>1, <3>5, <4>1, <4>2 DEF Values
    <3>. QED BY <3>4, <3>5
  <2>5. phase = "clean" => \A e \in eph.checked, i \in Ix : fld'[e][i] \in Values(Safe')
    BY <1>18, <2>1, InvFacts DEF EphesSafe
  <2>6. phase = "sweep" =>
          \A e \in Safe', i \in Ix : tag'[e] = "ephe" => fld'[e][i] \in Values(Safe')
    <3>. SUFFICES ASSUME phase = "sweep", NEW e \in Safe', NEW i \in Ix, tag'[e] = "ephe"
                  PROVE  fld'[e][i] \in Values(Safe')
      OBVIOUS
    <3>1. Safe' = (Safe \cap Major) \cup I
      BY <1>15 DEF Marking, MarkPhases
    <3>2. e \in Safe /\ e \in Major \ I /\ IsEphe(e)
      BY <1>2, <1>3, <1>22, <3>1
    <3>3. fld[e][i] \in Values(Safe)
      BY <3>2, InvFacts DEF EphesSafe
    <3>. QED BY <1>18, <3>2, <3>3
  <2>. QED BY <1>0, <2>2, <2>3, <2>4, <2>5, <2>6
           DEF EphesSafe, IsEphe, Marking, White, Values
<1>25. Tables'
  <2>1. \A a \in Major, i \in Ix : fld'[a][i] \notin Young
    BY <1>2, <1>8, <1>17
  <2>. QED BY <1>0, <2>1 DEF Tables, Remembered
<1>. QED BY <1>11, <1>12, <1>19, <1>20, <1>21, <1>23, <1>24, <1>25 DEF GCInv

-----------------------------------------------------------------------------
(* The invariant of the specification *)

LEMMA InitSafe == GCInit => GCInv
<1>. SUFFICES ASSUME GCInit PROVE GCInv
  OBVIOUS
<1>. USE AddressFacts DEF GCInit
<1>1. GCTypeOK
  BY BlankFields DEF GCTypeOK, Phases, Unused, Field
<1>2. /\ Alloc = {} /\ Safe = {} /\ Ephes = {}
      /\ \A a \in Addr : tag[a] = "free" /\ \A i \in Ix : fld[a][i] = Unit
  BY BlankFields DEF Alloc, Safe, Ephes
<1>3. Colours /\ HeapClosed /\ RootsSafe /\ BlocksSafe
  BY <1>2 DEF Colours, StackOK, HeapClosed, RootsSafe, BlocksSafe
<1>4. FinsSafe
  BY DEF FinsSafe, FinIs, Unused
<1>5. Lists /\ EphesSafe
  BY <1>2 DEF Lists, EphesSafe, IsEphe, Marking, MarkPhases
<1>6. Tables
  BY <1>2 DEF Tables, Remembered
<1>. QED BY <1>1, <1>3, <1>4, <1>5, <1>6 DEF GCInv

LEMMA StepSafe == KeysKeptWhileMarking /\ GCInv /\ [GCNext]_vars => GCInv'
<1>. SUFFICES ASSUME KeysKeptWhileMarking, GCInv, [GCNext]_vars PROVE GCInv'
  OBVIOUS
<1>0. GCTypeOK
  BY DEF GCInv
<1>1. CASE UNCHANGED vars
  <2>1. GCTypeOK'
    BY <1>0, <1>1 DEF vars, GCTypeOK
  <2>2. UNCHANGED <<heap, tables, phase, mk, eph, hp>> /\ UNCHANGED <<roots, fin>>
    BY <1>1 DEF vars, heap, tables
  <2>3. Safe' = Safe /\ Alloc' = Alloc
    BY <2>1, <2>2, QuietStep
  <2>4. RootsSafe' /\ FinsSafe'
    BY <2>2, <2>3, FinsKept, InvFacts DEF RootsSafe
  <2>. QED BY <2>1, <2>2, <2>4, QuietStep
<1>2. CASE MinorCollection
  <2>1. caml_empty_minor_heap
    BY <1>2 DEF MinorCollection
  <2>. QED BY <1>0, <2>1, MinorTypes, MinorStep
<1>3. CASE caml_major_collection_slice
  BY <1>0, <1>3, SliceTypes, SliceSteps
<1>4. CASE Program
  <2>1. GCTypeOK'
    BY <1>0, <1>4, ProgramTypes
  <2>. QED BY <1>4, <2>1, AllocSteps, ModifyStep, RegisterSteps, EphemeronSteps DEF Program
<1>. QED BY <1>1, <1>2, <1>3, <1>4 DEF GCNext, Collector

\* A program that changes no ephemeron key while the collector marks keeps the
\* invariant: in every interleaving of slices, minor collections and program
\* steps, what the program holds is safe.
THEOREM GCSafety == KeysKeptWhileMarking => (GCSpec => []GCInv)
<1>. SUFFICES ASSUME KeysKeptWhileMarking PROVE GCSpec => []GCInv
  OBVIOUS
<1>1. GCInv /\ [GCNext]_vars => GCInv'
  BY StepSafe
<1>. QED BY <1>1, InitSafe, PTL DEF GCSpec

\* Every field of a major block that names a young one is in a table, and no
\* entry of a table outlives its block.
THEOREM TablesComplete == KeysKeptWhileMarking => (GCSpec => []Remembered)
<1>. SUFFICES ASSUME KeysKeptWhileMarking PROVE GCSpec => []Remembered
  OBVIOUS
<1>1. GCInv => Remembered
  BY DEF GCInv, Tables
<1>2. GCSpec => []GCInv
  BY GCSafety
<1>. QED BY <1>1, <1>2, PTL

\* An ephemeron that the cleaning has left its data has marked data, as the
\* comment of caml_ephe_clean_partial says, when no key changes while marking.
THEOREM CleanedIsMarked == KeysKeptWhileMarking => (GCSpec => []CleanedDataMarked)
<1>. SUFFICES ASSUME KeysKeptWhileMarking PROVE GCSpec => []CleanedDataMarked
  OBVIOUS
<1>1. GCInv => CleanedDataMarked
  <2>. SUFFICES ASSUME GCInv, phase = "clean", NEW e \in eph.checked
                PROVE  fld[e][Data] \notin White(mk)
    BY DEF CleanedDataMarked
  <2>1. fld[e][Data] \in Values(Safe)
    BY InvFacts, AddressFacts DEF EphesSafe
  <2>2. Safe = (Alloc \cap Young) \cup mk.black
    BY InvFacts, SafeFacts
  <2>. QED BY <2>1, <2>2, AddressFacts DEF Values, White
<1>2. GCSpec => []GCInv
  BY GCSafety
<1>. QED BY <1>1, <1>2, PTL

-----------------------------------------------------------------------------
(* What the program can reach *)

ReachRoots == (roots \cup {fin[f].val : f \in ToDo}) \ {Unit}

\* The rounds that Reachable is computed by.
ReachRounds(g) ==
  /\ g[0] = ReachRoots
  /\ \A n \in 1 .. NMajor + NYoung : g[n] = ReachStep(g[n - 1]) \ {Unit}
  /\ Reachable = g[NMajor + NYoung]

LEMMA ReachableRounds ==
  ASSUME NEW X, ReachRoots \in SUBSET X,
         \A S \in SUBSET X : ReachStep(S) \ {Unit} \in SUBSET X
  PROVE  \E g \in [0 .. NMajor + NYoung -> SUBSET X] : ReachRounds(g)
<1>. DEFINE N == NMajor + NYoung
            Upto(g) == g = [n \in 0 .. NMajor + NYoung |->
                             IF n = 0 THEN (roots \cup {fin[f].val : f \in ToDo}) \ {Unit}
                             ELSE ReachStep(g[n - 1]) \ {Unit}]
<1>1. N \in Nat
  BY GCAssumption
<1>2. PICK F : \A n \in 1 .. N, S \in SUBSET X : F[n][S] = ReachStep(S) \ {Unit}
  <2>. DEFINE G == [n \in 1 .. N |-> [S \in SUBSET X |-> ReachStep(S) \ {Unit}]]
  <2>1. \A n \in 1 .. N, S \in SUBSET X : G[n][S] = ReachStep(S) \ {Unit}
    OBVIOUS
  <2>. HIDE DEF G
  <2>. QED BY <2>1
<1>3. PICK g \in [0 .. N -> SUBSET X] : Iterates(g, N, ReachRoots, F)
  <2>1. \A n \in 1 .. N, S \in SUBSET X : F[n][S] \in SUBSET X
    BY <1>2
  <2>. HIDE DEF N
  <2>. QED BY <1>1, <2>1, RecursiveFunction
<1>4. Upto(g)
  <2>1. ASSUME NEW n \in 1 .. N PROVE g[n] = ReachStep(g[n - 1]) \ {Unit}
    <3>1. g[n - 1] \in SUBSET X
      BY <1>1
    <3>. QED BY <1>2, <1>3, <3>1 DEF Iterates
  <2>2. \A n \in 0 .. N : g[n] = IF n = 0 THEN ReachRoots ELSE ReachStep(g[n - 1]) \ {Unit}
    BY <1>1, <1>3, <2>1 DEF Iterates
  <2>3. g = [n \in 0 .. N |-> g[n]]
    OBVIOUS
  <2>. QED BY <2>2, <2>3 DEF ReachRoots
<1>. DEFINE h == CHOOSE x : Upto(x)
<1>5. Upto(h)
  <2>. HIDE DEF Upto
  <2>. QED BY <1>4
<1>6. Reachable = h[NMajor + NYoung]
  BY Zenon DEF Reachable
<1>7. /\ DOMAIN h = 0 .. N /\ h[0] = ReachRoots
      /\ \A n \in 1 .. N : h[n] = ReachStep(h[n - 1]) \ {Unit}
  <2>. HIDE DEF h
  <2>1. h = [n \in 0 .. N |-> IF n = 0 THEN ReachRoots ELSE ReachStep(h[n - 1]) \ {Unit}]
    BY <1>5 DEF ReachRoots
  <2>2. N >= 0 /\ 0 \in 0 .. N /\ \A n \in 1 .. N : n \in 0 .. N /\ n # 0
    BY <1>1
  <2>3. DOMAIN h = 0 .. N
    BY <2>1
  <2>4. h[0] = ReachRoots
    BY <2>1, <2>2
  <2>5. \A n \in 1 .. N : h[n] = ReachStep(h[n - 1]) \ {Unit}
    BY <2>1, <2>2
  <2>. QED BY <2>3, <2>4, <2>5
<1>8. h \in [0 .. N -> SUBSET X]
  <2>. HIDE DEF h
  <2>. DEFINE Good == {n \in 0 .. N : h[n] \in SUBSET X}
  <2>1. 0 \in Good
    BY <1>1, <1>7
  <2>2. ASSUME NEW n \in 1 .. N, n - 1 \in Good PROVE n \in Good
    <3>1. h[n - 1] \in SUBSET X /\ n \in 0 .. N
      BY <1>1, <2>2
    <3>. QED BY <1>7, <3>1
  <2>3. \A n \in 0 .. N : n \in Good
    <3>. HIDE DEF Good, N
    <3>. QED BY <1>1, <2>1, <2>2, UpTo
  <2>4. h = [n \in 0 .. N |-> h[n]]
    BY <1>5
  <2>. QED BY <2>3, <2>4
<1>. HIDE DEF h
<1>. QED BY <1>6, <1>7, <1>8 DEF ReachRounds

\* A set that holds the roots and what one step reaches from its members holds
\* all that is reachable.
LEMMA ReachableWithin ==
  ASSUME NEW X, ReachRoots \in SUBSET X,
         \A a \in X, i \in Ix : IsBlock(a) => fld[a][i] \in X \cup {Unit},
         \A e \in X : tag[e] = "ephe" /\ fld[e][Key] \in X \cup {Unit}
                      => fld[e][Data] \in X \cup {Unit}
  PROVE  Reachable \in SUBSET X
<1>1. \A S \in SUBSET X : ReachStep(S) \ {Unit} \in SUBSET X
  BY DEF ReachStep
<1>2. PICK g \in [0 .. NMajor + NYoung -> SUBSET X] : ReachRounds(g)
  BY <1>1, ReachableRounds
<1>. QED BY <1>2, GCAssumption DEF ReachRounds

\* The roots hold what the program holds and what waits for its function.
LEMMA RootFacts ==
  ASSUME GCInv
  PROVE  ReachRoots \subseteq Safe /\ \A v \in ReachRoots : v \in Young => v \in roots
<1>1. ASSUME NEW v \in ReachRoots PROVE v \in roots \/ v \in Safe \ Young
  <2>1. CASE v \in roots
    BY <2>1
  <2>2. CASE v \notin roots
    <3>1. PICK f \in ToDo : v = fin[f].val /\ v # Unit
      BY <2>2 DEF ReachRoots
    <3>2. fin[f].val \in Values(Safe \ Young)
      BY <3>1, InvFacts DEF ToDo, FinsSafe
    <3>. QED BY <3>1, <3>2 DEF Values
  <2>. QED BY <2>1, <2>2
<1>. QED BY <1>1, InvFacts

\* What the program can reach is allocated.
LEMMA ReachableAlloc ==
  ASSUME GCInv
  PROVE  /\ Reachable \subseteq Alloc
         /\ ~Marking => Reachable \subseteq Safe
<1>. USE AddressFacts
<1>1. CASE Marking
  <2>1. \A a \in Alloc, i \in Ix : fld[a][i] \in Alloc \cup {Unit}
    BY <1>1, InvFacts DEF HeapClosed, Values, Marking, MarkPhases
  <2>2. ReachRoots \in SUBSET Alloc
    BY RootFacts, InvFacts
  <2>3. Reachable \in SUBSET Alloc
    BY <2>1, <2>2, ReachableWithin
  <2>. QED BY <1>1, <2>3
<1>2. CASE ~Marking
  <2>1. ASSUME NEW a \in Safe, NEW i \in Ix, IsBlock(a) PROVE fld[a][i] \in Safe \cup {Unit}
    BY <2>1, InvFacts DEF BlocksSafe, Values
  <2>2. ASSUME NEW e \in Safe, tag[e] = "ephe", fld[e][Key] \in Safe \cup {Unit}
        PROVE  fld[e][Data] \in Safe \cup {Unit}
    <3>1. CASE phase = "idle"
      BY <3>1, InvFacts, SafeFacts DEF HeapClosed, Values
    <3>2. CASE phase = "clean"
      BY <2>2, <3>2, InvFacts DEF EphesSafe, IsEphe, Values
    <3>3. CASE phase = "sweep"
      BY <2>2, <3>3, InvFacts DEF EphesSafe, IsEphe, Values
    <3>. QED BY <1>2, <3>1, <3>2, <3>3, InvFacts, TypeParts
             DEF PhaseTypes, Phases, Marking, MarkPhases
  <2>3. Reachable \in SUBSET Safe
    BY <2>1, <2>2, RootFacts, ReachableWithin
  <2>. QED BY <2>3, InvFacts
<1>. QED BY <1>1, <1>2

\* The minor collection keeps every young block the program can reach.
LEMMA ReachableSurvives ==
  ASSUME GCInv
  PROVE  \A y \in Reachable : y \in Young => y \in Survivors
<1>. USE AddressFacts
<1>. DEFINE X == {a \in Addr : a \in Young => a \in Survivors}
<1>1. ReachRoots \in SUBSET X
  BY RootFacts, SurvivorFields, InvFacts
<1>2. \A a \in Addr, i \in Ix : fld[a][i] \in Addr \cup {Unit}
  BY InvFacts, AllocFacts DEF Field
<1>3. ASSUME NEW a \in X, NEW i \in Ix, IsBlock(a) PROVE fld[a][i] \in X \cup {Unit}
  <2>1. CASE a \in Young
    BY <1>2, <2>1, SurvivorFields
  <2>2. CASE a \in Major
    <3>1. fld[a][i] \in Young => <<a, i>> \in refs
      BY <1>3, <2>2, InvFacts DEF Tables, Remembered, IsBlock
    <3>2. fld[a][i] \in Young => fld[a][i] \in Survivors
      BY <3>1, SurvivorFields
    <3>. QED BY <1>2, <3>2
  <2>. QED BY <2>1, <2>2
<1>4. ASSUME NEW e \in X, tag[e] = "ephe", fld[e][Key] \in X \cup {Unit}
      PROVE  fld[e][Data] \in X \cup {Unit}
  <2>1. e \in Major
    BY <1>4, InvFacts, AllocFacts DEF IsEphe
  <2>2. fld[e][Data] \in Young => <<e, Data>> \in epheRefs
    BY <1>4, <2>1, InvFacts DEF Tables, Remembered
  <2>3. fld[e][Key] \notin Young \ Survivors
    BY <1>4
  <2>4. fld[e][Data] \in Young => fld[e][Data] \in Survivors
    BY <2>2, <2>3, SurvivorFields
  <2>. QED BY <1>2, <2>4
<1>5. Reachable \in SUBSET X
  <2>. HIDE DEF X
  <2>. QED BY <1>1, <1>3, <1>4, ReachableWithin
<1>. QED BY <1>5

\* When a scan of the ephemerons darkens nothing, all that the program can
\* reach in the major heap is black.
LEMMA ReachableMarked ==
  ASSUME GCInv, ListDone, mk.pure
  PROVE  \A a \in Reachable : a \in Young \/ a \in mk.black
<1>. USE AddressFacts
<1>1. Safe = (Alloc \cap Young) \cup mk.black
  BY InvFacts, SafeFacts, ProtectedBlack DEF ListDone
<1>2. ASSUME NEW a \in Safe, NEW i \in Ix, IsBlock(a) PROVE fld[a][i] \in Safe \cup {Unit}
  BY <1>2, InvFacts DEF BlocksSafe, Values
<1>3. ASSUME NEW e \in Safe, tag[e] = "ephe", fld[e][Key] \in Safe \cup {Unit}
      PROVE  fld[e][Data] \in Safe \cup {Unit}
  <2>1. e \in Major /\ e \in mk.black
    BY <1>1, <1>3, InvFacts, AllocFacts DEF IsEphe
  <2>2. e \in eph.checked \cup eph.skipped
    BY <1>3, <2>1, InvFacts DEF Lists, IsEphe, Ephes, ListDone, Marking, MarkPhases
  <2>3. e \notin White(mk) /\ fld[e][Key] \notin White(mk)
    BY <1>1, <1>3, <2>1 DEF White
  <2>. QED BY <2>2, <2>3, InvFacts DEF EphesSafe, ListDone, Values
<1>4. Reachable \in SUBSET Safe
  BY <1>2, <1>3, RootFacts, ReachableWithin
<1>. QED BY <1>1, <1>4

\* Whatever slice, minor collection or program step comes next, a block the
\* program can reach is allocated and so is what its fields name.
THEOREM NothingDangles == KeysKeptWhileMarking => (GCSpec => []NoDangling)
<1>. SUFFICES ASSUME KeysKeptWhileMarking PROVE GCSpec => []NoDangling
  OBVIOUS
<1>1. GCInv => NoDangling
  <2>. SUFFICES ASSUME GCInv, NEW a \in Reachable
                PROVE  /\ tag[a] # "free"
                       /\ \A i \in Ix : fld[a][i] \in Addr => tag[fld[a][i]] # "free"
    BY DEF NoDangling
  <2>1. a \in Alloc /\ tag[a] # "free" /\ a \in Addr
    BY ReachableAlloc DEF Alloc
  <2>2. ASSUME NEW i \in Ix PROVE fld[a][i] \in Values(Alloc)
    <3>1. CASE phase # "sweep"
      BY <2>1, <3>1, InvFacts DEF HeapClosed
    <3>2. CASE phase = "sweep"
      <4>1. a \in Safe
        BY <3>2, ReachableAlloc DEF Marking, MarkPhases
      <4>2. fld[a][i] \in Values(Safe)
        BY <2>1, <3>2, <4>1, InvFacts, AllocFacts DEF BlocksSafe, EphesSafe
      <4>. QED BY <4>2, InvFacts DEF Values
    <3>. QED BY <3>1, <3>2
  <2>3. \A i \in Ix : fld[a][i] \in Addr => tag[fld[a][i]] # "free"
    BY <2>2, AddressFacts DEF Values, Alloc
  <2>. QED BY <2>1, <2>3
<1>2. GCSpec => []GCInv
  BY GCSafety
<1>. QED BY <1>1, <1>2, PTL

\* Once marking is over nothing white is reachable any more, whatever the
\* program reads from ephemerons that are not cleaned yet.
THEOREM TheDeadStayDead == KeysKeptWhileMarking => (GCSpec => []DeadStaysDead)
<1>. SUFFICES ASSUME KeysKeptWhileMarking PROVE GCSpec => []DeadStaysDead
  OBVIOUS
<1>1. GCInv => DeadStaysDead
  <2>. SUFFICES ASSUME GCInv, phase \in {"clean", "sweep"}, NEW a \in Reachable \cap Major
                PROVE  a \in mk.black \/ (phase = "sweep" /\ a < hp)
    BY DEF DeadStaysDead
  <2>1. a \in Safe
    BY ReachableAlloc DEF Marking, MarkPhases
  <2>. QED BY <2>1, InvFacts, SafeFacts, AddressFacts
<1>2. GCSpec => []GCInv
  BY GCSafety
<1>. QED BY <1>1, <1>2, PTL

\* A finalisation function only comes to wait by the end of the two markings,
\* for a white value, or by a minor collection, for a young one that dies.
LEMMA FinalisedValues ==
  ASSUME GCInv, GCNext, NEW f \in Funs, fin[f].st # "todo", fin'[f].st = "todo"
  PROVE  /\ \/ ListDone /\ mk.pure /\ fin[f].val \in White(mk)
            \/ fin[f].val \in Young \ Survivors
         /\ f \in LastFuns => fin'[f].val = Unit
<1>. USE AddressFacts
<1>0. fin \in [Funs -> FinState]
  BY InvFacts, TypeParts DEF FinTypes
<1>1. CASE MinorCollection
  <2>1. PICK fwd \in Injections(Survivors, {a \in Major : tag[a] = "free"}) :
          fin' = generic_final_minor_update(fwd)
    BY <1>1 DEF MinorCollection, caml_empty_minor_heap
  <2>2. DOMAIN fwd = Survivors
    BY <2>1 DEF Injections
  <2>3. fin'[f] = IF ~FinIs(f, "recent") THEN fin[f]
                  ELSE IF f \in LastFuns /\ fin[f].val \in Young \ DOMAIN fwd
                    THEN [st |-> "todo", val |-> Unit]
                  ELSE [st |-> "old", val |-> Copied(fwd, fin[f].val)]
    BY <2>1, Zenon DEF generic_final_minor_update
  <2>4. FinIs(f, "recent") /\ f \in LastFuns /\ fin[f].val \in Young \ DOMAIN fwd
        /\ fin'[f] = [st |-> "todo", val |-> Unit]
    BY <2>3
  <2>. QED BY <2>2, <2>4
<1>2. CASE mark_main_done
  <2>1. fin' = generic_final_update(WhiteOld(FirstFuns), TRUE) /\ ListDone /\ mk.pure
    BY <1>2 DEF mark_main_done
  <2>2. f \in WhiteOld(FirstFuns)
    BY <2>1 DEF generic_final_update
  <2>3. f \notin LastFuns
    BY <2>2, GCAssumption DEF WhiteOld
  <2>. QED BY <2>1, <2>2, <2>3 DEF WhiteOld
<1>3. CASE mark_final_done
  <2>1. fin' = generic_final_update(WhiteOld(LastFuns), FALSE) /\ ListDone /\ mk.pure
    BY <1>3 DEF mark_final_done
  <2>2. f \in WhiteOld(LastFuns) /\ fin'[f].val = Unit
    BY <2>1 DEF generic_final_update
  <2>. QED BY <2>1, <2>2 DEF WhiteOld
<1>4. CASE caml_major_collection_slice /\ ~mark_main_done /\ ~mark_final_done
  <2>1. UNCHANGED fin
    BY <1>4 DEF caml_major_collection_slice, start_cycle, mark_slice_darken, redarken_chunk,
                mark_ephe_aux, mark_scan_again, clean_slice, init_sweep_phase, sweep_slice,
                sweep_done
  <2>. QED BY <2>1
<1>5. CASE Program
  <2>1. CASE generic_final_register
    <3>1. PICK g \in Funs, v \in HeldBlocks : fin' = [fin EXCEPT ![g] = [st |-> "recent", val |-> v]]
      BY <2>1 DEF generic_final_register
    <3>. QED BY <1>0, <3>1
  <2>2. CASE caml_final_do_calls
    <3>1. PICK g \in ToDo : fin' = [fin EXCEPT ![g] = Unused]
      BY <2>2 DEF caml_final_do_calls
    <3>. QED BY <1>0, <3>1 DEF Unused
  <2>3. CASE ~generic_final_register /\ ~caml_final_do_calls
    <3>1. UNCHANGED fin
      BY <1>5, <2>3 DEF Program, Alloc_small, caml_alloc_shr, caml_ephemeron_create, caml_modify,
                        Load, Drop, caml_ephemeron_set_key, caml_ephemeron_unset_key,
                        caml_ephemeron_set_data, caml_ephemeron_unset_data, caml_ephemeron_get
    <3>. QED BY <3>1
  <2>. QED BY <2>1, <2>2, <2>3
<1>. QED BY <1>1, <1>2, <1>3, <1>4, <1>5 DEF GCNext, Collector

\* A value is handed to its finalisation function by either collector only when
\* the program cannot reach it; Gc.finalise_last forgets it.
THEOREM FinalisesTheDead == KeysKeptWhileMarking => (GCSpec => FinalisedWhenDead)
<1>. SUFFICES ASSUME KeysKeptWhileMarking PROVE GCSpec => FinalisedWhenDead
  OBVIOUS
<1>. DEFINE Dead == \A f \in Funs :
                      fin[f].st # "todo" /\ fin'[f].st = "todo" =>
                        /\ fin[f].val \notin Reachable
                        /\ f \in LastFuns => fin'[f].val = Unit
<1>1. GCInv /\ [GCNext]_vars => [Dead]_vars
  <2>. SUFFICES ASSUME GCInv, GCNext, NEW f \in Funs, fin[f].st # "todo", fin'[f].st = "todo"
                PROVE  fin[f].val \notin Reachable /\ (f \in LastFuns => fin'[f].val = Unit)
    OBVIOUS
  <2>1. fin[f].val \in White(mk) => fin[f].val \notin Young /\ fin[f].val \notin mk.black
    BY AddressFacts DEF White
  <2>. QED BY <2>1, FinalisedValues, ReachableMarked, ReachableSurvives
<1>2. GCSpec => []GCInv
  BY GCSafety
<1>. QED BY <1>1, <1>2, PTL DEF GCSpec, FinalisedWhenDead

\* The steps of the collectors that empty the data of an ephemeron.
LEMMA DataTaken ==
  ASSUME GCInv, Collector, NEW e \in Major, tag[e] = "ephe",
         fld[e][Data] # Unit, fld'[e][Data] = Unit, e \in Reachable
  PROVE  fld[e][Key] # Unit /\ fld[e][Key] \notin Reachable
<1>. USE AddressFacts
<1>0. DOMAIN fld = Addr
  BY InvFacts, TypeParts DEF HeapTypes
<1>1. CASE MinorCollection
  <2>. DEFINE T == {a \in Major : tag[a] = "free"}
  <2>1. PICK fwd \in Injections(Survivors, T) :
          fld' = [a \in Addr |-> IF a \in Young THEN Blank
                                 ELSE [i \in Ix |-> FieldCopied(fwd, a, i)]]
    BY <1>1 DEF MinorCollection, caml_empty_minor_heap
  <2>2. fwd \in [Survivors -> T] /\ DOMAIN fwd = Survivors
    BY <2>1 DEF Injections
  <2>3. e \notin Image(fwd)
    BY <2>2 DEF Image
  <2>4. FieldCopied(fwd, e, Data) = Unit
    BY <2>1
  <2>5. fld[e][Data] \in Young \ Survivors \/ fld[e][Key] \in Young \ Survivors
    <3>1. DeadFields(fwd, e) # {}
      <4>. SUFFICES ASSUME DeadFields(fwd, e) = {} PROVE FALSE
        OBVIOUS
      <4>1. Copied(fwd, fld[e][Data]) = Unit
        BY <2>3, <2>4 DEF FieldCopied
      <4>. QED BY <2>2, <4>1 DEF Copied
    <3>2. PICK r \in epheRefs : r[1] = e /\ fld[e][r[2]] \in Young \ Survivors
      BY <2>2, <3>1 DEF DeadFields
    <3>3. r[2] \in Ix
      BY InvFacts, TypeParts DEF TableTypes
    <3>. QED BY <3>2, <3>3
  <2>6. fld[e][Key] \in Young \ Survivors
    <3>. SUFFICES ASSUME fld[e][Data] \in Young \ Survivors, fld[e][Key] \notin Young \ Survivors
                  PROVE  FALSE
      BY <2>5
    <3>1. <<e, Data>> \in epheRefs
      BY InvFacts DEF Tables, Remembered
    <3>. QED BY <3>1, SurvivorFields
  <2>. QED BY <2>6, ReachableSurvives
<1>2. CASE clean_slice
  <2>1. PICK x \in eph.toCheck : fld' = fld \/ fld' = caml_ephe_clean(fld, x)
    BY <1>2 DEF clean_slice
  <2>2. fld[x][Key] \in White(mk) /\ fld' = [fld EXCEPT ![x] = Blank]
    BY <2>1 DEF caml_ephe_clean
  <2>3. fld[e][Key] \in White(mk)
    <3>1. e # x => fld'[e] = fld[e]
      BY <1>0, <2>2
    <3>. QED BY <2>2, <3>1
  <2>4. phase = "clean" /\ Reachable \subseteq Safe
    BY <1>2, ReachableAlloc DEF clean_slice, Marking, MarkPhases
  <2>. QED BY <2>3, <2>4, InvFacts, SafeFacts DEF White
<1>3. CASE sweep_slice
  <2>1. fld' = fld \/ (hp \in White(mk) /\ fld' = [fld EXCEPT ![hp] = Blank])
    BY <1>3 DEF sweep_slice, heap
  <2>2. hp \notin mk.black /\ e = hp
    <3>1. hp \in White(mk) /\ fld' = [fld EXCEPT ![hp] = Blank]
      BY <2>1
    <3>2. e # hp => fld'[e] = fld[e]
      BY <1>0, <3>1
    <3>. QED BY <3>1, <3>2 DEF White
  <2>3. phase = "sweep" /\ e \in Safe
    BY <1>3, ReachableAlloc DEF sweep_slice, Marking, MarkPhases
  <2>4. hp < hp
    BY <2>2, <2>3, InvFacts, SafeFacts
  <2>. QED BY <2>2, <2>4
<1>4. CASE caml_major_collection_slice /\ ~clean_slice /\ ~sweep_slice
  <2>1. UNCHANGED fld
    BY <1>4 DEF caml_major_collection_slice, start_cycle, mark_slice_darken, redarken_chunk,
                mark_ephe_aux, mark_scan_again, mark_main_done, mark_final_done,
                init_sweep_phase, sweep_done, heap
  <2>. QED BY <2>1
<1>. QED BY <1>1, <1>2, <1>3, <1>4 DEF Collector

\* The collectors take the data of an ephemeron the program can reach only when
\* its key can be reached no more.
THEOREM KeepsEpheData == KeysKeptWhileMarking => (GCSpec => EpheDataKept)
<1>. SUFFICES ASSUME KeysKeptWhileMarking PROVE GCSpec => EpheDataKept
  OBVIOUS
<1>. DEFINE DataKept == \A e \in Major :
                      /\ tag[e] = "ephe" /\ fld[e][Data] # Unit /\ fld'[e][Data] = Unit
                      /\ e \in Reachable /\ Collector
                      => fld[e][Key] # Unit /\ fld[e][Key] \notin Reachable
<1>1. GCInv => DataKept
  BY DataTaken
<1>2. GCSpec => []GCInv
  BY GCSafety
<1>. QED BY <1>1, <1>2, PTL DEF EpheDataKept
=============================================================================
