--------------------------- MODULE FreeListProofs ---------------------------
(***************************************************************************)
(* Theorems of the allocator's model: the heap that next fit keeps is      *)
(* tiled, its free list is exactly the blue blocks, in order and           *)
(* coalesced, and a request that fits is answered.  What a heap is, how a  *)
(* block is given and how the sweeper merges are common to next fit and    *)
(* first fit.  The words of a set of blocks and the blocks of the first    *)
(* heap are folds: before anything is proved of them the fold is shown to  *)
(* satisfy its recurrence.                                                 *)
(***************************************************************************)
EXTENDS FreeList, FiniteSetTheorems, TLAPS

-----------------------------------------------------------------------------
(* Finite sets of numbers, and recursion over the subsets of a finite set   *)

\* A set of natural numbers that is not empty has a least element: the sets of
\* numbers up to each of them are finite, and strict inclusion of finite sets
\* is well founded.
LEMMA LeastOf ==
  ASSUME NEW T \in SUBSET Nat, T # {}
  PROVE  \E low \in T : \A k \in T : low <= k
<1>. DEFINE U == {0 .. n : n \in T}
<1>1. U \subseteq FiniteSubsetsOf(Nat) /\ U # {}
  <2>1. \A n \in T : IsFiniteSet(0 .. n) /\ 0 .. n \subseteq Nat
    BY FS_Interval
  <2>2. \A n \in T : 0 .. n \in FiniteSubsetsOf(Nat)
    BY <2>1 DEF FiniteSubsetsOf
  <2>. QED BY <2>2
<1>2. IsWellFoundedOn(StrictSubsetOrdering(Nat), FiniteSubsetsOf(Nat))
  BY FS_StrictSubsetOrderingWellFounded
<1>3. PICK x \in U : \A y \in U : ~(<<y, x>> \in StrictSubsetOrdering(Nat))
  <2>. HIDE DEF U
  <2>. QED BY <1>1, <1>2, WFMin
<1>4. PICK low \in T : x = 0 .. low
  BY <1>3
<1>5. ASSUME NEW k \in T, ~(low <= k) PROVE FALSE
  <2>1. 0 .. k \subseteq 0 .. low /\ 0 .. k # 0 .. low
    BY <1>5
  <2>2. 0 .. k \in U /\ 0 .. low \in U
    OBVIOUS
  <2>3. <<0 .. k, 0 .. low>> \in StrictSubsetOrdering(Nat)
    BY <2>1, <2>2, <1>1 DEF StrictSubsetOrdering, FiniteSubsetsOf
  <2>. QED BY <2>2, <2>3, <1>3, <1>4
<1>. QED BY <1>4, <1>5

\* Induction up to a number, by its least counterexample.
LEMMA UpTo ==
  ASSUME NEW N \in Nat, NEW Good, 0 \in Good,
         \A n \in 1 .. N : n - 1 \in Good => n \in Good
  PROVE  \A n \in 0 .. N : n \in Good
<1>. SUFFICES ASSUME (0 .. N) \ Good # {} PROVE FALSE
  OBVIOUS
<1>. DEFINE T == (0 .. N) \ Good
<1>1. PICK low \in T : \A k \in T : low <= k
  <2>1. T \in SUBSET Nat /\ T # {}
    OBVIOUS
  <2>. HIDE DEF T
  <2>. QED BY <2>1, LeastOf
<1>2. low \in 1 .. N /\ low - 1 \in 0 .. N
  BY <1>1
<1>3. low - 1 \in Good
  BY <1>1, <1>2
<1>. QED BY <1>1, <1>2, <1>3

\* A finite set of numbers that is not empty has a least and a greatest one.
LEMMA MinOf ==
  ASSUME NEW T \in SUBSET Nat, T # {}
  PROVE  Min(T) \in T /\ \A k \in T : Min(T) <= k
BY LeastOf DEF Min

\* The operator Max takes the greatest element of a set of numbers up to N.
LEMMA MaxOf ==
  ASSUME NEW N \in Nat, NEW T \in SUBSET (0 .. N), T # {}
  PROVE  Max(T) \in T /\ \A k \in T : k <= Max(T)
<1>. DEFINE U == {N - k : k \in T}
<1>1. U \in SUBSET Nat /\ U # {}
  <2>1. \A k \in T : N - k \in Nat
    OBVIOUS
  <2>2. U \subseteq Nat
    BY <2>1
  <2>. QED BY <2>2
<1>2. PICK low \in U : \A k \in U : low <= k
  <2>. HIDE DEF U
  <2>. QED BY <1>1, LeastOf
<1>3. PICK t \in T : low = N - t
  BY <1>2
<1>4. \A k \in T : t >= k
  <2>. TAKE k \in T
  <2>1. N - k \in U
    OBVIOUS
  <2>. QED BY <1>2, <1>3, <2>1
<1>. QED BY <1>3, <1>4 DEF Max

\* The value g gives each subset T of S comes, by F, from the element ch[T] and
\* from the value of the others.
Folded(g, S, ch, base, F) ==
  \A T \in SUBSET S :
    g[T] = IF T = {} THEN base ELSE F[ch[T]][g[T \ {ch[T]}]]

\* There is such a function, built one cardinality after another.
LEMMA FoldGraph ==
  ASSUME NEW S, IsFiniteSet(S), NEW ch, \A T \in SUBSET S : T # {} => ch[T] \in T,
         NEW X, NEW base \in X, NEW F, \A s \in S, x \in X : F[s][x] \in X
  PROVE  \E g \in [SUBSET S -> X] : Folded(g, S, ch, base, F)
<1>. DEFINE Small(k) == {T \in SUBSET S : Cardinality(T) <= k}
            Step(g, T) == IF T = {} THEN base ELSE F[ch[T]][g[T \ {ch[T]}]]
            Ok(k, g) == \A T \in Small(k) : g[T] = Step(g, T)
            N == Cardinality(S)
            Good == {k \in 0 .. N : \E g \in [Small(k) -> X] : Ok(k, g)}
<1>0. /\ N \in Nat
      /\ \A T \in SUBSET S : IsFiniteSet(T) /\ Cardinality(T) \in 0 .. N
      /\ \A T \in SUBSET S : T # {} => Cardinality(T \ {ch[T]}) = Cardinality(T) - 1
      /\ \A T \in SUBSET S : Cardinality(T) = 0 <=> T = {}
  <2>1. N \in Nat /\ \A T \in SUBSET S : IsFiniteSet(T) /\ Cardinality(T) \in Nat
    BY FS_CardinalityType, FS_Subset
  <2>2. \A T \in SUBSET S : Cardinality(T) <= N
    BY FS_Subset
  <2>3. \A T \in SUBSET S : T # {} => Cardinality(T \ {ch[T]}) = Cardinality(T) - 1
    <3>. TAKE T \in SUBSET S
    <3>. HAVE T # {}
    <3>. QED BY <2>1, FS_RemoveElement
  <2>4. \A T \in SUBSET S : Cardinality(T) = 0 <=> T = {}
    BY <2>1, FS_EmptySet
  <2>. QED BY <2>1, <2>2, <2>3, <2>4
<1>1. 0 \in Good
  <2>. DEFINE g == [T \in Small(0) |-> base]
  <2>1. \A T \in Small(0) : T = {}
    BY <1>0
  <2>2. g \in [Small(0) -> X] /\ Ok(0, g)
    BY <2>1
  <2>. HIDE DEF g, Ok, Small
  <2>. QED BY <2>2, <1>0
<1>2. ASSUME NEW k \in 1 .. N, k - 1 \in Good PROVE k \in Good
  <2>1. PICK g \in [Small(k - 1) -> X] : Ok(k - 1, g)
    BY <1>2
  <2>. DEFINE h == [T \in Small(k) |-> IF T \in Small(k - 1) THEN g[T] ELSE Step(g, T)]
  <2>2. ASSUME NEW T \in Small(k), T # {}
        PROVE  T \ {ch[T]} \in Small(k - 1) /\ g[T \ {ch[T]}] \in X
    <3>1. Cardinality(T \ {ch[T]}) <= k - 1 /\ T \ {ch[T]} \in SUBSET S
      BY <1>0, <2>2
    <3>. QED BY <3>1
  <2>3. \A T \in Small(k) : Step(g, T) \in X
    <3>. TAKE T \in Small(k)
    <3>1. CASE T = {}
      BY <3>1
    <3>2. CASE T # {}
      BY <3>2, <2>2
    <3>. QED BY <3>1, <3>2
  <2>4. h \in [Small(k) -> X]
    BY <2>3
  <2>5. ASSUME NEW T \in Small(k) PROVE h[T] = Step(h, T)
    <3>1. h[T] = Step(g, T)
      BY <2>1
    <3>2. CASE T = {}
      BY <3>1, <3>2
    <3>3. CASE T # {}
      <4>1. T \ {ch[T]} \in Small(k) /\ h[T \ {ch[T]}] = g[T \ {ch[T]}]
        <5>1. T \ {ch[T]} \in Small(k - 1)
          BY <3>3, <2>2
        <5>2. T \ {ch[T]} \in Small(k)
          BY <5>1, <1>0
        <5>. QED BY <5>1, <5>2
      <4>. QED BY <3>1, <3>3, <4>1
    <3>. QED BY <3>2, <3>3
  <2>6. Ok(k, h)
    BY <2>5
  <2>. HIDE DEF h, Ok, Small
  <2>. QED BY <2>4, <2>6
<1>3. N \in Good
  <2>. HIDE DEF Good, N
  <2>1. \A n \in 1 .. N : n - 1 \in Good => n \in Good
    BY <1>2
  <2>2. \A n \in 0 .. N : n \in Good
    BY <1>0, <1>1, <2>1, UpTo
  <2>. QED BY <2>2, <1>0
<1>4. Small(N) = SUBSET S
  BY <1>0
<1>5. PICK g \in [Small(N) -> X] : Ok(N, g)
  BY <1>3
<1>. QED BY <1>4, <1>5 DEF Folded

-----------------------------------------------------------------------------
(* Sums over finite sets, in whatever order their elements are chosen       *)

\* k[T] is the sum of w over the subset T of S.
Sums(k, S, w) ==
  /\ k \in [SUBSET S -> Nat] /\ k[{}] = 0
  /\ \A T \in SUBSET S : \A a \in T : k[T] = k[T \ {a}] + w[a]

\* Every finite set with a weight for each element has such a sum.
LEMMA SumsExist ==
  ASSUME NEW S, IsFiniteSet(S), NEW w \in [S -> Nat]
  PROVE  \E k : Sums(k, S, w)
<1>. DEFINE ch == [T \in SUBSET S |-> CHOOSE x \in T : TRUE]
            F == [s \in S |-> [x \in Nat |-> x + w[s]]]
<1>1. \A T \in SUBSET S : T # {} => ch[T] \in T
  OBVIOUS
<1>2. \A s \in S, x \in Nat : F[s][x] \in Nat /\ F[s][x] = x + w[s]
  OBVIOUS
<1>3. PICK k \in [SUBSET S -> Nat] : Folded(k, S, ch, 0, F)
  <2>. HIDE DEF ch, F
  <2>1. \A s \in S, x \in Nat : F[s][x] \in Nat
    BY <1>2
  <2>. QED BY <1>1, <2>1, FoldGraph
<1>. HIDE DEF ch, F
<1>4. \A T \in SUBSET S : T # {} => k[T] = k[T \ {ch[T]}] + w[ch[T]]
  <2>. TAKE T \in SUBSET S
  <2>. HAVE T # {}
  <2>1. k[T] = F[ch[T]][k[T \ {ch[T]}]]
    BY <1>3 DEF Folded
  <2>2. ch[T] \in S /\ k[T \ {ch[T]}] \in Nat
    BY <1>1
  <2>. QED BY <2>1, <2>2, <1>2
<1>5. k[{}] = 0
  BY <1>3 DEF Folded
<1>. DEFINE N == Cardinality(S)
            Good == {n \in 0 .. N : \A T \in SUBSET S :
                       Cardinality(T) = n => \A a \in T : k[T] = k[T \ {a}] + w[a]}
<1>6. /\ N \in Nat
      /\ \A T \in SUBSET S : IsFiniteSet(T) /\ Cardinality(T) \in 0 .. N
      /\ \A T \in SUBSET S : \A a \in T : Cardinality(T \ {a}) = Cardinality(T) - 1
      /\ \A T \in SUBSET S : Cardinality(T) = 0 <=> T = {}
  <2>1. N \in Nat /\ \A T \in SUBSET S : IsFiniteSet(T) /\ Cardinality(T) \in Nat
    BY FS_CardinalityType, FS_Subset
  <2>2. \A T \in SUBSET S : Cardinality(T) <= N
    BY FS_Subset
  <2>3. \A T \in SUBSET S : \A a \in T : Cardinality(T \ {a}) = Cardinality(T) - 1
    BY <2>1, FS_RemoveElement
  <2>4. \A T \in SUBSET S : Cardinality(T) = 0 <=> T = {}
    BY <2>1, FS_EmptySet
  <2>. QED BY <2>1, <2>2, <2>3, <2>4
<1>7. 0 \in Good
  BY <1>6
<1>8. ASSUME NEW n \in 1 .. N, n - 1 \in Good PROVE n \in Good
  <2>. SUFFICES ASSUME NEW T \in SUBSET S, Cardinality(T) = n, NEW a \in T
                PROVE  k[T] = k[T \ {a}] + w[a]
    OBVIOUS
  <2>. DEFINE c == ch[T]
  <2>1. c \in T
    BY <1>1
  <2>. HIDE DEF c
  <2>2. CASE a = c
    BY <1>4, <2>2 DEF c
  <2>3. CASE a # c
    <3>1. k[T \ {c}] = k[(T \ {c}) \ {a}] + w[a]
      BY <1>6, <1>8, <2>1, <2>3
    <3>2. k[T \ {a}] = k[(T \ {a}) \ {c}] + w[c]
      BY <1>6, <1>8, <2>1, <2>3
    <3>3. (T \ {c}) \ {a} = (T \ {a}) \ {c}
      OBVIOUS
    <3>4. k[T] = k[T \ {c}] + w[c]
      BY <1>4, <2>1 DEF c
    <3>. DEFINE x == k[(T \ {a}) \ {c}]
    <3>5. x \in Nat /\ w[a] \in Nat /\ w[c] \in Nat
      BY <2>1
    <3>6. k[T \ {c}] = x + w[a] /\ k[T \ {a}] = x + w[c]
      BY <3>1, <3>2, <3>3
    <3>. HIDE DEF x
    <3>7. k[T] = (x + w[a]) + w[c] /\ (x + w[a]) + w[c] = (x + w[c]) + w[a]
      BY <3>4, <3>5, <3>6
    <3>. QED BY <3>6, <3>7
  <2>. QED BY <2>2, <2>3
<1>9. \A n \in 0 .. N : n \in Good
  <2>. HIDE DEF Good, N
  <2>1. \A n \in 1 .. N : n - 1 \in Good => n \in Good
    BY <1>8
  <2>. QED BY <1>6, <1>7, <2>1, UpTo
<1>10. ASSUME NEW T \in SUBSET S, NEW a \in T PROVE k[T] = k[T \ {a}] + w[a]
  BY <1>6, <1>9
<1>. QED BY <1>5, <1>10 DEF Sums

\* g adds up w along some element of each set.
AddsUp(g, S, w) ==
  /\ g[{}] = 0
  /\ \A T \in SUBSET S : T # {} => \E a \in T : g[T] = g[T \ {a}] + w[a]

\* Whichever it is, the sum is the same.
LEMMA SumsUnique ==
  ASSUME NEW S, IsFiniteSet(S), NEW w \in [S -> Nat], NEW k, Sums(k, S, w),
         NEW g, AddsUp(g, S, w)
  PROVE  \A T \in SUBSET S : g[T] = k[T]
<1>. DEFINE N == Cardinality(S)
            Good == {n \in 0 .. N : \A T \in SUBSET S : Cardinality(T) = n => g[T] = k[T]}
<1>1. /\ N \in Nat
      /\ \A T \in SUBSET S : Cardinality(T) \in 0 .. N
      /\ \A T \in SUBSET S : \A a \in T : Cardinality(T \ {a}) = Cardinality(T) - 1
      /\ \A T \in SUBSET S : Cardinality(T) = 0 <=> T = {}
  <2>1. N \in Nat /\ \A T \in SUBSET S : IsFiniteSet(T) /\ Cardinality(T) \in Nat
    BY FS_CardinalityType, FS_Subset
  <2>2. \A T \in SUBSET S : Cardinality(T) <= N
    BY FS_Subset
  <2>3. \A T \in SUBSET S : \A a \in T : Cardinality(T \ {a}) = Cardinality(T) - 1
    BY <2>1, FS_RemoveElement
  <2>4. \A T \in SUBSET S : Cardinality(T) = 0 <=> T = {}
    BY <2>1, FS_EmptySet
  <2>. QED BY <2>1, <2>2, <2>3, <2>4
<1>2. 0 \in Good
  BY <1>1 DEF Sums, AddsUp
<1>3. ASSUME NEW n \in 1 .. N, n - 1 \in Good PROVE n \in Good
  <2>. SUFFICES ASSUME NEW T \in SUBSET S, Cardinality(T) = n PROVE g[T] = k[T]
    OBVIOUS
  <2>1. T # {}
    BY <1>1
  <2>2. PICK a \in T : g[T] = g[T \ {a}] + w[a]
    BY <2>1 DEF AddsUp
  <2>3. g[T \ {a}] = k[T \ {a}]
    BY <1>1, <1>3
  <2>. QED BY <2>2, <2>3 DEF Sums
<1>4. \A n \in 0 .. N : n \in Good
  <2>. HIDE DEF Good, N
  <2>1. \A n \in 1 .. N : n - 1 \in Good => n \in Good
    BY <1>3
  <2>. QED BY <1>1, <1>2, <2>1, UpTo
<1>. QED BY <1>1, <1>4

\* The words of the subsets of S are the sums of the words of its blocks.
LEMMA WordsAreSums ==
  ASSUME NEW n, NEW S, IsFiniteSet(S), \A a \in S : Sz(n, a) \in Nat
  PROVE  \E k : /\ Sums(k, S, [a \in S |-> Sz(n, a) + 1])
                /\ \A T \in SUBSET S : Words(n, T) = k[T]
<1>. DEFINE w == [a \in S |-> Sz(n, a) + 1]
<1>1. w \in [S -> Nat]
  OBVIOUS
<1>2. PICK k : Sums(k, S, w)
  <2>. HIDE DEF w
  <2>. QED BY <1>1, SumsExist
<1>3. ASSUME NEW T \in SUBSET S PROVE Words(n, T) = k[T]
  <2>. DEFINE Rec(g) == g = [U \in SUBSET T |-> IF U = {} THEN 0
                               ELSE g[U \ {CHOOSE x \in U : TRUE}]
                                      + Sz(n, CHOOSE x \in U : TRUE) + 1]
              g == CHOOSE h : Rec(h)
  <2>1. Words(n, T) = g[T]
    BY Zenon DEF Words, FoldSet, MapThenFoldSet
  <2>2. Rec([U \in SUBSET T |-> k[U]])
    <3>. DEFINE h == [U \in SUBSET T |-> k[U]]
    <3>1. ASSUME NEW U \in SUBSET T
          PROVE  h[U] = IF U = {} THEN 0
                        ELSE h[U \ {CHOOSE x \in U : TRUE}]
                               + Sz(n, CHOOSE x \in U : TRUE) + 1
      <4>1. CASE U = {}
        BY <4>1, <1>2 DEF Sums
      <4>2. CASE U # {}
        <5>. DEFINE c == CHOOSE x \in U : TRUE
        <5>1. c \in U
          BY <4>2
        <5>. HIDE DEF c
        <5>2. k[U] = k[U \ {c}] + w[c] /\ k[U \ {c}] \in Nat
          BY <5>1, <1>2 DEF Sums
        <5>3. h[U \ {c}] = k[U \ {c}] /\ h[U] = k[U]
          BY <5>1
        <5>4. w[c] = Sz(n, c) + 1 /\ Sz(n, c) \in Nat
          BY <5>1
        <5>5. h[U] = h[U \ {c}] + Sz(n, c) + 1
          BY <5>2, <5>3, <5>4
        <5>. QED BY <4>2, <5>5 DEF c
      <4>. QED BY <4>1, <4>2
    <3>. QED BY <3>1
  <2>3. Rec(g)
    <3>. HIDE DEF Rec
    <3>. QED BY <2>2
  <2>. HIDE DEF g
  <2>4. g[{}] = 0
    BY <2>3
  <2>. DEFINE kk == [U \in SUBSET T |-> k[U]]
              ww == [a \in T |-> w[a]]
  <2>5. Sums(kk, T, ww) /\ ww \in [T -> Nat] /\ IsFiniteSet(T)
    <3>1. kk \in [SUBSET T -> Nat] /\ kk[{}] = 0
      BY <1>2 DEF Sums
    <3>2. ASSUME NEW U \in SUBSET T, NEW a \in U PROVE kk[U] = kk[U \ {a}] + ww[a]
      <4>1. k[U] = k[U \ {a}] + w[a]
        BY <1>2 DEF Sums
      <4>2. kk[U] = k[U] /\ kk[U \ {a}] = k[U \ {a}] /\ ww[a] = w[a]
        OBVIOUS
      <4>. QED BY <4>1, <4>2
    <3>3. IsFiniteSet(T)
      BY FS_Subset
    <3>4. ww \in [T -> Nat]
      BY <1>1
    <3>. HIDE DEF kk, ww
    <3>. QED BY <3>1, <3>2, <3>3, <3>4 DEF Sums
  <2>6. \A U \in SUBSET T : U # {} => \E a \in U : g[U] = g[U \ {a}] + ww[a]
    <3>. DEFINE NN == Cardinality(T)
    <3>1. \A U \in SUBSET T : U # {} =>
            \E a \in U : g[U] = g[U \ {a}] + Sz(n, a) + 1
      <4>. TAKE U \in SUBSET T
      <4>. HAVE U # {}
      <4>1. g[U] = g[U \ {CHOOSE x \in U : TRUE}] + Sz(n, CHOOSE x \in U : TRUE) + 1
        BY <2>3
      <4>2. (CHOOSE x \in U : TRUE) \in U
        OBVIOUS
      <4>. HIDE DEF Rec
      <4>. QED BY <4>1, <4>2
    <3>2. \A U \in SUBSET T : g[U] \in Nat
      <4>. DEFINE Good == {j \in 0 .. NN : \A U \in SUBSET T : Cardinality(U) = j => g[U] \in Nat}
      <4>1. /\ NN \in Nat
            /\ \A U \in SUBSET T : Cardinality(U) \in 0 .. NN
            /\ \A U \in SUBSET T : \A a \in U : Cardinality(U \ {a}) = Cardinality(U) - 1
            /\ \A U \in SUBSET T : Cardinality(U) = 0 <=> U = {}
        <5>1. NN \in Nat /\ \A U \in SUBSET T : IsFiniteSet(U) /\ Cardinality(U) \in Nat
          BY <2>5, FS_CardinalityType, FS_Subset
        <5>2. \A U \in SUBSET T : Cardinality(U) <= NN
          BY <2>5, FS_Subset
        <5>3. \A U \in SUBSET T : \A a \in U : Cardinality(U \ {a}) = Cardinality(U) - 1
          BY <5>1, FS_RemoveElement
        <5>4. \A U \in SUBSET T : Cardinality(U) = 0 <=> U = {}
          BY <5>1, FS_EmptySet
        <5>. HIDE DEF NN
        <5>. QED BY <5>1, <5>2, <5>3, <5>4
      <4>. HIDE DEF NN
      <4>2. 0 \in Good
        <5>1. \A U \in SUBSET T : Cardinality(U) = 0 => g[U] = 0
          BY <4>1, <2>4
        <5>. QED BY <4>1, <5>1
      <4>3. ASSUME NEW j \in 1 .. NN, j - 1 \in Good PROVE j \in Good
        <5>. SUFFICES ASSUME NEW U \in SUBSET T, Cardinality(U) = j PROVE g[U] \in Nat
          OBVIOUS
        <5>1. PICK a \in U : g[U] = g[U \ {a}] + Sz(n, a) + 1
          BY <4>1, <3>1
        <5>2. g[U \ {a}] \in Nat
          BY <4>1, <4>3
        <5>3. Sz(n, a) \in Nat
          OBVIOUS
        <5>. QED BY <5>1, <5>2, <5>3
      <4>4. \A j \in 0 .. NN : j \in Good
        <5>. HIDE DEF Good
        <5>1. \A j \in 1 .. NN : j - 1 \in Good => j \in Good
          BY <4>3
        <5>. QED BY <4>1, <4>2, <5>1, UpTo
      <4>. QED BY <4>1, <4>4
    <3>3. \A a \in T : ww[a] = Sz(n, a) + 1
      OBVIOUS
    <3>. TAKE U \in SUBSET T
    <3>. HAVE U # {}
    <3>4. PICK a \in U : g[U] = g[U \ {a}] + Sz(n, a) + 1
      BY <3>1
    <3>5. g[U \ {a}] \in Nat /\ Sz(n, a) \in Nat
      BY <3>2
    <3>6. a \in T /\ ww[a] = Sz(n, a) + 1 /\ g[U] \in Nat
      BY <3>2, <3>3
    <3>. HIDE DEF ww, w
    <3>7. g[U] = g[U \ {a}] + ww[a]
      BY <3>4, <3>5, <3>6
    <3>. QED BY <3>6, <3>7
  <2>. HIDE DEF kk, ww, Rec
  <2>7. \A U \in SUBSET T : g[U] = kk[U]
    <3>1. AddsUp(g, T, ww)
      BY <2>4, <2>6 DEF AddsUp
    <3>. HIDE DEF g
    <3>. QED BY <2>5, <3>1, SumsUnique
  <2>. QED BY <2>1, <2>7 DEF kk
<1>. QED BY <1>2, <1>3

ChunkWords(S) == FoldSet(LAMBDA c, n : n + c.words, 0, S)

\* So are the words of the subsets of a set of chunks.
LEMMA ChunkWordsAreSums ==
  ASSUME NEW S, IsFiniteSet(S), \A a \in S : a.words \in Nat
  PROVE  \E k : /\ Sums(k, S, [a \in S |-> a.words])
                /\ \A T \in SUBSET S : ChunkWords(T) = k[T]
<1>. DEFINE w == [a \in S |-> a.words]
<1>1. w \in [S -> Nat]
  OBVIOUS
<1>2. PICK k : Sums(k, S, w)
  <2>. HIDE DEF w
  <2>. QED BY <1>1, SumsExist
<1>3. ASSUME NEW T \in SUBSET S PROVE ChunkWords(T) = k[T]
  <2>. DEFINE Rec(g) == g = [U \in SUBSET T |-> IF U = {} THEN 0
                               ELSE g[U \ {CHOOSE x \in U : TRUE}]
                                      + (CHOOSE x \in U : TRUE).words]
              g == CHOOSE h : Rec(h)
  <2>1. ChunkWords(T) = g[T]
    BY Zenon DEF ChunkWords, FoldSet, MapThenFoldSet
  <2>2. Rec([U \in SUBSET T |-> k[U]])
    <3>. DEFINE h == [U \in SUBSET T |-> k[U]]
    <3>1. ASSUME NEW U \in SUBSET T
          PROVE  h[U] = IF U = {} THEN 0
                        ELSE h[U \ {CHOOSE x \in U : TRUE}]
                               + (CHOOSE x \in U : TRUE).words
      <4>1. CASE U = {}
        BY <4>1, <1>2 DEF Sums
      <4>2. CASE U # {}
        <5>. DEFINE c == CHOOSE x \in U : TRUE
        <5>1. c \in U
          BY <4>2
        <5>. HIDE DEF c
        <5>2. k[U] = k[U \ {c}] + w[c] /\ k[U \ {c}] \in Nat
          BY <5>1, <1>2 DEF Sums
        <5>3. h[U \ {c}] = k[U \ {c}] /\ h[U] = k[U]
          BY <5>1
        <5>4. w[c] = c.words /\ c.words \in Nat
          BY <5>1
        <5>5. h[U] = h[U \ {c}] + c.words
          BY <5>2, <5>3, <5>4
        <5>. QED BY <4>2, <5>5 DEF c
      <4>. QED BY <4>1, <4>2
    <3>. QED BY <3>1
  <2>3. Rec(g)
    <3>. HIDE DEF Rec
    <3>. QED BY <2>2
  <2>. HIDE DEF g
  <2>4. g[{}] = 0
    BY <2>3
  <2>. DEFINE kk == [U \in SUBSET T |-> k[U]]
              ww == [a \in T |-> w[a]]
  <2>5. Sums(kk, T, ww) /\ ww \in [T -> Nat] /\ IsFiniteSet(T)
    <3>1. kk \in [SUBSET T -> Nat] /\ kk[{}] = 0
      BY <1>2 DEF Sums
    <3>2. ASSUME NEW U \in SUBSET T, NEW a \in U PROVE kk[U] = kk[U \ {a}] + ww[a]
      <4>1. k[U] = k[U \ {a}] + w[a]
        BY <1>2 DEF Sums
      <4>2. kk[U] = k[U] /\ kk[U \ {a}] = k[U \ {a}] /\ ww[a] = w[a]
        OBVIOUS
      <4>. QED BY <4>1, <4>2
    <3>3. IsFiniteSet(T)
      BY FS_Subset
    <3>4. ww \in [T -> Nat]
      BY <1>1
    <3>. HIDE DEF kk, ww
    <3>. QED BY <3>1, <3>2, <3>3, <3>4 DEF Sums
  <2>6. \A U \in SUBSET T : U # {} => \E a \in U : g[U] = g[U \ {a}] + ww[a]
    <3>. DEFINE NN == Cardinality(T)
    <3>1. \A U \in SUBSET T : U # {} =>
            \E a \in U : g[U] = g[U \ {a}] + a.words
      <4>. TAKE U \in SUBSET T
      <4>. HAVE U # {}
      <4>1. g[U] = g[U \ {CHOOSE x \in U : TRUE}] + (CHOOSE x \in U : TRUE).words
        BY <2>3
      <4>2. (CHOOSE x \in U : TRUE) \in U
        OBVIOUS
      <4>. HIDE DEF Rec
      <4>. QED BY <4>1, <4>2
    <3>2. \A U \in SUBSET T : g[U] \in Nat
      <4>. DEFINE Good == {j \in 0 .. NN : \A U \in SUBSET T : Cardinality(U) = j => g[U] \in Nat}
      <4>1. /\ NN \in Nat
            /\ \A U \in SUBSET T : Cardinality(U) \in 0 .. NN
            /\ \A U \in SUBSET T : \A a \in U : Cardinality(U \ {a}) = Cardinality(U) - 1
            /\ \A U \in SUBSET T : Cardinality(U) = 0 <=> U = {}
        <5>1. NN \in Nat /\ \A U \in SUBSET T : IsFiniteSet(U) /\ Cardinality(U) \in Nat
          BY <2>5, FS_CardinalityType, FS_Subset
        <5>2. \A U \in SUBSET T : Cardinality(U) <= NN
          BY <2>5, FS_Subset
        <5>3. \A U \in SUBSET T : \A a \in U : Cardinality(U \ {a}) = Cardinality(U) - 1
          BY <5>1, FS_RemoveElement
        <5>4. \A U \in SUBSET T : Cardinality(U) = 0 <=> U = {}
          BY <5>1, FS_EmptySet
        <5>. HIDE DEF NN
        <5>. QED BY <5>1, <5>2, <5>3, <5>4
      <4>. HIDE DEF NN
      <4>2. 0 \in Good
        <5>1. \A U \in SUBSET T : Cardinality(U) = 0 => g[U] = 0
          BY <4>1, <2>4
        <5>. QED BY <4>1, <5>1
      <4>3. ASSUME NEW j \in 1 .. NN, j - 1 \in Good PROVE j \in Good
        <5>. SUFFICES ASSUME NEW U \in SUBSET T, Cardinality(U) = j PROVE g[U] \in Nat
          OBVIOUS
        <5>1. PICK a \in U : g[U] = g[U \ {a}] + a.words
          BY <4>1, <3>1
        <5>2. g[U \ {a}] \in Nat
          BY <4>1, <4>3
        <5>3. a.words \in Nat
          OBVIOUS
        <5>. QED BY <5>1, <5>2, <5>3
      <4>4. \A j \in 0 .. NN : j \in Good
        <5>. HIDE DEF Good
        <5>1. \A j \in 1 .. NN : j - 1 \in Good => j \in Good
          BY <4>3
        <5>. QED BY <4>1, <4>2, <5>1, UpTo
      <4>. QED BY <4>1, <4>4
    <3>3. \A a \in T : ww[a] = a.words
      OBVIOUS
    <3>. TAKE U \in SUBSET T
    <3>. HAVE U # {}
    <3>4. PICK a \in U : g[U] = g[U \ {a}] + a.words
      BY <3>1
    <3>5. g[U \ {a}] \in Nat /\ a.words \in Nat
      BY <3>2
    <3>6. a \in T /\ ww[a] = a.words /\ g[U] \in Nat
      BY <3>2, <3>3
    <3>. HIDE DEF ww, w
    <3>7. g[U] = g[U \ {a}] + ww[a]
      BY <3>4, <3>5, <3>6
    <3>. QED BY <3>6, <3>7
  <2>. HIDE DEF kk, ww, Rec
  <2>7. \A U \in SUBSET T : g[U] = kk[U]
    <3>1. AddsUp(g, T, ww)
      BY <2>4, <2>6 DEF AddsUp
    <3>. HIDE DEF g
    <3>. QED BY <2>5, <3>1, SumsUnique
  <2>. QED BY <2>1, <2>7 DEF kk
<1>. QED BY <1>2, <1>3

\* The sum over a subset that has one element less, or over two parts.
LEMMA WordsAdd ==
  ASSUME NEW n, NEW S, IsFiniteSet(S), NEW a, a \notin S,
         \A x \in S \cup {a} : Sz(n, x) \in Nat
  PROVE  /\ Words(n, S) \in Nat
         /\ Words(n, S \cup {a}) = Words(n, S) + Sz(n, a) + 1
<1>. DEFINE R == S \cup {a}
            w == [x \in R |-> Sz(n, x) + 1]
<1>1. IsFiniteSet(R)
  BY FS_AddElement
<1>2. PICK k : Sums(k, R, w) /\ \A T \in SUBSET R : Words(n, T) = k[T]
  <2>. HIDE DEF w
  <2>1. \E k : Sums(k, R, [x \in R |-> Sz(n, x) + 1]) /\ \A T \in SUBSET R : Words(n, T) = k[T]
    <3>. HIDE DEF R
    <3>1. \A x \in R : Sz(n, x) \in Nat
      BY DEF R
    <3>. QED BY <1>1, <3>1, WordsAreSums
  <2>. QED BY <2>1 DEF w
<1>3. k[R] = k[R \ {a}] + w[a] /\ k \in [SUBSET R -> Nat]
  BY <1>2 DEF Sums
<1>4. R \ {a} = S /\ w[a] = Sz(n, a) + 1 /\ S \in SUBSET R /\ R \in SUBSET R
  OBVIOUS
<1>5. Words(n, S) = k[S] /\ Words(n, R) = k[R] /\ k[S] \in Nat
  BY <1>2, <1>3, <1>4
<1>6. Sz(n, a) \in Nat
  OBVIOUS
<1>. HIDE DEF R, w
<1>7. Words(n, R) = Words(n, S) + (Sz(n, a) + 1)
  BY <1>3, <1>4, <1>5
<1>8. Words(n, R) = Words(n, S) + Sz(n, a) + 1
  BY <1>5, <1>6, <1>7
<1>. QED BY <1>5, <1>8 DEF R

\* No blocks, no words.
LEMMA WordsEmpty == \A n : Words(n, {}) = 0
<1>. TAKE n
<1>1. IsFiniteSet({})
  BY FS_EmptySet
<1>. DEFINE S == {}
<1>2. \E k : Sums(k, S, [a \in S |-> Sz(n, a) + 1]) /\ \A T \in SUBSET S : Words(n, T) = k[T]
  <2>1. IsFiniteSet(S) /\ \A a \in S : Sz(n, a) \in Nat
    BY <1>1
  <2>. HIDE DEF S
  <2>. QED BY <2>1, WordsAreSums
<1>. QED BY <1>2 DEF Sums

\* Words without one of the blocks.
LEMMA WordsRemove ==
  ASSUME NEW n, NEW S, IsFiniteSet(S), NEW a \in S, \A x \in S : Sz(n, x) \in Nat
  PROVE  /\ Words(n, S \ {a}) \in Nat
         /\ Words(n, S) = Words(n, S \ {a}) + Sz(n, a) + 1
<1>1. IsFiniteSet(S \ {a}) /\ a \notin S \ {a} /\ (S \ {a}) \cup {a} = S
  BY FS_RemoveElement
<1>. HIDE DEF Words, Sz
<1>. QED BY <1>1, WordsAdd

\* Induction over a finite set, adding one element after another.
LEMMA Grows ==
  ASSUME NEW S, IsFiniteSet(S), NEW Good, {} \in Good,
         \A T \in SUBSET S : \A a \in S \ T : T \in Good => T \cup {a} \in Good
  PROVE  S \in Good
<1>. DEFINE N == Cardinality(S)
            Fine == {j \in 0 .. N : \A T \in SUBSET S : Cardinality(T) = j => T \in Good}
<1>1. /\ N \in Nat
      /\ \A T \in SUBSET S : Cardinality(T) \in 0 .. N
      /\ \A T \in SUBSET S : \A a \in T : Cardinality(T \ {a}) = Cardinality(T) - 1
      /\ \A T \in SUBSET S : Cardinality(T) = 0 <=> T = {}
  <2>1. N \in Nat /\ \A T \in SUBSET S : IsFiniteSet(T) /\ Cardinality(T) \in Nat
    BY FS_CardinalityType, FS_Subset
  <2>2. \A T \in SUBSET S : Cardinality(T) <= N
    BY FS_Subset
  <2>3. \A T \in SUBSET S : \A a \in T : Cardinality(T \ {a}) = Cardinality(T) - 1
    BY <2>1, FS_RemoveElement
  <2>4. \A T \in SUBSET S : Cardinality(T) = 0 <=> T = {}
    BY <2>1, FS_EmptySet
  <2>. QED BY <2>1, <2>2, <2>3, <2>4
<1>2. 0 \in Fine
  BY <1>1
<1>3. ASSUME NEW j \in 1 .. N, j - 1 \in Fine PROVE j \in Fine
  <2>. SUFFICES ASSUME NEW T \in SUBSET S, Cardinality(T) = j PROVE T \in Good
    OBVIOUS
  <2>1. PICK a : a \in T
    BY <1>1
  <2>2. T \ {a} \in Good
    BY <1>1, <1>3, <2>1
  <2>3. (T \ {a}) \cup {a} = T /\ a \in S \ (T \ {a})
    BY <2>1
  <2>. QED BY <2>2, <2>3
<1>4. \A j \in 0 .. N : j \in Fine
  <2>. HIDE DEF Fine, N
  <2>1. \A j \in 1 .. N : j - 1 \in Fine => j \in Fine
    BY <1>3
  <2>. QED BY <1>1, <1>2, <2>1, UpTo
<1>. QED BY <1>1, <1>4

\* The words of a finite set of blocks are a number.
LEMMA WordsType ==
  ASSUME NEW n, NEW S, IsFiniteSet(S), \A x \in S : Sz(n, x) \in Nat
  PROVE  Words(n, S) \in Nat
<1>1. CASE S = {}
  BY <1>1, WordsEmpty
<1>2. CASE S # {}
  <2>1. PICK a : a \in S
    BY <1>2
  <2>2. Words(n, S \ {a}) \in Nat /\ Words(n, S) = Words(n, S \ {a}) + Sz(n, a) + 1
    BY <2>1, WordsRemove
  <2>. QED BY <2>1, <2>2
<1>. QED BY <1>1, <1>2

\* It only depends on the sizes.
LEMMA WordsSame ==
  ASSUME NEW n, NEW k, NEW S, IsFiniteSet(S),
         \A x \in S : Sz(n, x) \in Nat /\ Sz(k, x) = Sz(n, x)
  PROVE  Words(n, S) = Words(k, S)
<1>. DEFINE Good == {T \in SUBSET S : Words(n, T) = Words(k, T)}
<1>1. {} \in Good
  BY WordsEmpty
<1>2. ASSUME NEW T \in SUBSET S, NEW a \in S \ T, T \in Good PROVE T \cup {a} \in Good
  <2>1. IsFiniteSet(T)
    BY FS_Subset
  <2>2. Words(n, T \cup {a}) = Words(n, T) + Sz(n, a) + 1
    BY <2>1, WordsAdd
  <2>3. Words(k, T \cup {a}) = Words(k, T) + Sz(k, a) + 1
    <3>1. \A x \in T \cup {a} : Sz(k, x) \in Nat
      OBVIOUS
    <3>. QED BY <2>1, <3>1, WordsAdd
  <2>. QED BY <1>2, <2>2, <2>3
<1>3. S \in Good
  <2>. HIDE DEF Good
  <2>. QED BY <1>1, <1>2, Grows
<1>. QED BY <1>3

\* The words of two disjoint sets of blocks add up.
LEMMA WordsUnion ==
  ASSUME NEW n, NEW S, IsFiniteSet(S), NEW R, IsFiniteSet(R), S \cap R = {},
         \A x \in S \cup R : Sz(n, x) \in Nat
  PROVE  Words(n, S \cup R) = Words(n, S) + Words(n, R)
<1>. DEFINE Good == {T \in SUBSET R : Words(n, S \cup T) = Words(n, S) + Words(n, T)}
<1>1. {} \in Good
  <2>1. Words(n, S) \in Nat
    BY WordsType
  <2>2. S \cup {} = S
    OBVIOUS
  <2>. QED BY <2>1, <2>2, WordsEmpty
<1>2. ASSUME NEW T \in SUBSET R, NEW a \in R \ T, T \in Good PROVE T \cup {a} \in Good
  <2>1. IsFiniteSet(T) /\ IsFiniteSet(S \cup T)
    BY FS_Subset, FS_Union
  <2>2. Words(n, T \cup {a}) = Words(n, T) + Sz(n, a) + 1 /\ Words(n, T) \in Nat
    BY <2>1, WordsAdd
  <2>3. Words(n, (S \cup T) \cup {a}) = Words(n, S \cup T) + Sz(n, a) + 1
    <3>. DEFINE Q == S \cup T
    <3>1. a \notin Q /\ IsFiniteSet(Q)
      BY <2>1
    <3>2. \A x \in Q \cup {a} : Sz(n, x) \in Nat
      OBVIOUS
    <3>. HIDE DEF Q
    <3>3. Words(n, Q \cup {a}) = Words(n, Q) + Sz(n, a) + 1
      BY <3>1, <3>2, WordsAdd
    <3>. QED BY <3>3 DEF Q
  <2>4. S \cup (T \cup {a}) = (S \cup T) \cup {a}
    OBVIOUS
  <2>5. Words(n, S) \in Nat /\ Sz(n, a) \in Nat
    BY WordsType
  <2>6. Words(n, S \cup T) = Words(n, S) + Words(n, T)
    BY <1>2
  <2>7. Words(n, S \cup (T \cup {a})) = Words(n, S) + Words(n, T \cup {a})
    BY <2>2, <2>3, <2>4, <2>5, <2>6
  <2>8. T \cup {a} \in SUBSET R
    OBVIOUS
  <2>. QED BY <2>7, <2>8
<1>3. R \in Good
  <2>. HIDE DEF Good
  <2>. QED BY <1>1, <1>2, Grows
<1>. QED BY <1>3

\* The words of a set of chunks, one chunk at a time.
LEMMA ChunkWordsAdd ==
  ASSUME NEW S, IsFiniteSet(S), NEW c, c \notin S, \A x \in S \cup {c} : x.words \in Nat
  PROVE  /\ ChunkWords(S) \in Nat
         /\ ChunkWords(S \cup {c}) = ChunkWords(S) + c.words
<1>. DEFINE R == S \cup {c}
            w == [x \in R |-> x.words]
<1>1. IsFiniteSet(R)
  BY FS_AddElement
<1>2. PICK k : Sums(k, R, w) /\ \A T \in SUBSET R : ChunkWords(T) = k[T]
  <2>. HIDE DEF w
  <2>1. \E k : Sums(k, R, [x \in R |-> x.words]) /\ \A T \in SUBSET R : ChunkWords(T) = k[T]
    <3>. HIDE DEF R
    <3>1. \A x \in R : x.words \in Nat
      BY DEF R
    <3>. QED BY <1>1, <3>1, ChunkWordsAreSums
  <2>. QED BY <2>1 DEF w
<1>3. k[R] = k[R \ {c}] + w[c] /\ k \in [SUBSET R -> Nat]
  BY <1>2 DEF Sums
<1>4. R \ {c} = S /\ w[c] = c.words /\ S \in SUBSET R /\ R \in SUBSET R
  OBVIOUS
<1>5. ChunkWords(S) = k[S] /\ ChunkWords(R) = k[R] /\ k[S] \in Nat
  BY <1>2, <1>3, <1>4
<1>. QED BY <1>3, <1>4, <1>5

\* No chunks, no words.
LEMMA ChunkWordsEmpty == ChunkWords({}) = 0
<1>1. IsFiniteSet({})
  BY FS_EmptySet
<1>. DEFINE S == {}
<1>2. \E k : Sums(k, S, [c \in S |-> c.words]) /\ \A T \in SUBSET S : ChunkWords(T) = k[T]
  <2>1. IsFiniteSet(S) /\ \A c \in S : c.words \in Nat
    BY <1>1
  <2>. HIDE DEF S
  <2>. QED BY <2>1, ChunkWordsAreSums
<1>. QED BY <1>2 DEF Sums

-----------------------------------------------------------------------------
(* The free list is kept by increasing address                              *)

Rising(l) ==
  /\ l \in Seq(Nat \ {0})
  /\ \A i, j \in 1 .. Len(l) : i < j => l[i] < l[j]

\* y is the element of S next above x, Nil when there is none.
NextAbove(S, x, y) ==
  \/ y = Nil /\ \A a \in S : ~(x < a)
  \/ y \in S /\ x < y /\ \A a \in S : x < a => y <= a

\* x is the element of S next below y, Nil when there is none.
NextBelow(S, y, x) ==
  \/ x = Nil /\ \A a \in S : ~(a < y)
  \/ x \in S /\ x < y /\ \A a \in S : a < y => a <= x

\* The length and the elements of a concatenation.
LEMMA Concatenated ==
  ASSUME NEW T, NEW x \in Seq(T), NEW y \in Seq(T)
  PROVE  /\ x \o y \in Seq(T) /\ Len(x \o y) = Len(x) + Len(y)
         /\ Len(x) \in Nat /\ Len(y) \in Nat
         /\ \A j \in 1 .. Len(x) : (x \o y)[j] = x[j]
         /\ \A j \in 1 .. Len(y) : (x \o y)[Len(x) + j] = y[j]
OBVIOUS

\* Indices, elements and order of a list of rising addresses.
LEMMA RisingRange ==
  ASSUME NEW l, Rising(l)
  PROVE  /\ DOMAIN l = 1 .. Len(l) /\ Len(l) \in Nat
         /\ \A i \in 1 .. Len(l) : l[i] \in Range(l) /\ l[i] \in Nat \ {0}
         /\ Range(l) \subseteq Nat \ {0} /\ Nil \notin Range(l)
         /\ \A a \in Range(l) : \E i \in 1 .. Len(l) : l[i] = a
         /\ \A i, j \in 1 .. Len(l) : l[i] < l[j] <=> i < j
         /\ \A i, j \in 1 .. Len(l) : l[i] = l[j] => i = j
         /\ IsFiniteSet(Range(l))
<1>1. /\ DOMAIN l = 1 .. Len(l) /\ Len(l) \in Nat
      /\ \A i \in 1 .. Len(l) : l[i] \in Nat \ {0}
      /\ \A i, j \in 1 .. Len(l) : i < j => l[i] < l[j]
  BY DEF Rising
<1>2. \A i, j \in 1 .. Len(l) : l[i] < l[j] <=> i < j
  BY <1>1
<1>3. \A i, j \in 1 .. Len(l) : l[i] = l[j] => i = j
  BY <1>1
<1>4. Range(l) = {l[i] : i \in 1 .. Len(l)}
  BY <1>1 DEF Range
<1>5. IsFiniteSet(Range(l))
  <2>1. IsFiniteSet(1 .. Len(l))
    BY <1>1, FS_Interval
  <2>. HIDE DEF Rising
  <2>2. l = [i \in 1 .. Len(l) |-> l[i]]
    BY DEF Rising
  <2>3. l \in Surjection(1 .. Len(l), Range(l))
    BY <1>4, <2>2 DEF Surjection
  <2>. QED BY <2>1, <2>3, FS_Surjection
<1>. QED BY <1>1, <1>2, <1>3, <1>4, <1>5 DEF Nil

\* Pos finds the block in the list, and 0 for the sentinel.
LEMMA PosFacts ==
  ASSUME NEW n, Rising(n.fl)
  PROVE  /\ Pos(n, Nil) = 0
         /\ \A i \in 1 .. Len(n.fl) : Pos(n, n.fl[i]) = i
         /\ \A a \in Range(n.fl) : Pos(n, a) \in 1 .. Len(n.fl) /\ n.fl[Pos(n, a)] = a
<1>1. Pos(n, Nil) = 0
  BY DEF Pos
<1>2. ASSUME NEW i \in 1 .. Len(n.fl) PROVE Pos(n, n.fl[i]) = i
  <2>. DEFINE a == n.fl[i]
              I == {j \in 1 .. Len(n.fl) : n.fl[j] = a}
  <2>1. a # Nil
    BY RisingRange DEF Nil
  <2>2. Pos(n, a) = IF I # {} THEN Min(I) ELSE 0
    <3>. HIDE DEF a
    <3>. QED BY <2>1 DEF Pos, SelectInSeq
  <2>3. I = {i}
    BY RisingRange
  <2>4. Min({i}) = i
    BY DEF Min
  <2>. QED BY <2>2, <2>3, <2>4
<1>3. ASSUME NEW a \in Range(n.fl)
      PROVE  Pos(n, a) \in 1 .. Len(n.fl) /\ n.fl[Pos(n, a)] = a
  <2>1. PICK i \in 1 .. Len(n.fl) : n.fl[i] = a
    BY RisingRange
  <2>. QED BY <1>2, <2>1
<1>. QED BY <1>1, <1>2, <1>3

\* The successor in the list of a block of the list, or of its head.
LEMMA NextSmallFacts ==
  ASSUME NEW n, Rising(n.fl), NEW a \in Range(n.fl) \cup {Nil}
  PROVE  /\ NextAbove(Range(n.fl), a, Next_small(n, a))
         /\ Next_small(n, a) # Nil => /\ Next_small(n, a) \in Range(n.fl)
                                      /\ Pos(n, Next_small(n, a)) = Pos(n, a) + 1
         /\ Pos(n, a) \in 0 .. Len(n.fl)
         /\ At(n, Pos(n, a)) = a
<1>. DEFINE i == Pos(n, a)
            l == n.fl
<1>1. i \in 0 .. Len(l) /\ (i = 0 => a = Nil) /\ (i # 0 => a = l[i])
  BY PosFacts, RisingRange
<1>. HIDE DEF i
<1>2. At(n, i) = a
  BY <1>1 DEF At
<1>3. CASE i = Len(l)
  <2>1. Next_small(n, a) = Nil
    BY <1>3, <1>1 DEF Next_small, At, i
  <2>2. ASSUME NEW b \in Range(l) PROVE ~(a < b)
    <3>1. PICK j \in 1 .. Len(l) : l[j] = b
      BY RisingRange
    <3>2. i # 0 /\ ~(i < j)
      BY <1>3, <3>1, RisingRange
    <3>. QED BY <1>1, <3>1, <3>2, RisingRange
  <2>. QED BY <1>1, <1>2, <2>1, <2>2 DEF NextAbove, i
<1>4. CASE i # Len(l)
  <2>1. i + 1 \in 1 .. Len(l)
    BY <1>1, <1>4, RisingRange
  <2>. DEFINE b == l[i + 1]
  <2>2. Next_small(n, a) = b
    BY <2>1 DEF Next_small, At, i
  <2>3. b \in Range(l) /\ b # Nil /\ Pos(n, b) = i + 1
    BY <2>1, RisingRange, PosFacts DEF Nil
  <2>4. a < b
    <3>1. CASE i = 0
      BY <3>1, <1>1, <2>1, RisingRange DEF Nil
    <3>2. CASE i # 0
      <4>1. i \in 1 .. Len(l) /\ i < i + 1
        BY <3>2, <1>1
      <4>. QED BY <4>1, <3>2, <1>1, <2>1, RisingRange
    <3>. QED BY <3>1, <3>2
  <2>5. ASSUME NEW d \in Range(l), a < d PROVE b <= d
    <3>1. PICK j \in 1 .. Len(l) : l[j] = d
      BY RisingRange
    <3>2. i < j
      <4>1. CASE i = 0
        BY <4>1
      <4>2. CASE i # 0
        <5>1. i \in 1 .. Len(l)
          BY <4>2, <1>1
        <5>. QED BY <5>1, <4>2, <1>1, <3>1, <2>5, RisingRange
      <4>. QED BY <4>1, <4>2
    <3>3. i + 1 = j \/ i + 1 < j
      BY <3>2, <1>1
    <3>4. b \in Nat /\ d \in Nat
      BY <2>1, <3>1, RisingRange
    <3>. QED BY <3>1, <3>3, <3>4, <2>1, RisingRange
  <2>. HIDE DEF b
  <2>. QED BY <1>1, <1>2, <2>2, <2>3, <2>4, <2>5 DEF NextAbove, i
<1>. QED BY <1>3, <1>4

\* Unlinking the element at i.
LEMMA RemoveAtFacts ==
  ASSUME NEW l, Rising(l), NEW i \in 1 .. Len(l)
  PROVE  Rising(RemoveAt(l, i)) /\ Range(RemoveAt(l, i)) = Range(l) \ {l[i]}
<1>. DEFINE r == RemoveAt(l, i)
            at(j) == IF j < i THEN j ELSE j + 1
<1>1. l \in Seq(Nat \ {0}) /\ Len(l) \in Nat
  BY DEF Rising
<1>2. r \in Seq(Nat \ {0}) /\ Len(r) = Len(l) - 1
      /\ \A j \in 1 .. Len(l) - 1 : r[j] = l[at(j)]
  <2>. DEFINE x == SubSeq(l, 1, i - 1)
              y == SubSeq(l, i + 1, Len(l))
  <2>1. x \in Seq(Nat \ {0}) /\ Len(x) = i - 1 /\ \A j \in 1 .. i - 1 : x[j] = l[j]
    BY <1>1
  <2>2. y \in Seq(Nat \ {0}) /\ Len(y) = Len(l) - i /\ \A j \in 1 .. Len(l) - i : y[j] = l[i + j]
    BY <1>1
  <2>3. r = x \o y
    BY DEF RemoveAt
  <2>. HIDE DEF x, y, r
  <2>4. r \in Seq(Nat \ {0}) /\ Len(r) = Len(l) - 1
    <3>. DEFINE T == Nat \ {0}
    <3>1. x \in Seq(T) /\ y \in Seq(T)
      BY <2>1, <2>2
    <3>. HIDE DEF T
    <3>2. x \o y \in Seq(T) /\ Len(x \o y) = Len(x) + Len(y)
      BY <3>1, Concatenated
    <3>3. Len(x) + Len(y) = Len(l) - 1
      BY <2>1, <2>2, <1>1
    <3>. QED BY <3>2, <3>3, <2>3 DEF T
  <2>5. ASSUME NEW j \in 1 .. Len(l) - 1 PROVE r[j] = l[at(j)]
    <3>1. CASE j < i
      <4>1. r[j] = x[j]
        BY <3>1, <2>1, <2>2, <2>3, Concatenated
      <4>. QED BY <4>1, <3>1, <2>1
    <3>2. CASE ~(j < i)
      <4>1. j - (i - 1) \in 1 .. Len(l) - i /\ i + (j - (i - 1)) = j + 1
        BY <3>2, <1>1
      <4>2. (x \o y)[Len(x) + (j - (i - 1))] = y[j - (i - 1)]
        BY <4>1, <2>1, <2>2, Concatenated
      <4>3. Len(x) + (j - (i - 1)) = j
        BY <2>1
      <4>4. r[j] = y[j - (i - 1)]
        BY <4>2, <4>3, <2>3
      <4>. QED BY <4>1, <4>4, <3>2, <2>2
    <3>. QED BY <3>1, <3>2
  <2>. QED BY <2>4, <2>5
<1>. HIDE DEF r
<1>3. \A j, k \in 1 .. Len(r) : j < k => r[j] < r[k]
  <2>. TAKE j, k \in 1 .. Len(r)
  <2>. HAVE j < k
  <2>1. at(j) \in 1 .. Len(l) /\ at(k) \in 1 .. Len(l) /\ at(j) < at(k)
    BY <1>1, <1>2
  <2>2. r[j] = l[at(j)] /\ r[k] = l[at(k)]
    BY <1>2
  <2>. HIDE DEF at
  <2>. QED BY <2>1, <2>2, RisingRange
<1>4. Rising(r)
  BY <1>2, <1>3 DEF Rising
<1>5. ASSUME NEW a \in Range(r) PROVE a \in Range(l) \ {l[i]}
  <2>1. PICK j \in 1 .. Len(r) : r[j] = a
    BY <1>4, RisingRange
  <2>2. at(j) \in 1 .. Len(l) /\ at(j) # i
    BY <1>1, <1>2
  <2>3. r[j] = l[at(j)]
    BY <1>2
  <2>. HIDE DEF at
  <2>. QED BY <2>1, <2>2, <2>3, RisingRange
<1>6. ASSUME NEW a \in Range(l), a # l[i] PROVE a \in Range(r)
  <2>1. PICK k \in 1 .. Len(l) : l[k] = a
    BY RisingRange
  <2>. DEFINE j == IF k < i THEN k ELSE k - 1
  <2>2. j \in 1 .. Len(r) /\ at(j) = k
    BY <1>1, <1>2, <1>6, <2>1
  <2>. HIDE DEF at, j
  <2>. QED BY <1>2, <1>4, <2>1, <2>2, RisingRange
<1>. QED BY <1>4, <1>5, <1>6 DEF r

\* Linking the sequence s between two elements that follow each other.
LEMMA InsertFacts ==
  ASSUME NEW l, Rising(l), NEW p \in 0 .. Len(l), NEW s, Rising(s),
         \A a \in Range(s) : /\ \A i \in 1 .. p : l[i] < a
                             /\ \A i \in p + 1 .. Len(l) : a < l[i]
  PROVE  LET r == SubSeq(l, 1, p) \o s \o SubSeq(l, p + 1, Len(l))
         IN  Rising(r) /\ Range(r) = Range(l) \cup Range(s)
<1>. DEFINE x == SubSeq(l, 1, p)
            y == SubSeq(l, p + 1, Len(l))
            r == x \o s \o y
            k == Len(s)
<1>1. l \in Seq(Nat \ {0}) /\ Len(l) \in Nat /\ s \in Seq(Nat \ {0}) /\ k \in Nat
  BY DEF Rising
<1>2. x \in Seq(Nat \ {0}) /\ Len(x) = p /\ \A j \in 1 .. p : x[j] = l[j]
  BY <1>1
<1>3. y \in Seq(Nat \ {0}) /\ Len(y) = Len(l) - p /\ \A j \in 1 .. Len(l) - p : y[j] = l[p + j]
  BY <1>1
<1>. HIDE DEF x, y
<1>. DEFINE xs == x \o s
<1>4. xs \in Seq(Nat \ {0}) /\ Len(xs) = p + k
      /\ (\A j \in 1 .. p : xs[j] = l[j]) /\ (\A j \in 1 .. k : xs[p + j] = s[j])
  <2>1. xs \in Seq(Nat \ {0}) /\ Len(xs) = p + k
    BY <1>1, <1>2, Concatenated
  <2>2. \A j \in 1 .. p : xs[j] = x[j]
    BY <1>1, <1>2, Concatenated
  <2>3. ASSUME NEW j \in 1 .. k PROVE xs[p + j] = s[j]
    BY <1>1, <1>2, Concatenated
  <2>. HIDE DEF xs
  <2>. QED BY <1>2, <2>1, <2>2, <2>3
<1>5. r = xs \o y
  OBVIOUS
<1>. HIDE DEF xs, r
<1>6. r \in Seq(Nat \ {0}) /\ Len(r) = Len(l) + k
  <2>. DEFINE T == Nat \ {0}
  <2>1. xs \in Seq(T) /\ y \in Seq(T)
    BY <1>3, <1>4
  <2>. HIDE DEF T
  <2>2. xs \o y \in Seq(T) /\ Len(xs \o y) = Len(xs) + Len(y)
    BY <2>1, Concatenated
  <2>3. Len(xs) + Len(y) = Len(l) + k
    BY <1>1, <1>3, <1>4
  <2>. QED BY <2>2, <2>3, <1>5 DEF T
<1>7. ASSUME NEW j \in 1 .. p PROVE r[j] = l[j]
  <2>1. r[j] = xs[j]
    BY <1>1, <1>3, <1>4, <1>5, Concatenated
  <2>. QED BY <2>1, <1>4
<1>8. ASSUME NEW j \in 1 .. k PROVE r[p + j] = s[j]
  <2>1. r[p + j] = xs[p + j]
    BY <1>1, <1>3, <1>4, <1>5, Concatenated
  <2>. QED BY <2>1, <1>4
<1>9. ASSUME NEW j \in p + 1 .. Len(l) PROVE r[k + j] = l[j]
  <2>1. j - p \in 1 .. Len(l) - p /\ k + j = (p + k) + (j - p)
    BY <1>1
  <2>2. (xs \o y)[Len(xs) + (j - p)] = y[j - p]
    BY <2>1, <1>3, <1>4, Concatenated
  <2>3. r[k + j] = y[j - p]
    BY <2>1, <2>2, <1>4, <1>5
  <2>. QED BY <2>1, <2>3, <1>3
<1>10. ASSUME NEW j \in 1 .. Len(r)
       PROVE  \/ j \in 1 .. p
              \/ \E h \in 1 .. k : j = p + h
              \/ \E h \in p + 1 .. Len(l) : j = k + h
  <2>1. CASE j <= p
    BY <2>1
  <2>2. CASE p < j /\ j <= p + k
    <3>1. j - p \in 1 .. k /\ j = p + (j - p)
      BY <2>2, <1>1
    <3>. QED BY <3>1
  <2>3. CASE p + k < j
    <3>1. j - k \in p + 1 .. Len(l) /\ j = k + (j - k)
      BY <2>3, <1>1, <1>6
    <3>. QED BY <3>1
  <2>. QED BY <2>1, <2>2, <2>3, <1>1
<1>11. ASSUME NEW i \in 1 .. Len(r), NEW j \in 1 .. Len(r), i < j PROVE r[i] < r[j]
  <2>1. CASE i \in 1 .. p
    <3>1. CASE j \in 1 .. p
      <4>1. i \in 1 .. Len(l) /\ j \in 1 .. Len(l)
        BY <2>1, <3>1, <1>1
      <4>. QED BY <4>1, <2>1, <3>1, <1>7, <1>11, RisingRange
    <3>2. CASE \E h \in 1 .. k : j = p + h
      <4>1. PICK h \in 1 .. k : j = p + h
        BY <3>2
      <4>2. s[h] \in Range(s)
        BY RisingRange
      <4>. QED BY <4>1, <4>2, <2>1, <1>7, <1>8
    <3>3. CASE \E h \in p + 1 .. Len(l) : j = k + h
      <4>1. PICK h \in p + 1 .. Len(l) : j = k + h
        BY <3>3
      <4>2. i \in 1 .. Len(l) /\ h \in 1 .. Len(l) /\ i < h
        BY <2>1, <4>1, <1>1
      <4>. QED BY <4>1, <4>2, <2>1, <1>7, <1>9, RisingRange
    <3>. QED BY <3>1, <3>2, <3>3, <1>10
  <2>2. CASE \E h \in 1 .. k : i = p + h
    <3>1. PICK h \in 1 .. k : i = p + h
      BY <2>2
    <3>2. CASE j \in 1 .. p
      BY <3>1, <3>2, <1>11, <1>1
    <3>3. CASE \E g \in 1 .. k : j = p + g
      <4>1. PICK g \in 1 .. k : j = p + g
        BY <3>3
      <4>2. h < g
        BY <4>1, <3>1, <1>11, <1>1
      <4>. QED BY <4>1, <4>2, <3>1, <1>8, RisingRange
    <3>4. CASE \E g \in p + 1 .. Len(l) : j = k + g
      <4>1. PICK g \in p + 1 .. Len(l) : j = k + g
        BY <3>4
      <4>2. s[h] \in Range(s)
        BY RisingRange
      <4>. QED BY <4>1, <4>2, <3>1, <1>8, <1>9
    <3>. QED BY <3>2, <3>3, <3>4, <1>10
  <2>3. CASE \E h \in p + 1 .. Len(l) : i = k + h
    <3>1. PICK h \in p + 1 .. Len(l) : i = k + h
      BY <2>3
    <3>2. CASE j \in 1 .. p
      BY <3>1, <3>2, <1>11, <1>1
    <3>3. CASE \E g \in 1 .. k : j = p + g
      BY <3>1, <3>3, <1>11, <1>1
    <3>4. CASE \E g \in p + 1 .. Len(l) : j = k + g
      <4>1. PICK g \in p + 1 .. Len(l) : j = k + g
        BY <3>4
      <4>2. h \in 1 .. Len(l) /\ g \in 1 .. Len(l) /\ h < g
        BY <4>1, <3>1, <1>11, <1>1
      <4>. QED BY <4>1, <4>2, <3>1, <1>9, RisingRange
    <3>. QED BY <3>2, <3>3, <3>4, <1>10
  <2>. QED BY <2>1, <2>2, <2>3, <1>10
<1>12. Rising(r)
  BY <1>6, <1>11 DEF Rising
<1>13. ASSUME NEW a \in Range(r) PROVE a \in Range(l) \cup Range(s)
  <2>1. PICK j \in 1 .. Len(r) : r[j] = a
    BY <1>12, RisingRange
  <2>2. CASE j \in 1 .. p
    <3>1. j \in 1 .. Len(l)
      BY <2>2, <1>1
    <3>. QED BY <3>1, <2>1, <2>2, <1>7, RisingRange
  <2>3. CASE \E h \in 1 .. k : j = p + h
    BY <2>1, <2>3, <1>8, RisingRange
  <2>4. CASE \E h \in p + 1 .. Len(l) : j = k + h
    <3>1. PICK h \in p + 1 .. Len(l) : j = k + h
      BY <2>4
    <3>2. h \in 1 .. Len(l)
      BY <3>1, <1>1
    <3>. QED BY <3>1, <3>2, <2>1, <1>9, RisingRange
  <2>. QED BY <2>2, <2>3, <2>4, <1>10
<1>14. ASSUME NEW a \in Range(l) PROVE a \in Range(r)
  <2>1. PICK j \in 1 .. Len(l) : l[j] = a
    BY RisingRange
  <2>2. CASE j <= p
    <3>1. j \in 1 .. p /\ j \in 1 .. Len(r)
      BY <2>2, <1>1, <1>6
    <3>. QED BY <3>1, <2>1, <1>7, <1>12, RisingRange
  <2>3. CASE ~(j <= p)
    <3>1. j \in p + 1 .. Len(l) /\ k + j \in 1 .. Len(r)
      BY <2>3, <1>1, <1>6
    <3>. QED BY <3>1, <2>1, <1>9, <1>12, RisingRange
  <2>. QED BY <2>2, <2>3
<1>15. ASSUME NEW a \in Range(s) PROVE a \in Range(r)
  <2>1. PICK j \in 1 .. k : s[j] = a
    BY RisingRange
  <2>2. p + j \in 1 .. Len(r)
    BY <1>1, <1>6
  <2>. QED BY <2>1, <2>2, <1>8, <1>12, RisingRange
<1>. QED BY <1>12, <1>13, <1>14, <1>15 DEF r, x, y

-----------------------------------------------------------------------------
(* The allocator's record                                                   *)

Fields == {"blk", "fl", "wsz", "merge", "prev", "last", "frag", "hp", "phase",
           "flpmax", "flp", "beyond", "small", "smerge", "map", "tree", "least"}
Colours == {"white", "blue", "black"}
Header == [sz : 0 .. MaxWosize, col : Colours]
Allocator(n) ==
  /\ n = [f \in Fields |-> n[f]]
  /\ n.blk = [a \in DOMAIN n.blk |-> n.blk[a]]
  /\ \A a \in DOMAIN n.blk : n.blk[a] \in Header

\* Hd writes one header and nothing else.
LEMMA HdFacts ==
  ASSUME NEW n, Allocator(n), NEW a, NEW sz \in 0 .. MaxWosize, NEW col \in Colours
  PROVE  LET k == Hd(n, a, sz, col)
         IN  /\ Allocator(k)
             /\ DOMAIN k.blk = DOMAIN n.blk \cup {a}
             /\ k.blk[a] = Block(sz, col) /\ Sz(k, a) = sz /\ k.blk[a].col = col
             /\ \A b \in DOMAIN n.blk : b # a => k.blk[b] = n.blk[b]
             /\ \A f \in Fields \ {"blk"} : k[f] = n[f]
<1>. DEFINE k == Hd(n, a, sz, col)
<1>1. k = [n EXCEPT !.blk = Put(@, a, Block(sz, col))]
  BY DEF Hd
<1>2. n = [f \in Fields |-> n[f]] /\ "blk" \in Fields
  BY DEF Allocator, Fields
<1>3. k = [f \in Fields |-> IF f = "blk" THEN Put(n.blk, a, Block(sz, col)) ELSE n[f]]
  BY <1>1, <1>2
<1>4. k.blk = Put(n.blk, a, Block(sz, col)) /\ \A f \in Fields \ {"blk"} : k[f] = n[f]
  BY <1>2, <1>3
<1>5. k = [f \in Fields |-> k[f]]
  BY <1>3
<1>. HIDE DEF k
<1>6. k.blk = [b \in {a} \cup DOMAIN n.blk |-> IF b = a THEN Block(sz, col) ELSE n.blk[b]]
  BY <1>4 DEF Put
<1>7. Block(sz, col) \in Header /\ Block(sz, col).sz = sz /\ Block(sz, col).col = col
  BY DEF Block, Header
<1>8. \A b \in DOMAIN n.blk : n.blk[b] \in Header
  BY DEF Allocator
<1>. QED BY <1>4, <1>5, <1>6, <1>7, <1>8 DEF Allocator, Sz, k

\* k is n with the header of a rewritten.
Rewritten(n, k, a, sz, col) ==
  /\ Allocator(k)
  /\ DOMAIN k.blk = DOMAIN n.blk \cup {a}
  /\ k.blk[a] = Block(sz, col) /\ Sz(k, a) = sz /\ k.blk[a].col = col
  /\ \A b \in DOMAIN n.blk : b # a => k.blk[b] = n.blk[b]
  /\ \A f \in Fields \ {"blk"} : k[f] = n[f]

\* The same, for every state, address, size and colour.
LEMMA HdRewrites ==
  \A n, a : \A sz \in 0 .. MaxWosize, col \in Colours :
    Allocator(n) => Rewritten(n, Hd(n, a, sz, col), a, sz, col)
<1>. SUFFICES ASSUME NEW n, NEW a, NEW sz \in 0 .. MaxWosize, NEW col \in Colours, Allocator(n)
              PROVE  Rewritten(n, Hd(n, a, sz, col), a, sz, col)
  OBVIOUS
<1>. DEFINE k == Hd(n, a, sz, col)
<1>1. /\ Allocator(k)
      /\ DOMAIN k.blk = DOMAIN n.blk \cup {a}
      /\ k.blk[a] = Block(sz, col) /\ Sz(k, a) = sz /\ k.blk[a].col = col
      /\ \A b \in DOMAIN n.blk : b # a => k.blk[b] = n.blk[b]
      /\ \A f \in Fields \ {"blk"} : k[f] = n[f]
  BY HdFacts
<1>. HIDE DEF k
<1>2. Rewritten(n, k, a, sz, col)
  BY <1>1 DEF Rewritten
<1>. QED BY <1>2 DEF k

\* Unlink takes one block out of the list and nothing else.
LEMMA UnlinkFacts ==
  ASSUME NEW n, Allocator(n), Rising(n.fl), NEW a \in Range(n.fl)
  PROVE  LET k == Unlink(n, a)
         IN  /\ Allocator(k) /\ Rising(k.fl) /\ Range(k.fl) = Range(n.fl) \ {a}
             /\ \A f \in Fields \ {"fl"} : k[f] = n[f]
<1>. DEFINE k == Unlink(n, a)
<1>1. k = [n EXCEPT !.fl = RemoveAt(@, Pos(n, a))]
  BY DEF Unlink
<1>2. n = [f \in Fields |-> n[f]] /\ "fl" \in Fields /\ "blk" \in Fields
  BY DEF Allocator, Fields
<1>3. k = [f \in Fields |-> IF f = "fl" THEN RemoveAt(n.fl, Pos(n, a)) ELSE n[f]]
  BY <1>1, <1>2
<1>4. k.fl = RemoveAt(n.fl, Pos(n, a)) /\ \A f \in Fields \ {"fl"} : k[f] = n[f]
  BY <1>2, <1>3
<1>5. k = [f \in Fields |-> k[f]]
  BY <1>3
<1>. HIDE DEF k
<1>6. Allocator(k)
  BY <1>2, <1>4, <1>5 DEF Allocator
<1>7. Rising(k.fl) /\ Range(k.fl) = Range(n.fl) \ {a}
  BY <1>4, PosFacts, RemoveAtFacts
<1>. QED BY <1>4, <1>6, <1>7 DEF k

\* Link puts blocks into the list between p and its successor.
LEMMA LinkFacts ==
  ASSUME NEW n, Allocator(n), Rising(n.fl), NEW p \in Range(n.fl) \cup {Nil},
         NEW s, Rising(s),
         \A a \in Range(s) : p < a /\ \A b \in Range(n.fl) : p < b => a < b
  PROVE  LET k == Link(n, p, s)
         IN  /\ Allocator(k) /\ Rising(k.fl) /\ Range(k.fl) = Range(n.fl) \cup Range(s)
             /\ \A f \in Fields \ {"fl"} : k[f] = n[f]
<1>. DEFINE k == Link(n, p, s)
            l == n.fl
            i == Pos(n, p)
            r == SubSeq(l, 1, i) \o s \o SubSeq(l, i + 1, Len(l))
<1>1. k = [n EXCEPT !.fl = r]
  BY DEF Link
<1>2. n = [f \in Fields |-> n[f]] /\ "fl" \in Fields /\ "blk" \in Fields
  BY DEF Allocator, Fields
<1>3. k = [f \in Fields |-> IF f = "fl" THEN r ELSE n[f]]
  BY <1>1, <1>2
<1>4. k.fl = r /\ \A f \in Fields \ {"fl"} : k[f] = n[f]
  BY <1>2, <1>3
<1>5. k = [f \in Fields |-> k[f]]
  BY <1>3
<1>. HIDE DEF k
<1>6. Allocator(k)
  BY <1>2, <1>4, <1>5 DEF Allocator
<1>7. i \in 0 .. Len(l) /\ (i = 0 => p = Nil) /\ (i # 0 => p = l[i])
  BY PosFacts, RisingRange
<1>8. ASSUME NEW a \in Range(s)
      PROVE  /\ \A j \in 1 .. i : l[j] < a
             /\ \A j \in i + 1 .. Len(l) : a < l[j]
  <2>0. p < a /\ p \in Nat /\ a \in Nat
    BY RisingRange DEF Nil
  <2>1. ASSUME NEW j \in 1 .. i PROVE l[j] < a
    <3>1. i \in 1 .. Len(l) /\ j \in 1 .. Len(l) /\ p = l[i] /\ l[j] \in Nat
      BY <1>7, RisingRange
    <3>2. j = i \/ l[j] < l[i]
      BY <3>1, RisingRange
    <3>. QED BY <2>0, <3>1, <3>2
  <2>2. ASSUME NEW j \in i + 1 .. Len(l) PROVE a < l[j]
    <3>1. j \in 1 .. Len(l) /\ i < j
      BY <1>7
    <3>2. l[j] \in Range(l) /\ l[j] \in Nat \ {0}
      BY <3>1, RisingRange
    <3>3. p < l[j]
      <4>1. CASE i = 0
        BY <4>1, <1>7, <3>2 DEF Nil
      <4>2. CASE i # 0
        <5>1. i \in 1 .. Len(l)
          BY <4>2, <1>7
        <5>. QED BY <5>1, <4>2, <1>7, <3>1, RisingRange
      <4>. QED BY <4>1, <4>2
    <3>. QED BY <3>2, <3>3
  <2>. QED BY <2>1, <2>2
<1>9. Rising(r) /\ Range(r) = Range(l) \cup Range(s)
  <2>. HIDE DEF i
  <2>. QED BY <1>7, <1>8, InsertFacts
<1>. QED BY <1>4, <1>6, <1>9 DEF k

-----------------------------------------------------------------------------
(* Sorting a set                                                            *)

\* e enumerates S by increasing values.
Enumerates(e, S) ==
  /\ e \in [1 .. Cardinality(S) -> S]
  /\ \A i, j \in 1 .. Cardinality(S) : i < j => e[i] < e[j]
  /\ \A a \in S : \E i \in 1 .. Cardinality(S) : e[i] = a

\* A finite set of numbers that is not empty has a greatest one.
LEMMA GreatestOf ==
  ASSUME NEW S \in SUBSET Nat, IsFiniteSet(S), S # {}
  PROVE  \E b \in S : \A a \in S : a <= b
<1>. DEFINE Good == {T \in SUBSET S : T = {} \/ \E b \in T : \A a \in T : a <= b}
<1>1. {} \in Good
  OBVIOUS
<1>2. ASSUME NEW T \in SUBSET S, NEW c \in S \ T, T \in Good PROVE T \cup {c} \in Good
  <2>. DEFINE R == T \cup {c}
  <2>1. CASE T = {}
    BY <2>1
  <2>2. CASE \E b \in T : \A a \in T : a <= b
    <3>1. PICK b \in T : \A a \in T : a <= b
      BY <2>2
    <3>2. CASE c <= b
      <4>1. b \in R /\ \A a \in R : a <= b
        BY <3>1, <3>2
      <4>. QED BY <4>1
    <3>3. CASE ~(c <= b)
      <4>1. c \in R /\ \A a \in R : a <= c
        BY <3>1, <3>3
      <4>. QED BY <4>1
    <3>. QED BY <3>2, <3>3
  <2>. QED BY <1>2, <2>1, <2>2
<1>3. S \in Good
  <2>. HIDE DEF Good
  <2>. QED BY <1>1, <1>2, Grows
<1>. QED BY <1>3

\* Every finite set of numbers can be listed in order.
LEMMA EnumerationExists ==
  ASSUME NEW S \in SUBSET Nat, IsFiniteSet(S)
  PROVE  \E e : Enumerates(e, S)
<1>. DEFINE N == Cardinality(S)
            Good == {n \in 0 .. N : \A T \in SUBSET S : Cardinality(T) = n => \E e : Enumerates(e, T)}
<1>1. /\ N \in Nat
      /\ \A T \in SUBSET S : IsFiniteSet(T) /\ Cardinality(T) \in 0 .. N
      /\ \A T \in SUBSET S : \A a \in T : Cardinality(T \ {a}) = Cardinality(T) - 1
      /\ \A T \in SUBSET S : Cardinality(T) = 0 <=> T = {}
  <2>1. N \in Nat /\ \A T \in SUBSET S : IsFiniteSet(T) /\ Cardinality(T) \in Nat
    BY FS_CardinalityType, FS_Subset
  <2>2. \A T \in SUBSET S : Cardinality(T) <= N
    BY FS_Subset
  <2>3. \A T \in SUBSET S : \A a \in T : Cardinality(T \ {a}) = Cardinality(T) - 1
    BY <2>1, FS_RemoveElement
  <2>4. \A T \in SUBSET S : Cardinality(T) = 0 <=> T = {}
    BY <2>1, FS_EmptySet
  <2>. QED BY <2>1, <2>2, <2>3, <2>4
<1>2. 0 \in Good
  <2>. SUFFICES ASSUME NEW T \in SUBSET S, Cardinality(T) = 0 PROVE \E e : Enumerates(e, T)
    BY <1>1
  <2>1. T = {}
    BY <1>1
  <2>2. Enumerates([i \in 1 .. 0 |-> i], T)
    BY <2>1 DEF Enumerates
  <2>. QED BY <2>2
<1>3. ASSUME NEW n \in 1 .. N, n - 1 \in Good PROVE n \in Good
  <2>. SUFFICES ASSUME NEW T \in SUBSET S, Cardinality(T) = n PROVE \E e : Enumerates(e, T)
    OBVIOUS
  <2>1. \E b \in T : \A a \in T : a <= b
    <3>1. T # {} /\ IsFiniteSet(T) /\ T \in SUBSET Nat
      BY <1>1
    <3>. QED BY <3>1, GreatestOf
  <2>2. PICK b \in T : \A a \in T : a <= b
    BY <2>1
  <2>3. PICK e : Enumerates(e, T \ {b})
    BY <1>1, <1>3
  <2>4. Cardinality(T \ {b}) = n - 1 /\ n \in Nat
    BY <1>1
  <2>. DEFINE d == [i \in 1 .. n |-> IF i = n THEN b ELSE e[i]]
  <2>10. \A i \in 1 .. n - 1 : e[i] \in T \ {b}
    BY <2>3, <2>4 DEF Enumerates
  <2>11. \A i \in 1 .. n - 1 : i \in 1 .. n /\ i # n
    BY <2>4
  <2>5. \A i \in 1 .. n - 1 : e[i] \in T \ {b} /\ d[i] = e[i]
    BY <2>10, <2>11
  <2>12. \A i \in 1 .. n : i = n \/ i \in 1 .. n - 1
    BY <2>4
  <2>6. d[n] = b /\ d \in [1 .. n -> T]
    BY <2>4, <2>10, <2>12
  <2>. HIDE DEF d
  <2>7. ASSUME NEW i \in 1 .. n, NEW j \in 1 .. n, i < j PROVE d[i] < d[j]
    <3>1. i \in 1 .. n - 1
      BY <2>7, <2>4
    <3>2. CASE j = n
      <4>1. d[i] \in T /\ d[i] # b /\ d[i] \in Nat /\ b \in Nat
        BY <3>1, <2>5
      <4>. QED BY <4>1, <3>2, <2>2, <2>6
    <3>3. CASE j # n
      <4>1. j \in 1 .. n - 1
        BY <3>3, <2>4
      <4>2. e[i] < e[j]
        BY <4>1, <3>1, <2>3, <2>4, <2>7 DEF Enumerates
      <4>. QED BY <4>1, <4>2, <3>1, <2>5
    <3>. QED BY <3>2, <3>3
  <2>8. ASSUME NEW a \in T PROVE \E i \in 1 .. n : d[i] = a
    <3>1. CASE a = b
      BY <3>1, <2>4, <2>6
    <3>2. CASE a # b
      <4>1. PICK i \in 1 .. n - 1 : e[i] = a
        BY <3>2, <2>3, <2>4 DEF Enumerates
      <4>2. i \in 1 .. n /\ d[i] = a
        BY <4>1, <2>4, <2>5
      <4>. QED BY <4>2
    <3>. QED BY <3>1, <3>2
  <2>9. Enumerates(d, T)
    BY <2>6, <2>7, <2>8 DEF Enumerates
  <2>. QED BY <2>9
<1>4. \A n \in 0 .. N : n \in Good
  <2>. HIDE DEF Good, N
  <2>1. \A n \in 1 .. N : n - 1 \in Good => n \in Good
    BY <1>3
  <2>. QED BY <1>1, <1>2, <2>1, UpTo
<1>. QED BY <1>1, <1>4

\* Sorted(S) lists S by increasing values.
LEMMA SortedFacts ==
  ASSUME NEW S \in SUBSET (Nat \ {0}), IsFiniteSet(S)
  PROVE  /\ Rising(Sorted(S)) /\ Range(Sorted(S)) = S
         /\ Len(Sorted(S)) = Cardinality(S) /\ Cardinality(S) \in Nat
<1>. DEFINE n == Cardinality(S)
            below(a) == {b \in S : b < a}
<1>1. n \in Nat
  BY FS_CardinalityType
<1>2. PICK e : Enumerates(e, S)
  <2>1. S \in SUBSET Nat
    OBVIOUS
  <2>. QED BY <2>1, EnumerationExists
<1>3. ASSUME NEW i \in 1 .. n PROVE Cardinality(below(e[i])) = i - 1
  <2>1. \A j \in 1 .. n : e[j] \in S /\ e[j] \in Nat
    BY <1>2 DEF Enumerates
  <2>2. \A j, k \in 1 .. n : e[j] < e[k] <=> j < k
    BY <1>1, <1>2, <2>1 DEF Enumerates
  <2>. DEFINE d == [j \in 1 .. i - 1 |-> e[j]]
              B == below(e[i])
  <2>3. d \in [1 .. i - 1 -> B]
    BY <1>1, <2>1, <2>2
  <2>4. \A b \in B : \E j \in 1 .. i - 1 : d[j] = b
    <3>. TAKE b \in B
    <3>1. PICK j \in 1 .. n : e[j] = b
      BY <1>2 DEF Enumerates
    <3>2. j \in 1 .. i - 1
      BY <1>1, <2>2, <3>1
    <3>. QED BY <3>1, <3>2
  <2>5. \A j, k \in 1 .. i - 1 : j # k => d[j] # d[k]
    BY <1>1, <2>1, <2>2
  <2>. HIDE DEF d, B
  <2>6. d \in Bijection(1 .. i - 1, B)
    BY <2>3, <2>4, <2>5 DEF Bijection, Injection, Surjection, IsInjective
  <2>7. IsFiniteSet(1 .. i - 1) /\ Cardinality(1 .. i - 1) = i - 1
    <3>1. 1 \in Int /\ i - 1 \in Int /\ (1 > i - 1 => i - 1 = 0) /\ (i - 1) - 1 + 1 = i - 1
      BY <1>1
    <3>2. IsFiniteSet(1 .. i - 1)
          /\ Cardinality(1 .. i - 1) = IF 1 > i - 1 THEN 0 ELSE (i - 1) - 1 + 1
      BY <3>1, FS_Interval
    <3>. QED BY <3>1, <3>2
  <2>8. Cardinality(B) = Cardinality(1 .. i - 1)
    BY <2>6, <2>7, FS_Bijection DEF ExistsBijection
  <2>. QED BY <2>7, <2>8 DEF B
<1>4. ASSUME NEW i \in 1 .. n, NEW a \in S, Cardinality(below(a)) = i - 1
      PROVE  a = e[i]
  <2>1. PICK j \in 1 .. n : e[j] = a
    BY <1>2 DEF Enumerates
  <2>2. j - 1 = i - 1
    <3>. HIDE DEF below
    <3>. QED BY <1>3, <1>4, <2>1
  <2>. QED BY <1>1, <2>1, <2>2
<1>5. Sorted(S) = [i \in 1 .. n |-> e[i]]
  <2>1. ASSUME NEW i \in 1 .. n
        PROVE  (CHOOSE a \in S : Cardinality({b \in S : b < a}) = i - 1) = e[i]
    <3>1. e[i] \in S
      BY <1>2 DEF Enumerates
    <3>2. \E a \in S : Cardinality(below(a)) = i - 1
      BY <3>1, <1>3
    <3>. DEFINE c == CHOOSE a \in S : Cardinality(below(a)) = i - 1
    <3>3. c \in S /\ Cardinality(below(c)) = i - 1
      <4>. HIDE DEF below
      <4>. QED BY <3>2
    <3>4. c = e[i]
      <4>. HIDE DEF c, below
      <4>. QED BY <3>3, <1>4
    <3>. QED BY <3>4
  <2>. QED BY <2>1 DEF Sorted
<1>6. Sorted(S) = e
  BY <1>2, <1>5 DEF Enumerates
<1>7. e \in Seq(Nat \ {0}) /\ Len(e) = n /\ DOMAIN e = 1 .. n
  <2>1. e \in [1 .. n -> Nat \ {0}]
    BY <1>2 DEF Enumerates
  <2>. QED BY <1>1, <2>1
<1>8. Rising(e)
  BY <1>2, <1>7 DEF Rising, Enumerates
<1>9. Range(e) = S
  BY <1>2, <1>7 DEF Range, Enumerates
<1>. QED BY <1>1, <1>6, <1>7, <1>8, <1>9

-----------------------------------------------------------------------------
(* The tiling of the chunks by the blocks                                   *)

\* The block a lies in the chunk c, and so does what follows it.
Inside(n, a, c) ==
  /\ c.start <= a /\ Next_in_mem(n, a) <= Limit(c)
  /\ Next_in_mem(n, a) \in DOMAIN n.blk \/ Next_in_mem(n, a) = Limit(c)
Tiled(n, C) ==
  /\ IsFiniteSet(DOMAIN n.blk) /\ DOMAIN n.blk \subseteq Nat \ {0}
  /\ C \subseteq Places /\ IsFiniteSet(C)
  /\ \A a \in DOMAIN n.blk : Sz(n, a) \in Nat
  /\ \A c \in C : c.start \in DOMAIN n.blk
  /\ \A a \in DOMAIN n.blk : \E c \in C : Inside(n, a, c)
  /\ \A a, b \in DOMAIN n.blk : a < b => Next_in_mem(n, a) <= b

\* Chunks have at least two words and do not touch.
LEMMA PlaceFacts ==
  /\ \A c \in Places : /\ c.start \in Nat \ {0} /\ c.words \in Nat /\ 2 <= c.words
                       /\ Limit(c) = c.start + c.words /\ Limit(c) \in Nat
  /\ \A c, d \in Places : c # d => Limit(c) < d.start \/ Limit(d) < c.start
BY FreeListAssumption DEF Limit

\* A block between the bounds of a chunk lies in it.
LEMMA InChunk ==
  ASSUME NEW n, NEW C, Tiled(n, C), NEW c \in C, NEW a \in DOMAIN n.blk,
         c.start <= a, a <= Limit(c)
  PROVE  Inside(n, a, c) /\ a < Limit(c)
<1>1. PICK d \in C : Inside(n, a, d)
  BY DEF Tiled
<1>2. c \in Places /\ d \in Places /\ a \in Nat /\ Sz(n, a) \in Nat
  BY DEF Tiled
<1>3. d.start <= a /\ a + Sz(n, a) + 1 <= Limit(d)
  BY <1>1 DEF Inside, Next_in_mem
<1>4. c = d
  BY <1>2, <1>3, PlaceFacts
<1>. QED BY <1>1, <1>2, <1>3, <1>4, PlaceFacts

\* No block begins at the end of a chunk.
LEMMA LimitFree ==
  ASSUME NEW n, NEW C, Tiled(n, C), NEW c \in C
  PROVE  Limit(c) \notin DOMAIN n.blk
<1>. SUFFICES ASSUME Limit(c) \in DOMAIN n.blk PROVE FALSE
  OBVIOUS
<1>1. c \in Places /\ c.start <= Limit(c) /\ Limit(c) \in Nat
  BY PlaceFacts DEF Tiled
<1>. QED BY <1>1, InChunk

\* The sizes alone decide how the blocks lie.
LEMMA TiledSame ==
  ASSUME NEW n, NEW C, Tiled(n, C), NEW k, DOMAIN k.blk = DOMAIN n.blk,
         \A a \in DOMAIN n.blk : Sz(k, a) = Sz(n, a)
  PROVE  Tiled(k, C)
<1>1. \A a \in DOMAIN n.blk : Next_in_mem(k, a) = Next_in_mem(n, a)
  BY DEF Next_in_mem
<1>. QED BY <1>1 DEF Tiled, Inside

\* The block a of n is two blocks in k, the first with s fields.
Splits(n, k, a, s) ==
  /\ a \in DOMAIN n.blk /\ s \in Nat /\ s < Sz(n, a)
  /\ DOMAIN k.blk = DOMAIN n.blk \cup {a + s + 1}
  /\ Sz(k, a) = s /\ Sz(k, a + s + 1) = Sz(n, a) - s - 1
  /\ \A b \in DOMAIN n.blk : b # a => Sz(k, b) = Sz(n, b)

\* Splitting a block in two keeps the tiling.
LEMMA TiledSplit ==
  ASSUME NEW n, NEW C, Tiled(n, C), NEW k, NEW a, NEW s, Splits(n, k, a, s)
  PROVE  Tiled(k, C) /\ a + s + 1 \notin DOMAIN n.blk
<1>. DEFINE D == DOMAIN n.blk
            e == a + s + 1
            z == a + Sz(n, a) + 1
<1>1. /\ a \in D /\ s \in Nat /\ s < Sz(n, a) /\ DOMAIN k.blk = D \cup {e}
      /\ Sz(k, a) = s /\ Sz(k, e) = Sz(n, a) - s - 1
      /\ \A b \in D : b # a => Sz(k, b) = Sz(n, b)
  BY DEF Splits
<1>2. /\ IsFiniteSet(D) /\ D \subseteq Nat \ {0} /\ C \subseteq Places /\ IsFiniteSet(C)
      /\ \A b \in D : Sz(n, b) \in Nat
      /\ \A c \in C : c.start \in D
      /\ \A b \in D : \E c \in C : Inside(n, b, c)
      /\ \A b, d \in D : b < d => b + Sz(n, b) + 1 <= d
  BY DEF Tiled, Next_in_mem
<1>. HIDE DEF D
<1>3. /\ a \in Nat /\ Sz(n, a) \in Nat /\ e \in Nat \ {0} /\ a < e /\ e < z /\ z \in Nat
      /\ Sz(k, e) \in Nat
  BY <1>1, <1>2
<1>4. e \notin D
  BY <1>1, <1>2, <1>3
<1>5. IsFiniteSet(D \cup {e}) /\ D \cup {e} \subseteq Nat \ {0}
  BY <1>2, <1>3, FS_AddElement
<1>6. \A b \in D : b # a => Next_in_mem(k, b) = b + Sz(n, b) + 1
  BY <1>1 DEF Next_in_mem
<1>7. Next_in_mem(k, a) = e /\ Next_in_mem(k, e) = z
  <2>. HIDE DEF e
  <2>1. Next_in_mem(k, a) = a + s + 1 /\ Next_in_mem(k, e) = e + (Sz(n, a) - s - 1) + 1
    BY <1>1 DEF Next_in_mem
  <2>2. e + (Sz(n, a) - s - 1) + 1 = z
    BY <1>1, <1>3 DEF e
  <2>. QED BY <2>1, <2>2 DEF e
<1>. HIDE DEF e, z
<1>8. \A b \in D \cup {e} : Sz(k, b) \in Nat
  BY <1>1, <1>2, <1>3, <1>4
<1>9. PICK c \in C : c.start <= a /\ z <= Limit(c) /\ (z \in D \/ z = Limit(c))
  BY <1>1, <1>2 DEF Inside, Next_in_mem, D, z
<1>10. c.start \in Nat /\ Limit(c) \in Nat
  BY <1>2, PlaceFacts
<1>11. Inside(k, a, c) /\ Inside(k, e, c)
  BY <1>1, <1>3, <1>7, <1>9, <1>10 DEF Inside
<1>12. ASSUME NEW b \in D, b # a PROVE \E d \in C : Inside(k, b, d)
  <2>1. PICK d \in C : Inside(n, b, d)
    BY <1>2
  <2>2. Next_in_mem(n, b) = b + Sz(n, b) + 1
    BY DEF Next_in_mem
  <2>. QED BY <1>1, <1>6, <1>12, <2>1, <2>2 DEF Inside, D
<1>13. ASSUME NEW b \in D \cup {e}, NEW d \in D \cup {e}, b < d
       PROVE  Next_in_mem(k, b) <= d
  <2>1. CASE b = a
    <3>1. d = e \/ z <= d
      BY <1>1, <1>2, <1>13, <2>1 DEF z
    <3>2. d \in Nat
      BY <1>2, <1>3
    <3>. QED BY <1>3, <1>7, <2>1, <3>1, <3>2
  <2>2. CASE b = e
    <3>1. d \in D /\ a < d
      BY <1>2, <1>3, <1>13, <2>2
    <3>2. z <= d
      BY <1>1, <1>2, <3>1 DEF z
    <3>. QED BY <1>7, <2>2, <3>2
  <2>3. CASE b \in D /\ b # a
    <3>1. CASE d = e
      <4>1. b < a
        BY <1>1, <1>2, <1>3, <1>13, <2>3, <3>1 DEF z
      <4>2. b + Sz(n, b) + 1 <= a
        BY <1>1, <1>2, <2>3, <4>1
      <4>3. b + Sz(n, b) + 1 \in Nat
        BY <1>2, <2>3
      <4>. QED BY <1>3, <1>6, <2>3, <3>1, <4>2, <4>3
    <3>2. CASE d \in D
      BY <1>2, <1>6, <1>13, <2>3, <3>2
    <3>. QED BY <3>1, <3>2
  <2>. QED BY <2>1, <2>2, <2>3
<1>14. \A d \in C : d.start \in D \cup {e}
  BY <1>2
<1>15. \A b \in D \cup {e} : \E d \in C : Inside(k, b, d)
  BY <1>11, <1>12
<1>. QED BY <1>1, <1>2, <1>4, <1>5, <1>8, <1>13, <1>14, <1>15 DEF Tiled, D, e

\* The blocks a and b of n, side by side, are one block in k.
Joins(n, k, a, b) ==
  /\ a \in DOMAIN n.blk /\ b \in DOMAIN n.blk /\ b = Next_in_mem(n, a)
  /\ DOMAIN k.blk = DOMAIN n.blk \ {b}
  /\ Sz(k, a) = Sz(n, a) + Sz(n, b) + 1
  /\ \A x \in DOMAIN n.blk \ {a, b} : Sz(k, x) = Sz(n, x)

\* Joining two blocks side by side keeps the tiling.
LEMMA TiledJoin ==
  ASSUME NEW n, NEW C, Tiled(n, C), NEW k, NEW a, NEW b, Joins(n, k, a, b)
  PROVE  Tiled(k, C) /\ a < b /\ Next_in_mem(k, a) = Next_in_mem(n, b)
<1>. DEFINE D == DOMAIN n.blk
            z == b + Sz(n, b) + 1
<1>1. /\ a \in D /\ b \in D /\ b = a + Sz(n, a) + 1 /\ DOMAIN k.blk = D \ {b}
      /\ Sz(k, a) = Sz(n, a) + Sz(n, b) + 1
      /\ \A x \in D \ {a, b} : Sz(k, x) = Sz(n, x)
  BY DEF Joins, Next_in_mem
<1>2. /\ IsFiniteSet(D) /\ D \subseteq Nat \ {0} /\ C \subseteq Places /\ IsFiniteSet(C)
      /\ \A x \in D : Sz(n, x) \in Nat
      /\ \A c \in C : c.start \in D
      /\ \A x \in D : \E c \in C : Inside(n, x, c)
      /\ \A x, y \in D : x < y => x + Sz(n, x) + 1 <= y
  BY DEF Tiled, Next_in_mem
<1>3. PICK c \in C : Inside(n, a, c)
  BY <1>1, <1>2
<1>4. c.start <= a /\ b <= Limit(c) /\ c \in Places /\ c.start \in Nat /\ Limit(c) \in Nat
  BY <1>1, <1>2, <1>3, PlaceFacts DEF Inside, Next_in_mem
<1>5. Inside(n, b, c)
  BY <1>1, <1>2, <1>4, InChunk
<1>. HIDE DEF D
<1>6. a \in Nat /\ b \in Nat /\ z \in Nat /\ a < b /\ b < z /\ Sz(n, a) \in Nat /\ Sz(n, b) \in Nat
  BY <1>1, <1>2
<1>7. Next_in_mem(k, a) = z /\ Next_in_mem(n, b) = z
  BY <1>1, <1>6 DEF Next_in_mem
<1>8. \A x \in D \ {a, b} : Next_in_mem(k, x) = Next_in_mem(n, x) /\ Next_in_mem(n, x) = x + Sz(n, x) + 1
  BY <1>1 DEF Next_in_mem
<1>. HIDE DEF z
<1>9. IsFiniteSet(D \ {b}) /\ D \ {b} \subseteq Nat \ {0}
  BY <1>1, <1>2, FS_RemoveElement
<1>10. \A x \in D \ {b} : Sz(k, x) \in Nat
  <2>1. Sz(k, a) \in Nat
    BY <1>1, <1>6
  <2>2. \A x \in D \ {a, b} : Sz(k, x) \in Nat
    BY <1>1, <1>2
  <2>. QED BY <2>1, <2>2
<1>11. \A d \in C : d.start # b
  <2>. SUFFICES ASSUME NEW d \in C, d.start = b PROVE FALSE
    OBVIOUS
  <2>1. d \in Places /\ c # d
    BY <1>2, <1>4, <1>6
  <2>2. b <= Limit(d) /\ Limit(d) \in Nat
    BY <2>1, PlaceFacts
  <2>. QED BY <1>4, <1>6, <2>1, <2>2, PlaceFacts
<1>12. \A x \in D \ {a, b} : Next_in_mem(n, x) # b
  <2>. SUFFICES ASSUME NEW x \in D \ {a, b}, x + Sz(n, x) + 1 = b PROVE FALSE
    BY <1>8
  <2>1. x \in Nat /\ Sz(n, x) \in Nat
    BY <1>2
  <2>2. x < a \/ a < x
    BY <1>6, <2>1
  <2>. QED BY <1>1, <1>2, <1>6, <2>1, <2>2
<1>13. Inside(k, a, c)
  BY <1>1, <1>4, <1>5, <1>6, <1>7 DEF Inside, D
<1>14. ASSUME NEW x \in D \ {b} PROVE \E d \in C : Inside(k, x, d)
  <2>1. CASE x = a
    BY <1>13, <2>1
  <2>2. CASE x # a
    <3>1. PICK d \in C : Inside(n, x, d)
      BY <1>2
    <3>. QED BY <1>1, <1>8, <1>12, <2>2, <3>1 DEF Inside, D
  <2>. QED BY <2>1, <2>2
<1>15. ASSUME NEW x \in D \ {b}, NEW y \in D \ {b}, x < y
       PROVE  Next_in_mem(k, x) <= y
  <2>1. CASE x = a
    <3>1. b <= y
      BY <1>1, <1>2, <1>15, <2>1
    <3>2. b < y
      BY <1>2, <1>6, <3>1
    <3>3. z <= y
      BY <1>1, <1>2, <3>2 DEF z
    <3>. QED BY <1>7, <2>1, <3>3
  <2>2. CASE x # a
    BY <1>2, <1>8, <1>15, <2>2
  <2>. QED BY <2>1, <2>2
<1>16. \A d \in C : d.start \in D \ {b}
  BY <1>2, <1>11
<1>17. DOMAIN k.blk = D \ {b} /\ C \subseteq Places /\ IsFiniteSet(C)
  BY <1>1, <1>2
<1>18. /\ \A x \in D \ {b} : \E d \in C : Inside(k, x, d)
       /\ \A x, y \in D \ {b} : x < y => Next_in_mem(k, x) <= y
  BY <1>14, <1>15
<1>19. Tiled(k, C)
  BY <1>9, <1>10, <1>16, <1>17, <1>18 DEF Tiled
<1>. QED BY <1>6, <1>7, <1>19

-----------------------------------------------------------------------------
(* The words of the tiles                                                   *)

BlocksOf(n, c) == {a \in DOMAIN n.blk : c.start <= a /\ a <= Limit(c)}

\* The blocks of a chunk, with their headers, are as long as the chunk.
LEMMA RunWords ==
  ASSUME NEW n, NEW C, Tiled(n, C), NEW c \in C
  PROVE  Words(n, BlocksOf(n, c)) = c.words
<1>. DEFINE D == DOMAIN n.blk
            x == c.start
            R(y) == {a \in D : x <= a /\ a < y}
            Good == {j \in 0 .. c.words : \A i \in 0 .. j :
                       x + i \in D \cup {Limit(c)} => Words(n, R(x + i)) = i}
<1>1. /\ IsFiniteSet(D) /\ D \subseteq Nat \ {0} /\ C \subseteq Places
      /\ \A a \in D : Sz(n, a) \in Nat
      /\ x \in D
      /\ \A a, b \in D : a < b => a + Sz(n, a) + 1 <= b
  BY DEF Tiled, Next_in_mem
<1>2. /\ x \in Nat \ {0} /\ c.words \in Nat /\ 2 <= c.words
      /\ Limit(c) = x + c.words /\ Limit(c) \in Nat
  BY <1>1, PlaceFacts
<1>3. \A a \in D : x <= a /\ a <= Limit(c) =>
        /\ a < Limit(c) /\ a + Sz(n, a) + 1 <= Limit(c)
        /\ a + Sz(n, a) + 1 \in D \cup {Limit(c)}
  BY InChunk DEF Inside, Next_in_mem
<1>. HIDE DEF D
<1>4. \A y : IsFiniteSet(R(y)) /\ R(y) \subseteq D
  BY <1>1, FS_Subset
<1>5. 0 \in Good
  <2>1. R(x + 0) = {}
    <3>1. x + 0 = x /\ \A a \in D : ~(x <= a /\ a < x)
      BY <1>1, <1>2
    <3>. QED BY <3>1
  <2>2. Words(n, {}) = 0
    BY WordsEmpty
  <2>. QED BY <1>2, <2>1, <2>2
<1>6. ASSUME NEW j \in 1 .. c.words, j - 1 \in Good PROVE j \in Good
  <2>1. j \in 0 .. c.words /\ j \in Nat /\ j - 1 \in Nat
    BY <1>2
  <2>2. \A i \in 0 .. j - 1 : x + i \in D \cup {Limit(c)} => Words(n, R(x + i)) = i
    BY <1>6
  <2>3. ASSUME x + j \in D \cup {Limit(c)} PROVE Words(n, R(x + j)) = j
    <3>. DEFINE y == x + j
    <3>1. y \in Nat /\ x < y /\ y <= Limit(c) /\ x \in R(y)
      BY <1>1, <1>2, <2>1
    <3>2. PICK a \in R(y) : \A b \in R(y) : b <= a
      <4>1. R(y) \in SUBSET Nat /\ IsFiniteSet(R(y)) /\ R(y) # {}
        BY <1>1, <1>4, <3>1
      <4>. HIDE DEF R, y
      <4>. QED BY <4>1, GreatestOf
    <3>3. a \in D /\ a \in Nat /\ x <= a /\ a < y /\ Sz(n, a) \in Nat
      BY <1>1, <3>2
    <3>4. a + Sz(n, a) + 1 <= y
      <4>1. CASE y \in D
        BY <1>1, <3>3, <4>1
      <4>2. CASE y = Limit(c)
        BY <1>2, <1>3, <3>1, <3>3, <4>2
      <4>. QED BY <2>3, <4>1, <4>2
    <3>5. a + Sz(n, a) + 1 = y
      <4>. SUFFICES ASSUME a + Sz(n, a) + 1 < y PROVE FALSE
        BY <3>1, <3>3, <3>4
      <4>1. a <= Limit(c) /\ a + Sz(n, a) + 1 # Limit(c)
        BY <1>2, <3>1, <3>3
      <4>2. a + Sz(n, a) + 1 \in D
        BY <1>3, <3>3, <4>1
      <4>3. a + Sz(n, a) + 1 \in R(y)
        BY <1>2, <3>3, <4>2
      <4>. QED BY <3>2, <3>3, <4>3
    <3>6. R(y) = R(a) \cup {a}
      <4>1. ASSUME NEW b \in R(y) PROVE b \in R(a) \cup {a}
        <5>1. b \in Nat /\ b <= a
          BY <1>1, <3>2
        <5>. QED BY <3>3, <5>1
      <4>2. \A b \in D : b < a => b < y
        BY <1>1, <3>1, <3>3
      <4>3. R(a) \cup {a} \subseteq R(y)
        <5>. HIDE DEF y
        <5>. QED BY <3>3, <4>2
      <4>. QED BY <4>1, <4>3
    <3>7. Words(n, R(a)) = a - x
      <4>1. a - x \in 0 .. j - 1 /\ x + (a - x) = a
        BY <1>2, <2>1, <3>3
      <4>. QED BY <2>2, <3>3, <4>1
    <3>8. Words(n, R(a) \cup {a}) = Words(n, R(a)) + Sz(n, a) + 1
      <4>1. IsFiniteSet(R(a)) /\ a \notin R(a) /\ \A b \in R(a) \cup {a} : Sz(n, b) \in Nat
        BY <1>1, <1>4, <3>3
      <4>. HIDE DEF R
      <4>. QED BY <4>1, WordsAdd
    <3>. HIDE DEF R
    <3>9. (a - x) + Sz(n, a) + 1 = j
      BY <1>2, <2>1, <3>3, <3>5
    <3>. QED BY <3>6, <3>7, <3>8, <3>9
  <2>4. \A i \in 0 .. j : i \in 0 .. j - 1 \/ i = j
    BY <2>1
  <2>. HIDE DEF R
  <2>. QED BY <2>1, <2>2, <2>3, <2>4
<1>. HIDE DEF Good
<1>7. \A j \in 0 .. c.words : j \in Good
  BY <1>2, <1>5, <1>6, UpTo
<1>8. c.words \in Good /\ c.words \in 0 .. c.words
  BY <1>2, <1>7
<1>9. Words(n, R(x + c.words)) = c.words
  BY <1>2, <1>8 DEF Good
<1>10. R(x + c.words) = BlocksOf(n, c)
  <2>1. \A a \in D : a <= Limit(c) /\ x <= a => a < Limit(c)
    BY <1>3
  <2>2. \A a \in D : a < Limit(c) => a <= Limit(c)
    BY <1>1, <1>2
  <2>. QED BY <1>2, <2>1, <2>2 DEF BlocksOf, D
<1>. QED BY <1>9, <1>10

\* So the blocks of the heap are as long as its chunks.
LEMMA TiledWords ==
  ASSUME NEW n, NEW C, Tiled(n, C)
  PROVE  Words(n, DOMAIN n.blk) = ChunkWords(C)
<1>. DEFINE D == DOMAIN n.blk
            In(T) == {a \in D : \E c \in T : c.start <= a /\ a <= Limit(c)}
            Good == {T \in SUBSET C : Words(n, In(T)) = ChunkWords(T)}
<1>1. /\ IsFiniteSet(D) /\ D \subseteq Nat \ {0} /\ C \subseteq Places /\ IsFiniteSet(C)
      /\ \A a \in D : Sz(n, a) \in Nat
      /\ \A a \in D : \E c \in C : c.start <= a /\ a + Sz(n, a) + 1 <= Limit(c)
  BY DEF Tiled, Inside, Next_in_mem
<1>2. {} \in Good
  <2>1. In({}) = {}
    OBVIOUS
  <2>2. Words(n, {}) = 0 /\ ChunkWords({}) = 0
    BY WordsEmpty, ChunkWordsEmpty
  <2>. QED BY <2>1, <2>2
<1>3. ASSUME NEW T \in SUBSET C, NEW c \in C \ T, T \in Good PROVE T \cup {c} \in Good
  <2>1. In(T \cup {c}) = In(T) \cup BlocksOf(n, c)
    BY DEF BlocksOf
  <2>2. IsFiniteSet(In(T)) /\ IsFiniteSet(BlocksOf(n, c))
    BY <1>1, FS_Subset DEF BlocksOf
  <2>3. In(T) \cap BlocksOf(n, c) = {}
    <3>. SUFFICES ASSUME NEW a \in D, NEW d \in T, d.start <= a, a <= Limit(d),
                         c.start <= a, a <= Limit(c)
                  PROVE  FALSE
      BY DEF BlocksOf
    <3>1. c \in Places /\ d \in Places /\ c # d /\ a \in Nat
      BY <1>1
    <3>. QED BY <3>1, PlaceFacts
  <2>4. \A a \in In(T) \cup BlocksOf(n, c) : Sz(n, a) \in Nat
    BY <1>1 DEF BlocksOf
  <2>5. Words(n, BlocksOf(n, c)) = c.words
    BY RunWords
  <2>6. Words(n, In(T)) = ChunkWords(T)
    BY <1>3
  <2>7. Words(n, In(T) \cup BlocksOf(n, c)) = Words(n, In(T)) + Words(n, BlocksOf(n, c))
    <3>. HIDE DEF In
    <3>. QED BY <2>2, <2>3, <2>4, WordsUnion
  <2>8. ChunkWords(T \cup {c}) = ChunkWords(T) + c.words
    <3>1. IsFiniteSet(T) /\ c \notin T /\ \A x \in T \cup {c} : x.words \in Nat
      BY <1>1, PlaceFacts, FS_Subset
    <3>. QED BY <3>1, ChunkWordsAdd
  <2>. HIDE DEF In
  <2>. QED BY <2>1, <2>5, <2>6, <2>7, <2>8
<1>. HIDE DEF Good
<1>4. C \in Good
  BY <1>1, <1>2, <1>3, Grows
<1>5. In(C) = D
  <2>1. \A a \in D : \A c \in C : a + Sz(n, a) + 1 <= Limit(c) => a <= Limit(c)
    BY <1>1, PlaceFacts
  <2>. QED BY <1>1, <2>1
<1>. QED BY <1>4, <1>5 DEF Good

-----------------------------------------------------------------------------
(* A new chunk                                                              *)

\* Multiples of a number are at least that number apart.
LEMMA Multiples ==
  ASSUME NEW w \in Nat \ {0}
  PROVE  /\ 0 % w = 0
         /\ \A p \in Nat : p % w = 0 => (p + w) % w = 0
         /\ \A p, q \in Nat : p % w = 0 /\ q % w = 0 /\ p < q => p + w <= q
<1>1. \A p \in Nat : p \div w \in Nat /\ p = (w * (p \div w)) + (p % w)
  OBVIOUS
<1>2. \A i, j \in Nat : w * i < w * j => (w * i) + w <= w * j
  <2>. SUFFICES ASSUME NEW i \in Nat, NEW j \in Nat, w * i < w * j
                PROVE  (w * i) + w <= w * j
    OBVIOUS
  <2>1. i < j
    OBVIOUS
  <2>. QED BY <2>1
<1>3. ASSUME NEW p \in Nat, p % w = 0 PROVE (p + w) % w = 0
  <2>. DEFINE i == p \div w
              q == p + w
              j == q \div w
              r == q % w
  <2>1. i \in Nat /\ p = (w * i) + (p % w)
    BY <1>1
  <2>2. q \in Nat /\ j \in Nat /\ q = (w * j) + r /\ r \in 0 .. w - 1
    BY <1>1
  <2>3. p = w * i
    BY <1>3, <2>1
  <2>. HIDE DEF i, j, r
  <2>4. q = w * (i + 1)
    BY <2>1, <2>3
  <2>5. ~(w * j < w * (i + 1))
    <3>1. i + 1 \in Nat /\ w * j \in Nat /\ w * (i + 1) \in Nat
      BY <2>1, <2>2
    <3>2. w * j < w * (i + 1) => (w * j) + w <= w * (i + 1)
      BY <1>2, <2>2, <3>1
    <3>. HIDE DEF q
    <3>. QED BY <2>2, <2>4, <3>1, <3>2
  <2>6. w * j \in Nat /\ w * (i + 1) \in Nat
    BY <2>1, <2>2
  <2>. HIDE DEF q
  <2>7. r = 0
    BY <2>2, <2>4, <2>5, <2>6
  <2>. QED BY <2>7 DEF r, q
<1>4. ASSUME NEW p \in Nat, NEW q \in Nat, p % w = 0, q % w = 0, p < q
      PROVE  p + w <= q
  <2>. DEFINE i == p \div w
              j == q \div w
  <2>1. i \in Nat /\ p = (w * i) + (p % w) /\ j \in Nat /\ q = (w * j) + (q % w)
    BY <1>1
  <2>2. p = w * i /\ q = w * j
    BY <1>4, <2>1
  <2>. HIDE DEF i, j
  <2>. QED BY <1>2, <1>4, <2>1, <2>2
<1>. QED BY <1>3, <1>4

\* The blocks that fill a chunk.
LEMMA FillFacts ==
  ASSUME NEW c \in Places
  PROVE  /\ BlockStarts(c) \subseteq Nat \ {0} /\ IsFiniteSet(BlockStarts(c))
         /\ c.start \in BlockStarts(c) /\ BlockSize(c, c.start) > 0
         /\ \A a \in BlockStarts(c) :
              /\ c.start <= a /\ a < Limit(c) /\ BlockSize(c, a) \in 0 .. MaxWosize
              /\ a + BlockSize(c, a) + 1 <= Limit(c)
              /\ \/ a + BlockSize(c, a) + 1 \in BlockStarts(c)
                 \/ a + BlockSize(c, a) + 1 = Limit(c)
              /\ BlockSize(c, a) = MaxWosize \/ a + BlockSize(c, a) + 1 = Limit(c)
         /\ \A a, b \in BlockStarts(c) : a < b => a + MaxWosize + 1 <= b
         /\ c.words <= MaxWosize => BlockStarts(c) = {c.start}
<1>. DEFINE B == BlockStarts(c)
            w == MaxWosize + 1
            x == c.start
            sz(a) == BlockSize(c, a)
<1>1. /\ x \in Nat \ {0} /\ c.words \in Nat /\ 2 <= c.words
      /\ Limit(c) = x + c.words /\ Limit(c) \in Nat
      /\ MaxWosize \in Nat \ {0} /\ w \in Nat \ {0}
  BY PlaceFacts, FreeListAssumption
<1>2. B = {a \in x .. Limit(c) - 1 : (a - x) % w = 0}
  BY DEF BlockStarts
<1>3. /\ 0 % w = 0
      /\ \A p \in Nat : p % w = 0 => (p + w) % w = 0
      /\ \A p, q \in Nat : p % w = 0 /\ q % w = 0 /\ p < q => p + w <= q
  BY <1>1, Multiples
<1>4. \A a \in B : sz(a) = Min({MaxWosize, Limit(c) - a - 1})
  BY DEF BlockSize
<1>. HIDE DEF B, sz
<1>5. \A a \in B : a \in Nat /\ x <= a /\ a < Limit(c) /\ a - x \in Nat /\ (a - x) % w = 0
  BY <1>1, <1>2
<1>6. B \subseteq Nat \ {0} /\ IsFiniteSet(B)
  <2>1. IsFiniteSet(x .. Limit(c) - 1)
    <3>1. x \in Int /\ Limit(c) - 1 \in Int
      BY <1>1
    <3>. HIDE DEF x
    <3>. QED BY <3>1, FS_Interval
  <2>2. B \subseteq x .. Limit(c) - 1
    BY <1>2
  <2>3. IsFiniteSet(B)
    BY <2>1, <2>2, FS_Subset
  <2>. QED BY <1>1, <1>5, <2>3
<1>7. x \in B
  <2>1. x \in x .. Limit(c) - 1 /\ x - x = 0
    BY <1>1
  <2>. QED BY <1>2, <1>3, <2>1
<1>8. ASSUME NEW a \in B
      PROVE  /\ sz(a) \in 0 .. MaxWosize
             /\ sz(a) = MaxWosize \/ sz(a) = Limit(c) - a - 1
             /\ sz(a) <= Limit(c) - a - 1
             /\ Limit(c) - a - 1 > 0 => sz(a) > 0
  <2>. DEFINE T == {MaxWosize, Limit(c) - a - 1}
  <2>1. T \in SUBSET Nat /\ T # {}
    BY <1>1, <1>5
  <2>. HIDE DEF T
  <2>2. Min(T) \in T /\ \A k \in T : Min(T) <= k
    BY <2>1, MinOf
  <2>3. sz(a) \in {MaxWosize, Limit(c) - a - 1} /\ sz(a) <= MaxWosize /\ sz(a) <= Limit(c) - a - 1
    BY <1>4, <2>2 DEF T
  <2>4. Limit(c) - a - 1 \in Nat
    BY <1>1, <1>5
  <2>. QED BY <1>1, <2>3, <2>4
<1>9. ASSUME NEW a \in B
      PROVE  /\ a + sz(a) + 1 <= Limit(c)
             /\ a + sz(a) + 1 \in B \/ a + sz(a) + 1 = Limit(c)
             /\ sz(a) = MaxWosize \/ a + sz(a) + 1 = Limit(c)
  <2>1. /\ a \in Nat /\ sz(a) \in Nat /\ sz(a) <= Limit(c) - a - 1
        /\ sz(a) = MaxWosize \/ sz(a) = Limit(c) - a - 1
        /\ a - x \in Nat /\ (a - x) % w = 0
    BY <1>1, <1>5, <1>8
  <2>2. a + sz(a) + 1 <= Limit(c) /\ (sz(a) = MaxWosize \/ a + sz(a) + 1 = Limit(c))
    BY <1>1, <2>1
  <2>3. ASSUME sz(a) = MaxWosize, a + sz(a) + 1 # Limit(c) PROVE a + sz(a) + 1 \in B
    <3>1. a + sz(a) + 1 \in x .. Limit(c) - 1
      BY <1>1, <1>5, <2>1, <2>2, <2>3
    <3>2. (a + sz(a) + 1) - x = (a - x) + w
      BY <1>1, <2>1, <2>3
    <3>. QED BY <1>2, <1>3, <2>1, <3>1, <3>2
  <2>. QED BY <2>2, <2>3
<1>10. ASSUME NEW a \in B, NEW b \in B, a < b PROVE a + MaxWosize + 1 <= b
  <2>1. a \in Nat /\ b \in Nat /\ a - x \in Nat /\ b - x \in Nat /\ a - x < b - x
    BY <1>1, <1>5, <1>10
  <2>2. (a - x) + w <= b - x
    BY <1>3, <1>5, <2>1
  <2>. QED BY <1>1, <2>1, <2>2
<1>11. sz(x) > 0
  BY <1>1, <1>7, <1>8
<1>12. ASSUME c.words <= MaxWosize PROVE B = {x}
  <2>1. \A a \in B : a = x
    <3>. SUFFICES ASSUME NEW a \in B, x < a PROVE FALSE
      BY <1>1, <1>5
    <3>1. x + MaxWosize + 1 <= a
      BY <1>7, <1>10
    <3>. QED BY <1>1, <1>5, <1>12, <3>1
  <2>. QED BY <1>7, <2>1
<1>. QED BY <1>5, <1>6, <1>7, <1>8, <1>9, <1>10, <1>11, <1>12 DEF B, sz

\* The free blocks of a new chunk, the first of them at its start.
LEMMA NewBlocksFacts ==
  ASSUME NEW c \in Places
  PROVE  /\ Rising(NewBlocks(c))
         /\ Range(NewBlocks(c)) = {a \in BlockStarts(c) : BlockSize(c, a) > 0}
         /\ Len(NewBlocks(c)) >= 1 /\ NewBlocks(c)[1] = c.start
<1>. DEFINE S == {a \in BlockStarts(c) : BlockSize(c, a) > 0}
            l == NewBlocks(c)
<1>1. S \in SUBSET (Nat \ {0}) /\ IsFiniteSet(S) /\ c.start \in S /\ \A a \in S : c.start <= a
  <2>1. S \subseteq BlockStarts(c)
    OBVIOUS
  <2>2. IsFiniteSet(S)
    <3>. HIDE DEF S
    <3>. QED BY <2>1, FillFacts, FS_Subset
  <2>. QED BY <2>2, FillFacts
<1>2. l = Sorted(S)
  BY DEF NewBlocks
<1>. HIDE DEF S, l
<1>3. Rising(l) /\ Range(l) = S
  BY <1>1, <1>2, SortedFacts
<1>4. Len(l) \in Nat /\ Len(l) >= 1 /\ l[1] = c.start
  <2>1. PICK i \in 1 .. Len(l) : l[i] = c.start
    BY <1>1, <1>3, RisingRange
  <2>2. Len(l) \in Nat /\ 1 \in 1 .. Len(l)
    BY <1>3, <2>1, RisingRange
  <2>3. l[1] \in S /\ l[1] \in Nat /\ c.start \in Nat
    BY <1>1, <1>3, <2>2, RisingRange
  <2>4. i = 1 \/ l[1] < l[i]
    BY <1>3, <2>1, <2>2, RisingRange
  <2>. QED BY <1>1, <2>1, <2>2, <2>3, <2>4
<1>. QED BY <1>3, <1>4 DEF S, l

\* The heap with the blocks of a new chunk is tiled.
LEMMA FilledFacts ==
  ASSUME NEW n, Allocator(n), NEW C, Tiled(n, C), NEW c \in Places \ C
  PROVE  LET k == Filled(n, c)
         IN  /\ Allocator(k) /\ Tiled(k, C \cup {c})
             /\ \A f \in Fields \ {"blk"} : k[f] = n[f]
             /\ DOMAIN k.blk = DOMAIN n.blk \cup BlockStarts(c)
             /\ DOMAIN n.blk \cap BlockStarts(c) = {}
             /\ \A a \in DOMAIN n.blk : k.blk[a] = n.blk[a]
             /\ \A a \in BlockStarts(c) :
                  /\ Sz(k, a) = BlockSize(c, a)
                  /\ k.blk[a].col = IF BlockSize(c, a) = 0 THEN "white" ELSE "blue"
<1>. DEFINE k == Filled(n, c)
            B == BlockStarts(c)
            D == DOMAIN n.blk
            new(a) == Block(BlockSize(c, a), IF BlockSize(c, a) = 0 THEN "white" ELSE "blue")
            blk == [a \in B \cup D |-> IF a \notin B THEN n.blk[a] ELSE new(a)]
<1>1. k = [n EXCEPT !.blk = blk]
  BY DEF Filled
<1>2. n = [f \in Fields |-> n[f]] /\ "blk" \in Fields
  BY DEF Allocator, Fields
<1>3. k = [f \in Fields |-> IF f = "blk" THEN blk ELSE n[f]]
  BY <1>1, <1>2
<1>4. k.blk = blk /\ \A f \in Fields \ {"blk"} : k[f] = n[f]
  BY <1>2, <1>3
<1>5. k = [f \in Fields |-> k[f]]
  BY <1>3
<1>. HIDE DEF k
<1>6. /\ IsFiniteSet(D) /\ D \subseteq Nat \ {0} /\ C \subseteq Places /\ IsFiniteSet(C)
      /\ \A a \in D : Sz(n, a) \in Nat
      /\ \A d \in C : d.start \in D
      /\ \A a \in D : \E d \in C : Inside(n, a, d)
      /\ \A a, b \in D : a < b => Next_in_mem(n, a) <= b
  BY DEF Tiled
<1>7. D \cap B = {}
  <2>. SUFFICES ASSUME NEW a \in D, a \in B PROVE FALSE
    OBVIOUS
  <2>1. PICK d \in C : Inside(n, a, d)
    BY <1>6
  <2>2. d \in Places /\ d # c /\ a \in Nat /\ Sz(n, a) \in Nat
    BY <1>6
  <2>3. d.start <= a /\ a + Sz(n, a) + 1 <= Limit(d) /\ c.start <= a /\ a < Limit(c)
    BY <2>1, FillFacts DEF Inside, Next_in_mem
  <2>. QED BY <2>2, <2>3, PlaceFacts
<1>8. \A a \in D : k.blk[a] = n.blk[a]
  BY <1>4, <1>7
<1>9. \A a \in B : k.blk[a] = new(a)
  BY <1>4
<1>10. DOMAIN k.blk = D \cup B
  BY <1>4
<1>11. \A a \in B : /\ new(a) \in Header
                    /\ new(a).sz = BlockSize(c, a)
                    /\ new(a).col = IF BlockSize(c, a) = 0 THEN "white" ELSE "blue"
  <2>1. \A a \in B : BlockSize(c, a) \in 0 .. MaxWosize
    BY FillFacts
  <2>. QED BY <2>1 DEF Block, Header, Colours
<1>12. Allocator(k)
  <2>1. k.blk = [a \in DOMAIN k.blk |-> k.blk[a]]
    BY <1>4
  <2>2. \A a \in D : n.blk[a] \in Header
    BY DEF Allocator
  <2>3. \A a \in DOMAIN k.blk : k.blk[a] \in Header
    BY <1>8, <1>9, <1>10, <1>11, <2>2
  <2>. QED BY <1>5, <2>1, <2>3 DEF Allocator
<1>. HIDE DEF blk
<1>13. \A a \in D : Sz(k, a) = Sz(n, a) /\ Next_in_mem(k, a) = Next_in_mem(n, a)
  BY <1>8 DEF Sz, Next_in_mem
<1>14. \A a \in B : Sz(k, a) = BlockSize(c, a) /\ Next_in_mem(k, a) = a + BlockSize(c, a) + 1
  BY <1>9, <1>11 DEF Sz, Next_in_mem
<1>. HIDE DEF new
<1>15. Tiled(k, C \cup {c})
  <2>1. IsFiniteSet(D \cup B) /\ D \cup B \subseteq Nat \ {0}
    BY <1>6, FillFacts, FS_Union
  <2>2. C \cup {c} \subseteq Places /\ IsFiniteSet(C \cup {c})
    BY <1>6, FS_AddElement
  <2>3. \A a \in D \cup B : Sz(k, a) \in Nat
    BY <1>6, <1>13, <1>14, FillFacts, FreeListAssumption
  <2>4. \A d \in C \cup {c} : d.start \in D \cup B
    BY <1>6, FillFacts
  <2>5. ASSUME NEW a \in D \cup B PROVE \E d \in C \cup {c} : Inside(k, a, d)
    <3>1. CASE a \in D
      <4>1. PICK d \in C : Inside(n, a, d)
        BY <1>6, <3>1
      <4>. QED BY <1>10, <1>13, <3>1, <4>1 DEF Inside
    <3>2. CASE a \in B
      <4>1. Inside(k, a, c)
        BY <1>10, <1>14, <3>2, FillFacts DEF Inside
      <4>. QED BY <4>1
    <3>. QED BY <3>1, <3>2
  <2>6. ASSUME NEW a \in D \cup B, NEW b \in D \cup B, a < b PROVE Next_in_mem(k, a) <= b
    <3>1. CASE a \in D /\ b \in D
      BY <1>6, <1>13, <2>6, <3>1
    <3>2. CASE a \in B /\ b \in B
      <4>1. a + MaxWosize + 1 <= b /\ BlockSize(c, a) <= MaxWosize
        BY <2>6, <3>2, FillFacts, FreeListAssumption
      <4>2. a \in Nat /\ b \in Nat /\ BlockSize(c, a) \in Nat /\ MaxWosize \in Nat
        BY <3>2, FillFacts, FreeListAssumption
      <4>. QED BY <1>14, <3>2, <4>1, <4>2
    <3>3. CASE a \in D /\ b \in B
      <4>1. PICK d \in C : Inside(n, a, d)
        BY <1>6, <3>3
      <4>2. d \in Places /\ d # c /\ a \in Nat /\ Sz(n, a) \in Nat /\ b \in Nat
        BY <1>6, <3>3, FillFacts
      <4>3. d.start <= a /\ a + Sz(n, a) + 1 <= Limit(d) /\ c.start <= b /\ b < Limit(c)
        BY <3>3, <4>1, FillFacts DEF Inside, Next_in_mem
      <4>4. Limit(d) < c.start
        BY <2>6, <4>2, <4>3, PlaceFacts
      <4>5. a + Sz(n, a) + 1 <= b
        BY <4>2, <4>3, <4>4, PlaceFacts
      <4>. QED BY <1>13, <3>3, <4>5 DEF Next_in_mem
    <3>4. CASE a \in B /\ b \in D
      <4>1. PICK d \in C : Inside(n, b, d)
        BY <1>6, <3>4
      <4>2. /\ d \in Places /\ d # c /\ b \in Nat /\ Sz(n, b) \in Nat /\ a \in Nat
            /\ BlockSize(c, a) \in Nat
        BY <1>6, <3>4, FillFacts, FreeListAssumption
      <4>3. /\ d.start <= b /\ b + Sz(n, b) + 1 <= Limit(d)
            /\ c.start <= a /\ a + BlockSize(c, a) + 1 <= Limit(c)
        BY <3>4, <4>1, FillFacts DEF Inside, Next_in_mem
      <4>4. Limit(c) < d.start
        BY <2>6, <4>2, <4>3, PlaceFacts
      <4>5. a + BlockSize(c, a) + 1 <= b
        BY <4>2, <4>3, <4>4, PlaceFacts
      <4>. QED BY <1>14, <3>4, <4>5
    <3>. QED BY <3>1, <3>2, <3>3, <3>4
  <2>. QED BY <1>10, <2>1, <2>2, <2>3, <2>4, <2>5, <2>6 DEF Tiled
<1>16. \A a \in B : k.blk[a].col = IF BlockSize(c, a) = 0 THEN "white" ELSE "blue"
  BY <1>9, <1>11
<1>. QED BY <1>4, <1>7, <1>8, <1>10, <1>12, <1>14, <1>15, <1>16 DEF k

-----------------------------------------------------------------------------
(* The state of next fit and first fit.  C is the set of chunks, sc the     *)
(* chunk under the sweeper and lv the blocks that the program holds.        *)

BlueOf(n) == {a \in DOMAIN n.blk : n.blk[a].col = "blue"}

\* The free list is the blue blocks in order, and wsz is their size.
Listed(n) ==
  /\ Rising(n.fl) /\ Range(n.fl) = BlueOf(n)
  /\ \A a \in Range(n.fl) : Sz(n, a) > 0
  /\ n.wsz = Words(n, Range(n.fl))

\* The blocks the program holds have the size it asked for and are not free.
Held(n, lv) ==
  \A a \in DOMAIN lv : /\ a \in DOMAIN n.blk /\ n.blk[a].col # "blue"
                       /\ Sz(n, a) = lv[a] /\ lv[a] \in Requests

\* A fragment right before the sweeper is a block of no fields.
Fragment(n) ==
  n.frag # Nil =>
    /\ n.frag <= n.hp
    /\ n.frag = n.hp => n.frag - 1 \in DOMAIN n.blk /\ Sz(n, n.frag - 1) = 0

\* The sweeper is at a block or at the end of its chunk, merge is the free
\* block before it, and what the program holds ahead of it is black.
Swept(n, sc, lv) ==
  /\ sc.start <= n.hp /\ n.hp <= Limit(sc)
  /\ n.hp \in DOMAIN n.blk \cup {Limit(sc)}
  /\ NextBelow(Range(n.fl), n.hp, n.merge)
  /\ \A a \in DOMAIN lv : n.hp <= a => n.blk[a].col = "black"
  /\ Fragment(n)

\* No two blue blocks lie side by side in a chunk that one block could fill.
Apart(n, C) ==
  \A c \in C : c.words <= MaxWosize =>
    \A a \in BlueOf(n) :
      c.start <= a /\ a <= Limit(c) => Next_in_mem(n, a) \notin BlueOf(n)

HeapInv(n, C, sc, lv) ==
  /\ Allocator(n) /\ Tiled(n, C) /\ sc \in C
  /\ Listed(n) /\ Held(n, lv) /\ Apart(n, C)
  /\ n.phase \in {"idle", "sweep"} /\ n.hp \in Nat /\ n.frag \in Nat /\ n.least = Nil
  /\ n.phase = "sweep" => Swept(n, sc, lv)

\* The size and the colour in the header of a block.
LEMMA SizeFacts ==
  ASSUME NEW n, Allocator(n), NEW a \in DOMAIN n.blk
  PROVE  Sz(n, a) \in Nat /\ Sz(n, a) <= MaxWosize /\ n.blk[a].col \in Colours
BY FreeListAssumption DEF Allocator, Header, Sz

-----------------------------------------------------------------------------
(* Giving a block                                                           *)

\* The fields that nf_prev, nf_last and first fit's table are not.
HeapFields == Fields \ {"prev", "last", "flp", "beyond"}

Piece(n, wo, cur) == cur + Sz(n, cur) - wo

\* k is n once a block of wo fields has been cut from the end of cur.
Gives(n, k, wo, prev, cur, col) ==
  LET sz == Sz(n, cur)
      e == Piece(n, wo, cur)
      out == sz <= wo + 1
  IN /\ Allocator(k)
     /\ DOMAIN k.blk = DOMAIN n.blk \cup {e}
     /\ k.blk[e] = Block(wo, col)
     /\ e # cur => k.blk[cur] = Block(sz - wo - 1, IF out THEN "white" ELSE "blue")
     /\ \A b \in DOMAIN n.blk \ {cur, e} : k.blk[b] = n.blk[b]
     /\ Rising(k.fl)
     /\ Range(k.fl) = IF out THEN Range(n.fl) \ {cur} ELSE Range(n.fl)
     /\ k.wsz = IF out THEN n.wsz - (sz + 1) ELSE n.wsz - (wo + 1)
     /\ k.merge = IF out /\ n.merge = cur THEN prev ELSE n.merge
     /\ k.hp = n.hp /\ k.frag = n.frag /\ k.phase = n.phase /\ k.least = n.least

\* allocate_block, whatever else is done to the pointers of the policy.
LEMMA AllocateGives ==
  ASSUME NEW n, Allocator(n), NEW C, Tiled(n, C), Rising(n.fl), NEW cur \in Range(n.fl),
         cur \in DOMAIN n.blk, NEW prev, NEW wo \in 1 .. MaxWosize, wo <= Sz(n, cur),
         NEW col \in Colours, NEW k, Allocator(k),
         LET r == allocate_block(n, wo, prev, cur)
         IN \A f \in HeapFields : k[f] = Hd(r.m, r.hp, wo, col)[f]
  PROVE  /\ allocate_block(n, wo, prev, cur).hp = Piece(n, wo, cur)
         /\ Gives(n, k, wo, prev, cur, col)
<1>. DEFINE r == allocate_block(n, wo, prev, cur)
            sz == Sz(n, cur)
            e == Piece(n, wo, cur)
            out == sz <= wo + 1
            q == Hd(r.m, r.hp, wo, col)
<1>1. /\ cur \in Nat \ {0} /\ sz \in Nat /\ sz <= MaxWosize /\ wo \in Nat /\ MaxWosize \in Nat
      /\ wo <= sz /\ e = cur + sz - wo /\ e \in Nat /\ (e = cur <=> sz = wo)
  BY SizeFacts, FreeListAssumption DEF Tiled, Piece
<1>2. \A f \in HeapFields : k[f] = q[f]
  OBVIOUS
<1>3. r.hp = e
  BY DEF allocate_block, Piece
<1>. DEFINE hf(s) == /\ Allocator(s) /\ Rising(s.fl)
                     /\ Range(s.fl) = (IF out THEN Range(n.fl) \ {cur} ELSE Range(n.fl))
                     /\ DOMAIN s.blk = DOMAIN n.blk
                     /\ \A b \in DOMAIN n.blk \ {cur} : s.blk[b] = n.blk[b]
                     /\ s.blk[cur] = IF out THEN Block(0, "white") ELSE Block(sz - wo - 1, "blue")
                     /\ s.wsz = (IF out THEN n.wsz - (sz + 1) ELSE n.wsz - (wo + 1))
                     /\ s.merge = (IF out /\ n.merge = cur THEN prev ELSE n.merge)
                     /\ s.hp = n.hp /\ s.frag = n.frag /\ s.phase = n.phase /\ s.least = n.least
<1>4. ASSUME out PROVE hf(r.m)
  <2>. DEFINE u == Unlink(n, cur)
              h == Hd(u, cur, 0, "white")
              s == [h EXCEPT !.wsz = @ - (sz + 1), !.merge = IF @ = cur THEN prev ELSE @]
  <2>1. r.m = s
    BY <1>4 DEF allocate_block
  <2>2. /\ Allocator(u) /\ Rising(u.fl) /\ Range(u.fl) = Range(n.fl) \ {cur}
        /\ \A f \in Fields \ {"fl"} : u[f] = n[f]
    BY UnlinkFacts
  <2>. HIDE DEF u
  <2>3. 0 \in 0 .. MaxWosize /\ "white" \in Colours
    BY <1>1 DEF Colours
  <2>. HIDE DEF sz
  <2>4. /\ Allocator(h) /\ DOMAIN h.blk = DOMAIN u.blk \cup {cur}
        /\ h.blk[cur] = Block(0, "white")
        /\ \A b \in DOMAIN u.blk : b # cur => h.blk[b] = u.blk[b]
        /\ \A f \in Fields \ {"blk"} : h[f] = u[f]
    <3>1. Rewritten(u, h, cur, 0, "white")
      BY <2>2, <2>3, HdRewrites
    <3>. QED BY <3>1 DEF Rewritten
  <2>. HIDE DEF h
  <2>5. h = [f \in Fields |-> h[f]]
    BY <2>4 DEF Allocator
  <2>6. /\ \A f \in Fields \ {"wsz", "merge"} : s[f] = h[f]
        /\ s = [f \in Fields |-> s[f]]
        /\ s.wsz = h.wsz - (sz + 1) /\ s.merge = IF h.merge = cur THEN prev ELSE h.merge
    <3>. HIDE DEF sz
    <3>1. "wsz" \in Fields /\ "merge" \in Fields
      BY DEF Fields
    <3>. QED BY <2>5, <3>1
  <2>. HIDE DEF s
  <2>7. /\ s.blk = h.blk /\ s.fl = h.fl /\ s.hp = h.hp /\ s.frag = h.frag
        /\ s.phase = h.phase /\ s.least = h.least
    BY <2>6 DEF Fields
  <2>8. /\ h.fl = u.fl /\ h.hp = u.hp /\ h.frag = u.frag /\ h.phase = u.phase
        /\ h.least = u.least /\ h.wsz = u.wsz /\ h.merge = u.merge
    BY <2>4 DEF Fields
  <2>9. /\ u.blk = n.blk /\ u.hp = n.hp /\ u.frag = n.frag /\ u.phase = n.phase
        /\ u.least = n.least /\ u.wsz = n.wsz /\ u.merge = n.merge
    BY <2>2 DEF Fields
  <2>10. Allocator(s)
    BY <2>4, <2>6, <2>7 DEF Allocator
  <2>11. hf(s)
    BY <1>4, <2>2, <2>4, <2>6, <2>7, <2>8, <2>9, <2>10
  <2>. QED BY <2>1, <2>11
<1>5. ASSUME ~out PROVE hf(r.m)
  <2>. DEFINE h == Hd(n, cur, sz - wo - 1, "blue")
              s == [h EXCEPT !.wsz = @ - (wo + 1)]
  <2>1. r.m = s
    BY <1>5 DEF allocate_block
  <2>2. sz - wo - 1 \in 0 .. MaxWosize /\ "blue" \in Colours
    BY <1>1, <1>5 DEF Colours
  <2>3. /\ Allocator(h) /\ DOMAIN h.blk = DOMAIN n.blk \cup {cur}
        /\ h.blk[cur] = Block(sz - wo - 1, "blue")
        /\ \A b \in DOMAIN n.blk : b # cur => h.blk[b] = n.blk[b]
        /\ \A f \in Fields \ {"blk"} : h[f] = n[f]
    <3>. HIDE DEF sz
    <3>1. Rewritten(n, h, cur, sz - wo - 1, "blue")
      BY <2>2, HdRewrites
    <3>. QED BY <3>1 DEF Rewritten
  <2>. HIDE DEF h
  <2>4. h = [f \in Fields |-> h[f]] /\ "wsz" \in Fields
    BY <2>3 DEF Allocator, Fields
  <2>5. /\ \A f \in Fields \ {"wsz"} : s[f] = h[f]
        /\ s = [f \in Fields |-> s[f]] /\ s.wsz = h.wsz - (wo + 1)
    BY <2>4
  <2>. HIDE DEF s
  <2>6. /\ s.blk = h.blk /\ s.fl = h.fl /\ s.hp = h.hp /\ s.frag = h.frag
        /\ s.phase = h.phase /\ s.least = h.least /\ s.merge = h.merge
    BY <2>5 DEF Fields
  <2>7. /\ h.fl = n.fl /\ h.hp = n.hp /\ h.frag = n.frag /\ h.phase = n.phase
        /\ h.least = n.least /\ h.wsz = n.wsz /\ h.merge = n.merge
    BY <2>3 DEF Fields
  <2>8. Allocator(s)
    BY <2>3, <2>5, <2>6 DEF Allocator
  <2>9. hf(s)
    BY <1>5, <2>3, <2>5, <2>6, <2>7, <2>8
  <2>. QED BY <2>1, <2>9
<1>6. hf(r.m)
  BY <1>4, <1>5
<1>7. /\ Allocator(q) /\ DOMAIN q.blk = DOMAIN r.m.blk \cup {e}
      /\ q.blk[e] = Block(wo, col)
      /\ \A b \in DOMAIN r.m.blk : b # e => q.blk[b] = r.m.blk[b]
      /\ \A f \in Fields \ {"blk"} : q[f] = r.m[f]
  <2>1. wo \in 0 .. MaxWosize
    BY <1>1
  <2>2. Allocator(r.m)
    BY <1>6
  <2>. HIDE DEF r, e
  <2>3. Rewritten(r.m, q, e, wo, col)
    BY <1>3, <2>1, <2>2, HdRewrites
  <2>. QED BY <2>3 DEF Rewritten
<1>. HIDE DEF q, r
<1>8. /\ q.fl = r.m.fl /\ q.hp = r.m.hp /\ q.frag = r.m.frag /\ q.phase = r.m.phase
      /\ q.least = r.m.least /\ q.wsz = r.m.wsz /\ q.merge = r.m.merge
  BY <1>7 DEF Fields
<1>9. /\ k.blk = q.blk /\ k.fl = q.fl /\ k.hp = q.hp /\ k.frag = q.frag /\ k.phase = q.phase
      /\ k.least = q.least /\ k.wsz = q.wsz /\ k.merge = q.merge
  BY <1>2 DEF Fields, HeapFields
<1>10. e # cur => k.blk[cur] = Block(sz - wo - 1, IF out THEN "white" ELSE "blue")
  <2>1. e # cur /\ out => sz - wo - 1 = 0
    BY <1>1
  <2>2. e # cur => k.blk[cur] = r.m.blk[cur]
    BY <1>6, <1>7, <1>9
  <2>. QED BY <1>6, <2>1, <2>2
<1>11. Gives(n, k, wo, prev, cur, col)
  <2>. HIDE DEF e
  <2>. QED BY <1>6, <1>7, <1>8, <1>9, <1>10 DEF Gives, e
<1>. QED BY <1>3, <1>11 DEF r, e

\* The free block below y stays the one below y when another block leaves.
LEMMA BelowRemoved ==
  ASSUME NEW S \in SUBSET (Nat \ {0}), NEW y \in Nat, NEW x, NextBelow(S, y, x),
         NEW c \in S, NEW p, NextBelow(S, c, p)
  PROVE  NextBelow(S \ {c}, y, IF x = c THEN p ELSE x)
<1>1. CASE x # c
  BY <1>1 DEF NextBelow
<1>2. CASE x = c
  <2>1. c < y /\ \A a \in S : a < y => a <= c
    BY <1>2 DEF NextBelow, Nil
  <2>2. \A a \in S \ {c} : a < y => a < c
    BY <2>1
  <2>3. CASE p = Nil /\ \A a \in S : ~(a < c)
    BY <1>2, <2>2, <2>3 DEF NextBelow
  <2>4. CASE p \in S /\ p < c /\ \A a \in S : a < c => a <= p
    <3>1. p \in S \ {c} /\ p < y
      BY <2>1, <2>4
    <3>. QED BY <1>2, <2>2, <2>4, <3>1 DEF NextBelow
  <2>. QED BY <2>3, <2>4 DEF NextBelow
<1>. QED BY <1>1, <1>2

\* A block given to the program leaves the heap as the invariant says.
LEMMA GivesKeeps ==
  ASSUME NEW n, NEW C, NEW sc, NEW lv, HeapInv(n, C, sc, lv),
         NEW cur \in Range(n.fl), NEW prev, NextBelow(Range(n.fl), cur, prev),
         NEW wo \in Requests, wo <= Sz(n, cur), NEW k,
         Gives(n, k, wo, prev, cur, caml_allocation_color(n, Piece(n, wo, cur)))
  PROVE  HeapInv(k, C, sc, Put(lv, Piece(n, wo, cur), wo))
<1>. DEFINE sz == Sz(n, cur)
            e == Piece(n, wo, cur)
            out == sz <= wo + 1
            col == caml_allocation_color(n, e)
            D == DOMAIN n.blk
            R == Range(n.fl)
            lv2 == Put(lv, e, wo)
            s == sz - wo - 1
<1>1. /\ Allocator(n) /\ Tiled(n, C) /\ sc \in C
      /\ Rising(n.fl) /\ R = BlueOf(n) /\ \A a \in R : Sz(n, a) > 0
      /\ n.wsz = Words(n, R)
      /\ Held(n, lv) /\ Apart(n, C)
      /\ n.phase \in {"idle", "sweep"} /\ n.hp \in Nat /\ n.frag \in Nat /\ n.least = Nil
      /\ n.phase = "sweep" => Swept(n, sc, lv)
  BY DEF HeapInv, Listed
<1>2. cur \in D /\ R \subseteq D /\ n.blk[cur].col = "blue" /\ \A a \in R : n.blk[a].col = "blue"
  BY <1>1 DEF BlueOf
<1>3. IsFiniteSet(D) /\ D \subseteq Nat \ {0} /\ \A a \in D : Sz(n, a) \in Nat
  BY <1>1 DEF Tiled
<1>4. wo \in Nat /\ 1 <= wo /\ wo <= MaxWosize /\ MaxWosize \in Nat
  BY FreeListAssumption
<1>5. /\ cur \in Nat \ {0} /\ sz \in Nat /\ sz <= MaxWosize /\ wo <= sz
      /\ e = cur + sz - wo /\ e \in Nat /\ (e = cur <=> sz = wo) /\ cur <= e
  BY <1>1, <1>2, <1>3, <1>4, SizeFacts DEF Piece
<1>6. /\ Allocator(k)
      /\ DOMAIN k.blk = D \cup {e}
      /\ k.blk[e] = Block(wo, col)
      /\ e # cur => k.blk[cur] = Block(s, IF out THEN "white" ELSE "blue")
      /\ \A b \in D \ {cur, e} : k.blk[b] = n.blk[b]
      /\ Rising(k.fl)
      /\ Range(k.fl) = IF out THEN R \ {cur} ELSE R
      /\ k.wsz = IF out THEN n.wsz - (sz + 1) ELSE n.wsz - (wo + 1)
      /\ k.merge = IF out /\ n.merge = cur THEN prev ELSE n.merge
      /\ k.hp = n.hp /\ k.frag = n.frag /\ k.phase = n.phase /\ k.least = n.least
  BY DEF Gives
<1>7. col \in {"white", "black"} /\ col # "blue"
  BY DEF caml_allocation_color
<1>. HIDE DEF e, sz, col, D, R, s, lv2
<1>8. Sz(k, e) = wo /\ k.blk[e].col = col
  BY <1>6 DEF Sz, Block
<1>9. e # cur => Sz(k, cur) = s /\ k.blk[cur].col = IF out THEN "white" ELSE "blue"
  BY <1>6 DEF Sz, Block
<1>10. \A b \in D \ {cur, e} : Sz(k, b) = Sz(n, b) /\ k.blk[b].col = n.blk[b].col
  BY <1>6 DEF Sz
<1>11. Tiled(k, C) /\ (e # cur => e \notin D)
  <2>1. CASE e = cur
    <3>1. DOMAIN k.blk = DOMAIN n.blk
      BY <1>2, <1>6, <2>1 DEF D
    <3>2. \A a \in DOMAIN n.blk : Sz(k, a) = Sz(n, a)
      BY <1>5, <1>8, <1>10, <2>1 DEF D, sz
    <3>. QED BY <1>1, <2>1, <3>1, <3>2, TiledSame
  <2>2. CASE e # cur
    <3>1. s \in Nat /\ s < sz /\ cur + s + 1 = e /\ sz - s - 1 = wo
      BY <1>4, <1>5, <2>2 DEF s
    <3>2. Splits(n, k, cur, s)
      <4>1. \A b \in D : b # cur => b # e
        <5>. SUFFICES ASSUME e \in D PROVE FALSE
          BY <2>2
        <5>1. cur < e /\ cur + sz + 1 <= e
          BY <1>1, <1>2, <1>5, <2>2 DEF Tiled, Next_in_mem, D, sz
        <5>. QED BY <1>4, <1>5, <5>1
      <4>2. \A b \in D : b # cur => Sz(k, b) = Sz(n, b)
        BY <1>10, <4>1
      <4>. QED BY <1>2, <1>6, <1>8, <1>9, <2>2, <3>1, <4>2 DEF Splits, D, sz
    <3>3. Tiled(k, C) /\ cur + s + 1 \notin DOMAIN n.blk
      BY <1>1, <3>2, TiledSplit
    <3>. QED BY <3>1, <3>3 DEF D
  <2>. QED BY <2>1, <2>2
<1>12. \A b \in D \ {cur} : b # e /\ k.blk[b] = n.blk[b] /\ Sz(k, b) = Sz(n, b)
  BY <1>6, <1>10, <1>11
<1>13. Range(k.fl) = BlueOf(k)
  <2>1. CASE e = cur
    <3>1. out
      BY <1>4, <1>5, <2>1
    <3>2. BlueOf(k) = {a \in D \ {cur} : n.blk[a].col = "blue"}
      BY <1>6, <1>7, <1>8, <1>12, <2>1, <1>2 DEF BlueOf
    <3>3. R \ {cur} = {a \in D \ {cur} : n.blk[a].col = "blue"}
      BY <1>1 DEF BlueOf, D
    <3>. QED BY <1>6, <3>1, <3>2, <3>3
  <2>2. CASE e # cur /\ out
    <3>1. BlueOf(k) = {a \in D \ {cur} : n.blk[a].col = "blue"}
      BY <1>6, <1>7, <1>8, <1>9, <1>12, <2>2, <1>2 DEF BlueOf
    <3>2. R \ {cur} = {a \in D \ {cur} : n.blk[a].col = "blue"}
      BY <1>1 DEF BlueOf, D
    <3>. QED BY <1>6, <2>2, <3>1, <3>2
  <2>3. CASE e # cur /\ ~out
    <3>1. BlueOf(k) = {a \in D : n.blk[a].col = "blue"}
      BY <1>6, <1>7, <1>8, <1>9, <1>12, <2>3, <1>2 DEF BlueOf
    <3>2. R = {a \in D : n.blk[a].col = "blue"}
      BY <1>1 DEF BlueOf, D
    <3>. QED BY <1>6, <2>3, <3>1, <3>2
  <2>4. ~out => e # cur
    BY <1>4, <1>5
  <2>. QED BY <2>1, <2>2, <2>3, <2>4
<1>14. \A a \in Range(k.fl) : Sz(k, a) > 0
  <2>1. \A a \in R \ {cur} : Sz(k, a) > 0
    BY <1>1, <1>2, <1>12
  <2>2. ~out => Sz(k, cur) > 0
    BY <1>4, <1>5, <1>9 DEF s
  <2>. QED BY <1>6, <2>1, <2>2
<1>15. k.wsz = Words(k, Range(k.fl))
  <2>. DEFINE T == R \ {cur}
  <2>1. IsFiniteSet(R) /\ \A x \in R : Sz(n, x) \in Nat
    BY <1>1, <1>2, <1>3, RisingRange DEF R
  <2>2. cur \in R
    BY DEF R
  <2>3. Words(n, T) \in Nat /\ Words(n, R) = Words(n, T) + sz + 1
    <3>. HIDE DEF R
    <3>. QED BY <2>1, <2>2, WordsRemove DEF sz
  <2>4. IsFiniteSet(T) /\ cur \notin T
    BY <2>1, FS_RemoveElement
  <2>5. \A x \in T : Sz(n, x) \in Nat /\ Sz(k, x) = Sz(n, x)
    BY <1>2, <1>12, <2>1
  <2>6. Words(n, T) = Words(k, T)
    <3>. HIDE DEF T
    <3>. QED BY <2>4, <2>5, WordsSame
  <2>7. CASE out
    BY <1>1, <1>5, <1>6, <2>3, <2>6, <2>7
  <2>8. CASE ~out
    <3>1. Sz(k, cur) = s /\ s \in Nat
      BY <1>4, <1>5, <1>9, <2>8 DEF s
    <3>2. T \cup {cur} = R /\ \A x \in T \cup {cur} : Sz(k, x) \in Nat
      BY <2>1, <2>2, <2>5, <3>1
    <3>3. Words(k, T \cup {cur}) = Words(k, T) + Sz(k, cur) + 1
      <4>. HIDE DEF T
      <4>. QED BY <2>4, <3>2, WordsAdd
    <3>4. Words(k, R) = Words(n, T) + s + 1
      BY <2>6, <3>1, <3>2, <3>3
    <3>5. n.wsz - (wo + 1) = Words(n, T) + s + 1
      BY <1>1, <1>4, <1>5, <2>3 DEF s
    <3>. QED BY <1>6, <2>8, <3>4, <3>5
  <2>. QED BY <2>7, <2>8
<1>16. Held(k, lv2)
  <2>1. \A a \in DOMAIN lv : a \in D /\ a # cur
    BY <1>1, <1>2 DEF Held, D
  <2>2. DOMAIN lv2 = {e} \cup DOMAIN lv /\ lv2[e] = wo
        /\ \A a \in DOMAIN lv : a # e => lv2[a] = lv[a]
    BY DEF lv2, Put
  <2>3. ASSUME NEW a \in DOMAIN lv
        PROVE  a \in DOMAIN k.blk /\ k.blk[a].col # "blue" /\ Sz(k, a) = lv2[a] /\ lv2[a] \in Requests
    BY <1>1, <1>6, <1>12, <2>1, <2>2 DEF Held
  <2>4. e \in DOMAIN k.blk /\ k.blk[e].col # "blue" /\ Sz(k, e) = lv2[e] /\ lv2[e] \in Requests
    BY <1>6, <1>7, <1>8, <2>2
  <2>. QED BY <2>2, <2>3, <2>4 DEF Held
<1>17. Apart(k, C)
  <2>. SUFFICES ASSUME NEW c \in C, c.words <= MaxWosize, NEW a \in BlueOf(k),
                       c.start <= a, a <= Limit(c)
                PROVE  Next_in_mem(k, a) \notin BlueOf(k)
    BY DEF Apart
  <2>1. a \in R /\ (a = cur => ~out)
    BY <1>6, <1>13
  <2>2. CASE a = cur
    <3>1. Next_in_mem(k, a) = cur + s + 1
      <4>1. e # cur
        BY <1>4, <1>5, <2>1, <2>2
      <4>. QED BY <1>9, <2>2, <4>1 DEF Next_in_mem
    <3>2. cur + s + 1 = e
      BY <1>4, <1>5 DEF s
    <3>. QED BY <1>7, <1>8, <3>1, <3>2 DEF BlueOf
  <2>3. CASE a # cur
    <3>1. Next_in_mem(k, a) = Next_in_mem(n, a)
      BY <1>2, <1>12, <2>1, <2>3 DEF Next_in_mem
    <3>2. Next_in_mem(n, a) \notin BlueOf(n)
      BY <1>1, <2>1 DEF Apart
    <3>3. BlueOf(k) \subseteq BlueOf(n)
      BY <1>1, <1>6, <1>13
    <3>. QED BY <3>1, <3>2, <3>3
  <2>. QED BY <2>2, <2>3
<1>18. ASSUME k.phase = "sweep" PROVE Swept(k, sc, lv2)
  <2>1. n.phase = "sweep" /\ Swept(n, sc, lv)
    BY <1>1, <1>6, <1>18
  <2>2. /\ sc.start <= k.hp /\ k.hp <= Limit(sc)
        /\ k.hp \in DOMAIN k.blk \cup {Limit(sc)}
    BY <1>6, <2>1 DEF Swept, D
  <2>3. NextBelow(Range(k.fl), k.hp, k.merge)
    <3>1. R \in SUBSET (Nat \ {0}) /\ cur \in R
      BY <1>2, <1>3 DEF R
    <3>2. NextBelow(R, n.hp, n.merge) /\ NextBelow(R, cur, prev)
      BY <2>1 DEF Swept, R
    <3>3. NextBelow(R \ {cur}, n.hp, IF n.merge = cur THEN prev ELSE n.merge)
      BY <1>1, <3>1, <3>2, BelowRemoved
    <3>4. CASE out
      BY <1>6, <3>3, <3>4
    <3>5. CASE ~out
      BY <1>6, <3>2, <3>5
    <3>. QED BY <3>4, <3>5
  <2>4. \A a \in DOMAIN lv2 : k.hp <= a => k.blk[a].col = "black"
    <3>1. DOMAIN lv2 = {e} \cup DOMAIN lv
      BY DEF lv2, Put
    <3>2. k.hp <= e => k.blk[e].col = "black"
      <4>1. n.hp <= e => e >= n.hp
        BY <1>1, <1>5
      <4>. QED BY <1>6, <1>8, <2>1, <4>1 DEF caml_allocation_color, col
    <3>3. \A a \in DOMAIN lv : k.hp <= a => k.blk[a].col = "black"
      <4>1. \A a \in DOMAIN lv : a \in D \ {cur}
        BY <1>1, <1>2 DEF Held, D
      <4>. QED BY <1>6, <1>12, <2>1, <4>1 DEF Swept
    <3>. QED BY <3>1, <3>2, <3>3
  <2>5. Fragment(k)
    <3>1. Fragment(n)
      BY <2>1 DEF Swept
    <3>2. \A a \in D : Sz(n, a) = 0 => a \in DOMAIN k.blk /\ Sz(k, a) = 0
      BY <1>4, <1>5, <1>6, <1>12 DEF sz
    <3>. QED BY <1>6, <3>1, <3>2 DEF Fragment, D
  <2>. QED BY <2>2, <2>3, <2>4, <2>5 DEF Swept
<1>19. Listed(k)
  BY <1>6, <1>13, <1>14, <1>15 DEF Listed
<1>20. HeapInv(k, C, sc, lv2)
  BY <1>1, <1>6, <1>11, <1>16, <1>17, <1>18, <1>19 DEF HeapInv
<1>. QED BY <1>20 DEF lv2, e

\* The invariant does not look at the pointers of the policy.
LEMMA HeapKeeps ==
  ASSUME NEW n, NEW C, NEW sc, NEW lv, HeapInv(n, C, sc, lv), NEW k, Allocator(k),
         \A f \in HeapFields : k[f] = n[f]
  PROVE  HeapInv(k, C, sc, lv)
<1>1. /\ k.blk = n.blk /\ k.fl = n.fl /\ k.wsz = n.wsz /\ k.merge = n.merge
      /\ k.hp = n.hp /\ k.frag = n.frag /\ k.phase = n.phase /\ k.least = n.least
  BY DEF HeapFields, Fields
<1>2. \A a : Sz(k, a) = Sz(n, a) /\ Next_in_mem(k, a) = Next_in_mem(n, a)
  BY <1>1 DEF Sz, Next_in_mem
<1>3. BlueOf(k) = BlueOf(n)
  BY <1>1 DEF BlueOf
<1>4. Tiled(k, C)
  BY <1>1, <1>2, TiledSame DEF HeapInv
<1>5. Listed(k)
  <2>1. Rising(n.fl) /\ Range(n.fl) = BlueOf(n) /\ n.wsz = Words(n, Range(n.fl))
        /\ \A a \in Range(n.fl) : Sz(n, a) > 0
    BY DEF HeapInv, Listed
  <2>2. IsFiniteSet(Range(n.fl)) /\ Range(n.fl) \subseteq DOMAIN n.blk
    BY <2>1, RisingRange DEF BlueOf
  <2>3. Words(n, Range(n.fl)) = Words(k, Range(n.fl))
    <3>1. \A x \in Range(n.fl) : Sz(n, x) \in Nat /\ Sz(k, x) = Sz(n, x)
      BY <1>2, <2>2, SizeFacts DEF HeapInv
    <3>. QED BY <2>2, <3>1, WordsSame
  <2>. QED BY <1>1, <1>2, <1>3, <2>1, <2>3 DEF Listed
<1>6. Held(k, lv)
  BY <1>1, <1>2 DEF Held, HeapInv
<1>7. Apart(k, C)
  BY <1>2, <1>3 DEF Apart, HeapInv
<1>8. ASSUME k.phase = "sweep" PROVE Swept(k, sc, lv)
  <2>1. Swept(n, sc, lv)
    BY <1>1, <1>8 DEF HeapInv
  <2>2. Fragment(k)
    BY <1>1, <1>2, <2>1 DEF Swept, Fragment
  <2>. QED BY <1>1, <2>1, <2>2 DEF Swept
<1>. QED BY <1>1, <1>4, <1>5, <1>6, <1>7, <1>8 DEF HeapInv

\* What a search that finds a block answers.
Found(n, r, wo, prev, cur) ==
  /\ cur \in Range(n.fl) /\ wo <= Sz(n, cur) /\ NextBelow(Range(n.fl), cur, prev)
  /\ r.hp = Piece(n, wo, cur)
  /\ Allocator(r.m)
  /\ \A f \in HeapFields : r.m[f] = allocate_block(n, wo, prev, cur).m[f]

\* What Give makes of it.
Given(r, wo) ==
  [Hd(r.m, r.hp, wo, caml_allocation_color(r.m, r.hp)) EXCEPT !.last = Nil]

\* k is what is left of n once the answer r of a search has been given.
Taken(n, C, sc, lv, r, wo, cur, k) ==
  /\ HeapInv(k, C, sc, Put(lv, r.hp, wo))
  /\ Range(k.fl) = IF Sz(n, cur) <= wo + 1 THEN Range(n.fl) \ {cur} ELSE Range(n.fl)
  /\ k.fl = r.m.fl /\ k.prev = r.m.prev /\ k.flp = r.m.flp
  /\ k.beyond = r.m.beyond /\ k.flpmax = r.m.flpmax

\* A request that was answered leaves a heap in order.
LEMMA FoundKeeps ==
  ASSUME NEW n, NEW C, NEW sc, NEW lv, HeapInv(n, C, sc, lv), NEW wo \in Requests,
         NEW prev, NEW cur, NEW r, Found(n, r, wo, prev, cur)
  PROVE  Taken(n, C, sc, lv, r, wo, cur, Given(r, wo))
<1>. DEFINE b == allocate_block(n, wo, prev, cur)
            e == Piece(n, wo, cur)
            col == caml_allocation_color(n, e)
            g == Hd(r.m, e, wo, col)
            k == [g EXCEPT !.last = Nil]
            h == Hd(b.m, b.hp, wo, col)
<1>1. /\ Allocator(n) /\ Tiled(n, C) /\ Rising(n.fl) /\ Range(n.fl) = BlueOf(n)
      /\ n.phase \in {"idle", "sweep"}
  BY DEF HeapInv, Listed
<1>2. /\ cur \in Range(n.fl) /\ cur \in DOMAIN n.blk /\ wo <= Sz(n, cur)
      /\ NextBelow(Range(n.fl), cur, prev) /\ r.hp = e /\ Allocator(r.m)
      /\ \A f \in HeapFields : r.m[f] = b.m[f]
  BY <1>1 DEF Found, BlueOf
<1>3. wo \in 1 .. MaxWosize /\ wo \in 0 .. MaxWosize
  BY FreeListAssumption
<1>4. b.hp = e
  BY DEF allocate_block, Piece
<1>5. col \in Colours
  BY DEF caml_allocation_color, Colours
<1>6. b.m.phase = n.phase /\ b.m.hp = n.hp /\ Allocator(b.m)
  <2>. DEFINE u == Unlink(n, cur)
              p == Hd(u, cur, 0, "white")
              q == Hd(n, cur, Sz(n, cur) - wo - 1, "blue")
  <2>1. CASE Sz(n, cur) <= wo + 1
    <3>1. Allocator(u) /\ \A f \in Fields \ {"fl"} : u[f] = n[f]
      BY <1>1, <1>2, UnlinkFacts
    <3>2. 0 \in 0 .. MaxWosize /\ "white" \in Colours
      BY FreeListAssumption DEF Colours
    <3>. HIDE DEF u
    <3>3. Rewritten(u, p, cur, 0, "white")
      BY <3>1, <3>2, HdRewrites
    <3>4. Allocator(p) /\ p.phase = n.phase /\ p.hp = n.hp
      BY <3>1, <3>3 DEF Rewritten, Fields
    <3>5. b.m = [p EXCEPT !.wsz = @ - (Sz(n, cur) + 1), !.merge = IF @ = cur THEN prev ELSE @]
      BY <2>1 DEF allocate_block, u
    <3>. HIDE DEF p, b
    <3>6. /\ b.m = [f \in Fields |-> b.m[f]] /\ b.m.blk = p.blk
          /\ b.m.phase = p.phase /\ b.m.hp = p.hp
      <4>1. p = [f \in Fields |-> p[f]]
        BY <3>4 DEF Allocator
      <4>. QED BY <3>5, <4>1 DEF Fields
    <3>. QED BY <3>4, <3>6 DEF Allocator
  <2>2. CASE ~(Sz(n, cur) <= wo + 1)
    <3>1. Sz(n, cur) - wo - 1 \in 0 .. MaxWosize /\ "blue" \in Colours
      BY <1>1, <1>2, <1>3, <2>2, SizeFacts, FreeListAssumption DEF Colours
    <3>2. Rewritten(n, q, cur, Sz(n, cur) - wo - 1, "blue")
      BY <1>1, <3>1, HdRewrites
    <3>3. Allocator(q) /\ q.phase = n.phase /\ q.hp = n.hp
      BY <3>2 DEF Rewritten, Fields
    <3>4. b.m = [q EXCEPT !.wsz = @ - (wo + 1)]
      BY <2>2 DEF allocate_block
    <3>. HIDE DEF q, b
    <3>5. /\ b.m = [f \in Fields |-> b.m[f]] /\ b.m.blk = q.blk
          /\ b.m.phase = q.phase /\ b.m.hp = q.hp
      <4>1. q = [f \in Fields |-> q[f]]
        BY <3>3 DEF Allocator
      <4>. QED BY <3>4, <4>1 DEF Fields
    <3>. QED BY <3>3, <3>5 DEF Allocator
  <2>. QED BY <2>1, <2>2
<1>. HIDE DEF b, e, col, k, g, h
<1>7. caml_allocation_color(r.m, r.hp) = col
  <2>1. "phase" \in HeapFields /\ "hp" \in HeapFields
    BY DEF HeapFields, Fields
  <2>2. r.m.phase = n.phase /\ r.m.hp = n.hp
    BY <1>2, <1>6, <2>1
  <2>. QED BY <1>2, <2>2 DEF caml_allocation_color, col
<1>8. Given(r, wo) = k
  BY <1>2, <1>7 DEF Given, k, g
<1>9. Rewritten(r.m, g, e, wo, col) /\ Rewritten(b.m, h, e, wo, col)
  BY <1>2, <1>3, <1>4, <1>5, <1>6, HdRewrites DEF g, h
<1>10. /\ k = [f \in Fields |-> k[f]] /\ \A f \in Fields \ {"last"} : k[f] = g[f]
       /\ Allocator(k)
  <2>1. Allocator(g)
    BY <1>9 DEF Rewritten
  <2>2. g = [f \in Fields |-> g[f]]
    BY <2>1 DEF Allocator
  <2>3. k = [f \in Fields |-> k[f]] /\ \A f \in Fields \ {"last"} : k[f] = g[f]
    BY <2>2 DEF k
  <2>4. k.blk = g.blk
    BY <2>3 DEF Fields
  <2>. QED BY <2>1, <2>3, <2>4 DEF Allocator
<1>11. \A f \in HeapFields : k[f] = h[f]
  <2>1. \A f \in HeapFields \ {"blk"} : f \in Fields \ {"blk"} /\ f \in Fields \ {"last"}
    BY DEF HeapFields
  <2>2. \A f \in HeapFields \ {"blk"} : k[f] = h[f]
    <3>. SUFFICES ASSUME NEW f \in HeapFields \ {"blk"} PROVE k[f] = h[f]
      OBVIOUS
    <3>1. g[f] = r.m[f] /\ h[f] = b.m[f]
      BY <1>9, <2>1 DEF Rewritten
    <3>. QED BY <1>2, <1>10, <2>1, <3>1
  <2>3. k.blk = h.blk
    <3>1. r.m.blk = b.m.blk
      BY <1>2 DEF HeapFields, Fields
    <3>2. k.blk = g.blk
      BY <1>10 DEF Fields
    <3>3. /\ DOMAIN g.blk = DOMAIN h.blk
          /\ \A a \in DOMAIN g.blk : g.blk[a] = h.blk[a]
      BY <1>9, <3>1 DEF Rewritten
    <3>4. g.blk = [a \in DOMAIN g.blk |-> g.blk[a]] /\ h.blk = [a \in DOMAIN h.blk |-> h.blk[a]]
      BY <1>9 DEF Rewritten, Allocator
    <3>. QED BY <3>2, <3>3, <3>4
  <2>. QED BY <2>2, <2>3
<1>12. Gives(n, k, wo, prev, cur, col)
  BY <1>1, <1>2, <1>3, <1>5, <1>10, <1>11, AllocateGives DEF h, b
<1>13. HeapInv(k, C, sc, Put(lv, e, wo))
  BY <1>2, <1>12, GivesKeeps DEF e, col
<1>14. /\ k.fl = r.m.fl /\ k.prev = r.m.prev /\ k.flp = r.m.flp
       /\ k.beyond = r.m.beyond /\ k.flpmax = r.m.flpmax
  BY <1>9, <1>10 DEF Rewritten, Fields
<1>15. Range(k.fl) = IF Sz(n, cur) <= wo + 1 THEN Range(n.fl) \ {cur} ELSE Range(n.fl)
  BY <1>12 DEF Gives
<1>16. Taken(n, C, sc, lv, r, wo, cur, k)
  BY <1>2, <1>13, <1>14, <1>15 DEF Taken
<1>. QED BY <1>8, <1>16

-----------------------------------------------------------------------------
(* A new chunk in the list                                                  *)

\* LastBelow is the free block next below an address.
LEMMA LastBelowFacts ==
  ASSUME NEW n, Rising(n.fl), NEW h \in Nat
  PROVE  NextBelow(Range(n.fl), h, LastBelow(n, h))
<1>. DEFINE S == Range(n.fl)
            T == {Nil} \cup {a \in S : a < h}
<1>1. S \subseteq Nat \ {0}
  BY RisingRange
<1>2. T \in SUBSET (0 .. h) /\ T # {} /\ h \in Nat
  BY <1>1 DEF Nil
<1>3. LastBelow(n, h) = Max(T)
  BY DEF LastBelow
<1>. HIDE DEF T
<1>4. Max(T) \in T /\ \A k \in T : k <= Max(T)
  BY <1>2, MaxOf
<1>. HIDE DEF S
<1>5. \A a \in S : a < h => a <= Max(T)
  BY <1>4 DEF T
<1>6. CASE Max(T) = Nil
  <2>1. \A a \in S : ~(a < h)
    BY <1>1, <1>5, <1>6 DEF Nil
  <2>. QED BY <1>3, <1>6, <2>1 DEF NextBelow, S
<1>7. CASE Max(T) # Nil
  <2>1. Max(T) \in S /\ Max(T) < h
    BY <1>4, <1>7 DEF T
  <2>. QED BY <1>3, <1>5, <2>1 DEF NextBelow, S
<1>. QED BY <1>6, <1>7

\* What lies below an address.
LEMMA BelowFacts ==
  ASSUME NEW S \in SUBSET (Nat \ {0}), NEW y \in Nat, NEW x, NextBelow(S, y, x)
  PROVE  /\ x \in Nat /\ x \in S \cup {Nil}
         /\ \A a \in S : a < y => a <= x
         /\ x # Nil => x \in S /\ x < y
         /\ x = Nil => \A a \in S : ~(a < y)
<1>1. CASE x = Nil /\ \A a \in S : ~(a < y)
  BY <1>1 DEF Nil
<1>2. CASE x \in S /\ x < y /\ \A a \in S : a < y => a <= x
  <2>1. x \in Nat /\ x # 0
    BY <1>2
  <2>. QED BY <1>2, <2>1 DEF Nil
<1>. QED BY <1>1, <1>2 DEF NextBelow

\* There is only one block next below.
LEMMA BelowUnique ==
  ASSUME NEW S \in SUBSET (Nat \ {0}), NEW y \in Nat,
         NEW x, NextBelow(S, y, x), NEW z, NextBelow(S, y, z)
  PROVE  x = z
<1>1. /\ x \in Nat /\ (\A a \in S : a < y => a <= x)
      /\ (x # Nil => x \in S /\ x < y) /\ (x = Nil => \A a \in S : ~(a < y))
  BY BelowFacts
<1>2. /\ z \in Nat /\ (\A a \in S : a < y => a <= z)
      /\ (z # Nil => z \in S /\ z < y) /\ (z = Nil => \A a \in S : ~(a < y))
  BY BelowFacts
<1>3. x = Nil <=> z = Nil
  BY <1>1, <1>2
<1>4. x # Nil => x <= z /\ z <= x
  BY <1>1, <1>2, <1>3
<1>. QED BY <1>1, <1>2, <1>3, <1>4

\* A block of the heap lies before or after a new chunk.
LEMMA AwayFrom ==
  ASSUME NEW n, NEW C, Tiled(n, C), NEW c \in Places \ C, NEW b \in DOMAIN n.blk
  PROVE  b \in Nat /\ (Next_in_mem(n, b) < c.start \/ Limit(c) < b)
<1>1. PICK d \in C : Inside(n, b, d)
  BY DEF Tiled
<1>2. /\ d \in Places /\ d # c /\ b \in Nat /\ Sz(n, b) \in Nat
      /\ d.start <= b /\ b + Sz(n, b) + 1 <= Limit(d)
  BY <1>1 DEF Tiled, Inside, Next_in_mem
<1>. QED BY <1>2, PlaceFacts DEF Next_in_mem

\* nf_add_blocks, whatever else is done to the pointers of the policy.
LEMMA AddKeeps ==
  ASSUME NEW n, NEW C, NEW sc, NEW lv, HeapInv(n, C, sc, lv), NEW c \in Places \ C,
         NEW k, Allocator(k),
         \A f \in HeapFields : k[f] = add_blocks(Filled(n, c), NewBlocks(c))[f]
  PROVE  /\ HeapInv(k, C \cup {c}, sc, lv)
         /\ Range(k.fl) = Range(n.fl) \cup Range(NewBlocks(c))
         /\ \A a \in Range(n.fl) : Sz(k, a) = Sz(n, a)
         /\ \A a \in Range(NewBlocks(c)) : Sz(k, a) = BlockSize(c, a)
<1>. DEFINE f0 == Filled(n, c)
            bs == NewBlocks(c)
            B == BlockStarts(c)
            N == {a \in B : BlockSize(c, a) > 0}
            R == Range(n.fl)
            D == DOMAIN n.blk
            prev == LastBelow(f0, bs[1])
            l == Link(f0, prev, bs)
            q == add_blocks(f0, bs)
<1>1. /\ Allocator(n) /\ Tiled(n, C) /\ sc \in C
      /\ Rising(n.fl) /\ R = BlueOf(n) /\ \A a \in R : Sz(n, a) > 0
      /\ n.wsz = Words(n, R)
      /\ Held(n, lv) /\ Apart(n, C)
      /\ n.phase \in {"idle", "sweep"} /\ n.hp \in Nat /\ n.frag \in Nat /\ n.least = Nil
      /\ n.phase = "sweep" => Swept(n, sc, lv)
  BY DEF HeapInv, Listed
<1>2. /\ Allocator(f0) /\ Tiled(f0, C \cup {c})
      /\ \A f \in Fields \ {"blk"} : f0[f] = n[f]
      /\ DOMAIN f0.blk = D \cup B /\ D \cap B = {}
      /\ \A a \in D : f0.blk[a] = n.blk[a]
      /\ \A a \in B : /\ Sz(f0, a) = BlockSize(c, a)
                      /\ f0.blk[a].col = IF BlockSize(c, a) = 0 THEN "white" ELSE "blue"
  BY <1>1, FilledFacts
<1>3. Rising(bs) /\ Range(bs) = N /\ Len(bs) >= 1 /\ bs[1] = c.start
  BY NewBlocksFacts
<1>4. /\ B \subseteq Nat \ {0} /\ c.start \in N /\ c.start \in Nat \ {0} /\ Limit(c) \in Nat
      /\ \A a \in B : c.start <= a /\ a < Limit(c) /\ BlockSize(c, a) \in Nat
      /\ \A a \in B : a + BlockSize(c, a) + 1 <= Limit(c)
      /\ \A a \in B : a + BlockSize(c, a) + 1 \in B \/ a + BlockSize(c, a) + 1 = Limit(c)
      /\ c.words <= MaxWosize => B = {c.start}
  BY FillFacts, FreeListAssumption, PlaceFacts
<1>5. D \subseteq Nat \ {0} /\ R \subseteq D /\ \A a \in D : Sz(n, a) \in Nat
  BY <1>1 DEF Tiled, BlueOf
<1>6. \A b \in D : Next_in_mem(n, b) < c.start \/ Limit(c) < b
  BY <1>1, AwayFrom
<1>7. q = [l EXCEPT !.wsz = @ + Words(f0, Range(bs)),
                    !.merge = IF @ = prev /\ bs[1] < f0.hp THEN Last(bs) ELSE @]
  BY DEF add_blocks
<1>. HIDE DEF f0, bs, B, N, R, D, prev, l, q
<1>8. f0.fl = n.fl /\ f0.wsz = n.wsz /\ f0.merge = n.merge /\ f0.hp = n.hp
      /\ f0.frag = n.frag /\ f0.phase = n.phase /\ f0.least = n.least
  BY <1>2 DEF Fields
<1>9. NextBelow(R, c.start, prev)
  BY <1>1, <1>3, <1>4, <1>8, LastBelowFacts DEF prev, R
<1>10. /\ prev \in R \cup {Nil} /\ prev \in Nat
       /\ \A a \in R : a < c.start => a <= prev
       /\ prev # Nil => prev \in R /\ prev < c.start
       /\ prev = Nil => \A a \in R : ~(a < c.start)
  <2>1. R \in SUBSET (Nat \ {0}) /\ c.start \in Nat
    BY <1>4, <1>5
  <2>. QED BY <1>9, <2>1, BelowFacts
<1>11. \A a \in N : a \in B /\ a \in Nat /\ c.start <= a
  BY <1>4 DEF N
<1>12. \A a \in N : prev < a /\ \A b \in R : prev < b => a < b
  <2>. SUFFICES ASSUME NEW a \in N PROVE prev < a /\ \A b \in R : prev < b => a < b
    OBVIOUS
  <2>1. prev < a
    <3>1. prev = 0 \/ prev < c.start
      BY <1>10 DEF Nil
    <3>. QED BY <1>4, <1>10, <1>11, <3>1
  <2>2. ASSUME NEW b \in R, prev < b PROVE a < b
    <3>0. b \in Nat
      BY <1>5
    <3>1. b \in Nat /\ ~(b < c.start)
      BY <1>10, <2>2, <3>0
    <3>2. Next_in_mem(n, b) < c.start \/ Limit(c) < b
      BY <1>5, <1>6
    <3>3. b < Next_in_mem(n, b) /\ Next_in_mem(n, b) \in Nat
      BY <1>5, <3>1 DEF Next_in_mem
    <3>. QED BY <1>4, <1>11, <3>1, <3>2, <3>3
  <2>. QED BY <2>1, <2>2
<1>13. /\ Allocator(l) /\ Rising(l.fl) /\ Range(l.fl) = R \cup N
       /\ \A f \in Fields \ {"fl"} : l[f] = f0[f]
  <2>1. Rising(f0.fl) /\ Range(f0.fl) = R
    BY <1>1, <1>8 DEF R
  <2>2. \A a \in Range(bs) : prev < a /\ \A b \in Range(f0.fl) : prev < b => a < b
    BY <1>3, <1>12, <2>1
  <2>3. prev \in Range(f0.fl) \cup {Nil}
    BY <1>10, <2>1
  <2>4. Rising(f0.fl) /\ Allocator(f0) /\ Rising(bs)
    BY <1>2, <1>3, <2>1
  <2>5. /\ Allocator(l) /\ Rising(l.fl) /\ Range(l.fl) = Range(f0.fl) \cup Range(bs)
        /\ \A f \in Fields \ {"fl"} : l[f] = f0[f]
    BY <2>2, <2>3, <2>4, LinkFacts DEF l
  <2>. QED BY <1>3, <2>1, <2>5
<1>14. /\ k.blk = f0.blk /\ k.fl = l.fl /\ k.hp = n.hp /\ k.frag = n.frag /\ k.phase = n.phase
       /\ k.least = n.least /\ k.wsz = n.wsz + Words(f0, N)
       /\ k.merge = IF n.merge = prev /\ c.start < n.hp THEN Last(bs) ELSE n.merge
  <2>1. l = [f \in Fields |-> l[f]]
    BY <1>13 DEF Allocator
  <2>2. /\ q.blk = l.blk /\ q.fl = l.fl /\ q.hp = l.hp /\ q.frag = l.frag /\ q.phase = l.phase
        /\ q.least = l.least /\ q.wsz = l.wsz + Words(f0, Range(bs))
        /\ q.merge = IF l.merge = prev /\ bs[1] < f0.hp THEN Last(bs) ELSE l.merge
    BY <1>7, <2>1 DEF Fields
  <2>3. /\ l.blk = f0.blk /\ l.hp = f0.hp /\ l.frag = f0.frag /\ l.phase = f0.phase
        /\ l.least = f0.least /\ l.wsz = f0.wsz /\ l.merge = f0.merge
    BY <1>13 DEF Fields
  <2>4. /\ k.blk = q.blk /\ k.fl = q.fl /\ k.hp = q.hp /\ k.frag = q.frag /\ k.phase = q.phase
        /\ k.least = q.least /\ k.wsz = q.wsz /\ k.merge = q.merge
    BY DEF HeapFields, Fields, q, f0, bs
  <2>. QED BY <1>3, <1>8, <2>2, <2>3, <2>4
<1>15. /\ \A a \in D : Sz(k, a) = Sz(n, a) /\ Next_in_mem(k, a) = Next_in_mem(n, a)
       /\ \A a \in B : Sz(k, a) = BlockSize(c, a) /\ Next_in_mem(k, a) = a + BlockSize(c, a) + 1
       /\ \A a : Sz(f0, a) = Sz(k, a)
  BY <1>2, <1>14 DEF Sz, Next_in_mem
<1>16. Tiled(k, C \cup {c})
  BY <1>2, <1>14, <1>15, TiledSame
<1>17. Range(k.fl) = R \cup N /\ BlueOf(k) = R \cup N
  <2>1. BlueOf(k) = {a \in D : n.blk[a].col = "blue"} \cup {a \in B : f0.blk[a].col = "blue"}
    BY <1>2, <1>14 DEF BlueOf
  <2>2. {a \in D : n.blk[a].col = "blue"} = R
    BY <1>1 DEF BlueOf, D
  <2>3. {a \in B : f0.blk[a].col = "blue"} = N
    <3>1. \A a \in B : BlockSize(c, a) > 0 <=> BlockSize(c, a) # 0
      BY <1>4
    <3>2. \A a \in B : f0.blk[a].col = "blue" <=> BlockSize(c, a) # 0
      BY <1>2
    <3>. QED BY <3>1, <3>2 DEF N
  <2>. QED BY <1>13, <1>14, <2>1, <2>2, <2>3
<1>18. Listed(k)
  <2>1. \A a \in R \cup N : Sz(k, a) > 0
    BY <1>1, <1>5, <1>15 DEF N
  <2>2. IsFiniteSet(R) /\ IsFiniteSet(N) /\ R \cap N = {}
    BY <1>1, <1>2, <1>3, <1>5, <1>11, RisingRange DEF R
  <2>3. \A a \in R \cup N : Sz(k, a) \in Nat
    BY <1>4, <1>5, <1>11, <1>15
  <2>4. Words(k, R \cup N) = Words(k, R) + Words(k, N)
    BY <2>2, <2>3, WordsUnion
  <2>5. Words(n, R) = Words(k, R)
    <3>1. \A x \in R : Sz(n, x) \in Nat /\ Sz(k, x) = Sz(n, x)
      BY <1>5, <1>15
    <3>. QED BY <2>2, <3>1, WordsSame
  <2>6. Words(f0, N) = Words(k, N)
    <3>1. \A x \in N : Sz(f0, x) \in Nat /\ Sz(k, x) = Sz(f0, x)
      BY <1>15, <2>3
    <3>. QED BY <2>2, <3>1, WordsSame
  <2>. QED BY <1>1, <1>13, <1>14, <1>17, <2>1, <2>4, <2>5, <2>6 DEF Listed
<1>19. Held(k, lv)
  <2>. SUFFICES ASSUME NEW a \in DOMAIN lv
                PROVE  /\ a \in DOMAIN k.blk /\ k.blk[a].col # "blue"
                       /\ Sz(k, a) = lv[a] /\ lv[a] \in Requests
    BY DEF Held
  <2>1. a \in D /\ n.blk[a].col # "blue" /\ Sz(n, a) = lv[a] /\ lv[a] \in Requests
    BY <1>1 DEF Held, D
  <2>. QED BY <1>2, <1>14, <1>15, <2>1
<1>20. Apart(k, C \cup {c})
  <2>. SUFFICES ASSUME NEW d \in C \cup {c}, d.words <= MaxWosize, NEW a \in BlueOf(k),
                       d.start <= a, a <= Limit(d)
                PROVE  Next_in_mem(k, a) \notin BlueOf(k)
    BY DEF Apart
  <2>0. a \in R \cup N /\ BlueOf(k) \subseteq DOMAIN k.blk
    BY <1>17 DEF BlueOf
  <2>1. CASE d = c
    <3>1. a \notin D
      <4>. SUFFICES ASSUME a \in D PROVE FALSE
        OBVIOUS
      <4>1. a \in Nat /\ Next_in_mem(n, a) \in Nat /\ a < Next_in_mem(n, a)
        BY <1>5 DEF Next_in_mem
      <4>. QED BY <1>4, <1>6, <2>1, <4>1
    <3>2. a \in B /\ a = c.start
      BY <1>4, <1>5, <1>11, <2>0, <2>1, <3>1
    <3>3. Next_in_mem(k, a) = Limit(c)
      <4>1. a + BlockSize(c, a) + 1 # c.start
        BY <1>4, <3>2
      <4>. QED BY <1>4, <1>15, <2>1, <3>2, <4>1
    <3>4. Limit(c) \notin DOMAIN k.blk
      BY <1>16, LimitFree
    <3>. QED BY <2>0, <3>3, <3>4
  <2>2. CASE d # c
    <3>1. d \in C /\ d \in Places /\ d.start \in Nat /\ Limit(d) \in Nat
      BY <1>1, <2>2, PlaceFacts DEF Tiled
    <3>2. a \notin B
      <4>. SUFFICES ASSUME a \in B PROVE FALSE
        OBVIOUS
      <4>1. c.start <= a /\ a < Limit(c) /\ a \in Nat
        BY <1>4
      <4>. QED BY <1>4, <2>2, <3>1, <4>1, PlaceFacts
    <3>3. a \in R /\ a \in D
      BY <1>5, <1>11, <2>0, <3>2
    <3>4. Inside(n, a, d)
      BY <1>1, <3>1, <3>3, InChunk DEF D
    <3>. DEFINE z == Next_in_mem(n, a)
    <3>5. z \notin BlueOf(n)
      BY <1>1, <3>1, <3>3 DEF Apart
    <3>6. z \in Nat /\ d.start <= z /\ z <= Limit(d)
      <4>1. a \in Nat /\ Sz(n, a) \in Nat /\ d.start <= a /\ z <= Limit(d)
        BY <1>5, <3>3, <3>4 DEF Inside
      <4>2. z = a + Sz(n, a) + 1
        BY DEF Next_in_mem
      <4>. HIDE DEF z
      <4>. QED BY <3>1, <4>1, <4>2
    <3>7. z \notin N
      <4>. SUFFICES ASSUME z \in N PROVE FALSE
        OBVIOUS
      <4>1. c.start <= z /\ z < Limit(c)
        BY <1>4, <1>11
      <4>. HIDE DEF z
      <4>. QED BY <1>4, <2>2, <3>1, <3>6, <4>1, PlaceFacts
    <3>. QED BY <1>1, <1>15, <1>17, <3>3, <3>5, <3>7
  <2>. QED BY <2>1, <2>2
<1>21. ASSUME k.phase = "sweep" PROVE Swept(k, sc, lv)
  <2>1. Swept(n, sc, lv)
    BY <1>1, <1>14, <1>21
  <2>2. /\ sc.start <= k.hp /\ k.hp <= Limit(sc)
        /\ k.hp \in DOMAIN k.blk \cup {Limit(sc)}
    BY <1>2, <1>14, <2>1 DEF Swept, D
  <2>3. sc \in Places /\ sc # c /\ sc.start \in Nat /\ Limit(sc) \in Nat
    BY <1>1, PlaceFacts DEF Tiled
  <2>4. n.hp < c.start \/ Limit(c) < n.hp
    BY <1>1, <1>4, <2>1, <2>3, PlaceFacts DEF Swept
  <2>5. NextBelow(R, n.hp, n.merge)
    BY <2>1 DEF Swept, R
  <2>51. /\ n.merge \in Nat /\ (\A a \in R : a < n.hp => a <= n.merge)
         /\ (n.merge # Nil => n.merge \in R /\ n.merge < n.hp)
         /\ (n.merge = Nil => \A a \in R : ~(a < n.hp))
    <3>1. R \in SUBSET (Nat \ {0})
      BY <1>5
    <3>. QED BY <1>1, <2>5, <3>1, BelowFacts
  <2>6. NextBelow(R \cup N, n.hp, k.merge)
    <3>1. CASE n.hp < c.start
      <4>1. \A a \in N : ~(a < n.hp)
        BY <1>1, <1>4, <1>11, <3>1
      <4>2. k.merge = n.merge
        BY <1>1, <1>4, <1>14, <3>1
      <4>. QED BY <2>5, <4>1, <4>2 DEF NextBelow
    <3>2. CASE Limit(c) < n.hp /\ n.merge = prev
      <4>1. c.start < n.hp
        BY <1>1, <1>4, <1>11, <3>2
      <4>. DEFINE z == Last(bs)
      <4>2. Len(bs) \in Nat /\ z = bs[Len(bs)] /\ z \in N
        BY <1>3, RisingRange DEF Last
      <4>3. \A a \in N : a <= z
        <5>. SUFFICES ASSUME NEW a \in N PROVE a <= z
          OBVIOUS
        <5>1. PICK i \in 1 .. Len(bs) : bs[i] = a
          BY <1>3, RisingRange
        <5>2. i = Len(bs) \/ bs[i] < bs[Len(bs)]
          BY <1>3, <4>2, <5>1, RisingRange
        <5>3. a \in Nat /\ z \in Nat
          BY <1>11, <4>2
        <5>. QED BY <4>2, <5>1, <5>2, <5>3
      <4>. HIDE DEF z
      <4>4. z \in Nat /\ z < n.hp /\ prev < z
        BY <1>1, <1>4, <1>11, <1>12, <3>2, <4>2
      <4>5. \A a \in R : a < n.hp => a <= z
        <5>. SUFFICES ASSUME NEW a \in R, a < n.hp PROVE a <= z
          OBVIOUS
        <5>1. a \in Nat /\ a <= prev
          BY <1>5, <2>51, <3>2
        <5>. QED BY <1>10, <4>4, <5>1
      <4>6. k.merge = z
        BY <1>14, <3>2, <4>1 DEF z
      <4>. QED BY <4>2, <4>3, <4>4, <4>5, <4>6 DEF NextBelow
    <3>3. CASE Limit(c) < n.hp /\ n.merge # prev
      <4>1. c.start < n.hp /\ k.merge = n.merge
        BY <1>1, <1>4, <1>11, <1>14, <3>3
      <4>2. n.merge \in R /\ n.merge < n.hp /\ \A a \in R : a < n.hp => a <= n.merge
        <5>1. ASSUME n.merge = Nil PROVE FALSE
          <6>1. prev \in R /\ prev < c.start
            BY <1>10, <3>3, <5>1
          <6>2. prev < n.hp
            BY <1>1, <1>4, <1>10, <4>1, <6>1
          <6>. QED BY <2>51, <5>1, <6>1, <6>2
        <5>. QED BY <2>51, <5>1
      <4>3. ~(n.merge < c.start)
        <5>. SUFFICES ASSUME n.merge < c.start PROVE FALSE
          OBVIOUS
        <5>1. n.merge <= prev /\ prev \in R /\ prev < c.start
          BY <1>10, <4>2
        <5>2. prev < n.hp
          BY <1>1, <1>4, <1>10, <4>1, <5>1
        <5>3. prev <= n.merge
          BY <4>2, <5>1, <5>2
        <5>. QED BY <1>10, <2>51, <3>3, <5>1, <5>3
      <4>4. n.merge \in Nat /\ Limit(c) < n.merge
        <5>1. n.merge \in D /\ n.merge \in Nat
          BY <1>5, <4>2
        <5>2. n.merge < Next_in_mem(n, n.merge) /\ Next_in_mem(n, n.merge) \in Nat
          BY <1>5, <5>1 DEF Next_in_mem
        <5>. QED BY <1>4, <1>6, <4>3, <5>1, <5>2
      <4>5. \A a \in N : a <= n.merge
        BY <1>4, <1>11, <4>4
      <4>. QED BY <4>1, <4>2, <4>5 DEF NextBelow
    <3>. QED BY <2>4, <3>1, <3>2, <3>3
  <2>7. \A a \in DOMAIN lv : k.hp <= a => k.blk[a].col = "black"
    BY <1>1, <1>2, <1>14, <2>1 DEF Swept, Held, D
  <2>8. Fragment(k)
    BY <1>2, <1>14, <1>15, <2>1 DEF Swept, Fragment, D
  <2>. QED BY <1>14, <1>17, <2>2, <2>6, <2>7, <2>8 DEF Swept
<1>22. HeapInv(k, C \cup {c}, sc, lv)
  BY <1>1, <1>14, <1>16, <1>18, <1>19, <1>20, <1>21 DEF HeapInv
<1>23. (\A a \in R : Sz(k, a) = Sz(n, a)) /\ \A a \in N : Sz(k, a) = BlockSize(c, a)
  BY <1>5, <1>11, <1>15
<1>. QED BY <1>3, <1>17, <1>22, <1>23 DEF R, bs

-----------------------------------------------------------------------------
(* The sweeper gives a block back                                           *)

\* k is n with the field f set to v.
Changed(n, k, f, v) ==
  Allocator(k) /\ k[f] = v /\ \A g \in Fields \ {f} : k[g] = n[g]

\* An update of one field other than the headers changes that field alone.
LEMMA FieldChanges ==
  \A n, v : \A f \in Fields \ {"blk"} :
    Allocator(n) => Changed(n, [n EXCEPT ![f] = v], f, v)
<1>. SUFFICES ASSUME NEW n, NEW v, NEW f \in Fields \ {"blk"}, Allocator(n)
              PROVE  Changed(n, [n EXCEPT ![f] = v], f, v)
  OBVIOUS
<1>. DEFINE k == [n EXCEPT ![f] = v]
<1>1. n = [g \in Fields |-> n[g]]
  BY DEF Allocator
<1>2. k[f] = v /\ k = [g \in Fields |-> k[g]] /\ \A g \in Fields \ {f} : k[g] = n[g]
  BY <1>1
<1>. HIDE DEF k
<1>3. k.blk = n.blk
  BY <1>2 DEF Fields
<1>4. Changed(n, k, f, v)
  BY <1>2, <1>3 DEF Changed, Allocator
<1>. QED BY <1>4 DEF k

\* k is n without the header at a.
Dropped(n, k, a) ==
  /\ Allocator(k) /\ DOMAIN k.blk = DOMAIN n.blk \ {a}
  /\ \A b \in DOMAIN n.blk : b # a => k.blk[b] = n.blk[b]
  /\ \A f \in Fields \ {"blk"} : k[f] = n[f]

\* Without forgets one header and nothing else.
LEMMA WithoutDrops ==
  \A n, a : Allocator(n) => Dropped(n, [n EXCEPT !.blk = Without(@, a)], a)
<1>. SUFFICES ASSUME NEW n, NEW a, Allocator(n)
              PROVE  Dropped(n, [n EXCEPT !.blk = Without(@, a)], a)
  OBVIOUS
<1>. DEFINE w == [b \in DOMAIN n.blk \ {a} |-> n.blk[b]]
            k == [n EXCEPT !.blk = w]
<1>1. n = [g \in Fields |-> n[g]] /\ "blk" \in Fields
  BY DEF Allocator, Fields
<1>2. k.blk = w /\ k = [g \in Fields |-> k[g]] /\ \A g \in Fields \ {"blk"} : k[g] = n[g]
  BY <1>1
<1>. HIDE DEF k
<1>3. \A b \in DOMAIN n.blk : n.blk[b] \in Header
  BY DEF Allocator
<1>4. Dropped(n, k, a)
  BY <1>2, <1>3 DEF Dropped, Allocator
<1>. QED BY <1>4 DEF k, Without

\* While the white block bp is on its way into the list: it is a block under
\* the sweeper, the other blue blocks are the list, and wsz counts bp too.
Merging(n, C, sc, lv, bp) ==
  /\ Allocator(n) /\ Tiled(n, C) /\ sc \in C
  /\ bp \in DOMAIN n.blk /\ sc.start <= bp /\ bp < Limit(sc)
  /\ Rising(n.fl) /\ Range(n.fl) = BlueOf(n) \ {bp}
  /\ \A a \in Range(n.fl) : Sz(n, a) > 0
  /\ Sz(n, bp) = 0 => n.blk[bp].col # "blue"
  /\ n.wsz = Words(n, Range(n.fl)) + Sz(n, bp) + 1
  /\ NextBelow(Range(n.fl), bp, n.merge)
  /\ Held(n, lv) /\ \A a \in DOMAIN lv : a # bp /\ (bp <= a => n.blk[a].col = "black")
  /\ \A c \in C : c.words <= MaxWosize =>
       \A a \in Range(n.fl) :
         c.start <= a /\ a <= Limit(c) => Next_in_mem(n, a) \notin Range(n.fl)
  /\ n.frag \in Nat /\ n.frag < Next_in_mem(n, bp)
  /\ n.phase \in {"idle", "sweep"} /\ n.least = Nil
  /\ n.prev \in Range(n.fl) \cup {Nil}

\* What merging leaves alone: the list up to merge, and first fit's table.
Before_merge(n, k) ==
  /\ \A a \in Nat : a <= n.merge => (a \in Range(k.fl) <=> a \in Range(n.fl))
  /\ \A a \in Range(n.fl) : a < n.merge => Sz(k, a) = Sz(n, a)
  /\ k.flp = n.flp /\ k.beyond = n.beyond /\ k.flpmax = n.flpmax /\ k.phase = n.phase
  /\ n.prev = Nil => k.prev = Nil

\* What the state in the middle of nf_merge_block says of addresses.
LEMMA MergingFacts ==
  ASSUME NEW n, NEW C, NEW sc, NEW lv, NEW bp, Merging(n, C, sc, lv, bp)
  PROVE  /\ DOMAIN n.blk \subseteq Nat \ {0} /\ Range(n.fl) \subseteq DOMAIN n.blk
         /\ Range(n.fl) \in SUBSET (Nat \ {0}) /\ IsFiniteSet(Range(n.fl))
         /\ bp \in Nat \ {0} /\ Sz(n, bp) \in Nat /\ Sz(n, bp) <= MaxWosize /\ MaxWosize \in Nat
         /\ \A a \in DOMAIN n.blk : Sz(n, a) \in Nat /\ Next_in_mem(n, a) = a + Sz(n, a) + 1
         /\ bp \notin Range(n.fl)
         /\ n.merge \in Nat /\ n.merge < bp
         /\ \A a \in Range(n.fl) : a < bp => a <= n.merge
         /\ n.merge # Nil => n.merge \in Range(n.fl)
         /\ n.merge = Nil => \A a \in Range(n.fl) : ~(a < bp)
         /\ sc.start \in Nat /\ Limit(sc) \in Nat
<1>1. /\ Allocator(n) /\ Tiled(n, C) /\ sc \in C /\ bp \in DOMAIN n.blk
      /\ Rising(n.fl) /\ Range(n.fl) = BlueOf(n) \ {bp}
      /\ NextBelow(Range(n.fl), bp, n.merge)
  BY DEF Merging
<1>2. /\ DOMAIN n.blk \subseteq Nat \ {0} /\ Range(n.fl) \subseteq DOMAIN n.blk
      /\ bp \notin Range(n.fl) /\ bp \in Nat \ {0}
  BY <1>1 DEF BlueOf, Tiled
<1>3. Sz(n, bp) \in Nat /\ Sz(n, bp) <= MaxWosize /\ MaxWosize \in Nat
  BY <1>1, SizeFacts, FreeListAssumption
<1>4. Range(n.fl) \in SUBSET (Nat \ {0}) /\ IsFiniteSet(Range(n.fl))
  BY <1>1, <1>2, RisingRange
<1>5. /\ n.merge \in Nat /\ (\A a \in Range(n.fl) : a < bp => a <= n.merge)
      /\ (n.merge # Nil => n.merge \in Range(n.fl) /\ n.merge < bp)
      /\ (n.merge = Nil => \A a \in Range(n.fl) : ~(a < bp))
  <2>. DEFINE R == Range(n.fl)
              y == n.merge
  <2>1. R \in SUBSET (Nat \ {0}) /\ bp \in Nat /\ NextBelow(R, bp, y)
    BY <1>1, <1>2, <1>4
  <2>. HIDE DEF R, y
  <2>2. /\ y \in Nat /\ (\A a \in R : a < bp => a <= y)
        /\ (y # Nil => y \in R /\ y < bp)
        /\ (y = Nil => \A a \in R : ~(a < bp))
    BY <2>1, BelowFacts
  <2>. QED BY <2>2 DEF R, y
<1>6. n.merge < bp
  BY <1>2, <1>5 DEF Nil
<1>7. \A a \in DOMAIN n.blk : Sz(n, a) \in Nat /\ Next_in_mem(n, a) = a + Sz(n, a) + 1
  BY <1>1 DEF Tiled, Next_in_mem
<1>8. sc.start \in Nat /\ Limit(sc) \in Nat
  BY <1>1, PlaceFacts DEF Tiled
<1>. QED BY <1>2, <1>3, <1>4, <1>5, <1>6, <1>7, <1>8

\* The fragment before bp joins it.
LEMMA FragmentKeeps ==
  ASSUME NEW n, NEW C, NEW sc, NEW lv, NEW bp, Merging(n, C, sc, lv, bp),
         n.frag = bp => bp - 1 \in DOMAIN n.blk /\ Sz(n, bp - 1) = 0
  PROVE  LET f == WithFragment(n, bp)
         IN  Merging(f.m, C, sc, lv, f.bp) /\ Before_merge(n, f.m) /\ f.m.merge = n.merge
<1>. DEFINE f0 == WithFragment(n, bp)
            joins == n.frag = bp /\ Sz(n, bp) + 1 <= MaxWosize
            d == [n EXCEPT !.blk = Without(@, bp)]
            h == Hd(d, bp - 1, Sz(n, bp) + 1, "white")
            k == [h EXCEPT !.wsz = @ + 1]
            R == Range(n.fl)
            b == bp - 1
<1>1. CASE ~joins
  <2>1. f0.m = n /\ f0.bp = bp
    BY <1>1 DEF WithFragment
  <2>2. Before_merge(n, n)
    BY DEF Before_merge
  <2>. QED BY <2>1, <2>2
<1>2. CASE joins
  <2>1. f0.m = k /\ f0.bp = b
    BY <1>2 DEF WithFragment
  <2>2. /\ Allocator(n) /\ Tiled(n, C) /\ sc \in C
        /\ bp \in DOMAIN n.blk /\ sc.start <= bp /\ bp < Limit(sc)
        /\ Rising(n.fl) /\ R = BlueOf(n) \ {bp}
        /\ \A a \in R : Sz(n, a) > 0
        /\ n.wsz = Words(n, R) + Sz(n, bp) + 1
        /\ Held(n, lv) /\ \A a \in DOMAIN lv : a # bp /\ (bp <= a => n.blk[a].col = "black")
        /\ \A c \in C : c.words <= MaxWosize =>
             \A a \in R : c.start <= a /\ a <= Limit(c) => Next_in_mem(n, a) \notin R
        /\ n.frag \in Nat /\ n.phase \in {"idle", "sweep"} /\ n.least = Nil
        /\ n.prev \in R \cup {Nil}
    BY DEF Merging
  <2>3. /\ DOMAIN n.blk \subseteq Nat \ {0} /\ R \subseteq DOMAIN n.blk
        /\ R \in SUBSET (Nat \ {0}) /\ IsFiniteSet(R)
        /\ bp \in Nat \ {0} /\ Sz(n, bp) \in Nat /\ Sz(n, bp) <= MaxWosize /\ MaxWosize \in Nat
        /\ \A a \in DOMAIN n.blk : Sz(n, a) \in Nat /\ Next_in_mem(n, a) = a + Sz(n, a) + 1
        /\ bp \notin R
        /\ n.merge \in Nat /\ n.merge < bp /\ \A a \in R : a < bp => a <= n.merge
        /\ (n.merge # Nil => n.merge \in R) /\ (n.merge = Nil => \A a \in R : ~(a < bp))
        /\ sc.start \in Nat /\ Limit(sc) \in Nat
    BY MergingFacts
  <2>4. b \in DOMAIN n.blk /\ Sz(n, b) = 0 /\ b \in Nat \ {0} /\ b < bp /\ b + 1 = bp
    BY <1>2, <2>3
  <2>. HIDE DEF k, h, d, R, f0, b
  <2>5. b \notin R /\ n.blk[b].col # "blue"
    BY <2>2, <2>3, <2>4 DEF BlueOf
  <2>6. Dropped(n, d, bp)
    BY <2>2, WithoutDrops DEF d
  <2>7. Rewritten(d, h, b, Sz(n, bp) + 1, "white")
    <3>1. Sz(n, bp) + 1 \in 0 .. MaxWosize /\ "white" \in Colours /\ Allocator(d)
      BY <1>2, <2>3, <2>6 DEF Colours, Dropped
    <3>. QED BY <3>1, HdRewrites DEF h, b
  <2>8. Changed(h, k, "wsz", h.wsz + 1)
    <3>1. Allocator(h) /\ "wsz" \in Fields \ {"blk"}
      BY <2>7 DEF Rewritten, Fields
    <3>. QED BY <3>1, FieldChanges DEF k
  <2>9. /\ Allocator(k) /\ k.blk = h.blk /\ k.fl = n.fl /\ k.wsz = n.wsz + 1 /\ k.merge = n.merge
        /\ k.frag = n.frag /\ k.phase = n.phase /\ k.least = n.least /\ k.prev = n.prev
        /\ k.flp = n.flp /\ k.beyond = n.beyond /\ k.flpmax = n.flpmax
    <3>1. /\ Allocator(k) /\ k.blk = h.blk /\ k.fl = h.fl /\ k.wsz = h.wsz + 1
          /\ k.merge = h.merge /\ k.frag = h.frag /\ k.phase = h.phase /\ k.least = h.least
          /\ k.prev = h.prev /\ k.flp = h.flp /\ k.beyond = h.beyond /\ k.flpmax = h.flpmax
      BY <2>8 DEF Changed, Fields
    <3>2. /\ h.fl = d.fl /\ h.wsz = d.wsz /\ h.merge = d.merge /\ h.frag = d.frag
          /\ h.phase = d.phase /\ h.least = d.least /\ h.prev = d.prev /\ h.flp = d.flp
          /\ h.beyond = d.beyond /\ h.flpmax = d.flpmax
      BY <2>7 DEF Rewritten, Fields
    <3>3. /\ d.fl = n.fl /\ d.wsz = n.wsz /\ d.merge = n.merge /\ d.frag = n.frag
          /\ d.phase = n.phase /\ d.least = n.least /\ d.prev = n.prev /\ d.flp = n.flp
          /\ d.beyond = n.beyond /\ d.flpmax = n.flpmax
      BY <2>6 DEF Dropped, Fields
    <3>. QED BY <3>1, <3>2, <3>3
  <2>10. /\ DOMAIN k.blk = DOMAIN n.blk \ {bp}
         /\ Sz(k, b) = Sz(n, bp) + 1 /\ k.blk[b].col = "white"
         /\ \A a \in DOMAIN n.blk \ {b, bp} : k.blk[a] = n.blk[a]
    <3>1. DOMAIN h.blk = (DOMAIN n.blk \ {bp}) \cup {b}
      BY <2>6, <2>7 DEF Dropped, Rewritten
    <3>2. (DOMAIN n.blk \ {bp}) \cup {b} = DOMAIN n.blk \ {bp}
      BY <2>3, <2>4
    <3>3. Sz(h, b) = Sz(n, bp) + 1 /\ h.blk[b].col = "white"
      BY <2>7 DEF Rewritten
    <3>4. \A a \in DOMAIN n.blk \ {b, bp} : h.blk[a] = n.blk[a]
      BY <2>6, <2>7 DEF Dropped, Rewritten
    <3>. QED BY <2>9, <3>1, <3>2, <3>3, <3>4 DEF Sz
  <2>11. \A a \in DOMAIN n.blk \ {b, bp} : Sz(k, a) = Sz(n, a) /\ Next_in_mem(k, a) = Next_in_mem(n, a)
    BY <2>10 DEF Sz, Next_in_mem
  <2>12. Joins(n, k, b, bp)
    <3>1. Sz(n, b) + Sz(n, bp) + 1 = Sz(n, bp) + 1 /\ b + Sz(n, b) + 1 = bp
      BY <2>3, <2>4
    <3>. QED BY <2>2, <2>4, <2>10, <2>11, <3>1 DEF Joins, Next_in_mem
  <2>13. Tiled(k, C) /\ Next_in_mem(k, b) = Next_in_mem(n, bp)
    BY <2>2, <2>12, TiledJoin
  <2>14. sc.start <= b /\ b < Limit(sc)
    <3>1. PICK e \in C : Inside(n, b, e)
      BY <2>2, <2>4 DEF Tiled
    <3>2. e \in Places /\ sc \in Places /\ e.start \in Nat /\ Limit(e) \in Nat
      BY <2>2, PlaceFacts DEF Tiled
    <3>3. e.start <= b /\ bp <= Limit(e)
      BY <2>3, <2>4, <3>1 DEF Inside
    <3>4. e = sc
      BY <2>2, <2>3, <2>4, <3>2, <3>3, PlaceFacts
    <3>. QED BY <2>2, <2>3, <2>4, <3>3, <3>4
  <2>15. R = BlueOf(k) \ {b}
    <3>1. BlueOf(k) = {a \in DOMAIN n.blk \ {b, bp} : n.blk[a].col = "blue"}
      BY <2>10, <2>4 DEF BlueOf
    <3>2. R = {a \in DOMAIN n.blk \ {bp} : n.blk[a].col = "blue"}
      BY <2>2 DEF BlueOf
    <3>. QED BY <2>5, <3>1, <3>2
  <2>16. \A a \in R : a \in DOMAIN n.blk \ {b, bp}
    BY <2>3, <2>5
  <2>17. Words(n, R) = Words(k, R)
    <3>1. \A x \in R : Sz(n, x) \in Nat /\ Sz(k, x) = Sz(n, x)
      BY <2>3, <2>11, <2>16
    <3>. QED BY <2>3, <3>1, WordsSame
  <2>171. Words(n, R) \in Nat
    <3>1. \A x \in R : Sz(n, x) \in Nat
      BY <2>3
    <3>. QED BY <2>3, <3>1, WordsType
  <2>18. k.wsz = Words(k, R) + Sz(k, b) + 1
    BY <2>2, <2>3, <2>9, <2>10, <2>17, <2>171
  <2>19. NextBelow(R, b, k.merge)
    <3>1. \A a \in R : a < b => a <= n.merge
      BY <2>3, <2>4
    <3>2. CASE n.merge = Nil
      <4>1. \A a \in R : ~(a < b)
        BY <2>3, <2>4, <3>2
      <4>. QED BY <2>9, <3>2, <4>1 DEF NextBelow
    <3>3. CASE n.merge # Nil
      <4>1. n.merge \in R /\ n.merge # b /\ n.merge < b
        BY <2>3, <2>4, <2>5, <3>3
      <4>. QED BY <2>9, <3>1, <4>1 DEF NextBelow
    <3>. QED BY <3>2, <3>3
  <2>20. Held(k, lv) /\ \A a \in DOMAIN lv : a # b /\ (b <= a => k.blk[a].col = "black")
    <3>1. ASSUME NEW a \in DOMAIN lv
          PROVE  /\ a \in DOMAIN k.blk /\ k.blk[a].col # "blue"
                 /\ Sz(k, a) = lv[a] /\ lv[a] \in Requests
                 /\ a # b /\ (b <= a => k.blk[a].col = "black")
      <4>1. /\ a \in DOMAIN n.blk /\ n.blk[a].col # "blue" /\ Sz(n, a) = lv[a] /\ lv[a] \in Requests
            /\ a # bp /\ (bp <= a => n.blk[a].col = "black")
        BY <2>2 DEF Held
      <4>2. lv[a] # 0
        BY <4>1, FreeListAssumption
      <4>3. a # b /\ a \in Nat
        BY <2>3, <2>4, <4>1, <4>2
      <4>4. b <= a => bp <= a
        BY <2>3, <2>4, <4>3
      <4>. QED BY <2>10, <2>11, <4>1, <4>3, <4>4
    <3>. QED BY <3>1 DEF Held
  <2>21. \A c \in C : c.words <= MaxWosize =>
           \A a \in R : c.start <= a /\ a <= Limit(c) => Next_in_mem(k, a) \notin R
    BY <2>2, <2>11, <2>16
  <2>22. k.frag \in Nat /\ k.frag < Next_in_mem(k, b)
    <3>1. Next_in_mem(n, bp) = bp + Sz(n, bp) + 1
      BY <2>2, <2>3
    <3>. QED BY <1>2, <2>2, <2>3, <2>9, <2>13, <3>1
  <2>23. Merging(k, C, sc, lv, b)
    <3>1. Range(k.fl) = R /\ b \in DOMAIN k.blk /\ Rising(k.fl)
      BY <2>2, <2>4, <2>9, <2>10 DEF R
    <3>2. \A a \in R : Sz(k, a) > 0
      BY <2>2, <2>11, <2>16
    <3>3. k.phase \in {"idle", "sweep"} /\ k.least = Nil /\ k.prev \in R \cup {Nil} /\ sc \in C
      BY <2>2, <2>9
    <3>4. k.blk[b].col # "blue"
      BY <2>10
    <3>. QED BY <2>9, <2>13, <2>14, <2>15, <2>18, <2>19, <2>20, <2>21, <2>22, <3>1, <3>2, <3>3, <3>4
             DEF Merging
  <2>24. Before_merge(n, k)
    BY <2>9, <2>11, <2>16 DEF Before_merge, R
  <2>. QED BY <2>1, <2>9, <2>23, <2>24 DEF f0
<1>. QED BY <1>1, <1>2

\* What follows bp is not free, in a chunk that one block could fill.
NextApart(n, C, bp) ==
  \A c \in C : c.words <= MaxWosize /\ c.start <= bp /\ bp <= Limit(c) =>
    Next_in_mem(n, bp) \notin Range(n.fl)

\* The free block after bp joins it.
LEMMA NextKeeps ==
  ASSUME NEW n, NEW C, NEW sc, NEW lv, NEW bp, Merging(n, C, sc, lv, bp)
  PROVE  LET k == WithNext(n, bp)
         IN  /\ Merging(k, C, sc, lv, bp) /\ NextApart(k, C, bp)
             /\ Before_merge(n, k) /\ k.merge = n.merge
<1>. DEFINE w == WithNext(n, bp)
            cur == Next_small(n, n.merge)
            sz == Sz(n, bp) + Sz(n, cur) + 1
            apart == cur = Nil \/ Next_in_mem(n, bp) # cur \/ sz > MaxWosize
            u == Unlink(n, cur)
            d == [u EXCEPT !.blk = Without(@, cur)]
            h == Hd(d, bp, sz, "blue")
            v == IF h.prev = cur THEN n.merge ELSE h.prev
            k == [h EXCEPT !.prev = v]
            R == Range(n.fl)
            T == R \ {cur}
<1>1. w = IF apart THEN n ELSE k
  <2>1. w = IF apart THEN n
            ELSE [Hd([Unlink(n, cur) EXCEPT !.blk = Without(@, cur)], bp, sz, "blue")
                    EXCEPT !.prev = IF @ = cur THEN n.merge ELSE @]
    BY DEF WithNext
  <2>. QED BY <2>1
<1>2. /\ Allocator(n) /\ Tiled(n, C) /\ sc \in C
      /\ bp \in DOMAIN n.blk /\ sc.start <= bp /\ bp < Limit(sc)
      /\ Rising(n.fl) /\ R = BlueOf(n) \ {bp}
      /\ \A a \in R : Sz(n, a) > 0
      /\ n.wsz = Words(n, R) + Sz(n, bp) + 1
      /\ NextBelow(R, bp, n.merge)
      /\ Held(n, lv) /\ \A a \in DOMAIN lv : a # bp /\ (bp <= a => n.blk[a].col = "black")
      /\ \A c \in C : c.words <= MaxWosize =>
           \A a \in R : c.start <= a /\ a <= Limit(c) => Next_in_mem(n, a) \notin R
      /\ n.frag \in Nat /\ n.frag < Next_in_mem(n, bp)
      /\ n.phase \in {"idle", "sweep"} /\ n.least = Nil
      /\ n.prev \in R \cup {Nil}
  BY DEF Merging
<1>3. /\ DOMAIN n.blk \subseteq Nat \ {0} /\ R \subseteq DOMAIN n.blk
      /\ R \in SUBSET (Nat \ {0}) /\ IsFiniteSet(R)
      /\ bp \in Nat \ {0} /\ Sz(n, bp) \in Nat /\ Sz(n, bp) <= MaxWosize /\ MaxWosize \in Nat
      /\ \A a \in DOMAIN n.blk : Sz(n, a) \in Nat /\ Next_in_mem(n, a) = a + Sz(n, a) + 1
      /\ bp \notin R
      /\ n.merge \in Nat /\ n.merge < bp /\ \A a \in R : a < bp => a <= n.merge
      /\ (n.merge # Nil => n.merge \in R) /\ (n.merge = Nil => \A a \in R : ~(a < bp))
  BY MergingFacts
<1>4. NextAbove(R, n.merge, cur) /\ (cur # Nil => cur \in R)
  <2>1. n.merge \in R \cup {Nil}
    BY <1>3
  <2>. QED BY <1>2, <2>1, NextSmallFacts
<1>. HIDE DEF w, cur, sz, u, d, h, v, k, R, T
<1>5. cur # Nil => cur \in Nat \ {0} /\ bp < cur /\ \A a \in R : n.merge < a => cur <= a
  <2>. SUFFICES ASSUME cur # Nil PROVE cur \in Nat \ {0} /\ bp < cur /\ \A a \in R : n.merge < a => cur <= a
    OBVIOUS
  <2>1. cur \in R /\ n.merge < cur /\ \A a \in R : n.merge < a => cur <= a
    BY <1>4 DEF NextAbove
  <2>2. cur \in Nat \ {0} /\ cur # bp
    BY <1>3, <2>1
  <2>3. ~(cur < bp)
    BY <1>3, <2>1, <2>2
  <2>. QED BY <1>3, <2>1, <2>2, <2>3
<1>6. CASE apart
  <2>1. NextApart(n, C, bp)
    <3>. SUFFICES ASSUME NEW c \in C, c.words <= MaxWosize, c.start <= bp, bp <= Limit(c),
                         Next_in_mem(n, bp) \in R
                  PROVE  FALSE
      BY DEF NextApart, R
    <3>. DEFINE z == Next_in_mem(n, bp)
    <3>1. z \in R /\ z = bp + Sz(n, bp) + 1 /\ z \in Nat /\ bp < z /\ n.merge < z
      BY <1>2, <1>3
    <3>. HIDE DEF z
    <3>2. cur # Nil
      <4>1. cur \in R => cur # Nil
        BY <1>3 DEF Nil
      <4>. QED BY <1>4, <3>1, <4>1 DEF NextAbove
    <3>3. cur \in R /\ cur \in Nat /\ bp < cur /\ cur <= z /\ cur \in DOMAIN n.blk
      BY <1>3, <1>4, <1>5, <3>1, <3>2
    <3>4. z <= cur
      BY <1>2, <3>3 DEF Tiled, z
    <3>5. cur = z
      BY <3>1, <3>3, <3>4
    <3>6. Inside(n, bp, c)
      BY <1>2, InChunk
    <3>7. c \in Places /\ c.start \in Nat /\ c.words \in Nat /\ Limit(c) = c.start + c.words
      BY <1>2, PlaceFacts DEF Tiled
    <3>8. z <= Limit(c) /\ c.start <= z
      BY <1>3, <3>1, <3>6, <3>7 DEF Inside, z
    <3>9. Inside(n, cur, c)
      BY <1>2, <3>3, <3>5, <3>8, InChunk
    <3>10. cur + Sz(n, cur) + 1 <= Limit(c) /\ Sz(n, cur) \in Nat
      BY <1>3, <3>3, <3>9 DEF Inside
    <3>11. ~(sz > MaxWosize)
      BY <1>3, <3>1, <3>5, <3>7, <3>10 DEF sz
    <3>. QED BY <1>6, <3>2, <3>5, <3>11 DEF z
  <2>2. Before_merge(n, n)
    BY DEF Before_merge
  <2>. QED BY <1>1, <1>6, <2>1, <2>2 DEF w
<1>7. CASE ~apart
  <2>0. /\ cur # Nil /\ cur \in R /\ cur \in DOMAIN n.blk /\ Next_in_mem(n, bp) = cur
        /\ Sz(n, cur) \in Nat /\ sz \in 0 .. MaxWosize /\ sz > 0 /\ cur # bp /\ cur # n.merge
        /\ bp < cur /\ cur \in Nat
    <3>1. cur # Nil /\ cur \in R /\ cur \in DOMAIN n.blk /\ Next_in_mem(n, bp) = cur
      BY <1>3, <1>4, <1>7
    <3>2. Sz(n, cur) \in Nat /\ ~(sz > MaxWosize)
      BY <1>3, <1>7, <3>1
    <3>3. sz \in 0 .. MaxWosize /\ sz > 0
      BY <1>3, <3>2 DEF sz
    <3>4. cur \in Nat /\ bp < cur /\ cur # n.merge /\ cur # bp
      BY <1>3, <1>5, <3>1
    <3>. QED BY <3>1, <3>2, <3>3, <3>4
  <2>1. /\ Allocator(u) /\ Rising(u.fl) /\ Range(u.fl) = T
        /\ \A f \in Fields \ {"fl"} : u[f] = n[f]
    BY <1>2, <2>0, UnlinkFacts DEF u, R, T
  <2>2. Dropped(u, d, cur)
    BY <2>1, WithoutDrops DEF d
  <2>3. Rewritten(d, h, bp, sz, "blue")
    <3>1. Allocator(d) /\ "blue" \in Colours
      BY <2>2 DEF Dropped, Colours
    <3>. QED BY <2>0, <3>1, HdRewrites DEF h
  <2>4. Changed(h, k, "prev", v)
    <3>1. Allocator(h) /\ "prev" \in Fields \ {"blk"}
      BY <2>3 DEF Rewritten, Fields
    <3>. QED BY <3>1, FieldChanges DEF k
  <2>5. /\ Allocator(k) /\ k.blk = h.blk /\ k.fl = u.fl /\ k.wsz = n.wsz /\ k.merge = n.merge
        /\ k.frag = n.frag /\ k.phase = n.phase /\ k.least = n.least
        /\ k.flp = n.flp /\ k.beyond = n.beyond /\ k.flpmax = n.flpmax
        /\ k.prev = (IF n.prev = cur THEN n.merge ELSE n.prev)
    <3>1. /\ Allocator(k) /\ k.blk = h.blk /\ k.fl = h.fl /\ k.wsz = h.wsz
          /\ k.merge = h.merge /\ k.frag = h.frag /\ k.phase = h.phase /\ k.least = h.least
          /\ k.prev = v /\ k.flp = h.flp /\ k.beyond = h.beyond /\ k.flpmax = h.flpmax
      BY <2>4 DEF Changed, Fields
    <3>2. /\ h.fl = d.fl /\ h.wsz = d.wsz /\ h.merge = d.merge /\ h.frag = d.frag
          /\ h.phase = d.phase /\ h.least = d.least /\ h.prev = d.prev /\ h.flp = d.flp
          /\ h.beyond = d.beyond /\ h.flpmax = d.flpmax
      BY <2>3 DEF Rewritten, Fields
    <3>3. /\ d.fl = u.fl /\ d.wsz = u.wsz /\ d.merge = u.merge /\ d.frag = u.frag
          /\ d.phase = u.phase /\ d.least = u.least /\ d.prev = u.prev /\ d.flp = u.flp
          /\ d.beyond = u.beyond /\ d.flpmax = u.flpmax
      BY <2>2 DEF Dropped, Fields
    <3>4. /\ u.wsz = n.wsz /\ u.merge = n.merge /\ u.frag = n.frag
          /\ u.phase = n.phase /\ u.least = n.least /\ u.prev = n.prev /\ u.flp = n.flp
          /\ u.beyond = n.beyond /\ u.flpmax = n.flpmax
      BY <2>1 DEF Fields
    <3>. QED BY <3>1, <3>2, <3>3, <3>4 DEF v
  <2>6. u.blk = n.blk
    BY <2>1 DEF Fields
  <2>7. /\ DOMAIN k.blk = DOMAIN n.blk \ {cur}
        /\ Sz(k, bp) = sz /\ k.blk[bp].col = "blue"
        /\ \A a \in DOMAIN n.blk \ {bp, cur} : k.blk[a] = n.blk[a]
    <3>1. DOMAIN h.blk = (DOMAIN n.blk \ {cur}) \cup {bp}
      BY <2>2, <2>3, <2>6 DEF Dropped, Rewritten
    <3>2. (DOMAIN n.blk \ {cur}) \cup {bp} = DOMAIN n.blk \ {cur}
      BY <1>2, <2>0
    <3>3. Sz(h, bp) = sz /\ h.blk[bp].col = "blue"
      BY <2>3 DEF Rewritten
    <3>4. \A a \in DOMAIN n.blk \ {bp, cur} : h.blk[a] = n.blk[a]
      BY <2>2, <2>3, <2>6 DEF Dropped, Rewritten
    <3>. QED BY <2>5, <3>1, <3>2, <3>3, <3>4 DEF Sz
  <2>8. \A a \in DOMAIN n.blk \ {bp, cur} : Sz(k, a) = Sz(n, a) /\ Next_in_mem(k, a) = Next_in_mem(n, a)
    BY <2>7 DEF Sz, Next_in_mem
  <2>9. Joins(n, k, bp, cur)
    BY <1>2, <2>0, <2>7, <2>8 DEF Joins, sz
  <2>10. Tiled(k, C) /\ Next_in_mem(k, bp) = Next_in_mem(n, cur)
    BY <1>2, <2>9, TiledJoin
  <2>11. Range(k.fl) = T /\ T = BlueOf(k) \ {bp}
    <3>1. BlueOf(k) \ {bp} = {a \in DOMAIN n.blk \ {bp, cur} : n.blk[a].col = "blue"}
      BY <2>7 DEF BlueOf
    <3>2. R = {a \in DOMAIN n.blk \ {bp} : n.blk[a].col = "blue"}
      BY <1>2 DEF BlueOf
    <3>. QED BY <2>1, <2>5, <3>1, <3>2 DEF T
  <2>12. \A a \in T : a \in R /\ a \in DOMAIN n.blk \ {bp, cur}
    BY <1>3 DEF T
  <2>13. IsFiniteSet(T) /\ T \subseteq Nat \ {0}
    BY <1>3, <2>0, FS_RemoveElement DEF T
  <2>14. k.wsz = Words(k, T) + Sz(k, bp) + 1
    <3>1. \A x \in R : Sz(n, x) \in Nat
      BY <1>3
    <3>2. Words(n, T) \in Nat /\ Words(n, R) = Words(n, T) + Sz(n, cur) + 1
      BY <1>3, <2>0, <3>1, WordsRemove DEF T
    <3>3. Words(n, T) = Words(k, T)
      <4>1. \A x \in T : Sz(n, x) \in Nat /\ Sz(k, x) = Sz(n, x)
        BY <2>8, <2>12, <3>1
      <4>. QED BY <2>13, <4>1, WordsSame
    <3>. QED BY <1>2, <1>3, <2>0, <2>5, <2>7, <3>2, <3>3 DEF sz
  <2>15. NextBelow(T, bp, k.merge)
    <3>1. CASE n.merge = Nil
      <4>1. \A a \in T : ~(a < bp)
        BY <1>3, <2>12, <3>1
      <4>. QED BY <2>5, <3>1, <4>1 DEF NextBelow
    <3>2. CASE n.merge # Nil
      <4>1. n.merge \in T /\ n.merge < bp /\ \A a \in T : a < bp => a <= n.merge
        BY <1>3, <2>0, <2>12, <3>2 DEF T
      <4>. QED BY <2>5, <4>1 DEF NextBelow
    <3>. QED BY <3>1, <3>2
  <2>16. Held(k, lv) /\ \A a \in DOMAIN lv : a # bp /\ (bp <= a => k.blk[a].col = "black")
    <3>1. \A a \in DOMAIN lv : a \in DOMAIN n.blk \ {bp, cur}
      BY <1>2, <2>0 DEF Held, BlueOf
    <3>. QED BY <1>2, <2>7, <2>8, <3>1 DEF Held
  <2>17. \A c \in C : c.words <= MaxWosize =>
           \A a \in T : c.start <= a /\ a <= Limit(c) => Next_in_mem(k, a) \notin T
    BY <1>2, <2>8, <2>12
  <2>18. k.frag \in Nat /\ k.frag < Next_in_mem(k, bp)
    <3>1. Next_in_mem(n, cur) = cur + Sz(n, cur) + 1
      BY <1>3, <2>0
    <3>. QED BY <1>2, <2>0, <2>5, <2>10, <3>1
  <2>19. k.prev \in T \cup {Nil}
    BY <1>2, <1>3, <2>0, <2>5 DEF T
  <2>20. Merging(k, C, sc, lv, bp)
    <3>1. bp \in DOMAIN k.blk /\ Rising(k.fl)
      BY <1>2, <2>0, <2>1, <2>5, <2>7
    <3>2. \A a \in T : Sz(k, a) > 0
      BY <1>2, <2>8, <2>12
    <3>3. /\ k.phase \in {"idle", "sweep"} /\ k.least = Nil /\ sc \in C
          /\ sc.start <= bp /\ bp < Limit(sc) /\ Sz(k, bp) # 0
      BY <1>2, <2>0, <2>5, <2>7
    <3>. QED BY <2>5, <2>10, <2>11, <2>14, <2>15, <2>16, <2>17, <2>18, <2>19, <3>1, <3>2, <3>3
             DEF Merging
  <2>21. NextApart(k, C, bp)
    <3>. SUFFICES ASSUME NEW c \in C, c.words <= MaxWosize, c.start <= bp, bp <= Limit(c)
                  PROVE  Next_in_mem(k, bp) \notin T
      BY <2>11 DEF NextApart
    <3>1. Inside(n, bp, c)
      BY <1>2, InChunk
    <3>2. c.start \in Nat /\ Limit(c) \in Nat
      BY <1>2, PlaceFacts DEF Tiled
    <3>3. c.start <= cur /\ cur <= Limit(c)
      BY <1>3, <2>0, <3>1, <3>2 DEF Inside
    <3>4. Next_in_mem(n, cur) \notin R
      BY <1>2, <2>0, <3>3
    <3>. QED BY <2>10, <3>4 DEF T
  <2>22. Before_merge(n, k)
    <3>1. \A a \in Nat : a <= n.merge => (a \in T <=> a \in R)
      BY <1>3, <2>0 DEF T
    <3>2. \A a \in R : a < n.merge => Sz(k, a) = Sz(n, a)
      <4>. SUFFICES ASSUME NEW a \in R, a < n.merge PROVE Sz(k, a) = Sz(n, a)
        OBVIOUS
      <4>1. a \in DOMAIN n.blk /\ a # bp /\ a # cur
        BY <1>3, <2>0
      <4>. QED BY <2>8, <4>1
    <3>3. n.prev = Nil => k.prev = Nil
      BY <2>0, <2>5
    <3>. QED BY <2>5, <2>11, <3>1, <3>2, <3>3 DEF Before_merge, R
  <2>. QED BY <1>1, <1>7, <2>5, <2>20, <2>21, <2>22 DEF w
<1>. QED BY <1>6, <1>7

\* k is n with the blocks of the rising list s linked in its free list.
Linked(n, k, s) ==
  /\ Allocator(k) /\ Rising(k.fl) /\ Range(k.fl) = Range(n.fl) \cup Range(s)
  /\ \A f \in Fields \ {"fl"} : k[f] = n[f]

\* Link after a block p of the list, or the sentinel, of blocks that lie between
\* p and its successor.
LEMMA LinkLinks ==
  ASSUME NEW n, Allocator(n), Rising(n.fl), NEW p, p \in Range(n.fl) \cup {Nil},
         NEW s, Rising(s),
         \A a \in Range(s) : p < a /\ \A b \in Range(n.fl) : p < b => a < b
  PROVE  Linked(n, Link(n, p, s), s)
BY LinkFacts DEF Linked

\* Once bp has its place the invariant holds, with the sweeper behind bp.
LEMMA ListKeeps ==
  ASSUME NEW n, NEW C, NEW sc, NEW lv, NEW bp, Merging(n, C, sc, lv, bp), NextApart(n, C, bp)
  PROVE  LET k == [IntoList(n, bp) EXCEPT !.hp = Next_in_mem(n, bp)]
         IN  HeapInv(k, C, sc, lv) /\ Before_merge(n, k) /\ k.prev \in Range(k.fl) \cup {Nil}
<1>. DEFINE q == IntoList(n, bp)
            e == Next_in_mem(n, bp)
            k == [q EXCEPT !.hp = e]
            prev == n.merge
            sz == Sz(n, bp)
            R == Range(n.fl)
            joins == prev # Nil /\ Next_in_mem(n, prev) = bp /\ Sz(n, prev) + sz + 1 < MaxWosize
<1>1. /\ Allocator(n) /\ Tiled(n, C) /\ sc \in C
      /\ bp \in DOMAIN n.blk /\ sc.start <= bp /\ bp < Limit(sc)
      /\ Rising(n.fl) /\ R = BlueOf(n) \ {bp}
      /\ \A a \in R : Sz(n, a) > 0
      /\ sz = 0 => n.blk[bp].col # "blue"
      /\ n.wsz = Words(n, R) + sz + 1
      /\ NextBelow(R, bp, n.merge)
      /\ Held(n, lv) /\ \A a \in DOMAIN lv : a # bp /\ (bp <= a => n.blk[a].col = "black")
      /\ \A c \in C : c.words <= MaxWosize =>
           \A a \in R : c.start <= a /\ a <= Limit(c) => Next_in_mem(n, a) \notin R
      /\ n.frag \in Nat /\ n.frag < e
      /\ n.phase \in {"idle", "sweep"} /\ n.least = Nil
      /\ n.prev \in R \cup {Nil}
  BY DEF Merging
<1>2. /\ DOMAIN n.blk \subseteq Nat \ {0} /\ R \subseteq DOMAIN n.blk
      /\ R \in SUBSET (Nat \ {0}) /\ IsFiniteSet(R)
      /\ bp \in Nat \ {0} /\ sz \in Nat /\ sz <= MaxWosize /\ MaxWosize \in Nat
      /\ \A a \in DOMAIN n.blk : Sz(n, a) \in Nat /\ Next_in_mem(n, a) = a + Sz(n, a) + 1
      /\ bp \notin R
      /\ prev \in Nat /\ prev < bp /\ \A a \in R : a < bp => a <= prev
      /\ (prev # Nil => prev \in R) /\ (prev = Nil => \A a \in R : ~(a < bp))
      /\ sc.start \in Nat /\ Limit(sc) \in Nat
  BY MergingFacts
<1>3. e = bp + sz + 1 /\ e \in Nat /\ bp < e
  BY <1>1, <1>2
<1>4. \A a \in DOMAIN n.blk : a < e => a <= bp
  <2>. SUFFICES ASSUME NEW a \in DOMAIN n.blk, ~(a <= bp) PROVE ~(a < e)
    OBVIOUS
  <2>1. a \in Nat /\ bp < a
    BY <1>2
  <2>2. e <= a
    BY <1>1, <2>1 DEF Tiled
  <2>. HIDE DEF e
  <2>. QED BY <1>3, <2>1, <2>2
<1>5. Inside(n, bp, sc)
  BY <1>1, <1>2, InChunk
<1>6. sc.start <= e /\ e <= Limit(sc) /\ e \in DOMAIN n.blk \cup {Limit(sc)}
  BY <1>1, <1>2, <1>3, <1>5 DEF Inside
<1>61. IsFiniteSet(R) /\ (\A x \in R : Sz(n, x) \in Nat) /\ Words(n, R) \in Nat
  <2>1. \A x \in R : Sz(n, x) \in Nat
    BY <1>2
  <2>2. Words(n, R) \in Nat
    BY <1>2, <2>1, WordsType
  <2>. QED BY <1>2, <2>1, <2>2
<1>. DEFINE ok(s) == /\ Allocator(s) /\ Tiled(s, C) /\ Listed(s) /\ Held(s, lv) /\ Apart(s, C)
                     /\ e \in DOMAIN s.blk \cup {Limit(sc)}
                     /\ NextBelow(Range(s.fl), e, s.merge)
                     /\ \A a \in DOMAIN lv : e <= a => s.blk[a].col = "black"
                     /\ s.frag \in Nat /\ s.frag <= e
                     /\ s.frag = e => s.frag - 1 \in DOMAIN s.blk /\ Sz(s, s.frag - 1) = 0
                     /\ s.phase = n.phase /\ s.least = n.least /\ s.prev = n.prev
                     /\ R \subseteq Range(s.fl)
                     /\ Before_merge(n, s)
<1>7. ASSUME ok(q)
      PROVE  HeapInv(k, C, sc, lv) /\ Before_merge(n, k) /\ k.prev \in Range(k.fl) \cup {Nil}
  <2>. HIDE DEF q
  <2>1. /\ Allocator(q) /\ Tiled(q, C) /\ Listed(q) /\ Held(q, lv) /\ Apart(q, C)
        /\ e \in DOMAIN q.blk \cup {Limit(sc)}
        /\ NextBelow(Range(q.fl), e, q.merge)
        /\ \A a \in DOMAIN lv : e <= a => q.blk[a].col = "black"
        /\ q.frag \in Nat /\ q.frag <= e
        /\ q.frag = e => q.frag - 1 \in DOMAIN q.blk /\ Sz(q, q.frag - 1) = 0
        /\ q.phase = n.phase /\ q.least = n.least /\ q.prev = n.prev
        /\ R \subseteq Range(q.fl) /\ Before_merge(n, q)
    BY <1>7
  <2>. HIDE DEF e, ok
  <2>2. Changed(q, k, "hp", e)
    <3>1. "hp" \in Fields \ {"blk"}
      BY DEF Fields
    <3>. QED BY <2>1, <3>1, FieldChanges
  <2>. HIDE DEF k
  <2>3. /\ Allocator(k) /\ k.hp = e /\ k.blk = q.blk /\ k.fl = q.fl /\ k.wsz = q.wsz
        /\ k.merge = q.merge /\ k.frag = q.frag /\ k.phase = q.phase /\ k.least = q.least
        /\ k.prev = q.prev /\ k.flp = q.flp /\ k.beyond = q.beyond /\ k.flpmax = q.flpmax
    BY <2>2 DEF Changed, Fields
  <2>4. \A a : Sz(k, a) = Sz(q, a) /\ Next_in_mem(k, a) = Next_in_mem(q, a)
    BY <2>3 DEF Sz, Next_in_mem
  <2>5. BlueOf(k) = BlueOf(q)
    BY <2>3 DEF BlueOf
  <2>6. Tiled(k, C)
    BY <2>1, <2>3, <2>4, TiledSame
  <2>7. Listed(k)
    <3>1. IsFiniteSet(Range(q.fl)) /\ Range(q.fl) \subseteq DOMAIN q.blk
      BY <2>1, RisingRange DEF Listed, BlueOf
    <3>2. \A x \in Range(q.fl) : Sz(q, x) \in Nat /\ Sz(k, x) = Sz(q, x)
      BY <2>1, <2>4, <3>1 DEF Tiled
    <3>3. Words(q, Range(q.fl)) = Words(k, Range(q.fl))
      BY <3>1, <3>2, WordsSame
    <3>. QED BY <2>1, <2>3, <2>4, <2>5, <3>3 DEF Listed
  <2>8. Held(k, lv) /\ Apart(k, C)
    BY <2>1, <2>3, <2>4, <2>5 DEF Held, Apart
  <2>9. Swept(k, sc, lv)
    <3>1. Fragment(k)
      BY <2>1, <2>3, <2>4 DEF Fragment
    <3>. QED BY <1>6, <2>1, <2>3, <3>1 DEF Swept
  <2>10. HeapInv(k, C, sc, lv)
    BY <1>1, <1>3, <2>1, <2>3, <2>6, <2>7, <2>8, <2>9 DEF HeapInv, e
  <2>11. Before_merge(n, k)
    BY <2>1, <2>3, <2>4 DEF Before_merge
  <2>. QED BY <1>1, <2>1, <2>3, <2>10, <2>11
<1>8. ASSUME joins PROVE ok(q)
  <2>. DEFINE d == [n EXCEPT !.blk = Without(@, bp)]
              S == Sz(n, prev) + sz + 1
              h == Hd(d, prev, S, "blue")
  <2>1. q = h
    BY <1>8 DEF IntoList
  <2>2. prev \in R /\ prev \in DOMAIN n.blk /\ Sz(n, prev) \in Nat /\ prev # bp /\ S \in 0 .. MaxWosize
    BY <1>2, <1>8
  <2>. HIDE DEF R, prev, sz, q, k, e
  <2>3. Dropped(n, d, bp)
    BY <1>1, WithoutDrops
  <2>. HIDE DEF d
  <2>4. Rewritten(d, h, prev, S, "blue")
    <3>1. Allocator(d) /\ "blue" \in Colours
      BY <2>3 DEF Dropped, Colours
    <3>. QED BY <2>2, <3>1, HdRewrites
  <2>. HIDE DEF h
  <2>5. /\ Allocator(q) /\ q.fl = n.fl /\ q.wsz = n.wsz /\ q.merge = n.merge
        /\ q.frag = n.frag /\ q.phase = n.phase /\ q.least = n.least /\ q.prev = n.prev
        /\ q.flp = n.flp /\ q.beyond = n.beyond /\ q.flpmax = n.flpmax
    <3>1. /\ h.fl = d.fl /\ h.wsz = d.wsz /\ h.merge = d.merge /\ h.frag = d.frag
          /\ h.phase = d.phase /\ h.least = d.least /\ h.prev = d.prev /\ h.flp = d.flp
          /\ h.beyond = d.beyond /\ h.flpmax = d.flpmax /\ Allocator(h)
      BY <2>4 DEF Rewritten, Fields
    <3>2. /\ d.fl = n.fl /\ d.wsz = n.wsz /\ d.merge = n.merge /\ d.frag = n.frag
          /\ d.phase = n.phase /\ d.least = n.least /\ d.prev = n.prev /\ d.flp = n.flp
          /\ d.beyond = n.beyond /\ d.flpmax = n.flpmax
      BY <2>3 DEF Dropped, Fields
    <3>. QED BY <2>1, <3>1, <3>2
  <2>6. /\ DOMAIN q.blk = DOMAIN n.blk \ {bp}
        /\ Sz(q, prev) = S /\ q.blk[prev].col = "blue"
        /\ \A a \in DOMAIN n.blk \ {prev, bp} : q.blk[a] = n.blk[a]
    <3>1. DOMAIN h.blk = (DOMAIN n.blk \ {bp}) \cup {prev}
      BY <2>3, <2>4 DEF Dropped, Rewritten
    <3>2. (DOMAIN n.blk \ {bp}) \cup {prev} = DOMAIN n.blk \ {bp}
      BY <2>2
    <3>3. Sz(h, prev) = S /\ h.blk[prev].col = "blue"
      BY <2>4 DEF Rewritten
    <3>4. \A a \in DOMAIN n.blk \ {prev, bp} : h.blk[a] = n.blk[a]
      BY <2>3, <2>4 DEF Dropped, Rewritten
    <3>. QED BY <2>1, <3>1, <3>2, <3>3, <3>4
  <2>7. \A a \in DOMAIN n.blk \ {prev, bp} : Sz(q, a) = Sz(n, a) /\ Next_in_mem(q, a) = Next_in_mem(n, a)
    BY <2>6 DEF Sz, Next_in_mem
  <2>8. Joins(n, q, prev, bp)
    BY <1>1, <1>8, <2>2, <2>6, <2>7 DEF Joins, sz
  <2>9. Tiled(q, C) /\ Next_in_mem(q, prev) = e
    BY <1>1, <2>8, TiledJoin DEF e
  <2>10. BlueOf(q) = R
    <3>1. BlueOf(q) = {a \in DOMAIN n.blk \ {prev, bp} : n.blk[a].col = "blue"} \cup {prev}
      BY <2>2, <2>6 DEF BlueOf
    <3>2. R = {a \in DOMAIN n.blk \ {bp} : n.blk[a].col = "blue"}
      BY <1>1 DEF BlueOf
    <3>. QED BY <2>2, <3>1, <3>2
  <2>11. Listed(q)
    <3>. DEFINE T == R \ {prev}
    <3>1. \A a \in R : Sz(q, a) > 0
      <4>1. S > 0
        BY <1>2, <2>2
      <4>2. \A a \in R : a = prev \/ a \in DOMAIN n.blk \ {prev, bp}
        BY <1>2
      <4>. QED BY <1>1, <2>6, <2>7, <4>1, <4>2
    <3>2. Words(n, T) \in Nat /\ Words(n, R) = Words(n, T) + Sz(n, prev) + 1
      BY <1>61, <2>2, WordsRemove
    <3>3. \A x \in R : Sz(q, x) \in Nat
      BY <2>9, <2>10 DEF Tiled, BlueOf
    <3>4. Words(q, T) \in Nat /\ Words(q, R) = Words(q, T) + Sz(q, prev) + 1
      BY <1>61, <2>2, <3>3, WordsRemove
    <3>5. Words(n, T) = Words(q, T)
      <4>1. IsFiniteSet(T)
        BY <1>61, FS_RemoveElement
      <4>2. \A x \in T : Sz(n, x) \in Nat /\ Sz(q, x) = Sz(n, x)
        <5>1. \A x \in T : x \in DOMAIN n.blk \ {prev, bp}
          BY <1>2
        <5>. QED BY <1>61, <2>7, <5>1
      <4>. HIDE DEF T
      <4>. QED BY <4>1, <4>2, WordsSame
    <3>6. n.wsz = Words(q, R)
      <4>. HIDE DEF T
      <4>. QED BY <1>1, <1>2, <2>2, <2>6, <3>2, <3>4, <3>5
    <3>. QED BY <1>1, <2>5, <2>10, <3>1, <3>6 DEF Listed, R
  <2>12. Held(q, lv) /\ \A a \in DOMAIN lv : e <= a => q.blk[a].col = "black"
    <3>1. \A a \in DOMAIN lv : a \in DOMAIN n.blk \ {prev, bp} /\ (e <= a => bp <= a)
      <4>. SUFFICES ASSUME NEW a \in DOMAIN lv
                    PROVE  a \in DOMAIN n.blk \ {prev, bp} /\ (e <= a => bp <= a)
        OBVIOUS
      <4>1. a \in DOMAIN n.blk /\ n.blk[a].col # "blue" /\ a # bp /\ a \in Nat
        BY <1>1, <1>2 DEF Held
      <4>2. a # prev
        BY <1>1, <2>2, <4>1 DEF BlueOf
      <4>. QED BY <1>2, <1>3, <4>1, <4>2
    <3>. QED BY <1>1, <2>6, <2>7, <3>1 DEF Held
  <2>13. Apart(q, C)
    <3>. SUFFICES ASSUME NEW c \in C, c.words <= MaxWosize, NEW a \in R, c.start <= a, a <= Limit(c)
                  PROVE  Next_in_mem(q, a) \notin R
      BY <2>10 DEF Apart
    <3>1. CASE a = prev
      <4>1. Inside(n, prev, c)
        BY <1>1, <2>2, <3>1, InChunk
      <4>2. c.start \in Nat /\ Limit(c) \in Nat
        BY <1>1, PlaceFacts DEF Tiled
      <4>3. c.start <= bp /\ bp <= Limit(c)
        BY <1>2, <1>8, <3>1, <4>1, <4>2 DEF Inside
      <4>4. e \notin R
        BY <4>3 DEF NextApart, e, R
      <4>. QED BY <2>9, <3>1, <4>4
    <3>2. CASE a # prev
      <4>1. a \in DOMAIN n.blk \ {prev, bp}
        BY <1>2, <3>2
      <4>. QED BY <1>1, <2>7, <4>1
    <3>. QED BY <3>1, <3>2
  <2>14. NextBelow(Range(q.fl), e, q.merge)
    <3>1. \A a \in R : a < e => a <= prev
      <4>. SUFFICES ASSUME NEW a \in R, a < e PROVE a <= prev
        OBVIOUS
      <4>1. a \in Nat /\ a <= bp /\ a # bp
        BY <1>2, <1>4
      <4>. QED BY <1>2, <4>1
    <3>2. prev \in R /\ prev < e
      BY <1>2, <1>3, <2>2
    <3>. QED BY <2>5, <3>1, <3>2 DEF NextBelow, R, prev
  <2>15. e \in DOMAIN q.blk \cup {Limit(sc)}
    BY <1>2, <1>3, <1>6, <2>6
  <2>16. q.frag \in Nat /\ q.frag <= e /\ q.frag # e
    BY <1>1, <1>3, <2>5
  <2>17. Before_merge(n, q)
    <3>1. \A a \in R : a < n.merge => Sz(q, a) = Sz(n, a)
      <4>. SUFFICES ASSUME NEW a \in R, a < prev PROVE Sz(q, a) = Sz(n, a)
        BY DEF prev
      <4>1. a \in DOMAIN n.blk /\ a # prev /\ a # bp
        BY <1>2
      <4>. QED BY <2>7, <4>1
    <3>. QED BY <2>5, <3>1 DEF Before_merge, R
  <2>. QED BY <2>5, <2>9, <2>11, <2>12, <2>13, <2>14, <2>15, <2>16, <2>17 DEF ok, R
<1>9. ASSUME ~joins, sz # 0 PROVE ok(q)
  <2>. DEFINE l == Link(n, prev, <<bp>>)
              h == Hd(l, bp, sz, "blue")
  <2>1. q = [h EXCEPT !.merge = bp]
    BY <1>9 DEF IntoList
  <2>. HIDE DEF R, prev, sz, q, k, e
  <2>2. Rising(<<bp>>) /\ Range(<<bp>>) = {bp}
    BY <1>2 DEF Rising, Range
  <2>3. /\ Allocator(l) /\ Rising(l.fl) /\ Range(l.fl) = R \cup {bp}
        /\ \A f \in Fields \ {"fl"} : l[f] = n[f]
    <3>1. prev \in Range(n.fl) \cup {Nil}
      BY <1>2 DEF R
    <3>2. \A a \in Range(<<bp>>) : prev < a /\ \A b \in Range(n.fl) : prev < b => a < b
      <4>1. \A b \in R : prev < b => bp < b
        <5>. SUFFICES ASSUME NEW b \in R, prev < b PROVE bp < b
          OBVIOUS
        <5>1. b \in Nat /\ b # bp /\ ~(b <= prev)
          BY <1>2
        <5>. QED BY <1>2, <5>1
      <4>. QED BY <1>2, <2>2, <4>1 DEF R
    <3>3. /\ Allocator(l) /\ Rising(l.fl) /\ Range(l.fl) = Range(n.fl) \cup Range(<<bp>>)
          /\ \A f \in Fields \ {"fl"} : l[f] = n[f]
      <4>1. n.merge \in Range(n.fl) \cup {Nil} /\ Rising(n.fl) /\ Allocator(n)
        BY <1>1, <3>1 DEF prev
      <4>2. \A a \in Range(<<bp>>) :
              n.merge < a /\ \A b \in Range(n.fl) : n.merge < b => a < b
        BY <3>2 DEF prev
      <4>. HIDE DEF l
      <4>3. Linked(n, Link(n, n.merge, <<bp>>), <<bp>>)
        BY <2>2, <4>1, <4>2, LinkLinks
      <4>4. l = Link(n, n.merge, <<bp>>)
        BY DEF l, prev
      <4>. QED BY <4>3, <4>4 DEF Linked
    <3>. QED BY <2>2, <3>3 DEF R
  <2>. HIDE DEF l
  <2>4. Rewritten(l, h, bp, sz, "blue")
    <3>1. sz \in 0 .. MaxWosize /\ "blue" \in Colours
      BY <1>2 DEF Colours
    <3>. QED BY <2>3, <3>1, HdRewrites
  <2>. HIDE DEF h
  <2>5. Changed(h, q, "merge", bp)
    <3>1. Allocator(h) /\ "merge" \in Fields \ {"blk"}
      BY <2>4 DEF Rewritten, Fields
    <3>. QED BY <2>1, <3>1, FieldChanges
  <2>6. /\ Allocator(q) /\ q.blk = h.blk /\ q.fl = l.fl /\ q.wsz = n.wsz /\ q.merge = bp
        /\ q.frag = n.frag /\ q.phase = n.phase /\ q.least = n.least /\ q.prev = n.prev
        /\ q.flp = n.flp /\ q.beyond = n.beyond /\ q.flpmax = n.flpmax
    <3>1. /\ Allocator(q) /\ q.blk = h.blk /\ q.fl = h.fl /\ q.wsz = h.wsz
          /\ q.merge = bp /\ q.frag = h.frag /\ q.phase = h.phase /\ q.least = h.least
          /\ q.prev = h.prev /\ q.flp = h.flp /\ q.beyond = h.beyond /\ q.flpmax = h.flpmax
      BY <2>5 DEF Changed, Fields
    <3>2. /\ h.fl = l.fl /\ h.wsz = l.wsz /\ h.merge = l.merge /\ h.frag = l.frag
          /\ h.phase = l.phase /\ h.least = l.least /\ h.prev = l.prev /\ h.flp = l.flp
          /\ h.beyond = l.beyond /\ h.flpmax = l.flpmax
      BY <2>4 DEF Rewritten, Fields
    <3>3. /\ l.wsz = n.wsz /\ l.frag = n.frag
          /\ l.phase = n.phase /\ l.least = n.least /\ l.prev = n.prev /\ l.flp = n.flp
          /\ l.beyond = n.beyond /\ l.flpmax = n.flpmax
      BY <2>3 DEF Fields
    <3>. QED BY <3>1, <3>2, <3>3
  <2>7. /\ DOMAIN q.blk = DOMAIN n.blk
        /\ Sz(q, bp) = sz /\ q.blk[bp].col = "blue"
        /\ \A a \in DOMAIN n.blk \ {bp} : q.blk[a] = n.blk[a]
    <3>1. l.blk = n.blk
      BY <2>3 DEF Fields
    <3>2. DOMAIN h.blk = DOMAIN n.blk \cup {bp}
      BY <2>4, <3>1 DEF Rewritten
    <3>3. Sz(h, bp) = sz /\ h.blk[bp].col = "blue"
      BY <2>4 DEF Rewritten
    <3>4. \A a \in DOMAIN n.blk \ {bp} : h.blk[a] = n.blk[a]
      BY <2>4, <3>1 DEF Rewritten
    <3>. QED BY <1>1, <2>6, <3>2, <3>3, <3>4 DEF Sz
  <2>8. \A a \in DOMAIN n.blk : Sz(q, a) = Sz(n, a) /\ Next_in_mem(q, a) = Next_in_mem(n, a)
    BY <2>7 DEF Sz, Next_in_mem, sz
  <2>9. Tiled(q, C)
    BY <1>1, <2>7, <2>8, TiledSame
  <2>10. BlueOf(q) = R \cup {bp} /\ Range(q.fl) = R \cup {bp}
    <3>1. BlueOf(q) = {a \in DOMAIN n.blk \ {bp} : n.blk[a].col = "blue"} \cup {bp}
      BY <1>1, <2>7 DEF BlueOf
    <3>2. R = {a \in DOMAIN n.blk \ {bp} : n.blk[a].col = "blue"}
      BY <1>1 DEF BlueOf
    <3>. QED BY <2>3, <2>6, <3>1, <3>2
  <2>11. Listed(q)
    <3>1. \A a \in R \cup {bp} : Sz(q, a) > 0 /\ Sz(q, a) \in Nat
      BY <1>1, <1>2, <1>9, <1>61, <2>7, <2>8
    <3>2. Words(n, R) = Words(q, R)
      <4>1. \A x \in R : Sz(n, x) \in Nat /\ Sz(q, x) = Sz(n, x)
        BY <1>2, <1>61, <2>8
      <4>. QED BY <1>61, <4>1, WordsSame
    <3>3. Words(q, R \cup {bp}) = Words(q, R) + Sz(q, bp) + 1
      BY <1>2, <1>61, <3>1, WordsAdd
    <3>. QED BY <1>1, <2>3, <2>6, <2>7, <2>10, <3>1, <3>2, <3>3 DEF Listed
  <2>12. Held(q, lv) /\ \A a \in DOMAIN lv : e <= a => q.blk[a].col = "black"
    <3>1. \A a \in DOMAIN lv : a \in DOMAIN n.blk \ {bp} /\ (e <= a => bp <= a)
      <4>. SUFFICES ASSUME NEW a \in DOMAIN lv
                    PROVE  a \in DOMAIN n.blk \ {bp} /\ (e <= a => bp <= a)
        OBVIOUS
      <4>1. a \in DOMAIN n.blk /\ a # bp /\ a \in Nat
        BY <1>1, <1>2 DEF Held
      <4>. QED BY <1>2, <1>3, <4>1
    <3>. QED BY <1>1, <2>7, <2>8, <3>1 DEF Held
  <2>13. Apart(q, C)
    <3>. SUFFICES ASSUME NEW c \in C, c.words <= MaxWosize, NEW a \in R \cup {bp},
                         c.start <= a, a <= Limit(c)
                  PROVE  Next_in_mem(n, a) \notin R \cup {bp}
      BY <1>1, <1>2, <2>8, <2>10 DEF Apart
    <3>1. CASE a = bp
      <4>1. e \notin R /\ e # bp
        BY <1>2, <1>3, <3>1 DEF NextApart, e, R
      <4>. QED BY <3>1, <4>1 DEF e
    <3>2. CASE a \in R
      <4>1. Next_in_mem(n, a) \notin R
        BY <1>1, <3>2
      <4>2. ASSUME Next_in_mem(n, a) = bp PROVE FALSE
        <5>1. a \in DOMAIN n.blk /\ a \in Nat /\ Sz(n, a) \in Nat /\ bp = a + Sz(n, a) + 1
          BY <1>2, <3>2, <4>2
        <5>2. a < bp
          BY <5>1
        <5>3. prev \in R /\ prev \in DOMAIN n.blk /\ a <= prev
          BY <1>2, <3>2, <5>2
        <5>4. a = prev
          <6>1. ~(a < prev)
            <7>. SUFFICES ASSUME a < prev PROVE FALSE
              OBVIOUS
            <7>1. bp <= prev
              BY <1>1, <4>2, <5>1, <5>3 DEF Tiled
            <7>. QED BY <1>2, <7>1
          <6>. QED BY <1>2, <5>1, <5>3, <6>1
        <5>5. prev # Nil
          BY <1>2, <5>3 DEF Nil
        <5>6. Inside(n, a, c) /\ c \in Places
          BY <1>1, <5>1, InChunk DEF Tiled
        <5>7. /\ c.start \in Nat /\ c.words \in Nat /\ Limit(c) = c.start + c.words
          BY <5>6, PlaceFacts
        <5>8. c.start <= bp /\ bp <= Limit(c)
          BY <1>2, <4>2, <5>1, <5>2, <5>6, <5>7 DEF Inside
        <5>9. Inside(n, bp, c)
          BY <1>1, <5>8, InChunk
        <5>10. bp + sz + 1 <= Limit(c)
          BY <1>3, <5>9 DEF Inside, e
        <5>11. Sz(n, prev) + sz + 1 < MaxWosize
          BY <1>2, <5>1, <5>4, <5>7, <5>10
        <5>. QED BY <1>9, <4>2, <5>4, <5>5, <5>11
      <4>. QED BY <4>1, <4>2
    <3>. QED BY <3>1, <3>2
  <2>14. NextBelow(Range(q.fl), e, q.merge)
    <3>1. \A a \in R \cup {bp} : a < e => a <= bp
      BY <1>1, <1>2, <1>4
    <3>. QED BY <1>3, <2>6, <2>10, <3>1 DEF NextBelow
  <2>15. e \in DOMAIN q.blk \cup {Limit(sc)}
    BY <1>6, <2>7
  <2>16. q.frag \in Nat /\ q.frag <= e /\ q.frag # e
    BY <1>1, <1>3, <2>6
  <2>17. Before_merge(n, q)
    <3>1. \A a \in Nat : a <= n.merge => (a \in R \cup {bp} <=> a \in R)
      BY <1>2 DEF prev
    <3>2. \A a \in R : Sz(q, a) = Sz(n, a)
      BY <1>2, <2>8
    <3>. QED BY <2>6, <2>10, <3>1, <3>2 DEF Before_merge, R
  <2>. QED BY <2>6, <2>9, <2>10, <2>11, <2>12, <2>13, <2>14, <2>15, <2>16, <2>17 DEF ok
<1>10. ASSUME ~joins, sz = 0 PROVE ok(q)
  <2>1. q = [n EXCEPT !.frag = bp + 1, !.wsz = @ - 1]
    BY <1>10 DEF IntoList
  <2>. HIDE DEF R, prev, sz, q, k, e
  <2>2. /\ q = [f \in Fields |-> q[f]] /\ q.frag = bp + 1 /\ q.wsz = n.wsz - 1
        /\ \A f \in Fields \ {"frag", "wsz"} : q[f] = n[f]
    <3>1. n = [f \in Fields |-> n[f]] /\ "frag" \in Fields /\ "wsz" \in Fields
      BY <1>1 DEF Allocator, Fields
    <3>. QED BY <2>1, <3>1
  <2>3. /\ q.blk = n.blk /\ q.fl = n.fl /\ q.merge = n.merge
        /\ q.phase = n.phase /\ q.least = n.least /\ q.prev = n.prev
        /\ q.flp = n.flp /\ q.beyond = n.beyond /\ q.flpmax = n.flpmax
    BY <2>2 DEF Fields
  <2>4. Allocator(q)
    BY <1>1, <2>2, <2>3 DEF Allocator
  <2>5. \A a : Sz(q, a) = Sz(n, a) /\ Next_in_mem(q, a) = Next_in_mem(n, a)
    BY <2>3 DEF Sz, Next_in_mem
  <2>6. Tiled(q, C)
    BY <1>1, <2>3, <2>5, TiledSame
  <2>7. BlueOf(q) = R /\ Range(q.fl) = R
    <3>1. BlueOf(q) = BlueOf(n) /\ bp \notin BlueOf(n)
      BY <1>1, <1>10, <2>3 DEF BlueOf
    <3>. QED BY <1>1, <2>3, <3>1 DEF R
  <2>8. Listed(q)
    <3>1. Words(n, R) = Words(q, R)
      <4>1. \A x \in R : Sz(n, x) \in Nat /\ Sz(q, x) = Sz(n, x)
        BY <1>61, <2>5
      <4>. QED BY <1>61, <4>1, WordsSame
    <3>. QED BY <1>1, <1>10, <1>61, <2>2, <2>3, <2>5, <2>7, <3>1 DEF Listed
  <2>9. Held(q, lv) /\ \A a \in DOMAIN lv : e <= a => q.blk[a].col = "black"
    <3>1. \A a \in DOMAIN lv : a \in DOMAIN n.blk /\ (e <= a => bp <= a)
      <4>. SUFFICES ASSUME NEW a \in DOMAIN lv
                    PROVE  a \in DOMAIN n.blk /\ (e <= a => bp <= a)
        OBVIOUS
      <4>1. a \in DOMAIN n.blk /\ a \in Nat
        BY <1>1, <1>2 DEF Held
      <4>. QED BY <1>2, <1>3, <4>1
    <3>. QED BY <1>1, <2>3, <2>5, <3>1 DEF Held
  <2>10. Apart(q, C)
    BY <1>1, <2>5, <2>7 DEF Apart
  <2>11. NextBelow(Range(q.fl), e, q.merge)
    <3>1. \A a \in R : a < e => a < bp
      <4>. SUFFICES ASSUME NEW a \in R, a < e PROVE a < bp
        OBVIOUS
      <4>1. a \in Nat /\ a <= bp /\ a # bp
        BY <1>2, <1>4
      <4>. QED BY <1>2, <4>1
    <3>2. CASE prev = Nil
      <4>1. \A a \in R : ~(a < e)
        BY <1>2, <3>1, <3>2
      <4>. QED BY <2>3, <2>7, <3>2, <4>1 DEF NextBelow, prev
    <3>3. CASE prev # Nil
      <4>1. prev \in R /\ prev < e /\ \A a \in R : a < e => a <= prev
        BY <1>2, <1>3, <3>1, <3>3
      <4>. QED BY <2>3, <2>7, <4>1 DEF NextBelow, prev
    <3>. QED BY <3>2, <3>3
  <2>12. e \in DOMAIN q.blk \cup {Limit(sc)}
    BY <1>6, <2>3
  <2>13. /\ q.frag \in Nat /\ q.frag <= e
         /\ q.frag - 1 \in DOMAIN q.blk /\ Sz(q, q.frag - 1) = 0
    <3>1. q.frag - 1 = bp /\ q.frag \in Nat /\ q.frag <= e
      BY <1>2, <1>3, <2>2
    <3>2. bp \in DOMAIN q.blk /\ Sz(q, bp) = 0
      BY <1>1, <1>10, <2>3, <2>5 DEF sz
    <3>. QED BY <3>1, <3>2
  <2>14. Before_merge(n, q)
    BY <2>3, <2>5 DEF Before_merge
  <2>. QED BY <2>3, <2>4, <2>6, <2>7, <2>8, <2>9, <2>10, <2>11, <2>12, <2>13, <2>14 DEF ok
<1>11. ok(q)
  BY <1>8, <1>9, <1>10
<1>. QED BY <1>7, <1>11

-----------------------------------------------------------------------------
(* The steps of the sweeper                                                 *)

\* Merging in two parts leaves alone what each part leaves alone.
LEMMA Before_mergeComposes ==
  ASSUME NEW n, NEW k, NEW l, Range(n.fl) \subseteq Nat, n.merge \in Nat,
         Before_merge(n, k), k.merge = n.merge, Before_merge(k, l)
  PROVE  Before_merge(n, l)
<1>1. /\ \A a \in Nat : a <= n.merge => (a \in Range(k.fl) <=> a \in Range(n.fl))
      /\ \A a \in Range(n.fl) : a < n.merge => Sz(k, a) = Sz(n, a)
      /\ k.flp = n.flp /\ k.beyond = n.beyond /\ k.flpmax = n.flpmax /\ k.phase = n.phase
      /\ n.prev = Nil => k.prev = Nil
  BY DEF Before_merge
<1>2. /\ \A a \in Nat : a <= n.merge => (a \in Range(l.fl) <=> a \in Range(k.fl))
      /\ \A a \in Range(k.fl) : a < n.merge => Sz(l, a) = Sz(k, a)
      /\ l.flp = k.flp /\ l.beyond = k.beyond /\ l.flpmax = k.flpmax /\ l.phase = k.phase
      /\ k.prev = Nil => l.prev = Nil
  BY DEF Before_merge
<1>3. \A a \in Range(n.fl) : a < n.merge => Sz(l, a) = Sz(n, a)
  <2>. SUFFICES ASSUME NEW a \in Range(n.fl), a < n.merge PROVE Sz(l, a) = Sz(n, a)
    OBVIOUS
  <2>1. a \in Nat /\ a <= n.merge
    OBVIOUS
  <2>2. a \in Range(k.fl)
    BY <1>1, <2>1
  <2>. QED BY <1>1, <1>2, <2>2
<1>. QED BY <1>1, <1>2, <1>3 DEF Before_merge

\* The facts of the invariant that the steps of the sweeper start from.
LEMMA HeapFacts ==
  ASSUME NEW n, NEW C, NEW sc, NEW lv, HeapInv(n, C, sc, lv)
  PROVE  /\ Allocator(n) /\ Tiled(n, C) /\ sc \in C /\ sc \in Places
         /\ Rising(n.fl) /\ Range(n.fl) = BlueOf(n) /\ Range(n.fl) \subseteq DOMAIN n.blk
         /\ Range(n.fl) \in SUBSET (Nat \ {0}) /\ IsFiniteSet(Range(n.fl))
         /\ \A a \in Range(n.fl) : Sz(n, a) > 0
         /\ n.wsz = Words(n, Range(n.fl)) /\ n.wsz \in Nat
         /\ DOMAIN n.blk \subseteq Nat \ {0}
         /\ \A a \in DOMAIN n.blk : /\ Sz(n, a) \in Nat /\ Sz(n, a) <= MaxWosize
                                    /\ Next_in_mem(n, a) = a + Sz(n, a) + 1
         /\ Held(n, lv) /\ Apart(n, C)
         /\ n.phase \in {"idle", "sweep"} /\ n.hp \in Nat /\ n.frag \in Nat /\ n.least = Nil
         /\ sc.start \in Nat \ {0} /\ Limit(sc) \in Nat
<1>1. /\ Allocator(n) /\ Tiled(n, C) /\ sc \in C /\ Listed(n) /\ Held(n, lv) /\ Apart(n, C)
      /\ n.phase \in {"idle", "sweep"} /\ n.hp \in Nat /\ n.frag \in Nat /\ n.least = Nil
  BY DEF HeapInv
<1>2. /\ Rising(n.fl) /\ Range(n.fl) = BlueOf(n) /\ \A a \in Range(n.fl) : Sz(n, a) > 0
      /\ n.wsz = Words(n, Range(n.fl))
  BY <1>1 DEF Listed
<1>3. Range(n.fl) \subseteq DOMAIN n.blk
  BY <1>2 DEF BlueOf
<1>4. Range(n.fl) \in SUBSET (Nat \ {0}) /\ IsFiniteSet(Range(n.fl))
  BY <1>2, RisingRange
<1>5. sc \in Places /\ DOMAIN n.blk \subseteq Nat \ {0}
  BY <1>1 DEF Tiled
<1>6. \A a \in DOMAIN n.blk : /\ Sz(n, a) \in Nat /\ Sz(n, a) <= MaxWosize
                              /\ Next_in_mem(n, a) = a + Sz(n, a) + 1
  BY <1>1, SizeFacts DEF Next_in_mem
<1>7. n.wsz \in Nat
  <2>1. \A a \in Range(n.fl) : Sz(n, a) \in Nat
    BY <1>3, <1>6
  <2>. QED BY <1>2, <1>4, <2>1, WordsType
<1>8. sc.start \in Nat \ {0} /\ Limit(sc) \in Nat
  BY <1>5, PlaceFacts
<1>. QED BY <1>1, <1>2, <1>3, <1>4, <1>5, <1>6, <1>7, <1>8

\* The sweeper at a block.
LEMMA SweeperFacts ==
  ASSUME NEW n, NEW C, NEW sc, NEW lv, HeapInv(n, C, sc, lv),
         n.phase = "sweep", n.hp < Limit(sc)
  PROVE  /\ n.hp \in DOMAIN n.blk /\ sc.start <= n.hp
         /\ Next_in_mem(n, n.hp) \in DOMAIN n.blk \cup {Limit(sc)}
         /\ Next_in_mem(n, n.hp) \in Nat /\ n.hp < Next_in_mem(n, n.hp)
         /\ sc.start <= Next_in_mem(n, n.hp) /\ Next_in_mem(n, n.hp) <= Limit(sc)
         /\ \A a \in DOMAIN n.blk : a < Next_in_mem(n, n.hp) => a <= n.hp
         /\ NextBelow(Range(n.fl), n.hp, n.merge)
         /\ \A a \in DOMAIN lv : n.hp <= a => n.blk[a].col = "black"
         /\ Fragment(n)
<1>1. /\ sc.start <= n.hp /\ n.hp \in DOMAIN n.blk \cup {Limit(sc)}
      /\ NextBelow(Range(n.fl), n.hp, n.merge)
      /\ \A a \in DOMAIN lv : n.hp <= a => n.blk[a].col = "black"
      /\ Fragment(n)
  BY DEF HeapInv, Swept
<1>2. /\ sc \in C /\ Tiled(n, C) /\ n.hp \in Nat /\ sc.start \in Nat /\ Limit(sc) \in Nat
      /\ DOMAIN n.blk \subseteq Nat \ {0}
      /\ \A a \in DOMAIN n.blk : Sz(n, a) \in Nat /\ Next_in_mem(n, a) = a + Sz(n, a) + 1
  BY HeapFacts
<1>3. n.hp \in DOMAIN n.blk
  BY <1>1, <1>2
<1>4. Inside(n, n.hp, sc)
  BY <1>1, <1>2, <1>3, InChunk
<1>5. /\ Next_in_mem(n, n.hp) \in DOMAIN n.blk \cup {Limit(sc)}
      /\ Next_in_mem(n, n.hp) <= Limit(sc)
  BY <1>4 DEF Inside
<1>6. Next_in_mem(n, n.hp) \in Nat /\ n.hp < Next_in_mem(n, n.hp)
  BY <1>2, <1>3
<1>7. \A a \in DOMAIN n.blk : a < Next_in_mem(n, n.hp) => a <= n.hp
  <2>. SUFFICES ASSUME NEW a \in DOMAIN n.blk, ~(a <= n.hp) PROVE ~(a < Next_in_mem(n, n.hp))
    OBVIOUS
  <2>1. a \in Nat /\ n.hp < a
    BY <1>2
  <2>2. Next_in_mem(n, n.hp) <= a
    BY <1>2, <1>3, <2>1 DEF Tiled
  <2>. QED BY <1>6, <2>1, <2>2
<1>8. sc.start <= Next_in_mem(n, n.hp)
  BY <1>1, <1>2, <1>6
<1>. QED BY <1>1, <1>3, <1>5, <1>6, <1>7, <1>8

\* k is n but for the fields that the sweeper sets before it merges.
AtMerge(n, k) ==
  /\ Allocator(k) /\ k.blk = n.blk /\ k.fl = n.fl /\ k.merge = n.merge /\ k.frag = n.frag
  /\ k.phase = n.phase /\ k.least = n.least /\ k.prev = n.prev

\* The sweeper at a white block: nf_merge_block begins in such a state.
LEMMA StartsMerging ==
  ASSUME NEW n, NEW C, NEW sc, NEW lv, HeapInv(n, C, sc, lv),
         n.phase = "sweep", n.hp < Limit(sc), n.blk[n.hp].col = "white",
         n.prev \in Range(n.fl) \cup {Nil},
         NEW k, AtMerge(n, k), k.wsz = n.wsz + Sz(n, n.hp) + 1
  PROVE  /\ Merging(k, C, sc, lv, n.hp)
         /\ k.frag = n.hp => n.hp - 1 \in DOMAIN k.blk /\ Sz(k, n.hp - 1) = 0
<1>. DEFINE bp == n.hp
            R == Range(n.fl)
<1>1. /\ Allocator(k) /\ k.blk = n.blk /\ k.fl = n.fl /\ k.merge = n.merge /\ k.frag = n.frag
      /\ k.phase = n.phase /\ k.least = n.least /\ k.prev = n.prev
  BY DEF AtMerge
<1>2. \A a : Sz(k, a) = Sz(n, a) /\ Next_in_mem(k, a) = Next_in_mem(n, a)
  BY <1>1 DEF Sz, Next_in_mem
<1>3. /\ Tiled(n, C) /\ sc \in C /\ Rising(n.fl) /\ R = BlueOf(n) /\ R \subseteq DOMAIN n.blk
      /\ IsFiniteSet(R) /\ \A a \in R : Sz(n, a) > 0
      /\ n.wsz = Words(n, R)
      /\ \A a \in DOMAIN n.blk : Sz(n, a) \in Nat /\ Next_in_mem(n, a) = a + Sz(n, a) + 1
      /\ Held(n, lv) /\ Apart(n, C) /\ n.frag \in Nat /\ n.least = Nil
      /\ n.phase \in {"idle", "sweep"}
  BY HeapFacts
<1>4. /\ bp \in DOMAIN n.blk /\ sc.start <= bp /\ NextBelow(R, bp, n.merge)
      /\ Next_in_mem(n, bp) \in Nat /\ bp < Next_in_mem(n, bp) /\ bp \in Nat
      /\ \A a \in DOMAIN lv : bp <= a => n.blk[a].col = "black"
      /\ Fragment(n)
  BY SweeperFacts DEF HeapInv
<1>5. Tiled(k, C)
  BY <1>1, <1>2, <1>3, TiledSame
<1>6. R = BlueOf(k) \ {bp}
  BY <1>1, <1>3 DEF BlueOf
<1>7. Words(k, R) = Words(n, R)
  <2>1. \A x \in R : Sz(n, x) \in Nat /\ Sz(k, x) = Sz(n, x)
    BY <1>2, <1>3
  <2>. HIDE DEF R
  <2>. QED BY <1>3, <2>1, WordsSame
<1>8. \A a \in DOMAIN lv : a # bp
  BY <1>4
<1>9. n.frag < Next_in_mem(n, bp)
  <2>1. CASE n.frag = Nil
    BY <1>4, <2>1 DEF Nil
  <2>2. CASE n.frag # Nil
    BY <1>3, <1>4, <2>2 DEF Fragment
  <2>. QED BY <2>1, <2>2
<1>10. n.frag = bp => bp - 1 \in DOMAIN n.blk /\ Sz(n, bp - 1) = 0
  <2>1. bp # Nil
    BY <1>3, <1>4, HeapFacts DEF Nil
  <2>. QED BY <1>4, <2>1 DEF Fragment
<1>11. Held(k, lv)
  BY <1>1, <1>2, <1>3 DEF Held
<1>12. \A c \in C : c.words <= MaxWosize =>
         \A a \in R : c.start <= a /\ a <= Limit(c) => Next_in_mem(k, a) \notin R
  BY <1>2, <1>3 DEF Apart
<1>13. Merging(k, C, sc, lv, bp)
  BY <1>1, <1>2, <1>3, <1>4, <1>5, <1>6, <1>7, <1>8, <1>9, <1>11, <1>12 DEF Merging
<1>. QED BY <1>1, <1>2, <1>10, <1>13

\* nf_merge_block on the white block at the sweeper.
LEMMA MergeKeeps ==
  ASSUME NEW n, NEW C, NEW sc, NEW lv, HeapInv(n, C, sc, lv),
         n.phase = "sweep", n.hp < Limit(sc), n.blk[n.hp].col = "white",
         n.prev \in Range(n.fl) \cup {Nil},
         NEW p, AtMerge(n, p), p.wsz = n.wsz
  PROVE  LET r == nf_merge_block(p, n.hp)
             k == [r.m EXCEPT !.hp = r.next]
         IN  /\ HeapInv(k, C, sc, lv) /\ k.prev \in Range(k.fl) \cup {Nil}
             /\ Before_merge(p, k)
<1>. DEFINE bp == n.hp
            q == [p EXCEPT !.wsz = @ + Sz(p, bp) + 1]
            f == WithFragment(q, bp)
            w == WithNext(f.m, f.bp)
            r == nf_merge_block(p, bp)
            k == [r.m EXCEPT !.hp = r.next]
            l == [IntoList(w, f.bp) EXCEPT !.hp = Next_in_mem(w, f.bp)]
<1>1. k = l
  BY DEF nf_merge_block
<1>2. /\ Allocator(p) /\ p.blk = n.blk /\ p.fl = n.fl /\ p.merge = n.merge /\ p.frag = n.frag
      /\ p.phase = n.phase /\ p.least = n.least /\ p.prev = n.prev
  BY DEF AtMerge
<1>3. Sz(p, bp) = Sz(n, bp)
  BY <1>2 DEF Sz
<1>4. Changed(p, q, "wsz", n.wsz + Sz(n, bp) + 1)
  <2>1. "wsz" \in Fields \ {"blk"}
    BY DEF Fields
  <2>. DEFINE v == n.wsz + Sz(n, bp) + 1
  <2>2. q = [p EXCEPT !["wsz"] = v]
    BY <1>3
  <2>. HIDE DEF q, v
  <2>3. Changed(p, q, "wsz", v)
    BY <1>2, <2>1, <2>2, FieldChanges
  <2>. QED BY <2>3 DEF v
<1>. HIDE DEF q
<1>5. /\ Allocator(q) /\ q.wsz = n.wsz + Sz(n, bp) + 1 /\ q.blk = p.blk /\ q.fl = p.fl
      /\ q.merge = p.merge /\ q.frag = p.frag /\ q.phase = p.phase /\ q.least = p.least
      /\ q.prev = p.prev /\ q.flp = p.flp /\ q.beyond = p.beyond /\ q.flpmax = p.flpmax
  BY <1>4 DEF Changed, Fields
<1>6. AtMerge(n, q)
  BY <1>2, <1>5 DEF AtMerge
<1>7. /\ Merging(q, C, sc, lv, bp)
      /\ q.frag = bp => bp - 1 \in DOMAIN q.blk /\ Sz(q, bp - 1) = 0
  BY <1>5, <1>6, StartsMerging
<1>8. Before_merge(p, q) /\ p.merge = q.merge
  BY <1>5 DEF Before_merge, Sz
<1>. HIDE DEF bp
<1>9. Merging(f.m, C, sc, lv, f.bp) /\ Before_merge(q, f.m) /\ f.m.merge = q.merge
  BY <1>7, FragmentKeeps
<1>. HIDE DEF f
<1>10. Merging(w, C, sc, lv, f.bp) /\ NextApart(w, C, f.bp) /\ Before_merge(f.m, w)
       /\ w.merge = f.m.merge
  BY <1>9, NextKeeps
<1>. HIDE DEF w
<1>11. HeapInv(l, C, sc, lv) /\ Before_merge(w, l) /\ l.prev \in Range(l.fl) \cup {Nil}
  BY <1>10, ListKeeps
<1>. HIDE DEF l, k
<1>12. Before_merge(p, l)
  <2>1. Range(q.fl) \subseteq Nat /\ q.merge \in Nat
    BY <1>7, MergingFacts
  <2>2. Before_merge(q, w)
    BY <1>9, <1>10, <2>1, Before_mergeComposes
  <2>3. Before_merge(q, l)
    BY <1>9, <1>10, <1>11, <2>1, <2>2, Before_mergeComposes
  <2>4. p.fl = q.fl /\ p.merge = q.merge
    BY <1>5
  <2>. QED BY <1>8, <2>1, <2>3, <2>4, Before_mergeComposes
<1>13. HeapInv(k, C, sc, lv) /\ k.prev \in Range(k.fl) \cup {Nil} /\ Before_merge(p, k)
  BY <1>1, <1>11, <1>12
<1>. QED BY <1>13 DEF k, r, bp

\* k has the list, the sizes and the blue blocks of n.
Moved(n, k) ==
  /\ Allocator(k) /\ DOMAIN k.blk = DOMAIN n.blk
  /\ \A a \in DOMAIN n.blk : /\ k.blk[a].sz = n.blk[a].sz
                             /\ k.blk[a].col = "blue" <=> n.blk[a].col = "blue"
  /\ k.fl = n.fl /\ k.wsz = n.wsz /\ k.least = n.least /\ k.phase \in {"idle", "sweep"}
  /\ k.hp \in Nat /\ k.frag \in Nat

\* A step that moves the sweeper, or forgets blocks of the program, and leaves
\* the list, the sizes and what is blue alone.
LEMMA HeapMoves ==
  ASSUME NEW n, NEW C, NEW sc, NEW lv, HeapInv(n, C, sc, lv), NEW k, Moved(n, k),
         NEW d \in C, NEW held, DOMAIN held \subseteq DOMAIN lv,
         \A a \in DOMAIN held : held[a] = lv[a],
         k.phase = "sweep" => Swept(k, d, held)
  PROVE  HeapInv(k, C, d, held)
<1>0. /\ Allocator(k) /\ DOMAIN k.blk = DOMAIN n.blk
      /\ \A a \in DOMAIN n.blk : /\ k.blk[a].sz = n.blk[a].sz
                                 /\ k.blk[a].col = "blue" <=> n.blk[a].col = "blue"
      /\ k.fl = n.fl /\ k.wsz = n.wsz /\ k.least = n.least /\ k.phase \in {"idle", "sweep"}
      /\ k.hp \in Nat /\ k.frag \in Nat
  BY DEF Moved
<1>1. \A a \in DOMAIN n.blk : Sz(k, a) = Sz(n, a) /\ Next_in_mem(k, a) = Next_in_mem(n, a)
  BY <1>0 DEF Sz, Next_in_mem
<1>2. BlueOf(k) = BlueOf(n)
  BY <1>0 DEF BlueOf
<1>3. /\ Tiled(n, C) /\ Rising(n.fl) /\ Range(n.fl) = BlueOf(n) /\ Range(n.fl) \subseteq DOMAIN n.blk
      /\ IsFiniteSet(Range(n.fl)) /\ n.wsz = Words(n, Range(n.fl))
      /\ \A a \in Range(n.fl) : Sz(n, a) > 0
      /\ \A a \in DOMAIN n.blk : Sz(n, a) \in Nat
      /\ Held(n, lv) /\ Apart(n, C) /\ n.least = Nil
  BY HeapFacts
<1>4. Tiled(k, C)
  BY <1>0, <1>1, <1>3, TiledSame
<1>5. Listed(k)
  <2>1. Words(n, Range(n.fl)) = Words(k, Range(n.fl))
    <3>1. \A x \in Range(n.fl) : Sz(n, x) \in Nat /\ Sz(k, x) = Sz(n, x)
      BY <1>1, <1>3
    <3>. QED BY <1>3, <3>1, WordsSame
  <2>2. \A a \in Range(n.fl) : Sz(k, a) > 0
    BY <1>1, <1>3
  <2>. QED BY <1>0, <1>2, <1>3, <2>1, <2>2 DEF Listed
<1>6. Held(k, held)
  BY <1>0, <1>1, <1>3 DEF Held
<1>7. Apart(k, C)
  <2>1. \A a \in BlueOf(n) : Next_in_mem(k, a) = Next_in_mem(n, a)
    BY <1>1 DEF BlueOf
  <2>. QED BY <1>2, <1>3, <2>1 DEF Apart
<1>. QED BY <1>0, <1>3, <1>4, <1>5, <1>6, <1>7 DEF HeapInv

\* The steps of the sweeper over a blue and a black block, and its start.
OverBlue(n, k) == k = [n EXCEPT !.merge = n.hp, !.hp = Next_in_mem(n, n.hp)]
OverBlack(n, k) == k = [InPlace(n, n.hp, "white") EXCEPT !.hp = Next_in_mem(n, n.hp)]
Starts(n, lv, c, k) ==
  k = [init_merge(
         [n EXCEPT !.blk = [a \in DOMAIN @ |-> IF a \in DOMAIN lv
            THEN [@[a] EXCEPT !.col = "black"] ELSE @[a]]])
       EXCEPT !.phase = "sweep", !.hp = c.start]

\* The sweeper passes a free block.
LEMMA BlueKeeps ==
  ASSUME NEW n, NEW C, NEW sc, NEW lv, HeapInv(n, C, sc, lv),
         n.phase = "sweep", n.hp < Limit(sc), n.blk[n.hp].col = "blue",
         NEW k, OverBlue(n, k)
  PROVE  /\ HeapInv(k, C, sc, lv) /\ \A f \in Fields \ {"merge", "hp"} : k[f] = n[f]
         /\ k.merge = n.hp
<1>. DEFINE e == Next_in_mem(n, n.hp)
<1>1. /\ Allocator(n) /\ sc \in C /\ Range(n.fl) = BlueOf(n) /\ n.hp \in Nat /\ n.frag \in Nat
  BY HeapFacts
<1>2. /\ n.hp \in DOMAIN n.blk /\ sc.start <= n.hp
      /\ e \in DOMAIN n.blk \cup {Limit(sc)} /\ e \in Nat /\ n.hp < e
      /\ sc.start <= e /\ e <= Limit(sc)
      /\ \A a \in DOMAIN n.blk : a < e => a <= n.hp
      /\ \A a \in DOMAIN lv : n.hp <= a => n.blk[a].col = "black"
      /\ Fragment(n)
  BY SweeperFacts
<1>. HIDE DEF e
<1>3. k = [n EXCEPT !.merge = n.hp, !.hp = e]
  BY DEF e, OverBlue
<1>4. /\ k = [f \in Fields |-> k[f]] /\ k.merge = n.hp /\ k.hp = e
      /\ \A f \in Fields \ {"merge", "hp"} : k[f] = n[f]
  BY <1>1, <1>3 DEF Allocator, Fields
<1>5. /\ k.blk = n.blk /\ k.fl = n.fl /\ k.wsz = n.wsz /\ k.least = n.least /\ k.frag = n.frag
      /\ k.phase = n.phase
  BY <1>4 DEF Fields
<1>6. Allocator(k)
  BY <1>1, <1>4, <1>5 DEF Allocator
<1>7. n.hp \in BlueOf(n)
  BY <1>2 DEF BlueOf
<1>8. NextBelow(Range(k.fl), k.hp, k.merge)
  <2>1. \A a \in Range(n.fl) : a < e => a <= n.hp
    BY <1>1, <1>2 DEF BlueOf
  <2>. QED BY <1>1, <1>2, <1>4, <1>5, <1>7, <2>1 DEF NextBelow
<1>9. Fragment(k)
  <2>1. n.frag <= n.hp \/ n.frag = Nil
    BY <1>2 DEF Fragment
  <2>2. k.frag # Nil => k.frag <= k.hp /\ k.frag # k.hp
    BY <1>1, <1>2, <1>4, <1>5, <2>1
  <2>. QED BY <2>2 DEF Fragment
<1>10. Swept(k, sc, lv)
  <2>1. \A a \in DOMAIN lv : e <= a => n.hp <= a
    <3>. SUFFICES ASSUME NEW a \in DOMAIN lv, e <= a PROVE n.hp <= a
      OBVIOUS
    <3>1. a \in Nat
      BY HeapFacts DEF Held
    <3>. QED BY <1>1, <1>2, <3>1
  <2>. QED BY <1>2, <1>4, <1>5, <1>8, <1>9, <2>1 DEF Swept
<1>11. HeapInv(k, C, sc, lv)
  <2>1. Moved(n, k)
    BY <1>1, <1>2, <1>4, <1>5, <1>6, HeapFacts DEF Moved
  <2>. QED BY <1>1, <1>10, <2>1, HeapMoves
<1>. QED BY <1>4, <1>11

\* The sweeper passes a block that is in use.
LEMMA BlackKeeps ==
  ASSUME NEW n, NEW C, NEW sc, NEW lv, HeapInv(n, C, sc, lv),
         n.phase = "sweep", n.hp < Limit(sc), n.blk[n.hp].col = "black",
         NEW k, OverBlack(n, k)
  PROVE  /\ HeapInv(k, C, sc, lv) /\ \A f \in Fields \ {"blk", "hp"} : k[f] = n[f]
         /\ \A a \in DOMAIN n.blk : Sz(k, a) = Sz(n, a)
<1>. DEFINE e == Next_in_mem(n, n.hp)
            q == InPlace(n, n.hp, "white")
<1>1. /\ Allocator(n) /\ sc \in C /\ Range(n.fl) = BlueOf(n) /\ n.hp \in Nat /\ n.frag \in Nat
      /\ n.merge \in Range(n.fl) \cup {Nil} /\ Range(n.fl) \in SUBSET (Nat \ {0})
      /\ n.phase \in {"idle", "sweep"}
  BY HeapFacts, SweeperFacts DEF NextBelow
<1>2. /\ n.hp \in DOMAIN n.blk /\ sc.start <= n.hp
      /\ e \in DOMAIN n.blk \cup {Limit(sc)} /\ e \in Nat /\ n.hp < e
      /\ sc.start <= e /\ e <= Limit(sc)
      /\ \A a \in DOMAIN n.blk : a < e => a <= n.hp
      /\ NextBelow(Range(n.fl), n.hp, n.merge)
      /\ \A a \in DOMAIN lv : n.hp <= a => n.blk[a].col = "black"
      /\ Fragment(n)
  BY SweeperFacts
<1>. HIDE DEF e
<1>3. k = [q EXCEPT !.hp = e]
  BY DEF e, OverBlack
<1>4. /\ q = [f \in Fields |-> q[f]] /\ \A f \in Fields \ {"blk"} : q[f] = n[f]
      /\ q.blk = [n.blk EXCEPT ![n.hp].col = "white"]
  BY <1>1 DEF Allocator, Fields, InPlace
<1>. HIDE DEF q
<1>5. /\ k = [f \in Fields |-> k[f]] /\ k.hp = e
      /\ \A f \in Fields \ {"hp"} : k[f] = q[f]
  BY <1>3, <1>4 DEF Fields
<1>6. /\ k.fl = n.fl /\ k.wsz = n.wsz /\ k.least = n.least /\ k.frag = n.frag
      /\ k.phase = n.phase /\ k.merge = n.merge /\ k.blk = q.blk
      /\ \A f \in Fields \ {"blk", "hp"} : k[f] = n[f]
  BY <1>4, <1>5 DEF Fields
<1>7. /\ k.blk = [a \in DOMAIN n.blk |-> k.blk[a]] /\ DOMAIN k.blk = DOMAIN n.blk
      /\ k.blk[n.hp] = [n.blk[n.hp] EXCEPT !.col = "white"]
      /\ \A a \in DOMAIN n.blk : a # n.hp => k.blk[a] = n.blk[a]
  <2>1. n.blk = [a \in DOMAIN n.blk |-> n.blk[a]]
    BY <1>1 DEF Allocator
  <2>2. k.blk = [n.blk EXCEPT ![n.hp] = [n.blk[n.hp] EXCEPT !.col = "white"]]
    BY <1>4, <1>6
  <2>. QED BY <1>2, <2>1, <2>2
<1>8. k.blk[n.hp] \in Header /\ k.blk[n.hp].col = "white" /\ k.blk[n.hp].sz = n.blk[n.hp].sz
  BY <1>1, <1>2, <1>7 DEF Allocator, Header, Colours
<1>9. Allocator(k)
  BY <1>1, <1>5, <1>7, <1>8 DEF Allocator
<1>10. \A a \in DOMAIN n.blk : /\ k.blk[a].sz = n.blk[a].sz
                               /\ k.blk[a].col = "blue" <=> n.blk[a].col = "blue"
  BY <1>2, <1>7, <1>8
<1>11. NextBelow(Range(k.fl), k.hp, k.merge)
  <2>1. \A a \in Range(n.fl) : a < e => a < n.hp
    <3>. SUFFICES ASSUME NEW a \in Range(n.fl), a < e PROVE a < n.hp
      OBVIOUS
    <3>1. a \in DOMAIN n.blk /\ a # n.hp /\ a \in Nat
      BY <1>1 DEF BlueOf
    <3>. QED BY <1>1, <1>2, <3>1
  <2>2. n.merge # Nil => n.merge < n.hp
    BY <1>1, <1>2, BelowFacts
  <2>3. n.merge < e
    BY <1>1, <1>2, <2>2 DEF Nil
  <2>4. NextBelow(Range(n.fl), e, n.merge)
    BY <1>2, <2>1, <2>3 DEF NextBelow
  <2>. QED BY <1>5, <1>6, <2>4
<1>12. Fragment(k)
  <2>1. n.frag <= n.hp \/ n.frag = Nil
    BY <1>2 DEF Fragment
  <2>2. k.frag # Nil => k.frag <= k.hp /\ k.frag # k.hp
    BY <1>1, <1>2, <1>5, <1>6, <2>1
  <2>. QED BY <2>2 DEF Fragment
<1>13. Swept(k, sc, lv)
  <2>1. \A a \in DOMAIN lv : e <= a => n.hp <= a /\ a # n.hp /\ a \in DOMAIN n.blk
    <3>. SUFFICES ASSUME NEW a \in DOMAIN lv, e <= a
                  PROVE  n.hp <= a /\ a # n.hp /\ a \in DOMAIN n.blk
      OBVIOUS
    <3>1. a \in Nat /\ a \in DOMAIN n.blk
      BY HeapFacts DEF Held
    <3>. QED BY <1>1, <1>2, <3>1
  <2>2. \A a \in DOMAIN lv : e <= a => k.blk[a].col = "black"
    BY <1>2, <1>7, <2>1
  <2>. QED BY <1>2, <1>5, <1>7, <1>11, <1>12, <2>2 DEF Swept
<1>14. HeapInv(k, C, sc, lv)
  <2>1. Moved(n, k)
    BY <1>1, <1>2, <1>5, <1>6, <1>7, <1>9, <1>10 DEF Moved
  <2>. QED BY <1>1, <1>13, <2>1, HeapMoves
<1>15. \A a \in DOMAIN n.blk : Sz(k, a) = Sz(n, a)
  BY <1>10 DEF Sz
<1>. QED BY <1>6, <1>14, <1>15

\* The sweeper goes to the next chunk by address.
LEMMA ChunkKeeps ==
  ASSUME NEW n, NEW C, NEW sc, NEW lv, HeapInv(n, C, sc, lv),
         n.phase = "sweep", n.hp = Limit(sc), NEW c \in C, c.start > sc.start,
         \A d \in C : d.start > sc.start => c.start <= d.start,
         NEW k, k = [n EXCEPT !.hp = c.start]
  PROVE  HeapInv(k, C, c, lv) /\ \A f \in Fields \ {"hp"} : k[f] = n[f]
<1>1. /\ Allocator(n) /\ Tiled(n, C) /\ sc \in C /\ Range(n.fl) = BlueOf(n)
      /\ n.hp \in Nat /\ n.frag \in Nat /\ DOMAIN n.blk \subseteq Nat \ {0}
      /\ Range(n.fl) \in SUBSET (Nat \ {0}) /\ Range(n.fl) \subseteq DOMAIN n.blk
      /\ \A a \in DOMAIN n.blk : Sz(n, a) \in Nat /\ Next_in_mem(n, a) = a + Sz(n, a) + 1
      /\ n.phase \in {"idle", "sweep"} /\ sc.start \in Nat
  BY HeapFacts
<1>2. /\ NextBelow(Range(n.fl), n.hp, n.merge)
      /\ \A a \in DOMAIN lv : n.hp <= a => n.blk[a].col = "black"
      /\ Fragment(n)
  BY DEF HeapInv, Swept
<1>3. C \subseteq Places /\ c.start \in DOMAIN n.blk
  BY <1>1 DEF Tiled
<1>4. c.start \in Nat /\ n.hp < c.start /\ c.start <= Limit(c)
  BY <1>1, <1>3, PlaceFacts
<1>5. Changed(n, k, "hp", c.start)
  <2>1. "hp" \in Fields \ {"blk"}
    BY DEF Fields
  <2>. QED BY <1>1, <2>1, FieldChanges
<1>6. /\ Allocator(k) /\ k.hp = c.start /\ k.blk = n.blk /\ k.fl = n.fl /\ k.wsz = n.wsz
      /\ k.least = n.least /\ k.frag = n.frag /\ k.phase = n.phase /\ k.merge = n.merge
      /\ \A f \in Fields \ {"hp"} : k[f] = n[f]
  BY <1>5 DEF Changed, Fields
<1>7. \A a \in Range(n.fl) : a < c.start => a < n.hp
  <2>. SUFFICES ASSUME NEW a \in Range(n.fl), a < c.start PROVE a < n.hp
    OBVIOUS
  <2>1. a \in DOMAIN n.blk /\ a \in Nat /\ Sz(n, a) \in Nat /\ Next_in_mem(n, a) = a + Sz(n, a) + 1
    BY <1>1
  <2>2. PICK d \in C : Inside(n, a, d)
    BY <1>1, <2>1 DEF Tiled
  <2>3. d.start \in Nat /\ Limit(d) \in Nat /\ d.start <= a /\ a < Limit(d)
    BY <1>3, <2>1, <2>2, PlaceFacts DEF Inside
  <2>4. ~(d.start > sc.start)
    BY <1>4, <2>1, <2>3
  <2>5. CASE d = sc
    BY <2>3, <2>5
  <2>6. CASE d # sc
    <3>1. Limit(d) < sc.start \/ Limit(sc) < d.start
      BY <1>1, <1>3, <2>6, PlaceFacts
    <3>2. sc.start <= Limit(sc)
      BY <1>1, <1>3, PlaceFacts
    <3>. QED BY <1>1, <2>1, <2>3, <2>4, <3>1, <3>2
  <2>. QED BY <2>5, <2>6
<1>8. NextBelow(Range(k.fl), k.hp, k.merge)
  <2>1. n.merge \in Nat /\ (n.merge # Nil => n.merge < n.hp)
    BY <1>1, <1>2, BelowFacts
  <2>2. n.merge # Nil => n.merge < c.start
    BY <1>1, <1>4, <2>1
  <2>3. n.merge = Nil => \A a \in Range(n.fl) : ~(a < n.hp)
    BY <1>1, <1>2, BelowFacts
  <2>4. n.merge # Nil => n.merge \in Range(n.fl) /\ \A a \in Range(n.fl) : a < n.hp => a <= n.merge
    BY <1>1, <1>2, BelowFacts
  <2>5. NextBelow(Range(n.fl), c.start, n.merge)
    BY <1>7, <2>2, <2>3, <2>4 DEF NextBelow
  <2>. QED BY <1>6, <2>5
<1>9. Fragment(k)
  <2>1. n.frag <= n.hp \/ n.frag = Nil
    BY <1>2 DEF Fragment
  <2>2. k.frag # Nil => k.frag <= k.hp /\ k.frag # k.hp
    BY <1>1, <1>4, <1>6, <2>1
  <2>. QED BY <2>2 DEF Fragment
<1>10. Swept(k, c, lv)
  <2>1. \A a \in DOMAIN lv : c.start <= a => n.hp <= a
    <3>. SUFFICES ASSUME NEW a \in DOMAIN lv, c.start <= a PROVE n.hp <= a
      OBVIOUS
    <3>1. a \in Nat
      BY HeapFacts DEF Held
    <3>. QED BY <1>1, <1>4, <3>1
  <2>. QED BY <1>2, <1>3, <1>4, <1>6, <1>8, <1>9, <2>1 DEF Swept
<1>11. HeapInv(k, C, c, lv)
  <2>1. Moved(n, k)
    BY <1>1, <1>4, <1>6 DEF Moved
  <2>. QED BY <1>10, <2>1, HeapMoves
<1>. QED BY <1>6, <1>11

\* The sweeper has been through every chunk.
LEMMA EndKeeps ==
  ASSUME NEW n, NEW C, NEW sc, NEW lv, HeapInv(n, C, sc, lv),
         NEW k, k = [n EXCEPT !.phase = "idle"]
  PROVE  HeapInv(k, C, sc, lv) /\ \A f \in Fields \ {"phase"} : k[f] = n[f]
<1>1. Allocator(n) /\ sc \in C /\ n.hp \in Nat /\ n.frag \in Nat
  BY HeapFacts
<1>2. Changed(n, k, "phase", "idle")
  <2>1. "phase" \in Fields \ {"blk"}
    BY DEF Fields
  <2>. QED BY <1>1, <2>1, FieldChanges
<1>3. /\ Allocator(k) /\ k.hp = n.hp /\ k.blk = n.blk /\ k.fl = n.fl /\ k.wsz = n.wsz
      /\ k.least = n.least /\ k.frag = n.frag /\ k.phase = "idle"
      /\ \A f \in Fields \ {"phase"} : k[f] = n[f]
  BY <1>2 DEF Changed, Fields
<1>4. HeapInv(k, C, sc, lv)
  <2>1. Moved(n, k)
    BY <1>1, <1>3 DEF Moved
  <2>. QED BY <1>1, <1>3, <2>1, HeapMoves
<1>. QED BY <1>3, <1>4

\* The program lets go of a block.
LEMMA DropKeeps ==
  ASSUME NEW n, NEW C, NEW sc, NEW lv, HeapInv(n, C, sc, lv), NEW a \in DOMAIN lv
  PROVE  HeapInv(n, C, sc, Without(lv, a))
<1>. DEFINE w == Without(lv, a)
<1>1. DOMAIN w \subseteq DOMAIN lv /\ \A x \in DOMAIN w : w[x] = lv[x]
  BY DEF Without
<1>2. /\ Allocator(n) /\ sc \in C /\ n.hp \in Nat /\ n.frag \in Nat
      /\ n.phase \in {"idle", "sweep"}
  BY HeapFacts
<1>. HIDE DEF w
<1>3. n.phase = "sweep" => Swept(n, sc, w)
  BY <1>1 DEF HeapInv, Swept
<1>4. HeapInv(n, C, sc, w)
  <2>1. Moved(n, n)
    BY <1>2 DEF Moved
  <2>. QED BY <1>1, <1>2, <1>3, <2>1, HeapMoves
<1>. QED BY <1>4 DEF w

\* The end of marking, and the sweeper at the lowest chunk.
LEMMA StartKeeps ==
  ASSUME NEW n, NEW C, NEW sc, NEW lv, HeapInv(n, C, sc, lv),
         NEW c \in C, \A d \in C : c.start <= d.start,
         NEW k, Starts(n, lv, c, k)
  PROVE  /\ HeapInv(k, C, c, lv)
         /\ \A f \in Fields \ {"blk", "phase", "hp", "frag", "merge"} : k[f] = n[f]
         /\ \A a \in DOMAIN n.blk : Sz(k, a) = Sz(n, a)
<1>. DEFINE b == [a \in DOMAIN n.blk |-> IF a \in DOMAIN lv
                    THEN [n.blk[a] EXCEPT !.col = "black"] ELSE n.blk[a]]
<1>1. /\ Allocator(n) /\ Tiled(n, C) /\ sc \in C /\ Range(n.fl) = BlueOf(n)
      /\ Range(n.fl) \subseteq DOMAIN n.blk /\ DOMAIN n.blk \subseteq Nat \ {0}
      /\ \A a \in DOMAIN n.blk : Sz(n, a) \in Nat /\ Next_in_mem(n, a) = a + Sz(n, a) + 1
      /\ Held(n, lv)
  BY HeapFacts
<1>2. C \subseteq Places /\ c.start \in DOMAIN n.blk
  BY <1>1 DEF Tiled
<1>3. c.start \in Nat /\ c.start <= Limit(c)
  BY <1>2, PlaceFacts
<1>4. /\ k = [f \in Fields |-> k[f]] /\ k.blk = b /\ k.phase = "sweep" /\ k.hp = c.start
      /\ k.frag = Nil /\ k.merge = Nil
      /\ \A f \in Fields \ {"blk", "phase", "hp", "frag", "merge"} : k[f] = n[f]
  <2>. DEFINE q == [n EXCEPT !.blk = b]
  <2>1. k = [q EXCEPT !.frag = Nil, !.merge = Nil, !.phase = "sweep", !.hp = c.start]
    BY DEF init_merge, Starts
  <2>. HIDE DEF b
  <2>2. /\ q = [f \in Fields |-> q[f]] /\ q.blk = b
        /\ \A f \in Fields \ {"blk"} : q[f] = n[f]
    BY <1>1 DEF Allocator, Fields
  <2>. HIDE DEF q
  <2>. QED BY <2>1, <2>2 DEF Fields
<1>5. k.fl = n.fl /\ k.wsz = n.wsz /\ k.least = n.least
  BY <1>4 DEF Fields
<1>6. \A a \in DOMAIN n.blk : /\ b[a] \in Header /\ b[a].sz = n.blk[a].sz
                              /\ b[a].col = "blue" <=> n.blk[a].col = "blue"
                              /\ a \in DOMAIN lv => b[a].col = "black"
  <2>. SUFFICES ASSUME NEW a \in DOMAIN n.blk
                PROVE  /\ b[a] \in Header /\ b[a].sz = n.blk[a].sz
                       /\ b[a].col = "blue" <=> n.blk[a].col = "blue"
                       /\ a \in DOMAIN lv => b[a].col = "black"
    OBVIOUS
  <2>1. n.blk[a] \in Header /\ (a \in DOMAIN lv => n.blk[a].col # "blue")
    BY <1>1 DEF Allocator, Held
  <2>. QED BY <2>1 DEF Header, Colours
<1>7. DOMAIN b = DOMAIN n.blk /\ b = [a \in DOMAIN b |-> b[a]]
  OBVIOUS
<1>. HIDE DEF b
<1>8. Allocator(k)
  <2>1. k.blk = [a \in DOMAIN k.blk |-> k.blk[a]] /\ \A a \in DOMAIN k.blk : k.blk[a] \in Header
    <3>1. \A a \in DOMAIN b : b[a] \in Header
      BY <1>6, <1>7
    <3>2. k.blk = b
      BY <1>4
    <3>. HIDE DEF b
    <3>. QED BY <1>7, <3>1, <3>2
  <2>. QED BY <1>4, <2>1 DEF Allocator
<1>9. \A a \in Range(n.fl) : ~(a < c.start)
  <2>. SUFFICES ASSUME NEW a \in Range(n.fl) PROVE ~(a < c.start)
    OBVIOUS
  <2>1. a \in DOMAIN n.blk /\ a \in Nat
    BY <1>1
  <2>2. PICK d \in C : Inside(n, a, d)
    BY <1>1, <2>1 DEF Tiled
  <2>3. d.start \in Nat /\ d.start <= a /\ c.start <= d.start
    BY <1>2, <2>2, PlaceFacts DEF Inside
  <2>. QED BY <1>3, <2>1, <2>3
<1>10. Swept(k, c, lv)
  <2>1. NextBelow(Range(k.fl), k.hp, k.merge)
    BY <1>4, <1>5, <1>9 DEF NextBelow
  <2>2. Fragment(k)
    BY <1>4 DEF Fragment
  <2>3. \A a \in DOMAIN lv : k.blk[a].col = "black"
    BY <1>1, <1>4, <1>6 DEF Held
  <2>. QED BY <1>2, <1>3, <1>4, <1>7, <2>1, <2>2, <2>3 DEF Swept
<1>11. HeapInv(k, C, c, lv)
  <2>1. k.hp \in Nat /\ k.frag \in Nat
    <3>1. k.frag = 0 /\ k.hp = c.start
      BY <1>4 DEF Nil
    <3>. QED BY <1>3, <3>1
  <2>2. \A a \in DOMAIN n.blk : /\ k.blk[a].sz = n.blk[a].sz
                                /\ k.blk[a].col = "blue" <=> n.blk[a].col = "blue"
    BY <1>4, <1>6
  <2>3. DOMAIN k.blk = DOMAIN n.blk
    BY <1>4, <1>7
  <2>4. Moved(n, k)
    BY <1>4, <1>5, <1>8, <2>1, <2>2, <2>3 DEF Moved
  <2>. QED BY <1>10, <2>4, HeapMoves
<1>12. \A a \in DOMAIN n.blk : Sz(k, a) = Sz(n, a)
  BY <1>4, <1>6 DEF Sz
<1>. QED BY <1>4, <1>11, <1>12

-----------------------------------------------------------------------------
(* The search of next fit                                                   *)

\* k has the fields of n, but for the headers, the list and what they count.
Cut(n, k) ==
  Allocator(k) /\ \A f \in Fields \ {"blk", "fl", "wsz", "merge"} : k[f] = n[f]

\* allocate_block on a free block that is large enough.
LEMMA CutFacts ==
  ASSUME NEW n, NEW C, NEW sc, NEW lv, HeapInv(n, C, sc, lv), NEW wo \in Requests,
         NEW prev, NEW cur \in Range(n.fl), wo <= Sz(n, cur)
  PROVE  LET b == allocate_block(n, wo, prev, cur)
         IN  b = [m |-> b.m, hp |-> Piece(n, wo, cur)] /\ Cut(n, b.m)
<1>. DEFINE b == allocate_block(n, wo, prev, cur)
            u == Unlink(n, cur)
            p == Hd(u, cur, 0, "white")
            q == Hd(n, cur, Sz(n, cur) - wo - 1, "blue")
            Rest == Fields \ {"blk", "fl", "wsz", "merge"}
<1>1. /\ Allocator(n) /\ Rising(n.fl) /\ Sz(n, cur) \in Nat /\ Sz(n, cur) <= MaxWosize
      /\ MaxWosize \in Nat /\ wo \in Nat
  BY HeapFacts, FreeListAssumption
<1>2. b = [m |-> b.m, hp |-> Piece(n, wo, cur)]
  BY DEF allocate_block, Piece
<1>3. CASE Sz(n, cur) <= wo + 1
  <2>1. Allocator(u) /\ \A f \in Fields \ {"fl"} : u[f] = n[f]
    BY <1>1, UnlinkFacts
  <2>2. 0 \in 0 .. MaxWosize /\ "white" \in Colours
    BY <1>1 DEF Colours
  <2>3. b.m = [p EXCEPT !.wsz = @ - (Sz(n, cur) + 1), !.merge = IF @ = cur THEN prev ELSE @]
    BY <1>3 DEF allocate_block
  <2>. HIDE DEF u
  <2>4. Rewritten(u, p, cur, 0, "white")
    BY <2>1, <2>2, HdRewrites
  <2>. HIDE DEF p, b
  <2>5. Allocator(p) /\ \A f \in Rest : p[f] = n[f]
    BY <2>1, <2>4 DEF Rewritten
  <2>6. /\ b.m = [f \in Fields |-> b.m[f]] /\ b.m.blk = p.blk
        /\ \A f \in Rest : b.m[f] = p[f]
    <3>1. p = [f \in Fields |-> p[f]]
      BY <2>5 DEF Allocator
    <3>. QED BY <2>3, <3>1 DEF Fields
  <2>7. Allocator(b.m)
    BY <2>5, <2>6 DEF Allocator
  <2>8. Cut(n, b.m)
    BY <2>5, <2>6, <2>7 DEF Cut
  <2>. QED BY <1>2, <2>8 DEF b
<1>4. CASE ~(Sz(n, cur) <= wo + 1)
  <2>1. Sz(n, cur) - wo - 1 \in 0 .. MaxWosize /\ "blue" \in Colours
    BY <1>1, <1>4 DEF Colours
  <2>2. Rewritten(n, q, cur, Sz(n, cur) - wo - 1, "blue")
    BY <1>1, <2>1, HdRewrites
  <2>3. b.m = [q EXCEPT !.wsz = @ - (wo + 1)]
    BY <1>4 DEF allocate_block
  <2>. HIDE DEF q, b
  <2>4. Allocator(q) /\ \A f \in Rest : q[f] = n[f]
    BY <2>2 DEF Rewritten
  <2>5. /\ b.m = [f \in Fields |-> b.m[f]] /\ b.m.blk = q.blk
        /\ \A f \in Rest : b.m[f] = q[f]
    <3>1. q = [f \in Fields |-> q[f]]
      BY <2>4 DEF Allocator
    <3>. QED BY <2>3, <3>1 DEF Fields
  <2>6. Allocator(b.m)
    BY <2>4, <2>5 DEF Allocator
  <2>7. Cut(n, b.m)
    BY <2>4, <2>5, <2>6 DEF Cut
  <2>. QED BY <1>2, <2>7 DEF b
<1>. QED BY <1>3, <1>4

\* The answer of a search: a block of the list that fits, or nothing.
Searched(n, r, wo) ==
  \/ \E cur \in Range(n.fl), prev \in Range(n.fl) \cup {Nil} :
       Found(n, r, wo, prev, cur) /\ r.m.prev \in (Range(n.fl) \ {cur}) \cup {Nil}
  \/ /\ r.hp = Nil /\ Allocator(r.m) /\ r.m.prev = n.prev
     /\ \A f \in HeapFields : r.m[f] = n[f]

\* The block before the i-th of the list.
LEMMA AtFacts ==
  ASSUME NEW n, Rising(n.fl), NEW i \in 1 .. Len(n.fl)
  PROVE  /\ n.fl[i] \in Range(n.fl) /\ NextBelow(Range(n.fl), n.fl[i], At(n, i - 1))
         /\ At(n, i - 1) \in (Range(n.fl) \ {n.fl[i]}) \cup {Nil}
<1>. DEFINE l == n.fl
            x == At(n, i - 1)
            G == NextBelow(Range(l), l[i], x) /\ x \in (Range(l) \ {l[i]}) \cup {Nil}
<1>1. /\ Len(l) \in Nat
      /\ \A j \in 1 .. Len(l) : l[j] \in Range(l) /\ l[j] \in Nat \ {0}
      /\ \A a \in Range(l) : \E j \in 1 .. Len(l) : l[j] = a
      /\ \A j, h \in 1 .. Len(l) : l[j] < l[h] <=> j < h
      /\ \A j, h \in 1 .. Len(l) : l[j] = l[h] => j = h
  BY RisingRange
<1>2. (i = 1 => x = Nil) /\ (i # 1 => x = l[i - 1] /\ i - 1 \in 1 .. Len(l))
  BY <1>1 DEF At
<1>3. i \in 1 .. Len(l)
  OBVIOUS
<1>. HIDE DEF l, x
<1>4. ASSUME i = 1 PROVE G
  <2>1. \A a \in Range(l) : ~(a < l[i])
    <3>. SUFFICES ASSUME NEW a \in Range(l), a < l[i] PROVE FALSE
      OBVIOUS
    <3>1. PICK j \in 1 .. Len(l) : l[j] = a
      BY <1>1
    <3>2. l[j] < l[i]
      BY <3>1
    <3>3. j < i
      BY <1>1, <1>3, <3>2
    <3>. QED BY <1>1, <1>4, <3>3
  <2>. QED BY <1>2, <1>4, <2>1 DEF NextBelow
<1>5. ASSUME i # 1 PROVE G
  <2>1. x = l[i - 1] /\ i - 1 \in 1 .. Len(l) /\ i - 1 < i
    BY <1>1, <1>2, <1>3, <1>5
  <2>2. l[i - 1] < l[i] /\ l[i - 1] \in Range(l) /\ l[i - 1] \in Nat /\ l[i - 1] # l[i]
    BY <1>1, <1>3, <2>1
  <2>3. \A a \in Range(l) : a < l[i] => a <= l[i - 1]
    <3>. SUFFICES ASSUME NEW a \in Range(l), a < l[i] PROVE a <= l[i - 1]
      OBVIOUS
    <3>1. PICK j \in 1 .. Len(l) : l[j] = a
      BY <1>1
    <3>2. l[j] < l[i]
      BY <3>1
    <3>3. j < i
      BY <1>1, <1>3, <3>2
    <3>4. ~(i - 1 < j)
      BY <1>1, <1>3, <3>3
    <3>5. ~(l[i - 1] < l[j])
      BY <1>1, <2>1, <3>4
    <3>6. l[i - 1] \in Nat /\ l[j] \in Nat
      BY <1>1, <2>1
    <3>. QED BY <3>1, <3>5, <3>6
  <2>. QED BY <2>1, <2>2, <2>3 DEF NextBelow
<1>6. G /\ l[i] \in Range(l)
  <2>. HIDE DEF G
  <2>. QED BY <1>1, <1>3, <1>4, <1>5
<1>. QED BY <1>6 DEF l, x

\* NotFound changes nothing of the heap.
LEMMA NotFoundFacts ==
  ASSUME NEW n, Allocator(n)
  PROVE  LET r == NotFound(n)
         IN  /\ r.hp = Nil /\ Allocator(r.m) /\ r.m.last = LastFree(n)
             /\ \A f \in Fields \ {"last"} : r.m[f] = n[f]
<1>. DEFINE r == NotFound(n)
            v == LastFree(n)
<1>1. r.hp = Nil /\ r.m = [n EXCEPT !["last"] = v]
  BY DEF NotFound
<1>2. "last" \in Fields \ {"blk"}
  BY DEF Fields
<1>. HIDE DEF r, v
<1>3. Changed(n, r.m, "last", v)
  BY <1>1, <1>2, FieldChanges
<1>4. /\ r.hp = Nil /\ Allocator(r.m) /\ r.m.last = v
      /\ \A f \in Fields \ {"last"} : r.m[f] = n[f]
  BY <1>1, <1>3 DEF Changed
<1>. QED BY <1>4 DEF r, v

\* nf_allocate answers nothing only when no block of the list fits.
LEMMA NextSearches ==
  ASSUME NEW n, NEW C, NEW sc, NEW lv, HeapInv(n, C, sc, lv), NEW wo \in Requests,
         n.prev \in Range(n.fl) \cup {Nil}
  PROVE  LET r == nf_allocate(n, wo)
         IN  /\ Searched(n, r, wo)
             /\ r.hp = Nil => \A a \in Range(n.fl) : ~(wo <= Sz(n, a))
             /\ \A f \in {"flp", "beyond", "flpmax"} : r.m[f] = n[f]
<1>. DEFINE r == nf_allocate(n, wo)
            p == Pos(n, n.prev)
            late == Fits(n, wo, p + 1 .. Len(n.fl))
            early == Fits(n, wo, 1 .. p)
            b(i) == allocate_block(n, wo, At(n, i - 1), n.fl[i])
            found(i) == [b(i) EXCEPT !.m.prev = At(n, i - 1)]
            ok == /\ Searched(n, r, wo)
                  /\ r.hp = Nil => \A a \in Range(n.fl) : ~(wo <= Sz(n, a))
                  /\ \A f \in {"flp", "beyond", "flpmax"} : r.m[f] = n[f]
<1>1. /\ Allocator(n) /\ Rising(n.fl) /\ Len(n.fl) \in Nat
      /\ Range(n.fl) \in SUBSET (Nat \ {0})
      /\ \A i \in 1 .. Len(n.fl) : n.fl[i] \in Range(n.fl)
      /\ \A a \in Range(n.fl) : \E i \in 1 .. Len(n.fl) : n.fl[i] = a
      /\ \A a \in Range(n.fl) : Sz(n, a) \in Nat
      /\ wo \in Nat \ {0} /\ wo <= MaxWosize
  <2>1. wo \in 1 .. MaxWosize /\ MaxWosize \in Nat
    BY FreeListAssumption
  <2>2. /\ Allocator(n) /\ Rising(n.fl) /\ Range(n.fl) \in SUBSET (Nat \ {0})
        /\ Range(n.fl) \subseteq DOMAIN n.blk /\ \A a \in DOMAIN n.blk : Sz(n, a) \in Nat
    BY HeapFacts
  <2>3. /\ Len(n.fl) \in Nat
        /\ \A i \in 1 .. Len(n.fl) : n.fl[i] \in Range(n.fl)
        /\ \A a \in Range(n.fl) : \E i \in 1 .. Len(n.fl) : n.fl[i] = a
    BY <2>2, RisingRange
  <2>4. \A a \in Range(n.fl) : Sz(n, a) \in Nat
    BY <2>2
  <2>5. wo \in Nat \ {0} /\ wo <= MaxWosize
    BY <2>1
  <2>. QED BY <2>2, <2>3, <2>4, <2>5
<1>2. p \in 0 .. Len(n.fl)
  BY <1>1, NextSmallFacts
<1>3. ASSUME NEW i \in 1 .. Len(n.fl), Sz(n, n.fl[i]) >= wo, r = found(i) PROVE ok
  <2>. DEFINE cur == n.fl[i]
              prev == At(n, i - 1)
  <2>1. /\ cur \in Range(n.fl) /\ NextBelow(Range(n.fl), cur, prev)
        /\ prev \in (Range(n.fl) \ {cur}) \cup {Nil}
    BY <1>1, AtFacts
  <2>2. wo <= Sz(n, cur)
    BY <1>1, <1>3, <2>1
  <2>3. r = [allocate_block(n, wo, prev, cur) EXCEPT !.m.prev = prev]
    BY <1>3
  <2>. HIDE DEF cur, prev, r, ok
  <2>. DEFINE d == allocate_block(n, wo, prev, cur)
  <2>4. d = [m |-> d.m, hp |-> Piece(n, wo, cur)] /\ Cut(n, d.m)
    BY <2>1, <2>2, CutFacts
  <2>5. r = [d EXCEPT !.m.prev = prev]
    BY <2>3
  <2>6. Found(n, r, wo, prev, cur) <=>
          /\ cur \in Range(n.fl) /\ wo <= Sz(n, cur) /\ NextBelow(Range(n.fl), cur, prev)
          /\ r.hp = Piece(n, wo, cur) /\ Allocator(r.m)
          /\ \A f \in HeapFields : r.m[f] = d.m[f]
    BY DEF Found
  <2>. HIDE DEF d
  <2>7. r.m = [d.m EXCEPT !["prev"] = prev] /\ r.hp = Piece(n, wo, cur)
    BY <2>4, <2>5
  <2>8. Changed(d.m, r.m, "prev", prev)
    <3>1. "prev" \in Fields \ {"blk"}
      BY DEF Fields
    <3>. QED BY <2>4, <2>7, <3>1, FieldChanges DEF Cut
  <2>9. /\ Allocator(r.m) /\ \A f \in HeapFields : r.m[f] = d.m[f]
    BY <2>8 DEF Changed, HeapFields
  <2>10. r.m.prev = prev /\ \A f \in {"flp", "beyond", "flpmax"} : r.m[f] = n[f]
    <3>1. \A f \in {"flp", "beyond", "flpmax"} :
            f \in Fields \ {"prev"} /\ f \in Fields \ {"blk", "fl", "wsz", "merge"}
      BY DEF Fields
    <3>. QED BY <2>4, <2>8, <3>1 DEF Changed, Cut
  <2>11. Searched(n, r, wo)
    BY <2>1, <2>2, <2>6, <2>7, <2>9, <2>10 DEF Searched
  <2>12. r.hp # Nil
    <3>1. cur \in Nat \ {0} /\ Sz(n, cur) \in Nat
      BY <1>1, <2>1
    <3>. QED BY <1>1, <2>2, <2>7, <3>1 DEF Piece, Nil
  <2>. QED BY <2>10, <2>11, <2>12 DEF ok
<1>4. ASSUME late # {} PROVE ok
  <2>1. late \in SUBSET Nat
    BY <1>1, <1>2 DEF Fits
  <2>2. Min(late) \in late
    <3>. HIDE DEF late
    <3>. QED BY <1>4, <2>1, MinOf
  <2>3. Min(late) \in 1 .. Len(n.fl) /\ Sz(n, n.fl[Min(late)]) >= wo
    BY <1>1, <1>2, <2>2 DEF Fits
  <2>4. r = found(Min(late))
    BY <1>4 DEF nf_allocate
  <2>. HIDE DEF r, found, ok, late
  <2>. QED BY <1>3, <2>3, <2>4
<1>5. ASSUME late = {}, early # {} PROVE ok
  <2>1. early \in SUBSET Nat
    BY <1>1, <1>2 DEF Fits
  <2>2. Min(early) \in early
    <3>. HIDE DEF early
    <3>. QED BY <1>5, <2>1, MinOf
  <2>3. Min(early) \in 1 .. Len(n.fl) /\ Sz(n, n.fl[Min(early)]) >= wo
    BY <1>1, <1>2, <2>2 DEF Fits
  <2>4. r = found(Min(early))
    BY <1>5 DEF nf_allocate
  <2>. HIDE DEF r, found, ok, early
  <2>. QED BY <1>3, <2>3, <2>4
<1>6. ASSUME late = {}, early = {} PROVE ok
  <2>1. r = NotFound(n)
    BY <1>6 DEF nf_allocate
  <2>. HIDE DEF r
  <2>2. /\ r.hp = Nil /\ Allocator(r.m) /\ \A f \in Fields \ {"last"} : r.m[f] = n[f]
    BY <1>1, <2>1, NotFoundFacts
  <2>3. /\ \A f \in HeapFields : r.m[f] = n[f]
        /\ \A f \in {"prev", "flp", "beyond", "flpmax"} : r.m[f] = n[f]
    BY <2>2 DEF HeapFields, Fields
  <2>4. \A a \in Range(n.fl) : ~(wo <= Sz(n, a))
    <3>. SUFFICES ASSUME NEW a \in Range(n.fl), wo <= Sz(n, a) PROVE FALSE
      OBVIOUS
    <3>1. PICK i \in 1 .. Len(n.fl) : n.fl[i] = a
      BY <1>1
    <3>2. Sz(n, n.fl[i]) >= wo /\ (i \in 1 .. p \/ i \in p + 1 .. Len(n.fl))
      BY <1>1, <1>2, <3>1
    <3>. QED BY <1>6, <3>2 DEF Fits
  <2>. QED BY <2>2, <2>3, <2>4 DEF Searched
<1>7. ok
  <2>. HIDE DEF r, found, b, ok, late, early
  <2>. QED BY <1>4, <1>5, <1>6
<1>. QED BY <1>7

-----------------------------------------------------------------------------
(* The steps of allocation                                                  *)

\* A block that was found is given.
LEMMA GiveKeeps ==
  ASSUME NEW n, NEW C, NEW sc, NEW lv, HeapInv(n, C, sc, lv), NEW wo \in Requests,
         NEW r, Searched(n, r, wo), r.hp # Nil
  PROVE  LET k == Given(r, wo)
         IN  /\ HeapInv(k, C, sc, Put(lv, r.hp, wo)) /\ k.prev \in Range(k.fl) \cup {Nil}
             /\ k.fl = r.m.fl /\ k.prev = r.m.prev /\ k.flp = r.m.flp
             /\ k.beyond = r.m.beyond /\ k.flpmax = r.m.flpmax
<1>. DEFINE k == Given(r, wo)
<1>1. PICK cur \in Range(n.fl), prev \in Range(n.fl) \cup {Nil} :
        Found(n, r, wo, prev, cur) /\ r.m.prev \in (Range(n.fl) \ {cur}) \cup {Nil}
  BY DEF Searched
<1>2. /\ HeapInv(k, C, sc, Put(lv, r.hp, wo))
      /\ Range(k.fl) = IF Sz(n, cur) <= wo + 1 THEN Range(n.fl) \ {cur} ELSE Range(n.fl)
      /\ k.fl = r.m.fl /\ k.prev = r.m.prev /\ k.flp = r.m.flp
      /\ k.beyond = r.m.beyond /\ k.flpmax = r.m.flpmax
  <2>1. Found(n, r, wo, prev, cur) /\ HeapInv(n, C, sc, lv) /\ wo \in Requests
    BY <1>1
  <2>2. Taken(n, C, sc, lv, r, wo, cur, k)
    BY <2>1, FoundKeeps
  <2>. QED BY <2>2 DEF Taken
<1>. HIDE DEF k
<1>3. k.prev \in Range(k.fl) \cup {Nil}
  BY <1>1, <1>2
<1>. QED BY <1>2, <1>3 DEF k

\* A request that is refused leaves the heap alone.
LEMMA RefusedKeeps ==
  ASSUME NEW n, NEW C, NEW sc, NEW lv, HeapInv(n, C, sc, lv), NEW wo \in Requests,
         NEW r, Searched(n, r, wo), r.hp = Nil
  PROVE  /\ HeapInv(r.m, C, sc, lv) /\ r.m.fl = n.fl /\ r.m.prev = n.prev
         /\ \A a : Sz(r.m, a) = Sz(n, a)
         /\ LET k == [r.m EXCEPT !.last = Nil]
            IN  /\ HeapInv(k, C, sc, lv)
                /\ \A f \in Fields \ {"last"} : k[f] = r.m[f]
<1>1. /\ Allocator(r.m) /\ r.m.prev = n.prev /\ \A f \in HeapFields : r.m[f] = n[f]
  <2>1. ASSUME NEW cur \in Range(n.fl), NEW prev, Found(n, r, wo, prev, cur) PROVE FALSE
    <3>1. r.hp = cur + Sz(n, cur) - wo /\ wo <= Sz(n, cur)
      BY <2>1 DEF Found, Piece
    <3>2. cur \in Nat \ {0} /\ Sz(n, cur) \in Nat
      BY HeapFacts
    <3>3. wo \in 1 .. MaxWosize /\ MaxWosize \in Nat
      BY FreeListAssumption
    <3>. QED BY <3>1, <3>2, <3>3 DEF Nil
  <2>. QED BY <2>1 DEF Searched
<1>2. HeapInv(r.m, C, sc, lv)
  BY <1>1, HeapKeeps
<1>3. r.m.fl = n.fl /\ r.m.blk = n.blk
  BY <1>1 DEF HeapFields, Fields
<1>. DEFINE p == r.m
            k == [p EXCEPT !.last = Nil]
<1>4. Changed(p, k, "last", Nil)
  <2>1. "last" \in Fields \ {"blk"}
    BY DEF Fields
  <2>. HIDE DEF p
  <2>2. k = [p EXCEPT !["last"] = Nil]
    OBVIOUS
  <2>. QED BY <1>1, <2>1, <2>2, FieldChanges DEF p
<1>5. /\ Allocator(k) /\ \A f \in Fields \ {"last"} : k[f] = r.m[f]
  BY <1>4 DEF Changed
<1>. HIDE DEF k
<1>6. \A f \in HeapFields : k[f] = p[f]
  BY <1>5 DEF HeapFields
<1>7. HeapInv(k, C, sc, lv)
  BY <1>2, <1>5, <1>6, HeapKeeps
<1>. QED BY <1>1, <1>2, <1>3, <1>5, <1>7 DEF Sz, k

\* nf_add_blocks leaves the pointers of the policy alone.
LEMMA AddFacts ==
  ASSUME NEW n, Allocator(n), NEW C, Tiled(n, C), NEW c \in Places \ C
  PROVE  Cut(n, add_blocks(Filled(n, c), NewBlocks(c)))
<1>. DEFINE f0 == Filled(n, c)
            bs == NewBlocks(c)
            prev == LastBelow(f0, bs[1])
            v == SubSeq(f0.fl, 1, Pos(f0, prev)) \o bs
                 \o SubSeq(f0.fl, Pos(f0, prev) + 1, Len(f0.fl))
            l == Link(f0, prev, bs)
            q == add_blocks(f0, bs)
<1>1. /\ Allocator(f0) /\ \A f \in Fields \ {"blk"} : f0[f] = n[f]
  <2>1. Allocator(n) /\ Tiled(n, C)
    OBVIOUS
  <2>2. /\ Allocator(f0) /\ Tiled(f0, C \cup {c})
        /\ \A f \in Fields \ {"blk"} : f0[f] = n[f]
        /\ DOMAIN f0.blk = DOMAIN n.blk \cup BlockStarts(c)
        /\ DOMAIN n.blk \cap BlockStarts(c) = {}
        /\ \A a \in DOMAIN n.blk : f0.blk[a] = n.blk[a]
        /\ \A a \in BlockStarts(c) :
             /\ Sz(f0, a) = BlockSize(c, a)
             /\ f0.blk[a].col = IF BlockSize(c, a) = 0 THEN "white" ELSE "blue"
    BY <2>1, FilledFacts
  <2>. QED BY <2>2
<1>2. l = [f0 EXCEPT !["fl"] = v]
  BY DEF Link
<1>3. q = [l EXCEPT !.wsz = @ + Words(f0, Range(bs)),
                    !.merge = IF @ = prev /\ bs[1] < f0.hp THEN Last(bs) ELSE @]
  BY DEF add_blocks
<1>. HIDE DEF f0, bs, prev, v, l, q
<1>4. Changed(f0, l, "fl", v)
  <2>1. "fl" \in Fields \ {"blk"}
    BY DEF Fields
  <2>. QED BY <1>1, <1>2, <2>1, FieldChanges
<1>5. /\ q = [f \in Fields |-> q[f]] /\ \A f \in Fields \ {"wsz", "merge"} : q[f] = l[f]
  <2>1. l = [f \in Fields |-> l[f]]
    BY <1>4 DEF Changed, Allocator
  <2>. QED BY <1>3, <2>1 DEF Fields
<1>6. Allocator(q)
  <2>1. q.blk = l.blk
    BY <1>5 DEF Fields
  <2>. QED BY <1>4, <1>5, <2>1 DEF Changed, Allocator
<1>7. \A f \in Fields \ {"blk", "fl", "wsz", "merge"} : q[f] = n[f]
  BY <1>1, <1>4, <1>5 DEF Changed
<1>. QED BY <1>6, <1>7 DEF Cut, q, f0, bs

\* The first block of a new chunk is the largest of its blocks, and is linked.
LEMMA AddedFits ==
  ASSUME NEW n, NEW C, NEW sc, NEW lv, HeapInv(n, C, sc, lv), NEW c \in Places \ C,
         NEW wo \in Requests, BlockSize(c, c.start) >= wo
  PROVE  LET q == add_blocks(Filled(n, c), NewBlocks(c))
         IN  /\ HeapInv(q, C \cup {c}, sc, lv) /\ Cut(n, q)
             /\ Range(n.fl) \subseteq Range(q.fl)
             /\ Range(q.fl) = Range(n.fl) \cup Range(NewBlocks(c))
             /\ \A a \in Range(n.fl) : Sz(q, a) = Sz(n, a)
             /\ NewBlocks(c)[1] = c.start
             /\ c.start \in Range(q.fl) /\ wo <= Sz(q, c.start)
<1>. DEFINE q == add_blocks(Filled(n, c), NewBlocks(c))
<1>1. Allocator(n) /\ Tiled(n, C)
  BY HeapFacts
<1>2. Cut(n, q)
  BY <1>1, AddFacts
<1>3. Allocator(q)
  BY <1>2 DEF Cut
<1>4. /\ HeapInv(q, C \cup {c}, sc, lv)
      /\ Range(q.fl) = Range(n.fl) \cup Range(NewBlocks(c))
      /\ \A a \in Range(n.fl) : Sz(q, a) = Sz(n, a)
      /\ \A a \in Range(NewBlocks(c)) : Sz(q, a) = BlockSize(c, a)
  <2>1. \A f \in HeapFields : q[f] = add_blocks(Filled(n, c), NewBlocks(c))[f]
    OBVIOUS
  <2>. HIDE DEF q
  <2>. QED BY <1>3, <2>1, AddKeeps
<1>. HIDE DEF q
<1>5. /\ c.start \in BlockStarts(c) /\ BlockSize(c, c.start) > 0
      /\ BlockSize(c, c.start) \in 0 .. MaxWosize
  BY FillFacts
<1>6. c.start \in Range(NewBlocks(c)) /\ NewBlocks(c)[1] = c.start
  BY <1>5, NewBlocksFacts
<1>7. wo \in 1 .. MaxWosize /\ MaxWosize \in Nat
  BY FreeListAssumption
<1>8. wo <= BlockSize(c, c.start)
  BY <1>5, <1>7
<1>9. Range(n.fl) \subseteq Range(q.fl) /\ c.start \in Range(q.fl) /\ wo <= Sz(q, c.start)
  BY <1>4, <1>6, <1>8
<1>. QED BY <1>2, <1>4, <1>6, <1>9 DEF q

-----------------------------------------------------------------------------
(* The first chunk                                                          *)

\* caml_make_free_blocks frees the block a.
Freed(k, a) == nf_merge_block(InPlace(k, a, "white"), a).m

\* What it makes of the blocks bs, from the state n.
FreedAll(n, bs) ==
  LET free(k, a) == nf_merge_block(InPlace(k, a, "white"), a).m
  IN  FoldLeft(free, n, bs)

\* g gives the state after the blocks of a set of indices of bs.
FreedBy(g, n, bs, S) ==
  \A T \in SUBSET S :
    g[T] = IF T = {} THEN n ELSE Freed(g[T \ {Max(T)}], bs[Max(T)])

\* There is such a function, built one cardinality after another.
LEMMA FreedGraph ==
  ASSUME NEW N \in Nat, NEW n, NEW bs
  PROVE  \E g : g = [T \in SUBSET (1 .. N) |-> g[T]] /\ FreedBy(g, n, bs, 1 .. N)
<1>. DEFINE S == 1 .. N
            Small(k) == {T \in SUBSET S : Cardinality(T) <= k}
            Step(g, T) == IF T = {} THEN n ELSE Freed(g[T \ {Max(T)}], bs[Max(T)])
            Ok(k, g) == \A T \in Small(k) : g[T] = Step(g, T)
            Good == {k \in 0 .. N : \E g : g = [T \in Small(k) |-> g[T]] /\ Ok(k, g)}
<1>1. \A T \in SUBSET S : T # {} => Max(T) \in T
  <2>. TAKE T \in SUBSET S
  <2>. HAVE T # {}
  <2>1. T \in SUBSET (0 .. N)
    OBVIOUS
  <2>. QED BY <2>1, MaxOf
<1>2. /\ Cardinality(S) = N
      /\ \A T \in SUBSET S : IsFiniteSet(T) /\ Cardinality(T) \in 0 .. N
      /\ \A T \in SUBSET S : T # {} => Cardinality(T \ {Max(T)}) = Cardinality(T) - 1
      /\ \A T \in SUBSET S : Cardinality(T) = 0 <=> T = {}
  <2>1. Cardinality(S) = N /\ IsFiniteSet(S)
    BY FS_Interval
  <2>. HIDE DEF S
  <2>2. \A T \in SUBSET S : IsFiniteSet(T) /\ Cardinality(T) \in Nat /\ Cardinality(T) <= N
    BY <2>1, FS_CardinalityType, FS_Subset
  <2>3. \A T \in SUBSET S : T # {} => Cardinality(T \ {Max(T)}) = Cardinality(T) - 1
    <3>. TAKE T \in SUBSET S
    <3>. HAVE T # {}
    <3>. QED BY <1>1, <2>2, FS_RemoveElement
  <2>4. \A T \in SUBSET S : Cardinality(T) = 0 <=> T = {}
    BY <2>2, FS_EmptySet
  <2>. QED BY <2>1, <2>2, <2>3, <2>4
<1>. HIDE DEF S
<1>3. 0 \in Good
  <2>. DEFINE g == [T \in Small(0) |-> n]
  <2>1. \A T \in Small(0) : T = {}
    BY <1>2
  <2>2. g = [T \in Small(0) |-> g[T]] /\ Ok(0, g)
    BY <2>1
  <2>. HIDE DEF g, Ok, Small
  <2>. QED BY <2>2
<1>4. ASSUME NEW k \in 1 .. N, k - 1 \in Good PROVE k \in Good
  <2>1. PICK g : g = [T \in Small(k - 1) |-> g[T]] /\ Ok(k - 1, g)
    BY <1>4
  <2>. DEFINE h == [T \in Small(k) |-> IF T \in Small(k - 1) THEN g[T] ELSE Step(g, T)]
  <2>2. ASSUME NEW T \in Small(k), T # {} PROVE T \ {Max(T)} \in Small(k - 1)
    <3>1. Cardinality(T \ {Max(T)}) <= k - 1 /\ T \ {Max(T)} \in SUBSET S
      BY <1>2, <2>2
    <3>. QED BY <3>1
  <2>3. h = [T \in Small(k) |-> h[T]]
    OBVIOUS
  <2>4. ASSUME NEW T \in Small(k) PROVE h[T] = Step(h, T)
    <3>1. h[T] = Step(g, T)
      BY <2>1
    <3>2. CASE T = {}
      BY <3>1, <3>2
    <3>3. CASE T # {}
      <4>1. T \ {Max(T)} \in Small(k) /\ h[T \ {Max(T)}] = g[T \ {Max(T)}]
        <5>1. T \ {Max(T)} \in Small(k - 1)
          BY <3>3, <2>2
        <5>2. T \ {Max(T)} \in Small(k)
          BY <5>1, <1>2
        <5>. QED BY <5>1, <5>2
      <4>. QED BY <3>1, <3>3, <4>1
    <3>. QED BY <3>2, <3>3
  <2>5. Ok(k, h)
    BY <2>4
  <2>. HIDE DEF h, Ok, Small
  <2>. QED BY <2>3, <2>5
<1>5. N \in Good
  <2>. HIDE DEF Good
  <2>1. \A j \in 1 .. N : j - 1 \in Good => j \in Good
    BY <1>4
  <2>2. \A j \in 0 .. N : j \in Good
    BY <1>3, <2>1, UpTo
  <2>. QED BY <2>2
<1>6. Small(N) = SUBSET S
  BY <1>2
<1>7. PICK g : g = [T \in Small(N) |-> g[T]] /\ Ok(N, g)
  BY <1>5
<1>8. g = [T \in SUBSET S |-> g[T]] /\ FreedBy(g, n, bs, S)
  BY <1>6, <1>7 DEF FreedBy
<1>. QED BY <1>8 DEF S

\* The blocks are freed one after another, in the order of bs.
LEMMA FreedInOrder ==
  ASSUME NEW n, NEW N \in Nat, NEW bs, DOMAIN bs = 1 .. N
  PROVE  \E g : /\ FreedAll(n, bs) = g[1 .. N] /\ g[1 .. 0] = n
                /\ \A i \in 1 .. N : g[1 .. i] = Freed(g[1 .. (i - 1)], bs[i])
<1>. DEFINE S == 1 .. N
            Rec(g) == g = [T \in SUBSET S |-> IF T = {} THEN n
                             ELSE Freed(g[T \ {Max(T)}], bs[Max(T)])]
            g == CHOOSE h : Rec(h)
<1>1. FreedAll(n, bs) = g[S]
  <2>1. DOMAIN bs = S
    OBVIOUS
  <2>. HIDE DEF S
  <2>. QED BY <2>1, Zenon DEF FreedAll, FoldLeft, MapThenFoldSet, Freed
<1>2. \E h : Rec(h)
  <2>1. PICK h : h = [T \in SUBSET S |-> h[T]] /\ FreedBy(h, n, bs, S)
    BY FreedGraph
  <2>. HIDE DEF S
  <2>2. Rec(h)
    BY <2>1 DEF FreedBy
  <2>. HIDE DEF Rec
  <2>. QED BY <2>2
<1>3. Rec(g)
  <2>. HIDE DEF Rec
  <2>. QED BY <1>2
<1>. HIDE DEF g
<1>4. g[1 .. 0] = n
  <2>1. 1 .. 0 = {} /\ {} \in SUBSET S
    OBVIOUS
  <2>. HIDE DEF S
  <2>. QED BY <1>3, <2>1
<1>5. ASSUME NEW i \in 1 .. N PROVE g[1 .. i] = Freed(g[1 .. (i - 1)], bs[i])
  <2>. DEFINE T == 1 .. i
  <2>1. T \in SUBSET S /\ T # {} /\ T \in SUBSET (0 .. N) /\ i \in T
    OBVIOUS
  <2>2. Max(T) = i
    <3>1. Max(T) \in T /\ \A k \in T : k <= Max(T)
      BY <2>1, MaxOf
    <3>. QED BY <2>1, <3>1
  <2>3. T \ {i} = 1 .. (i - 1)
    OBVIOUS
  <2>. HIDE DEF T, S
  <2>4. g[T] = Freed(g[T \ {Max(T)}], bs[Max(T)])
    BY <1>3, <2>1
  <2>. QED BY <2>2, <2>3, <2>4 DEF T
<1>. QED BY <1>1, <1>4, <1>5

\* InPlace rewrites one header.
LEMMA InPlaceRewrites ==
  ASSUME NEW n, Allocator(n), NEW a \in DOMAIN n.blk, NEW col \in Colours
  PROVE  Rewritten(n, InPlace(n, a, col), a, Sz(n, a), col)
<1>. DEFINE q == InPlace(n, a, col)
            h == [n.blk[a] EXCEPT !.col = col]
<1>1. /\ q = [f \in Fields |-> q[f]] /\ \A f \in Fields \ {"blk"} : q[f] = n[f]
      /\ q.blk = [n.blk EXCEPT ![a].col = col]
  BY DEF Allocator, Fields, InPlace
<1>2. n.blk[a] \in Header /\ n.blk = [x \in DOMAIN n.blk |-> n.blk[x]]
  BY DEF Allocator
<1>3. h = Block(Sz(n, a), col) /\ h \in Header
  BY <1>2 DEF Header, Block, Sz
<1>4. q.blk = [n.blk EXCEPT ![a] = h]
  BY <1>1
<1>. HIDE DEF q, h
<1>5. /\ q.blk = [x \in DOMAIN q.blk |-> q.blk[x]] /\ DOMAIN q.blk = DOMAIN n.blk
      /\ q.blk[a] = h /\ \A b \in DOMAIN n.blk : b # a => q.blk[b] = n.blk[b]
  BY <1>2, <1>4
<1>6. Allocator(q)
  BY <1>1, <1>3, <1>5 DEF Allocator
<1>7. Sz(q, a) = Sz(n, a) /\ q.blk[a].col = col
  BY <1>3, <1>5 DEF Block, Sz
<1>8. DOMAIN q.blk = DOMAIN n.blk \cup {a}
  BY <1>5
<1>. QED BY <1>1, <1>3, <1>5, <1>6, <1>7, <1>8 DEF Rewritten, q

\* bs are blue blocks of n, the largest there can be but for the last one.
Freeable(n, bs) ==
  /\ Allocator(n) /\ n.frag = Nil /\ n.merge = Nil /\ n.fl = <<>> /\ n.wsz = 0 /\ Rising(bs)
  /\ \A i \in 1 .. Len(bs) :
       bs[i] \in DOMAIN n.blk /\ n.blk[bs[i]].col = "blue" /\ Sz(n, bs[i]) > 0
  /\ \A i \in 1 .. Len(bs) - 1 : Sz(n, bs[i]) = MaxWosize

\* k is n with the first i of them in its list.
FreedUpTo(n, k, bs, i) ==
  /\ Allocator(k) /\ k.blk = n.blk /\ Rising(k.fl)
  /\ Range(k.fl) = {bs[j] : j \in 1 .. i}
  /\ k.merge = IF i = 0 THEN Nil ELSE bs[i]
  /\ k.wsz = Words(n, Range(k.fl))
  /\ \A f \in Fields \ {"blk", "fl", "merge", "wsz"} : k[f] = n[f]

\* One more block is linked at the end, its header as it was.
LEMMA FreedKeeps ==
  ASSUME NEW n, NEW bs, Freeable(n, bs), NEW i \in 1 .. Len(bs),
         NEW k, FreedUpTo(n, k, bs, i - 1)
  PROVE  FreedUpTo(n, Freed(k, bs[i]), bs, i)
<1>. DEFINE a == bs[i]
            z == Sz(n, a)
            prev == k.merge
            R == Range(k.fl)
            q == InPlace(k, a, "white")
            p == [q EXCEPT !.wsz = @ + Sz(q, a) + 1]
            l == Link(p, prev, <<a>>)
            h == Hd(l, a, Sz(p, a), "blue")
            e == [h EXCEPT !.merge = a]
<1>1. /\ Allocator(n) /\ n.frag = Nil /\ Rising(bs) /\ Len(bs) \in Nat
      /\ a \in DOMAIN n.blk /\ n.blk[a].col = "blue" /\ z > 0
      /\ z \in Nat /\ z <= MaxWosize /\ MaxWosize \in Nat
      /\ n.blk[a] = Block(z, "blue")
  <2>1. Allocator(n) /\ Rising(bs) /\ a \in DOMAIN n.blk /\ n.blk[a].col = "blue" /\ z > 0 /\ n.frag = Nil
    BY DEF Freeable
  <2>2. n.blk[a] \in Header
    BY <2>1 DEF Allocator
  <2>3. n.blk[a] = Block(z, "blue")
    BY <2>1, <2>2 DEF Header, Block, Sz
  <2>4. MaxWosize \in Nat
    BY FreeListAssumption
  <2>. HIDE DEF a, z
  <2>5. z \in Nat /\ z <= MaxWosize
    BY <2>1, SizeFacts DEF z
  <2>. QED BY <2>1, <2>3, <2>4, <2>5, RisingRange
<1>2. /\ Allocator(k) /\ k.blk = n.blk /\ Rising(k.fl) /\ R = {bs[j] : j \in 1 .. i - 1}
      /\ prev = (IF i - 1 = 0 THEN Nil ELSE bs[i - 1]) /\ k.wsz = Words(n, R)
      /\ \A f \in Fields \ {"blk", "fl", "merge", "wsz"} : k[f] = n[f]
  BY DEF FreedUpTo
<1>3. /\ \A j \in 1 .. i : bs[j] \in Nat \ {0} /\ bs[j] \in DOMAIN n.blk
      /\ \A j \in 1 .. i - 1 : bs[j] < a
      /\ \A j \in 1 .. i - 1 : bs[j] <= bs[i - 1]
      /\ i - 1 # 0 => i - 1 \in 1 .. Len(bs) - 1
  <2>1. \A j \in 1 .. i : j \in 1 .. Len(bs)
    BY <1>1
  <2>2. \A j \in 1 .. Len(bs) : bs[j] \in Nat \ {0} /\ bs[j] \in DOMAIN n.blk
    BY <1>1, RisingRange DEF Freeable
  <2>3. \A j \in 1 .. i - 1 : bs[j] < a
    BY <1>1 DEF Rising
  <2>4. \A j \in 1 .. i - 1 : bs[j] <= bs[i - 1]
    <3>1. \A j \in 1 .. i - 1 : j = i - 1 \/ bs[j] < bs[i - 1]
      <4>. HIDE DEF a, z
      <4>. SUFFICES ASSUME NEW j \in 1 .. i - 1, j # i - 1 PROVE bs[j] < bs[i - 1]
        OBVIOUS
      <4>1. j \in 1 .. Len(bs) /\ i - 1 \in 1 .. Len(bs) /\ j < i - 1
        BY <1>1
      <4>. QED BY <1>1, <4>1 DEF Rising
    <3>2. \A j \in 1 .. i - 1 : bs[j] \in Nat
      BY <1>1, <2>2
    <3>. QED BY <3>1, <3>2
  <2>. HIDE DEF a
  <2>. QED BY <1>1, <2>1, <2>2, <2>3, <2>4
<1>4. /\ R \in SUBSET (Nat \ {0}) /\ R \subseteq DOMAIN n.blk /\ a \notin R /\ a \in Nat \ {0}
      /\ IsFiniteSet(R) /\ prev \in R \cup {Nil}
      /\ \A x \in R : x < a /\ ~(prev < x)
      /\ prev # Nil => Sz(n, prev) = MaxWosize
      /\ prev < a
  <2>1. \A x \in R : \E j \in 1 .. i - 1 : x = bs[j]
    BY <1>2
  <2>2. a \in Nat \ {0}
    BY <1>3
  <2>3. IsFiniteSet(R)
    BY <1>2, RisingRange
  <2>4. i - 1 # 0 => i - 1 \in 1 .. i - 1
    OBVIOUS
  <2>5. prev \in R \cup {Nil}
    BY <1>2, <2>4
  <2>6. prev # Nil => Sz(n, prev) = MaxWosize
    BY <1>2, <1>3 DEF Freeable
  <2>. HIDE DEF a, R
  <2>7. \A x \in R : x \in Nat \ {0} /\ x < a /\ x \in DOMAIN n.blk /\ ~(prev < x)
    <3>. SUFFICES ASSUME NEW x \in R PROVE x \in Nat \ {0} /\ x < a /\ x \in DOMAIN n.blk /\ ~(prev < x)
      OBVIOUS
    <3>1. PICK j \in 1 .. i - 1 : x = bs[j]
      BY <2>1
    <3>2. i - 1 # 0 /\ prev = bs[i - 1] /\ bs[j] \in Nat \ {0} /\ bs[i - 1] \in Nat /\ bs[j] <= bs[i - 1]
      BY <1>2, <1>3
    <3>. QED BY <1>3, <3>1, <3>2
  <2>. QED BY <2>2, <2>3, <2>5, <2>6, <2>7 DEF Nil
<1>5. Rewritten(k, q, a, z, "white")
  <2>1. "white" \in Colours /\ Sz(k, a) = z /\ a \in DOMAIN k.blk
    BY <1>1, <1>2 DEF Colours, Sz
  <2>. HIDE DEF a, z
  <2>. QED BY <1>2, <2>1, InPlaceRewrites
<1>6. Sz(q, a) = z
  BY <1>5 DEF Rewritten
<1>. HIDE DEF q
<1>7. Changed(q, p, "wsz", k.wsz + z + 1)
  <2>. DEFINE v == k.wsz + z + 1
  <2>1. q.wsz = k.wsz
    BY <1>5 DEF Rewritten, Fields
  <2>2. p = [q EXCEPT !["wsz"] = v]
    BY <1>6, <2>1
  <2>3. "wsz" \in Fields \ {"blk"} /\ Allocator(q)
    BY <1>5 DEF Fields, Rewritten
  <2>. HIDE DEF v, p
  <2>4. Changed(q, p, "wsz", v)
    BY <2>2, <2>3, FieldChanges
  <2>. QED BY <2>4 DEF v
<1>8. Freed(k, a) = IntoList(WithNext(WithFragment(p, a).m, WithFragment(p, a).bp),
                             WithFragment(p, a).bp)
  BY DEF Freed, nf_merge_block, q
<1>. HIDE DEF p
<1>9. /\ Allocator(p) /\ p.wsz = k.wsz + z + 1 /\ p.blk = q.blk
      /\ \A f \in Fields \ {"wsz"} : p[f] = q[f]
      /\ p.fl = k.fl /\ p.merge = prev /\ p.frag = Nil
  <2>1. /\ Allocator(p) /\ p.wsz = k.wsz + z + 1 /\ p.blk = q.blk
        /\ \A f \in Fields \ {"wsz"} : p[f] = q[f]
    BY <1>7 DEF Changed, Fields
  <2>2. q.fl = k.fl /\ q.merge = k.merge /\ q.frag = k.frag
    BY <1>5 DEF Rewritten, Fields
  <2>3. p.fl = q.fl /\ p.merge = q.merge /\ p.frag = q.frag
    BY <2>1 DEF Fields
  <2>4. k.frag = n.frag
    BY <1>2 DEF Fields
  <2>. QED BY <1>1, <2>1, <2>2, <2>3, <2>4
<1>10. /\ \A x : x # a => (x \in DOMAIN n.blk => p.blk[x] = n.blk[x] /\ Sz(p, x) = Sz(n, x))
       /\ Sz(p, a) = z /\ DOMAIN p.blk = DOMAIN n.blk /\ a \in DOMAIN p.blk
  <2>1. /\ DOMAIN q.blk = DOMAIN n.blk \cup {a}
        /\ \A x \in DOMAIN n.blk : x # a => q.blk[x] = n.blk[x]
    BY <1>2, <1>5 DEF Rewritten
  <2>. QED BY <1>1, <1>6, <1>9, <2>1 DEF Sz
<1>11. WithFragment(p, a) = [m |-> p, bp |-> a]
  BY <1>4, <1>9 DEF WithFragment, Nil
<1>12. Next_small(p, p.merge) = Nil
  <2>1. prev \in Range(p.fl) \cup {Nil} /\ Rising(p.fl) /\ p.merge = prev /\ Range(p.fl) = R
    BY <1>2, <1>4, <1>9
  <2>. HIDE DEF prev, R
  <2>2. NextAbove(Range(p.fl), prev, Next_small(p, prev))
    BY <2>1, NextSmallFacts
  <2>. QED BY <1>4, <2>1, <2>2 DEF NextAbove
<1>13. WithNext(p, a) = p
  BY <1>12 DEF WithNext
<1>14. Freed(k, a) = e
  <2>1. Freed(k, a) = IntoList(p, a)
    BY <1>8, <1>11, <1>13
  <2>2. ~(prev # Nil /\ Next_in_mem(p, prev) = a /\ Sz(p, prev) + Sz(p, a) + 1 < MaxWosize)
    <3>. SUFFICES ASSUME prev # Nil, Sz(p, prev) + Sz(p, a) + 1 < MaxWosize PROVE FALSE
      OBVIOUS
    <3>1. prev \in DOMAIN n.blk /\ prev # a /\ Sz(n, prev) = MaxWosize
      BY <1>4
    <3>2. Sz(p, prev) = MaxWosize
      BY <1>10, <3>1
    <3>. HIDE DEF z, prev, a
    <3>. QED BY <1>1, <1>10, <3>2
  <2>3. Sz(p, a) # 0
    BY <1>1, <1>10
  <2>. QED BY <1>9, <2>1, <2>2, <2>3 DEF IntoList
<1>15. Linked(p, l, <<a>>)
  <2>1. Rising(<<a>>) /\ Range(<<a>>) = {a}
    <3>1. a \in Nat \ {0}
      BY <1>4
    <3>. HIDE DEF a
    <3>. QED BY <3>1 DEF Rising, Range
  <2>2. \A x \in Range(<<a>>) : prev < x /\ \A b \in Range(p.fl) : prev < b => x < b
    BY <1>4, <1>9, <2>1
  <2>3. prev \in Range(p.fl) \cup {Nil} /\ Rising(p.fl)
    BY <1>2, <1>4, <1>9
  <2>. DEFINE s == <<a>>
  <2>4. Rising(s) /\ \A x \in Range(s) : prev < x /\ \A b \in Range(p.fl) : prev < b => x < b
    BY <2>1, <2>2
  <2>. HIDE DEF a, prev, s
  <2>5. Linked(p, Link(p, prev, s), s)
    BY <1>9, <2>3, <2>4, LinkLinks
  <2>. QED BY <2>5 DEF s
<1>. HIDE DEF l
<1>16. Rewritten(l, h, a, z, "blue")
  <2>1. Allocator(l) /\ z \in 0 .. MaxWosize /\ "blue" \in Colours
    BY <1>1, <1>15 DEF Linked, Colours
  <2>2. Sz(p, a) = z
    BY <1>10
  <2>. HIDE DEF a, z
  <2>. QED BY <2>1, <2>2, HdRewrites
<1>. HIDE DEF h
<1>17. Changed(h, e, "merge", a)
  <2>1. "merge" \in Fields \ {"blk"} /\ Allocator(h)
    BY <1>16 DEF Fields, Rewritten
  <2>. HIDE DEF a
  <2>. QED BY <2>1, FieldChanges
<1>. HIDE DEF e
<1>18. /\ Allocator(e) /\ e.merge = a /\ e.blk = h.blk /\ e.fl = l.fl /\ e.wsz = p.wsz
       /\ \A f \in Fields \ {"blk", "fl", "merge", "wsz"} : e[f] = n[f]
  <2>1. /\ Allocator(e) /\ e.merge = a /\ \A f \in Fields \ {"merge"} : e[f] = h[f]
    BY <1>17 DEF Changed
  <2>2. \A f \in Fields \ {"blk"} : h[f] = l[f]
    BY <1>16 DEF Rewritten
  <2>3. \A f \in Fields \ {"fl"} : l[f] = p[f]
    BY <1>15 DEF Linked
  <2>4. \A f \in Fields \ {"blk"} : q[f] = k[f]
    BY <1>5 DEF Rewritten
  <2>5. \A f \in Fields \ {"blk", "fl", "merge", "wsz"} : e[f] = n[f]
    <3>. SUFFICES ASSUME NEW f \in Fields \ {"blk", "fl", "merge", "wsz"} PROVE e[f] = n[f]
      OBVIOUS
    <3>1. e[f] = h[f] /\ h[f] = l[f] /\ l[f] = p[f]
      BY <2>1, <2>2, <2>3
    <3>2. p[f] = q[f] /\ q[f] = k[f] /\ k[f] = n[f]
      BY <1>2, <1>9, <2>4
    <3>. QED BY <3>1, <3>2
  <2>6. "blk" \in Fields \ {"merge"} /\ "fl" \in Fields \ {"merge"} /\ "wsz" \in Fields \ {"merge"}
    BY DEF Fields
  <2>7. "fl" \in Fields \ {"blk"} /\ "wsz" \in Fields \ {"blk"} /\ "wsz" \in Fields \ {"fl"}
    BY DEF Fields
  <2>. QED BY <2>1, <2>2, <2>3, <2>5, <2>6, <2>7
<1>19. e.blk = n.blk
  <2>1. n.blk = [x \in DOMAIN n.blk |-> n.blk[x]]
    BY <1>1 DEF Allocator
  <2>2. e.blk = [x \in DOMAIN e.blk |-> e.blk[x]]
    BY <1>18 DEF Allocator
  <2>3. l.blk = p.blk
    BY <1>15 DEF Linked, Fields
  <2>4. DOMAIN h.blk = DOMAIN n.blk
    BY <1>1, <1>10, <1>16, <2>3 DEF Rewritten
  <2>5. \A x \in DOMAIN n.blk : h.blk[x] = n.blk[x]
    <3>1. h.blk[a] = n.blk[a]
      BY <1>1, <1>16 DEF Rewritten
    <3>2. \A x \in DOMAIN l.blk : x # a => h.blk[x] = l.blk[x]
      BY <1>16 DEF Rewritten
    <3>. QED BY <1>10, <2>3, <3>1, <3>2
  <2>. QED BY <1>18, <2>1, <2>2, <2>4, <2>5
<1>20. Rising(e.fl) /\ Range(e.fl) = R \cup {a}
  <2>1. Rising(l.fl) /\ Range(l.fl) = Range(p.fl) \cup Range(<<a>>)
    BY <1>15 DEF Linked
  <2>2. Range(<<a>>) = {a}
    <3>. HIDE DEF a
    <3>. QED BY DEF Range
  <2>. QED BY <1>9, <1>18, <2>1, <2>2
<1>21. R \cup {a} = {bs[j] : j \in 1 .. i}
  <2>1. \A j : j \in 1 .. i <=> j \in 1 .. i - 1 \/ j = i
    BY <1>1
  <2>. QED BY <1>2, <2>1
<1>22. e.wsz = Words(n, Range(e.fl))
  <2>1. \A x \in R \cup {a} : Sz(n, x) \in Nat
    BY <1>1, <1>4, SizeFacts
  <2>. HIDE DEF R, a
  <2>2. Words(n, R \cup {a}) = Words(n, R) + Sz(n, a) + 1
    BY <1>4, <2>1, WordsAdd
  <2>. QED BY <1>2, <1>9, <1>18, <1>20, <2>2
<1>23. FreedUpTo(n, e, bs, i)
  <2>1. i # 0
    OBVIOUS
  <2>. HIDE DEF R
  <2>. QED BY <1>18, <1>19, <1>20, <1>21, <1>22, <2>1 DEF FreedUpTo
<1>. QED BY <1>14, <1>23 DEF a

\* g gives the states in between.
Frees(g, n, bs, N) ==
  /\ FreedAll(n, bs) = g[1 .. N] /\ g[1 .. 0] = n
  /\ \A i \in 1 .. N : g[1 .. i] = Freed(g[1 .. (i - 1)], bs[i])

\* Freeing the blocks of a new heap one after another passes through states
\* that FreedInOrder numbers.
LEMMA FreesExist ==
  \A n, bs : \A N \in Nat : DOMAIN bs = 1 .. N => \E g : Frees(g, n, bs, N)
<1>. SUFFICES ASSUME NEW n, NEW bs, NEW N \in Nat, DOMAIN bs = 1 .. N
              PROVE  \E g : Frees(g, n, bs, N)
  OBVIOUS
<1>. QED BY FreedInOrder DEF Frees

\* Filled makes of no heap at all the blocks to free.
LEMMA FilledFreeable ==
  ASSUME NEW max \in Nat, NEW c \in Places
  PROVE  LET n == Filled([Free0 EXCEPT !.flpmax = max], c)
         IN  /\ Freeable(n, NewBlocks(c)) /\ Tiled(n, {c})
             /\ DOMAIN n.blk = BlockStarts(c)
             /\ \A a \in BlockStarts(c) :
                  /\ Sz(n, a) = BlockSize(c, a)
                  /\ n.blk[a].col = IF BlockSize(c, a) = 0 THEN "white" ELSE "blue"
             /\ n.prev = Nil /\ n.flp = <<>> /\ n.beyond = Nil /\ n.flpmax = max
             /\ n.phase = "idle" /\ n.hp = 0 /\ n.frag = Nil /\ n.least = Nil
<1>. DEFINE f0 == [Free0 EXCEPT !.flpmax = max]
            n == Filled(f0, c)
            bs == NewBlocks(c)
<1>1. /\ f0 = [f \in Fields |-> f0[f]] /\ f0.blk = <<>>
      /\ f0.prev = Nil /\ f0.flp = <<>> /\ f0.beyond = Nil /\ f0.flpmax = max
      /\ f0.phase = "idle" /\ f0.hp = 0 /\ f0.frag = Nil /\ f0.least = Nil
      /\ f0.merge = Nil /\ f0.fl = <<>> /\ f0.wsz = 0
  BY DEF Free0, Fields
<1>. HIDE DEF f0
<1>2. DOMAIN f0.blk = {} /\ f0.blk = [a \in DOMAIN f0.blk |-> f0.blk[a]]
  BY <1>1
<1>3. Allocator(f0)
  BY <1>1, <1>2 DEF Allocator
<1>4. Tiled(f0, {}) /\ c \in Places \ {} /\ {} \cup {c} = {c}
  BY <1>2, FS_EmptySet DEF Tiled
<1>5. /\ Allocator(n) /\ Tiled(n, {c})
      /\ \A f \in Fields \ {"blk"} : n[f] = f0[f]
      /\ DOMAIN n.blk = BlockStarts(c)
      /\ \A a \in BlockStarts(c) :
           /\ Sz(n, a) = BlockSize(c, a)
           /\ n.blk[a].col = IF BlockSize(c, a) = 0 THEN "white" ELSE "blue"
  <2>. DEFINE C == {}
  <2>1. Allocator(f0) /\ Tiled(f0, C) /\ c \in Places \ C
    BY <1>3, <1>4
  <2>. HIDE DEF C
  <2>2. /\ Allocator(n) /\ Tiled(n, C \cup {c})
        /\ \A f \in Fields \ {"blk"} : n[f] = f0[f]
        /\ DOMAIN n.blk = DOMAIN f0.blk \cup BlockStarts(c)
        /\ DOMAIN f0.blk \cap BlockStarts(c) = {}
        /\ \A a \in DOMAIN f0.blk : n.blk[a] = f0.blk[a]
        /\ \A a \in BlockStarts(c) :
             /\ Sz(n, a) = BlockSize(c, a)
             /\ n.blk[a].col = IF BlockSize(c, a) = 0 THEN "white" ELSE "blue"
    BY <2>1, FilledFacts
  <2>. HIDE DEF n
  <2>. QED BY <1>2, <1>4, <2>2 DEF C
<1>. HIDE DEF n
<1>6. /\ n.prev = Nil /\ n.flp = <<>> /\ n.beyond = Nil /\ n.flpmax = max
      /\ n.phase = "idle" /\ n.hp = 0 /\ n.frag = Nil /\ n.least = Nil
      /\ n.merge = Nil /\ n.fl = <<>> /\ n.wsz = 0
  BY <1>1, <1>5 DEF Fields
<1>7. /\ Rising(bs) /\ Range(bs) = {a \in BlockStarts(c) : BlockSize(c, a) > 0}
      /\ Len(bs) \in Nat /\ \A i \in 1 .. Len(bs) : bs[i] \in Range(bs)
      /\ \A i, j \in 1 .. Len(bs) : i < j => bs[i] < bs[j]
  BY NewBlocksFacts, RisingRange DEF Rising
<1>. HIDE DEF bs
<1>8. \A i \in 1 .. Len(bs) :
        bs[i] \in DOMAIN n.blk /\ n.blk[bs[i]].col = "blue" /\ Sz(n, bs[i]) > 0
  <2>1. \A a \in Range(bs) : a \in DOMAIN n.blk /\ n.blk[a].col = "blue" /\ Sz(n, a) > 0
    BY <1>5, <1>7
  <2>. QED BY <1>7, <2>1
<1>9. \A i \in 1 .. Len(bs) - 1 : Sz(n, bs[i]) = MaxWosize
  <2>. SUFFICES ASSUME NEW i \in 1 .. Len(bs) - 1 PROVE Sz(n, bs[i]) = MaxWosize
    OBVIOUS
  <2>1. i \in 1 .. Len(bs) /\ i + 1 \in 1 .. Len(bs) /\ i < i + 1
    BY <1>7
  <2>2. bs[i] \in BlockStarts(c) /\ bs[i + 1] \in BlockStarts(c) /\ bs[i] < bs[i + 1]
    BY <1>7, <2>1
  <2>3. /\ BlockStarts(c) \subseteq Nat
        /\ \A a \in BlockStarts(c) : /\ a < Limit(c) /\ BlockSize(c, a) \in Nat
                                     /\ BlockSize(c, a) <= MaxWosize
                                     /\ \/ BlockSize(c, a) = MaxWosize
                                        \/ a + BlockSize(c, a) + 1 = Limit(c)
        /\ \A a, b \in BlockStarts(c) : a < b => a + MaxWosize + 1 <= b
        /\ MaxWosize \in Nat /\ Limit(c) \in Nat
    <3>1. MaxWosize \in Nat /\ Limit(c) \in Nat
      BY FreeListAssumption, PlaceFacts
    <3>. QED BY <3>1, FillFacts
  <2>. DEFINE a == bs[i]
              b == bs[i + 1]
  <2>4. a \in BlockStarts(c) /\ b \in BlockStarts(c) /\ a < b
    BY <2>2
  <2>. HIDE DEF a, b
  <2>5. a + MaxWosize + 1 <= b /\ b < Limit(c) /\ a \in Nat /\ b \in Nat
    BY <2>3, <2>4
  <2>6. BlockSize(c, a) = MaxWosize
    BY <2>3, <2>4, <2>5
  <2>7. Sz(n, a) = MaxWosize
    BY <1>5, <2>4, <2>6
  <2>. QED BY <2>7 DEF a
<1>10. Freeable(n, bs)
  BY <1>5, <1>6, <1>7, <1>8, <1>9 DEF Freeable
<1>. QED BY <1>5, <1>6, <1>10 DEF n, bs, f0

\* Before the program starts the invariant holds of the first chunk.
LEMMA FirstHeap ==
  ASSUME NEW max \in Nat, NEW c \in Places
  PROVE  LET k == FreedAll(Filled([Free0 EXCEPT !.flpmax = max], c), NewBlocks(c))
         IN  /\ HeapInv(k, {c}, c, <<>>)
             /\ k.prev = Nil /\ k.flp = <<>> /\ k.beyond = Nil /\ k.flpmax = max
             /\ k.phase = "idle"
<1>. DEFINE n == Filled([Free0 EXCEPT !.flpmax = max], c)
            bs == NewBlocks(c)
            k == FreedAll(n, bs)
            N == Len(bs)
<1>1. /\ Freeable(n, bs) /\ Tiled(n, {c}) /\ DOMAIN n.blk = BlockStarts(c)
      /\ \A a \in BlockStarts(c) :
           /\ Sz(n, a) = BlockSize(c, a)
           /\ n.blk[a].col = IF BlockSize(c, a) = 0 THEN "white" ELSE "blue"
      /\ n.prev = Nil /\ n.flp = <<>> /\ n.beyond = Nil /\ n.flpmax = max
      /\ n.phase = "idle" /\ n.hp = 0 /\ n.frag = Nil /\ n.least = Nil
  BY FilledFreeable
<1>. HIDE DEF n
<1>2. /\ Rising(bs) /\ DOMAIN bs = 1 .. N /\ N \in Nat
      /\ Range(bs) = {a \in BlockStarts(c) : BlockSize(c, a) > 0}
      /\ Range(bs) = {bs[j] : j \in 1 .. N}
  <2>1. Rising(bs) /\ Range(bs) = {a \in BlockStarts(c) : BlockSize(c, a) > 0}
    BY NewBlocksFacts
  <2>. HIDE DEF bs
  <2>2. DOMAIN bs = 1 .. N /\ N \in Nat
    BY <2>1, RisingRange
  <2>. QED BY <2>1, <2>2 DEF Range
<1>. HIDE DEF bs, N
<1>3. PICK g : /\ k = g[1 .. N] /\ g[1 .. 0] = n
               /\ \A i \in 1 .. N : g[1 .. i] = Freed(g[1 .. (i - 1)], bs[i])
  <2>1. N \in Nat /\ DOMAIN bs = 1 .. N
    BY <1>2
  <2>2. \E g : Frees(g, n, bs, N)
    BY <2>1, FreesExist
  <2>. QED BY <2>2 DEF Frees
<1>. HIDE DEF k
<1>4. FreedUpTo(n, k, bs, N)
  <2>. DEFINE Good == {i \in 0 .. N : FreedUpTo(n, g[1 .. i], bs, i)}
  <2>1. FreedUpTo(n, n, bs, 0)
    <3>1. Allocator(n) /\ n.fl = <<>> /\ n.merge = Nil /\ n.wsz = 0
      BY <1>1 DEF Freeable
    <3>2. Rising(n.fl) /\ Range(n.fl) = {}
      BY <3>1 DEF Rising, Range
    <3>3. {bs[j] : j \in 1 .. 0} = {}
      OBVIOUS
    <3>4. Words(n, {}) = 0
      BY WordsEmpty
    <3>. QED BY <3>1, <3>2, <3>3, <3>4 DEF FreedUpTo
  <2>2. 0 \in Good
    BY <1>2, <1>3, <2>1
  <2>3. \A i \in 1 .. N : i - 1 \in Good => i \in Good
    <3>. SUFFICES ASSUME NEW i \in 1 .. N, i - 1 \in Good PROVE i \in Good
      OBVIOUS
    <3>. DEFINE x == g[1 .. (i - 1)]
    <3>1. FreedUpTo(n, x, bs, i - 1) /\ g[1 .. i] = Freed(x, bs[i])
      BY <1>3
    <3>2. i \in 1 .. Len(bs) /\ i \in 0 .. N
      BY <1>2 DEF N
    <3>. HIDE DEF x
    <3>3. FreedUpTo(n, Freed(x, bs[i]), bs, i)
      BY <1>1, <3>1, <3>2, FreedKeeps
    <3>. QED BY <3>1, <3>2, <3>3
  <2>. HIDE DEF Good
  <2>4. N \in Good
    <3>1. \A i \in 0 .. N : i \in Good
      BY <1>2, <2>2, <2>3, UpTo
    <3>. QED BY <1>2, <3>1
  <2>. QED BY <1>3, <2>4 DEF Good
<1>5. /\ Allocator(k) /\ k.blk = n.blk /\ Rising(k.fl) /\ Range(k.fl) = Range(bs)
      /\ k.wsz = Words(n, Range(k.fl))
      /\ \A f \in Fields \ {"blk", "fl", "merge", "wsz"} : k[f] = n[f]
  BY <1>2, <1>4 DEF FreedUpTo
<1>6. /\ k.prev = Nil /\ k.flp = <<>> /\ k.beyond = Nil /\ k.flpmax = max
      /\ k.phase = "idle" /\ k.hp = 0 /\ k.frag = Nil /\ k.least = Nil
  BY <1>1, <1>5 DEF Fields
<1>7. \A a : Sz(k, a) = Sz(n, a) /\ Next_in_mem(k, a) = Next_in_mem(n, a)
  BY <1>5 DEF Sz, Next_in_mem
<1>8. Tiled(k, {c})
  BY <1>1, <1>5, <1>7, TiledSame
<1>9. Range(bs) \subseteq BlockStarts(c) /\ BlockStarts(c) \subseteq Nat \ {0} /\ IsFiniteSet(BlockStarts(c))
      /\ \A a \in BlockStarts(c) : BlockSize(c, a) \in Nat
      /\ (c.words <= MaxWosize => BlockStarts(c) = {c.start})
  <2>1. /\ BlockStarts(c) \subseteq Nat \ {0} /\ IsFiniteSet(BlockStarts(c))
        /\ \A a \in BlockStarts(c) : BlockSize(c, a) \in 0 .. MaxWosize
        /\ (c.words <= MaxWosize => BlockStarts(c) = {c.start})
    BY FillFacts
  <2>2. MaxWosize \in Nat
    BY FreeListAssumption
  <2>. QED BY <1>2, <2>1, <2>2
<1>10. BlueOf(k) = Range(bs)
  <2>1. BlueOf(k) = {a \in BlockStarts(c) : n.blk[a].col = "blue"}
    BY <1>1, <1>5 DEF BlueOf
  <2>2. \A a \in BlockStarts(c) : n.blk[a].col = "blue" <=> BlockSize(c, a) > 0
    BY <1>1, <1>9
  <2>. QED BY <1>2, <2>1, <2>2
<1>11. Listed(k)
  <2>1. \A a \in Range(bs) : Sz(k, a) > 0 /\ Sz(n, a) \in Nat
    BY <1>1, <1>2, <1>7, <1>9
  <2>2. IsFiniteSet(Range(bs))
    BY <1>9, FS_Subset
  <2>3. \A x \in Range(bs) : Sz(n, x) \in Nat /\ Sz(k, x) = Sz(n, x)
    BY <1>7, <2>1
  <2>4. Words(n, Range(bs)) = Words(k, Range(bs))
    BY <2>2, <2>3, WordsSame
  <2>. QED BY <1>5, <1>10, <2>1, <2>4 DEF Listed
<1>12. Apart(k, {c})
  <2>. SUFFICES ASSUME c.words <= MaxWosize, NEW a \in BlueOf(k)
                PROVE  Next_in_mem(k, a) \notin BlueOf(k)
    BY DEF Apart
  <2>1. a = c.start /\ BlueOf(k) \subseteq {c.start} /\ a \in Nat /\ a \in BlockStarts(c)
    BY <1>9, <1>10
  <2>2. Next_in_mem(k, a) = a + BlockSize(c, a) + 1 /\ BlockSize(c, a) \in Nat
    BY <1>1, <1>7, <1>9, <2>1 DEF Next_in_mem
  <2>3. Next_in_mem(k, a) # a
    BY <2>1, <2>2
  <2>. QED BY <2>1, <2>3
<1>13. Held(k, <<>>)
  BY DEF Held
<1>14. HeapInv(k, {c}, c, <<>>)
  <2>1. k.frag \in Nat /\ k.hp \in Nat /\ k.phase # "sweep" /\ c \in {c}
    BY <1>6 DEF Nil
  <2>. HIDE DEF Nil
  <2>. QED BY <1>5, <1>6, <1>8, <1>11, <1>12, <1>13, <2>1 DEF HeapInv
<1>. QED BY <1>6, <1>14 DEF k, n, bs

-----------------------------------------------------------------------------
(* The steps of next fit                                                    *)

\* What next fit keeps of its own besides the list.
Pointers(n) == n.prev \in Range(n.fl) \cup {Nil} /\ n.flp = <<>>

\* A request that next fit answers, or refuses, leaves a heap in order.
LEMMA NextAllocates ==
  ASSUME NEW n, NEW C, NEW sc, NEW lv, HeapInv(n, C, sc, lv), Pointers(n), NEW wo \in Requests
  PROVE  LET r == nf_allocate(n, wo)
             k == [r.m EXCEPT !.last = Nil]
         IN  /\ r.hp # Nil => /\ HeapInv(Given(r, wo), C, sc, Put(lv, r.hp, wo))
                              /\ Pointers(Given(r, wo))
             /\ r.hp = Nil => /\ HeapInv(k, C, sc, lv) /\ Pointers(k)
                              /\ HeapInv(r.m, C, sc, lv) /\ Pointers(r.m)
<1>. DEFINE r == nf_allocate(n, wo)
            k == [r.m EXCEPT !.last = Nil]
            g == Given(r, wo)
<1>1. Searched(n, r, wo) /\ \A f \in {"flp", "beyond", "flpmax"} : r.m[f] = n[f]
  BY NextSearches DEF Pointers
<1>. HIDE DEF r
<1>2. r.m.flp = <<>>
  BY <1>1 DEF Pointers
<1>3. ASSUME r.hp # Nil
      PROVE  HeapInv(g, C, sc, Put(lv, r.hp, wo)) /\ Pointers(g)
  <2>1. /\ HeapInv(g, C, sc, Put(lv, r.hp, wo)) /\ g.prev \in Range(g.fl) \cup {Nil}
        /\ g.fl = r.m.fl /\ g.prev = r.m.prev /\ g.flp = r.m.flp
        /\ g.beyond = r.m.beyond /\ g.flpmax = r.m.flpmax
    BY <1>1, <1>3, GiveKeeps
  <2>. QED BY <1>2, <2>1 DEF Pointers
<1>4. ASSUME r.hp = Nil
      PROVE  HeapInv(k, C, sc, lv) /\ Pointers(k) /\ HeapInv(r.m, C, sc, lv) /\ Pointers(r.m)
  <2>1. /\ HeapInv(r.m, C, sc, lv) /\ r.m.fl = n.fl /\ r.m.prev = n.prev
        /\ HeapInv(k, C, sc, lv) /\ \A f \in Fields \ {"last"} : k[f] = r.m[f]
    BY <1>1, <1>4, RefusedKeeps
  <2>2. k.fl = r.m.fl /\ k.prev = r.m.prev /\ k.flp = r.m.flp
    BY <2>1 DEF Fields
  <2>. QED BY <1>2, <2>1, <2>2 DEF Pointers
<1>. HIDE DEF g, k
<1>5. /\ r.hp # Nil => HeapInv(g, C, sc, Put(lv, r.hp, wo)) /\ Pointers(g)
      /\ r.hp = Nil => HeapInv(k, C, sc, lv) /\ Pointers(k) /\ HeapInv(r.m, C, sc, lv) /\ Pointers(r.m)
  BY <1>3, <1>4
<1>. QED BY <1>5 DEF r, g, k

\* A request that was refused is answered once the heap has a chunk that fits.
LEMMA NextExpands ==
  ASSUME NEW n, NEW C, NEW sc, NEW lv, HeapInv(n, C, sc, lv), Pointers(n), NEW wo \in Requests,
         NEW c \in Places \ C, BlockSize(c, c.start) >= wo
  PROVE  LET r == nf_allocate(add_blocks(Filled(n, c), NewBlocks(c)), wo)
         IN  /\ HeapInv(Given(r, wo), C \cup {c}, sc, Put(lv, r.hp, wo))
             /\ Pointers(Given(r, wo))
<1>. DEFINE q == add_blocks(Filled(n, c), NewBlocks(c))
            r == nf_allocate(q, wo)
            D == C \cup {c}
<1>1. /\ HeapInv(q, D, sc, lv) /\ Cut(n, q) /\ Range(n.fl) \subseteq Range(q.fl)
      /\ c.start \in Range(q.fl) /\ wo <= Sz(q, c.start)
  BY AddedFits
<1>. HIDE DEF q, D
<1>2. Pointers(q)
  <2>1. q.prev = n.prev /\ q.flp = n.flp
    BY <1>1 DEF Cut, Fields
  <2>. QED BY <1>1, <2>1 DEF Pointers
<1>3. r.hp # Nil
  <2>1. q.prev \in Range(q.fl) \cup {Nil}
    BY <1>2 DEF Pointers
  <2>2. r.hp = Nil => \A a \in Range(q.fl) : ~(wo <= Sz(q, a))
    BY <1>1, <2>1, NextSearches
  <2>. QED BY <1>1, <2>2
<1>4. HeapInv(Given(r, wo), D, sc, Put(lv, r.hp, wo)) /\ Pointers(Given(r, wo))
  BY <1>1, <1>2, <1>3, NextAllocates
<1>. QED BY <1>4 DEF r, q, D

\* The sweeper gives a white block back to next fit.
LEMMA NextMerges ==
  ASSUME NEW n, NEW C, NEW sc, NEW lv, HeapInv(n, C, sc, lv), Pointers(n),
         n.phase = "sweep", n.hp < Limit(sc), n.blk[n.hp].col = "white"
  PROVE  LET r == nf_merge_block([n EXCEPT !.hp = Next_in_mem(n, n.hp)], n.hp)
             k == [r.m EXCEPT !.hp = r.next]
         IN  HeapInv(k, C, sc, lv) /\ Pointers(k)
<1>. DEFINE p == [n EXCEPT !.hp = Next_in_mem(n, n.hp)]
            r == nf_merge_block(p, n.hp)
            k == [r.m EXCEPT !.hp = r.next]
<1>1. AtMerge(n, p) /\ p.wsz = n.wsz /\ p.flp = n.flp
  <2>. DEFINE v == Next_in_mem(n, n.hp)
  <2>1. Allocator(n) /\ "hp" \in Fields \ {"blk"}
    BY HeapFacts DEF Fields
  <2>2. p = [n EXCEPT !["hp"] = v]
    OBVIOUS
  <2>. HIDE DEF v, p
  <2>3. Changed(n, p, "hp", v)
    BY <2>1, <2>2, FieldChanges
  <2>. QED BY <2>3 DEF Changed, AtMerge, Fields
<1>. HIDE DEF p
<1>2. n.prev \in Range(n.fl) \cup {Nil} /\ n.flp = <<>>
  BY DEF Pointers
<1>3. HeapInv(k, C, sc, lv) /\ k.prev \in Range(k.fl) \cup {Nil} /\ Before_merge(p, k)
  BY <1>1, <1>2, MergeKeeps
<1>. HIDE DEF k
<1>4. HeapInv(k, C, sc, lv) /\ Pointers(k)
  BY <1>1, <1>2, <1>3 DEF Before_merge, Pointers
<1>. QED BY <1>4 DEF k, r, p

\* The sweeper passes a blue block under next fit.
LEMMA OverBlueKeeps ==
  ASSUME NEW n, NEW C, NEW sc, NEW lv, HeapInv(n, C, sc, lv), Pointers(n),
         n.phase = "sweep", n.hp < Limit(sc), n.blk[n.hp].col = "blue",
         NEW k, OverBlue(n, k)
  PROVE  HeapInv(k, C, sc, lv) /\ Pointers(k)
<1>2. HeapInv(k, C, sc, lv) /\ \A f \in Fields \ {"merge", "hp"} : k[f] = n[f]
  BY BlueKeeps
<1>3. k.fl = n.fl /\ k.prev = n.prev /\ k.flp = n.flp
  BY <1>2 DEF Fields
<1>. QED BY <1>2, <1>3 DEF Pointers

\* The sweeper passes a black block and whitens it under next fit.
LEMMA OverBlackKeeps ==
  ASSUME NEW n, NEW C, NEW sc, NEW lv, HeapInv(n, C, sc, lv), Pointers(n),
         n.phase = "sweep", n.hp < Limit(sc), n.blk[n.hp].col = "black",
         NEW k, OverBlack(n, k)
  PROVE  HeapInv(k, C, sc, lv) /\ Pointers(k)
<1>2. HeapInv(k, C, sc, lv) /\ \A f \in Fields \ {"blk", "hp"} : k[f] = n[f]
  BY BlackKeeps
<1>3. k.fl = n.fl /\ k.prev = n.prev /\ k.flp = n.flp
  BY <1>2 DEF Fields
<1>. QED BY <1>2, <1>3 DEF Pointers

\* The sweep begins at the lowest chunk under next fit.
LEMMA StartsKeeps ==
  ASSUME NEW n, NEW C, NEW sc, NEW lv, HeapInv(n, C, sc, lv), Pointers(n),
         NEW c \in C, \A d \in C : c.start <= d.start, NEW k, Starts(n, lv, c, k)
  PROVE  HeapInv(k, C, c, lv) /\ Pointers(k)
<1>2. /\ HeapInv(k, C, c, lv)
      /\ \A f \in Fields \ {"blk", "phase", "hp", "frag", "merge"} : k[f] = n[f]
  BY StartKeeps
<1>3. k.fl = n.fl /\ k.prev = n.prev /\ k.flp = n.flp
  BY <1>2 DEF Fields
<1>. QED BY <1>2, <1>3 DEF Pointers

-----------------------------------------------------------------------------
(* The invariant of next fit                                                *)

FLInv ==
  /\ policy \in Policies
  /\ policy = "next" => HeapInv(m, chunks, scan, live) /\ Pointers(m)

\* The first heap is in order.
LEMMA FLInitInv == FLInit => FLInv
<1>. SUFFICES ASSUME FLInit, policy = "next" PROVE HeapInv(m, chunks, scan, live) /\ Pointers(m)
  BY DEF FLInit, FLInv
<1>1. PICK c \in Places : \E max \in {1} :
        /\ chunks = {c} /\ scan = c /\ live = <<>>
        /\ m = FreedAll(Filled([Free0 EXCEPT !.flpmax = max], c), NewBlocks(c))
  BY Zenon DEF FLInit, FreedAll
<1>2. /\ HeapInv(m, {c}, c, <<>>) /\ m.prev = Nil /\ m.flp = <<>>
  <2>. DEFINE one == 1
  <2>1. one \in Nat /\ m = FreedAll(Filled([Free0 EXCEPT !.flpmax = one], c), NewBlocks(c))
    BY <1>1
  <2>. HIDE DEF one
  <2>. QED BY <2>1, FirstHeap
<1>. QED BY <1>1, <1>2 DEF Pointers

\* Every step of the allocator and of the sweeper keeps it in order.
LEMMA FLNextInv == FLInv /\ [FLNext]_vars => FLInv'
<1>. SUFFICES ASSUME FLInv, [FLNext]_vars, policy = "next"
              PROVE  HeapInv(m', chunks', scan', live') /\ Pointers(m')
  BY DEF FLInv, FLNext, vars, Alloc, AllocExpand, AllocOutOfMemory, Drop, init_sweep_phase,
         sweep_white, sweep_blue, sweep_black, sweep_chunk
<1>1. HeapInv(m, chunks, scan, live) /\ Pointers(m)
  BY DEF FLInv
<1>2. ASSUME NEW wo \in Requests, Alloc(wo)
      PROVE  HeapInv(m', chunks', scan', live') /\ Pointers(m')
  <2>. DEFINE r == nf_allocate(m, wo)
  <2>1. /\ r.hp # Nil /\ m' = Given(r, wo) /\ live' = Put(live, r.hp, wo)
        /\ chunks' = chunks /\ scan' = scan
    BY <1>2 DEF Alloc, Give, Given, caml_fl_allocate
  <2>2. HeapInv(Given(r, wo), chunks, scan, Put(live, r.hp, wo)) /\ Pointers(Given(r, wo))
    BY <1>1, <2>1, NextAllocates
  <2>. HIDE DEF r
  <2>. QED BY <2>1, <2>2
<1>3. ASSUME NEW wo \in Requests, AllocExpand(wo)
      PROVE  HeapInv(m', chunks', scan', live') /\ Pointers(m')
  <2>. DEFINE r == nf_allocate(m, wo)
              n == r.m
              s(c) == nf_allocate(add_blocks(Filled(n, c), NewBlocks(c)), wo)
  <2>1. PICK c \in Places \ chunks :
          /\ r.hp = Nil /\ BlockSize(c, c.start) >= wo
          /\ m' = Given(s(c), wo) /\ live' = Put(live, s(c).hp, wo)
          /\ chunks' = chunks \cup {c} /\ scan' = scan
    BY <1>3 DEF AllocExpand, Give, Given, caml_fl_allocate, caml_fl_add_blocks
  <2>2. HeapInv(n, chunks, scan, live) /\ Pointers(n)
    BY <1>1, <2>1, NextAllocates
  <2>. HIDE DEF n
  <2>3. /\ HeapInv(Given(s(c), wo), chunks \cup {c}, scan, Put(live, s(c).hp, wo))
        /\ Pointers(Given(s(c), wo))
    BY <2>1, <2>2, NextExpands
  <2>. HIDE DEF s
  <2>. QED BY <2>1, <2>3
<1>4. ASSUME NEW wo \in Requests, AllocOutOfMemory(wo)
      PROVE  HeapInv(m', chunks', scan', live') /\ Pointers(m')
  <2>. DEFINE r == nf_allocate(m, wo)
  <2>1. /\ r.hp = Nil /\ m' = [r.m EXCEPT !.last = Nil] /\ live' = live
        /\ chunks' = chunks /\ scan' = scan
    BY <1>4 DEF AllocOutOfMemory, caml_fl_allocate
  <2>2. HeapInv([r.m EXCEPT !.last = Nil], chunks, scan, live) /\ Pointers([r.m EXCEPT !.last = Nil])
    BY <1>1, <2>1, NextAllocates
  <2>. HIDE DEF r
  <2>. QED BY <2>1, <2>2
<1>5. ASSUME Drop PROVE HeapInv(m', chunks', scan', live') /\ Pointers(m')
  <2>1. PICK a \in DOMAIN live : /\ live' = Without(live, a)
                                 /\ m' = m /\ chunks' = chunks /\ scan' = scan
    BY <1>5 DEF Drop
  <2>. QED BY <1>1, <2>1, DropKeeps
<1>6. ASSUME init_sweep_phase PROVE HeapInv(m', chunks', scan', live') /\ Pointers(m')
  <2>1. PICK first \in chunks :
          /\ \A c \in chunks : first.start <= c.start
          /\ scan' = first /\ chunks' = chunks /\ live' = live
          /\ Starts(m, live, first, m')
    BY <1>6 DEF init_sweep_phase, caml_fl_init_merge, Starts
  <2>2. HeapInv(m', chunks, first, live) /\ Pointers(m')
    BY <1>1, <2>1, StartsKeeps
  <2>. QED BY <2>1, <2>2
<1>7. ASSUME sweep_white PROVE HeapInv(m', chunks', scan', live') /\ Pointers(m')
  <2>. DEFINE r == nf_merge_block([m EXCEPT !.hp = Next_in_mem(m, m.hp)], m.hp)
              k == [r.m EXCEPT !.hp = r.next]
  <2>1. /\ m.phase = "sweep" /\ m.hp < Limit(scan) /\ m.blk[m.hp].col = "white"
        /\ m' = k /\ chunks' = chunks /\ scan' = scan /\ live' = live
    BY <1>7 DEF sweep_white, Sweeping, caml_fl_merge_block
  <2>2. HeapInv(k, chunks, scan, live) /\ Pointers(k)
    BY <1>1, <2>1, NextMerges
  <2>. HIDE DEF k
  <2>. QED BY <2>1, <2>2
<1>8. ASSUME sweep_blue PROVE HeapInv(m', chunks', scan', live') /\ Pointers(m')
  <2>1. /\ m.phase = "sweep" /\ m.hp < Limit(scan) /\ m.blk[m.hp].col = "blue"
        /\ OverBlue(m, m') /\ chunks' = chunks /\ scan' = scan /\ live' = live
    BY <1>8 DEF sweep_blue, Sweeping, OverBlue
  <2>2. HeapInv(m', chunks, scan, live) /\ Pointers(m')
    BY <1>1, <2>1, OverBlueKeeps
  <2>. QED BY <2>1, <2>2
<1>9. ASSUME sweep_black PROVE HeapInv(m', chunks', scan', live') /\ Pointers(m')
  <2>1. /\ m.phase = "sweep" /\ m.hp < Limit(scan) /\ m.blk[m.hp].col = "black"
        /\ OverBlack(m, m') /\ chunks' = chunks /\ scan' = scan /\ live' = live
    BY <1>9 DEF sweep_black, Sweeping, OverBlack
  <2>2. HeapInv(m', chunks, scan, live) /\ Pointers(m')
    BY <1>1, <2>1, OverBlackKeeps
  <2>. QED BY <2>1, <2>2
<1>10. ASSUME sweep_chunk PROVE HeapInv(m', chunks', scan', live') /\ Pointers(m')
  <2>1. /\ m.phase = "sweep" /\ m.hp = Limit(scan) /\ chunks' = chunks /\ live' = live
    BY <1>10 DEF sweep_chunk
  <2>2. CASE Chunk_next(scan) = {}
    <3>1. m' = [m EXCEPT !.phase = "idle"] /\ scan' = scan
      BY <1>10, <2>2 DEF sweep_chunk
    <3>2. HeapInv(m', chunks, scan, live) /\ \A f \in Fields \ {"phase"} : m'[f] = m[f]
      BY <1>1, <3>1, EndKeeps
    <3>3. m'.fl = m.fl /\ m'.prev = m.prev /\ m'.flp = m.flp
      BY <3>2 DEF Fields
    <3>. QED BY <1>1, <2>1, <3>1, <3>2, <3>3 DEF Pointers
  <2>3. CASE Chunk_next(scan) # {}
    <3>1. PICK c \in Chunk_next(scan) :
            /\ \A d \in Chunk_next(scan) : c.start <= d.start
            /\ scan' = c /\ m' = [m EXCEPT !.hp = c.start]
      BY <1>10, <2>3 DEF sweep_chunk
    <3>2. /\ c \in chunks /\ c.start > scan.start
          /\ \A d \in chunks : d.start > scan.start => c.start <= d.start
      BY <3>1 DEF Chunk_next
    <3>3. HeapInv(m', chunks, c, live) /\ \A f \in Fields \ {"hp"} : m'[f] = m[f]
      BY <1>1, <2>1, <3>1, <3>2, ChunkKeeps
    <3>4. m'.fl = m.fl /\ m'.prev = m.prev /\ m'.flp = m.flp
      BY <3>3 DEF Fields
    <3>. QED BY <1>1, <2>1, <3>1, <3>3, <3>4 DEF Pointers
  <2>. QED BY <2>2, <2>3
<1>11. ASSUME UNCHANGED vars PROVE HeapInv(m', chunks', scan', live') /\ Pointers(m')
  BY <1>1, <1>11 DEF vars
<1>. QED BY <1>2, <1>3, <1>4, <1>5, <1>6, <1>7, <1>8, <1>9, <1>10, <1>11 DEF FLNext

-----------------------------------------------------------------------------
(* What the invariant says of the heap                                      *)

\* The blocks tile the chunks, and what the program holds is not free.
LEMMA HeapShowsTiled ==
  ASSUME policy # "best", HeapInv(m, chunks, scan, live)
  PROVE  HeapTiled
<1>1. /\ Tiled(m, chunks) /\ Range(m.fl) = BlueOf(m) /\ Held(m, live)
  BY HeapFacts
<1>2. FreeSet = BlueOf(m) /\ Blue = BlueOf(m)
  BY <1>1 DEF FreeSet, Blue, BlueOf
<1>3. \A c \in chunks : c.start \in DOMAIN m.blk
  BY <1>1 DEF Tiled
<1>4. \A a \in DOMAIN m.blk :
        Next_in_mem(m, a) \in DOMAIN m.blk \union {Limit(c) : c \in chunks}
  <2>. SUFFICES ASSUME NEW a \in DOMAIN m.blk
                PROVE  Next_in_mem(m, a) \in DOMAIN m.blk \union {Limit(c) : c \in chunks}
    OBVIOUS
  <2>1. PICK c \in chunks : Inside(m, a, c)
    BY <1>1 DEF Tiled
  <2>. QED BY <2>1 DEF Inside
<1>5. Words(m, DOMAIN m.blk) = ChunkWords(chunks)
  BY <1>1, TiledWords
<1>6. \A a \in DOMAIN live : Sz(m, a) = live[a] /\ a \notin FreeSet \union Blue
  BY <1>1, <1>2 DEF Held, BlueOf
<1>. QED BY <1>3, <1>4, <1>5, <1>6 DEF HeapTiled, ChunkWords

\* The free list is the blue blocks, and its size is caml_fl_cur_wsz.
LEMMA HeapShowsFreeSet ==
  ASSUME policy # "best", HeapInv(m, chunks, scan, live)
  PROVE  FreeSetExact
<1>1. Range(m.fl) = BlueOf(m) /\ m.wsz = Words(m, Range(m.fl))
  BY HeapFacts
<1>2. FreeSet = Range(m.fl) /\ Blue = BlueOf(m)
  BY DEF FreeSet, Blue, BlueOf
<1>. QED BY <1>1, <1>2 DEF FreeSetExact

\* The list is sorted and caml_fl_merge is its last block behind the sweeper.
LEMMA HeapShowsList ==
  ASSUME HeapInv(m, chunks, scan, live)
  PROVE  ListInOrder
<1>1. Rising(m.fl) /\ Range(m.fl) \in SUBSET (Nat \ {0}) /\ m.hp \in Nat
  BY HeapFacts
<1>2. Ascending(m.fl)
  <2>1. Len(m.fl) \in Nat
    BY <1>1, RisingRange
  <2>. SUFFICES ASSUME NEW i \in 1 .. Len(m.fl) - 1 PROVE m.fl[i] < m.fl[i + 1]
    BY DEF Ascending
  <2>2. i \in 1 .. Len(m.fl) /\ i + 1 \in 1 .. Len(m.fl) /\ i < i + 1
    BY <2>1
  <2>. QED BY <1>1, <2>2 DEF Rising
<1>3. ASSUME m.phase = "sweep" PROVE m.merge = LastBelow(m, m.hp)
  <2>1. NextBelow(Range(m.fl), m.hp, m.merge)
    BY <1>3 DEF HeapInv, Swept
  <2>2. NextBelow(Range(m.fl), m.hp, LastBelow(m, m.hp))
    BY <1>1, LastBelowFacts
  <2>. QED BY <1>1, <2>1, <2>2, BelowUnique
<1>. QED BY <1>2, <1>3 DEF ListInOrder

\* Free blocks that lie side by side are coalesced.
LEMMA HeapShowsCoalesced ==
  ASSUME HeapInv(m, chunks, scan, live)
  PROVE  Coalesced
<1>1. Apart(m, chunks) /\ Tiled(m, chunks) /\ DOMAIN m.blk \subseteq Nat \ {0}
  BY HeapFacts
<1>2. Blue = BlueOf(m)
  BY DEF Blue, BlueOf
<1>. SUFFICES ASSUME NEW c \in chunks, NEW a \in Blue, c.words <= MaxWosize,
                     a \in c.start .. Limit(c)
              PROVE  Next_in_mem(m, a) \notin Blue
  BY DEF Coalesced
<1>3. c.start \in Nat /\ Limit(c) \in Nat
  BY <1>1, PlaceFacts DEF Tiled
<1>4. c.start <= a /\ a <= Limit(c)
  BY <1>3
<1>. QED BY <1>1, <1>2, <1>4 DEF Apart

\* The type invariant, where nf_prev and the records name blocks of the list or its head.
LEMMA HeapShowsType ==
  ASSUME policy \in Policies, HeapInv(m, chunks, scan, live),
         m.prev \in Range(m.fl) \cup {Nil}, Range(m.flp) \subseteq Range(m.fl) \cup {Nil}
  PROVE  FLTypeOK
<1>1. /\ Allocator(m) /\ Tiled(m, chunks) /\ scan \in chunks
      /\ Range(m.fl) \subseteq DOMAIN m.blk /\ m.wsz \in Nat /\ Held(m, live)
      /\ m.phase \in {"idle", "sweep"} /\ m.least = Nil
  BY HeapFacts
<1>2. chunks \subseteq Places
  BY <1>1 DEF Tiled
<1>3. \A a \in DOMAIN m.blk : /\ m.blk[a].sz \in 0 .. MaxWosize
                              /\ m.blk[a].col \in {"white", "blue", "black"}
  BY <1>1 DEF Allocator, Header, Colours
<1>4. {m.prev, m.least} \union Range(m.flp) \subseteq DOMAIN m.blk \union {Nil}
  BY <1>1
<1>5. DOMAIN live \subseteq DOMAIN m.blk
  BY <1>1 DEF Held
<1>. QED BY <1>1, <1>2, <1>3, <1>4, <1>5 DEF FLTypeOK

\* Next fit refuses a request only when no free block is large enough.
LEMMA NextFinds ==
  ASSUME policy = "next", HeapInv(m, chunks, scan, live), m.prev \in Range(m.fl) \cup {Nil}
  PROVE  FitFound
<1>. SUFFICES ASSUME NEW wo \in Requests
              PROVE  LET hp == nf_allocate(m, wo).hp
                         fit == {a \in Range(m.fl) : Sz(m, a) >= wo}
                     IN IF fit = {} THEN hp = Nil
                        ELSE \E a \in fit : hp = a + Sz(m, a) - wo
  BY DEF FitFound, caml_fl_allocate, FreeSet
<1>. DEFINE r == nf_allocate(m, wo)
            fit == {a \in Range(m.fl) : Sz(m, a) >= wo}
<1>1. Searched(m, r, wo) /\ (r.hp = Nil => \A a \in Range(m.fl) : ~(wo <= Sz(m, a)))
  BY NextSearches
<1>2. wo \in Nat /\ \A a \in Range(m.fl) : Sz(m, a) \in Nat
  <2>1. wo \in 1 .. MaxWosize /\ MaxWosize \in Nat
    BY FreeListAssumption
  <2>2. \A a \in Range(m.fl) : Sz(m, a) \in Nat
    BY HeapFacts
  <2>. QED BY <2>1, <2>2
<1>. HIDE DEF r
<1>3. ASSUME r.hp # Nil PROVE \E a \in fit : r.hp = a + Sz(m, a) - wo
  <2>1. PICK cur \in Range(m.fl) : wo <= Sz(m, cur) /\ r.hp = Piece(m, wo, cur)
    BY <1>1, <1>3 DEF Searched, Found
  <2>2. cur \in fit
    BY <1>2, <2>1
  <2>. QED BY <2>1, <2>2 DEF Piece
<1>4. ASSUME r.hp = Nil PROVE fit = {}
  BY <1>1, <1>2, <1>4
<1>. QED BY <1>3, <1>4 DEF r

\* Every step of next fit keeps the invariant.
LEMMA FLInvAlways == FLSpec => []FLInv
<1>. QED BY FLInitInv, FLNextInv, PTL DEF FLSpec

\* The type invariant of the allocator's state under next fit.
THEOREM NextFitType == FLSpec => [](policy = "next" => FLTypeOK)
<1>1. FLInv => (policy = "next" => FLTypeOK)
  <2>. SUFFICES ASSUME FLInv, policy = "next" PROVE FLTypeOK
    OBVIOUS
  <2>1. HeapInv(m, chunks, scan, live) /\ Pointers(m) /\ policy \in Policies
    BY DEF FLInv
  <2>2. m.prev \in Range(m.fl) \cup {Nil} /\ Range(m.flp) \subseteq Range(m.fl) \cup {Nil}
    BY <2>1 DEF Pointers, Range
  <2>. QED BY <2>1, <2>2, HeapShowsType
<1>. QED BY <1>1, FLInvAlways, PTL

\* Under next fit the blocks tile the chunks, and what the program holds keeps its
\* size and is never free.
THEOREM NextFitTiled == FLSpec => [](policy = "next" => HeapTiled)
<1>1. FLInv => (policy = "next" => HeapTiled)
  <2>. SUFFICES ASSUME FLInv, policy = "next" PROVE HeapTiled
    OBVIOUS
  <2>1. HeapInv(m, chunks, scan, live) /\ Pointers(m)
    BY DEF FLInv
  <2>. QED BY <2>1, HeapShowsTiled
<1>. QED BY <1>1, FLInvAlways, PTL

\* Under next fit the free list is the blue blocks and caml_fl_cur_wsz their size.
THEOREM NextFitFreeSet == FLSpec => [](policy = "next" => FreeSetExact)
<1>1. FLInv => (policy = "next" => FreeSetExact)
  <2>. SUFFICES ASSUME FLInv, policy = "next" PROVE FreeSetExact
    OBVIOUS
  <2>1. HeapInv(m, chunks, scan, live) /\ Pointers(m)
    BY DEF FLInv
  <2>. QED BY <2>1, HeapShowsFreeSet
<1>. QED BY <1>1, FLInvAlways, PTL

\* Under next fit the list is sorted, nf_prev names a block of it or the head, and
\* caml_fl_merge is where nf_check wants it.
THEOREM NextFitTables == FLSpec => [](policy = "next" => PolicyTables)
<1>1. FLInv => (policy = "next" => PolicyTables)
  <2>. SUFFICES ASSUME FLInv, policy = "next" PROVE PolicyTables
    OBVIOUS
  <2>1. HeapInv(m, chunks, scan, live) /\ Pointers(m)
    BY DEF FLInv
  <2>2. ListInOrder
    BY <2>1, HeapShowsList
  <2>3. m.prev \in Range(m.fl) \cup {Nil}
    BY <2>1 DEF Pointers
  <2>. QED BY <2>2, <2>3 DEF PolicyTables
<1>. QED BY <1>1, FLInvAlways, PTL

\* Under next fit two free blocks side by side are always coalesced.
THEOREM NextFitCoalesces == FLSpec => [](policy = "next" => Coalesced)
<1>1. FLInv => (policy = "next" => Coalesced)
  <2>. SUFFICES ASSUME FLInv, policy = "next" PROVE Coalesced
    OBVIOUS
  <2>1. HeapInv(m, chunks, scan, live) /\ Pointers(m)
    BY DEF FLInv
  <2>. QED BY <2>1, HeapShowsCoalesced
<1>. QED BY <1>1, FLInvAlways, PTL

\* Next fit refuses a request only when no free block is large enough, and gives the
\* end of one that is.
THEOREM NextFitFinds == FLSpec => [](policy = "next" => FitFound)
<1>1. FLInv => (policy = "next" => FitFound)
  <2>. SUFFICES ASSUME FLInv, policy = "next" PROVE FitFound
    OBVIOUS
  <2>1. HeapInv(m, chunks, scan, live) /\ Pointers(m)
    BY DEF FLInv
  <2>2. m.prev \in Range(m.fl) \cup {Nil}
    BY <2>1 DEF Pointers
  <2>. QED BY <2>1, <2>2, NextFinds
<1>. QED BY <1>1, FLInvAlways, PTL
=============================================================================
