------------------------------ MODULE FreeList ------------------------------
(***************************************************************************)
(* The major heap of the OCaml runtime as its three allocation policies    *)
(* keep it: caml_alloc_shr and expand_heap of memory.c, the free set of    *)
(* freelist.c and the sweeper of major_gc.c.  The program may allocate and *)
(* drop blocks between any two steps of the sweeper.  Marking is done in   *)
(* one step: what the program holds is black.                              *)
(*   m      the allocator and the headers of the heap (see NextFit)        *)
(*   scan   sweep_chunk                                                    *)
(*   live   the blocks the program holds, with the sizes it asked for      *)
(* The heap is the set of chunks; a chunk is the address of its first word *)
(* and its number of words, and malloc picks any free one.                 *)
(***************************************************************************)
EXTENDS FirstFit, BestFit

CONSTANTS Policies,      \* allocation policies, of "next", "first", "best"
          FlpMaxes,      \* the values of FLP_MAX to try
          Places,        \* where malloc can put a chunk: start and words
          Requests,      \* the sizes the program asks for
          MaxLive        \* a bound on the blocks the program holds at once

VARIABLES policy, chunks, m, scan, live
vars == <<policy, chunks, m, scan, live>>

\* The header of a chunk lies before its first word, so that no chunk begins
\* where another one ends.
ASSUME FreeListAssumption ==
  /\ Policies \subseteq {"next", "first", "best"}
  /\ MaxWosize \in Nat \ {0} /\ Requests \subseteq 1 .. MaxWosize
  /\ MaxLive \in Nat /\ NumSmall \in Nat \ {0} /\ FlpMaxes \subseteq Nat \ {0}
  /\ Places \subseteq [start : Nat \ {0}, words : Nat \ {0, 1}]
  /\ \A p, q \in Places :
       p # q => p.start + p.words < q.start \/ q.start + q.words < p.start

Limit(c) == c.start + c.words
Chunk_next(c) == {d \in chunks : d.start > c.start}
-----------------------------------------------------------------------------
(* caml_fl_allocate, caml_fl_init_merge, caml_fl_merge_block,               *)
(* caml_fl_add_blocks: the policy's own                                     *)
caml_fl_allocate(n, wo) == CASE policy = "next"  -> nf_allocate(n, wo)
                             [] policy = "first" -> ff_allocate(n, wo)
                             [] policy = "best"  -> bf_allocate(n, wo)
caml_fl_init_merge(n) ==
  IF policy = "best" THEN bf_init_merge(n) ELSE init_merge(n)
caml_fl_merge_block(n, bp, limit) ==
  CASE policy = "next"  -> nf_merge_block(n, bp)
    [] policy = "first" -> ff_merge_block(n, bp)
    [] policy = "best"  -> bf_merge_block(n, bp, limit)
caml_fl_add_blocks(n, bs) ==
  CASE policy = "next"  -> add_blocks(n, bs)
    [] policy = "first" -> ff_add_blocks(n, bs)
    [] policy = "best"  -> bf_add_blocks(n, bs)

(* caml_alloc_for_heap, expand_heap: the chunk c filled with blue blocks,   *)
(* as large as they can be, and at most one white fragment at its end       *)
BlockStarts(c) == {a \in c.start .. Limit(c) - 1 :
                     (a - c.start) % (MaxWosize + 1) = 0}
BlockSize(c, a) == Min({MaxWosize, Limit(c) - a - 1})
Filled(n, c) ==
  [n EXCEPT !.blk = [a \in BlockStarts(c) \union DOMAIN @ |->
     IF a \notin BlockStarts(c) THEN @[a]
     ELSE Block(BlockSize(c, a), IF BlockSize(c, a) = 0 THEN "white" ELSE "blue")]]
NewBlocks(c) == Sorted({a \in BlockStarts(c) : BlockSize(c, a) > 0})

Free0 == [blk |-> <<>>, fl |-> <<>>, wsz |-> 0, merge |-> Nil, prev |-> Nil,
          last |-> Nil, frag |-> Nil, hp |-> 0, phase |-> "idle",
          flpmax |-> 1, flp |-> <<>>, beyond |-> Nil,
          small |-> [s \in 1 .. NumSmall |-> <<>>],
          smerge |-> [s \in 1 .. NumSmall |-> Nil],
          map |-> {}, tree |-> <<>>, least |-> Nil]

(* caml_init_major_heap: caml_make_free_blocks frees the first chunk.       *)
FLInit ==
  /\ policy \in Policies
  /\ \E c \in Places : \E max \in IF policy = "first" THEN FlpMaxes ELSE {1} :
       /\ chunks = {c} /\ scan = c
       /\ m = LET n == Filled([Free0 EXCEPT !.flpmax = max], c)
                  free(k, a) == nf_merge_block(InPlace(k, a, "white"), a).m
              IN IF policy = "best" THEN bf_add_blocks(n, NewBlocks(c))
                 ELSE FoldLeft(free, n, NewBlocks(c))
  /\ live = <<>>

(* caml_allocation_color that forgets where the sweeper is *)
caml_allocation_color_white(n, hp) == "white"

(* caml_allocation_color: a block the sweeper has yet to meet must be black. *)
caml_allocation_color(n, hp) ==
  IF n.phase = "sweep" /\ hp >= n.hp THEN "black" ELSE "white"

(* nf_last and ff_last mean nothing once the request has been answered.      *)
Give(r, wo) == /\ m' = [Hd(r.m, r.hp, wo, caml_allocation_color(r.m, r.hp))
                           EXCEPT !.last = Nil]
               /\ live' = Put(live, r.hp, wo)

(* caml_alloc_shr: from the free set, or from a new chunk, or out of memory. *)
Alloc(wo) ==
  LET r == caml_fl_allocate(m, wo)
  IN /\ r.hp # Nil
     /\ Give(r, wo)
     /\ UNCHANGED <<policy, chunks, scan>>

AllocExpand(wo) ==
  LET r == caml_fl_allocate(m, wo)
  IN /\ r.hp = Nil
     /\ \E c \in Places \ chunks :
          /\ BlockSize(c, c.start) >= wo
          /\ chunks' = chunks \union {c}
          /\ Give(caml_fl_allocate(caml_fl_add_blocks(Filled(r.m, c), NewBlocks(c)), wo), wo)
     /\ UNCHANGED <<policy, scan>>

AllocOutOfMemory(wo) ==
  LET r == caml_fl_allocate(m, wo)
  IN /\ r.hp = Nil
     /\ m' = [r.m EXCEPT !.last = Nil]
     /\ UNCHANGED <<policy, chunks, scan, live>>

Drop == \E a \in DOMAIN live : /\ live' = Without(live, a)
                               /\ UNCHANGED <<policy, chunks, m, scan>>

(* The end of marking and init_sweep_phase, from the lowest chunk.          *)
init_sweep_phase ==
  /\ m.phase = "idle"
  /\ \E first \in chunks :
       /\ \A c \in chunks : first.start <= c.start
       /\ scan' = first
       /\ m' = [caml_fl_init_merge(
                  [m EXCEPT !.blk = [a \in DOMAIN @ |-> IF a \in DOMAIN live
                       THEN [@[a] EXCEPT !.col = "black"] ELSE @[a]]])
                EXCEPT !.phase = "sweep", !.hp = first.start]
  /\ UNCHANGED <<policy, chunks, live>>

(* sweep_slice: the block at caml_gc_sweep_hp                               *)
Sweeping == m.phase = "sweep" /\ m.hp < Limit(scan)
sweep_white ==
  /\ Sweeping /\ m.blk[m.hp].col = "white"
  /\ LET past == [m EXCEPT !.hp = Next_in_mem(m, m.hp)]
         r == caml_fl_merge_block(past, m.hp, Limit(scan))
     IN m' = [r.m EXCEPT !.hp = r.next]
  /\ UNCHANGED <<policy, chunks, scan, live>>
sweep_blue ==
  /\ Sweeping /\ m.blk[m.hp].col = "blue"
  /\ m' = [m EXCEPT !.merge = m.hp, !.hp = Next_in_mem(m, m.hp)]
  /\ UNCHANGED <<policy, chunks, scan, live>>
sweep_black ==
  /\ Sweeping /\ m.blk[m.hp].col = "black"
  /\ m' = [InPlace(m, m.hp, "white") EXCEPT !.hp = Next_in_mem(m, m.hp)]
  /\ UNCHANGED <<policy, chunks, scan, live>>

(* sweep_slice: the next chunk, by address, or the end                      *)
sweep_chunk ==
  /\ m.phase = "sweep" /\ m.hp = Limit(scan)
  /\ IF Chunk_next(scan) = {}
       THEN m' = [m EXCEPT !.phase = "idle"] /\ UNCHANGED scan
       ELSE \E c \in Chunk_next(scan) :
              /\ \A d \in Chunk_next(scan) : c.start <= d.start
              /\ scan' = c /\ m' = [m EXCEPT !.hp = c.start]
  /\ UNCHANGED <<policy, chunks, live>>

FLNext == \/ /\ Cardinality(DOMAIN live) < MaxLive
             /\ \E wo \in Requests : Alloc(wo) \/ AllocExpand(wo) \/ AllocOutOfMemory(wo)
          \/ Drop \/ init_sweep_phase
          \/ sweep_white \/ sweep_blue \/ sweep_black \/ sweep_chunk

FLSpec == FLInit /\ [][FLNext]_vars
-----------------------------------------------------------------------------
FreeSet ==               \* the blocks the policy can give
  IF policy = "best" THEN UNION {Range(m.small[s]) : s \in 1 .. NumSmall}
                          \union UNION {Range(m.tree[s]) : s \in DOMAIN m.tree}
  ELSE Range(m.fl)
Blue == {a \in DOMAIN m.blk : m.blk[a].col = "blue"}
Ascending(l) == \A i \in 1 .. Len(l) - 1 : l[i] < l[i + 1]

(* The type invariant of the allocator's state: nf_prev, the least large    *)
(* block of best fit and the records of flp are null or the address of a    *)
(* block.  The pointers into the list are PolicyTables'.                    *)
FLTypeOK ==
  /\ policy \in Policies /\ chunks \subseteq Places /\ scan \in chunks
  /\ m.phase \in {"idle", "sweep"} /\ m.wsz \in Nat
  /\ \A a \in DOMAIN m.blk : /\ m.blk[a].sz \in 0 .. MaxWosize
                             /\ m.blk[a].col \in {"white", "blue", "black"}
  /\ {m.prev, m.least} \union Range(m.flp) \subseteq DOMAIN m.blk \union {Nil}
  /\ DOMAIN live \subseteq DOMAIN m.blk

(* Splitting, merging and growing never lose or overlap a word: the blocks  *)
(* tile every chunk exactly, and a block that the program holds keeps the   *)
(* size it asked for and is never taken for a free one.                     *)
HeapTiled ==
  /\ \A c \in chunks : c.start \in DOMAIN m.blk
  /\ \A a \in DOMAIN m.blk :
       Next_in_mem(m, a) \in DOMAIN m.blk \union {Limit(c) : c \in chunks}
  /\ Words(m, DOMAIN m.blk) = FoldSet(LAMBDA c, n : n + c.words, 0, chunks)
  /\ \A a \in DOMAIN live : Sz(m, a) = live[a] /\ a \notin FreeSet \union Blue

(* The free set is what the headers say it is: a blue block is in it, any   *)
(* other block in it is a best-fit remnant, caml_fl_cur_wsz is its size,    *)
(* and while the sweeper runs nothing ahead of it is in the set and white.  *)
FreeSetExact ==
  /\ Blue \subseteq FreeSet
  /\ \A a \in FreeSet \ Blue :
       /\ policy = "best" /\ Sz(m, a) \in 1 .. NumSmall
       /\ m.phase = "sweep" => a < m.hp
  /\ m.wsz = Words(m, FreeSet)

(* Each policy's tables are what its code relies on while the program       *)
(* allocates and the sweeper merges in turn.  The list is sorted, next fit  *)
(* goes on from a block of it, and while sweeping caml_fl_merge is its last *)
(* block behind the sweeper.                                                *)
ListInOrder ==
  /\ Ascending(m.fl)
  /\ m.phase = "sweep" =>
       m.merge = LastBelow(m, m.hp)

\* First fit: Next_small(flp[i]) and Next_small(beyond) may be dereferenced.
FlpSafe ==
  /\ Len(m.flp) <= m.flpmax
  /\ \A i \in 1 .. Len(m.flp) : /\ m.flp[i] \in Range(m.fl) \union {Nil}
                               /\ m.flp[i] < LastFree(m)
                               /\ \A j \in 1 .. i - 1 : m.flp[j] < m.flp[i]
  /\ m.beyond \in Range(m.fl) \union {Nil}
  /\ m.beyond # Nil => \A i \in 1 .. Len(m.flp) : m.flp[i] < m.beyond

\* The records are the first blocks larger than all before them, and beyond
\* skips no such block.  The code keeps this only while the table has room for
\* all of them, as it has when it has room for every size.
FlpRecords ==
  LET all == Maxima(m, 1, Len(m.fl), 0)
      n == Len(m.flp)
  IN /\ n <= Len(all)
     /\ \A i \in 1 .. n : Next_small(m, m.flp[i]) = m.fl[all[i]]
     /\ n < Len(all) /\ m.beyond # Nil => all[n + 1] > Pos(m, m.beyond)

\* Best fit: the small lists, their merge pointers, the bitmap, the tree and
\* the least block agree.  What lies behind a merge pointer lies behind the
\* sweeper: bf_check asserts more, that it lies behind caml_fl_merge, but
\* bf_insert_sweep moves the pointer past the last blue block swept.
BestFitTables ==
  /\ \A s \in 1 .. NumSmall :
       LET l == m.small[s]
       IN /\ \A a \in Range(l) : Sz(m, a) = s
          /\ \A i, j \in 1 .. Len(l) :
               i < j /\ l[i] \in Blue => l[i] < l[j] /\ l[j] \in Blue
          /\ s \in m.map <=> l # <<>>
          /\ m.phase = "sweep" =>
               /\ m.smerge[s] \in Range(l) \union {Nil}
               /\ \A i \in 1 .. Behind(m, s) : l[i] < m.hp
               /\ \A i \in Behind(m, s) + 1 .. Len(l) : l[i] \in Blue
  /\ \A s \in DOMAIN m.tree : /\ s > NumSmall /\ m.tree[s] # <<>>
                              /\ \A a \in Range(m.tree[s]) : Sz(m, a) = s
  /\ m.least # Nil => m.tree[Min(DOMAIN m.tree)] = <<m.least>>

PolicyTables ==
  CASE policy = "next"  -> ListInOrder /\ m.prev \in Range(m.fl) \union {Nil}
    [] policy = "first" -> /\ ListInOrder /\ FlpSafe
                           /\ m.flpmax >= MaxWosize => FlpRecords
    [] policy = "best"  -> BestFitTables

(* Two free blocks side by side are always coalesced, whatever was split,   *)
(* freed or added while the sweeper ran, "to ensure that coalescing is      *)
(* always done" (freelist.c), in every chunk that one block could fill.     *)
Coalesced ==
  \A c \in chunks : \A a \in Blue :
    c.words <= MaxWosize /\ a \in c.start .. Limit(c) => Next_in_mem(m, a) \notin Blue

(* A request is refused, and the heap grows, only when no block of the free *)
(* set is large enough; first fit gives the end of the lowest block that is *)
(* and best fit the end of a smallest one.  With a table that can overflow  *)
(* first fit does so while its records are right, and they are not always   *)
(* (NullIfNoneFits).                                                        *)
FitFound ==
  \A wo \in Requests :
    LET hp == caml_fl_allocate(m, wo).hp
        fit == {a \in FreeSet : Sz(m, a) >= wo}
    IN IF fit = {} THEN hp = Nil
       ELSE (policy = "first" /\ m.flpmax < MaxWosize => FlpRecords) =>
            \E a \in fit :
              /\ hp = a + Sz(m, a) - wo
              /\ policy = "first" => \A b \in fit : a <= b
              /\ policy = "best" => \A b \in fit : Sz(m, a) <= Sz(m, b)

(* What freelist.c says of caml_fl_allocate: it returns "NULL if no         *)
(* suitable block is found in the free set", and not otherwise.             *)
NullIfNoneFits ==
  \A wo \in Requests :
    caml_fl_allocate(m, wo).hp = Nil => \A a \in FreeSet : Sz(m, a) < wo
=============================================================================
