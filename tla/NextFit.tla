------------------------------ MODULE NextFit ------------------------------
(***************************************************************************)
(* The next-fit allocation policy of src/ocaml/runtime/freelist.c, as      *)
(* operators on the state m of the allocator.  Memory is a row of words;   *)
(* m.blk maps the address of each header to the size and the colour of its *)
(* block, whose fields are the sz words after the header.  The free list   *)
(* is the sequence m.fl of the addresses of its blocks, the sentinel is 0, *)
(* and so is a null pointer.                                               *)
(*   m.wsz    caml_fl_cur_wsz         m.merge  caml_fl_merge               *)
(*   m.prev   nf_prev                 m.last   nf_last, ff_last            *)
(*   m.frag   nf_last_fragment        m.hp     caml_gc_sweep_hp            *)
(* The link fields inside the free blocks are the sequence itself.         *)
(***************************************************************************)
EXTENDS Naturals, Sequences, FiniteSets, SequencesExt, TLC

CONSTANT MaxWosize       \* Max_wosize: no block is larger

Nil == 0                 \* Nf_head, Ff_head and Val_NULL

Sz(m, a) == m.blk[a].sz
Next_in_mem(m, a) == a + Sz(m, a) + 1
Block(sz, col) == [sz |-> sz, col |-> col]
Put(f, a, v) == [x \in {a} \union DOMAIN f |-> IF x = a THEN v ELSE f[x]]
Hd(m, a, sz, col) == [m EXCEPT !.blk = Put(@, a, Block(sz, col))]
Without(f, a) == [x \in DOMAIN f \ {a} |-> f[x]]
Words(m, S) == FoldSet(LAMBDA a, n : n + Sz(m, a) + 1, 0, S)
Sorted(S) ==             \* by increasing address
  [i \in 1 .. Cardinality(S) |->
     CHOOSE a \in S : Cardinality({b \in S : b < a}) = i - 1]

Pos(m, a) == IF a = Nil THEN 0 ELSE SelectInSeq(m.fl, LAMBDA x : x = a)
At(m, i) == IF i \in 1 .. Len(m.fl) THEN m.fl[i] ELSE Nil
Next_small(m, a) == At(m, Pos(m, a) + 1)
LastFree(m) == At(m, Len(m.fl))
LastBelow(m, h) == Max({Nil} \union {a \in Range(m.fl) : a < h})
Unlink(m, a) == [m EXCEPT !.fl = RemoveAt(@, Pos(m, a))]
Link(m, prev, S) ==      \* the blocks S after prev
  [m EXCEPT !.fl = SubSeq(@, 1, Pos(m, prev)) \o S
                   \o SubSeq(@, Pos(m, prev) + 1, Len(@))]

(* nf_allocate_block and ff_allocate_block: a block of wo fields at the end *)
(* of the free block cur, which leaves the list when at most a header is    *)
(* left of it.                                                              *)
allocate_block(m, wo, prev, cur) ==
  LET sz == Sz(m, cur)
  IN IF sz <= wo + 1
     THEN [m |-> [Hd(Unlink(m, cur), cur, 0, "white")
                    EXCEPT !.wsz = @ - (sz + 1),
                           !.merge = IF @ = cur THEN prev ELSE @],
           hp |-> cur + sz - wo]
     ELSE [m |-> [Hd(m, cur, sz - wo - 1, "blue") EXCEPT !.wsz = @ - (wo + 1)],
           hp |-> cur + sz - wo]

Fits(m, wo, I) == {i \in I : Sz(m, m.fl[i]) >= wo}
NotFound(m) == [m |-> [m EXCEPT !.last = LastFree(m)], hp |-> Nil]

(* nf_allocate: from nf_prev to the end of the list, then from its start *)
nf_allocate(m, wo) ==
  LET n == Pos(m, m.prev)
      found(I) == LET i == Min(I)
                      r == allocate_block(m, wo, At(m, i - 1), m.fl[i])
                  IN [r EXCEPT !.m.prev = At(m, i - 1)]
      late == Fits(m, wo, n + 1 .. Len(m.fl))
      early == Fits(m, wo, 1 .. n)
  IN IF late # {} THEN found(late)
     ELSE IF early # {} THEN found(early)
     ELSE NotFound(m)

(* nf_init_merge *)
init_merge(m) == [m EXCEPT !.frag = Nil, !.merge = Nil]

(* nf_merge_block, ff_merge_block: the fragment before bp joins bp.         *)
WithFragment(m, bp) ==
  IF m.frag = bp /\ Sz(m, bp) + 1 <= MaxWosize
    THEN [m |-> [Hd([m EXCEPT !.blk = Without(@, bp)],
                    bp - 1, Sz(m, bp) + 1, "white") EXCEPT !.wsz = @ + 1],
          bp |-> bp - 1]
    ELSE [m |-> m, bp |-> bp]

(* WithNext that leaves nf_prev on the block that disappears *)
WithNext_prev(m, bp) ==
  LET cur == Next_small(m, m.merge)
      sz == Sz(m, bp) + Sz(m, cur) + 1
  IN IF cur = Nil \/ Next_in_mem(m, bp) # cur \/ sz > MaxWosize THEN m
     ELSE Hd([Unlink(m, cur) EXCEPT !.blk = Without(@, cur)], bp, sz, "blue")

(* The next free block joins bp when it is adjacent.                        *)
WithNext(m, bp) ==
  LET cur == Next_small(m, m.merge)
      sz == Sz(m, bp) + Sz(m, cur) + 1
  IN IF cur = Nil \/ Next_in_mem(m, bp) # cur \/ sz > MaxWosize THEN m
     ELSE [Hd([Unlink(m, cur) EXCEPT !.blk = Without(@, cur)], bp, sz, "blue")
             EXCEPT !.prev = IF @ = cur THEN m.merge ELSE @]

(* IntoList that always links the block *)
IntoList_apart(m, bp) ==
  IF Sz(m, bp) # 0
    THEN [Hd(Link(m, m.merge, <<bp>>), bp, Sz(m, bp), "blue") EXCEPT !.merge = bp]
    ELSE [m EXCEPT !.frag = bp + 1, !.wsz = @ - 1]

(* bp joins caml_fl_merge, or is linked after it, or is a fragment.         *)
IntoList(m, bp) ==
  LET prev == m.merge
      sz == Sz(m, bp)
  IN IF prev # Nil /\ Next_in_mem(m, prev) = bp /\ Sz(m, prev) + sz + 1 < MaxWosize
       THEN Hd([m EXCEPT !.blk = Without(@, bp)],
               prev, Sz(m, prev) + sz + 1, "blue")
     ELSE IF sz # 0
       THEN [Hd(Link(m, prev, <<bp>>), bp, sz, "blue") EXCEPT !.merge = bp]
     ELSE [m EXCEPT !.frag = bp + 1, !.wsz = @ - 1]

(* nf_merge_block: the sweeper gives back the white block bp. next is the   *)
(* address where sweeping goes on.                                          *)
nf_merge_block(m, bp) ==
  LET f == WithFragment([m EXCEPT !.wsz = @ + Sz(m, bp) + 1], bp)
      n == WithNext(f.m, f.bp)
  IN [m |-> IntoList(n, f.bp), next |-> Next_in_mem(n, f.bp)]

(* nf_add_blocks: the blue blocks bs of a new chunk are linked at their     *)
(* place, and caml_fl_merge stays the last free block before the sweep.     *)
add_blocks(m, bs) ==
  LET prev == LastBelow(m, bs[1])
  IN [Link(m, prev, bs)
        EXCEPT !.wsz = @ + Words(m, Range(bs)),
               !.merge = IF @ = prev /\ bs[1] < m.hp THEN Last(bs) ELSE @]
=============================================================================
