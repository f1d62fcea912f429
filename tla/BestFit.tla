------------------------------ MODULE BestFit ------------------------------
(***************************************************************************)
(* The best-fit policy of freelist.c: one list for each size up to NumSmall *)
(* and a splay tree for the others.                                         *)
(*   m.small[s]   bf_small_fl[s].free: white remnants, then blue blocks by  *)
(*                increasing address                                        *)
(*   m.smerge[s]  bf_small_fl[s].merge: the block whose link it points to,  *)
(*                Nil when it points to the head of the list                *)
(*   m.map        bf_small_map: the sizes whose lists are not empty         *)
(*   m.tree       bf_large_tree: for each size of a node the circular list  *)
(*                of its blocks, the node first                             *)
(*   m.least      bf_large_least     m.phase  caml_gc_phase                 *)
(* The shape of the tree is left out: rotations keep its order, and every   *)
(* search finds the node, or the neighbours, that the order determines.     *)
(***************************************************************************)
EXTENDS NextFit

CONSTANT NumSmall        \* BF_NUM_SMALL

Behind(m, s) ==          \* how many blocks of list s are behind its merge pointer
  IF m.smerge[s] = Nil THEN 0
  ELSE SelectInSeq(m.small[s], LAMBDA x : x = m.smerge[s])
InPlace(m, v, col) == [m EXCEPT !.blk[v].col = col]

(* bf_allocate, bf_init_merge: the first block leaves its list.             *)
Pop(m, s) ==
  LET b == Head(m.small[s])
  IN [m EXCEPT !.small[s] = Tail(@),
               !.smerge[s] = IF @ = b THEN Nil ELSE @,
               !.map = IF Len(m.small[s]) = 1 THEN @ \ {s} ELSE @]

\* n, of size sz, is the last of the blocks of its size.
InTree(tree, sz, n) ==
  Put(tree, sz, IF sz \in DOMAIN tree THEN Append(tree[sz], n) ELSE <<n>>)

(* bf_insert_block that forgets to look at bf_large_least *)
bf_insert_block_least(m, n) ==
  [m EXCEPT !.tree = InTree(@, Sz(m, n), n)]

(* bf_search, bf_insert_block                                               *)
bf_insert_block(m, n) ==
  LET sz == Sz(m, n)
  IN [m EXCEPT !.tree = InTree(@, sz, n),
               !.least = IF @ = Nil THEN Nil
                         ELSE IF sz < Sz(m, @) THEN n
                         ELSE IF sz = Sz(m, @) THEN Nil
                         ELSE @]

(* bf_remove_node and the list part of bf_remove: v, of size sz, leaves     *)
(* the tree.                                                                *)
bf_remove_large(m, sz, v) ==
  LET rest == RemoveFirst(m.tree[sz], v)
  IN [m EXCEPT !.tree = IF rest = <<>> THEN Without(@, sz) ELSE [@ EXCEPT ![sz] = rest],
               !.least = IF rest = <<>> /\ @ = v THEN Nil ELSE @]

(* bf_insert_remnant_small that links a remnant the sweeper will still meet *)
bf_insert_remnant_small_always(m, v) ==
  LET s == Sz(m, v)
  IN IF s = 0 THEN m
     ELSE [m EXCEPT !.wsz = @ + s + 1, !.small[s] = <<v>> \o @,
                    !.smerge[s] = IF @ = Nil THEN v ELSE @, !.map = @ \union {s}]

(* bf_insert_remnant_small: left out when the sweeper has yet to come.      *)
bf_insert_remnant_small(m, v) ==
  LET s == Sz(m, v)
  IN IF s = 0 \/ (m.phase = "sweep" /\ v >= m.hp) THEN m
     ELSE [m EXCEPT !.wsz = @ + s + 1,
                    !.small[s] = <<v>> \o @,
                    !.smerge[s] = IF @ = Nil THEN v ELSE @,
                    !.map = @ \union {s}]

bf_insert_remnant(m, v) ==
  IF Sz(m, v) <= NumSmall THEN bf_insert_remnant_small(m, v)
  ELSE [bf_insert_block(m, v) EXCEPT !.wsz = @ + Sz(m, v) + 1]

(* bf_insert_sweep: the list's merge pointer advances to the place of v.    *)
bf_insert_sweep(m, v) ==
  LET s == Sz(m, v)
      l == m.small[s]
      k == Behind(m, s)
      j == Max({k} \union {i \in k + 1 .. Len(l) :
                             \A h \in k + 1 .. i : l[h] < v})
  IN IF s > NumSmall THEN bf_insert_block(m, v)
     ELSE [m EXCEPT !.small[s] = InsertAt(@, j + 1, v),
                    !.smerge[s] = v,
                    !.map = IF j = Len(l) THEN @ \union {s} ELSE @]

(* bf_remove: a small block is looked for from the list's merge pointer on. *)
bf_remove(m, v) ==
  LET s == Sz(m, v)
      l == m.small[s]
      i == CHOOSE n \in Behind(m, s) + 1 .. Len(l) : l[n] = v
  IN IF s > NumSmall THEN bf_remove_large(m, s, v)
     ELSE [m EXCEPT !.small[s] = RemoveAt(@, i),
                    !.smerge[s] = IF i = 1 THEN Nil ELSE l[i - 1],
                    !.map = IF Len(l) = 1 THEN @ \ {s} ELSE @]

(* bf_split, bf_split_small: the end of v is the new block.                 *)
bf_split(m, wo, v) ==
  LET rem == Sz(m, v) - wo - 1
  IN [m |-> [Hd(m, v, rem, IF rem <= NumSmall THEN "white" ELSE "blue")
               EXCEPT !.wsz = @ - (Sz(m, v) + 1)],
      hp |-> v + rem + 1]

(* The split of a block that stays at its place in the tree.                *)
SplitInTree(m, wo, v) ==
  LET r == bf_split(m, wo, v)
      sz == Sz(m, v)
  IN [r EXCEPT !.m.wsz = m.wsz - (wo + 1),
               !.m.tree = Put(Without(@, sz), sz - wo - 1, m.tree[sz])]

(* bf_alloc_from_large: n is the best node and bound the size below it.     *)
bf_alloc_from_large(m, wo, n, bound, set_least) ==
  LET sz == Sz(m, n)
      alone == Len(m.tree[sz]) = 1
      b == IF alone THEN n ELSE m.tree[sz][2]
      out == bf_remove_large(m, sz, b)
      r == bf_split(out, wo, b)
      back == [r EXCEPT !.m = bf_insert_remnant(@, b)]
  IN IF alone /\ sz > bound + wo + 1
       THEN SplitInTree([m EXCEPT !.least = IF set_least THEN n ELSE @], wo, n)
     ELSE IF sz = wo THEN [m |-> [out EXCEPT !.wsz = @ - (wo + 1)], hp |-> b]
     ELSE IF ~alone /\ set_least /\ Sz(r.m, b) > NumSmall
       THEN [back EXCEPT !.m.least = b]
     ELSE back

(* bf_allocate_from_tree, bf_search_best                                    *)
bf_allocate_from_tree(m, wo, set_least) ==
  LET fit == {s \in DOMAIN m.tree : s >= wo}
      bound == IF wo \in fit THEN wo
               ELSE Max({NumSmall} \union (DOMAIN m.tree \ fit))
  IN IF fit = {} THEN [m |-> m, hp |-> Nil]
     ELSE bf_alloc_from_large(m, wo, m.tree[Min(fit)][1], bound, set_least)

(* bf_allocate: the list of the size, the next list that is not empty, the  *)
(* least large block, the tree.                                             *)
bf_allocate(m, wo) ==
  LET above == {s \in m.map : s > wo}
      taken(s) == [m |-> Pop(m, s), b |-> Head(m.small[s])]
  IN IF wo > NumSmall THEN bf_allocate_from_tree(m, wo, FALSE)
     ELSE IF m.small[wo] # <<>>
       THEN [m |-> [taken(wo).m EXCEPT !.wsz = @ - (wo + 1)], hp |-> taken(wo).b]
     ELSE IF above # {}
       THEN LET t == taken(Min(above))
            IN [bf_split(t.m, wo, t.b)
                  EXCEPT !.m = bf_insert_remnant_small(@, t.b)]
     ELSE IF m.least # Nil /\ Sz(m, m.least) > NumSmall + wo + 1
       THEN SplitInTree(m, wo, m.least)
     ELSE bf_allocate_from_tree(m, wo, TRUE)

(* bf_init_merge: the white remnants leave their lists.                     *)
bf_init_merge(m) ==
  LET blues(s) ==
        LET l == m.small[s]
            whites == {i \in 0 .. Len(l) : \A j \in 1 .. i : m.blk[l[j]].col = "white"}
        IN SubSeq(l, Max(whites) + 1, Len(l))
      remnants == UNION {Range(m.small[s]) : s \in 1 .. NumSmall}
                    \ UNION {Range(blues(s)) : s \in 1 .. NumSmall}
  IN [m EXCEPT !.merge = Nil,
               !.small = [s \in 1 .. NumSmall |-> blues(s)],
               !.smerge = [s \in 1 .. NumSmall |-> Nil],
               !.map = {s \in @ : blues(s) # <<>>},
               !.wsz = @ - Words(m, remnants)]

(* bf_merge_block: the run of white and blue blocks from bp to a black one  *)
(* or to the limit, with the blue block before it, becomes free blocks.     *)
bf_merge_block(m, bp, limit) ==
  LET joins == m.merge # Nil /\ m.blk[m.merge].col = "blue"
                 /\ Next_in_mem(m, m.merge) = bp
      start == IF joins THEN m.merge ELSE bp
      end == Min({limit} \union {a \in DOMAIN m.blk :
                                   bp < a /\ a < limit /\ m.blk[a].col = "black"})
      run == {a \in DOMAIN m.blk : bp <= a /\ a < end}
      blue == {a \in run : m.blk[a].col = "blue"}
      gone == Sorted(IF joins THEN {start} \union blue ELSE blue)
      removed == [FoldLeft(bf_remove, m, gone)
                    EXCEPT !.wsz = @ + Words(m, run \ blue)]
      wosz == end - start - 1
      full == wosz \div (MaxWosize + 1)
      rest == wosz % (MaxWosize + 1)
      at(i) == start + (i - 1) * (MaxWosize + 1)
      sizes == [i \in 1 .. full + 1 |-> IF i <= full THEN MaxWosize ELSE rest]
      erased == [removed EXCEPT !.blk =
                   [a \in DOMAIN @ \ (run \union {start}) |-> @[a]]]
      put(n, i) == IF sizes[i] = 0
                     THEN [Hd(n, at(i), 0, "white") EXCEPT !.wsz = @ - 1]
                     ELSE bf_insert_sweep(Hd(n, at(i), sizes[i], "blue"), at(i))
  IN [m |-> FoldLeft(put, erased, [i \in 1 .. full + 1 |-> i]), next |-> end]

(* bf_add_blocks, bf_make_free_blocks with do_merge: small blocks turn white. *)
bf_add_block(m, b) ==
  bf_insert_remnant(InPlace(m, b, IF Sz(m, b) <= NumSmall THEN "white" ELSE "blue"), b)
bf_add_blocks(m, bs) == FoldLeft(bf_add_block, m, bs)
=============================================================================
