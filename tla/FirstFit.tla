------------------------------ MODULE FirstFit ------------------------------
(***************************************************************************)
(* The first-fit policy of freelist.c.  It keeps next-fit's list and adds  *)
(* m.flp, the predecessors of the blocks that are larger than every block  *)
(* before them, at most m.flpmax (FLP_MAX), and m.beyond: what lies after  *)
(* the last recorded block and up to m.beyond is no larger than it.        *)
(***************************************************************************)
EXTENDS NextFit

(* The positions of lo .. hi whose blocks exceed base and all before them. *)
Maxima(m, lo, hi, base) ==
  Sorted({k \in lo .. hi : /\ Sz(m, m.fl[k]) > base
                           /\ \A j \in lo .. k - 1 : Sz(m, m.fl[j]) < Sz(m, m.fl[k])})
Largest(m, i) == IF i = 0 THEN 0 ELSE Sz(m, Next_small(m, m.flp[i]))

(* ff_allocate_block with the record that led to the removed block, or to   *)
(* its successor, put right                                                 *)
ff_allocate_block(m, wo, i, prev, cur) ==
  LET r == allocate_block(m, wo, prev, cur)
      flp == m.flp
  IN IF Sz(m, cur) > wo + 1 THEN r
     ELSE IF i < Len(flp) /\ flp[i + 1] = cur
       THEN [r EXCEPT !.m.flp[i + 1] = prev]
     ELSE IF i = Len(flp)
       THEN [r EXCEPT !.m.flp = Front(@), !.m.beyond = prev]
     ELSE r

(* update_flp that leaves a shrunk last block in the table *)
update_flp_keep(m, i) ==
  IF i > Len(m.flp) THEN m
  ELSE IF i = Len(m.flp) THEN [m EXCEPT !.beyond = Nil]
  ELSE m

(* update_flp: the block recorded at i was removed or reduced.             *)
update_flp(m, i) ==
  LET size == Len(m.flp)
      cur == Next_small(m, m.flp[i])
      buf == Maxima(m, Pos(m, m.flp[i]) + 1, Pos(m, m.flp[i + 1]),
                    Largest(m, i - 1))
      j == Min({Len(buf), m.flpmax - i + 1})
      flp == SubSeq(m.flp, 1, i - 1)
             \o [k \in 1 .. j |-> At(m, buf[k] - 1)]
             \o SubSeq(m.flp, i + 1, size)
  IN IF i > size THEN m
     ELSE IF i = size
       THEN IF Sz(m, cur) <= Largest(m, i - 1)
              THEN [m EXCEPT !.beyond = cur, !.flp = Front(@)]
              ELSE [m EXCEPT !.beyond = Nil]
     ELSE IF Len(flp) <= m.flpmax THEN [m EXCEPT !.flp = flp]
     ELSE [m EXCEPT !.flp = SubSeq(flp, 1, m.flpmax - 1),
                    !.beyond = Next_small(m, flp[m.flpmax])]

(* The block recorded at i fits.                                           *)
TakeRecorded(m, wo, i) ==
  LET r == ff_allocate_block(m, wo, i, m.flp[i], Next_small(m, m.flp[i]))
  IN [r EXCEPT !.m = update_flp(@, i)]

(* The table is full: search the rest of the list.                         *)
SlowSearch(m, wo) ==
  LET p == IF m.beyond # Nil THEN Pos(m, m.beyond) ELSE Pos(m, Last(m.flp))
      n == Len(m.fl)
      fit == Fits(m, wo, p + 1 .. n)
      g == IF fit = {} THEN n + 1 ELSE Min(fit)
      low == {k \in p + 1 .. g - 1 : Sz(m, m.fl[k]) < Largest(m, m.flpmax)}
      m1 == [m EXCEPT !.beyond = IF low = {} THEN @ ELSE m.fl[Max(low)]]
  IN IF fit = {} THEN NotFound(m1)
     ELSE ff_allocate_block(m1, wo, Len(m.flp) + 1, At(m, g - 1), m.fl[g])

(* ff_allocate: a recorded block; else extend the table up to the first     *)
(* block that fits, the end of the list or the table's end.                 *)
ff_allocate(m, wo) ==
  LET size == Len(m.flp)
      recorded == {i \in 1 .. size : Largest(m, i) >= wo}
      p == IF m.beyond # Nil /\ size > 0 THEN Pos(m, m.beyond)
           ELSE IF size > 0 THEN Pos(m, Next_small(m, m.flp[size])) ELSE 0
      fit == Fits(m, wo, p + 1 .. Len(m.fl))
      upto == IF fit = {} THEN Len(m.fl) ELSE Min(fit)
      maxima == Maxima(m, p + 1, upto, Largest(m, size))
      new == SubSeq(maxima, 1, Min({m.flpmax - size, Len(maxima)}))
      m1 == [m EXCEPT !.flp = @ \o [k \in 1 .. Len(new) |-> At(m, new[k] - 1)]]
      reached(b) == [m1 EXCEPT !.beyond = b]
  IN IF recorded # {} THEN TakeRecorded(m, wo, Min(recorded))
     ELSE IF fit # {} /\ Len(maxima) <= m.flpmax - size
       THEN TakeRecorded(reached(m.fl[upto]), wo, size + Len(new))
     ELSE IF size + Len(new) < m.flpmax THEN NotFound(reached(LastFree(m)))
     ELSE SlowSearch(reached(IF new = <<>> THEN Nil ELSE m.fl[Last(new)]), wo)

\* How many records lead to blocks before changed, from the last such one.
Before(m, changed) ==
  Max({0} \union {i \in 1 .. Len(m.flp) : Next_small(m, m.flp[i]) < changed})

(* ff_truncate_flp that forgets beyond *)
ff_truncate_flp_only(m, changed) == [m EXCEPT !.flp = SubSeq(@, 1, Before(m, changed))]

(* ff_truncate_flp *)
ff_truncate_flp(m, changed) ==
  IF changed = Nil THEN [m EXCEPT !.flp = <<>>, !.beyond = Nil]
  ELSE [m EXCEPT !.flp = SubSeq(@, 1, Before(m, changed)),
                 !.beyond = IF @ >= changed THEN Nil ELSE @]

(* ff_merge_block *)
ff_merge_block(m, bp) == nf_merge_block(ff_truncate_flp(m, m.merge), bp)

(* ff_add_blocks, right after ff_allocate found nothing                     *)
ff_add_blocks(m, bs) ==
  IF bs[1] > m.last
    THEN [add_blocks(m, bs)
            EXCEPT !.flp = IF Len(@) < m.flpmax THEN Append(@, m.last) ELSE @]
    ELSE ff_truncate_flp(add_blocks(m, bs), bs[1])
=============================================================================
