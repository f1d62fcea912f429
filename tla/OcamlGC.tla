------------------------------ MODULE OcamlGC ------------------------------
(***************************************************************************)
(* The two garbage collectors of the OCaml runtime that the unikernel      *)
(* links (src/ocaml/runtime: minor_gc.c, major_gc.c, memory.c, weak.c,     *)
(* finalise.c, bytecode roots).  The minor collector copies and stops the  *)
(* program; the major collector marks and sweeps in slices, and the        *)
(* program runs between two slices: a write barrier (caml_modify), the     *)
(* ephemeron accessors and the colour of new blocks keep the marking       *)
(* right.  Every address holds one block of two fields, a field holds an   *)
(* address or an immediate value, and a slice is one iteration of the loop *)
(* of mark_slice, clean_slice or sweep_slice, the smallest amount of work  *)
(* a slice can be given.                                                   *)
(***************************************************************************)
EXTENDS Naturals, FiniteSets, FiniteSetsExt

CONSTANTS NMajor,        \* addresses 1..NMajor: the major heap
          NYoung,        \* the next NYoung addresses: the minor heap
          FirstFuns,     \* closures given to Gc.finalise
          LastFuns,      \* closures given to Gc.finalise_last
          MarkStackSize, \* entries the mark stack holds before it is pruned
          MaxRoots,      \* bound: values the program holds at once
          KeyEditPhases  \* phases in which the program replaces ephemeron keys

Phases == {"idle", "mark_main", "mark_final", "clean", "sweep"}
MarkPhases == {"mark_main", "mark_final"}

ASSUME GCAssumption ==
  /\ NMajor \in Nat \ {0} /\ NYoung \in Nat
  /\ MarkStackSize \in Nat \ {0} /\ MaxRoots \in Nat
  /\ FirstFuns \cap LastFuns = {}
  /\ KeyEditPhases \subseteq Phases

Major == 1 .. NMajor
Young == (NMajor + 1) .. (NMajor + NYoung)
Addr  == Major \cup Young
Unit  == 0               \* any immediate value, and caml_ephe_none
Ix    == 1 .. 2
Data  == 1               \* CAML_EPHE_DATA_OFFSET
Key   == 2               \* CAML_EPHE_FIRST_KEY
Blank == [i \in Ix |-> Unit]
Funs  == FirstFuns \cup LastFuns

VARIABLES
  tag,      \* what each address holds: "free", "block" or "ephe"
  fld,      \* the two fields of each address
  roots,    \* values in the program's registers, stack and global data
  refs,     \* ref_table: fields of major blocks given a young value
  epheRefs, \* ephe_ref_table
  phase,    \* caml_gc_phase and caml_gc_subphase
  mk,       \* marking: black blocks, mark stack, addresses to redarken,
            \* ephe_list_pure
  eph,      \* caml_ephe_list: (1) checked, (2) skipped, (3) to check
  hp,       \* caml_gc_sweep_hp
  fin       \* finalisable_first, finalisable_last and to_do

heap == <<tag, fld>>
tables == <<refs, epheRefs>>
vars == <<tag, fld, roots, refs, epheRefs, phase, mk, eph, hp, fin>>

-----------------------------------------------------------------------------
(* Marking *)

White(m) == Major \ m.black
IsBlock(a) == tag[a] = "block"
Ephes == eph.checked \cup eph.skipped \cup eph.toCheck
WholeList == [checked |-> {}, skipped |-> {}, toCheck |-> Ephes]

(* mark_stack_prune: the stack is emptied, the addresses between the lowest *)
(* and the highest of its blocks are to be redarkened.                      *)
mark_stack_prune(m) ==
  LET lost == m.redarken \cup {e[1] : e \in m.stack} IN
  [m EXCEPT !.stack = {},
            !.redarken = {a \in Major : \E l, h \in lost : l <= a /\ a <= h}]

(* mark_stack_push: the fields that hold no block of the major heap are     *)
(* skipped, and an entry with nothing left is not pushed.                   *)
mark_stack_push(f, m, a, i) ==
  LET left == {j \in i .. 2 : f[a][j] \in Major}
      room == IF Cardinality(m.stack) = MarkStackSize
                THEN mark_stack_prune(m) ELSE m
  IN IF left = {} THEN m
     ELSE [room EXCEPT !.stack = @ \cup {<<a, Min(left)>>}]

(* caml_darken: a white block becomes black and is pushed; an ephemeron is  *)
(* abstract, its fields are not scanned.                                    *)
caml_darken(f, v, m) ==
  IF v \notin White(m) THEN m
  ELSE LET b == [m EXCEPT !.black = @ \cup {v}, !.pure = FALSE]
       IN IF IsBlock(v) THEN mark_stack_push(f, b, v, 1) ELSE b

(* caml_darken of every value of S, in the order of their addresses *)
caml_darken_all(f, S, m) ==
  LET upTo[n \in 0 .. NMajor] ==
        IF n = 0 THEN m
        ELSE IF n \in S THEN caml_darken(f, n, upTo[n - 1])
        ELSE upTo[n - 1]
  IN upTo[NMajor]

(* caml_allocation_color with the sweep pointer taken as already swept *)
caml_allocation_color_late(a) ==
  IF phase \in MarkPhases \cup {"clean"} \/ (phase = "sweep" /\ a > hp)
    THEN "black" ELSE "white"

(* caml_allocation_color *)
caml_allocation_color(a) ==
  IF phase \in MarkPhases \cup {"clean"} \/ (phase = "sweep" /\ a >= hp)
    THEN "black" ELSE "white"

Coloured(S) == [mk EXCEPT !.black =
                  @ \cup {a \in S : caml_allocation_color(a) = "black"}]

-----------------------------------------------------------------------------
(* What finalise.c keeps *)

FinIs(f, st) == fin[f].st = st
Unused == [st |-> "unused", val |-> Unit]
ToDo == {f \in Funs : FinIs(f, "todo")}

(* generic_final_update, for the entries that are white *)
generic_final_update(S, keep) ==
  [f \in Funs |-> IF f \in S
     THEN [st |-> "todo", val |-> IF keep THEN fin[f].val ELSE Unit]
     ELSE fin[f]]

(* WhiteOld that does not stop at the old part of the table *)
WhiteOldYoung(F) ==
  {f \in F : fin[f].st \in {"old", "recent"} /\ fin[f].val \notin mk.black}

WhiteOld(F) == {f \in F : FinIs(f, "old") /\ fin[f].val \in White(mk)}

-----------------------------------------------------------------------------
(* The minor collection *)

(* The young blocks that the roots, the recent Gc.finalise entries and the  *)
(* remembered fields name (caml_oldify_local_roots, ref_table).             *)
OldifyRoots ==
  Young \cap ( roots \cup {fld[r[1]][r[2]] : r \in refs}
               \cup {fin[f].val : f \in {g \in FirstFuns : FinIs(g, "recent")}} )

(* Oldify without the loop over the ephemerons *)
OldifyFields(S) == S \cup (Young \cap {fld[y][i] : y \in S, i \in Ix})

(* One round of caml_oldify_mopup: the fields of the copied blocks, and the *)
(* young data of remembered ephemerons whose young keys are all copied.     *)
Oldify(S) ==
  S \cup (Young \cap
    ( {fld[y][i] : y \in S, i \in Ix}
      \cup {fld[r[1]][Data] : r \in {q \in epheRefs :
              q[2] = Data /\ fld[q[1]][Key] \notin Young \ S}} ))

(* What caml_oldify_mopup copies: its loop stops at the least fixed point.  *)
Survivors ==
  LET round[n \in 0 .. NYoung] ==
        IF n = 0 THEN OldifyRoots ELSE Oldify(round[n - 1])
  IN round[NYoung]

Injections(S, T) == {g \in [S -> T] : \A x, y \in S : g[x] = g[y] => x = y}

(* What a minor collection makes of v: fwd maps the survivors               *)
Copied(fwd, v) == IF v \in DOMAIN fwd THEN fwd[v] ELSE v

(* generic_final_minor_update and caml_final_empty_young: recent values are *)
(* old ones now; those of Gc.finalise_last that died young are moved to     *)
(* to_do with the unit value.                                               *)
generic_final_minor_update(fwd) ==
  [f \in Funs |->
     IF ~FinIs(f, "recent") THEN fin[f]
     ELSE IF f \in LastFuns /\ fin[f].val \in Young \ DOMAIN fwd
       THEN [st |-> "todo", val |-> Unit]
     ELSE [st |-> "old", val |-> Copied(fwd, fin[f].val)]]

Image(fwd) == {fwd[y] : y \in DOMAIN fwd}
Origin(fwd, a) == CHOOSE y \in DOMAIN fwd : fwd[y] = a

(* caml_empty_minor_heap, the loop over ephe_ref_table: the remembered      *)
(* fields of an ephemeron whose young value is dead                         *)
DeadFields(fwd, e) ==
  {r \in epheRefs : r[1] = e /\ fld[e][r[2]] \in Young \ DOMAIN fwd}

(* What field i of a major address holds then: the survivors' fields and    *)
(* those the tables remember are updated, an ephemeron with a dead young    *)
(* key or data loses it and its data.                                       *)
FieldCopied(fwd, a, i) ==
  IF a \in Image(fwd)
    THEN Copied(fwd, fld[Origin(fwd, a)][i])
  ELSE IF DeadFields(fwd, a) # {} /\ (i = Data \/ <<a, i>> \in DeadFields(fwd, a))
    THEN Unit
  ELSE IF <<a, i>> \in refs \cup epheRefs THEN Copied(fwd, fld[a][i])
  ELSE fld[a][i]

(* caml_empty_minor_heap: the survivors get major addresses; the minor heap *)
(* and the tables are emptied.                                              *)
caml_empty_minor_heap ==
  \E fwd \in Injections(Survivors, {a \in Major : tag[a] = "free"}) :
    /\ tag' = [a \in Addr |-> IF a \in Young THEN "free"
                              ELSE IF a \in Image(fwd) THEN "block" ELSE tag[a]]
    /\ fld' = [a \in Addr |-> IF a \in Young THEN Blank
                              ELSE [i \in Ix |-> FieldCopied(fwd, a, i)]]
    /\ roots' = {Copied(fwd, v) : v \in roots}
    /\ mk' = Coloured(Image(fwd))
    /\ fin' = generic_final_minor_update(fwd)
    /\ refs' = {} /\ epheRefs' = {}
    /\ UNCHANGED <<phase, eph, hp>>

YoungEmpty == \A y \in Young : tag[y] = "free"

NoRecent == \A f \in Funs : ~FinIs(f, "recent")

(* caml_gc_dispatch; it changes nothing when the minor heap and the recent  *)
(* entries are empty.                                                       *)
MinorCollection == ~(YoungEmpty /\ NoRecent) /\ caml_empty_minor_heap

-----------------------------------------------------------------------------
(* The slices of the major collection *)

(* start_cycle: the roots, among them the values that wait for their        *)
(* finalisation function, are darkened once, with the minor heap empty:     *)
(* caml_gc_dispatch and the callers of caml_finish_major_cycle first call   *)
(* caml_empty_minor_heap.                                                   *)
start_cycle ==
  /\ phase = "idle" /\ YoungEmpty /\ NoRecent
  /\ phase' = "mark_main"
  /\ mk' = [caml_darken_all(fld, roots \cup {fin[f].val : f \in ToDo}, mk)
              EXCEPT !.pure = TRUE]
  /\ eph' = WholeList
  /\ UNCHANGED <<heap, roots, tables, hp, fin>>

Marking == phase \in MarkPhases
NoStack == mk.stack = {} /\ mk.redarken = {}

(* mark_slice, a field of the block on top of the mark stack *)
mark_slice_darken ==
  /\ Marking
  /\ \E e \in mk.stack :
       LET m == caml_darken(fld, fld[e[1]][e[2]],
                            [mk EXCEPT !.stack = @ \ {e}])
       IN mk' = mark_stack_push(fld, m, e[1], e[2] + 1)
  /\ UNCHANGED <<heap, roots, tables, phase, eph, hp, fin>>

(* redarken_chunk: the next address of the range, pushed again if black *)
redarken_chunk ==
  /\ Marking /\ mk.stack = {} /\ mk.redarken # {}
  /\ LET a == Min(mk.redarken)
         m == [mk EXCEPT !.redarken = @ \ {a}]
     IN mk' = IF a \in mk.black /\ IsBlock(a)
                THEN mark_stack_push(fld, m, a, 1) ELSE m
  /\ UNCHANGED <<heap, roots, tables, phase, eph, hp, fin>>

(* mark_ephe_aux: white data is darkened when the ephemeron and its key are *)
(* not white; else the ephemeron is skipped until the next scan.            *)
mark_ephe_aux ==
  /\ Marking /\ NoStack
  /\ \E e \in eph.toCheck :
       LET d == fld[e][Data]
           wait == d \in White(mk)
                   /\ (e \in White(mk) \/ fld[e][Key] \in White(mk))
       IN /\ mk' = IF wait THEN mk ELSE caml_darken(fld, d, mk)
          /\ eph' = IF wait
               THEN [eph EXCEPT !.toCheck = @ \ {e}, !.skipped = @ \cup {e}]
               ELSE [eph EXCEPT !.toCheck = @ \ {e}, !.checked = @ \cup {e}]
  /\ UNCHANGED <<heap, roots, tables, phase, hp, fin>>

Rescan == [eph EXCEPT !.toCheck = eph.skipped, !.skipped = {}]
ListDone == Marking /\ NoStack /\ eph.toCheck = {}

(* mark_slice: some value was darkened since the scan began, scan again *)
mark_scan_again ==
  /\ ListDone /\ ~mk.pure
  /\ mk' = [mk EXCEPT !.pure = TRUE] /\ eph' = Rescan
  /\ UNCHANGED <<heap, roots, tables, phase, hp, fin>>

(* Subphase_mark_main is done: caml_final_update_mark_phase *)
mark_main_done ==
  /\ ListDone /\ mk.pure /\ phase = "mark_main"
  /\ LET S == WhiteOld(FirstFuns) IN
     /\ fin' = generic_final_update(S, TRUE)
     /\ mk' = caml_darken_all(fld, {fin[f].val : f \in S}, mk)
  /\ eph' = Rescan /\ phase' = "mark_final"
  /\ UNCHANGED <<heap, roots, tables, hp>>

(* Subphase_mark_final is done: caml_final_update_clean_phase *)
mark_final_done ==
  /\ ListDone /\ mk.pure /\ phase = "mark_final"
  /\ fin' = generic_final_update(WhiteOld(LastFuns), FALSE)
  /\ eph' = WholeList
  /\ IF Ephes = {} THEN phase' = "sweep" /\ hp' = 1
     ELSE phase' = "clean" /\ UNCHANGED hp
  /\ UNCHANGED <<heap, roots, tables, mk>>

(* caml_ephe_clean: a dead key is removed, and the data with it. *)
caml_ephe_clean(f, e) ==
  IF f[e][Key] \in White(mk) THEN [f EXCEPT ![e] = Blank] ELSE f

(* clean_slice, an ephemeron: a dead one leaves the list. *)
clean_slice ==
  /\ phase = "clean"
  /\ \E e \in eph.toCheck :
       IF e \in White(mk)
         THEN /\ eph' = [eph EXCEPT !.toCheck = @ \ {e}]
              /\ UNCHANGED fld
         ELSE /\ eph' = [eph EXCEPT !.toCheck = @ \ {e}, !.checked = @ \cup {e}]
              /\ fld' = caml_ephe_clean(fld, e)
  /\ UNCHANGED <<tag, roots, tables, phase, mk, hp, fin>>

(* init_sweep_phase, at the end of the list *)
init_sweep_phase ==
  /\ phase = "clean" /\ eph.toCheck = {}
  /\ phase' = "sweep" /\ hp' = 1 /\ eph' = WholeList
  /\ UNCHANGED <<heap, roots, tables, mk, fin>>

(* sweep_slice that leaves the fields of the freed block *)
sweep_slice_dirty ==
  /\ phase = "sweep" /\ hp \in Major
  /\ hp' = hp + 1
  /\ tag' = IF hp \in White(mk) THEN [tag EXCEPT ![hp] = "free"] ELSE tag
  /\ mk' = [mk EXCEPT !.black = @ \ {hp}]
  /\ UNCHANGED <<fld, roots, tables, phase, eph, fin>>

(* sweep_slice, a block: white ones are freed, black ones become white. *)
sweep_slice ==
  /\ phase = "sweep" /\ hp \in Major
  /\ hp' = hp + 1
  /\ IF hp \in White(mk)
       THEN /\ tag' = [tag EXCEPT ![hp] = "free"]
            /\ fld' = [fld EXCEPT ![hp] = Blank]
            /\ UNCHANGED mk
       ELSE /\ mk' = [mk EXCEPT !.black = @ \ {hp}]
            /\ UNCHANGED heap
  /\ UNCHANGED <<roots, tables, phase, eph, fin>>

(* sweep_slice, the end of the heap *)
sweep_done ==
  /\ phase = "sweep" /\ hp \notin Major
  /\ phase' = "idle"
  /\ UNCHANGED <<heap, roots, tables, mk, eph, hp, fin>>

(* caml_major_collection_slice *)
caml_major_collection_slice ==
  \/ start_cycle
  \/ mark_slice_darken
  \/ redarken_chunk
  \/ mark_ephe_aux
  \/ mark_scan_again
  \/ mark_main_done
  \/ mark_final_done
  \/ clean_slice
  \/ init_sweep_phase
  \/ sweep_slice
  \/ sweep_done

-----------------------------------------------------------------------------
(* The program *)

Free(S) == {a \in S : tag[a] = "free"}

(* Bounds: the program holds at most MaxRoots values, and the major heap    *)
(* keeps room for what the minor heap holds (the runtime would expand it).  *)
Hold(S) == roots' = S /\ Cardinality(S) <= MaxRoots
HeapRoom == Cardinality(Free(Major)) > Cardinality(Young \ Free(Young))

Held == roots \cup {Unit}

(* Alloc_small: a young block whose fields are initialised at once *)
Alloc_small ==
  /\ HeapRoom
  /\ \E y \in Free(Young), u, v \in Held :
       /\ tag' = [tag EXCEPT ![y] = "block"]
       /\ fld' = [fld EXCEPT ![y] = <<u, v>>]
       /\ Hold(roots \cup {y})
  /\ UNCHANGED <<tables, phase, mk, eph, hp, fin>>

(* caml_alloc_shr, then caml_initialize on each field *)
caml_alloc_shr ==
  /\ HeapRoom
  /\ \E a \in Free(Major), u, v \in Held :
       /\ tag' = [tag EXCEPT ![a] = "block"]
       /\ fld' = [fld EXCEPT ![a] = <<u, v>>]
       /\ refs' = refs \cup {<<a, i>> : i \in {j \in Ix : <<u, v>>[j] \in Young}}
       /\ mk' = Coloured({a})
       /\ Hold(roots \cup {a})
  /\ UNCHANGED <<epheRefs, phase, eph, hp, fin>>

(* caml_ephemeron_create: the new ephemeron is the head of the list; it is  *)
(* in the first part that is not empty, the last one when all are.          *)
caml_ephemeron_create ==
  /\ HeapRoom
  /\ \E a \in Free(Major) :
       /\ tag' = [tag EXCEPT ![a] = "ephe"]
       /\ mk' = Coloured({a})
       /\ eph' = IF eph.checked # {}
                   THEN [eph EXCEPT !.checked = @ \cup {a}]
                 ELSE IF eph.skipped # {}
                   THEN [eph EXCEPT !.skipped = @ \cup {a}]
                 ELSE [eph EXCEPT !.toCheck = @ \cup {a}]
       /\ Hold(roots \cup {a})
  /\ UNCHANGED <<fld, tables, phase, hp, fin>>

HeldBlocks == {a \in roots \cap Addr : IsBlock(a)}
HeldEphes == {a \in roots \cap Addr : tag[a] = "ephe"}

(* caml_modify: the old value is darkened while marking, and a major block  *)
(* given a young value is remembered unless its old value was young.        *)
caml_modify ==
  /\ \E a \in HeldBlocks, i \in Ix, v \in Held :
       LET old == fld[a][i] IN
       /\ fld' = [fld EXCEPT ![a][i] = v]
       /\ IF a \in Young \/ old \in Young THEN UNCHANGED <<mk, refs>>
          ELSE /\ mk' = IF Marking THEN caml_darken(fld', old, mk) ELSE mk
               /\ refs' = IF v \in Young THEN refs \cup {<<a, i>>} ELSE refs
  /\ UNCHANGED <<tag, roots, epheRefs, phase, eph, hp, fin>>

(* A field is read into a register; a register is dropped. *)
Load ==
  /\ \E a \in HeldBlocks, i \in Ix :
       /\ fld[a][i] \in Addr \ roots
       /\ Hold(roots \cup {fld[a][i]})
  /\ UNCHANGED <<heap, tables, phase, mk, eph, hp, fin>>

Drop ==
  /\ \E v \in roots : roots' = roots \ {v}
  /\ UNCHANGED <<heap, tables, phase, mk, eph, hp, fin>>

(* do_set that remembers the first young value only *)
do_set_once(f, e, i, v) ==
  /\ fld' = [f EXCEPT ![e][i] = v]
  /\ epheRefs' = IF v \in Young /\ f[e][i] = Unit
                   THEN epheRefs \cup {<<e, i>>} ELSE epheRefs

(* do_set, of weak.c, on the fields f *)
do_set(f, e, i, v) ==
  /\ fld' = [f EXCEPT ![e][i] = v]
  /\ epheRefs' = IF v \in Young /\ f[e][i] \notin Young
                   THEN epheRefs \cup {<<e, i>>} ELSE epheRefs

(* do_check_key_clean that trusts the field *)
key_unchecked(e) == fld

(* do_check_key_clean and is_ephe_key_none: during the clean phase a dead   *)
(* key is removed, with the data, before the key is used.                   *)
do_check_key_clean(e) ==
  IF phase = "clean" THEN caml_ephe_clean(fld, e) ELSE fld

(* caml_ephemeron_set_key *)
caml_ephemeron_set_key ==
  /\ phase \in KeyEditPhases
  /\ \E e \in HeldEphes, k \in roots : do_set(do_check_key_clean(e), e, Key, k)
  /\ UNCHANGED <<tag, roots, refs, phase, mk, eph, hp, fin>>

(* caml_ephemeron_unset_key *)
caml_ephemeron_unset_key ==
  /\ phase \in KeyEditPhases
  /\ \E e \in HeldEphes :
       fld' = [do_check_key_clean(e) EXCEPT ![e][Key] = Unit]
  /\ UNCHANGED <<tag, roots, tables, phase, mk, eph, hp, fin>>

(* caml_ephemeron_set_data *)
caml_ephemeron_set_data ==
  /\ \E e \in HeldEphes, d \in roots : do_set(do_check_key_clean(e), e, Data, d)
  /\ UNCHANGED <<tag, roots, refs, phase, mk, eph, hp, fin>>

(* caml_ephemeron_unset_data *)
caml_ephemeron_unset_data ==
  /\ \E e \in HeldEphes : fld' = [fld EXCEPT ![e][Data] = Unit]
  /\ UNCHANGED <<tag, roots, tables, phase, mk, eph, hp, fin>>

(* caml_ephemeron_get_key (i = Key) and caml_ephemeron_get_data (i = Data): *)
(* cleaning comes first, and a value read while marking is darkened.        *)
caml_ephemeron_get(i) ==
  /\ \E e \in HeldEphes :
       LET v == do_check_key_clean(e)[e][i] IN
       /\ fld' = do_check_key_clean(e)
       /\ Hold(roots \cup ({v} \ {Unit}))
       /\ mk' = IF Marking THEN caml_darken(fld, v, mk) ELSE mk
  /\ UNCHANGED <<tag, tables, phase, eph, hp, fin>>

-----------------------------------------------------------------------------
(* Finalisation functions *)

(* generic_final_register *)
generic_final_register ==
  /\ \E f \in Funs, v \in HeldBlocks :
       /\ FinIs(f, "unused")
       /\ fin' = [fin EXCEPT ![f] = [st |-> "recent", val |-> v]]
  /\ UNCHANGED <<heap, roots, tables, phase, mk, eph, hp>>

(* caml_final_do_calls_exn runs a function that waits: the program gets the *)
(* value back, or the unit value.                                           *)
caml_final_do_calls ==
  /\ \E f \in ToDo :
       /\ fin' = [fin EXCEPT ![f] = Unused]
       /\ Hold(roots \cup ({fin[f].val} \ {Unit}))
  /\ UNCHANGED <<heap, tables, phase, mk, eph, hp>>

-----------------------------------------------------------------------------
GCInit ==
  /\ tag = [a \in Addr |-> "free"]
  /\ fld = [a \in Addr |-> Blank]
  /\ roots = {} /\ refs = {} /\ epheRefs = {}
  /\ phase = "idle" /\ hp = NMajor + 1
  /\ mk = [black |-> {}, stack |-> {}, redarken |-> {}, pure |-> TRUE]
  /\ eph = [checked |-> {}, skipped |-> {}, toCheck |-> {}]
  /\ fin = [f \in Funs |-> Unused]

Collector == MinorCollection \/ caml_major_collection_slice

Program ==
  \/ Alloc_small
  \/ caml_alloc_shr
  \/ caml_ephemeron_create
  \/ caml_modify
  \/ Load
  \/ Drop
  \/ caml_ephemeron_set_key
  \/ caml_ephemeron_unset_key
  \/ caml_ephemeron_set_data
  \/ caml_ephemeron_unset_data
  \/ \E i \in Ix : caml_ephemeron_get(i)
  \/ generic_final_register
  \/ caml_final_do_calls

GCNext == Collector \/ Program
GCSpec == GCInit /\ [][GCNext]_vars

-----------------------------------------------------------------------------
(* Properties *)

(* What the program can still reach: what it holds, the values that wait    *)
(* for their finalisation function, what fields of reachable blocks name,   *)
(* and the data of a reachable ephemeron without key or with a reachable    *)
(* one.                                                                     *)
ReachStep(S) ==
  S \cup {fld[a][i] : a \in {b \in S : IsBlock(b)}, i \in Ix}
    \cup {fld[e][Data] : e \in {b \in S : /\ tag[b] = "ephe"
                                          /\ fld[b][Key] \in S \cup {Unit}}}

Reachable ==
  LET round[n \in 0 .. NMajor + NYoung] ==
        IF n = 0 THEN (roots \cup {fin[f].val : f \in ToDo}) \ {Unit}
        ELSE ReachStep(round[n - 1]) \ {Unit}
  IN round[NMajor + NYoung]

(* Type invariant: each variable keeps its shape, and a free address holds  *)
(* nothing.                                                                 *)
GCTypeOK ==
  /\ tag \in [Addr -> {"free", "block", "ephe"}]
  /\ fld \in [Addr -> [Ix -> Addr \cup {Unit}]]
  /\ \A a \in Addr : tag[a] = "free" => fld[a] = Blank
  /\ \A y \in Young : tag[y] # "ephe"
  /\ roots \subseteq Addr
  /\ refs \subseteq Major \X Ix /\ epheRefs \subseteq Major \X Ix
  /\ phase \in Phases /\ hp \in 1 .. NMajor + 1
  /\ mk \in [black : SUBSET Major, stack : SUBSET (Major \X Ix),
             redarken : SUBSET Major, pure : BOOLEAN]
  /\ eph \in [checked : SUBSET Major, skipped : SUBSET Major,
              toCheck : SUBSET Major]
  /\ fin \in [Funs -> [st : {"unused", "recent", "old", "todo"},
                       val : Addr \cup {Unit}]]

(* A block the program can reach is never freed, and no field of one names  *)
(* a freed block: marking in slices under the write barrier, promotion      *)
(* while marking or sweeping, and the ephemeron accessors lose nothing.     *)
NoDangling ==
  \A a \in Reachable :
    /\ tag[a] # "free"
    /\ \A i \in Ix : fld[a][i] \in Addr => tag[fld[a][i]] # "free"

(* "The set of unreachable value will not change anymore for this cycle"    *)
(* (mark_slice): once the clean phase has begun, no program step makes a    *)
(* white block reachable again, through a weak key or data not yet cleaned, *)
(* or through a finalisation function.                                      *)
DeadStaysDead ==
  phase \in {"clean", "sweep"} =>
    \A a \in Reachable \cap Major :
      a \in mk.black \/ (phase = "sweep" /\ a < hp)

(* A field of a major block that names a young one is in ref_table or       *)
(* ephe_ref_table, and an entry of a table is a field of an allocated       *)
(* block: the minor collection writes through every entry, so one that      *)
(* outlived its block would write into the free list.                       *)
Remembered ==
  /\ \A a \in Major, i \in Ix :
       fld[a][i] \in Young =>
         <<a, i>> \in (IF tag[a] = "ephe" THEN epheRefs ELSE refs)
  /\ \A r \in refs : IsBlock(r[1])
  /\ \A r \in epheRefs : tag[r[1]] = "ephe" /\ r[1] \in Ephes

(* A value is handed over to its finalisation function only once the        *)
(* program cannot reach it, by either collector and whatever the program    *)
(* does between two slices; Gc.finalise_last even forgets it.               *)
FinalisedWhenDead ==
  [][ \A f \in Funs :
        fin[f].st # "todo" /\ fin'[f].st = "todo" =>
          /\ fin[f].val \notin Reachable
          /\ f \in LastFuns => fin'[f].val = Unit ]_vars

(* "If we scanned all the keys and the data field remains filled, then the   *)
(* mark phase must have marked it" (caml_ephe_clean_partial).               *)
CleanedDataMarked ==
  phase = "clean" =>
    \A e \in eph.checked : fld[e][Data] \notin White(mk)

(* The collectors take the data of a reachable ephemeron away only when its *)
(* key is dead.                                                             *)
EpheDataKept ==
  [][ \A e \in Major :
        /\ tag[e] = "ephe" /\ fld[e][Data] # Unit /\ fld'[e][Data] = Unit
        /\ e \in Reachable /\ Collector
        => fld[e][Key] # Unit /\ fld[e][Key] \notin Reachable ]_vars
=============================================================================
