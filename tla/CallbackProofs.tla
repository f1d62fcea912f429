--------------------------- MODULE CallbackProofs ---------------------------
(***************************************************************************)
(* The inductive invariant of the asynchronous callbacks, for every set of *)
(* signals, number of callbacks and depth.  The first lemmas say what      *)
(* pushing, editing and leaving the last frames of the stack keeps; an     *)
(* action is then one or two of these changes.                             *)
(***************************************************************************)
EXTENDS Channels, SequenceTheorems, TLAPS

\* The signal of an active handler is masked, in the mask of every frame
\* above it too, and was not when the handler was started.
HandlersIn(st, m) ==
  \A n \in 1 .. Len(st) : st[n].k = "handler" =>
    /\ st[n].i \in m /\ st[n].i \notin st[n].saved
    /\ \A p \in n + 1 .. Len(st) : st[n].i \in st[p].saved

\* What may lie above and below a frame.
FrameOK(st, m, n) ==
  /\ st[n].k = "signals" =>
       /\ st[n].pc = "run" => st[n].i \in Sigs \ st[n].saved
       /\ n = Len(st) => m = st[n].saved
       /\ n < Len(st) => /\ st[n + 1].k = "handler"
                         /\ st[n + 1].saved = st[n].saved
  /\ st[n].k = "putch" /\ n < Len(st) => st[n + 1].k = "flush"
  /\ st[n].k = "finals" => n > 1 /\ st[n - 1].k = "actions"
  /\ st[n].k = "finals" /\ n < Len(st) => st[n + 1].k = "final"
  /\ st[n].k = "final" => n > 1 /\ st[n - 1].k = "finals"
Above(st, m) == \A n \in 1 .. Len(st) : FrameOK(st, m, n)

\* At most one finalisation function has not been released, it is the one
\* that running_finalisation_function stands for, and none is above it.
FinalsIn(st, run) ==
  /\ run => \E n \in 1 .. Len(st) : st[n].k = "final" /\ st[n].pc = "on"
  /\ \A n \in 1 .. Len(st) : st[n].k = "final" /\ st[n].pc = "on" =>
       run /\ \A p \in n + 1 .. Len(st) : st[p].k # "final"
  /\ st[Len(st)].k = "finals" => ~run

StackOK(st, m, run) ==
  /\ st \in Seq(ActiveFrame) /\ st # <<>> /\ st[1].k = "main"
  /\ HandlersIn(st, m) /\ Above(st, m) /\ FinalsIn(st, run)

\* Some caml_do_pending_actions_exn will still look at the finalising set.
WillLook(st) ==
  \E n \in 1 .. Len(st) : \/ st[n].k = "finals"
                          \/ st[n].k = "actions" /\ st[n].pc # "done"
-----------------------------------------------------------------------------
(* What one change of the last frames keeps.                               *)

\* Pushing a frame keeps the stack in order, when the frame is one that its
\* caller may push and the mask and running_finalisation_function follow.
LEMMA Pushed ==
  ASSUME NEW st, NEW m \in SUBSET Sigs, NEW run \in BOOLEAN, StackOK(st, m, run),
         NEW f \in ActiveFrame, f.saved = m, NEW m2, NEW run2 \in BOOLEAN,
         f.k = "handler" => st[Len(st)].k = "signals" /\ f.i \notin m,
         m2 = IF f.k = "handler" THEN m \union {f.i} ELSE m,
         f.k = "final" => st[Len(st)].k = "finals" /\ f.pc = "on" /\ run2,
         f.k # "final" => (run2 <=> run),
         st[Len(st)].k = "signals" => f.k = "handler",
         st[Len(st)].k = "finals" => f.k = "final",
         st[Len(st)].k = "putch" => f.k = "flush",
         f.k = "signals" => f.pc # "run",
         f.k = "finals" => st[Len(st)].k = "actions" /\ ~run
  PROVE  StackOK(Append(st, f), m2, run2)
<1>. DEFINE t == Append(st, f)
<1>1. /\ st \in Seq(ActiveFrame) /\ Len(st) \in Nat \ {0} /\ st[1].k = "main"
      /\ HandlersIn(st, m) /\ Above(st, m) /\ FinalsIn(st, run)
  BY DEF StackOK
<1>2. /\ t \in Seq(ActiveFrame) /\ Len(t) = Len(st) + 1 /\ t[Len(t)] = f
      /\ \A n \in 1 .. Len(st) : t[n] = st[n]
  BY <1>1
<1>3. \A n \in 1 .. Len(t) : n = Len(t) \/ n \in 1 .. Len(st)
  BY <1>1, <1>2
<1>. HIDE DEF t
<1>4. t # <<>> /\ t[1].k = "main"
  BY <1>1, <1>2
<1>5. HandlersIn(t, m2)
  BY <1>1, <1>2, <1>3 DEF HandlersIn
<1>6. Above(t, m2)
  <2>1. ASSUME NEW n \in 1 .. Len(t)
        PROVE  FrameOK(t, m2, n)
    <3>1. CASE n = Len(t)
      BY <1>1, <1>2, <3>1 DEF FrameOK
    <3>2. CASE n = Len(st)
      BY <1>1, <1>2, <3>2 DEF FrameOK, Above
    <3>3. CASE n \in 1 .. Len(st) - 1
      <4>1. /\ FrameOK(st, m, n) /\ n # Len(t) /\ n < Len(st) /\ n # Len(st)
            /\ t[n] = st[n] /\ t[n + 1] = st[n + 1] /\ (n > 1 => t[n - 1] = st[n - 1])
        BY <1>1, <1>2, <3>3 DEF Above
      <4>. QED BY <4>1 DEF FrameOK
    <3>. QED BY <1>1, <1>2, <3>1, <3>2, <3>3
  <2>. QED BY <2>1 DEF Above
<1>7. FinalsIn(t, run2)
  <2>1. ASSUME run2
        PROVE  \E n \in 1 .. Len(t) : t[n].k = "final" /\ t[n].pc = "on"
    <3>1. CASE f.k = "final"
      BY <1>1, <1>2, <3>1
    <3>2. CASE f.k # "final"
      BY <1>1, <1>2, <2>1, <3>2 DEF FinalsIn
    <3>. QED BY <3>1, <3>2
  <2>2. ASSUME NEW n \in 1 .. Len(t), t[n].k = "final", t[n].pc = "on"
        PROVE  run2 /\ \A p \in n + 1 .. Len(t) : t[p].k # "final"
    BY <1>1, <1>2, <1>3, <2>2 DEF FinalsIn
  <2>3. f.k = "finals" => ~run2
    OBVIOUS
  <2>. QED BY <1>2, <2>1, <2>2, <2>3 DEF FinalsIn
<1>. QED BY <1>2, <1>4, <1>5, <1>6, <1>7 DEF StackOK, t

\* Changing the position and the number of the last frame.
LEMMA Edited ==
  ASSUME NEW st, NEW m \in SUBSET Sigs, NEW run \in BOOLEAN, StackOK(st, m, run),
         NEW f \in ActiveFrame, NEW run2 \in BOOLEAN,
         f.k = st[Len(st)].k, f.saved = st[Len(st)].saved, f.k # "handler",
         f.k = "signals" /\ f.pc = "run" => f.i \in Sigs \ f.saved,
         f.k = "final" => st[Len(st)].pc = "on" /\ f.pc # "on" /\ ~run2,
         f.k # "final" => (run2 <=> run)
  PROVE  StackOK([st EXCEPT ![Len(st)] = f], m, run2)
<1>. DEFINE t == [st EXCEPT ![Len(st)] = f]
<1>1. /\ st \in Seq(ActiveFrame) /\ Len(st) \in Nat \ {0} /\ st[1].k = "main"
      /\ HandlersIn(st, m) /\ Above(st, m) /\ FinalsIn(st, run)
  BY DEF StackOK
<1>2. /\ t \in Seq(ActiveFrame) /\ Len(t) = Len(st) /\ t[Len(t)] = f
      /\ \A n \in 1 .. Len(st) : t[n] = IF n = Len(st) THEN f ELSE st[n]
  BY <1>1
<1>. HIDE DEF t
<1>3. \A n \in 1 .. Len(t) : t[n].k = st[n].k /\ t[n].saved = st[n].saved
  BY <1>1, <1>2
<1>4. t # <<>> /\ t[1].k = "main"
  BY <1>1, <1>2, <1>3
<1>5. HandlersIn(t, m)
  BY <1>1, <1>2, <1>3 DEF HandlersIn
<1>6. Above(t, m)
  BY <1>1, <1>2, <1>3 DEF Above, FrameOK
<1>7. FinalsIn(t, run2)
  <2>1. CASE f.k = "final"
    <3>1. ASSUME NEW n \in 1 .. Len(t), t[n].k = "final", t[n].pc = "on"
          PROVE  FALSE
      <4>1. n # Len(t) /\ st[n].k = "final" /\ st[n].pc = "on"
        BY <1>2, <2>1, <3>1
      <4>2. Len(st) \in n + 1 .. Len(st)
        BY <1>1, <1>2, <4>1
      <4>. QED BY <1>1, <1>2, <2>1, <4>1, <4>2 DEF FinalsIn
    <3>. QED BY <1>2, <2>1, <3>1 DEF FinalsIn
  <2>2. CASE f.k # "final"
    <3>1. ASSUME run2
          PROVE  \E n \in 1 .. Len(t) : t[n].k = "final" /\ t[n].pc = "on"
      BY <1>1, <1>2, <2>2, <3>1 DEF FinalsIn
    <3>2. ASSUME NEW n \in 1 .. Len(t), t[n].k = "final", t[n].pc = "on"
          PROVE  run2 /\ \A p \in n + 1 .. Len(t) : t[p].k # "final"
      BY <1>1, <1>2, <1>3, <2>2, <3>2 DEF FinalsIn
    <3>3. f.k = "finals" => ~run2
      BY <1>1, <2>2 DEF FinalsIn
    <3>. QED BY <1>2, <3>1, <3>2, <3>3 DEF FinalsIn
  <2>. QED BY <2>1, <2>2
<1>. QED BY <1>2, <1>4, <1>5, <1>6, <1>7 DEF StackOK, t

\* Leaving the frames above the n-th: the last one alone, or what lies over
\* the OCaml code that an exception goes to.
LEMMA Cut ==
  ASSUME NEW st, NEW m \in SUBSET Sigs, NEW run \in BOOLEAN, StackOK(st, m, run),
         NEW n \in 1 .. Len(st) - 1, NEW m2, NEW run2 \in BOOLEAN,
         n = Len(st) - 1 \/ st[n].k \in OCaml,
         \A j \in n + 1 .. Len(st) - 1 : st[j].k \notin OCaml,
         m2 = IF st[Len(st)].k = "handler" THEN st[Len(st)].saved ELSE m,
         st[Len(st)].k = "final" => ~run2,
         st[Len(st)].k # "final" => (run2 <=> run)
  PROVE  StackOK(SubSeq(st, 1, n), m2, run2)
<1>. DEFINE t == SubSeq(st, 1, n)
<1>1. /\ st \in Seq(ActiveFrame) /\ Len(st) \in Nat \ {0} /\ st[1].k = "main"
      /\ HandlersIn(st, m) /\ Above(st, m) /\ FinalsIn(st, run)
  BY DEF StackOK
<1>2. /\ t \in Seq(ActiveFrame) /\ Len(t) = n
      /\ \A p \in 1 .. n : t[p] = st[p]
  BY <1>1
<1>. HIDE DEF t
<1>3. t # <<>> /\ t[1].k = "main"
  BY <1>1, <1>2
<1>4. HandlersIn(t, m2)
  BY <1>1, <1>2 DEF HandlersIn
<1>5. Above(t, m2)
  <2>. SUFFICES ASSUME NEW q \in 1 .. n PROVE FrameOK(t, m2, q)
    BY <1>2 DEF Above
  <2>1. q \in 1 .. Len(st) /\ q < Len(st) /\ FrameOK(st, m, q) /\ t[q] = st[q]
    BY <1>1, <1>2 DEF Above
  <2>2. q < n => t[q + 1] = st[q + 1]
    BY <1>2
  <2>3. q > 1 => t[q - 1] = st[q - 1]
    BY <1>2
  <2>4. q = n /\ st[q].k \notin OCaml => q + 1 = Len(st)
    BY <2>1
  <2>5. q = n /\ st[q].k \notin OCaml /\ st[q + 1].k = "handler" => m2 = st[q + 1].saved
    BY <2>4
  <2>6. "signals" \notin OCaml
    BY DEF OCaml
  <2>. QED BY <1>2, <2>1, <2>2, <2>3, <2>5, <2>6 DEF FrameOK
<1>6. FinalsIn(t, run2)
  <2>1. ASSUME run2
        PROVE  \E p \in 1 .. Len(t) : t[p].k = "final" /\ t[p].pc = "on"
    <3>1. run /\ st[Len(st)].k # "final"
      BY <2>1
    <3>2. PICK p \in 1 .. Len(st) : st[p].k = "final" /\ st[p].pc = "on"
      BY <1>1, <3>1 DEF FinalsIn
    <3>3. p \in 1 .. n
      BY <1>1, <3>1, <3>2 DEF OCaml
    <3>. QED BY <1>2, <3>2, <3>3
  <2>2. ASSUME NEW p \in 1 .. Len(t), t[p].k = "final", t[p].pc = "on"
        PROVE  run2 /\ \A q \in p + 1 .. Len(t) : t[q].k # "final"
    <3>1. /\ p \in 1 .. n /\ p \in 1 .. Len(st) /\ st[p].k = "final" /\ st[p].pc = "on"
      BY <1>1, <1>2, <2>2
    <3>2. run /\ \A q \in p + 1 .. Len(st) : st[q].k # "final"
      BY <1>1, <3>1 DEF FinalsIn
    <3>3. st[Len(st)].k # "final" /\ run2
      BY <1>1, <3>1, <3>2
    <3>4. \A q \in p + 1 .. Len(t) : q \in p + 1 .. Len(st) /\ t[q] = st[q]
      BY <1>1, <1>2, <3>1
    <3>. QED BY <3>2, <3>3, <3>4
  <2>3. t[Len(t)].k = "finals" => ~run2
    <3>. HAVE t[Len(t)].k = "finals"
    <3>1. n = Len(st) - 1 /\ st[n].k = "finals"
      BY <1>2 DEF OCaml
    <3>2. st[Len(st)].k = "final"
      BY <1>1, <3>1 DEF Above, FrameOK
    <3>. QED BY <3>2
  <2>. QED BY <1>2, <2>1, <2>2, <2>3 DEF FinalsIn
<1>. QED BY <1>2, <1>3, <1>4, <1>5, <1>6 DEF StackOK, t
-----------------------------------------------------------------------------
(* Whether the finalising set will be looked at.                           *)

\* Pushing a frame loses no look at the finalising set.
LEMMA PushedLooks ==
  ASSUME NEW st \in Seq(ActiveFrame), NEW f \in ActiveFrame
  PROVE  /\ WillLook(st) => WillLook(Append(st, f))
         /\ f.k = "actions" /\ f.pc # "done" => WillLook(Append(st, f))
         /\ f.k = "finals" => WillLook(Append(st, f))
<1>. DEFINE t == Append(st, f)
<1>1. /\ Len(st) \in Nat /\ Len(t) = Len(st) + 1 /\ t[Len(t)] = f
      /\ \A n \in 1 .. Len(st) : t[n] = st[n]
  OBVIOUS
<1>. HIDE DEF t
<1>2. WillLook(st) => WillLook(t)
  BY <1>1 DEF WillLook
<1>3. (f.k = "actions" /\ f.pc # "done") \/ f.k = "finals" => WillLook(t)
  BY <1>1 DEF WillLook
<1>. QED BY <1>2, <1>3 DEF t

\* Nor does changing the last frame, as long as it still looks.
LEMMA EditedLooks ==
  ASSUME NEW st \in Seq(ActiveFrame), st # <<>>, NEW f \in ActiveFrame,
         f.k = st[Len(st)].k, f.k = "actions" => f.pc # "done"
  PROVE  WillLook(st) => WillLook([st EXCEPT ![Len(st)] = f])
<1>. DEFINE t == [st EXCEPT ![Len(st)] = f]
<1>1. /\ Len(st) \in Nat \ {0} /\ Len(t) = Len(st)
      /\ \A n \in 1 .. Len(st) : t[n] = IF n = Len(st) THEN f ELSE st[n]
  OBVIOUS
<1>. HIDE DEF t
<1>2. WillLook(st) => WillLook(t)
  BY <1>1 DEF WillLook
<1>. QED BY <1>2 DEF t

\* Leaving frames loses one only if one of them was to look.
LEMMA CutLooks ==
  ASSUME NEW st \in Seq(ActiveFrame), NEW n \in 1 .. Len(st),
         \A j \in n + 1 .. Len(st) :
           st[j].k # "finals" /\ (st[j].k = "actions" => st[j].pc = "done")
  PROVE  WillLook(st) => WillLook(SubSeq(st, 1, n))
<1>. DEFINE t == SubSeq(st, 1, n)
<1>1. Len(st) \in Nat /\ Len(t) = n /\ \A p \in 1 .. n : t[p] = st[p]
  OBVIOUS
<1>. HIDE DEF t
<1>2. ASSUME NEW p \in 1 .. Len(st),
             st[p].k = "finals" \/ (st[p].k = "actions" /\ st[p].pc # "done")
      PROVE  WillLook(t)
  <2>1. p \in 1 .. n
    BY <1>1, <1>2
  <2>. QED BY <1>1, <1>2, <2>1 DEF WillLook
<1>. QED BY <1>2 DEF t, WillLook

\* A finalisation function that runs was called by a loop that goes on.
LEMMA RunningLooks ==
  ASSUME NEW st, NEW m, NEW run, StackOK(st, m, run), run
  PROVE  WillLook(st)
<1>1. PICK n \in 1 .. Len(st) : st[n].k = "final"
  BY DEF StackOK, FinalsIn
<1>2. Len(st) \in Nat /\ n - 1 \in 1 .. Len(st) /\ st[n - 1].k = "finals"
  BY <1>1 DEF StackOK, Above, FrameOK
<1>. QED BY <1>2 DEF WillLook
-----------------------------------------------------------------------------
(* The inductive invariant of the asynchronous callbacks.                  *)

Watched == to_do # <<>> => todo \/ WillLook(stack)
CallbackInv == SigTypeOK /\ StackOK(stack, mask, running) /\ Watched

\* What the last frame is, in a state of the invariant.
LEMMA Tops ==
  ASSUME CallbackInv
  PROVE  /\ stack \in Seq(ActiveFrame) /\ stack # <<>> /\ Len(stack) \in Nat \ {0}
         /\ Top = stack[Len(stack)] /\ Top \in ActiveFrame
         /\ \A n \in 1 .. Len(stack) : stack[n] \in ActiveFrame
         /\ Front(stack) = SubSeq(stack, 1, Len(stack) - 1)
<1>1. stack \in Seq(ActiveFrame) /\ stack # <<>> /\ mask \subseteq Sigs
  BY DEF CallbackInv, SigTypeOK
<1>2. Len(stack) \in Nat \ {0} /\ stack[Len(stack)] \in ActiveFrame
  BY <1>1
<1>3. \A n \in 1 .. Len(stack) : stack[n] \in ActiveFrame
  BY <1>1
<1>4. Top = stack[Len(stack)] /\ Front(stack) = SubSeq(stack, 1, Len(stack) - 1)
  BY DEF Top, Last, Front
<1>. QED BY <1>1, <1>2, <1>3, <1>4

Kinds == OCaml \union InRuntime \union InChannels

\* A new frame has its type and saves the present mask.
LEMMA Framed ==
  ASSUME CallbackInv, NEW k \in Kinds, NEW pc \in Places, NEW i \in Nat
  PROVE  /\ Frame(k, pc, i) \in ActiveFrame
         /\ Frame(k, pc, i).k = k /\ Frame(k, pc, i).pc = pc
         /\ Frame(k, pc, i).i = i /\ Frame(k, pc, i).saved = mask
BY DEF CallbackInv, SigTypeOK, Frame, ActiveFrame, Kinds

\* Calling check_pending, or caml_process_pending_actions, from a stack s
\* that came from the present one.
LEMMA Checked ==
  ASSUME CallbackInv, NEW s, StackOK(s, mask, running), NEW flag \in BOOLEAN,
         s[Len(s)].k \notin {"signals", "finals", "putch"},
         WillLook(stack) => WillLook(s), todo => flag, sap' \in BOOLEAN,
         check_pending(s, flag), InCallback
  PROVE  CallbackInv'
<1>. DEFINE f == Frame("actions", "gc", 0)
<1>1. f \in ActiveFrame /\ f.k = "actions" /\ f.pc = "gc" /\ f.saved = mask
  BY Framed DEF Kinds, Places, OCaml, InRuntime
<1>2. /\ s \in Seq(ActiveFrame) /\ mask \in SUBSET Sigs /\ running \in BOOLEAN
      /\ StackOK(s, mask, running)
  BY DEF StackOK, CallbackInv, SigTypeOK
<1>. HIDE DEF f
<1>3. CASE flag
  <2>1. stack' = Append(s, f) /\ todo' = FALSE
    BY <1>3 DEF check_pending, DoPending, f
  <2>2. StackOK(Append(s, f), mask, running)
    BY <1>1, <1>2, Pushed
  <2>3. WillLook(Append(s, f))
    BY <1>1, <1>2, PushedLooks
  <2>. QED BY <2>1, <2>2, <2>3 DEF CallbackInv, SigTypeOK, StackOK, Watched, InCallback
<1>4. CASE ~flag
  <2>1. stack' = s /\ todo' = FALSE
    BY <1>4 DEF check_pending
  <2>2. to_do # <<>> => WillLook(s)
    BY <1>4 DEF CallbackInv, Watched
  <2>. QED BY <1>2, <2>1, <2>2 DEF CallbackInv, SigTypeOK, StackOK, Watched, InCallback
<1>. QED BY <1>3, <1>4

\* What alloc_to_do does to the finalising set.
LEMMA AllocTypes ==
  ASSUME NEW n \in 0 .. MaxFinal, alloc_to_do(n, todo), todo \in BOOLEAN,
         left \in [signals : 0 .. MaxSignals, finals : 0 .. MaxFinal],
         to_do \in Seq(0 .. MaxFinal)
  PROVE  /\ left' \in [signals : 0 .. MaxSignals, finals : 0 .. MaxFinal]
         /\ to_do' \in Seq(0 .. MaxFinal)
         /\ todo' \in BOOLEAN
         /\ to_do' # <<>> => todo' \/ running \/ to_do # <<>>
         /\ todo => todo'
<1>1. left' \in [signals : 0 .. MaxSignals, finals : 0 .. MaxFinal]
  BY SignalsAssumption, SMTT(30) DEF alloc_to_do
<1>2. to_do' \in Seq(0 .. MaxFinal) /\ (n = 0 => to_do' = to_do)
  <2>1. to_do' = IF n = 0 THEN to_do ELSE Append(to_do, n)
    BY Zenon DEF alloc_to_do
  <2>2. Append(to_do, n) \in Seq(0 .. MaxFinal)
    OBVIOUS
  <2>. QED BY <2>1, <2>2, Zenon
<1>3. todo' \in BOOLEAN /\ (todo => todo')
  BY DEF alloc_to_do
<1>4. n = 0 \/ n > 0
  BY SignalsAssumption
<1>5. n > 0 => todo' \/ running \/ to_do # <<>>
  BY DEF alloc_to_do
<1>. QED BY <1>1, <1>2, <1>3, <1>4, <1>5

\* alloc_to_do, with a step of the stack that keeps it in order.
LEMMA Allocated ==
  ASSUME CallbackInv, NEW n \in 0 .. MaxFinal, alloc_to_do(n, todo),
         StackOK(stack', mask, running), WillLook(stack) => WillLook(stack'),
         UNCHANGED <<pending, sap, mask, running>>
  PROVE  CallbackInv'
<1>1. /\ left' \in [signals : 0 .. MaxSignals, finals : 0 .. MaxFinal]
      /\ to_do' \in Seq(0 .. MaxFinal)
      /\ todo' \in BOOLEAN
      /\ to_do' # <<>> => todo' \/ running \/ to_do # <<>>
      /\ todo => todo'
  BY AllocTypes DEF CallbackInv, SigTypeOK
<1>2. running => WillLook(stack)
  <2>1. StackOK(stack, mask, running)
    BY DEF CallbackInv
  <2>. QED BY <2>1, RunningLooks
<1>3. Watched'
  BY <1>1, <1>2 DEF CallbackInv, Watched
<1>. QED BY <1>1, <1>3 DEF CallbackInv, SigTypeOK, StackOK

\* Going to another place in the last frame, which is none of the program's.
LEMMA Went ==
  ASSUME CallbackInv, NEW pc \in Places \ {"run", "done"}, Top.k \in InRuntime
  PROVE  /\ StackOK(Goto(pc), mask, running)
         /\ WillLook(stack) => WillLook(Goto(pc))
         /\ Goto(pc) \in Seq(ActiveFrame) /\ Len(Goto(pc)) = Len(stack)
         /\ Goto(pc)[Len(stack)].k = Top.k
<1>. DEFINE f == [Top EXCEPT !.pc = pc]
<1>1. /\ f \in ActiveFrame /\ f.k = Top.k /\ f.pc = pc /\ f.saved = Top.saved
      /\ f.k \notin OCaml
  BY Tops DEF ActiveFrame, InRuntime, OCaml
<1>2. Goto(pc) = [stack EXCEPT ![Len(stack)] = f]
  BY Tops DEF Goto
<1>3. mask \in SUBSET Sigs /\ running \in BOOLEAN /\ StackOK(stack, mask, running)
  BY DEF CallbackInv, SigTypeOK
<1>. HIDE DEF f
<1>4. StackOK([stack EXCEPT ![Len(stack)] = f], mask, running)
  BY <1>1, <1>3, Tops, Edited DEF OCaml
<1>5. WillLook(stack) => WillLook([stack EXCEPT ![Len(stack)] = f])
  BY <1>1, Tops, EditedLooks
<1>6. /\ Goto(pc) \in Seq(ActiveFrame) /\ Len(Goto(pc)) = Len(stack)
      /\ Goto(pc)[Len(stack)].k = Top.k
  BY <1>1, <1>2, Tops
<1>. QED BY <1>2, <1>4, <1>5, <1>6

\* Going back from the last frame, when it is none of the program's.
LEMMA Left1 ==
  ASSUME CallbackInv, Top.k \notin OCaml
  PROVE  /\ Len(stack) > 1 /\ StackOK(Front(stack), mask, running)
         /\ (Top.k # "finals" /\ (Top.k = "actions" => Top.pc = "done")) =>
              (WillLook(stack) => WillLook(Front(stack)))
<1>1. Len(stack) > 1 /\ Len(stack) - 1 \in 1 .. Len(stack) - 1
  BY Tops DEF CallbackInv, SigTypeOK, OCaml
<1>2. mask \in SUBSET Sigs /\ running \in BOOLEAN /\ StackOK(stack, mask, running)
  BY DEF CallbackInv, SigTypeOK
<1>3. StackOK(SubSeq(stack, 1, Len(stack) - 1), mask, running)
  <2>1. /\ stack[Len(stack)].k \notin {"handler", "final"}
        /\ \A j \in Len(stack) - 1 + 1 .. Len(stack) - 1 : stack[j].k \notin OCaml
    BY <1>1, Tops DEF OCaml
  <2>. QED BY <1>1, <1>2, <2>1, Cut
<1>4. (Top.k # "finals" /\ (Top.k = "actions" => Top.pc = "done")) =>
        (WillLook(stack) => WillLook(SubSeq(stack, 1, Len(stack) - 1)))
  <2>1. /\ stack \in Seq(ActiveFrame) /\ Len(stack) - 1 \in 1 .. Len(stack)
        /\ \A j \in Len(stack) - 1 + 1 .. Len(stack) : stack[j] = Top
    BY <1>1, Tops
  <2>. QED BY <2>1, CutLooks
<1>5. Front(stack) = SubSeq(stack, 1, Len(stack) - 1)
  BY Tops
<1>. QED BY <1>1, <1>3, <1>4, <1>5

\* A step that changes the stack and keeps it in order.
LEMMA Stepped ==
  ASSUME CallbackInv, StackOK(stack', mask, running),
         WillLook(stack) => WillLook(stack'),
         pending' \subseteq Sigs, sap' \in BOOLEAN, todo' \in BOOLEAN, todo => todo',
         mask' = mask, to_do' = to_do, running' = running, left' = left
  PROVE  CallbackInv'
<1>1. StackOK(stack', mask', running')
  OBVIOUS
<1>2. Watched'
  BY DEF CallbackInv, Watched
<1>3. SigTypeOK'
  BY DEF CallbackInv, SigTypeOK, StackOK
<1>. QED BY <1>1, <1>2, <1>3 DEF CallbackInv

\* Pushing a frame of the runtime or of a channel on the program's.
LEMMA PushedOver ==
  ASSUME CallbackInv, NEW s, StackOK(s, mask, running), WillLook(stack) => WillLook(s),
         s[Len(s)].k \notin {"signals", "finals"},
         NEW k \in Kinds \ {"handler", "final", "finals"}, NEW pc \in Places \ {"run"},
         NEW i \in Nat, s[Len(s)].k = "putch" => k = "flush"
  PROVE  /\ StackOK(Append(s, Frame(k, pc, i)), mask, running)
         /\ WillLook(stack) => WillLook(Append(s, Frame(k, pc, i)))
<1>. DEFINE f == Frame(k, pc, i)
<1>1. f \in ActiveFrame /\ f.k = k /\ f.pc = pc /\ f.saved = mask
  BY Framed
<1>2. s \in Seq(ActiveFrame) /\ mask \in SUBSET Sigs /\ running \in BOOLEAN
  BY DEF StackOK, CallbackInv, SigTypeOK
<1>. HIDE DEF f
<1>3. StackOK(Append(s, f), mask, running)
  BY <1>1, <1>2, Pushed
<1>4. WillLook(s) => WillLook(Append(s, f))
  BY <1>1, <1>2, PushedLooks
<1>. QED BY <1>3, <1>4 DEF f

\* caml_process_pending_signals_exn.
LEMMA ProcessingSignals ==
  ASSUME CallbackInv, NEW next \in {"finals", "hook"}, Top.k \in {"actions", "enter"},
         ProcessSignals(next)
  PROVE  CallbackInv'
<1>. DEFINE t == Goto(next)
<1>1. /\ StackOK(t, mask, running) /\ (WillLook(stack) => WillLook(t))
      /\ Len(t) = Len(stack) /\ t[Len(t)].k = Top.k
  BY Went DEF Places, InRuntime
<1>. HIDE DEF t
<1>2. /\ StackOK(Append(t, Frame("signals", "next", 0)), mask, running)
      /\ WillLook(stack) => WillLook(Append(t, Frame("signals", "next", 0)))
  BY <1>1, PushedOver DEF Kinds, InRuntime, OCaml, Places
<1>3. stack' = t \/ stack' = Append(t, Frame("signals", "next", 0))
  BY DEF ProcessSignals, t
<1>4. StackOK(stack', mask, running) /\ (WillLook(stack) => WillLook(stack'))
  BY <1>1, <1>2, <1>3
<1>5. /\ pending' = pending /\ sap' = FALSE /\ todo' = todo
      /\ mask' = mask /\ to_do' = to_do /\ running' = running /\ left' = left
  BY DEF ProcessSignals
<1>6. pending \subseteq Sigs /\ todo \in BOOLEAN
  BY DEF CallbackInv, SigTypeOK
<1>. QED BY <1>4, <1>5, <1>6, Stepped

\* The loop of caml_process_pending_signals_exn takes its next signal or ends.
LEMMA SignalsNextStep ==
  ASSUME CallbackInv, SignalsNext
  PROVE  CallbackInv'
<1>1. /\ sap' = sap /\ todo' = todo /\ mask' = mask /\ to_do' = to_do
      /\ running' = running /\ left' = left
  BY DEF SignalsNext
<1>2. /\ pending \subseteq Sigs /\ sap \in BOOLEAN /\ todo \in BOOLEAN
      /\ mask \in SUBSET Sigs /\ running \in BOOLEAN /\ StackOK(stack, mask, running)
  BY DEF CallbackInv, SigTypeOK
<1>3. Top.k = "signals"
  BY DEF SignalsNext, At
<1>4. CASE stack' = Front(stack) /\ UNCHANGED pending
  <2>1. StackOK(stack', mask, running) /\ (WillLook(stack) => WillLook(stack'))
    BY <1>3, <1>4, Left1 DEF OCaml
  <2>. QED BY <1>1, <1>2, <1>4, <2>1, Stepped
<1>5. ASSUME NEW s \in Deliverable(Top), pending' = pending \ {s},
             stack' = [stack EXCEPT ![Len(stack)].pc = "run", ![Len(stack)].i = s]
      PROVE  CallbackInv'
  <2>. DEFINE f == [Top EXCEPT !.pc = "run", !.i = s]
  <2>1. s \in Sigs \ Top.saved /\ s \in Nat
    BY <1>2, SignalsAssumption DEF Deliverable
  <2>2. /\ f \in ActiveFrame /\ f.k = "signals" /\ f.pc = "run" /\ f.i = s
        /\ f.saved = Top.saved
    BY <1>3, <2>1, Tops DEF ActiveFrame, Places
  <2>3. stack' = [stack EXCEPT ![Len(stack)] = f]
    BY <1>5, Tops
  <2>. HIDE DEF f
  <2>4. StackOK([stack EXCEPT ![Len(stack)] = f], mask, running)
    BY <1>2, <1>3, <2>1, <2>2, Tops, Edited
  <2>5. WillLook(stack) => WillLook([stack EXCEPT ![Len(stack)] = f])
    BY <1>3, <2>2, Tops, EditedLooks
  <2>6. pending' \subseteq Sigs
    BY <1>2, <1>5
  <2>. QED BY <1>1, <1>2, <2>3, <2>4, <2>5, <2>6, Stepped
<1>. QED BY <1>4, <1>5 DEF SignalsNext

\* caml_execute_signal_exn masks the signal and calls its handler.
LEMMA SignalsRunStep ==
  ASSUME CallbackInv, SignalsRun
  PROVE  CallbackInv'
<1>1. /\ pending' = pending /\ sap' = sap /\ todo' = todo /\ to_do' = to_do
      /\ running' = running /\ left' = left /\ mask' = mask \union {Top.i}
  BY DEF SignalsRun
<1>2. /\ mask \in SUBSET Sigs /\ running \in BOOLEAN /\ StackOK(stack, mask, running)
  BY DEF CallbackInv, SigTypeOK
<1>3. Top.k = "signals" /\ Top.pc = "run"
  BY DEF SignalsRun, At
<1>4. mask = Top.saved /\ Top.i \in Sigs \ mask
  BY <1>3, Tops DEF CallbackInv, StackOK, Above, FrameOK
<1>. DEFINE f == [Top EXCEPT !.pc = "next", !.i = @ + 1]
            t == [stack EXCEPT ![Len(stack)] = f]
            h == Frame("handler", "on", Top.i)
<1>5. f \in ActiveFrame /\ f.k = "signals" /\ f.pc = "next" /\ f.saved = Top.saved
  <2>1. Top \in ActiveFrame /\ Top.i + 1 \in Nat
    BY Tops DEF ActiveFrame
  <2>. QED BY <1>3, <2>1 DEF ActiveFrame, Places
<1>6. /\ h \in ActiveFrame /\ h.k = "handler" /\ h.i = Top.i /\ h.saved = mask
  <2>1. Top.i \in Nat /\ "handler" \in Kinds /\ "on" \in Places
    BY <1>4, SignalsAssumption DEF Kinds, OCaml, Places
  <2>. QED BY <2>1, Framed
<1>7. stack' = Append(t, h)
  BY Tops DEF SignalsRun
<1>. HIDE DEF f, h
<1>8. StackOK(t, mask, running)
  BY <1>2, <1>3, <1>5, Tops, Edited
<1>9. /\ t \in Seq(ActiveFrame) /\ Len(t) = Len(stack) /\ t[Len(t)] = f
      /\ (WillLook(stack) => WillLook(t))
  BY <1>3, <1>5, Tops, EditedLooks
<1>. HIDE DEF t
<1>10. StackOK(Append(t, h), mask', running)
  BY <1>1, <1>2, <1>4, <1>5, <1>6, <1>8, <1>9, Pushed
<1>11. WillLook(stack) => WillLook(Append(t, h))
  BY <1>6, <1>9, PushedLooks
<1>12. mask' \subseteq Sigs
  BY <1>1, <1>2, <1>4
<1>13. Watched'
  <2>1. WillLook(stack) => WillLook(stack')
    BY <1>7, <1>11
  <2>. QED BY <1>1, <2>1 DEF CallbackInv, Watched
<1>14. StackOK(stack', mask', running')
  <2>1. running' = running
    BY <1>1
  <2>. QED BY <1>7, <1>10, <2>1
<1>. QED BY <1>1, <1>12, <1>13, <1>14 DEF CallbackInv, SigTypeOK, StackOK

\* caml_do_pending_actions_exn comes to the finalising set.
LEMMA ActionsFinalsStep ==
  ASSUME CallbackInv, ActionsFinals
  PROVE  CallbackInv'
<1>1. /\ pending' = pending /\ sap' = sap /\ todo' = todo /\ mask' = mask
      /\ to_do' = to_do /\ running' = running /\ left' = left
  BY DEF ActionsFinals
<1>2. /\ pending \subseteq Sigs /\ sap \in BOOLEAN /\ todo \in BOOLEAN
      /\ mask \in SUBSET Sigs /\ running \in BOOLEAN /\ StackOK(stack, mask, running)
  BY DEF CallbackInv, SigTypeOK
<1>3. Top.k = "actions" /\ Top.pc = "finals"
  BY DEF ActionsFinals, At
<1>4. CASE CanFinalise
  <2>. DEFINE f == [Top EXCEPT !.pc = "done"]
              t == [stack EXCEPT ![Len(stack)] = f]
              h == Frame("finals", "on", 0)
  <2>1. f \in ActiveFrame /\ f.k = "actions" /\ f.pc = "done" /\ f.saved = Top.saved
    BY <1>3, Tops DEF ActiveFrame, Places
  <2>2. h \in ActiveFrame /\ h.k = "finals" /\ h.saved = mask
    <3>1. "finals" \in Kinds /\ "on" \in Places
      BY DEF Kinds, InRuntime, Places
    <3>. QED BY <3>1, Framed
  <2>3. stack' = Append(t, h)
    BY <1>4, Tops DEF ActionsFinals, Goto
  <2>4. ~running
    BY <1>4 DEF CanFinalise
  <2>. HIDE DEF f, h
  <2>5. StackOK(t, mask, running)
    BY <1>2, <1>3, <2>1, Tops, Edited
  <2>6. /\ t \in Seq(ActiveFrame) /\ Len(t) = Len(stack) /\ t[Len(t)] = f
    BY <2>1, Tops
  <2>. HIDE DEF t
  <2>7. StackOK(Append(t, h), mask, running)
    BY <1>2, <2>1, <2>2, <2>4, <2>5, <2>6, Pushed
  <2>8. WillLook(Append(t, h))
    BY <2>2, <2>6, PushedLooks
  <2>. QED BY <1>1, <1>2, <2>3, <2>7, <2>8, Stepped
<1>5. CASE ~CanFinalise
  <2>1. stack' = Front(stack)
    BY <1>5 DEF ActionsFinals
  <2>2. StackOK(Front(stack), mask, running)
    BY <1>3, Left1 DEF OCaml
  <2>3. ASSUME to_do # <<>>
        PROVE  WillLook(Front(stack))
    <3>1. running
      BY <1>5, <2>3 DEF CanFinalise
    <3>. QED BY <2>2, <3>1, RunningLooks
  <2>4. StackOK(stack', mask', running')
    BY <1>1, <2>1, <2>2
  <2>5. Watched'
    BY <1>1, <2>1, <2>3 DEF Watched
  <2>. QED BY <1>1, <2>4, <2>5 DEF CallbackInv, SigTypeOK, StackOK
<1>. QED BY <1>4, <1>5

\* The loop of caml_final_do_calls_exn takes its next function or ends.
LEMMA FinalsNextStep ==
  ASSUME CallbackInv, FinalsNext
  PROVE  CallbackInv'
<1>1. /\ pending' = pending /\ sap' = sap /\ todo' = todo /\ mask' = mask /\ left' = left
      /\ Top.k = "finals"
  BY DEF FinalsNext
<1>2. /\ pending \subseteq Sigs /\ sap \in BOOLEAN /\ todo \in BOOLEAN
      /\ mask \in SUBSET Sigs /\ running \in BOOLEAN /\ StackOK(stack, mask, running)
      /\ to_do \in Seq(0 .. MaxFinal)
  BY DEF CallbackInv, SigTypeOK
<1>3. WillLook(stack)
  BY <1>1, Tops DEF WillLook
<1>4. CASE to_do = <<>>
  <2>. DEFINE t == Front(stack)
  <2>1. stack' = Front(t) /\ to_do' = to_do /\ running' = running
    BY <1>4 DEF FinalsNext
  <2>2. Len(stack) > 1 /\ StackOK(t, mask, running)
    BY <1>1, Left1 DEF OCaml
  <2>3. stack[Len(stack) - 1].k = "actions"
    BY <1>1, Tops DEF CallbackInv, StackOK, Above, FrameOK
  <2>4. /\ t \in Seq(ActiveFrame) /\ Len(t) = Len(stack) - 1
        /\ t[Len(t)].k = "actions" /\ t[1].k = "main"
    BY <2>2, <2>3, Tops DEF StackOK
  <2>5. Front(t) = SubSeq(t, 1, Len(t) - 1)
    BY DEF Front
  <2>. HIDE DEF t
  <2>6. Len(t) \in Nat /\ Len(t) - 1 \in 1 .. Len(t) - 1
    BY <2>2, <2>4, Tops
  <2>7. \A j \in Len(t) - 1 + 1 .. Len(t) - 1 : t[j].k \notin OCaml
    BY <2>6
  <2>8. StackOK(SubSeq(t, 1, Len(t) - 1), mask, running)
    BY <1>2, <2>2, <2>4, <2>6, <2>7, Cut
  <2>9. StackOK(stack', mask', running')
    BY <1>1, <2>1, <2>5, <2>8
  <2>10. Watched'
    BY <1>4, <2>1 DEF Watched
  <2>. QED BY <1>1, <2>1, <2>9, <2>10 DEF CallbackInv, SigTypeOK, StackOK
<1>5. CASE to_do # <<>> /\ Head(to_do) = 0
  <2>1. stack' = stack /\ to_do' = Tail(to_do) /\ running' = running
    BY <1>5 DEF FinalsNext
  <2>2. to_do' \in Seq(0 .. MaxFinal)
    BY <1>2, <1>5, <2>1
  <2>3. Watched'
    BY <1>3, <2>1 DEF Watched
  <2>. QED BY <1>1, <2>1, <2>2, <2>3 DEF CallbackInv, SigTypeOK
<1>6. CASE to_do # <<>> /\ Head(to_do) # 0
  <2>. DEFINE h == Frame("final", "on", 0)
  <2>1. to_do' = [to_do EXCEPT ![1] = @ - 1] /\ running' = TRUE /\ stack' = Append(stack, h)
    BY <1>6 DEF FinalsNext
  <2>2. h \in ActiveFrame /\ h.k = "final" /\ h.pc = "on" /\ h.saved = mask
    <3>1. "final" \in Kinds /\ "on" \in Places
      BY DEF Kinds, OCaml, Places
    <3>. QED BY <3>1, Framed
  <2>3. to_do' \in Seq(0 .. MaxFinal)
    <3>1. /\ Len(to_do) \in Nat \ {0} /\ to_do[1] \in 0 .. MaxFinal
          /\ to_do[1] # 0
      <4>1. Len(to_do) \in Nat \ {0}
        BY <1>2, <1>6
      <4>2. 1 \in 1 .. Len(to_do)
        BY <4>1
      <4>3. to_do[1] \in 0 .. MaxFinal
        BY <1>2, <4>2, ElementOfSeq
      <4>4. to_do[1] # 0
        BY <1>6
      <4>. QED BY <4>1, <4>3, <4>4
    <3>2. to_do[1] - 1 \in 0 .. MaxFinal
      BY <3>1, SignalsAssumption
    <3>3. to_do' = [to_do EXCEPT ![1] = to_do[1] - 1]
      BY <2>1
    <3>. QED BY <1>2, <3>1, <3>2, <3>3
  <2>. HIDE DEF h
  <2>4. StackOK(Append(stack, h), mask, TRUE)
    BY <1>1, <1>2, <2>2, Tops, Pushed
  <2>5. WillLook(Append(stack, h))
    BY <1>3, <2>2, Tops, PushedLooks
  <2>6. StackOK(stack', mask', running')
    BY <1>1, <2>1, <2>4
  <2>7. Watched'
    BY <2>1, <2>5 DEF Watched
  <2>. QED BY <1>1, <2>1, <2>3, <2>6, <2>7 DEF CallbackInv, SigTypeOK, StackOK
<1>. QED BY <1>4, <1>5, <1>6

\* caml_final_release lets others run, and sets caml_something_to_do for them.
LEMMA ReleaseStep ==
  ASSUME CallbackInv, caml_final_release
  PROVE  CallbackInv'
<1>1. /\ pending' = pending /\ sap' = sap /\ mask' = mask /\ to_do' = to_do
      /\ left' = left /\ running' = FALSE /\ Top.k = "final" /\ Top.pc = "on"
  BY DEF caml_final_release
<1>2. todo' \in BOOLEAN /\ (to_do # <<>> => todo')
  BY DEF caml_final_release
<1>3. mask \in SUBSET Sigs /\ running \in BOOLEAN /\ StackOK(stack, mask, running)
  BY DEF CallbackInv, SigTypeOK
<1>. DEFINE f == [Top EXCEPT !.pc = "released"]
<1>4. f \in ActiveFrame /\ f.k = "final" /\ f.pc = "released" /\ f.saved = Top.saved
  BY <1>1, Tops DEF ActiveFrame, Places
<1>5. stack' = [stack EXCEPT ![Len(stack)] = f]
  BY Tops DEF caml_final_release, Goto
<1>. HIDE DEF f
<1>6. StackOK([stack EXCEPT ![Len(stack)] = f], mask, FALSE)
  BY <1>1, <1>3, <1>4, Tops, Edited
<1>7. StackOK(stack', mask', running')
  BY <1>1, <1>5, <1>6
<1>8. Watched'
  BY <1>1, <1>2 DEF Watched
<1>. QED BY <1>1, <1>2, <1>7, <1>8 DEF CallbackInv, SigTypeOK, StackOK

\* An exception, or the end of a callback: Cut, with what Leave does.
LEMMA Leaving ==
  ASSUME CallbackInv, NEW n \in 1 .. Len(stack) - 1,
         n = Len(stack) - 1 \/ stack[n].k \in OCaml,
         \A j \in n + 1 .. Len(stack) - 1 : stack[j].k \notin OCaml,
         Leave(Top)
  PROVE  /\ StackOK(SubSeq(stack, 1, n), mask', running')
         /\ mask' \subseteq Sigs /\ running' \in BOOLEAN
<1>1. /\ mask \in SUBSET Sigs /\ running \in BOOLEAN /\ StackOK(stack, mask, running)
  BY DEF CallbackInv, SigTypeOK
<1>2. Top = stack[Len(stack)] /\ Top.saved \subseteq Sigs
  BY Tops DEF ActiveFrame
<1>3. mask' = IF Top.k = "handler" THEN Top.saved ELSE mask
  BY DEF Leave
<1>4. Top.k = "final" => running' = FALSE
  BY DEF Leave
<1>5. Top.k # "final" => running' = running
  BY DEF Leave
<1>6. running' \in BOOLEAN
  BY <1>1, <1>4, <1>5
<1>7. StackOK(SubSeq(stack, 1, n), mask', running')
  BY <1>1, <1>2, <1>3, <1>4, <1>5, <1>6, Cut
<1>. QED BY <1>1, <1>2, <1>3, <1>6, <1>7

\* A callback returns.
LEMMA ReturnStep ==
  ASSUME CallbackInv, Return
  PROVE  CallbackInv'
<1>1. /\ pending' = pending /\ sap' = sap /\ todo' = todo /\ to_do' = to_do
      /\ left' = left /\ Top.k \in {"handler", "final"} /\ Leave(Top)
      /\ stack' = Front(stack)
  BY DEF Return
<1>. DEFINE n == Len(stack) - 1
<1>2. n \in 1 .. Len(stack) - 1 /\ n \in 1 .. Len(stack)
  BY <1>1, Tops DEF CallbackInv, SigTypeOK
<1>3. /\ \A j \in n + 1 .. Len(stack) - 1 : stack[j].k \notin OCaml
      /\ \A j \in n + 1 .. Len(stack) : stack[j] = Top
  BY <1>2, Tops
<1>4. stack' = SubSeq(stack, 1, n)
  BY <1>1, Tops
<1>5. /\ StackOK(SubSeq(stack, 1, n), mask', running')
      /\ mask' \subseteq Sigs /\ running' \in BOOLEAN
  BY <1>1, <1>2, <1>3, Leaving
<1>6. WillLook(stack) => WillLook(SubSeq(stack, 1, n))
  BY <1>1, <1>2, <1>3, Tops, CutLooks
<1>7. Watched'
  BY <1>1, <1>4, <1>6 DEF CallbackInv, Watched
<1>8. StackOK(stack', mask', running')
  BY <1>4, <1>5
<1>. QED BY <1>1, <1>5, <1>7, <1>8 DEF CallbackInv, SigTypeOK, StackOK

\* An exception leaves the frames above OCaml code; if one of them was to look
\* at the finalising set, caml_something_to_do is set.
LEMMA RaiseStep ==
  ASSUME CallbackInv, NEW q \in BOOLEAN, Raise(q)
  PROVE  CallbackInv'
<1>1. PICK n \in 1 .. Len(stack) - 1 :
        /\ stack[n].k \in OCaml
        /\ \A j \in n + 1 .. Len(stack) - 1 : stack[j].k \notin OCaml
        /\ Leave(Top)
        /\ stack' = SubSeq(stack, 1, n)
        /\ sap' = (sap \/ q) /\ todo' = (Raised(n) \/ q)
        /\ pending' = pending /\ to_do' = to_do /\ left' = left
  BY DEF Raise
<1>2. pending' = pending /\ to_do' = to_do /\ left' = left /\ sap' \in BOOLEAN
  BY <1>1
<1>3. /\ StackOK(SubSeq(stack, 1, n), mask', running')
      /\ mask' \subseteq Sigs /\ running' \in BOOLEAN
  BY <1>1, Leaving
<1>4. StackOK(stack', mask', running')
  BY <1>1, <1>3
<1>5. todo' \in BOOLEAN
  BY <1>1 DEF Raised
<1>6. ASSUME to_do' # <<>>, ~todo'
      PROVE  WillLook(stack')
  <2>1. ~todo /\ \A j \in n + 1 .. Len(stack) : stack[j].k # "actions"
    BY <1>1, <1>6 DEF Raised
  <2>2. WillLook(stack)
    BY <1>2, <1>6, <2>1 DEF CallbackInv, Watched
  <2>3. ASSUME NEW j \in n + 1 .. Len(stack), stack[j].k = "finals"
        PROVE  FALSE
    <3>1. j \in 1 .. Len(stack) /\ stack[j - 1].k = "actions"
      BY <2>3, Tops DEF CallbackInv, StackOK, Above, FrameOK
    <3>2. j - 1 = n \/ j - 1 \in n + 1 .. Len(stack)
      BY Tops
    <3>. QED BY <1>1, <2>1, <3>1, <3>2 DEF OCaml
  <2>4. n \in 1 .. Len(stack) /\ stack \in Seq(ActiveFrame)
    BY Tops
  <2>5. WillLook(SubSeq(stack, 1, n))
    BY <2>1, <2>2, <2>3, <2>4, CutLooks
  <2>. QED BY <1>1, <2>5
<1>7. Watched'
  BY <1>6 DEF Watched
<1>. QED BY <1>2, <1>3, <1>4, <1>5, <1>7 DEF CallbackInv, SigTypeOK, StackOK

\* The end of a blocking section.
LEMMA LeftStep ==
  ASSUME CallbackInv, Left, StackOK(stack', mask, running),
         WillLook(stack) => WillLook(stack'), InCallback
  PROVE  CallbackInv'
<1>1. /\ pending' = pending /\ mask' = mask /\ to_do' = to_do /\ running' = running
      /\ left' = left
  BY DEF InCallback
<1>2. pending \subseteq Sigs /\ sap \in BOOLEAN /\ todo \in BOOLEAN
  BY DEF CallbackInv, SigTypeOK
<1>3. sap' \in BOOLEAN /\ todo' \in BOOLEAN /\ (todo => todo')
  BY DEF Left
<1>. QED BY <1>1, <1>2, <1>3, Stepped

\* Steps of the asynchronous part.
LEMMA SignalsStepKeeps ==
  ASSUME CallbackInv, SignalsStep
  PROVE  CallbackInv'
<1>1. /\ pending \subseteq Sigs /\ sap \in BOOLEAN /\ todo \in BOOLEAN
      /\ mask \in SUBSET Sigs /\ running \in BOOLEAN /\ StackOK(stack, mask, running)
  BY DEF CallbackInv, SigTypeOK
<1>2. CASE ActionsGC
  <2>1. PICK n \in 0 .. MaxFinal : alloc_to_do(n, todo)
    BY <1>2 DEF ActionsGC
  <2>2. /\ stack' = Goto("signals") /\ Top.k = "actions"
        /\ UNCHANGED <<pending, sap, mask, running>>
    BY <1>2 DEF ActionsGC, At
  <2>3. StackOK(stack', mask, running) /\ (WillLook(stack) => WillLook(stack'))
    BY <2>2, Went DEF Places, InRuntime
  <2>. QED BY <2>1, <2>2, <2>3, Allocated
<1>3. CASE ActionsSignals
  BY <1>3, ProcessingSignals DEF ActionsSignals, At
<1>4. CASE SignalsNext
  BY <1>4, SignalsNextStep
<1>5. CASE SignalsRun
  BY <1>5, SignalsRunStep
<1>6. CASE ActionsFinals
  BY <1>6, ActionsFinalsStep
<1>7. CASE FinalsNext
  BY <1>7, FinalsNextStep
<1>8. CASE EnterCheck
  BY <1>8, ProcessingSignals DEF EnterCheck, At
<1>9. CASE EnterHook
  <2>1. /\ pending' = pending /\ sap' = sap /\ todo' = todo /\ mask' = mask
        /\ to_do' = to_do /\ running' = running /\ left' = left
    BY <1>9 DEF EnterHook
  <2>2. Top.k = "enter" /\ (stack' = Goto("check") \/ stack' = Goto("blocked"))
    BY <1>9 DEF EnterHook, At
  <2>3. StackOK(stack', mask, running) /\ (WillLook(stack) => WillLook(stack'))
    BY <2>2, Went DEF Places, InRuntime
  <2>. QED BY <1>1, <2>1, <2>3, Stepped
<1>10. CASE LeaveBlocking
  <2>1. Top.k = "enter" /\ stack' = Front(stack) /\ Left
    BY <1>10 DEF LeaveBlocking, At
  <2>2. InCallback
    BY <1>10 DEF LeaveBlocking, InCallback
  <2>3. StackOK(stack', mask, running) /\ (WillLook(stack) => WillLook(stack'))
    BY <2>1, Left1 DEF OCaml
  <2>. QED BY <2>1, <2>2, <2>3, LeftStep
<1>11. CASE Poll
  <2>1. Top.k \in OCaml /\ check_pending(stack, TRUE) /\ sap' = sap
    BY <1>11 DEF Poll, InOCaml, check_pending
  <2>2. InCallback
    BY <1>11 DEF Poll, InCallback
  <2>3. stack[Len(stack)].k \notin {"signals", "finals", "putch"}
    BY <2>1, Tops DEF OCaml
  <2>4. sap' \in BOOLEAN
    BY <1>1, <2>1
  <2>. QED BY <1>1, <2>1, <2>2, <2>3, <2>4, Checked
<1>12. CASE GCSlice
  <2>1. PICK n \in 1 .. MaxFinal : alloc_to_do(n, todo)
    BY <1>12 DEF GCSlice
  <2>2. stack' = stack /\ UNCHANGED <<pending, sap, mask, running>>
    BY <1>12 DEF GCSlice
  <2>3. n \in 0 .. MaxFinal
    OBVIOUS
  <2>. QED BY <1>1, <2>1, <2>2, <2>3, Allocated
<1>13. CASE EnterBlocking
  <2>1. /\ pending' = pending /\ sap' = sap /\ todo' = todo /\ mask' = mask
        /\ to_do' = to_do /\ running' = running /\ left' = left
    BY <1>13 DEF EnterBlocking
  <2>2. Top.k \in OCaml /\ stack' = Append(stack, Frame("enter", "check", 0))
    BY <1>13 DEF EnterBlocking, InOCaml
  <2>3. StackOK(stack', mask, running) /\ (WillLook(stack) => WillLook(stack'))
    BY <1>1, <2>2, Tops, PushedOver DEF Kinds, OCaml, InRuntime, Places
  <2>. QED BY <1>1, <2>1, <2>3, Stepped
<1>14. CASE caml_final_release
  BY <1>14, ReleaseStep
<1>15. CASE Return
  BY <1>15, ReturnStep
<1>16. CASE HandlerRaises
  BY <1>16, RaiseStep DEF HandlerRaises
<1>17. ASSUME NEW s \in Sigs, caml_record_signal(s)
       PROVE  CallbackInv'
  <2>1. /\ stack' = stack /\ mask' = mask /\ to_do' = to_do /\ running' = running
        /\ pending' = pending \union {s} /\ sap' = TRUE /\ todo' = TRUE
        /\ left.signals > 0 /\ left' = [left EXCEPT !.signals = @ - 1]
    BY <1>17 DEF caml_record_signal
  <2>2. left' \in [signals : 0 .. MaxSignals, finals : 0 .. MaxFinal]
    <3>1. left \in [signals : 0 .. MaxSignals, finals : 0 .. MaxFinal]
      BY DEF CallbackInv, SigTypeOK
    <3>. QED BY <2>1, <3>1, SignalsAssumption
  <2>3. StackOK(stack', mask', running')
    BY <1>1, <2>1
  <2>4. Watched'
    BY <2>1 DEF Watched
  <2>5. pending' \subseteq Sigs
    BY <1>1, <2>1
  <2>. QED BY <2>1, <2>2, <2>3, <2>4, <2>5 DEF CallbackInv, SigTypeOK
<1>. QED BY <1>2, <1>3, <1>4, <1>5, <1>6, <1>7, <1>8, <1>9, <1>10, <1>11, <1>12, <1>13,
            <1>14, <1>15, <1>16, <1>17 DEF SignalsStep, Runtime, Program

\* The frame under the last one is no putch, unless that one is a flush.
LEMMA UnderTop ==
  ASSUME CallbackInv, Len(stack) > 1, Top.k # "flush"
  PROVE  stack[Len(stack) - 1].k # "putch"
<1>1. FrameOK(stack, mask, Len(stack) - 1)
  BY Tops DEF CallbackInv, StackOK, Above
<1>. QED BY <1>1, Tops DEF FrameOK

\* How the stack s came from the present one, as far as the frames of the
\* channels go: s has none that was not there, and its last frame is a
\* putch only when s is the present stack.
Shaped(s) ==
  /\ \A n \in 1 .. Len(s) :
       s[n].k \in InChannels => n \in 1 .. Len(stack) /\ stack[n].k = s[n].k
  /\ s[Len(s)].k = "putch" => s = stack

\* The present stack came from itself.
LEMMA ShapedSame ==
  ASSUME CallbackInv
  PROVE  Shaped(stack)
BY DEF Shaped

\* A frame of the asynchronous part adds none of the channels'.
LEMMA ShapedPush ==
  ASSUME CallbackInv, NEW s \in Seq(ActiveFrame), NEW f \in ActiveFrame,
         f.k \notin InChannels,
         \A n \in 1 .. Len(s) :
           s[n].k \in InChannels => n \in 1 .. Len(stack) /\ stack[n].k = s[n].k
  PROVE  Shaped(Append(s, f))
<1>. DEFINE t == Append(s, f)
<1>1. /\ Len(s) \in Nat /\ Len(t) = Len(s) + 1 /\ t[Len(t)] = f
      /\ \A n \in 1 .. Len(s) : t[n] = s[n]
  OBVIOUS
<1>2. \A n \in 1 .. Len(t) : n = Len(t) \/ n \in 1 .. Len(s)
  BY <1>1
<1>. HIDE DEF t
<1>3. \A n \in 1 .. Len(t) :
        t[n].k \in InChannels => n \in 1 .. Len(stack) /\ stack[n].k = t[n].k
  BY <1>1, <1>2
<1>4. t[Len(t)].k # "putch"
  BY <1>1 DEF InChannels
<1>. QED BY <1>3, <1>4 DEF Shaped, t

\* Changing a frame of the asynchronous part changes none of the channels'.
LEMMA ShapedEdit ==
  ASSUME CallbackInv, NEW f \in ActiveFrame, f.k = Top.k, f.k \notin InChannels
  PROVE  Shaped([stack EXCEPT ![Len(stack)] = f])
<1>. DEFINE t == [stack EXCEPT ![Len(stack)] = f]
<1>1. /\ Len(stack) \in Nat \ {0} /\ Len(t) = Len(stack) /\ t[Len(t)].k = Top.k
      /\ \A n \in 1 .. Len(t) : t[n].k = stack[n].k
  BY Tops
<1>. HIDE DEF t
<1>2. t[Len(t)].k # "putch"
  BY <1>1 DEF InChannels
<1>. QED BY <1>1, <1>2 DEF Shaped, t

\* Leaving frames adds none.
LEMMA ShapedCut ==
  ASSUME CallbackInv, NEW n \in 1 .. Len(stack), stack[n].k # "putch"
  PROVE  Shaped(SubSeq(stack, 1, n))
<1>. DEFINE t == SubSeq(stack, 1, n)
<1>1. Len(stack) \in Nat /\ Len(t) = n /\ \A p \in 1 .. n : t[p] = stack[p]
  BY Tops
<1>. HIDE DEF t
<1>2. t[Len(t)].k # "putch"
  BY <1>1
<1>. QED BY <1>1, <1>2 DEF Shaped, t

\* The last frame ends.
LEMMA ShapedPop ==
  ASSUME CallbackInv, Top.k # "main", Top.k # "flush"
  PROVE  Shaped(Front(stack))
<1>1. Len(stack) > 1 /\ Len(stack) - 1 \in 1 .. Len(stack)
  BY Tops DEF CallbackInv, SigTypeOK
<1>. QED BY <1>1, Tops, UnderTop, ShapedCut

\* The last frame goes on.
LEMMA ShapedGoto ==
  ASSUME CallbackInv, NEW pc \in Places, Top.k \in InRuntime
  PROVE  Shaped(Goto(pc)) /\ Goto(pc) \in Seq(ActiveFrame)
<1>. DEFINE f == [Top EXCEPT !.pc = pc]
<1>1. f \in ActiveFrame /\ f.k = Top.k /\ f.k \notin InChannels
  BY Tops DEF ActiveFrame, InRuntime, InChannels
<1>2. Goto(pc) = [stack EXCEPT ![Len(stack)] = f]
  BY Tops DEF Goto
<1>. HIDE DEF f
<1>3. Goto(pc) \in Seq(ActiveFrame)
  BY <1>1, <1>2, Tops
<1>. QED BY <1>1, <1>2, <1>3, ShapedEdit

\* The last frame goes on and calls another of the asynchronous part.
LEMMA ShapedPushGoto ==
  ASSUME CallbackInv, NEW pc \in Places, Top.k \in InRuntime,
         NEW f \in ActiveFrame, f.k \notin InChannels
  PROVE  Shaped(Append(Goto(pc), f))
<1>1. Goto(pc) \in Seq(ActiveFrame) /\ Shaped(Goto(pc))
  BY ShapedGoto
<1>. QED BY <1>1, ShapedPush DEF Shaped

\* What a step of the asynchronous part does to the frames of the channels.
LEMMA SignalsStepShape ==
  ASSUME CallbackInv, SignalsStep
  PROVE  Shaped(stack')
<1>0. stack \in Seq(ActiveFrame) /\ Shaped(stack)
  BY Tops, ShapedSame
<1>1. \A k \in Kinds, pc \in Places :
        Frame(k, pc, 0) \in ActiveFrame /\ Frame(k, pc, 0).k = k
  BY Framed
<1>2. \A k \in InRuntime \union OCaml : k \in Kinds /\ k \notin InChannels
  BY DEF Kinds, InRuntime, OCaml, InChannels
<1>3. CASE ActionsGC
  BY <1>3, ShapedGoto DEF ActionsGC, At, Places, InRuntime
<1>4. ASSUME NEW next \in {"finals", "hook"}, Top.k \in {"actions", "enter"},
             ProcessSignals(next)
      PROVE  Shaped(stack')
  <2>1. next \in Places /\ Top.k \in InRuntime
    BY <1>4 DEF Places, InRuntime
  <2>2. /\ Frame("signals", "next", 0) \in ActiveFrame
        /\ Frame("signals", "next", 0).k \notin InChannels
    BY <1>1, <1>2 DEF Places, InRuntime
  <2>3. stack' = Goto(next) \/ stack' = Append(Goto(next), Frame("signals", "next", 0))
    BY <1>4 DEF ProcessSignals
  <2>. QED BY <2>1, <2>2, <2>3, ShapedGoto, ShapedPushGoto
<1>5. CASE SignalsNext
  <2>1. Top.k = "signals"
    BY <1>5 DEF SignalsNext, At
  <2>2. CASE stack' = Front(stack)
    BY <2>1, <2>2, ShapedPop
  <2>3. ASSUME NEW s \in Deliverable(Top),
               stack' = [stack EXCEPT ![Len(stack)].pc = "run", ![Len(stack)].i = s]
        PROVE  Shaped(stack')
    <3>. DEFINE f == [Top EXCEPT !.pc = "run", !.i = s]
    <3>1. s \in Nat
      BY SignalsAssumption DEF CallbackInv, SigTypeOK, Deliverable
    <3>2. f \in ActiveFrame /\ f.k = Top.k /\ f.k \notin InChannels
      BY <2>1, <3>1, Tops DEF ActiveFrame, Places, InChannels
    <3>3. stack' = [stack EXCEPT ![Len(stack)] = f]
      BY <2>3, Tops
    <3>. HIDE DEF f
    <3>. QED BY <3>2, <3>3, ShapedEdit
  <2>. QED BY <1>5, <2>2, <2>3 DEF SignalsNext
<1>6. CASE SignalsRun
  <2>1. Top.k = "signals" /\ Top.i \in Nat /\ Top \in ActiveFrame
    BY <1>6, Tops DEF SignalsRun, At, ActiveFrame
  <2>. DEFINE f == [Top EXCEPT !.pc = "next", !.i = @ + 1]
              t == [stack EXCEPT ![Len(stack)] = f]
              h == Frame("handler", "on", Top.i)
  <2>2. f \in ActiveFrame /\ f.k = Top.k /\ f.k \notin InChannels
    <3>1. Top.i + 1 \in Nat
      BY <2>1
    <3>. QED BY <2>1, <3>1 DEF ActiveFrame, Places, InChannels
  <2>3. h \in ActiveFrame /\ h.k \notin InChannels
    <3>1. "handler" \in Kinds /\ "handler" \notin InChannels /\ "on" \in Places
      BY DEF Kinds, OCaml, InChannels, Places
    <3>. QED BY <2>1, <3>1, Framed
  <2>4. stack' = Append(t, h)
    BY <1>6, Tops DEF SignalsRun
  <2>. HIDE DEF f, h
  <2>5. t \in Seq(ActiveFrame) /\ Shaped(t)
    BY <2>2, Tops, ShapedEdit
  <2>. HIDE DEF t
  <2>. QED BY <2>3, <2>4, <2>5, ShapedPush DEF Shaped
<1>7. CASE ActionsFinals
  <2>1. Top.k = "actions" /\ Top.k \in InRuntime
    BY <1>7 DEF ActionsFinals, At, InRuntime
  <2>2. /\ Frame("finals", "on", 0) \in ActiveFrame
        /\ Frame("finals", "on", 0).k \notin InChannels
    BY <1>1, <1>2 DEF Places, InRuntime
  <2>3. \/ stack' = Front(stack)
        \/ stack' = Append(Goto("done"), Frame("finals", "on", 0))
    BY <1>7 DEF ActionsFinals
  <2>4. "done" \in Places
    BY DEF Places
  <2>. QED BY <2>1, <2>2, <2>3, <2>4, ShapedPop, ShapedPushGoto
<1>8. CASE FinalsNext
  <2>1. Top.k = "finals"
    BY <1>8 DEF FinalsNext
  <2>2. CASE stack' = Front(Front(stack))
    <3>1. /\ Len(stack) > 2 /\ stack[Len(stack) - 1].k = "actions"
          /\ stack[Len(stack) - 2].k # "putch"
      <4>1. Len(stack) > 1 /\ stack[Len(stack) - 1].k = "actions"
        BY <2>1, Tops DEF CallbackInv, StackOK, Above, FrameOK
      <4>2. Len(stack) > 2
        BY <4>1, Tops DEF CallbackInv, SigTypeOK
      <4>3. FrameOK(stack, mask, Len(stack) - 2) /\ Len(stack) - 2 < Len(stack)
        BY <4>2, Tops DEF CallbackInv, StackOK, Above
      <4>4. stack[Len(stack) - 2 + 1].k = "actions"
        BY <4>1, Tops
      <4>. QED BY <4>1, <4>2, <4>3, <4>4 DEF FrameOK
    <3>2. Front(Front(stack)) = SubSeq(stack, 1, Len(stack) - 2)
      <4>1. /\ Front(stack) = SubSeq(stack, 1, Len(stack) - 1)
            /\ Len(SubSeq(stack, 1, Len(stack) - 1)) = Len(stack) - 1
        BY <3>1, Tops
      <4>2. Front(Front(stack)) = SubSeq(SubSeq(stack, 1, Len(stack) - 1), 1, Len(stack) - 2)
        BY <3>1, <4>1, Tops DEF Front
      <4>. QED BY <3>1, <4>2, Tops
    <3>3. Len(stack) - 2 \in 1 .. Len(stack)
      BY <3>1, Tops
    <3>. QED BY <2>2, <3>1, <3>2, <3>3, ShapedCut
  <2>3. CASE stack' = stack
    BY <1>0, <2>3
  <2>4. CASE stack' = Append(stack, Frame("final", "on", 0))
    <3>1. /\ Frame("final", "on", 0) \in ActiveFrame
          /\ Frame("final", "on", 0).k \notin InChannels
      BY <1>1, <1>2 DEF Places, OCaml
    <3>. QED BY <1>0, <2>4, <3>1, ShapedPush DEF Shaped
  <2>. QED BY <1>8, <2>2, <2>3, <2>4 DEF FinalsNext
<1>9. CASE EnterHook
  <2>1. Top.k \in InRuntime /\ (stack' = Goto("check") \/ stack' = Goto("blocked"))
    BY <1>9 DEF EnterHook, At, InRuntime
  <2>. QED BY <2>1, ShapedGoto DEF Places
<1>10. CASE LeaveBlocking \/ Return
  <2>1. stack' = Front(stack) /\ Top.k \notin {"main", "flush"}
    BY <1>10 DEF LeaveBlocking, Return, At
  <2>. QED BY <2>1, ShapedPop
<1>11. CASE Poll
  <2>1. stack' = Append(stack, Frame("actions", "gc", 0))
    BY <1>11 DEF Poll, DoPending
  <2>2. /\ Frame("actions", "gc", 0) \in ActiveFrame
        /\ Frame("actions", "gc", 0).k \notin InChannels
    BY <1>1, <1>2 DEF Places, InRuntime
  <2>. QED BY <1>0, <2>1, <2>2, ShapedPush DEF Shaped
<1>12. CASE stack' = stack
  BY <1>0, <1>12
<1>13. CASE EnterBlocking
  <2>1. stack' = Append(stack, Frame("enter", "check", 0))
    BY <1>13 DEF EnterBlocking
  <2>2. /\ Frame("enter", "check", 0) \in ActiveFrame
        /\ Frame("enter", "check", 0).k \notin InChannels
    BY <1>1, <1>2 DEF Places, InRuntime
  <2>. QED BY <1>0, <2>1, <2>2, ShapedPush DEF Shaped
<1>14. CASE caml_final_release
  <2>1. Top.k = "final" /\ stack' = Goto("released")
    BY <1>14 DEF caml_final_release
  <2>. DEFINE f == [Top EXCEPT !.pc = "released"]
  <2>2. f \in ActiveFrame /\ f.k = Top.k /\ f.k \notin InChannels
    BY <2>1, Tops DEF ActiveFrame, Places, InChannels
  <2>3. stack' = [stack EXCEPT ![Len(stack)] = f]
    BY <2>1, Tops DEF Goto
  <2>. HIDE DEF f
  <2>. QED BY <2>2, <2>3, ShapedEdit
<1>15. CASE Raise(FALSE)
  <2>1. PICK n \in 1 .. Len(stack) - 1 :
          stack[n].k \in OCaml /\ stack' = SubSeq(stack, 1, n)
    BY <1>15 DEF Raise
  <2>2. n \in 1 .. Len(stack) /\ stack[n].k # "putch"
    BY <2>1, Tops DEF OCaml
  <2>. QED BY <2>1, <2>2, ShapedCut
<1>16. ActionsSignals \/ EnterCheck => Shaped(stack')
  BY <1>4 DEF ActionsSignals, EnterCheck, At
<1>17. (GCSlice \/ \E s \in Sigs : caml_record_signal(s)) => stack' = stack
  BY DEF GCSlice, caml_record_signal
<1>18. HandlerRaises => Raise(FALSE)
  BY DEF HandlerRaises
<1>. QED BY <1>3, <1>5, <1>6, <1>7, <1>8, <1>9, <1>10, <1>11, <1>12, <1>13, <1>14,
            <1>15, <1>16, <1>17, <1>18 DEF SignalsStep, Runtime, Program
=============================================================================
