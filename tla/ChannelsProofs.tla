--------------------------- MODULE ChannelsProofs ---------------------------
(***************************************************************************)
(* What TLAPS proves of the channels, for every buffer size, file, request *)
(* and interleaving with the callbacks: the asynchronous part keeps its    *)
(* invariant when the channels are used, the output stays in order, and so *)
(* does the input of a program whose callbacks leave alone a channel that  *)
(* is being refilled.                                                      *)
(***************************************************************************)
EXTENDS CallbackProofs

-----------------------------------------------------------------------------
(* The calls of the channels keep the invariant of the callbacks.          *)

\* A step that changes the stack and nothing else of the asynchronous part.
LEMMA SameStep ==
  ASSUME CallbackInv, Same, StackOK(stack', mask, running),
         WillLook(stack) => WillLook(stack')
  PROVE  CallbackInv'
<1>1. /\ pending' = pending /\ sap' = sap /\ todo' = todo /\ mask' = mask
      /\ to_do' = to_do /\ running' = running /\ left' = left
  BY DEF Same
<1>2. pending \subseteq Sigs /\ sap \in BOOLEAN /\ todo \in BOOLEAN
  BY DEF CallbackInv, SigTypeOK
<1>. QED BY <1>1, <1>2, Stepped

\* A call that ends, after a system call or without one.
LEMMA FinishStep ==
  ASSUME CallbackInv, Top.k \in InChannels, Finish, Same \/ (Left /\ InCallback)
  PROVE  CallbackInv'
<1>1. Top.k \notin OCaml /\ Top.k \notin {"actions", "finals"}
  BY DEF InChannels, OCaml
<1>2. StackOK(stack', mask, running) /\ (WillLook(stack) => WillLook(stack'))
  BY <1>1, Left1 DEF Finish
<1>. QED BY <1>2, SameStep, LeftStep

\* A call that is interrupted or goes on, with check_pending.
LEMMA AgainStep ==
  ASSUME CallbackInv, Top.k \in InChannels \ {"putch"}, Again(stack), InCallback
  PROVE  CallbackInv'
<1>1. sap \in BOOLEAN /\ todo \in BOOLEAN /\ StackOK(stack, mask, running)
  BY DEF CallbackInv, SigTypeOK
<1>2. check_pending(stack, todo \/ pending # {}) /\ sap' = (sap \/ pending # {})
  BY DEF Again
<1>3. sap' \in BOOLEAN
  BY <1>2
<1>4. stack[Len(stack)].k \notin {"signals", "finals", "putch"}
  BY Tops DEF InChannels
<1>5. (todo \/ pending # {}) \in BOOLEAN
  OBVIOUS
<1>. QED BY <1>1, <1>2, <1>3, <1>4, <1>5, Checked

\* A call that begins, with check_pending or without.
LEMMA CallStep ==
  ASSUME CallbackInv, NEW s, StackOK(s, mask, running), WillLook(stack) => WillLook(s),
         s[Len(s)].k \notin {"signals", "finals"},
         NEW k \in InChannels \ {"putch"}, NEW i \in Nat,
         s[Len(s)].k = "putch" => k = "flush",
         check_pending(Append(s, Frame(k, "on", i)), todo), sap' = sap, InCallback
  PROVE  CallbackInv'
<1>. DEFINE t == Append(s, Frame(k, "on", i))
<1>1. k \in Kinds \ {"handler", "final", "finals"} /\ "on" \in Places \ {"run"}
  BY DEF Kinds, InChannels, Places
<1>2. StackOK(t, mask, running) /\ (WillLook(stack) => WillLook(t))
  BY <1>1, PushedOver
<1>3. t[Len(t)].k = k
  <2>1. s \in Seq(ActiveFrame)
    BY DEF StackOK
  <2>. QED BY <1>1, <2>1, Framed
<1>4. sap \in BOOLEAN /\ todo \in BOOLEAN
  BY DEF CallbackInv, SigTypeOK
<1>5. check_pending(t, todo)
  OBVIOUS
<1>. HIDE DEF t
<1>6. t[Len(t)].k \notin {"signals", "finals", "putch"}
  BY <1>3 DEF InChannels
<1>7. sap' \in BOOLEAN
  BY <1>4
<1>. QED BY <1>2, <1>4, <1>5, <1>6, <1>7, Checked

\* caml_putblock that fills the buffer: the rest of the request, then flush.
LEMMA PutblockFull ==
  ASSUME CallbackInv, Len(out.buf) \in Nat, Top.k = "output",
         NEW free, free = BufSize - Len(out.buf), Top.i >= free
  PROVE  LET rest == [stack EXCEPT ![Len(stack)].i = @ - free]
         IN  /\ StackOK(rest, mask, running) /\ (WillLook(stack) => WillLook(rest))
             /\ rest \in Seq(ActiveFrame) /\ Len(rest) = Len(stack)
             /\ rest[Len(rest)].k = "output"
             /\ \A n \in 1 .. Len(rest) : rest[n].k = stack[n].k
<1>. DEFINE f == [Top EXCEPT !.i = @ - free]
            rest == [stack EXCEPT ![Len(stack)] = f]
<1>1. mask \in SUBSET Sigs /\ running \in BOOLEAN /\ StackOK(stack, mask, running)
  BY DEF CallbackInv, SigTypeOK
<1>2. Top \in ActiveFrame /\ Top.i - free \in Nat
  BY Tops, ChannelsAssumption DEF ActiveFrame
<1>3. f \in ActiveFrame /\ f.k = "output" /\ f.saved = Top.saved
  BY <1>2 DEF ActiveFrame
<1>4. [stack EXCEPT ![Len(stack)].i = @ - free] = rest
  BY Tops
<1>. HIDE DEF f
<1>5. /\ rest \in Seq(ActiveFrame) /\ Len(rest) = Len(stack)
      /\ rest[Len(rest)].k = "output" /\ \A n \in 1 .. Len(rest) : rest[n].k = stack[n].k
  BY <1>3, Tops
<1>6. StackOK(rest, mask, running)
  BY <1>1, <1>3, Tops, Edited
<1>7. WillLook(stack) => WillLook(rest)
  BY <1>3, Tops, EditedLooks
<1>. QED BY <1>4, <1>5, <1>6, <1>7

\* Every step of the channels keeps the invariant of the callbacks.
LEMMA ChannelsKeep ==
  ASSUME CallbackInv, Len(out.buf) \in Nat, Transfer \/ Interrupt \/ Calls \/ Fails
  PROVE  CallbackInv'
<1>1. /\ StackOK(stack, mask, running) /\ todo \in BOOLEAN
      /\ BufSize \in Nat
  BY ChannelsAssumption DEF CallbackInv, SigTypeOK
<1>2. CASE caml_putblock
  <2>1. Top.k = "output"
    BY <1>2 DEF caml_putblock
  <2>2. CASE Finish /\ Same
    BY <2>1, <2>2, FinishStep DEF InChannels
  <2>3. CASE ~(Top.i < BufSize - Len(out.buf))
    <3>. DEFINE free == BufSize - Len(out.buf)
                rest == [stack EXCEPT ![Len(stack)].i = @ - free]
    <3>1. /\ check_pending(Append(rest, Frame("flush", "on", 0)), todo)
          /\ sap' = sap /\ InCallback
      BY <1>2, <2>3 DEF caml_putblock
    <3>2. Top.i >= free
      BY <1>1, <2>3, Tops DEF ActiveFrame
    <3>3. /\ StackOK(rest, mask, running) /\ (WillLook(stack) => WillLook(rest))
          /\ rest[Len(rest)].k = "output"
      BY <1>1, <2>1, <3>2, PutblockFull
    <3>. HIDE DEF rest
    <3>4. "flush" \in InChannels \ {"putch"} /\ 0 \in Nat
      BY DEF InChannels
    <3>. QED BY <3>1, <3>3, <3>4, CallStep
  <2>. QED BY <1>2, <2>2, <2>3 DEF caml_putblock
<1>3. CASE caml_putch
  BY <1>3, FinishStep DEF caml_putch, InChannels
<1>4. CASE FlushWrite
  <2>1. Top.k = "flush"
    BY <1>4 DEF FlushWrite
  <2>2. \/ Finish /\ (Same \/ (Left /\ InCallback))
        \/ Again(stack) /\ InCallback
    BY <1>4 DEF FlushWrite
  <2>. QED BY <2>1, <2>2, FinishStep, AgainStep DEF InChannels
<1>5. CASE Input \/ Refill
  <2>1. Top.k \in InChannels /\ Finish /\ (Same \/ (Left /\ InCallback))
    BY <1>5 DEF Input, Refill, InChannels
  <2>. QED BY <2>1, FinishStep
<1>6. CASE Scan
  <2>1. Top.k = "scan"
    BY <1>6 DEF Scan
  <2>2. \/ Finish /\ (Same \/ (Left /\ InCallback))
        \/ stack' = stack /\ Left /\ InCallback
    BY <1>6 DEF Scan
  <2>3. CASE Finish /\ (Same \/ (Left /\ InCallback))
    BY <2>1, <2>3, FinishStep DEF InChannels
  <2>4. CASE stack' = stack /\ Left /\ InCallback
    BY <1>1, <2>4, LeftStep
  <2>. QED BY <2>2, <2>3, <2>4
<1>7. CASE Interrupt
  <2>1. Top.k \in InChannels \ {"putch"} /\ Again(stack) /\ InCallback
    BY <1>7 DEF Interrupt, FlushInterrupted, InputInterrupted, RefillInterrupted,
                ScanInterrupted, Interrupted, InChannels
  <2>. QED BY <2>1, AgainStep
<1>8. CASE caml_ml_output
  <2>1. PICK l \in Writes : stack' = Append(stack, Frame("output", "on", l))
    BY <1>8 DEF caml_ml_output
  <2>2. Same /\ Top.k \in OCaml
    BY <1>8 DEF caml_ml_output, CanCall, InOCaml
  <2>3. /\ l \in Nat /\ "output" \in Kinds \ {"handler", "final", "finals"}
        /\ "on" \in Places \ {"run"}
        /\ stack[Len(stack)].k \notin {"signals", "finals", "putch"}
    BY <2>2, Tops, ChannelsAssumption DEF Kinds, InChannels, Places, OCaml
  <2>4. StackOK(stack', mask, running) /\ (WillLook(stack) => WillLook(stack'))
    BY <1>1, <2>1, <2>3, PushedOver
  <2>. QED BY <2>2, <2>4, SameStep
<1>9. ASSUME NEW k \in InChannels \ {"putch"}, NEW i \in Nat, CanCall, Call(k, i)
      PROVE  CallbackInv'
  <2>1. stack[Len(stack)].k \notin {"signals", "finals", "putch"}
    BY <1>9, Tops DEF CanCall, InOCaml, OCaml
  <2>2. /\ check_pending(Append(stack, Frame(k, "on", i)), todo)
        /\ sap' = sap /\ InCallback
    BY <1>9 DEF Call
  <2>. QED BY <1>1, <2>1, <2>2, CallStep
<1>10. CASE caml_ml_output_char
  <2>. DEFINE s == Append(stack, Frame("putch", "on", 0))
  <2>1. /\ "putch" \in Kinds \ {"handler", "final", "finals"} /\ 0 \in Nat
        /\ "on" \in Places \ {"run"}
        /\ stack[Len(stack)].k \notin {"signals", "finals", "putch"}
    BY <1>10, Tops DEF caml_ml_output_char, CanCall, InOCaml, Kinds, InChannels, Places, OCaml
  <2>2. StackOK(s, mask, running) /\ (WillLook(stack) => WillLook(s))
    BY <1>1, <2>1, PushedOver
  <2>3. s[Len(s)].k = "putch"
    BY <2>1, Tops, Framed
  <2>4. \/ stack' = s /\ Same
        \/ /\ check_pending(Append(s, Frame("flush", "on", 0)), todo)
           /\ sap' = sap /\ InCallback
    BY <1>10 DEF caml_ml_output_char
  <2>5. "flush" \in InChannels \ {"putch"}
    BY DEF InChannels
  <2>. HIDE DEF s
  <2>6. CASE stack' = s /\ Same
    BY <2>2, <2>6, SameStep
  <2>7. CASE /\ check_pending(Append(s, Frame("flush", "on", 0)), todo)
             /\ sap' = sap /\ InCallback
    BY <2>1, <2>2, <2>3, <2>5, <2>7, CallStep
  <2>. QED BY <2>4, <2>6, <2>7
<1>11. CASE caml_ml_flush \/ caml_ml_input \/ caml_ml_input_scan_line
  <2>1. \E k \in InChannels \ {"putch"}, i \in Nat : CanCall /\ Call(k, i)
    BY <1>11, ChannelsAssumption
       DEF caml_ml_flush, caml_ml_input, caml_ml_input_scan_line, CanInput, InChannels
  <2>. QED BY <1>9, <2>1
<1>12. CASE caml_getch
  <2>1. CASE stack' = stack /\ Same
    BY <1>1, <2>1, SameStep
  <2>2. CASE CanCall /\ Call("refill", 0)
    BY <1>9, <2>2 DEF InChannels
  <2>. QED BY <1>12, <2>1, <2>2 DEF caml_getch, CanInput
<1>13. CASE caml_seek_in
  <2>1. stack' = stack /\ InCallback /\ (Left \/ (sap' = sap /\ todo' = todo))
    BY <1>13 DEF caml_seek_in
  <2>2. CASE Left
    BY <1>1, <2>1, <2>2, LeftStep
  <2>3. CASE sap' = sap /\ todo' = todo
    BY <1>1, <2>1, <2>3, SameStep DEF Same, InCallback
  <2>. QED BY <2>1, <2>2, <2>3
<1>14. CASE Fails
  <2>1. Raise(pending # {})
    BY <1>14 DEF Fails
  <2>2. (pending # {}) \in BOOLEAN
    OBVIOUS
  <2>. QED BY <2>1, <2>2, RaiseStep
<1>. QED BY <1>2, <1>3, <1>4, <1>5, <1>6, <1>7, <1>8, <1>10, <1>11, <1>12, <1>13, <1>14
         DEF Transfer, Calls

-----------------------------------------------------------------------------
(* The output channel.                                                     *)

\* The sequence f \o b holds the numbers from 1 to n, element by element.
Counts(f, b, n) ==
  /\ Len(f) + Len(b) = n
  /\ \A j \in 1 .. Len(f) : f[j] = j
  /\ \A j \in 1 .. Len(b) : b[j] = Len(f) + j

\* The elements of two sequences put together.
LEMMA Joined ==
  ASSUME NEW S, NEW f \in Seq(S), NEW b \in Seq(S)
  PROVE  /\ f \o b \in Seq(S) /\ Len(f) \in Nat /\ Len(b) \in Nat
         /\ Len(f \o b) = Len(f) + Len(b)
         /\ \A j \in 1 .. Len(f) : (f \o b)[j] = f[j]
         /\ \A j \in 1 .. Len(b) : (f \o b)[Len(f) + j] = b[j]
         /\ \A j \in 1 .. Len(f \o b) :
              j \in 1 .. Len(f) \/ (j - Len(f) \in 1 .. Len(b) /\ Len(f) + (j - Len(f)) = j)
<1>1. Len(f) \in Nat /\ Len(b) \in Nat
  OBVIOUS
<1>2. /\ f \o b \in Seq(S) /\ Len(f \o b) = Len(f) + Len(b)
      /\ \A j \in 1 .. Len(f) + Len(b) :
           (f \o b)[j] = IF j <= Len(f) THEN f[j] ELSE b[j - Len(f)]
  BY ConcatProperties
<1>3. \A j \in 1 .. Len(f) : (f \o b)[j] = f[j]
  BY <1>1, <1>2
<1>4. ASSUME NEW j \in 1 .. Len(b)
      PROVE  (f \o b)[Len(f) + j] = b[j]
  <2>1. /\ Len(f) + j \in 1 .. Len(f) + Len(b) /\ ~(Len(f) + j <= Len(f))
        /\ (Len(f) + j) - Len(f) = j
    BY <1>1
  <2>. QED BY <1>2, <2>1
<1>5. \A j \in 1 .. Len(f \o b) :
        j \in 1 .. Len(f) \/ (j - Len(f) \in 1 .. Len(b) /\ Len(f) + (j - Len(f)) = j)
  BY <1>1, <1>2
<1>. QED BY <1>1, <1>2, <1>3, <1>4, <1>5

\* OutputInOrder, in one formula and element by element.
LEMMA CountsJoined ==
  ASSUME NEW f \in Seq(Nat), NEW b \in Seq(Nat), NEW n \in Nat
  PROVE  f \o b = [j \in 1 .. n |-> j] <=> Counts(f, b, n)
<1>. DEFINE all == [j \in 1 .. n |-> j]
            both == f \o b
<1>1. all \in Seq(Nat) /\ Len(all) = n /\ \A j \in 1 .. n : all[j] = j
  OBVIOUS
<1>2. /\ both \in Seq(Nat) /\ Len(f) \in Nat /\ Len(b) \in Nat
      /\ Len(both) = Len(f) + Len(b)
      /\ \A j \in 1 .. Len(f) : both[j] = f[j]
      /\ \A j \in 1 .. Len(b) : both[Len(f) + j] = b[j]
      /\ \A j \in 1 .. Len(both) :
           j \in 1 .. Len(f) \/ (j - Len(f) \in 1 .. Len(b) /\ Len(f) + (j - Len(f)) = j)
  BY Joined
<1>. HIDE DEF all, both
<1>3. ASSUME both = all
      PROVE  Counts(f, b, n)
  <2>1. Len(f) + Len(b) = n
    BY <1>1, <1>2, <1>3
  <2>2. ASSUME NEW j \in 1 .. Len(f)
        PROVE  f[j] = j
    <3>1. j \in 1 .. n /\ both[j] = f[j]
      BY <1>2, <2>1
    <3>. QED BY <1>1, <1>3, <3>1
  <2>3. ASSUME NEW j \in 1 .. Len(b)
        PROVE  b[j] = Len(f) + j
    <3>1. Len(f) + j \in 1 .. n /\ both[Len(f) + j] = b[j]
      BY <1>2, <2>1
    <3>. QED BY <1>1, <1>3, <3>1
  <2>. QED BY <2>1, <2>2, <2>3 DEF Counts
<1>4. ASSUME Counts(f, b, n)
      PROVE  both = all
  <2>1. Len(both) = Len(all)
    BY <1>1, <1>2, <1>4 DEF Counts
  <2>2. ASSUME NEW j \in 1 .. Len(both)
        PROVE  both[j] = all[j]
    <3>1. all[j] = j
      BY <1>1, <2>1
    <3>2. CASE j \in 1 .. Len(f)
      BY <1>2, <1>4, <3>1, <3>2 DEF Counts
    <3>3. CASE j - Len(f) \in 1 .. Len(b) /\ Len(f) + (j - Len(f)) = j
      <4>1. both[j] = b[j - Len(f)] /\ b[j - Len(f)] = j
        BY <1>2, <1>4, <3>3 DEF Counts
      <4>. QED BY <3>1, <4>1
    <3>. QED BY <1>2, <3>2, <3>3
  <2>. QED BY <1>1, <1>2, <2>1, <2>2, SeqEqual
<1>. QED BY <1>3, <1>4 DEF all, both

\* The next k numbers go to the end of b.
LEMMA CountsAccept ==
  ASSUME NEW f \in Seq(Nat), NEW b \in Seq(Nat), NEW n \in Nat, Counts(f, b, n),
         NEW k \in Nat, NEW new \in Seq(Nat), Len(new) = k,
         \A j \in 1 .. k : new[j] = n + j
  PROVE  Counts(f, b \o new, n + k)
<1>. DEFINE both == b \o new
<1>1. /\ both \in Seq(Nat) /\ Len(b) \in Nat /\ Len(new) \in Nat /\ Len(f) \in Nat
      /\ Len(both) = Len(b) + Len(new)
      /\ \A j \in 1 .. Len(b) : both[j] = b[j]
      /\ \A j \in 1 .. Len(new) : both[Len(b) + j] = new[j]
      /\ \A j \in 1 .. Len(both) :
           j \in 1 .. Len(b) \/ (j - Len(b) \in 1 .. Len(new) /\ Len(b) + (j - Len(b)) = j)
  BY ONLY Joined, b \in Seq(Nat), new \in Seq(Nat)
<1>. HIDE DEF both
<1>2. Len(f) + Len(both) = n + k
  <2>1. n = Len(f) + Len(b)
    BY DEF Counts
  <2>. QED BY <1>1, <2>1
<1>3. ASSUME NEW j \in 1 .. Len(both)
      PROVE  both[j] = Len(f) + j
  <2>1. CASE j \in 1 .. Len(b)
    BY <1>1, <2>1 DEF Counts
  <2>2. CASE j - Len(b) \in 1 .. Len(new) /\ Len(b) + (j - Len(b)) = j
    <3>1. both[j] = new[j - Len(b)] /\ new[j - Len(b)] = n + (j - Len(b))
      BY <1>1, <2>2
    <3>2. n = Len(f) + Len(b)
      BY DEF Counts
    <3>. QED BY <1>1, <3>1, <3>2
  <2>. QED BY <1>1, <2>1, <2>2
<1>. QED BY <1>2, <1>3 DEF Counts, both

\* The first w numbers of b go to the end of f.
LEMMA CountsFlush ==
  ASSUME NEW f \in Seq(Nat), NEW b \in Seq(Nat), NEW n \in Nat, Counts(f, b, n),
         NEW w \in 1 .. Len(b)
  PROVE  LET old == SubSeq(b, 1, w)
             rest == SubSeq(b, w + 1, Len(b))
         IN  /\ old \in Seq(Nat) /\ rest \in Seq(Nat) /\ f \o old \in Seq(Nat)
             /\ Len(rest) = Len(b) - w /\ Counts(f \o old, rest, n)
<1>. DEFINE old == SubSeq(b, 1, w)
            rest == SubSeq(b, w + 1, Len(b))
            both == f \o old
<1>1. Len(f) \in Nat /\ Len(b) \in Nat /\ w \in Nat
  OBVIOUS
<1>2. old \in Seq(Nat) /\ Len(old) = w /\ \A j \in 1 .. w : old[j] = b[j]
  BY <1>1
<1>3. rest \in Seq(Nat) /\ Len(rest) = Len(b) - w
  BY <1>1
<1>4. ASSUME NEW j \in 1 .. Len(b) - w
      PROVE  rest[j] = b[w + j]
  BY <1>1
<1>5. /\ both \in Seq(Nat) /\ Len(both) = Len(f) + w
      /\ \A j \in 1 .. Len(f) : both[j] = f[j]
      /\ \A j \in 1 .. w : both[Len(f) + j] = old[j]
      /\ \A j \in 1 .. Len(both) :
           j \in 1 .. Len(f) \/ (j - Len(f) \in 1 .. w /\ Len(f) + (j - Len(f)) = j)
  BY <1>2, Joined
<1>. HIDE DEF old, rest, both
<1>6. Len(both) + Len(rest) = n
  <2>1. n = Len(f) + Len(b)
    BY DEF Counts
  <2>. QED BY <1>1, <1>3, <1>5, <2>1
<1>7. ASSUME NEW j \in 1 .. Len(rest)
      PROVE  rest[j] = Len(both) + j
  <2>1. w + j \in 1 .. Len(b) /\ rest[j] = b[w + j]
    BY <1>1, <1>3, <1>4
  <2>2. b[w + j] = Len(f) + (w + j)
    BY <2>1 DEF Counts
  <2>. QED BY <1>1, <1>5, <2>1, <2>2
<1>8. ASSUME NEW j \in 1 .. Len(both)
      PROVE  both[j] = j
  <2>1. CASE j \in 1 .. Len(f)
    BY <1>5, <2>1 DEF Counts
  <2>2. CASE j - Len(f) \in 1 .. w /\ Len(f) + (j - Len(f)) = j
    <3>1. both[Len(f) + (j - Len(f))] = b[j - Len(f)]
      BY <1>2, <1>5, <2>2
    <3>2. j - Len(f) \in 1 .. Len(b)
      BY <1>1, <2>2
    <3>3. b[j - Len(f)] = Len(f) + (j - Len(f))
      BY <3>2 DEF Counts
    <3>. QED BY <2>2, <3>1, <3>3
  <2>. QED BY <1>5, <2>1, <2>2
<1>. QED BY <1>2, <1>3, <1>5, <1>6, <1>7, <1>8 DEF Counts, old, rest, both

OutType == [buf : Seq(Nat), offset : Nat, file : Seq(Nat), n : Nat]
OutOK == out \in OutType /\ OutputInOrder

\* OutOK in the terms of the lemmas above.
LEMMA OutCounts ==
  ASSUME OutOK
  PROVE  /\ out.file \in Seq(Nat) /\ out.buf \in Seq(Nat) /\ out.n \in Nat
         /\ out.offset \in Nat /\ BufSize \in Nat /\ Len(out.buf) \in Nat
         /\ Len(out.buf) <= BufSize /\ out.offset + Len(out.buf) = out.n
         /\ Counts(out.file, out.buf, out.n)
<1>1. /\ out.file \in Seq(Nat) /\ out.buf \in Seq(Nat) /\ out.n \in Nat
      /\ out.offset \in Nat
  BY DEF OutOK, OutType
<1>2. Counts(out.file, out.buf, out.n)
  BY <1>1, CountsJoined DEF OutOK, OutputInOrder
<1>. QED BY <1>1, <1>2, ChannelsAssumption DEF OutOK, OutputInOrder

\* A new value of out that counts as it should keeps OutOK.
LEMMA OutKept ==
  ASSUME NEW b \in Seq(Nat), NEW o \in Nat, NEW f \in Seq(Nat), NEW n \in Nat,
         Counts(f, b, n), o + Len(b) = n, Len(b) <= BufSize,
         out' = [buf |-> b, offset |-> o, file |-> f, n |-> n]
  PROVE  OutOK' /\ out'.buf = b
<1>1. out' \in OutType
  BY DEF OutType
<1>2. out'.file = f /\ out'.buf = b /\ out'.n = n /\ out'.offset = o
  OBVIOUS
<1>3. f \o b = [j \in 1 .. n |-> j]
  BY CountsJoined
<1>. QED BY <1>1, <1>2, <1>3 DEF OutOK, OutputInOrder

\* The program's bytes enter the buffer, which has room for them.
LEMMA Accepted ==
  ASSUME OutOK, NEW k \in Nat, k <= BufSize - Len(out.buf), out' = Accept(out, k)
  PROVE  OutOK' /\ Len(out'.buf) = Len(out.buf) + k
<1>. DEFINE new == [j \in 1 .. k |-> out.n + j]
            b == out.buf \o new
<1>1. /\ new \in Seq(Nat) /\ Len(new) = k /\ \A j \in 1 .. k : new[j] = out.n + j
  <2>1. out.n \in Nat
    BY OutCounts
  <2>. QED BY ONLY <2>1, k \in Nat DEF new
<1>2. b \in Seq(Nat) /\ Len(b) = Len(out.buf) + k
  <2>. HIDE DEF new
  <2>1. out.buf \in Seq(Nat) /\ new \in Seq(Nat)
    BY <1>1, OutCounts
  <2>2. out.buf \o new \in Seq(Nat) /\ Len(out.buf \o new) = Len(out.buf) + Len(new)
    BY ONLY <2>1, Joined
  <2>. QED BY <1>1, <2>2
<1>3. Counts(out.file, b, out.n + k)
  <2>. HIDE DEF new
  <2>. QED BY <1>1, OutCounts, CountsAccept
<1>. DEFINE m == out.n + k
<1>4. out' = [out EXCEPT !.buf = b, !.n = m]
  BY DEF Accept
<1>. HIDE DEF new, b, m
<1>5. out' = [buf |-> b, offset |-> out.offset, file |-> out.file, n |-> m]
  BY <1>4 DEF OutOK, OutType
<1>. USE DEF m
<1>6. /\ out.n + k \in Nat /\ out.offset + Len(b) = out.n + k /\ Len(b) <= BufSize
  <2>1. /\ out.n \in Nat /\ out.offset \in Nat /\ BufSize \in Nat /\ Len(out.buf) \in Nat
        /\ out.offset + Len(out.buf) = out.n
    BY OutCounts
  <2>. QED BY ONLY <1>2, <2>1, k \in Nat, k <= BufSize - Len(out.buf)
<1>. QED BY <1>2, <1>3, <1>5, <1>6, OutCounts, OutKept

\* The system call writes the first w bytes of the buffer.
LEMMA Flushed ==
  ASSUME OutOK, NEW w \in 1 .. Len(out.buf), out' = flushed(out, w)
  PROVE  OutOK' /\ Len(out'.buf) = Len(out.buf) - w
<1>. DEFINE b == SubSeq(out.buf, w + 1, Len(out.buf))
            f == out.file \o SubSeq(out.buf, 1, w)
<1>1. b \in Seq(Nat) /\ f \in Seq(Nat) /\ Len(b) = Len(out.buf) - w /\ Counts(f, b, out.n)
  <2>1. /\ out.file \in Seq(Nat) /\ out.buf \in Seq(Nat) /\ out.n \in Nat
        /\ Counts(out.file, out.buf, out.n)
    BY OutCounts
  <2>. QED BY ONLY <2>1, w \in 1 .. Len(out.buf), CountsFlush
<1>2. out' = [out EXCEPT !.file = f, !.buf = b, !.offset = out.offset + w]
  BY DEF flushed
<1>. HIDE DEF b, f
<1>3. out' = [buf |-> b, offset |-> out.offset + w, file |-> f, n |-> out.n]
  BY <1>2 DEF OutOK, OutType
<1>4. /\ out.offset + w \in Nat /\ (out.offset + w) + Len(b) = out.n /\ Len(b) <= BufSize
  <2>1. /\ out.n \in Nat /\ out.offset \in Nat /\ BufSize \in Nat /\ Len(out.buf) \in Nat
        /\ out.offset + Len(out.buf) = out.n /\ Len(out.buf) <= BufSize
    BY OutCounts
  <2>2. Len(b) = Len(out.buf) - w /\ w \in Nat /\ w >= 1
    BY <1>1, <2>1
  <2>. QED BY ONLY <2>1, <2>2
<1>. QED BY <1>1, <1>3, <1>4, OutCounts, OutKept

\* The frame that check_pending pushes.
LEMMA ActionsFrame ==
  ASSUME CallbackInv
  PROVE  /\ Frame("actions", "gc", 0) \in ActiveFrame
         /\ Frame("actions", "gc", 0).k = "actions"
BY Framed DEF Kinds, Places, InRuntime

\* The last frame after check_pending, and after a call that ends.
LEMMA TopChecked ==
  ASSUME CallbackInv, NEW s \in Seq(ActiveFrame), NEW flag \in BOOLEAN,
         check_pending(s, flag)
  PROVE  stack' = s \/ Last(stack').k = "actions"
<1>. DEFINE f == Frame("actions", "gc", 0)
<1>1. f \in ActiveFrame /\ f.k = "actions"
  BY ActionsFrame
<1>2. stack' = s \/ stack' = Append(s, f)
  BY DEF check_pending, DoPending
<1>. HIDE DEF f
<1>3. stack' = Append(s, f) => Last(stack') = f
  BY <1>1 DEF Last
<1>. QED BY <1>1, <1>2, <1>3

\* A call that ends returns to no caml_putch, unless it is a flush.
LEMMA TopFinished ==
  ASSUME CallbackInv, Top.k \in InChannels \ {"flush"}, Finish
  PROVE  Last(stack').k # "putch"
<1>1. Shaped(stack')
  BY ShapedPop DEF Finish, InChannels
<1>2. Len(stack) > 1
  BY Left1 DEF InChannels, OCaml
<1>3. stack' # stack
  <2>1. Len(stack') = Len(stack) - 1
    BY <1>2, Tops DEF Finish
  <2>. QED BY <2>1, Tops
<1>. QED BY <1>1, <1>3 DEF Shaped, Last

\* The last frame of a stack with one more frame.
LEMMA TopPushed ==
  ASSUME CallbackInv, NEW s \in Seq(ActiveFrame), NEW k \in Kinds, NEW i \in Nat
  PROVE  /\ Append(s, Frame(k, "on", i)) \in Seq(ActiveFrame)
         /\ Last(Append(s, Frame(k, "on", i))).k = k
<1>1. "on" \in Places
  BY DEF Places
<1>2. Frame(k, "on", i) \in ActiveFrame /\ Frame(k, "on", i).k = k
  BY <1>1, Framed
<1>. QED BY <1>2 DEF Last

\* caml_putch runs when there is room in the buffer: only caml_flush_partial
\* lies between the test and it, and it makes room.
PutchOK == Top.k = "putch" => Len(out.buf) < BufSize
OutputInv == OutOK /\ PutchOK

\* Every step keeps the output in order and the room for caml_putch.
LEMMA OutputKept ==
  ASSUME CallbackInv, OutputInv, ChannelsNext
  PROVE  OutputInv'
<1>0. OutOK /\ Len(out.buf) \in Nat /\ BufSize \in Nat \ {0} /\ todo \in BOOLEAN
      /\ stack \in Seq(ActiveFrame)
  BY OutCounts, ChannelsAssumption, Tops DEF OutputInv, CallbackInv, SigTypeOK
<1>1. ASSUME out' = out, stack' = stack \/ Last(stack').k # "putch"
      PROVE  OutputInv'
  BY <1>1 DEF OutputInv, OutOK, OutputInOrder, PutchOK, Top
<1>2. ASSUME OutOK', Last(stack').k # "putch"
      PROVE  OutputInv'
  BY <1>2 DEF OutputInv, PutchOK, Top
<1>3. ASSUME NEW s \in Seq(ActiveFrame), NEW flag \in BOOLEAN, check_pending(s, flag),
             s = stack \/ Last(s).k # "putch"
      PROVE  stack' = stack \/ Last(stack').k # "putch"
  BY <1>3, TopChecked
<1>4. CASE SignalsStep /\ UNCHANGED chvars
  <2>1. Shaped(stack') /\ out' = out
    BY <1>4, SignalsStepShape DEF chvars
  <2>. QED BY <1>1, <2>1 DEF Shaped, Last
<1>5. CASE caml_putblock
  <2>. DEFINE free == BufSize - Len(out.buf)
              rest == [stack EXCEPT ![Len(stack)].i = @ - free]
  <2>1. Top.k = "output" /\ Top.i \in Nat
    BY <1>5, Tops DEF caml_putblock, ActiveFrame
  <2>2. CASE Top.i < free /\ out' = Accept(out, Top.i) /\ Finish
    <3>1. OutOK'
      BY <1>0, <2>1, <2>2, Accepted
    <3>. QED BY <1>2, <2>1, <2>2, <3>1, TopFinished DEF InChannels
  <2>3. CASE /\ ~(Top.i < free) /\ out' = Accept(out, free)
             /\ check_pending(Append(rest, Frame("flush", "on", 0)), todo)
    <3>1. free \in Nat /\ free <= BufSize - Len(out.buf) /\ Top.i >= free
      BY <1>0, <2>1, <2>3, OutCounts
    <3>2. OutOK'
      BY <1>0, <2>3, <3>1, Accepted
    <3>3. rest \in Seq(ActiveFrame)
      BY <1>0, <2>1, <3>1, PutblockFull
    <3>. HIDE DEF rest, free
    <3>. DEFINE s == Append(rest, Frame("flush", "on", 0))
    <3>4. s \in Seq(ActiveFrame) /\ Last(s).k = "flush"
      BY <3>3, TopPushed DEF Kinds, InChannels
    <3>5. check_pending(s, todo)
      BY <2>3
    <3>. HIDE DEF s
    <3>6. stack' = s \/ Last(stack').k = "actions"
      BY <1>0, <3>4, <3>5, TopChecked
    <3>. QED BY <1>2, <3>2, <3>4, <3>6
  <2>. QED BY <1>5, <2>2, <2>3 DEF caml_putblock
<1>6. CASE caml_putch
  <2>1. Top.k = "putch" /\ out' = Accept(out, 1) /\ Finish
    BY <1>6 DEF caml_putch
  <2>2. 1 <= BufSize - Len(out.buf)
    BY <1>0, <2>1 DEF OutputInv, PutchOK
  <2>3. OutOK'
    BY <1>0, <2>1, <2>2, Accepted
  <2>. QED BY <1>2, <2>1, <2>3, TopFinished DEF InChannels
<1>7. CASE FlushWrite
  <2>1. Top.k = "flush"
    BY <1>7 DEF FlushWrite
  <2>2. CASE out.buf = <<>>
    <3>1. out' = out /\ Len(out.buf) = 0
      BY <1>7, <2>2 DEF FlushWrite
    <3>2. OutOK'
      BY <1>0, <3>1 DEF OutOK, OutputInOrder
    <3>3. Len(out'.buf) < BufSize
      BY <1>0, <3>1
    <3>. QED BY <3>2, <3>3 DEF OutputInv, PutchOK
  <2>3. CASE out.buf # <<>>
    <3>1. PICK w \in 1 .. Len(out.buf) : out' = flushed(out, w)
      BY <1>7, <2>3 DEF FlushWrite
    <3>2. OutOK' /\ Len(out'.buf) = Len(out.buf) - w
      BY <1>0, <3>1, Flushed
    <3>3. Len(out'.buf) < BufSize
      BY <1>0, <3>2, OutCounts
    <3>. QED BY <3>2, <3>3 DEF OutputInv, PutchOK
  <2>. QED BY <2>2, <2>3
<1>8. CASE Input \/ Refill \/ Scan
  <2>1. out' = out /\ Top.k \in InChannels \ {"flush"} /\ (Finish \/ stack' = stack)
    BY <1>8 DEF Input, Refill, Scan, InChannels
  <2>. QED BY <1>1, <2>1, TopFinished
<1>9. CASE Interrupt
  <2>1. out' = out /\ check_pending(stack, todo \/ pending # {})
    BY <1>9 DEF Interrupt, FlushInterrupted, InputInterrupted, RefillInterrupted,
                ScanInterrupted, Interrupted, Again, chvars
  <2>2. (todo \/ pending # {}) \in BOOLEAN
    OBVIOUS
  <2>. QED BY <1>0, <1>1, <1>3, <2>1, <2>2
<1>10. CASE caml_ml_output
  <2>1. PICK l \in Writes : stack' = Append(stack, Frame("output", "on", l))
    BY <1>10 DEF caml_ml_output
  <2>2. out' = out /\ "output" \in Kinds /\ l \in Nat
    BY <1>10, ChannelsAssumption DEF caml_ml_output, chvars, Kinds, InChannels
  <2>3. Last(stack').k = "output"
    BY <1>0, <2>1, <2>2, TopPushed
  <2>. QED BY <1>1, <2>2, <2>3
<1>11. ASSUME NEW k \in Kinds \ {"putch"}, NEW i \in Nat, Call(k, i), out' = out
       PROVE  OutputInv'
  <2>1. check_pending(Append(stack, Frame(k, "on", i)), todo)
    BY <1>11 DEF Call
  <2>2. /\ Append(stack, Frame(k, "on", i)) \in Seq(ActiveFrame)
        /\ Last(Append(stack, Frame(k, "on", i))).k # "putch"
    BY <1>0, TopPushed
  <2>. QED BY <1>0, <1>1, <1>3, <1>11, <2>1, <2>2
<1>12. CASE caml_ml_flush \/ caml_ml_input \/ caml_ml_input_scan_line
  <2>1. /\ \E k \in Kinds \ {"putch"}, i \in Nat : Call(k, i)
        /\ out' = out
    BY <1>12, ChannelsAssumption
       DEF caml_ml_flush, caml_ml_input, caml_ml_input_scan_line, chvars, Kinds, InChannels
  <2>. QED BY <1>11, <2>1
<1>13. CASE caml_getch
  <2>1. out' = out /\ (stack' = stack \/ Call("refill", 0))
    BY <1>13 DEF caml_getch
  <2>. QED BY <1>1, <1>11, <2>1 DEF Kinds, InChannels
<1>14. CASE caml_seek_in
  <2>1. out' = out /\ stack' = stack
    BY <1>14 DEF caml_seek_in
  <2>. QED BY <1>1, <2>1
<1>15. CASE Fails
  <2>1. PICK n \in 1 .. Len(stack) - 1 :
          stack[n].k \in OCaml /\ stack' = SubSeq(stack, 1, n)
    BY <1>15 DEF Fails, Raise
  <2>2. out' = out
    BY <1>15 DEF Fails
  <2>3. Last(stack') = stack[n]
    BY <1>0, <2>1 DEF Last
  <2>. QED BY <1>1, <2>1, <2>2, <2>3 DEF OCaml
<1>16. CASE caml_ml_output_char
  <2>. DEFINE s == Append(stack, Frame("putch", "on", 0))
              t == Append(s, Frame("flush", "on", 0))
  <2>1. out' = out
    BY <1>16 DEF caml_ml_output_char, chvars
  <2>2. /\ s \in Seq(ActiveFrame) /\ t \in Seq(ActiveFrame)
        /\ Last(t).k = "flush"
    BY <1>0, TopPushed DEF Kinds, InChannels
  <2>3. CASE Len(out.buf) >= BufSize
    <3>1. check_pending(t, todo)
      BY <1>16, <2>3 DEF caml_ml_output_char
    <3>. HIDE DEF s, t
    <3>. QED BY <1>0, <1>1, <1>3, <2>1, <2>2, <3>1
  <2>4. CASE ~(Len(out.buf) >= BufSize)
    <3>1. Len(out.buf) < BufSize
      BY <1>0, <2>4
    <3>. QED BY <1>0, <2>1, <3>1 DEF OutputInv, OutOK, OutputInOrder, PutchOK
  <2>. QED BY <2>3, <2>4
<1>. QED BY <1>4, <1>5, <1>6, <1>7, <1>8, <1>9, <1>10, <1>12, <1>13, <1>14, <1>15, <1>16
         DEF ChannelsNext, Transfer, Calls

-----------------------------------------------------------------------------
(* The input channel, for a program whose callbacks leave alone a channel  *)
(* that is being refilled.                                                 *)

\* The smaller of two numbers.
LEMMA MinOfTwo ==
  ASSUME NEW a \in Int, NEW b \in Int
  PROVE  Min({a, b}) \in Int /\ Min({a, b}) <= a /\ Min({a, b}) <= b
         /\ (Min({a, b}) = a \/ Min({a, b}) = b)
<1>. DEFINE m == IF a <= b THEN a ELSE b
<1>1. m \in {a, b} /\ \A y \in {a, b} : m <= y
  OBVIOUS
<1>. HIDE DEF m
<1>2. Min({a, b}) \in {a, b} /\ \A y \in {a, b} : Min({a, b}) <= y
  BY <1>1 DEF Min
<1>. QED BY <1>2

\* The smaller of two natural numbers is one of them.
LEMMA MinOfNats ==
  ASSUME NEW a \in Nat, NEW b \in Nat
  PROVE  Min({a, b}) \in Nat /\ Min({a, b}) <= b
<1>1. a \in Int /\ b \in Int
  OBVIOUS
<1>. DEFINE m == Min({a, b})
<1>2. m \in Int /\ m <= b /\ (m = a \/ m = b)
  BY <1>1, MinOfTwo
<1>. HIDE DEF m
<1>3. m \in Nat /\ m <= b
  BY <1>2
<1>. QED BY <1>3 DEF m

\* The bytes w of a buffer that end at the descriptor's offset o, of which
\* c are consumed, for a program that is at x.
Window(w, c, o, x) ==
  /\ c <= Len(w) /\ Len(w) <= BufSize /\ o <= InSize /\ o - (Len(w) - c) = x
  /\ \A j \in 1 .. Len(w) : w[j] = o - Len(w) + j - 1

\* The bytes from o on
From(o, k) == [j \in 1 .. k |-> o + j - 1]

\* The bytes of a part of the file.
LEMMA FromParts ==
  ASSUME NEW o \in Nat, NEW k \in Nat
  PROVE  /\ From(o, k) \in Seq(Nat) /\ Len(From(o, k)) = k
         /\ \A j \in 1 .. k : From(o, k)[j] = o + j - 1
<1>1. \A j \in 1 .. k : o + j - 1 \in Nat
  OBVIOUS
<1>. QED BY <1>1 DEF From

\* Consuming bytes of the buffer.
LEMMA WindowConsume ==
  ASSUME NEW w \in Seq(Nat), NEW c \in Nat, NEW o \in Nat, NEW x \in Nat,
         Window(w, c, o, x), NEW k \in Nat, k <= Len(w) - c
  PROVE  Window(w, c + k, o, x + k)
<1>1. Len(w) \in Nat
  OBVIOUS
<1>2. o - (Len(w) - c) = x
  BY DEF Window
<1>3. o - (Len(w) - (c + k)) = x + k /\ c + k <= Len(w)
  BY <1>1, <1>2
<1>. QED BY <1>3 DEF Window

\* Filling the empty buffer and consuming the first of its bytes.
LEMMA WindowFill ==
  ASSUME NEW w \in Seq(Nat), NEW c \in Nat, NEW o \in Nat, NEW x \in Nat,
         Window(w, c, o, x), Len(w) = c, NEW k \in Nat, k <= InSize - o, k <= BufSize,
         NEW m \in Nat, m <= k
  PROVE  Window(From(o, k), m, o + k, x + m)
<1>1. o = x
  BY DEF Window
<1>2. (o + k) - (k - m) = x + m /\ o + k <= InSize
  BY <1>1, ChannelsAssumption
<1>3. /\ From(o, k) \in Seq(Nat) /\ Len(From(o, k)) = k
      /\ \A j \in 1 .. k : From(o, k)[j] = o + j - 1
  BY FromParts
<1>4. \A j \in 1 .. k : o + j - 1 = (o + k) - k + j - 1
  OBVIOUS
<1>. QED BY <1>2, <1>3, <1>4 DEF Window

\* Moving the unread bytes to the front.
LEMMA WindowUnread ==
  ASSUME NEW w \in Seq(Nat), NEW c \in Nat, NEW o \in Nat, NEW x \in Nat,
         Window(w, c, o, x)
  PROVE  LET u == SubSeq(w, c + 1, Len(w))
         IN  /\ u \in Seq(Nat) /\ Len(u) = Len(w) - c /\ Window(u, 0, o, x)
<1>. DEFINE u == SubSeq(w, c + 1, Len(w))
<1>1. Len(w) \in Nat /\ c <= Len(w)
  BY DEF Window
<1>2. \A j \in c + 1 .. Len(w) : w[j] \in Nat
  BY <1>1
<1>3. u \in Seq(Nat) /\ Len(u) = IF c + 1 <= Len(w) THEN Len(w) - (c + 1) + 1 ELSE 0
  BY <1>1, <1>2, SubSeqProperties
<1>4. \A j \in 1 .. Len(w) - (c + 1) + 1 : u[j] = w[(c + 1) + j - 1]
  BY <1>1, <1>2, SubSeqProperties
<1>. HIDE DEF u
<1>5. Len(u) = Len(w) - c
  BY <1>1, <1>3
<1>6. ASSUME NEW j \in 1 .. Len(u)
      PROVE  u[j] = o - Len(u) + j - 1
  <2>1. j \in 1 .. Len(w) - (c + 1) + 1 /\ (c + 1) + j - 1 = c + j
    BY <1>1, <1>5
  <2>2. u[j] = w[c + j] /\ c + j \in 1 .. Len(w)
    BY <1>1, <1>4, <2>1
  <2>3. w[c + j] = o - Len(w) + (c + j) - 1
    BY <2>2 DEF Window
  <2>. QED BY <1>1, <1>5, <2>2, <2>3
<1>7. /\ 0 <= Len(u) /\ Len(u) <= BufSize /\ o - (Len(u) - 0) = x
  BY <1>1, <1>5, ChannelsAssumption DEF Window
<1>8. o <= InSize
  BY DEF Window
<1>9. Window(u, 0, o, x)
  BY <1>6, <1>7, <1>8 DEF Window
<1>. QED BY <1>3, <1>5, <1>9 DEF u

\* Reading more bytes behind those that are there.
LEMMA WindowScan ==
  ASSUME NEW u \in Seq(Nat), NEW o \in Nat, NEW x \in Nat,
         Window(u, 0, o, x), NEW k \in Nat, k <= InSize - o, k <= BufSize - Len(u)
  PROVE  /\ u \o From(o, k) \in Seq(Nat)
         /\ Window(u \o From(o, k), 0, o + k, x)
<1>. DEFINE b == From(o, k)
            w == u \o b
<1>1. b \in Seq(Nat) /\ Len(b) = k /\ \A j \in 1 .. k : b[j] = o + j - 1
  BY FromParts
<1>. HIDE DEF b
<1>2. /\ w \in Seq(Nat) /\ Len(u) \in Nat /\ Len(w) = Len(u) + k
      /\ \A j \in 1 .. Len(u) : w[j] = u[j]
      /\ \A j \in 1 .. k : w[Len(u) + j] = b[j]
      /\ \A j \in 1 .. Len(w) :
           j \in 1 .. Len(u) \/ (j - Len(u) \in 1 .. k /\ Len(u) + (j - Len(u)) = j)
  <2>1. /\ w \in Seq(Nat) /\ Len(u) \in Nat /\ Len(w) = Len(u) + Len(b)
        /\ \A j \in 1 .. Len(u) : w[j] = u[j]
        /\ \A j \in 1 .. Len(b) : w[Len(u) + j] = b[j]
        /\ \A j \in 1 .. Len(w) :
             j \in 1 .. Len(u) \/ (j - Len(u) \in 1 .. Len(b) /\ Len(u) + (j - Len(u)) = j)
    <3>1. b \in Seq(Nat)
      BY <1>1
    <3>. QED BY ONLY Joined, u \in Seq(Nat), <3>1 DEF w
  <2>. HIDE DEF w
  <2>. QED BY <1>1, <2>1
<1>. HIDE DEF w
<1>3. ASSUME NEW j \in 1 .. Len(w)
      PROVE  w[j] = (o + k) - Len(w) + j - 1
  <2>1. CASE j \in 1 .. Len(u)
    <3>1. w[j] = o - Len(u) + j - 1
      BY <1>2, <2>1 DEF Window
    <3>. QED BY <1>2, <2>1, <3>1
  <2>2. CASE j - Len(u) \in 1 .. k /\ Len(u) + (j - Len(u)) = j
    <3>1. w[j] = o + (j - Len(u)) - 1
      BY <1>1, <1>2, <2>2
    <3>. QED BY <1>2, <2>2, <3>1
  <2>. QED BY <1>2, <2>1, <2>2
<1>4. o - (Len(u) - 0) = x
  BY DEF Window
<1>5. /\ 0 <= Len(w) /\ Len(w) <= BufSize /\ o + k <= InSize
      /\ (o + k) - (Len(w) - 0) = x
  BY <1>2, <1>4, ChannelsAssumption
<1>6. Window(w, 0, o + k, x)
  BY <1>3, <1>5 DEF Window
<1>. QED BY <1>2, <1>6 DEF w, b

InpType == [win : Seq(Nat), curr : Nat, offset : Nat, next : Nat]
InpOK == inp \in InpType /\ Window(inp.win, inp.curr, inp.offset, inp.next)

\* The invariant of the input channel is what InputInOrder says, with types.
LEMMA InpInOrder ==
  ASSUME InpOK
  PROVE  InputInOrder
<1>1. inp.win \in Seq(Nat) /\ inp.curr \in Nat
  BY DEF InpOK, InpType
<1>2. DOMAIN inp.win = 1 .. Len(inp.win) /\ Len(inp.win) \in Nat
  BY <1>1
<1>. QED BY <1>1, <1>2 DEF InpOK, Window, InputInOrder, Avail

\* A new value of inp that is a window of the file keeps the invariant.
LEMMA InpIs ==
  ASSUME NEW w \in Seq(Nat), NEW c \in Nat, NEW o \in Nat, NEW x \in Nat,
         Window(w, c, o, x), inp' = [win |-> w, curr |-> c, offset |-> o, next |-> x]
  PROVE  InpOK'
BY DEF InpOK, InpType

\* A frame of caml_refill waits on an empty buffer, and no call of the input
\* channel is above it.
InputCalls == {"input", "refill", "scan"}
RefillAlone(st, avail) ==
  \A n \in 1 .. Len(st) : st[n].k = "refill" =>
    avail = 0 /\ \A p \in n + 1 .. Len(st) : st[p].k \notin InputCalls
NoRefill(st) == \A n \in 1 .. Len(st) : st[n].k # "refill"
InputInv == InpOK /\ RefillAlone(stack, Avail)

\* Nothing has to be left alone when nothing is being refilled.
LEMMA AloneNone ==
  ASSUME NEW st, NEW a, NoRefill(st)
  PROVE  RefillAlone(st, a)
BY DEF NoRefill, RefillAlone

\* Pushing a frame that is not of the input channel, or before any refill.
LEMMA AlonePush ==
  ASSUME NEW st \in Seq(ActiveFrame), NEW f \in ActiveFrame, NEW a, RefillAlone(st, a),
         f.k \in InputCalls => NoRefill(st), f.k = "refill" => a = 0
  PROVE  RefillAlone(Append(st, f), a)
<1>. DEFINE t == Append(st, f)
<1>1. /\ Len(st) \in Nat /\ Len(t) = Len(st) + 1 /\ t[Len(t)] = f
      /\ \A n \in 1 .. Len(st) : t[n] = st[n]
  OBVIOUS
<1>2. \A n \in 1 .. Len(t) : n = Len(t) \/ n \in 1 .. Len(st)
  BY <1>1
<1>. HIDE DEF t
<1>3. ASSUME NEW n \in 1 .. Len(t), t[n].k = "refill"
      PROVE  a = 0 /\ \A p \in n + 1 .. Len(t) : t[p].k \notin InputCalls
  <2>1. CASE n = Len(t)
    BY <1>1, <1>3, <2>1
  <2>2. CASE n \in 1 .. Len(st)
    <3>1. /\ st[n].k = "refill" /\ a = 0 /\ f.k \notin InputCalls
          /\ \A p \in n + 1 .. Len(st) : st[p].k \notin InputCalls
      BY <1>1, <1>3, <2>2 DEF RefillAlone, NoRefill
    <3>2. \A p \in n + 1 .. Len(t) : p = Len(t) \/ (p \in n + 1 .. Len(st) /\ p \in 1 .. Len(st))
      BY <1>1, <2>2
    <3>. QED BY <1>1, <3>1, <3>2
  <2>. QED BY <1>2, <2>1, <2>2
<1>. QED BY <1>3 DEF RefillAlone, t

\* The frames of the input calls of s were at the same place before.
LEMMA AloneCame ==
  ASSUME NEW s, NEW a, RefillAlone(stack, a),
         \A n \in 1 .. Len(s) :
           s[n].k \in InputCalls => n \in 1 .. Len(stack) /\ stack[n].k = s[n].k,
         Len(s) \in Nat, Len(stack) \in Nat
  PROVE  RefillAlone(s, a)
<1>1. ASSUME NEW n \in 1 .. Len(s), s[n].k = "refill"
      PROVE  a = 0 /\ \A p \in n + 1 .. Len(s) : s[p].k \notin InputCalls
  <2>1. n \in 1 .. Len(stack) /\ stack[n].k = "refill"
    BY <1>1 DEF InputCalls
  <2>2. a = 0 /\ \A p \in n + 1 .. Len(stack) : stack[p].k \notin InputCalls
    BY <2>1 DEF RefillAlone
  <2>3. ASSUME NEW p \in n + 1 .. Len(s), s[p].k \in InputCalls
        PROVE  FALSE
    <3>1. p \in 1 .. Len(stack) /\ stack[p].k = s[p].k
      BY <2>3
    <3>2. p \in n + 1 .. Len(stack)
      BY <3>1
    <3>. QED BY <2>2, <2>3, <3>1, <3>2
  <2>. QED BY <2>2, <2>3
<1>. QED BY <1>1 DEF RefillAlone

\* Leaving frames leaves the refills alone.
LEMMA AloneCut ==
  ASSUME CallbackInv, NEW n \in 1 .. Len(stack), NEW a, RefillAlone(stack, a)
  PROVE  RefillAlone(SubSeq(stack, 1, n), a)
<1>. DEFINE t == SubSeq(stack, 1, n)
<1>1. /\ Len(stack) \in Nat /\ Len(t) = n /\ n \in Nat
      /\ \A p \in 1 .. n : t[p] = stack[p] /\ p \in 1 .. Len(stack)
  BY Tops
<1>. HIDE DEF t
<1>2. RefillAlone(t, a)
  BY <1>1, AloneCame
<1>. QED BY <1>2 DEF t

\* So does a call that ends; one of the input channel ends with no refill left.
LEMMA AloneFinished ==
  ASSUME CallbackInv, Top.k \in InChannels, Finish
  PROVE  /\ \A a : RefillAlone(stack, a) => RefillAlone(stack', a)
         /\ RefillAlone(stack, Avail) /\ Top.k \in InputCalls => NoRefill(stack')
<1>1. Len(stack) > 1
  BY Left1 DEF InChannels, OCaml
<1>2. Len(stack) - 1 \in 1 .. Len(stack) /\ stack' = SubSeq(stack, 1, Len(stack) - 1)
  BY <1>1, Tops DEF Finish
<1>3. \A a : RefillAlone(stack, a) => RefillAlone(stack', a)
  BY <1>2, AloneCut
<1>4. ASSUME RefillAlone(stack, Avail), Top.k \in InputCalls,
             NEW n \in 1 .. Len(stack'), stack'[n].k = "refill"
      PROVE  FALSE
  <2>1. n \in 1 .. Len(stack) - 1 /\ stack[n].k = "refill"
    BY <1>2, <1>4, Tops
  <2>2. Len(stack) \in n + 1 .. Len(stack) /\ n \in 1 .. Len(stack)
    BY <1>1, <2>1, Tops
  <2>. QED BY <1>4, <2>1, <2>2, Tops DEF RefillAlone
<1>. QED BY <1>3, <1>4 DEF NoRefill

\* check_pending pushes no call of the input channel.
LEMMA AloneChecked ==
  ASSUME CallbackInv, NEW s \in Seq(ActiveFrame), NEW a, RefillAlone(s, a),
         NEW flag \in BOOLEAN, check_pending(s, flag)
  PROVE  RefillAlone(stack', a)
<1>. DEFINE f == Frame("actions", "gc", 0)
<1>1. f \in ActiveFrame /\ f.k = "actions"
  BY ActionsFrame
<1>2. stack' = s \/ stack' = Append(s, f)
  BY DEF check_pending, DoPending
<1>. HIDE DEF f
<1>3. f.k \notin InputCalls
  BY <1>1 DEF InputCalls
<1>4. RefillAlone(Append(s, f), a)
  BY <1>1, <1>3, AlonePush DEF InputCalls
<1>. QED BY <1>2, <1>4

\* A call that is not of the input channel, or when nothing is being refilled.
LEMMA AloneCalled ==
  ASSUME CallbackInv, NEW s \in Seq(ActiveFrame), NEW a, RefillAlone(s, a),
         NEW k \in Kinds, NEW i \in Nat,
         k \in InputCalls => NoRefill(s), k = "refill" => a = 0
  PROVE  RefillAlone(Append(s, Frame(k, "on", i)), a)
<1>1. "on" \in Places
  BY DEF Places
<1>2. Frame(k, "on", i) \in ActiveFrame /\ Frame(k, "on", i).k = k
  BY <1>1, Framed
<1>. QED BY <1>2, AlonePush

\* The parts of inp.
LEMMA InpParts ==
  ASSUME InpOK
  PROVE  \E w \in Seq(Nat), c \in Nat, o \in Nat, x \in Nat :
           /\ inp = [win |-> w, curr |-> c, offset |-> o, next |-> x]
           /\ Window(w, c, o, x) /\ Avail = Len(w) - c
           /\ Len(w) \in Nat /\ c <= Len(w) /\ o <= InSize /\ Len(w) <= BufSize
<1>1. /\ inp.win \in Seq(Nat) /\ inp.curr \in Nat /\ inp.offset \in Nat /\ inp.next \in Nat
      /\ inp = [win |-> inp.win, curr |-> inp.curr, offset |-> inp.offset, next |-> inp.next]
  BY DEF InpOK, InpType
<1>2. Avail = Len(inp.win) - inp.curr /\ Len(inp.win) \in Nat
  BY <1>1 DEF Avail
<1>3. /\ Window(inp.win, inp.curr, inp.offset, inp.next)
      /\ inp.curr <= Len(inp.win) /\ inp.offset <= InSize /\ Len(inp.win) <= BufSize
  BY DEF InpOK, Window
<1>. QED BY <1>1, <1>2, <1>3

\* Bytes of the buffer are consumed.
LEMMA ConsumeKeeps ==
  ASSUME InpOK, NEW k \in Nat, k <= Avail, inp' = Consume(inp, k)
  PROVE  InpOK'
<1>1. PICK w \in Seq(Nat), c \in Nat, o \in Nat, x \in Nat :
        /\ inp = [win |-> w, curr |-> c, offset |-> o, next |-> x]
        /\ Window(w, c, o, x) /\ Avail = Len(w) - c
  BY InpParts
<1>2. Window(w, c + k, o, x + k)
  BY <1>1, WindowConsume
<1>3. inp' = [win |-> w, curr |-> c + k, offset |-> o, next |-> x + k]
  BY <1>1 DEF Consume
<1>4. c + k \in Nat /\ x + k \in Nat
  OBVIOUS
<1>. QED BY <1>2, <1>3, <1>4, InpIs

\* The channel after a system call that fills the empty buffer.
LEMMA FilledIs ==
  ASSUME NEW w \in Seq(Nat), NEW c \in Nat, NEW o \in Nat, NEW x \in Nat, NEW k \in Nat,
         inp = [win |-> w, curr |-> c, offset |-> o, next |-> x],
         NEW b \in Seq(Nat), Bytes(k) = b, NEW m \in Nat, inp' = Consume(Filled(k), m)
  PROVE  inp' = [win |-> b, curr |-> m, offset |-> o + k, next |-> x + m]
<1>1. PICK f : f = Filled(k)
  OBVIOUS
<1>2. f = [win |-> b, curr |-> 0, offset |-> o + k, next |-> x]
  <2>1. f = [inp EXCEPT !.win = b, !.curr = 0, !.offset = o + k]
    BY <1>1 DEF Filled
  <2>. QED BY <2>1
<1>3. f.curr = 0 /\ f.next = x /\ 0 + m = m
  BY <1>2
<1>4. inp' = [f EXCEPT !.curr = m, !.next = x + m]
  BY <1>1, <1>3 DEF Consume
<1>. QED BY <1>2, <1>4

\* A system call fills the empty buffer, and the first bytes are consumed.
LEMMA FillKeeps ==
  ASSUME InpOK, Avail = 0, NEW k \in Nat, k <= InSize - inp.offset, k <= BufSize,
         NEW m \in Nat, m <= k, inp' = Consume(Filled(k), m)
  PROVE  InpOK'
<1>1. PICK w \in Seq(Nat), c \in Nat, o \in Nat, x \in Nat :
        /\ inp = [win |-> w, curr |-> c, offset |-> o, next |-> x]
        /\ Window(w, c, o, x) /\ Avail = Len(w) - c /\ Len(w) \in Nat
  BY InpParts
<1>2. Len(w) = c /\ inp.offset = o /\ k <= InSize - o
  BY <1>1
<1>3. Window(From(o, k), m, o + k, x + m)
  BY <1>1, <1>2, WindowFill
<1>4. Bytes(k) = From(o, k)
  BY <1>2 DEF Bytes, From
<1>5. From(o, k) \in Seq(Nat) /\ o + k \in Nat /\ x + m \in Nat
  BY FromParts
<1>6. inp' = [win |-> From(o, k), curr |-> m, offset |-> o + k, next |-> x + m]
  BY <1>1, <1>4, <1>5, FilledIs
<1>. QED BY <1>3, <1>5, <1>6, InpIs

\* The unread bytes move to the front, and those read follow them.
LEMMA ScanKeeps ==
  ASSUME InpOK, NEW k \in Nat, k <= InSize - inp.offset, k <= BufSize - Len(Unread),
         inp' = scan_read(k)
  PROVE  InpOK'
<1>1. PICK w \in Seq(Nat), c \in Nat, o \in Nat, x \in Nat :
        /\ inp = [win |-> w, curr |-> c, offset |-> o, next |-> x]
        /\ Window(w, c, o, x)
  BY InpParts
<1>. DEFINE u == SubSeq(w, c + 1, Len(w))
<1>2. u \in Seq(Nat) /\ Window(u, 0, o, x)
  BY <1>1, WindowUnread
<1>3. Unread = u /\ Bytes(k) = From(o, k) /\ inp.offset = o
  BY <1>1 DEF Unread, Bytes, From
<1>. HIDE DEF u
<1>. DEFINE b == u \o From(o, k)
<1>4. b \in Seq(Nat) /\ Window(b, 0, o + k, x)
  BY <1>2, <1>3, WindowScan
<1>5. inp' = [win |-> b, curr |-> 0, offset |-> o + k, next |-> x]
  BY <1>1, <1>3 DEF scan_read
<1>6. o + k \in Nat /\ 0 \in Nat
  OBVIOUS
<1>. HIDE DEF b
<1>. QED BY <1>4, <1>5, <1>6, InpIs

\* The unread bytes move to the front and nothing is read.
LEMMA ScanEndKeeps ==
  ASSUME InpOK, inp' = Shifted
  PROVE  InpOK'
<1>1. PICK w \in Seq(Nat), c \in Nat, o \in Nat, x \in Nat :
        /\ inp = [win |-> w, curr |-> c, offset |-> o, next |-> x]
        /\ Window(w, c, o, x)
  BY InpParts
<1>. DEFINE u == SubSeq(w, c + 1, Len(w))
<1>2. u \in Seq(Nat) /\ Window(u, 0, o, x)
  BY <1>1, WindowUnread
<1>3. inp' = [win |-> u, curr |-> 0, offset |-> o, next |-> x]
  BY <1>1 DEF Unread, Shifted
<1>. HIDE DEF u
<1>. QED BY <1>2, <1>3, InpIs

\* caml_seek_in moves in the buffer, or starts again at its destination.
LEMMA SeekKeeps ==
  ASSUME InpOK, NEW dest \in 0 .. InSize,
         inp' = IF dest >= inp.offset - Len(inp.win) /\ dest <= inp.offset
                THEN [inp EXCEPT !.curr = Len(inp.win) - (inp.offset - dest), !.next = dest]
                ELSE [win |-> <<>>, curr |-> 0, offset |-> dest, next |-> dest]
  PROVE  InpOK'
<1>1. PICK w \in Seq(Nat), c \in Nat, o \in Nat, x \in Nat :
        /\ inp = [win |-> w, curr |-> c, offset |-> o, next |-> x]
        /\ Window(w, c, o, x) /\ Len(w) \in Nat
  BY InpParts
<1>2. dest \in Nat /\ dest <= InSize
  BY ChannelsAssumption
<1>3. CASE dest >= o - Len(w) /\ dest <= o
  <2>. DEFINE d == Len(w) - (o - dest)
  <2>1. d \in Nat /\ d <= Len(w) /\ o - (Len(w) - d) = dest
    BY <1>1, <1>2, <1>3
  <2>2. inp' = [win |-> w, curr |-> d, offset |-> o, next |-> dest]
    BY <1>1, <1>3
  <2>. HIDE DEF d
  <2>3. Window(w, d, o, dest)
    BY <1>1, <2>1 DEF Window
  <2>. QED BY <1>2, <2>1, <2>2, <2>3, InpIs
<1>4. CASE ~(dest >= o - Len(w) /\ dest <= o)
  <2>1. inp' = [win |-> <<>>, curr |-> 0, offset |-> dest, next |-> dest]
    BY <1>1, <1>4
  <2>2. /\ <<>> \in Seq(Nat) /\ Len(<<>>) = 0 /\ dest - (0 - 0) = dest
        /\ BufSize \in Nat /\ 0 <= BufSize
    BY <1>2, ChannelsAssumption
  <2>3. Window(<<>>, 0, dest, dest)
    BY <1>2, <2>2 DEF Window
  <2>. QED BY <1>2, <2>1, <2>2, <2>3, InpIs
<1>. QED BY <1>3, <1>4

\* A step that leaves the input channel as it is.
LEMMA InputSame ==
  ASSUME InputInv, inp' = inp, RefillAlone(stack', Avail)
  PROVE  InputInv'
<1>1. Avail' = Avail
  BY DEF Avail
<1>2. InpOK'
  BY DEF InputInv, InpOK, InpType, Window
<1>. QED BY <1>1, <1>2 DEF InputInv

\* A step that changes it when nothing is being refilled.
LEMMA InputChanged ==
  ASSUME InpOK', NoRefill(stack')
  PROVE  InputInv'
<1>1. RefillAlone(stack', Avail')
  BY AloneNone
<1>. QED BY <1>1 DEF InputInv

\* The unread bytes are those that are available.
LEMMA UnreadLength ==
  ASSUME InpOK
  PROVE  Len(Unread) = Avail /\ Avail \in Nat /\ Avail <= BufSize
<1>1. PICK w \in Seq(Nat), c \in Nat, o \in Nat, x \in Nat :
        /\ inp = [win |-> w, curr |-> c, offset |-> o, next |-> x]
        /\ Window(w, c, o, x) /\ Avail = Len(w) - c
        /\ Len(w) \in Nat /\ c <= Len(w) /\ Len(w) <= BufSize
  BY InpParts
<1>2. Unread = SubSeq(w, c + 1, Len(w))
  BY <1>1 DEF Unread
<1>3. Len(Unread) = Len(w) - c
  BY <1>1, <1>2, WindowUnread
<1>. QED BY <1>1, <1>3, ChannelsAssumption

\* A call that begins leaves the refills alone, when no channel operation of
\* a callback reads the channel that is being refilled.
LEMMA AloneBegins ==
  ASSUME CallbackInv, InputInv, NEW k \in Kinds, NEW i \in Nat, Call(k, i),
         k \in InputCalls => NoRefill(stack), k = "refill" => Avail = 0
  PROVE  RefillAlone(stack', Avail)
<1>. DEFINE s == Append(stack, Frame(k, "on", i))
<1>1. stack \in Seq(ActiveFrame) /\ todo \in BOOLEAN
  BY Tops DEF CallbackInv, SigTypeOK
<1>2. RefillAlone(stack, Avail)
  BY DEF InputInv
<1>3. RefillAlone(s, Avail)
  BY <1>1, <1>2, AloneCalled
<1>4. s \in Seq(ActiveFrame)
  BY <1>1, TopPushed
<1>5. check_pending(s, todo)
  BY DEF Call
<1>. HIDE DEF s
<1>. QED BY <1>1, <1>3, <1>4, <1>5, AloneChecked

\* CanInput, when callbacks leave alone a channel that is being refilled.
LEMMA NotRefilling ==
  ASSUME CallbackInv, ~InputInRefill, CanInput
  PROVE  NoRefill(stack)
<1>1. Frames("refill") = {}
  BY DEF CanInput, Refilling
<1>2. DOMAIN stack = 1 .. Len(stack)
  BY Tops
<1>. QED BY <1>1, <1>2 DEF Frames, NoRefill

\* No refill is under way while a line is scanned.
LEMMA ScanAlone ==
  ASSUME CallbackInv, InputInv, Top.k = "scan"
  PROVE  NoRefill(stack)
<1>1. ASSUME NEW n \in 1 .. Len(stack), stack[n].k = "refill"
      PROVE  FALSE
  <2>1. Len(stack) \in n + 1 .. Len(stack) /\ stack[Len(stack)].k = "scan"
    BY <1>1, Tops
  <2>. QED BY <1>1, <2>1 DEF RefillAlone, InputCalls, InputInv
<1>. QED BY <1>1 DEF NoRefill

\* The calls that leave the input channel alone, but for the unread bytes that
\* an interrupted or failed caml_input_scan_line has moved.
LEMMA OutputLeavesInput ==
  ASSUME CallbackInv, InputInv, Len(out.buf) \in Nat,
         \/ SignalsStep /\ UNCHANGED chvars
         \/ caml_putblock \/ caml_putch \/ FlushWrite \/ Interrupt
         \/ caml_ml_output \/ caml_ml_output_char \/ caml_ml_flush \/ Fails
  PROVE  InputInv'
<1>0. /\ stack \in Seq(ActiveFrame) /\ Len(stack) \in Nat /\ todo \in BOOLEAN
      /\ RefillAlone(stack, Avail)
  BY Tops DEF CallbackInv, SigTypeOK, InputInv
<1>1. \A k \in InputCalls : k \in InChannels
  BY DEF InputCalls, InChannels
<1>2. CASE SignalsStep /\ UNCHANGED chvars
  <2>1. Shaped(stack') /\ inp' = inp
    BY <1>2, SignalsStepShape DEF chvars
  <2>2. stack' \in Seq(ActiveFrame)
    BY <1>2, SignalsStepKeeps DEF CallbackInv, SigTypeOK
  <2>3. Len(stack') \in Nat
    BY <2>2
  <2>4. RefillAlone(stack', Avail)
    BY <1>0, <1>1, <2>1, <2>3, AloneCame DEF Shaped
  <2>. QED BY <2>1, <2>4, InputSame
<1>3. CASE caml_putblock
  <2>. DEFINE free == BufSize - Len(out.buf)
              rest == [stack EXCEPT ![Len(stack)].i = @ - free]
  <2>1. Top.k = "output" /\ inp' = inp /\ Top.i \in Nat /\ BufSize \in Nat
    BY <1>3, Tops, ChannelsAssumption DEF caml_putblock, ActiveFrame
  <2>2. CASE Finish
    BY <2>1, <2>2, <1>0, AloneFinished, InputSame DEF InChannels
  <2>3. CASE /\ ~(Top.i < free)
             /\ check_pending(Append(rest, Frame("flush", "on", 0)), todo)
    <3>1. Top.i >= free
      BY <2>1, <2>3
    <3>2. /\ rest \in Seq(ActiveFrame) /\ Len(rest) = Len(stack)
          /\ \A n \in 1 .. Len(rest) : rest[n].k = stack[n].k
      BY <2>1, <3>1, PutblockFull
    <3>. HIDE DEF rest, free
    <3>3. RefillAlone(rest, Avail)
      BY <1>0, <3>2, AloneCame
    <3>. DEFINE s == Append(rest, Frame("flush", "on", 0))
    <3>4. s \in Seq(ActiveFrame) /\ RefillAlone(s, Avail)
      BY <3>2, <3>3, TopPushed, AloneCalled DEF Kinds, InChannels, InputCalls
    <3>5. check_pending(s, todo)
      BY <2>3
    <3>. HIDE DEF s
    <3>. QED BY <1>0, <2>1, <3>4, <3>5, AloneChecked, InputSame
  <2>. QED BY <1>3, <2>2, <2>3 DEF caml_putblock
<1>4. CASE caml_putch
  <2>1. Top.k \in InChannels /\ inp' = inp /\ Finish
    BY <1>4 DEF caml_putch, InChannels
  <2>. QED BY <1>0, <2>1, AloneFinished, InputSame
<1>5. ASSUME NEW flag \in BOOLEAN, check_pending(stack, flag), inp' = inp
      PROVE  InputInv'
  <2>1. RefillAlone(stack', Avail)
    BY <1>0, <1>5, AloneChecked
  <2>. QED BY <1>5, <2>1, InputSame
<1>6. CASE FlushWrite
  <2>1. Top.k \in InChannels /\ inp' = inp /\ (Finish \/ Again(stack))
    BY <1>6 DEF FlushWrite, InChannels
  <2>2. CASE Finish
    BY <1>0, <2>1, <2>2, AloneFinished, InputSame
  <2>3. CASE Again(stack)
    BY <1>0, <1>5, <2>1, <2>3 DEF Again
  <2>. QED BY <2>1, <2>2, <2>3
<1>7. CASE Interrupt
  <2>1. check_pending(stack, todo \/ pending # {})
    BY <1>7 DEF Interrupt, FlushInterrupted, InputInterrupted, RefillInterrupted,
                ScanInterrupted, Interrupted, Again
  <2>2. inp' = inp \/ (Top.k = "scan" /\ inp' = Shifted)
    BY <1>7 DEF Interrupt, FlushInterrupted, InputInterrupted, RefillInterrupted,
                ScanInterrupted, Interrupted
  <2>3. CASE inp' = inp
    BY <1>5, <2>1, <2>3
  <2>4. CASE Top.k = "scan" /\ inp' = Shifted
    <3>1. RefillAlone(stack, Avail') /\ InpOK'
      BY <2>4, ScanAlone, ScanEndKeeps, AloneNone DEF InputInv
    <3>2. (todo \/ pending # {}) \in BOOLEAN
      OBVIOUS
    <3>3. RefillAlone(stack', Avail')
      BY <1>0, <2>1, <3>1, <3>2, AloneChecked
    <3>. QED BY <3>1, <3>3 DEF InputInv
  <2>. QED BY <2>2, <2>3, <2>4
<1>8. CASE caml_ml_output
  <2>1. PICK l \in Writes : stack' = Append(stack, Frame("output", "on", l))
    BY <1>8 DEF caml_ml_output
  <2>2. inp' = inp /\ "output" \in Kinds /\ "output" \notin InputCalls /\ l \in Nat
    BY <1>8, ChannelsAssumption DEF caml_ml_output, chvars, Kinds, InChannels, InputCalls
  <2>3. RefillAlone(stack', Avail)
    BY <1>0, <2>1, <2>2, AloneCalled DEF InputCalls
  <2>. QED BY <2>2, <2>3, InputSame
<1>9. CASE caml_ml_output_char
  <2>. DEFINE s == Append(stack, Frame("putch", "on", 0))
              t == Append(s, Frame("flush", "on", 0))
  <2>1. inp' = inp
    BY <1>9 DEF caml_ml_output_char, chvars
  <2>2. s \in Seq(ActiveFrame) /\ RefillAlone(s, Avail)
    BY <1>0, TopPushed, AloneCalled DEF Kinds, InChannels, InputCalls
  <2>3. stack' = s \/ check_pending(t, todo)
    BY <1>9 DEF caml_ml_output_char
  <2>. HIDE DEF s
  <2>4. t \in Seq(ActiveFrame) /\ RefillAlone(t, Avail)
    BY <2>2, TopPushed, AloneCalled DEF Kinds, InChannels, InputCalls
  <2>. HIDE DEF t
  <2>. QED BY <1>0, <2>1, <2>2, <2>3, <2>4, AloneChecked, InputSame
<1>10. CASE caml_ml_flush
  <2>1. Call("flush", 1) /\ inp' = inp
    BY <1>10 DEF caml_ml_flush, chvars
  <2>2. RefillAlone(stack', Avail)
    BY <2>1, AloneBegins DEF Kinds, InChannels, InputCalls
  <2>. QED BY <2>1, <2>2, InputSame
<1>11. CASE Fails
  <2>1. PICK n \in 1 .. Len(stack) - 1 : stack' = SubSeq(stack, 1, n)
    BY <1>11 DEF Fails, Raise
  <2>2. inp' = inp \/ (Top.k = "scan" /\ inp' = Shifted)
    BY <1>11 DEF Fails
  <2>3. n \in 1 .. Len(stack)
    BY <1>0
  <2>4. CASE inp' = inp
    BY <1>0, <2>1, <2>3, <2>4, AloneCut, InputSame
  <2>5. CASE Top.k = "scan" /\ inp' = Shifted
    <3>1. RefillAlone(stack, Avail') /\ InpOK'
      BY <2>5, ScanAlone, ScanEndKeeps, AloneNone DEF InputInv
    <3>2. RefillAlone(stack', Avail')
      BY <2>1, <2>3, <3>1, AloneCut
    <3>. QED BY <3>1, <3>2 DEF InputInv
  <2>. QED BY <2>2, <2>4, <2>5
<1>. QED BY <1>2, <1>3, <1>4, <1>6, <1>7, <1>8, <1>9, <1>10, <1>11

\* Every step keeps the buffer a window of the file and the refills alone.
LEMMA InputKept ==
  ASSUME CallbackInv, InputInv, Len(out.buf) \in Nat, ~InputInRefill, ChannelsNext
  PROVE  InputInv'
<1>0. /\ stack \in Seq(ActiveFrame) /\ Len(stack) \in Nat /\ RefillAlone(stack, Avail)
      /\ InpOK /\ Avail \in Nat /\ Len(Unread) = Avail /\ Avail <= BufSize
      /\ BufSize \in Nat \ {0} /\ InSize \in Nat /\ inp.offset \in Nat
      /\ inp.offset <= InSize
  BY Tops, UnreadLength, ChannelsAssumption DEF InputInv, InpOK, InpType, Window
<1>1. ASSUME NEW room \in Nat, NEW k \in Available(room)
      PROVE  k \in Nat /\ k <= room /\ k <= InSize - inp.offset
  <2>1. room \in Int /\ InSize - inp.offset \in Int
    BY <1>0
  <2>2. /\ Min({room, InSize - inp.offset}) \in Int
        /\ Min({room, InSize - inp.offset}) <= room
        /\ Min({room, InSize - inp.offset}) <= InSize - inp.offset
    BY <2>1, MinOfTwo
  <2>. QED BY <1>1, <2>1, <2>2 DEF Available
<1>2. CASE Input
  <2>1. Top.k = "input" /\ Finish /\ Top.i \in Nat
    BY <1>2, Tops DEF Input, ActiveFrame
  <2>2. NoRefill(stack')
    BY <1>0, <2>1, AloneFinished DEF InputCalls, InChannels
  <2>3. CASE Avail > 0
    <3>1. /\ Min({Top.i, Avail}) \in Nat /\ Min({Top.i, Avail}) <= Avail
      BY <1>0, <2>1, MinOfNats
    <3>2. inp' = Consume(inp, Min({Top.i, Avail}))
      BY <1>2, <2>3 DEF Input
    <3>. QED BY <1>0, <2>2, <3>1, <3>2, ConsumeKeeps, InputChanged
  <2>4. CASE ~(Avail > 0)
    <3>1. PICK k \in IF AtEnd THEN {0} ELSE Available(BufSize) :
            inp' = Consume(Filled(k), Min({Top.i, k}))
      BY <1>2, <2>4 DEF Input
    <3>2. k \in Nat /\ k <= BufSize /\ k <= InSize - inp.offset
      BY <1>0, <1>1, <3>1
    <3>3. Min({Top.i, k}) \in Nat /\ Min({Top.i, k}) <= k
      BY <2>1, <3>2, MinOfNats
    <3>4. Avail = 0
      BY <1>0, <2>4
    <3>. QED BY <1>0, <2>2, <3>1, <3>2, <3>3, <3>4, FillKeeps, InputChanged
  <2>. QED BY <2>3, <2>4
<1>3. CASE Refill
  <2>1. Top.k = "refill" /\ Finish /\ stack[Len(stack)].k = "refill"
    BY <1>3, Tops DEF Refill
  <2>2. NoRefill(stack')
    BY <1>0, <2>1, AloneFinished DEF InputCalls, InChannels
  <2>3. Avail = 0
    <3>1. Len(stack) \in 1 .. Len(stack)
      BY Tops
    <3>. QED BY <1>0, <2>1, <3>1 DEF RefillAlone
  <2>4. PICK k \in Available(BufSize) : inp' = Consume(Filled(k), 1)
    BY <1>3 DEF Refill
  <2>5. k \in Nat /\ k <= BufSize /\ k <= InSize - inp.offset
    BY <1>0, <1>1, <2>4
  <2>6. 1 <= k /\ 1 \in Nat
    BY <2>4, <2>5, <1>0, MinOfTwo DEF Available
  <2>. QED BY <1>0, <2>2, <2>3, <2>4, <2>5, <2>6, FillKeeps, InputChanged
<1>4. CASE Scan
  <2>1. Top.k = "scan" /\ stack[Len(stack)].k = "scan"
    BY <1>4, Tops DEF Scan
  <2>2. NoRefill(stack)
    BY <2>1, ScanAlone
  <2>3. CASE inp' = inp /\ Finish
    BY <1>0, <2>1, <2>3, AloneFinished, InputSame DEF InChannels
  <2>4. CASE inp' = Shifted /\ Finish
    <3>1. NoRefill(stack')
      BY <1>0, <2>1, <2>4, AloneFinished DEF InputCalls, InChannels
    <3>. QED BY <1>0, <2>4, <3>1, ScanEndKeeps, InputChanged
  <2>5. CASE /\ stack' = stack
             /\ \E k \in Available(BufSize - Len(Unread)) : inp' = scan_read(k)
    <3>1. PICK k \in Available(BufSize - Len(Unread)) : inp' = scan_read(k)
      BY <2>5
    <3>2. BufSize - Len(Unread) \in Nat
      BY <1>0
    <3>3. k \in Nat /\ k <= BufSize - Len(Unread) /\ k <= InSize - inp.offset
      BY <1>1, <3>1, <3>2
    <3>4. InpOK'
      BY <1>0, <3>1, <3>3, ScanKeeps
    <3>. QED BY <2>2, <2>5, <3>4, InputChanged
  <2>. QED BY <1>4, <2>3, <2>4, <2>5 DEF Scan
<1>5. CASE caml_ml_input
  <2>1. PICK n \in Reads : Call("input", n)
    BY <1>5 DEF caml_ml_input
  <2>2. n \in Nat /\ inp' = inp /\ NoRefill(stack) /\ "input" \in Kinds
    BY <1>5, NotRefilling, ChannelsAssumption DEF caml_ml_input, chvars, Kinds, InChannels
  <2>3. RefillAlone(stack', Avail)
    BY <2>1, <2>2, AloneBegins
  <2>. QED BY <2>2, <2>3, InputSame
<1>6. CASE caml_getch
  <2>1. NoRefill(stack)
    BY <1>6, NotRefilling DEF caml_getch
  <2>2. CASE inp' = Consume(inp, 1) /\ stack' = stack /\ Avail > 0
    <3>1. 1 \in Nat /\ 1 <= Avail
      BY <1>0, <2>2
    <3>. QED BY <1>0, <2>1, <2>2, <3>1, ConsumeKeeps, InputChanged
  <2>3. CASE Call("refill", 0) /\ inp' = inp /\ ~(Avail > 0)
    <3>1. Avail = 0 /\ "refill" \in Kinds
      BY <1>0, <2>3 DEF Kinds, InChannels
    <3>2. RefillAlone(stack', Avail)
      BY <2>1, <2>3, <3>1, AloneBegins
    <3>. QED BY <2>3, <3>2, InputSame
  <2>. QED BY <1>6, <2>2, <2>3 DEF caml_getch
<1>7. CASE caml_ml_input_scan_line
  <2>1. /\ Call("scan", 0) /\ inp' = inp /\ NoRefill(stack) /\ "scan" \in Kinds
    BY <1>7, NotRefilling DEF caml_ml_input_scan_line, chvars, Kinds, InChannels
  <2>2. RefillAlone(stack', Avail)
    BY <2>1, AloneBegins
  <2>. QED BY <2>1, <2>2, InputSame
<1>8. CASE caml_seek_in
  <2>1. NoRefill(stack) /\ stack' = stack
    BY <1>8, NotRefilling DEF caml_seek_in
  <2>2. PICK dest \in 0 .. InSize : \/ inp' = inp
        \/ inp' = IF dest >= inp.offset - Len(inp.win) /\ dest <= inp.offset
                 THEN [inp EXCEPT !.curr = Len(inp.win) - (inp.offset - dest), !.next = dest]
                 ELSE [win |-> <<>>, curr |-> 0, offset |-> dest, next |-> dest]
    BY <1>8 DEF caml_seek_in
  <2>. QED BY <1>0, <2>1, <2>2, SeekKeeps, InputChanged, InputSame
<1>. QED BY <1>2, <1>3, <1>4, <1>5, <1>6, <1>7, <1>8, OutputLeavesInput
         DEF ChannelsNext, Transfer, Calls

-----------------------------------------------------------------------------
(* What every behaviour keeps.                                             *)

\* The program starts with nothing pending and both buffers empty.
LEMMA InitCallback ==
  ASSUME ChannelsInit
  PROVE  CallbackInv
<1>. DEFINE f == [k |-> "main", pc |-> "on", i |-> 0, saved |-> {}]
<1>1. /\ stack = <<f>> /\ pending = {} /\ sap = FALSE /\ todo = FALSE /\ mask = {}
      /\ to_do = <<>> /\ running = FALSE
      /\ left = [signals |-> MaxSignals, finals |-> MaxFinal]
  BY DEF ChannelsInit, SignalsInit
<1>2. f \in ActiveFrame /\ f.k = "main"
  BY DEF ActiveFrame, OCaml, Places
<1>. HIDE DEF f
<1>3. /\ stack \in Seq(ActiveFrame) /\ stack # <<>> /\ Len(stack) = 1
      /\ stack[1].k = "main" /\ \A n \in 1 .. Len(stack) : n = 1
  BY <1>1, <1>2
<1>4. MaxSignals \in 0 .. MaxSignals /\ MaxFinal \in 0 .. MaxFinal
  BY SignalsAssumption
<1>5. SigTypeOK
  <2>1. left \in [signals : 0 .. MaxSignals, finals : 0 .. MaxFinal]
    BY <1>1, <1>4
  <2>2. to_do \in Seq(0 .. MaxFinal)
    BY <1>1
  <2>3. pending \subseteq Sigs /\ mask \subseteq Sigs
    BY <1>1
  <2>4. sap \in BOOLEAN /\ todo \in BOOLEAN /\ running \in BOOLEAN
    BY <1>1
  <2>. QED BY <1>3, <2>1, <2>2, <2>3, <2>4 DEF SigTypeOK
<1>6. HandlersIn(stack, mask) /\ FinalsIn(stack, running)
  BY <1>1, <1>3 DEF HandlersIn, FinalsIn
<1>7. Above(stack, mask)
  <2>1. FrameOK(stack, mask, 1)
    BY <1>3 DEF FrameOK
  <2>. QED BY <1>3, <2>1 DEF Above
<1>8. Watched
  BY <1>1 DEF Watched
<1>. QED BY <1>3, <1>5, <1>6, <1>7, <1>8 DEF CallbackInv, StackOK

\* The output channel is opened empty.
LEMMA InitOutput ==
  ASSUME ChannelsInit
  PROVE  OutputInv
<1>1. out = [buf |-> <<>>, offset |-> 0, file |-> <<>>, n |-> 0]
  BY DEF ChannelsInit
<1>2. Top.k = "main"
  BY DEF ChannelsInit, SignalsInit, Top, Last
<1>3. <<>> \o <<>> = [j \in 1 .. 0 |-> j]
  OBVIOUS
<1>4. /\ out.buf = <<>> /\ out.file = <<>> /\ out.n = 0 /\ out.offset = 0
      /\ Len(<<>>) = 0 /\ 0 + 0 = 0 /\ <<>> \in Seq(Nat)
  BY <1>1
<1>5. OutputInOrder
  BY <1>3, <1>4, ChannelsAssumption DEF OutputInOrder
<1>6. out \in OutType
  BY <1>1, <1>4 DEF OutType
<1>. QED BY <1>2, <1>5, <1>6 DEF OutputInv, OutOK, PutchOK

\* The input channel is opened empty.
LEMMA InitInput ==
  ASSUME ChannelsInit
  PROVE  InputInv
<1>1. inp = [win |-> <<>>, curr |-> 0, offset |-> 0, next |-> 0]
  BY DEF ChannelsInit
<1>2. /\ <<>> \in Seq(Nat) /\ Len(<<>>) = 0 /\ 0 - (0 - 0) = 0
      /\ 0 <= 0 /\ 0 <= BufSize /\ 0 <= InSize /\ 1 .. 0 = {}
  BY ChannelsAssumption
<1>3. Window(<<>>, 0, 0, 0)
  BY <1>2 DEF Window
<1>4. InpOK
  BY <1>1, <1>2, <1>3 DEF InpOK, InpType
<1>5. stack[1].k = "main" /\ Len(stack) = 1
  BY DEF ChannelsInit, SignalsInit
<1>6. NoRefill(stack)
  <2>1. \A n \in 1 .. Len(stack) : n = 1
    BY <1>5
  <2>. QED BY <1>5, <2>1 DEF NoRefill
<1>. QED BY <1>4, <1>6, AloneNone DEF InputInv

\* A step of the program that does nothing to this state.
LEMMA Stutters ==
  ASSUME UNCHANGED vars
  PROVE  /\ CallbackInv => CallbackInv'
         /\ OutputInv => OutputInv'
         /\ InputInv => InputInv'
<1>1. /\ stack' = stack /\ pending' = pending /\ sap' = sap /\ todo' = todo
      /\ mask' = mask /\ to_do' = to_do /\ running' = running /\ left' = left
      /\ out' = out /\ inp' = inp
  BY DEF vars
<1>2. CallbackInv => CallbackInv'
  BY <1>1 DEF CallbackInv, SigTypeOK, Watched
<1>3. OutputInv => OutputInv'
  BY <1>1 DEF OutputInv, OutOK, OutputInOrder, PutchOK, Top
<1>4. ASSUME InputInv PROVE InputInv'
  BY <1>1, <1>4, InputSame DEF InputInv
<1>. QED BY <1>2, <1>3, <1>4

\* The types, the order of the frames and the watch on the finalising set hold
\* in every state, and so do the order of the output and the room for caml_putch.
THEOREM RuntimeCorrect == ChannelsSpec => [](CallbackInv /\ OutputInv)
<1>1. CallbackInv /\ OutputInv /\ [ChannelsNext]_vars => CallbackInv' /\ OutputInv'
  <2>. SUFFICES ASSUME CallbackInv, OutputInv, [ChannelsNext]_vars
                PROVE  CallbackInv' /\ OutputInv'
    OBVIOUS
  <2>1. CASE UNCHANGED vars
    BY <2>1, Stutters
  <2>2. CASE ChannelsNext
    <3>1. Len(out.buf) \in Nat
      BY OutCounts DEF OutputInv
    <3>2. CallbackInv'
      BY <2>2, <3>1, SignalsStepKeeps, ChannelsKeep DEF ChannelsNext
    <3>. QED BY <2>2, <3>2, OutputKept
  <2>. QED BY <2>1, <2>2
<1>. QED BY <1>1, InitCallback, InitOutput, PTL DEF ChannelsSpec

\* Every variable of the asynchronous part keeps its type.
THEOREM SignalTypes == ChannelsSpec => []SigTypeOK
<1>1. CallbackInv => SigTypeOK
  BY DEF CallbackInv
<1>. QED BY <1>1, RuntimeCorrect, PTL

\* caml_execute_signal_exn and caml_process_pending_signals_exn: no handler
\* interrupts another of the same signal, however the loops are nested.
THEOREM HandlersMasked == ChannelsSpec => []HandlerMasked
<1>1. CallbackInv => HandlerMasked
  <2>. SUFFICES ASSUME CallbackInv, NEW n \in Frames("handler"), NEW p \in Frames("handler"),
                       stack[n].i = stack[p].i, n # p
                PROVE  FALSE
    BY DEF HandlerMasked
  <2>1. HandlersIn(stack, mask)
    BY DEF CallbackInv, StackOK
  <2>2. /\ n \in 1 .. Len(stack) /\ p \in 1 .. Len(stack) /\ Len(stack) \in Nat
        /\ stack[n].k = "handler" /\ stack[p].k = "handler"
    BY Tops DEF Frames
  <2>3. CASE n < p
    BY <2>1, <2>2, <2>3 DEF HandlersIn
  <2>4. CASE p < n
    BY <2>1, <2>2, <2>4 DEF HandlersIn
  <2>. QED BY <2>2, <2>3, <2>4
<1>. QED BY <1>1, RuntimeCorrect, PTL

\* running_finalisation_function: a finalisation function begins in another
\* one only when that one has called Gc.finalise_release.
THEOREM FinalisersOneByOne == ChannelsSpec => []OneFinaliser
<1>1. CallbackInv => OneFinaliser
  <2>. SUFFICES ASSUME CallbackInv, NEW n \in Frames("final"), NEW p \in Frames("final"),
                       stack[n].pc = "on", n < p
                PROVE  FALSE
    BY DEF OneFinaliser
  <2>1. FinalsIn(stack, running)
    BY DEF CallbackInv, StackOK
  <2>2. /\ n \in 1 .. Len(stack) /\ p \in n + 1 .. Len(stack)
        /\ stack[n].k = "final" /\ stack[p].k = "final"
    BY Tops DEF Frames
  <2>. QED BY <2>1, <2>2 DEF FinalsIn
<1>. QED BY <1>1, RuntimeCorrect, PTL

\* While a finalisation function waits, caml_something_to_do is set or an
\* active caml_do_pending_actions_exn will still look.
THEOREM FinalisersFound == ChannelsSpec => []FinalisersNotForgotten
<1>1. CallbackInv => FinalisersNotForgotten
  <2>. SUFFICES ASSUME CallbackInv, NEW m \in DOMAIN to_do, to_do[m] > 0, ~todo
                PROVE  \/ Frames("finals") # {}
                       \/ \E n \in Frames("actions") : stack[n].pc # "done"
    BY DEF FinalisersNotForgotten
  <2>1. to_do # <<>>
    OBVIOUS
  <2>2. PICK n \in 1 .. Len(stack) : \/ stack[n].k = "finals"
                                     \/ stack[n].k = "actions" /\ stack[n].pc # "done"
    BY <2>1 DEF CallbackInv, Watched, WillLook
  <2>3. n \in DOMAIN stack
    BY <2>2, Tops
  <2>. QED BY <2>2, <2>3 DEF Frames
<1>. QED BY <1>1, RuntimeCorrect, PTL

\* Nothing that was written is lost, repeated or reordered, for every buffer
\* size and request, whatever runs in check_pending or fails.
THEOREM OutputCorrect == ChannelsSpec => []OutputInOrder
<1>1. OutputInv => OutputInOrder
  BY DEF OutputInv, OutOK
<1>. QED BY <1>1, RuntimeCorrect, PTL

\* Every byte that is read is the next one of the file, for a program whose
\* callbacks leave alone a channel that is being refilled.
THEOREM InputCorrect ==
  ASSUME ~InputInRefill
  PROVE  ChannelsSpec => []InputInOrder
<1>1. CallbackInv /\ OutputInv /\ InputInv /\ [ChannelsNext]_vars => InputInv'
  <2>. SUFFICES ASSUME CallbackInv, OutputInv, InputInv, [ChannelsNext]_vars
                PROVE  InputInv'
    OBVIOUS
  <2>1. CASE UNCHANGED vars
    BY <2>1, Stutters
  <2>2. CASE ChannelsNext
    <3>1. Len(out.buf) \in Nat
      BY OutCounts DEF OutputInv
    <3>. QED BY <2>2, <3>1, InputKept
  <2>. QED BY <2>1, <2>2
<1>2. InputInv => InputInOrder
  BY InpInOrder DEF InputInv
<1>. QED BY <1>1, <1>2, InitInput, RuntimeCorrect, PTL DEF ChannelsSpec
=============================================================================
