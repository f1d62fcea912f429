------------------------------ MODULE Signals ------------------------------
(***************************************************************************)
(* Asynchronous callbacks in the OCaml runtime (src/ocaml/runtime/signals.c *)
(* and the finalising set of finalise.c): signals are recorded at any time, *)
(* handlers and finalisation functions run when the program polls, they     *)
(* are OCaml code themselves that polls, allocates and raises, and the      *)
(* functions here are entered again while they run.                         *)
(*   stack     what is active, outermost first; the last frame executes     *)
(*   pending   caml_pending_signals       sap      signals_are_pending      *)
(*   todo      caml_something_to_do       mask     the process signal mask  *)
(*   to_do     the chunks from to_do_hd to to_do_tl, as their sizes         *)
(*   running   running_finalisation_function                                *)
(*   left      the signals and finalisation functions still to come         *)
(* A frame of kind k has a position pc, a number i and a saved signal mask. *)
(***************************************************************************)
EXTENDS Naturals, Sequences, FiniteSets, SequencesExt

CONSTANTS Sigs,          \* signal numbers
          MaxSignals,    \* bound on the signals delivered
          MaxFinal,      \* bound on the finalisation functions found
          MaxDepth       \* bound on the frames of OCaml code in the stack

VARIABLES stack, pending, sap, todo, mask, to_do, running, left
sigvars == <<stack, pending, sap, todo, mask, to_do, running, left>>

ASSUME SignalsAssumption ==
  Sigs \subseteq Nat /\ MaxSignals \in Nat /\ MaxFinal \in Nat /\ MaxDepth \in Nat

OCaml == {"main", "handler", "final"}
InRuntime == {"actions", "signals", "finals", "enter"}
InChannels == {"output", "putch", "flush", "input", "refill", "scan"}
Places == {"on", "released", "gc", "signals", "finals", "done", "next", "run",
           "check", "hook", "blocked"}
ActiveFrame == [k : OCaml \union InRuntime \union InChannels, pc : Places, i : Nat,
                saved : SUBSET Sigs]
Frame(k, pc, i) == [k |-> k, pc |-> pc, i |-> i, saved |-> mask]
Top == Last(stack)
InOCaml == Top.k \in OCaml
Depth == Cardinality({n \in DOMAIN stack : stack[n].k \in OCaml})
Goto(pc) == [stack EXCEPT ![Len(stack)].pc = pc]
At(k, pc) == Top.k = k /\ Top.pc = pc
Frames(k) == {n \in DOMAIN stack : stack[n].k = k}

SignalsInit ==
  /\ stack = <<[k |-> "main", pc |-> "on", i |-> 0, saved |-> {}]>>
  /\ pending = {} /\ sap = FALSE /\ todo = FALSE /\ mask = {}
  /\ to_do = <<>> /\ running = FALSE
  /\ left = [signals |-> MaxSignals, finals |-> MaxFinal]
-----------------------------------------------------------------------------
(* caml_record_signal, in the C signal handler                              *)
caml_record_signal(s) ==
  /\ s \notin mask /\ left.signals > 0
  /\ pending' = pending \union {s} /\ sap' = TRUE /\ todo' = TRUE
  /\ left' = [left EXCEPT !.signals = @ - 1]
  /\ UNCHANGED <<stack, mask, to_do, running>>

(* alloc_to_do, called by the collector with n dead values; the next value  *)
(* of caml_something_to_do is what it would be without it, or true          *)
alloc_to_do(n, otherwise) ==
  /\ n <= left.finals
  /\ left' = [left EXCEPT !.finals = @ - n]
  /\ to_do' = IF n = 0 THEN to_do ELSE Append(to_do, n)
  /\ todo' = (otherwise \/ (n > 0 /\ to_do = <<>> /\ ~running))

(* A slice of the collector in OCaml code that allocates                    *)
GCSlice == /\ InOCaml
           /\ \E n \in 1 .. MaxFinal : alloc_to_do(n, todo)
           /\ UNCHANGED <<stack, pending, sap, mask, running>>

(* caml_process_pending_actions_exn and the first line of                   *)
(* caml_do_pending_actions_exn                                              *)
DoPending(s) == todo' = FALSE /\ stack' = Append(s, Frame("actions", "gc", 0))
Poll == /\ InOCaml /\ todo /\ Depth < MaxDepth
        /\ DoPending(stack)
        /\ UNCHANGED <<pending, sap, mask, to_do, running, left>>

(* caml_do_pending_actions_exn: the collector, then the signals, then the   *)
(* finalisation functions                                                   *)
ActionsGC == /\ At("actions", "gc")
             /\ \E n \in 0 .. MaxFinal : alloc_to_do(n, todo)
             /\ stack' = Goto("signals")
             /\ UNCHANGED <<pending, sap, mask, running>>

(* caml_process_pending_signals_exn, up to its loop                         *)
ProcessSignals(next) ==
  /\ sap' = FALSE
  /\ stack' = IF sap /\ pending # {} THEN Append(Goto(next), Frame("signals", "next", 0))
              ELSE Goto(next)
  /\ UNCHANGED <<pending, todo, mask, to_do, running, left>>
ActionsSignals == At("actions", "signals") /\ ProcessSignals("finals")

(* The loop without the test for masked signals *)
Deliverable_any(f) == {s \in pending : s >= f.i}
(* Its next signal: pending, and not masked when the loop was entered       *)
Deliverable(f) == {s \in pending \ f.saved : s >= f.i}
SignalsNext ==
  /\ At("signals", "next")
  /\ \/ /\ Deliverable(Top) = {}
        /\ stack' = Front(stack) /\ UNCHANGED pending
     \/ \E s \in Deliverable(Top) :
          /\ \A r \in Deliverable(Top) : s <= r
          /\ pending' = pending \ {s}
          /\ stack' = [stack EXCEPT ![Len(stack)].pc = "run", ![Len(stack)].i = s]
  /\ UNCHANGED <<sap, todo, mask, to_do, running, left>>

(* caml_execute_signal_exn: the signal is masked while its handler runs.    *)
SignalsRun ==
  /\ At("signals", "run")
  /\ mask' = mask \union {Top.i}
  /\ stack' = Append([stack EXCEPT ![Len(stack)].pc = "next",
                                   ![Len(stack)].i = @ + 1],
                     Frame("handler", "on", Top.i))
  /\ UNCHANGED <<pending, sap, todo, to_do, running, left>>

(* The test at the start of caml_final_do_calls_exn                         *)
CanFinalise == ~running /\ to_do # <<>>

(* caml_final_do_calls_exn, the last call of caml_do_pending_actions_exn    *)
ActionsFinals ==
  /\ At("actions", "finals")
  /\ stack' = IF CanFinalise THEN Append(Goto("done"), Frame("finals", "on", 0))
              ELSE Front(stack)
  /\ UNCHANGED <<pending, sap, todo, mask, to_do, running, left>>

(* Its loop: empty chunks go, the last function of the first chunk runs.    *)
FinalsNext ==
  /\ Top.k = "finals"
  /\ IF to_do = <<>>
       THEN stack' = Front(Front(stack)) /\ UNCHANGED <<to_do, running>>
     ELSE IF Head(to_do) = 0
       THEN to_do' = Tail(to_do) /\ UNCHANGED <<stack, running>>
     ELSE /\ to_do' = [to_do EXCEPT ![1] = @ - 1]
          /\ running' = TRUE
          /\ stack' = Append(stack, Frame("final", "on", 0))
  /\ UNCHANGED <<pending, sap, todo, mask, left>>

(* caml_final_release, called by OCaml code                                 *)
caml_final_release ==
  /\ Top.k = "final" /\ Top.pc = "on"
  /\ running' = FALSE /\ todo' = (todo \/ to_do # <<>>)
  /\ stack' = Goto("released")
  /\ UNCHANGED <<pending, sap, mask, to_do, left>>

(* What ends with a frame of OCaml code                                     *)
Leave(f) == /\ mask' = IF f.k = "handler" THEN f.saved ELSE mask
            /\ running' = IF f.k = "final" THEN FALSE ELSE running
Return == /\ Top.k \in {"handler", "final"}
          /\ Leave(Top) /\ stack' = Front(stack)
          /\ UNCHANGED <<pending, sap, todo, to_do, left>>

(* Exceptions that leave caml_something_to_do as it is *)
Raised_quiet(n) == todo
(* caml_do_pending_actions_exn, its label exception: when an exception      *)
(* leaves the frames above n, it sets caml_something_to_do again.           *)
Raised(n) == todo \/ \E j \in n + 1 .. Len(stack) : stack[j].k = "actions"

(* An exception goes to the OCaml code that was interrupted, or that called *)
(* the failing function, and is caught there or raised again; p: the        *)
(* failing function has just left a blocking section with signals pending.  *)
Raise(p) ==
  \E n \in 1 .. Len(stack) - 1 :
    /\ stack[n].k \in OCaml
    /\ \A j \in n + 1 .. Len(stack) - 1 : stack[j].k \notin OCaml
    /\ Leave(Top)
    /\ stack' = SubSeq(stack, 1, n)
    /\ sap' = (sap \/ p) /\ todo' = (Raised(n) \/ p)
    /\ UNCHANGED <<pending, to_do, left>>
HandlerRaises == Top.k \in {"handler", "final"} /\ Raise(FALSE)

(* caml_enter_blocking_section, around a system call of the program         *)
EnterBlocking == /\ InOCaml /\ Depth < MaxDepth
                 /\ stack' = Append(stack, Frame("enter", "check", 0))
                 /\ UNCHANGED <<pending, sap, todo, mask, to_do, running, left>>
EnterCheck == At("enter", "check") /\ ProcessSignals("hook")
EnterHook == /\ At("enter", "hook")
             /\ stack' = Goto(IF sap THEN "check" ELSE "blocked")
             /\ UNCHANGED <<pending, sap, todo, mask, to_do, running, left>>

(* The end of a blocking section that trusts signals_are_pending *)
Left_trusting == sap' = sap /\ todo' = (todo \/ sap)
(* caml_leave_blocking_section examines caml_pending_signals itself.        *)
Left == /\ sap' = (sap \/ pending # {})
        /\ todo' = (todo \/ pending # {})
LeaveBlocking == /\ At("enter", "blocked") /\ Left
                 /\ stack' = Front(stack)
                 /\ UNCHANGED <<pending, mask, to_do, running, left>>

(* What the runtime does once it has begun, and what OCaml code may do      *)
Runtime == \/ ActionsGC \/ ActionsSignals \/ SignalsNext \/ SignalsRun
           \/ ActionsFinals \/ FinalsNext
           \/ EnterCheck \/ EnterHook \/ LeaveBlocking
Program == \/ GCSlice \/ EnterBlocking \/ caml_final_release
           \/ Return \/ HandlerRaises
SignalsStep == Runtime \/ Poll \/ Program \/ \E s \in Sigs : caml_record_signal(s)
-----------------------------------------------------------------------------
(* The type invariant of the asynchronous state.                            *)
SigTypeOK ==
  /\ stack \in Seq(ActiveFrame) /\ stack # <<>> /\ stack[1].k = "main"
  /\ pending \subseteq Sigs /\ mask \subseteq Sigs
  /\ sap \in BOOLEAN /\ todo \in BOOLEAN /\ running \in BOOLEAN
  /\ to_do \in Seq(0 .. MaxFinal)
  /\ left \in [signals : 0 .. MaxSignals, finals : 0 .. MaxFinal]

(* While a finalisation function waits, a poll will find it: either         *)
(* caml_something_to_do is set or an active caml_do_pending_actions_exn has *)
(* yet to look, although alloc_to_do sets the flag only for the first chunk *)
(* and any callback may raise ("we set [caml_something_to_do] again").      *)
FinalisersNotForgotten ==
  (\E n \in DOMAIN to_do : to_do[n] > 0) =>
    \/ todo \/ Frames("finals") # {}
    \/ \E n \in Frames("actions") : stack[n].pc # "done"

(* A handler never interrupts itself: caml_execute_signal_exn masks its     *)
(* signal and the loops that are entered meanwhile skip what is masked.     *)
HandlerMasked ==
  \A n, p \in Frames("handler") : stack[n].i = stack[p].i => n = p

(* A finalisation function starts inside another one only after that one    *)
(* has called Gc.finalise_release.                                          *)
OneFinaliser ==
  \A n, p \in Frames("final") : stack[n].pc = "on" /\ n < p => FALSE
=============================================================================
