------------------------------ MODULE Channels ------------------------------
(***************************************************************************)
(* The buffered channels of src/ocaml/runtime/io.c, used by a program whose *)
(* signal handlers and finalisation functions use them too: every operation *)
(* calls check_pending, which runs them in the middle of it, and every read *)
(* or write is a blocking section that a signal interrupts.                 *)
(*   out   the output channel: its buffer (buff to curr), its offset, what  *)
(*         is in the file, and how many bytes it has accepted               *)
(*   inp   the input channel: win is the buffer (buff to max), curr how     *)
(*         much of it is consumed, offset the position of the descriptor,   *)
(*         next the position of the byte the program expects                *)
(* The bytes of the output are numbered as they are accepted; those of the  *)
(* input are their positions in the file, which run from 0 to InSize - 1.   *)
(***************************************************************************)
EXTENDS Signals

CONSTANTS BufSize,       \* IO_BUFFER_SIZE
          MaxOut,        \* bound on the bytes written by the program
          Writes,        \* the lengths it writes at once
          InSize,        \* the bytes of the input file
          Reads,         \* the lengths the program asks for at once
          Newlines,      \* the positions of its newlines
          InputInRefill  \* may a callback read the channel being refilled?

VARIABLES out, inp
chvars == <<out, inp>>
vars == <<stack, pending, sap, todo, mask, to_do, running, left, out, inp>>

ASSUME ChannelsAssumption ==
  /\ BufSize \in Nat \ {0} /\ MaxOut \in Nat /\ InSize \in Nat
  /\ Writes \subseteq Nat \ {0} /\ Reads \subseteq Nat \ {0}
  /\ Newlines \subseteq 0 .. InSize - 1 /\ InputInRefill \in BOOLEAN

(* caml_open_descriptor_in, caml_open_descriptor_out                        *)
ChannelsInit == /\ SignalsInit
                /\ out = [buf |-> <<>>, offset |-> 0, file |-> <<>>, n |-> 0]
                /\ inp = [win |-> <<>>, curr |-> 0, offset |-> 0, next |-> 0]

CanCall == InOCaml /\ Depth < MaxDepth
Finish == stack' = Front(stack)
Same == UNCHANGED <<pending, sap, todo, mask, to_do, running, left>>
InCallback == UNCHANGED <<pending, mask, to_do, running, left>>

(* check_pending, where flag is caml_something_to_do; the stack is then s   *)
check_pending(s, flag) == IF flag THEN DoPending(s) ELSE stack' = s /\ todo' = FALSE

(* An operation that begins with check_pending                              *)
Call(k, i) == /\ check_pending(Append(stack, Frame(k, "on", i)), todo)
              /\ UNCHANGED sap /\ InCallback

(* caml_read_fd, caml_write_fd: a blocking section around the system call,  *)
(* which a signal that is not masked may interrupt (EINTR): the caller goes *)
(* back to its check_pending.                                               *)
Again(s) == sap' = (sap \/ pending # {}) /\ check_pending(s, todo \/ pending # {})
Interrupted(k) == /\ Top.k = k /\ pending \ mask # {}
                  /\ Again(stack)
                  /\ InCallback /\ UNCHANGED out
-----------------------------------------------------------------------------
Accept(o, k) == [o EXCEPT !.buf = @ \o [j \in 1 .. k |-> o.n + j], !.n = @ + k]

(* caml_ml_output_bytes                                                     *)
caml_ml_output == /\ CanCall
                  /\ \E l \in Writes : /\ out.n + l <= MaxOut
                                       /\ stack' = Append(stack, Frame("output", "on", l))
                  /\ Same /\ UNCHANGED chvars

(* caml_putblock, for the rest of the request, until nothing is left        *)
caml_putblock ==
  LET free == BufSize - Len(out.buf)
      rest == [stack EXCEPT ![Len(stack)].i = @ - free]
  IN /\ Top.k = "output" /\ UNCHANGED inp
     /\ IF Top.i < free
          THEN out' = Accept(out, Top.i) /\ Finish /\ Same
          ELSE /\ out' = Accept(out, free)
               /\ check_pending(Append(rest, Frame("flush", "on", 0)), todo)
               /\ UNCHANGED sap /\ InCallback

(* caml_ml_output_char, caml_putch                                          *)
caml_ml_output_char ==
  /\ CanCall /\ out.n < MaxOut /\ UNCHANGED chvars
  /\ LET s == Append(stack, Frame("putch", "on", 0))
     IN IF Len(out.buf) >= BufSize
          THEN /\ check_pending(Append(s, Frame("flush", "on", 0)), todo)
               /\ UNCHANGED sap /\ InCallback
          ELSE stack' = s /\ Same
caml_putch == /\ Top.k = "putch" /\ out' = Accept(out, 1) /\ Finish
              /\ Same /\ UNCHANGED inp

(* caml_ml_flush; i = 1 when caml_flush calls again until nothing is left.  *)
caml_ml_flush == CanCall /\ Call("flush", 1) /\ UNCHANGED chvars

(* caml_flush_partial that leaves the rest where it is in the buffer *)
flushed_late(o, w) == [o EXCEPT !.file = @ \o SubSeq(o.buf, 1, w),
                                !.buf = SubSeq(@, 1, Len(@) - w), !.offset = @ + w]
flushed(o, w) == [o EXCEPT !.file = @ \o SubSeq(o.buf, 1, w),
                           !.buf = SubSeq(@, w + 1, Len(@)), !.offset = @ + w]

(* caml_flush_partial                                                       *)
FlushInterrupted == out.buf # <<>> /\ Interrupted("flush") /\ UNCHANGED inp
FlushWrite ==
  /\ Top.k = "flush" /\ UNCHANGED inp
  /\ IF out.buf = <<>> THEN Finish /\ Same /\ UNCHANGED out
     ELSE \E w \in 1 .. Len(out.buf) :
            /\ out' = flushed(out, w)
            /\ IF Top.i = 1 /\ w < Len(out.buf) THEN Again(stack) ELSE Finish /\ Left
            /\ InCallback
-----------------------------------------------------------------------------
Avail == Len(inp.win) - inp.curr
AtEnd == inp.offset = InSize
Refilling == Frames("refill") # {}
CanInput == CanCall /\ (Refilling => InputInRefill)
Bytes(k) == [j \in 1 .. k |-> inp.offset + j - 1]
Consume(n, k) == [n EXCEPT !.curr = @ + k, !.next = @ + k]

(* A system call that fills the empty buffer with k bytes                   *)
Filled(k) == [inp EXCEPT !.win = Bytes(k), !.curr = 0, !.offset = @ + k]
Available(room) == 1 .. Min({room, InSize - inp.offset})

(* caml_ml_input: what is in the buffer, or what one read brings            *)
caml_ml_input == /\ CanInput /\ \E n \in Reads : Call("input", n)
                 /\ UNCHANGED chvars
InputInterrupted == Avail = 0 /\ Interrupted("input") /\ UNCHANGED inp
Input ==
  /\ Top.k = "input" /\ UNCHANGED out /\ Finish
  /\ IF Avail > 0
       THEN inp' = Consume(inp, Min({Top.i, Avail})) /\ Same
       ELSE /\ \E k \in IF AtEnd THEN {0} ELSE Available(BufSize) :
                 inp' = Consume(Filled(k), Min({Top.i, k}))
            /\ Left /\ InCallback

(* caml_ml_input_char, caml_getch, caml_refill                              *)
caml_getch ==
  /\ CanInput /\ UNCHANGED out
  /\ IF Avail > 0 THEN inp' = Consume(inp, 1) /\ UNCHANGED stack /\ Same
     ELSE Call("refill", 0) /\ UNCHANGED inp
RefillInterrupted == Interrupted("refill") /\ UNCHANGED inp
Refill ==
  /\ Top.k = "refill" /\ ~AtEnd /\ UNCHANGED out
  /\ \E k \in Available(BufSize) : inp' = Consume(Filled(k), 1)
  /\ Finish /\ Left /\ InCallback

(* caml_input_scan_line: reads until the buffer holds a newline, is full or *)
(* the file ends; the unread bytes move to the front of the buffer.         *)
Unread == SubSeq(inp.win, inp.curr + 1, Len(inp.win))
Scanned == Range(Unread) \cap Newlines # {} \/ Len(Unread) = BufSize
caml_ml_input_scan_line == CanInput /\ Call("scan", 0) /\ UNCHANGED chvars
Shifted == [inp EXCEPT !.win = Unread, !.curr = 0]
ScanInterrupted == ~Scanned /\ Interrupted("scan") /\ inp' = Shifted

(* The read that forgets to move max *)
scan_read_short(k) == [inp EXCEPT !.win = Unread, !.curr = 0, !.offset = @ + k]
scan_read(k) == [inp EXCEPT !.win = Unread \o Bytes(k), !.curr = 0, !.offset = @ + k]
Scan == /\ Top.k = "scan" /\ UNCHANGED out
        /\ IF Scanned THEN Finish /\ Same /\ UNCHANGED inp
           ELSE IF AtEnd
             THEN /\ inp' = Shifted
                  /\ Finish /\ Left /\ InCallback
             ELSE /\ \E k \in Available(BufSize - Len(Unread)) : inp' = scan_read(k)
                  /\ UNCHANGED stack /\ Left /\ InCallback

(* caml_seek_in: within the buffer, or with lseek, which may fail           *)
caml_seek_in ==
  /\ CanInput
  /\ \E dest \in 0 .. InSize :
       IF dest >= inp.offset - Len(inp.win) /\ dest <= inp.offset
         THEN /\ inp' = [inp EXCEPT !.curr = Len(inp.win) - (inp.offset - dest),
                                    !.next = dest]
              /\ UNCHANGED <<sap, todo>>
         ELSE /\ \/ inp' = [win |-> <<>>, curr |-> 0, offset |-> dest, next |-> dest]
                 \/ UNCHANGED inp
              /\ Left
  /\ UNCHANGED <<stack, out>> /\ InCallback

(* A system call fails (Sys_error), or there is nothing to refill from      *)
(* (End_of_file): the exception leaves the channel as it is.                *)
Fails == /\ \/ Top.k = "flush" /\ out.buf # <<>> /\ UNCHANGED inp
            \/ Top.k = "input" /\ Avail = 0 /\ UNCHANGED inp
            \/ Top.k = "refill" /\ UNCHANGED inp
            \/ Top.k = "scan" /\ ~Scanned /\ inp' = Shifted
         /\ UNCHANGED out
         /\ Raise(pending # {})
-----------------------------------------------------------------------------
Transfer == \/ caml_putblock \/ caml_putch \/ FlushWrite \/ Input \/ Refill \/ Scan
Interrupt == FlushInterrupted \/ InputInterrupted \/ RefillInterrupted \/ ScanInterrupted
Calls == \/ caml_ml_output \/ caml_ml_output_char \/ caml_ml_flush
         \/ caml_ml_input \/ caml_getch \/ caml_ml_input_scan_line \/ caml_seek_in
ChannelsNext == \/ SignalsStep /\ UNCHANGED chvars
                \/ Transfer \/ Interrupt \/ Calls \/ Fails

(* What is under way goes on, callbacks end in the end, and the program     *)
(* keeps polling.  Nothing makes it enter a blocking section.               *)
ChannelsSpec ==
  /\ ChannelsInit /\ [][ChannelsNext]_vars
  /\ WF_vars((Runtime /\ UNCHANGED chvars) \/ Transfer \/ Fails)
  /\ SF_vars((Return \/ HandlerRaises) /\ UNCHANGED chvars)
  /\ SF_vars(Poll /\ UNCHANGED chvars)
-----------------------------------------------------------------------------
(* Nothing the program wrote is lost, repeated or reordered, whatever ran   *)
(* in check_pending, however short the writes and whichever failed: the     *)
(* file and the buffer hold the bytes in the order they were accepted,      *)
(* caml_pos_out is right and the buffer never overflows.                    *)
OutputInOrder ==
  /\ out.file \o out.buf = [j \in 1 .. out.n |-> j]
  /\ out.offset + Len(out.buf) = out.n
  /\ Len(out.buf) <= BufSize

(* Every byte the program reads is the next one of the file, or the one at  *)
(* the position it last sought: the buffer is the part of the file before   *)
(* the descriptor's offset and caml_pos_in is where the program is.         *)
InputInOrder ==
  /\ \A j \in DOMAIN inp.win : inp.win[j] = inp.offset - Len(inp.win) + j - 1
  /\ Len(inp.win) <= BufSize /\ inp.curr \in 0 .. Len(inp.win)
  /\ inp.offset - Avail = inp.next

(* A recorded signal is handled in the end by a program that keeps coming   *)
(* back from blocking sections: caml_leave_blocking_section looks for what  *)
(* is recorded.  A poll alone does not: a handler that raises leaves the    *)
(* other signals with signals_are_pending off, and the "reexamination of    *)
(* callbacks" that signals.c forces then passes them by.                    *)
SignalsServed ==
  []<><<LeaveBlocking /\ UNCHANGED chvars>>_vars
    => \A s \in Sigs : s \in pending ~> s \notin pending
=============================================================================
