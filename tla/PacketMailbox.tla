---------------------------- MODULE PacketMailbox ----------------------------
(***************************************************************************)
(* What the receive path promises to the TCP stack: a conflating mailbox.  *)
(* Each announced datagram causes exactly one delivery, in order, but the  *)
(* delivery is put together from whatever was received between the         *)
(* announcement and the delivery.  Datagrams can be lost and repeated;     *)
(* they are never held back past a newer one.                              *)
(***************************************************************************)
EXTENDS Naturals, Sequences

CONSTANT Cells                 \* pieces the receive buffer is copied in

VARIABLES
  wire,       \* lengths of the datagrams that arrived
  taken,      \* how many were taken out of the socket
  posted,     \* the announced ones
  delivered   \* what was handed over

vars == <<wire, taken, posted, delivered>>

Init == wire = <<>> /\ taken = 0 /\ posted = <<>> /\ delivered = <<>>

Arrive ==
  /\ \E len \in 0 .. Cells + 1 : wire' = Append(wire, len)
  /\ UNCHANGED <<taken, posted, delivered>>

Take ==
  /\ taken < Len(wire) /\ taken' = taken + 1
  /\ UNCHANGED <<wire, posted, delivered>>

\* A datagram that fits is announced once, before the next one is taken.
Announce ==
  /\ taken > 0 /\ wire[taken] <= Cells
  /\ \A k \in 1 .. Len(posted) : posted[k] < taken
  /\ posted' = Append(posted, taken)
  /\ UNCHANGED <<wire, taken, delivered>>

\* The k-th delivery may mix what was taken since the k-th announcement.  Its
\* length is that of an announced datagram, and nothing in it is older than
\* what the previous delivery held.
Deliverable(k, d) ==
  /\ d.size \in posted[k] .. taken
  /\ d.dst_hi \in posted[k] .. taken /\ d.dst_lo \in posted[k] .. taken
  /\ \A i \in 1 .. wire[posted[k]] : d.cells[i] >= posted[k]
  /\ \E j \in k .. Len(posted) : d.size = posted[j]
  /\ k > 1 =>
       /\ d.size >= delivered[k - 1].size
       /\ d.dst_hi >= delivered[k - 1].dst_hi /\ d.dst_lo >= delivered[k - 1].dst_lo
       /\ \A i \in 1 .. Cells : d.cells[i] >= delivered[k - 1].cells[i]

Deliver ==
  /\ Len(delivered) < Len(posted)
  /\ \E cells \in [1 .. Cells -> 0 .. taken], size, hi, lo \in 0 .. taken :
       LET d == [cells |-> cells, size |-> size, dst_hi |-> hi, dst_lo |-> lo, seen |-> taken]
       IN  /\ Deliverable(Len(delivered) + 1, d)
           /\ delivered' = Append(delivered, d)
  /\ UNCHANGED <<wire, taken, posted>>

Next == Arrive \/ Take \/ Announce \/ Deliver

Spec == Init /\ [][Next]_vars
=============================================================================
