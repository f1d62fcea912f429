------------------------------- MODULE RiotNet -------------------------------
(***************************************************************************)
(* The receive path of the unikernel: RIOT's raw TCP socket thread, the    *)
(* event queue it posts to, and the main thread that runs OCaml and reads  *)
(* the shared receive buffer back.                                         *)
(*                                                                         *)
(* Two threads share tcpbuf, tcp_hdr_size and tcp_remote with no lock.     *)
(* RIOT schedules by priority: the socket thread has the higher one, so it *)
(* preempts the main thread at any point and then runs until it blocks in  *)
(* sock_ip_recv.  The main thread is never seen between two of its steps.  *)
(*                                                                         *)
(* Datagrams are numbered by arrival.  A shared variable that holds a      *)
(* datagram's bytes, length or sender is modelled by that number (0 is the *)
(* zeroed static storage), which is all the properties tell apart.         *)
(***************************************************************************)
EXTENDS Naturals, Sequences

CONSTANTS
  Cells,       \* TCPBUFSIZ, counted in pieces of a memcpy that can be preempted
  MaxPackets,  \* bound on the datagrams of a behaviour
  MaxWrites,   \* bound on the segments the TCP stack writes
  HeapEvents   \* how many event_t calloc can serve: none is ever freed

ASSUME CellsAssumption == Cells \in Nat \ {0}
ASSUME BoundsAssumption == MaxPackets \in Nat /\ MaxWrites \in Nat /\ HeapEvents \in Nat

NET_EV == "net"                      \* the one bit of event_flags in use

\* A datagram is its length: it may be empty, or longer than the receive buffer.
Packet == 0 .. Cells + 1

VARIABLES
  wire,         \* length of every datagram that reached the socket, in order
  taken,        \* number of the last one sock_ip_recv took out of it
  rx,           \* where the socket thread is
  tcpbuf,       \* datagram each cell of the receive buffer comes from
  tcp_hdr_size, \* datagram whose length it holds
  tcp_remote,   \* datagram whose sender it holds
  QUEUE,        \* number of queued events (all carry net_handler)
  heap,         \* event_t allocations left
  event_flags,  \* set of the bits that are on
  main,         \* where the main thread is
  con,          \* the listener waits on the Lwt condition
  cell,         \* next cell the memcpy of get_payload reads
  payload,      \* the Cstruct that memcpy fills
  size,         \* what riot_get_tp_hdr_size returned
  half,         \* first half of an address that is being read out of tcp_remote
  posted,       \* history: the datagrams an event was posted for
  delivered,    \* history: what the listener handed to TCP.input
  writes        \* history: the segments handed to sock_ip_send

shared == <<tcpbuf, tcp_hdr_size, tcp_remote>>
local  == <<cell, payload, size, half>>
events == <<QUEUE, heap, event_flags>>
history == <<posted, delivered, writes>>
vars == <<wire, taken, rx, shared, events, main, con, local, history>>

Init ==
  /\ wire = <<>> /\ taken = 0
  /\ rx = "off" /\ main = "boot"
  /\ tcpbuf = [i \in 1 .. Cells |-> 0] /\ tcp_hdr_size = 0 /\ tcp_remote = 0
  /\ QUEUE = 0 /\ heap = HeapEvents /\ event_flags = {}
  /\ con = FALSE
  /\ cell = 1 /\ payload = [i \in 1 .. Cells |-> 0] /\ size = 0 /\ half = 0
  /\ posted = <<>> /\ delivered = <<>> /\ writes = <<>>

-----------------------------------------------------------------------------
(* Scheduling.                                                             *)

RxBlocked == rx \in {"off", "exit"} \/ (rx = "recv" /\ taken = Len(wire))

\* A scheduler that lets the main thread run beside a runnable socket thread.
MainRunsAnyTime == rx # "fault"

\* TCP_EVENTLOOP_PRIO is above THREAD_PRIORITY_MAIN: the main thread only runs
\* while the socket thread is blocked (or gone).  A fault stops the board.
MainRuns == RxBlocked

-----------------------------------------------------------------------------
(* The network and the socket thread.                                      *)

\* GNRC queues a datagram on the socket; the socket exists once it is created.
Arrive(p) ==
  /\ rx \in {"recv", "got", "post"}
  /\ Len(wire) < MaxPackets
  /\ wire' = Append(wire, p)
  /\ UNCHANGED <<taken, rx, shared, events, main, con, local, history>>

RxCreate ==
  /\ rx = "create"
  /\ rx' \in {"recv", "exit"}
  /\ UNCHANGED <<wire, taken, shared, events, main, con, local, history>>

\* A thread that spares the buffer while an event is pending, yet still posts.
RxRecvSparing ==
  /\ rx = "recv" /\ taken < Len(wire)
  /\ taken' = taken + 1
  /\ wire[taken'] <= Cells
  /\ tcpbuf' = [i \in 1 .. Cells |->
                  IF i <= wire[taken'] /\ QUEUE = 0 THEN taken' ELSE tcpbuf[i]]
  /\ tcp_remote' = taken'
  /\ rx' = "got"
  /\ UNCHANGED <<wire, tcp_hdr_size, events, main, con, local, history>>

\* A thread that leaves the sender of the last datagram in tcp_remote.
RxRecvNoRemote ==
  /\ rx = "recv" /\ taken < Len(wire)
  /\ taken' = taken + 1
  /\ tcpbuf' = [i \in 1 .. Cells |-> IF i <= wire[taken'] THEN taken' ELSE tcpbuf[i]]
  /\ rx' = IF wire[taken'] <= Cells THEN "got" ELSE rx
  /\ UNCHANGED <<wire, tcp_hdr_size, tcp_remote, events, main, con, local, history>>

\* sock_ip_recv takes a datagram.  One that fits is copied over the start of
\* tcpbuf; a longer one makes it fail, and the loop starts over with no event,
\* though the sender's address may already be in tcp_remote.
RxRecv ==
  /\ rx = "recv" /\ taken < Len(wire)
  /\ taken' = taken + 1
  /\ \/ /\ wire[taken'] <= Cells
        /\ tcpbuf' = [i \in 1 .. Cells |-> IF i <= wire[taken'] THEN taken' ELSE tcpbuf[i]]
        /\ tcp_remote' = taken'
        /\ rx' = "got"
     \/ /\ wire[taken'] > Cells
        /\ tcp_remote' \in {tcp_remote, taken'}
        /\ UNCHANGED <<tcpbuf, rx>>
  /\ UNCHANGED <<wire, tcp_hdr_size, events, main, con, local, history>>

\* A thread that forgets to update the length.
RxKeepSize ==
  /\ rx = "got"
  /\ rx' = "post"
  /\ UNCHANGED <<wire, taken, shared, events, main, con, local, history>>

RxSetSize ==
  /\ rx = "got"
  /\ tcp_hdr_size' = taken
  /\ rx' = "post"
  /\ UNCHANGED <<wire, taken, tcpbuf, tcp_remote, events, main, con, local, history>>

\* A thread that posts without counting the event in the queue.
RxAddNetEventLost ==
  /\ rx = "post" /\ rx' = "recv"
  /\ posted' = Append(posted, taken)
  /\ UNCHANGED <<wire, taken, shared, events, main, con, local, delivered, writes>>

\* add_net_event: calloc an event_t (never freed), then event_post.  When the
\* heap is empty calloc returns NULL and the store to its handler faults.
RxAddNetEvent ==
  /\ rx = "post"
  /\ \/ /\ heap > 0
        /\ heap' = heap - 1
        /\ QUEUE' = QUEUE + 1
        /\ posted' = Append(posted, taken)
        /\ rx' = "recv"
     \/ /\ heap = 0
        /\ rx' = "fault"
        /\ UNCHANGED <<heap, QUEUE, posted>>
  /\ UNCHANGED <<wire, taken, shared, event_flags, main, con, local,
                 delivered, writes>>

RxThread == RxCreate \/ RxRecv \/ RxSetSize \/ RxAddNetEvent

-----------------------------------------------------------------------------
(* The main thread: boot.                                                  *)

MainInitQueue ==
  /\ main = "boot"
  /\ QUEUE' = 0
  /\ main' = "spawn"
  /\ UNCHANGED <<wire, taken, rx, shared, heap, event_flags, con, local, history>>

MainCreateThread ==
  /\ main = "spawn"
  /\ rx' = "create"
  /\ main' = "connect"
  /\ UNCHANGED <<wire, taken, shared, events, con, local, history>>

\* IP.connect asks the interface for its addresses; none is a failwith.
MainConnect ==
  /\ main = "connect"
  /\ main' \in {"listen", "exit"}
  /\ UNCHANGED <<wire, taken, rx, shared, events, con, local, history>>

\* Http_server.create runs IP.listen up to its first Lwt_condition.wait.
MainListen ==
  /\ main = "listen"
  /\ con' = TRUE
  /\ main' = "loop"
  /\ UNCHANGED <<wire, taken, rx, shared, events, local, history>>

-----------------------------------------------------------------------------
(* The main thread: the event loop.                                        *)

\* The part of Event_loop.run before the wait: timers, Lwt.poll, hooks.
LoopTop ==
  /\ main = "loop"
  /\ main' = "wait"
  /\ UNCHANGED <<wire, taken, rx, shared, events, con, local, history>>

\* A loop that takes a timeout (NULL) for an event.
TakeEventBlind ==
  /\ main = "wait"
  /\ QUEUE' = QUEUE - 1
  /\ main' = "handler"
  /\ UNCHANGED <<wire, taken, rx, shared, heap, event_flags, con, local, history>>

\* event_wait_timeout64 hands out a queued event before it looks at the timer.
TakeEvent ==
  /\ main = "wait" /\ QUEUE > 0
  /\ QUEUE' = QUEUE - 1
  /\ main' = "handler"
  /\ UNCHANGED <<wire, taken, rx, shared, heap, event_flags, con, local, history>>

WaitTimeout ==
  /\ main = "wait" /\ QUEUE = 0
  /\ main' = "loop"
  /\ UNCHANGED <<wire, taken, rx, shared, events, con, local, history>>

NetHandler ==
  /\ main = "handler"
  /\ event_flags' = event_flags \cup {NET_EV}
  /\ main' = "flags"
  /\ UNCHANGED <<wire, taken, rx, shared, QUEUE, heap, con, local, history>>

\* The stub returning the flags without clearing them.
TakeFlagsKept ==
  /\ main = "flags"
  /\ main' = IF NET_EV \in event_flags THEN "resolve" ELSE "loop"
  /\ UNCHANGED <<wire, taken, rx, shared, events, con, local, history>>

TakeFlags ==
  /\ main = "flags"
  /\ event_flags' = {}
  /\ main' = IF NET_EV \in event_flags THEN "resolve" ELSE "loop"
  /\ UNCHANGED <<wire, taken, rx, shared, QUEUE, heap, con, local, history>>

\* Riot_ip.resolve copies tcpbuf into a Cstruct nobody reads, then signals the
\* condition.  A waiting listener runs at once; without one the signal is lost.
Resolve ==
  /\ main = "resolve"
  /\ con' = FALSE
  /\ main' = IF con THEN "payload" ELSE "loop"
  /\ cell' = 1
  /\ payload' = [i \in 1 .. Cells |-> 0]
  /\ UNCHANGED <<wire, taken, rx, shared, events, size, half, history>>

\* get_payload copies the whole buffer; the socket thread may run in between.
CopyCell ==
  /\ main = "payload" /\ cell <= Cells
  /\ payload' = [payload EXCEPT ![cell] = tcpbuf[cell]]
  /\ cell' = cell + 1
  /\ main' = IF cell = Cells THEN "size" ELSE "payload"
  /\ UNCHANGED <<wire, taken, rx, shared, events, con, size, half, history>>

ReadSize ==
  /\ main = "size"
  /\ size' = tcp_hdr_size
  /\ main' = "ips"
  /\ UNCHANGED <<wire, taken, rx, shared, events, con, cell, payload, half, history>>

\* get_pkt_ips copies the sender's address, and the socket thread may run while
\* it does: the address is read in two halves.
ReadRemote ==
  /\ main = "ips"
  /\ half' = tcp_remote
  /\ main' = "ips_low"
  /\ UNCHANGED <<wire, taken, rx, shared, events, con, cell, payload, size, history>>

\* Its other half, then TCP.input on what was read; seen dates the delivery.
TcpInput ==
  /\ main = "ips_low"
  /\ delivered' = Append(delivered, [cells |-> payload, size |-> size, dst_hi |-> half,
                                     dst_lo |-> tcp_remote, seen |-> taken])
  /\ main' = "tcp"
  /\ UNCHANGED <<wire, taken, rx, shared, events, con, local, posted, writes>>

\* TCP.input, or one of the stack's timers, writes a segment: riot_write sends
\* it to tcp_remote, whatever address the stack asked for.  sock_ip_send copies
\* that address, in two halves again.
Write ==
  /\ main \in {"loop", "tcp"} /\ delivered # <<>>
  /\ Len(writes) < MaxWrites
  /\ half' = tcp_remote
  /\ main' = IF main = "loop" THEN "loop_send" ELSE "tcp_send"
  /\ UNCHANGED <<wire, taken, rx, shared, events, con, cell, payload, size, history>>

WriteSent ==
  /\ main \in {"loop_send", "tcp_send"}
  /\ writes' = Append(writes, [to_hi |-> half, to_lo |-> tcp_remote,
                               after |-> Len(delivered), seen |-> taken])
  /\ main' = IF main = "loop_send" THEN "loop" ELSE "tcp"
  /\ UNCHANGED <<wire, taken, rx, shared, events, con, local, posted, delivered>>

\* A listener that handles one packet and does not wait again.
TcpDoneOnce ==
  /\ main = "tcp" /\ main' = "loop"
  /\ UNCHANGED <<wire, taken, rx, shared, events, con, local, history>>

\* The callback returns or blocks on a promise; aux () waits again.
TcpDone ==
  /\ main = "tcp"
  /\ con' = TRUE
  /\ main' = "loop"
  /\ UNCHANGED <<wire, taken, rx, shared, events, local, history>>

Boot == MainInitQueue \/ MainCreateThread \/ MainConnect \/ MainListen
Dispatch == NetHandler \/ TakeFlags \/ Resolve \/ CopyCell \/ ReadSize \/ ReadRemote
            \/ TcpInput \/ TcpDone
MainThread == MainRuns /\ (Boot \/ LoopTop \/ TakeEvent \/ WaitTimeout \/ Dispatch \/ WriteSent)
MainWrites == MainRuns /\ Write

Next ==
  \/ \E p \in Packet : Arrive(p)
  \/ RxThread
  \/ MainThread
  \/ MainWrites

\* Both threads run when the scheduler lets them; nobody owes us a datagram,
\* and the TCP stack need not write.
Spec == Init /\ [][Next]_vars /\ WF_vars(RxThread) /\ WF_vars(MainThread)

-----------------------------------------------------------------------------
(* Properties.                                                             *)

Fetched == 0 .. taken                    \* nothing, or a datagram taken so far

\* What TCP.input is called with, and the moment it is.
Delivery == [cells : [1 .. Cells -> Fetched], size : Fetched,
             dst_hi : Fetched, dst_lo : Fetched, seen : Fetched]

\* A segment handed to sock_ip_send, and what was delivered before it.
Segment == [to_hi : Fetched, to_lo : Fetched, after : 1 .. Len(delivered), seen : Fetched]

\* Every variable keeps its type, the numbers within what has arrived.
TypeOK ==
  /\ wire \in Seq(Packet) /\ taken \in 0 .. Len(wire)
  /\ rx \in {"off", "create", "recv", "got", "post", "exit", "fault"}
  /\ rx \in {"got", "post"} => taken > 0
  /\ tcpbuf \in [1 .. Cells -> Fetched] /\ tcp_hdr_size \in Fetched /\ tcp_remote \in Fetched
  /\ QUEUE \in Nat /\ heap \in 0 .. HeapEvents /\ event_flags \subseteq {NET_EV}
  /\ main \in {"boot", "spawn", "connect", "listen", "loop", "wait", "handler", "flags",
               "resolve", "payload", "size", "ips", "ips_low", "tcp", "tcp_send", "loop_send",
               "exit"}
  /\ main \in {"loop_send", "tcp_send"} => delivered # <<>>
  /\ con \in BOOLEAN
  /\ cell \in 1 .. Cells + 1 /\ payload \in [1 .. Cells -> Fetched]
  /\ size \in Fetched /\ half \in Fetched
  /\ posted \in Seq(Fetched \ {0}) /\ delivered \in Seq(Delivery) /\ writes \in Seq(Segment)

\* The branch of net_handler that reports "Overlapping net event" cannot be
\* taken: the flag it tests is always cleared before the next event is handled.
OverlapBranchDead == main = "handler" => event_flags = {}

\* Events being dispatched: taken off QUEUE, their delivery still to come.
InFlight ==
  IF main \in {"handler", "flags", "resolve", "payload", "size", "ips", "ips_low"} THEN 1 ELSE 0

\* Every posted event is queued, in the hands of the loop, or was delivered:
\* no wake-up of the loop is lost and no signal finds the listener away.
OneDeliveryPerEvent == Len(posted) = QUEUE + InFlight + Len(delivered)

\* Whenever the main thread may look, buffer, length and event describe the
\* same datagram, the last one an event was posted for.
SharedCoherent ==
  MainRuns /\ posted # <<>> =>
    LET last == posted[Len(posted)]
    IN  /\ tcp_hdr_size = last
        /\ \A i \in 1 .. wire[last] : tcpbuf[i] = last
        /\ tcp_remote >= last

\* What the k-th delivery hands to TCP.input is never older than the datagram
\* whose event it answers: length, both halves of the sender's address, and
\* every cell that datagram filled.  So when nothing arrived since (seen), it is
\* exactly that datagram.
DeliveryWindow ==
  \A k \in 1 .. Len(delivered) :
    LET p == posted[k]  d == delivered[k]
    IN  /\ k <= Len(posted)
        /\ d.size \in p .. d.seen
        /\ d.dst_hi \in p .. d.seen /\ d.dst_lo \in p .. d.seen
        /\ \A i \in 1 .. wire[p] : d.cells[i] \in p .. d.seen

\* A segment the TCP stack writes goes to an address put together from senders
\* at least as new as the last datagram delivered to it: an answer can reach a
\* newer sender, never one that was heard before the segment being answered.
WriteWindow ==
  \A k \in 1 .. Len(writes) :
    LET w == writes[k]
    IN  /\ w.to_hi \in posted[w.after] .. w.seen
        /\ w.to_lo \in posted[w.after] .. w.seen

\* An event once posted reaches the listener, unless the board has faulted or
\* OCaml found no address to listen on.
EventuallyDelivered ==
  \A k \in 1 .. MaxPackets :
    Len(posted) >= k ~> (Len(delivered) >= k \/ rx = "fault" \/ main = "exit")

\* The receive path implements the conflating mailbox: deliveries answer the
\* announced datagrams one for one and in order, out of what came since.
Mailbox == INSTANCE PacketMailbox
             WITH wire <- wire, taken <- taken, posted <- posted, delivered <- delivered
ImplementsMailbox == Mailbox!Spec
=============================================================================
