---------------------------- MODULE RiotNetProofs ----------------------------
(***************************************************************************)
(* What TLAPS proves of the receive path, for every buffer size, heap and  *)
(* bound.  The invariants are proved one on top of another: types, then    *)
(* where the main thread is, then what the shared variables hold, then     *)
(* what was delivered and written.  They carry the proof that RiotNet      *)
(* implements PacketMailbox.                                               *)
(***************************************************************************)
EXTENDS RiotNet, SequenceTheorems, TLAPS

-----------------------------------------------------------------------------
(* Types.                                                                  *)

\* The zeroed static storage and the empty queues have their types.
LEMMA InitTypes == Init => TypeOK
<1>. SUFFICES ASSUME Init PROVE TypeOK
  OBVIOUS
<1>1. wire \in Seq(Packet) /\ posted \in Seq(Fetched \ {0})
      /\ delivered \in Seq(Delivery) /\ writes \in Seq(Segment)
  BY EmptySeq DEF Init
<1>2. tcpbuf \in [1 .. Cells -> Fetched] /\ payload \in [1 .. Cells -> Fetched]
      /\ 0 \in Fetched /\ taken \in 0 .. Len(wire)
  BY DEF Init, Fetched
<1>3. heap \in 0 .. HeapEvents /\ cell \in 1 .. Cells + 1
  BY CellsAssumption, BoundsAssumption DEF Init
<1>. QED BY <1>1, <1>2, <1>3 DEF Init, TypeOK

\* Taking one more datagram widens every type that counts them.
LEMMA TakeWidens ==
  ASSUME TypeOK, taken' = taken + 1, delivered' = delivered
  PROVE  /\ taken \in Nat /\ Fetched \subseteq Fetched' /\ taken' \in Fetched'
         /\ Seq(Fetched \ {0}) \subseteq Seq(Fetched' \ {0})
         /\ Seq(Delivery) \subseteq Seq(Delivery') /\ Seq(Segment) \subseteq Seq(Segment')
<1>1. taken \in Nat /\ Fetched \subseteq Fetched' /\ taken' \in Fetched'
  BY LenProperties DEF TypeOK, Fetched
<1>2. Delivery \subseteq Delivery' /\ Segment \subseteq Segment'
  BY <1>1 DEF Delivery, Segment
<1>. QED BY <1>1, <1>2, SeqMonotonic

\* The network and the socket thread keep the types.
LEMMA RxTypes ==
  TypeOK /\ (RxThread \/ \E p \in Packet : Arrive(p)) => TypeOK'
<1> USE CellsAssumption, BoundsAssumption
<1>1. ASSUME TypeOK, NEW p \in Packet, Arrive(p) PROVE TypeOK'
  <2>1. wire' \in Seq(Packet) /\ Len(wire') = Len(wire) + 1 /\ Len(wire) \in Nat
    BY <1>1, AppendProperties, LenProperties DEF TypeOK, Arrive
  <2>2. Fetched' = Fetched /\ Delivery' = Delivery /\ Segment' = Segment
    BY <1>1 DEF Arrive, history, Fetched, Delivery, Segment
  <2>. QED BY <1>1, <2>1, <2>2 DEF TypeOK, Arrive, shared, events, local, history
<1>2. ASSUME TypeOK, RxCreate PROVE TypeOK'
  <2>1. Fetched' = Fetched /\ Delivery' = Delivery /\ Segment' = Segment
    BY <1>2 DEF RxCreate, history, Fetched, Delivery, Segment
  <2>. QED BY <1>2, <2>1 DEF TypeOK, RxCreate, shared, events, local, history
<1>3. ASSUME TypeOK, RxRecv PROVE TypeOK'
  <2>1. taken' = taken + 1 /\ delivered' = delivered /\ taken \in Nat
        /\ Len(wire) \in Nat /\ taken' \in 0 .. Len(wire')
    BY <1>3, LenProperties DEF TypeOK, RxRecv, history
  <2>2. Fetched \subseteq Fetched' /\ taken' \in Fetched'
    BY <1>3, <2>1, TakeWidens
  <2>3. tcpbuf' \in [1 .. Cells -> Fetched'] /\ tcp_remote' \in Fetched'
        /\ rx' \in {"recv", "got"}
    BY <1>3, <2>2 DEF TypeOK, RxRecv
  <2>4. posted' \in Seq(Fetched' \ {0}) /\ delivered' \in Seq(Delivery')
        /\ writes' \in Seq(Segment')
    BY <1>3, <2>1, TakeWidens DEF TypeOK, RxRecv, history
  <2>5. tcp_hdr_size' \in Fetched' /\ payload' \in [1 .. Cells -> Fetched'] /\ size' \in Fetched'
        /\ half' \in Fetched'
    BY <1>3, <2>2 DEF TypeOK, RxRecv, local
  <2>. QED BY <1>3, <2>1, <2>3, <2>4, <2>5 DEF TypeOK, RxRecv, events, local
<1>4. ASSUME TypeOK, RxSetSize PROVE TypeOK'
  <2>1. Fetched' = Fetched /\ Delivery' = Delivery /\ Segment' = Segment /\ taken \in Fetched
    BY <1>4, LenProperties DEF TypeOK, RxSetSize, history, Fetched, Delivery, Segment
  <2>. QED BY <1>4, <2>1 DEF TypeOK, RxSetSize, events, local, history
<1>5. ASSUME TypeOK, RxAddNetEvent PROVE TypeOK'
  <2>1. Fetched' = Fetched /\ Delivery' = Delivery /\ Segment' = Segment
    BY <1>5 DEF RxAddNetEvent, Fetched, Delivery, Segment
  <2>2. taken \in Fetched \ {0}
    BY <1>5, LenProperties DEF TypeOK, RxAddNetEvent, Fetched
  <2>3. posted' \in Seq(Fetched' \ {0})
    <3>1. Append(posted, taken) \in Seq(Fetched \ {0})
      BY <1>5, <2>2, AppendProperties DEF TypeOK
    <3>2. posted' = Append(posted, taken) \/ posted' = posted
      BY <1>5 DEF RxAddNetEvent
    <3>. QED BY <1>5, <2>1, <3>1, <3>2 DEF TypeOK
  <2>4. rx' \in {"recv", "fault"} /\ QUEUE' \in Nat /\ heap' \in 0 .. HeapEvents
    <3>1. \/ heap > 0 /\ heap' = heap - 1 /\ QUEUE' = QUEUE + 1 /\ rx' = "recv"
          \/ rx' = "fault" /\ UNCHANGED <<heap, QUEUE>>
      BY <1>5 DEF RxAddNetEvent
    <3>. QED BY <1>5, <3>1 DEF TypeOK
  <2>. QED BY <1>5, <2>1, <2>3, <2>4 DEF TypeOK, RxAddNetEvent, shared, local
<1>. QED BY <1>1, <1>2, <1>3, <1>4, <1>5 DEF RxThread

\* A step that takes and delivers nothing changes none of the counting types.
LEMMA SameTypes ==
  ASSUME UNCHANGED <<taken, delivered>>
  PROVE  Fetched' = Fetched /\ Delivery' = Delivery /\ Segment' = Segment
BY DEF Fetched, Delivery, Segment

\* So does the main thread, up to its wait.
LEMMA LoopTypes ==
  TypeOK /\ (Boot \/ LoopTop \/ TakeEvent \/ WaitTimeout) => TypeOK'
<1> SUFFICES ASSUME TypeOK, Boot \/ LoopTop \/ TakeEvent \/ WaitTimeout PROVE TypeOK'
  OBVIOUS
<1> USE DEF Boot, MainInitQueue, MainCreateThread, MainConnect, MainListen,
            LoopTop, TakeEvent, WaitTimeout
<1>1. Fetched' = Fetched /\ Delivery' = Delivery /\ Segment' = Segment
  BY SameTypes DEF history
<1>2. CASE Boot
  <2>1. CASE MainInitQueue
    BY <1>1, <2>1 DEF TypeOK, shared, local, history
  <2>2. CASE MainCreateThread
    BY <1>1, <2>2 DEF TypeOK, shared, events, local, history
  <2>3. CASE MainConnect
    BY <1>1, <2>3 DEF TypeOK, shared, events, local, history
  <2>4. CASE MainListen
    BY <1>1, <2>4 DEF TypeOK, shared, events, local, history
  <2>. QED BY <1>2, <2>1, <2>2, <2>3, <2>4
<1>3. CASE LoopTop \/ WaitTimeout
  BY <1>1, <1>3 DEF TypeOK, shared, events, local, history
<1>4. CASE TakeEvent
  BY <1>1, <1>4 DEF TypeOK, shared, local, history
<1>. QED BY <1>2, <1>3, <1>4

\* And while it dispatches a packet.
LEMMA DispatchTypes == TypeOK /\ Dispatch => TypeOK'
<1> USE CellsAssumption
<1> DEFINE Quiet == NetHandler \/ TakeFlags \/ Resolve \/ CopyCell \/ ReadSize \/ ReadRemote
                    \/ TcpDone
<1>1. ASSUME TypeOK, Quiet PROVE Fetched' = Fetched /\ Delivery' = Delivery /\ Segment' = Segment
  BY <1>1, SameTypes DEF NetHandler, TakeFlags, Resolve, CopyCell, ReadSize, ReadRemote, TcpDone,
                         history
<1>2. ASSUME TypeOK, NetHandler \/ TakeFlags PROVE TypeOK'
  BY <1>1, <1>2 DEF TypeOK, NetHandler, TakeFlags, shared, local, history
<1>3. ASSUME TypeOK, Resolve PROVE TypeOK'
  <2>1. payload' \in [1 .. Cells -> Fetched'] /\ main' \in {"payload", "loop"}
        /\ cell' \in 1 .. Cells + 1
    BY <1>1, <1>3, LenProperties DEF TypeOK, Resolve, Fetched
  <2>. QED BY <1>1, <1>3, <2>1 DEF TypeOK, Resolve, shared, events, history
<1>4. ASSUME TypeOK, CopyCell PROVE TypeOK'
  <2>1. cell' \in 1 .. Cells + 1 /\ payload' \in [1 .. Cells -> Fetched']
        /\ main' \in {"payload", "size"}
    BY <1>1, <1>4 DEF TypeOK, CopyCell
  <2>. QED BY <1>1, <1>4, <2>1 DEF TypeOK, CopyCell, shared, events, history
<1>5. ASSUME TypeOK, ReadSize \/ ReadRemote \/ TcpDone PROVE TypeOK'
  BY <1>1, <1>5 DEF TypeOK, ReadSize, ReadRemote, TcpDone, shared, events, local, history
<1>6. ASSUME TypeOK, TcpInput PROVE TypeOK'
  <2>1. Fetched' = Fetched /\ Delivery' = Delivery
    BY <1>6 DEF TcpInput, Fetched, Delivery
  <2>2. [cells |-> payload, size |-> size, dst_hi |-> half, dst_lo |-> tcp_remote,
         seen |-> taken] \in Delivery
    <3>1. /\ payload \in [1 .. Cells -> Fetched] /\ size \in Fetched /\ half \in Fetched
          /\ tcp_remote \in Fetched /\ taken \in Fetched
      BY <1>6, LenProperties DEF TypeOK, Fetched
    <3>. QED BY <3>1 DEF Delivery
  <2>3. delivered' \in Seq(Delivery') /\ Len(delivered') = Len(delivered) + 1
        /\ Len(delivered) \in Nat
    BY <1>6, <2>1, <2>2, AppendProperties, LenProperties DEF TypeOK, TcpInput
  <2>4. Segment \subseteq Segment'
    BY <2>1, <2>3 DEF Segment
  <2>5. writes' \in Seq(Segment')
    BY <1>6, <2>4, SeqMonotonic DEF TypeOK, TcpInput
  <2>. QED BY <1>6, <2>1, <2>3, <2>5 DEF TypeOK, TcpInput, shared, events, local
<1>. QED BY <1>2, <1>3, <1>4, <1>5, <1>6 DEF Dispatch

\* And when it writes a segment.
LEMMA WriteTypes == TypeOK /\ (Write \/ WriteSent) => TypeOK'
<1> SUFFICES ASSUME TypeOK, Write \/ WriteSent PROVE TypeOK'
  OBVIOUS
<1>1. Fetched' = Fetched /\ Delivery' = Delivery /\ Segment' = Segment
  BY SameTypes DEF Write, WriteSent, history
<1>2. CASE Write
  BY <1>1, <1>2 DEF TypeOK, Write, shared, events, history
<1>3. CASE WriteSent
  <2>1. [to_hi |-> half, to_lo |-> tcp_remote, after |-> Len(delivered), seen |-> taken] \in Segment
    BY <1>3, EmptySeq, LenProperties DEF TypeOK, WriteSent, Segment, Fetched
  <2>2. writes' \in Seq(Segment')
    BY <1>1, <1>3, <2>1, AppendProperties DEF TypeOK, WriteSent
  <2>. QED BY <1>1, <1>3, <2>2 DEF TypeOK, WriteSent, shared, events, local
<1>. QED BY <1>2, <1>3

\* Every step keeps the types.
LEMMA StepTypes == TypeOK /\ [Next]_vars => TypeOK'
<1>1. ASSUME TypeOK, UNCHANGED vars PROVE TypeOK'
  <2>1. Fetched' = Fetched /\ Delivery' = Delivery /\ Segment' = Segment
    BY <1>1, SameTypes DEF vars, history
  <2>. QED BY <1>1, <2>1 DEF TypeOK, vars, shared, events, local, history
<1>. QED BY <1>1, RxTypes, LoopTypes, DispatchTypes, WriteTypes DEF Next, MainThread, MainWrites

\* The types hold in every state of every behaviour.
THEOREM TypeCorrect == Spec => []TypeOK
BY InitTypes, StepTypes, PTL DEF Spec

-----------------------------------------------------------------------------
(* Where the main thread is, and what it has in hand.                      *)

\* What makes OneDeliveryPerEvent inductive.  Nothing is queued before
\* event_queue_init; the listener waits whenever a signal may come; the flag
\* is on between net_handler and the stub that clears it, and then only.
ControlInv ==
  /\ main \in {"boot", "spawn"} => rx = "off" /\ QUEUE = 0
  /\ main \in {"loop", "loop_send", "wait", "handler", "flags", "resolve"} => con = TRUE
  /\ event_flags = IF main = "flags" THEN {NET_EV} ELSE {}
  /\ OneDeliveryPerEvent

\* The boot starts with nothing posted, nothing in hand and no flag on.
LEMMA InitControl == Init => ControlInv
BY EmptySeq DEF Init, ControlInv, OneDeliveryPerEvent, InFlight

\* The socket thread touches the event count only by posting, and then counts
\* the datagram it posted for.
LEMMA RxControl ==
  TypeOK /\ ControlInv /\ (RxThread \/ \E p \in Packet : Arrive(p)) => ControlInv'
<1> USE DEF ControlInv, OneDeliveryPerEvent, InFlight
<1>1. ASSUME TypeOK, ControlInv, NEW p \in Packet, Arrive(p) PROVE ControlInv'
  BY <1>1 DEF Arrive, events, history
<1>2. ASSUME TypeOK, ControlInv, RxCreate PROVE ControlInv'
  BY <1>2 DEF RxCreate, events, history
<1>3. ASSUME TypeOK, ControlInv, RxRecv PROVE ControlInv'
  BY <1>3 DEF RxRecv, events, history
<1>4. ASSUME TypeOK, ControlInv, RxSetSize PROVE ControlInv'
  BY <1>4 DEF RxSetSize, events, history
<1>5. ASSUME TypeOK, ControlInv, RxAddNetEvent PROVE ControlInv'
  <2>1. Len(posted) \in Nat /\ Len(delivered) \in Nat /\ QUEUE \in Nat
    BY <1>5, LenProperties DEF TypeOK
  <2>2. CASE UNCHANGED <<QUEUE, posted>>
    BY <1>5, <2>1, <2>2 DEF RxAddNetEvent
  <2>3. CASE QUEUE' = QUEUE + 1 /\ posted' = Append(posted, taken)
    <3>1. Len(posted') = Len(posted) + 1
      <4>1. taken \in Fetched \ {0}
        BY <1>5, LenProperties DEF TypeOK, RxAddNetEvent, Fetched
      <4>2. posted \in Seq(Fetched \ {0})
        BY <1>5 DEF TypeOK
      <4>3. Len(Append(posted, taken)) = Len(posted) + 1
        BY <4>1, <4>2, AppendProperties
      <4>. QED BY <2>3, <4>3
    <3>2. UNCHANGED <<main, con, event_flags, delivered>> /\ main \notin {"boot", "spawn"}
      BY <1>5 DEF RxAddNetEvent
    <3>. QED BY <1>5, <2>1, <2>3, <3>1, <3>2
  <2>4. UNCHANGED <<QUEUE, posted>> \/ (QUEUE' = QUEUE + 1 /\ posted' = Append(posted, taken))
    BY <1>5 DEF RxAddNetEvent
  <2>. QED BY <2>2, <2>3, <2>4
<1>. QED BY <1>1, <1>2, <1>3, <1>4, <1>5 DEF RxThread

\* The main thread moves an event from the queue to its hand to the listener.
LEMMA MainControl ==
  TypeOK /\ ControlInv /\ (Boot \/ LoopTop \/ TakeEvent \/ WaitTimeout \/ Dispatch
                          \/ Write \/ WriteSent)
  => ControlInv'
<1> USE DEF ControlInv, OneDeliveryPerEvent, InFlight
<1>0. TypeOK => Len(posted) \in Nat /\ Len(delivered) \in Nat /\ QUEUE \in Nat
  BY LenProperties DEF TypeOK
<1>1. ASSUME TypeOK, ControlInv, Boot PROVE ControlInv'
  BY <1>0, <1>1 DEF Boot, MainInitQueue, MainCreateThread, MainConnect, MainListen,
                    events, history
<1>2. ASSUME TypeOK, ControlInv, LoopTop \/ WaitTimeout PROVE ControlInv'
  BY <1>0, <1>2 DEF LoopTop, WaitTimeout, events, history
<1>3. ASSUME TypeOK, ControlInv, TakeEvent PROVE ControlInv'
  BY <1>0, <1>3 DEF TakeEvent, history
<1>4. ASSUME TypeOK, ControlInv, NetHandler PROVE ControlInv'
  BY <1>0, <1>4 DEF NetHandler, history
<1>5. ASSUME TypeOK, ControlInv, TakeFlags PROVE ControlInv'
  BY <1>0, <1>5 DEF TakeFlags, history
<1>6. ASSUME TypeOK, ControlInv, Resolve PROVE ControlInv'
  BY <1>0, <1>6 DEF Resolve, events, history
<1>7. ASSUME TypeOK, ControlInv, CopyCell \/ ReadSize \/ ReadRemote PROVE ControlInv'
  BY <1>0, <1>7 DEF CopyCell, ReadSize, ReadRemote, events, history
<1>8. ASSUME TypeOK, ControlInv, TcpInput PROVE ControlInv'
  <2>1. Len(delivered') = Len(delivered) + 1
    BY <1>8, LenProperties DEF TypeOK, TcpInput
  <2>. QED BY <1>0, <1>8, <2>1 DEF TcpInput, events
<1>9. ASSUME TypeOK, ControlInv, TcpDone \/ Write \/ WriteSent PROVE ControlInv'
  BY <1>0, <1>9 DEF TcpDone, Write, WriteSent, events, history
<1>. QED BY <1>1, <1>2, <1>3, <1>4, <1>5, <1>6, <1>7, <1>8, <1>9 DEF Dispatch

\* Every step keeps the main thread's bookkeeping.
LEMMA StepControl == TypeOK /\ ControlInv /\ [Next]_vars => ControlInv'
<1>1. ControlInv /\ UNCHANGED vars => ControlInv'
  BY DEF vars, events, history, ControlInv, OneDeliveryPerEvent, InFlight
<1>. QED BY <1>1, RxControl, MainControl DEF Next, MainThread, MainWrites

\* The flag is on only between net_handler and the stub that clears it, and the
\* listener waits on the condition whenever Riot_ip.resolve may signal it.
THEOREM ControlCorrect == Spec => []ControlInv
BY TypeCorrect, InitControl, StepControl, PTL DEF Spec

\* Every event posted is queued, in dispatch, or delivered: whatever is
\* preempted where, no wake-up of the loop and no signal of the listener is
\* lost.
THEOREM NoEventLost == Spec => []OneDeliveryPerEvent
<1>1. ControlInv => OneDeliveryPerEvent
  BY DEF ControlInv
<1>. QED BY <1>1, ControlCorrect, PTL

\* net_handler never finds the flag on: its "Overlapping net event" branch is
\* dead code, and no overlap is ever reported.
THEOREM OverlapNeverReported == Spec => []OverlapBranchDead
<1>1. ControlInv => OverlapBranchDead
  BY DEF ControlInv, OverlapBranchDead
<1>. QED BY <1>1, ControlCorrect, PTL

-----------------------------------------------------------------------------
(* What the shared variables hold.                                         *)

Last == posted[Len(posted)]

\* Once a datagram is announced, buffer, length and sender never fall behind
\* it again: they are overwritten by newer datagrams only.
NotBehind(k) ==
  /\ wire[posted[k]] <= Cells
  /\ tcp_hdr_size >= posted[k] /\ tcp_remote >= posted[k]
  /\ \A i \in 1 .. wire[posted[k]] : tcpbuf[i] >= posted[k]

\* What the socket thread has stored of the datagram it has in hand, and that
\* the last one it announced stays whole until it takes the next.
SharedInv ==
  /\ rx \in {"off", "create", "exit"} => posted = <<>>
  /\ \A k \in 1 .. Len(posted) : NotBehind(k)
  /\ rx \in {"got", "post"} =>
       wire[taken] <= Cells /\ tcp_remote = taken /\ \A i \in 1 .. wire[taken] : tcpbuf[i] = taken
  /\ rx = "post" => tcp_hdr_size = taken
  /\ rx = "recv" /\ posted # <<>> =>
       tcp_hdr_size = Last /\ \A i \in 1 .. wire[Last] : tcpbuf[i] = Last

\* An announced datagram was taken out of the socket.
LEMMA PostedTaken ==
  ASSUME TypeOK
  PROVE  /\ Len(posted) \in Nat /\ taken \in Nat /\ taken \in 0 .. Len(wire)
         /\ \A k \in 1 .. Len(posted) : posted[k] \in 1 .. taken /\ wire[posted[k]] \in Packet
         /\ posted # <<>> => Len(posted) \in 1 .. Len(posted)
<1>1. Len(posted) \in Nat /\ taken \in Nat /\ taken \in 0 .. Len(wire) /\ Len(wire) \in Nat
  BY LenProperties DEF TypeOK
<1>2. posted \in Seq(Fetched \ {0}) /\ wire \in Seq(Packet)
  BY DEF TypeOK
<1>3. \A k \in 1 .. Len(posted) : posted[k] \in Fetched \ {0}
  BY <1>2, ElementOfSeq
<1>4. \A n \in 1 .. Len(wire) : wire[n] \in Packet
  BY <1>2, ElementOfSeq
<1>5. \A k \in 1 .. Len(posted) : posted[k] \in 1 .. taken
  BY <1>1, <1>3 DEF Fetched
<1>6. posted # <<>> => Len(posted) \in Nat \ {0}
  BY <1>2, EmptySeq
<1>. QED BY <1>1, <1>4, <1>5, <1>6

\* Nothing is announced when the board starts.
LEMMA InitShared == Init => SharedInv
BY EmptySeq DEF Init, SharedInv

\* An arrival leaves the datagrams taken before it where they are.
LEMMA ArriveShared ==
  ASSUME TypeOK, SharedInv, NEW p \in Packet, Arrive(p)
  PROVE  SharedInv'
<1>1. \A n \in 1 .. taken : wire'[n] = wire[n]
  <2>1. wire \in Seq(Packet) /\ taken \in 0 .. Len(wire) /\ wire' = Append(wire, p)
    BY DEF TypeOK, Arrive
  <2>. QED BY <2>1, AppendProperties, LenProperties
<1>2. UNCHANGED <<rx, taken, posted, tcpbuf, tcp_hdr_size, tcp_remote>>
  BY DEF Arrive, shared, history
<1>3. \A k \in 1 .. Len(posted) : wire'[posted[k]] = wire[posted[k]]
  BY <1>1, PostedTaken
<1>4. \A k \in 1 .. Len(posted') : NotBehind(k)'
  BY <1>2, <1>3 DEF SharedInv, NotBehind
<1>5. rx \in {"got", "post"} => wire'[taken] = wire[taken]
  BY <1>1, PostedTaken DEF TypeOK
<1>6. posted # <<>> => wire'[Last] = wire[Last]
  BY <1>3, PostedTaken DEF Last
<1>. QED BY <1>2, <1>4, <1>5, <1>6 DEF SharedInv, Last

\* Each step of the socket thread stores what its place says it has stored.
LEMMA RxShared == TypeOK /\ SharedInv /\ RxThread => SharedInv'
<1> USE CellsAssumption
<1>1. ASSUME TypeOK, SharedInv, RxCreate PROVE SharedInv'
  BY <1>1 DEF RxCreate, SharedInv, NotBehind, Last, shared, history
<1>2. ASSUME TypeOK, SharedInv, RxRecv, wire[taken'] <= Cells PROVE SharedInv'
  <2> DEFINE n == taken + 1
  <2>1. taken' = n /\ n \in Nat /\ wire[n] \in Packet /\ wire[n] <= Cells
    <3>1. taken + 1 \in 1 .. Len(wire) /\ wire \in Seq(Packet) /\ taken' = taken + 1
      BY <1>2, PostedTaken, LenProperties DEF RxRecv, TypeOK
    <3>. QED BY <1>2, <3>1, ElementOfSeq
  <2>2. /\ UNCHANGED <<wire, posted, tcp_hdr_size>>
        /\ tcp_remote' = n /\ rx' = "got"
        /\ tcpbuf' = [i \in 1 .. Cells |-> IF i <= wire[n] THEN n ELSE tcpbuf[i]]
    BY <1>2, <2>1 DEF RxRecv, history, Packet
  <2>3. \A i \in 1 .. Cells : tcpbuf'[i] >= tcpbuf[i] /\ tcp_remote' >= tcp_remote
    BY <1>2, <2>1, <2>2 DEF TypeOK, Fetched
  <2>4. \A i \in 1 .. wire[n] : tcpbuf'[i] = n
    BY <2>1, <2>2 DEF Packet
  <2>5. ASSUME NEW k \in 1 .. Len(posted) PROVE NotBehind(k)'
    <3>1. NotBehind(k) /\ posted[k] \in 1 .. taken /\ wire[posted[k]] \in Packet
      BY <1>2, PostedTaken DEF SharedInv
    <3>2. tcp_remote' >= posted[k]
      BY <2>1, <2>2, <3>1, PostedTaken, <1>2
    <3>3. \A i \in 1 .. wire[posted[k]] : tcpbuf'[i] >= posted[k]
      <4>1. ASSUME NEW i \in 1 .. wire[posted[k]] PROVE tcpbuf'[i] >= posted[k]
        <5>1. i \in 1 .. Cells /\ tcpbuf[i] \in Nat /\ tcpbuf[i] >= posted[k] /\ posted[k] \in Nat
          <6>1. taken \in Nat /\ tcpbuf \in [1 .. Cells -> 0 .. taken]
            BY <1>2, PostedTaken DEF TypeOK, Fetched
          <6>2. i \in 1 .. Cells
            BY <3>1 DEF NotBehind, Packet
          <6>. QED BY <3>1, <6>1, <6>2 DEF NotBehind
        <5>2. tcpbuf'[i] \in {n, tcpbuf[i]} /\ tcpbuf'[i] >= tcpbuf[i]
          BY <2>2, <2>3, <5>1
        <5>. QED BY <2>1, <5>1, <5>2
      <4>. QED BY <4>1
    <3>. QED BY <2>2, <3>1, <3>2, <3>3 DEF NotBehind
  <2>. QED BY <2>1, <2>2, <2>4, <2>5 DEF SharedInv
<1>3. ASSUME TypeOK, SharedInv, RxRecv, wire[taken'] > Cells PROVE SharedInv'
  <2>1. UNCHANGED <<wire, posted, tcp_hdr_size, tcpbuf, rx>> /\ rx = "recv"
        /\ tcp_remote' \in {tcp_remote, taken + 1}
    <3>1. taken + 1 \in 1 .. Len(wire) /\ wire \in Seq(Packet) /\ taken' = taken + 1
      BY <1>3, PostedTaken, LenProperties DEF RxRecv, TypeOK
    <3>2. wire[taken'] \in Packet
      BY <3>1, ElementOfSeq
    <3>. QED BY <1>3, <3>1, <3>2 DEF RxRecv, history, Packet
  <2>2. \A k \in 1 .. Len(posted) : tcp_remote' >= posted[k]
    BY <1>3, <2>1, PostedTaken DEF SharedInv, NotBehind
  <2>. QED BY <1>3, <2>1, <2>2 DEF SharedInv, NotBehind, Last
<1>4. ASSUME TypeOK, SharedInv, RxSetSize PROVE SharedInv'
  <2>1. \A k \in 1 .. Len(posted) : taken >= posted[k]
    BY <1>4, PostedTaken
  <2>. QED BY <1>4, <2>1 DEF RxSetSize, SharedInv, NotBehind, history
<1>5. ASSUME TypeOK, SharedInv, RxAddNetEvent, rx' = "recv" PROVE SharedInv'
  <2>1. /\ posted' = Append(posted, taken)
        /\ UNCHANGED <<wire, taken, tcpbuf, tcp_hdr_size, tcp_remote>>
        /\ rx = "post" /\ posted \in Seq(Fetched \ {0}) /\ taken \in Fetched \ {0}
    <3>1. taken \in Fetched \ {0}
      BY <1>5, LenProperties DEF RxAddNetEvent, TypeOK, Fetched
    <3>2. posted' = Append(posted, taken)
      BY <1>5 DEF RxAddNetEvent
    <3>. QED BY <1>5, <3>1, <3>2 DEF RxAddNetEvent, shared, TypeOK
  <2>2. /\ Len(posted') = Len(posted) + 1 /\ Len(posted) \in Nat
        /\ \A k \in 1 .. Len(posted) : posted'[k] = posted[k]
        /\ posted'[Len(posted) + 1] = taken
    BY <2>1, AppendProperties, LenProperties
  <2>3. wire[taken] <= Cells /\ tcp_hdr_size = taken /\ tcp_remote = taken
        /\ \A i \in 1 .. wire[taken] : tcpbuf[i] = taken
    BY <1>5, <2>1 DEF SharedInv
  <2>4. \A k \in 1 .. Len(posted) : NotBehind(k)'
    BY <1>5, <2>1, <2>2 DEF SharedInv, NotBehind
  <2>5. NotBehind(Len(posted))'
    BY <2>1, <2>2, <2>3 DEF NotBehind, Fetched
  <2>6. Last' = taken
    BY <2>2 DEF Last
  <2>7. \A k \in 1 .. Len(posted') : k \in 1 .. Len(posted) \/ k = Len(posted')
    BY <2>2
  <2>. QED BY <1>5, <2>1, <2>3, <2>4, <2>5, <2>6, <2>7 DEF SharedInv
<1>6. ASSUME TypeOK, SharedInv, RxAddNetEvent, rx' # "recv" PROVE SharedInv'
  BY <1>6 DEF RxAddNetEvent, SharedInv, NotBehind, shared
<1>7. TypeOK /\ RxRecv => wire[taken'] <= Cells \/ wire[taken'] > Cells
  BY DEF RxRecv
<1>. QED BY <1>1, <1>2, <1>3, <1>4, <1>5, <1>6, <1>7 DEF RxThread

\* The main thread only reads the shared variables.
LEMMA MainShared ==
  ASSUME TypeOK, ControlInv, SharedInv,
         Boot \/ LoopTop \/ TakeEvent \/ WaitTimeout \/ Dispatch \/ Write \/ WriteSent
         \/ UNCHANGED vars
  PROVE  SharedInv'
<1>1. UNCHANGED <<wire, taken, posted>> /\ UNCHANGED shared
  BY DEF Boot, MainInitQueue, MainCreateThread, MainConnect, MainListen, LoopTop, TakeEvent,
         WaitTimeout, Dispatch, NetHandler, TakeFlags, Resolve, CopyCell, ReadSize, ReadRemote,
         TcpInput, TcpDone, Write, WriteSent, vars, history
<1>2. rx' = rx \/ (rx = "off" /\ rx' = "create")
  BY DEF ControlInv, Boot, MainInitQueue, MainCreateThread, MainConnect, MainListen, LoopTop,
         TakeEvent, WaitTimeout, Dispatch, NetHandler, TakeFlags, Resolve, CopyCell, ReadSize,
         ReadRemote, TcpInput, TcpDone, Write, WriteSent, vars
<1>. QED BY <1>1, <1>2 DEF SharedInv, NotBehind, Last, shared

\* At each place of raw_tcp_sock_thread, tcpbuf, tcp_hdr_size and tcp_remote hold
\* what it has stored so far, and never less than what it announced.
THEOREM SharedCorrect == Spec => []SharedInv
<1>1. TypeOK /\ ControlInv /\ SharedInv /\ [Next]_vars => SharedInv'
  BY ArriveShared, RxShared, MainShared DEF Next, MainThread, MainWrites
<1>. QED BY <1>1, InitShared, TypeCorrect, ControlCorrect, PTL DEF Spec

\* Priority scheduling makes the three unlocked variables coherent whenever
\* the main thread may look at them: they describe the last announced datagram.
THEOREM Coherence == Spec => []SharedCoherent
<1>1. TypeOK /\ SharedInv => SharedCoherent
  <2> SUFFICES ASSUME TypeOK, SharedInv, RxBlocked, posted # <<>> PROVE SharedCoherent
    BY DEF SharedCoherent, MainRuns
  <2>1. rx = "recv" /\ Len(posted) \in 1 .. Len(posted)
    BY PostedTaken DEF RxBlocked, SharedInv
  <2>2. NotBehind(Len(posted))
    BY <2>1 DEF SharedInv
  <2>. QED BY <2>1, <2>2 DEF SharedCoherent, SharedInv, NotBehind, Last
<1>. QED BY <1>1, TypeCorrect, SharedCorrect, PTL

-----------------------------------------------------------------------------
(* What was delivered and written.                                         *)

\* The announced datagram the main thread is delivering.
Current == posted[Len(delivered) + 1]

\* What get_payload, get_tp_hdr_size and get_pkt_ips have read so far of a
\* delivery.
ReadInv ==
  /\ main = "payload" => \A i \in 1 .. wire[Current] : i < cell => payload[i] >= Current
  /\ main \in {"size", "ips", "ips_low"} =>
       \A i \in 1 .. wire[Current] : payload[i] >= Current
  /\ main \in {"ips", "ips_low"} => size >= Current
  /\ main = "ips_low" => half >= Current

\* What sock_ip_send has read so far of the address it sends to.
SendInv == main \in {"loop_send", "tcp_send"} => half >= posted[Len(delivered)]

DeliveryInv == ReadInv /\ SendInv /\ DeliveryWindow /\ WriteWindow

\* The histories only grow, so what is said of their elements stays true.
Grows ==
  /\ Len(posted') >= Len(posted)
  /\ \A k \in 1 .. Len(posted) : posted'[k] = posted[k] /\ wire'[posted[k]] = wire[posted[k]]

\* Nothing announced is taken back.
LEMMA HistoryGrows == TypeOK /\ [Next]_vars => Grows
<1>1. ASSUME TypeOK, UNCHANGED <<wire, posted>> PROVE Grows
  BY <1>1, PostedTaken DEF Grows
<1>2. ASSUME TypeOK, NEW p \in Packet, Arrive(p) PROVE Grows
  <2>1. wire \in Seq(Packet) /\ wire' = Append(wire, p) /\ posted' = posted
    BY <1>2 DEF TypeOK, Arrive, history
  <2>2. \A n \in 1 .. Len(wire) : wire'[n] = wire[n]
    BY <2>1, AppendProperties
  <2>3. \A k \in 1 .. Len(posted) : posted[k] \in 1 .. Len(wire)
    BY <1>2, <2>1, PostedTaken, LenProperties
  <2>. QED BY <1>2, <2>1, <2>2, <2>3, PostedTaken DEF Grows
<1>3. ASSUME TypeOK, RxAddNetEvent, posted' = Append(posted, taken) PROVE Grows
  <2>1. posted \in Seq(Fetched \ {0}) /\ taken \in Fetched \ {0} /\ wire' = wire
    BY <1>3, LenProperties DEF TypeOK, RxAddNetEvent, Fetched
  <2>2. Len(posted') = Len(posted) + 1 /\ Len(posted) \in Nat
        /\ \A k \in 1 .. Len(posted) : posted'[k] = posted[k]
    BY <1>3, <2>1, AppendProperties, LenProperties
  <2>. QED BY <2>1, <2>2 DEF Grows
<1>4. RxAddNetEvent => posted' = Append(posted, taken) \/ UNCHANGED <<wire, posted>>
  BY DEF RxAddNetEvent
<1>5. RxCreate \/ RxRecv \/ RxSetSize => UNCHANGED <<wire, posted>>
  BY DEF RxCreate, RxRecv, RxSetSize, history
<1>6. \/ Boot \/ LoopTop \/ TakeEvent \/ WaitTimeout \/ Dispatch
      \/ Write \/ WriteSent \/ UNCHANGED vars
      => UNCHANGED <<wire, posted>>
  BY DEF Boot, MainInitQueue, MainCreateThread, MainConnect, MainListen, LoopTop, TakeEvent,
         WaitTimeout, Dispatch, NetHandler, TakeFlags, Resolve, CopyCell, ReadSize, ReadRemote,
         TcpInput, TcpDone, Write, WriteSent, vars, history
<1>. QED BY <1>1, <1>2, <1>3, <1>4, <1>5, <1>6 DEF Next, RxThread, MainThread, MainWrites

\* While a packet is in dispatch its announcement is the next to be answered.
LEMMA CurrentPosted ==
  ASSUME TypeOK, ControlInv
  PROVE  /\ Len(delivered) \in Nat /\ Len(delivered) <= Len(posted)
         /\ main \in {"resolve", "payload", "size", "ips", "ips_low"} =>
              /\ Len(delivered) + 1 \in 1 .. Len(posted)
              /\ Current \in 1 .. taken /\ wire[Current] \in Packet
<1>1. Len(delivered) \in Nat /\ Len(posted) \in Nat /\ QUEUE \in Nat
  BY LenProperties DEF TypeOK
<1>2. Len(posted) = QUEUE + InFlight + Len(delivered) /\ InFlight \in {0, 1}
  BY DEF ControlInv, OneDeliveryPerEvent, InFlight
<1>3. main \in {"resolve", "payload", "size", "ips", "ips_low"} => InFlight = 1
  BY DEF InFlight
<1>. QED BY <1>1, <1>2, <1>3, PostedTaken DEF Current

\* Windows that are not added to are kept.
LEMMA WindowsKept ==
  ASSUME TypeOK, ControlInv, Grows, TypeOK',
         DeliveryWindow, WriteWindow, UNCHANGED <<delivered, writes>>
  PROVE  DeliveryWindow' /\ WriteWindow'
<1>1. Len(delivered) \in Nat /\ Len(delivered) <= Len(posted) /\ Len(posted) \in Nat
      /\ Len(posted') \in Nat
  BY CurrentPosted, PostedTaken, LenProperties DEF TypeOK
<1>2. DeliveryWindow'
  BY <1>1 DEF DeliveryWindow, Grows
<1>3. ASSUME NEW k \in 1 .. Len(writes) PROVE writes[k].after \in 1 .. Len(posted)
  <2>1. writes[k] \in Segment
    BY ElementOfSeq DEF TypeOK
  <2>. QED BY <1>1, <2>1 DEF Segment
<1>4. WriteWindow'
  BY <1>3 DEF WriteWindow, Grows
<1>. QED BY <1>2, <1>4

\* The window the current packet is read in: nothing read is older than it.
LEMMA ReadKept ==
  ASSUME TypeOK, ControlInv, Grows, ReadInv, SendInv,
         UNCHANGED <<main, local, delivered>>
  PROVE  ReadInv' /\ SendInv'
<1>1. main \in {"payload", "size", "ips", "ips_low"} =>
        Current' = Current /\ wire'[Current] = wire[Current]
  BY CurrentPosted DEF Current, Grows
<1>2. main \in {"loop_send", "tcp_send"} => Len(delivered) \in 1 .. Len(posted)
  BY CurrentPosted, PostedTaken, EmptySeq DEF TypeOK
<1>. QED BY <1>1, <1>2 DEF ReadInv, SendInv, Grows, local

\* Each read of the listener gets something at least as new as its datagram.
LEMMA ReadSteps ==
  ASSUME TypeOK, ControlInv, SharedInv, ReadInv,
         Resolve \/ CopyCell \/ ReadSize \/ ReadRemote
  PROVE  ReadInv' /\ SendInv'
<1> USE CellsAssumption
<1>1. Current' = Current /\ wire' = wire
  BY DEF Resolve, CopyCell, ReadSize, ReadRemote, history, Current
<1>0. SendInv'
  BY DEF Resolve, CopyCell, ReadSize, ReadRemote, SendInv
<1>2. CASE Resolve
  <2>1. main' \in {"payload", "loop"} /\ cell' = 1
    BY <1>2 DEF Resolve
  <2>. QED BY <1>0, <1>1, <2>1 DEF ReadInv, Packet
<1>3. CASE CopyCell
  <2>1. /\ main = "payload" /\ cell \in 1 .. Cells /\ cell' = cell + 1
        /\ main' = IF cell = Cells THEN "size" ELSE "payload"
        /\ payload' = [payload EXCEPT ![cell] = tcpbuf[cell]]
        /\ payload \in [1 .. Cells -> Fetched]
    BY <1>3 DEF CopyCell, TypeOK
  <2>2. /\ Current \in 1 .. taken /\ wire[Current] \in Packet
        /\ NotBehind(Len(delivered) + 1)
    BY <2>1, CurrentPosted DEF SharedInv
  <2>3. wire[Current] <= Cells /\ \A i \in 1 .. wire[Current] : tcpbuf[i] >= Current
    BY <2>2 DEF NotBehind, Current
  <2>4. ASSUME NEW i \in 1 .. wire[Current], i < cell' PROVE payload'[i] >= Current
    <3>1. i \in 1 .. Cells /\ (i = cell \/ i < cell)
      BY <2>1, <2>2, <2>3, <2>4 DEF Packet
    <3>2. payload'[i] = IF i = cell THEN tcpbuf[i] ELSE payload[i]
      BY <2>1, <3>1
    <3>. QED BY <2>1, <2>3, <3>1, <3>2 DEF ReadInv
  <2>5. cell = Cells => \A i \in 1 .. wire[Current] : i < cell'
    BY <2>1, <2>2, <2>3 DEF Packet
  <2>. QED BY <1>0, <1>1, <2>1, <2>4, <2>5 DEF ReadInv
<1>4. CASE ReadSize
  <2>1. main = "size" /\ main' = "ips" /\ size' = tcp_hdr_size /\ payload' = payload
    BY <1>4 DEF ReadSize
  <2>2. NotBehind(Len(delivered) + 1)
    BY <2>1, CurrentPosted DEF SharedInv
  <2>. QED BY <1>0, <1>1, <2>1, <2>2 DEF ReadInv, NotBehind, Current
<1>5. CASE ReadRemote
  <2>1. main = "ips" /\ main' = "ips_low" /\ half' = tcp_remote /\ UNCHANGED <<payload, size>>
    BY <1>5 DEF ReadRemote
  <2>2. NotBehind(Len(delivered) + 1)
    BY <2>1, CurrentPosted DEF SharedInv
  <2>. QED BY <1>0, <1>1, <2>1, <2>2 DEF ReadInv, NotBehind, Current
<1>. QED BY <1>0, <1>2, <1>3, <1>4, <1>5

\* What is handed to TCP.input is in the window of its datagram.
LEMMA InputWindow ==
  ASSUME TypeOK, ControlInv, SharedInv, DeliveryInv, TcpInput
  PROVE  DeliveryInv'
<1> DEFINE n == Len(delivered) + 1
           d == [cells |-> payload, size |-> size, dst_hi |-> half, dst_lo |-> tcp_remote,
                 seen |-> taken]
<1>1. /\ n \in 1 .. Len(posted) /\ Current \in 1 .. taken /\ wire[Current] \in Packet
      /\ NotBehind(n) /\ Len(delivered) \in Nat
  BY CurrentPosted DEF SharedInv, TcpInput
<1>2. d \in Delivery /\ delivered \in Seq(Delivery)
  BY LenProperties DEF TypeOK, Delivery, Fetched
<1>3. /\ Len(delivered') = n /\ delivered'[n] = d
      /\ \A k \in 1 .. Len(delivered) : delivered'[k] = delivered[k]
      /\ UNCHANGED <<wire, posted, writes>> /\ main = "ips_low" /\ main' = "tcp"
  <2>1. delivered' = Append(delivered, d)
    BY DEF TcpInput
  <2>2. UNCHANGED <<wire, posted, writes>> /\ main = "ips_low" /\ main' = "tcp"
    BY DEF TcpInput
  <2>. QED BY <1>2, <2>1, <2>2, AppendProperties
<1>4. /\ size \in Current .. taken /\ half \in Current .. taken
      /\ tcp_remote \in Current .. taken
      /\ \A i \in 1 .. wire[Current] : payload[i] \in Current .. taken
  <2>1. size >= Current /\ half >= Current /\ tcp_remote >= Current /\ wire[Current] <= Cells
        /\ \A i \in 1 .. wire[Current] : payload[i] >= Current
    BY <1>1, <1>3 DEF DeliveryInv, ReadInv, NotBehind, Current
  <2>2. size \in 0 .. taken /\ half \in 0 .. taken /\ tcp_remote \in 0 .. taken /\ taken \in Nat
        /\ payload \in [1 .. Cells -> 0 .. taken]
    BY PostedTaken DEF TypeOK, Fetched
  <2>3. \A i \in 1 .. wire[Current] : i \in 1 .. Cells
    BY <1>1, <2>1, CellsAssumption DEF Packet
  <2>. QED BY <1>1, <2>1, <2>2, <2>3
<1>5. ASSUME NEW k \in 1 .. Len(delivered')
      PROVE  k \in 1 .. Len(delivered) \/ k = n
  BY <1>1, <1>3
<1>6. DeliveryWindow'
  <2>1. ASSUME NEW k \in 1 .. Len(delivered)
        PROVE  /\ k <= Len(posted) /\ delivered[k].size \in posted[k] .. delivered[k].seen
               /\ delivered[k].dst_hi \in posted[k] .. delivered[k].seen
               /\ delivered[k].dst_lo \in posted[k] .. delivered[k].seen
               /\ \A i \in 1 .. wire[posted[k]] :
                    delivered[k].cells[i] \in posted[k] .. delivered[k].seen
    BY DEF DeliveryInv, DeliveryWindow
  <2>2. d.seen = taken /\ d.size = size /\ d.dst_hi = half /\ d.dst_lo = tcp_remote
        /\ d.cells = payload /\ posted[n] = Current /\ n <= Len(posted)
    BY <1>1 DEF Current
  <2>. QED BY <1>1, <1>3, <1>4, <1>5, <2>1, <2>2 DEF DeliveryWindow
<1>. QED BY <1>3, <1>6 DEF DeliveryInv, ReadInv, SendInv, WriteWindow

\* What is handed to sock_ip_send is in the window of the last delivery.
LEMMA WriteStepWindow ==
  ASSUME TypeOK, ControlInv, SharedInv, DeliveryInv, WriteSent
  PROVE  DeliveryInv'
<1> DEFINE w == [to_hi |-> half, to_lo |-> tcp_remote, after |-> Len(delivered), seen |-> taken]
<1>1. Len(delivered) \in 1 .. Len(posted) /\ taken \in Nat
      /\ posted[Len(delivered)] \in 1 .. taken /\ NotBehind(Len(delivered))
  <2>1. Len(delivered) \in Nat \ {0}
    BY EmptySeq DEF TypeOK, WriteSent
  <2>. QED BY <2>1, CurrentPosted, PostedTaken DEF SharedInv
<1>2. w \in Segment /\ writes \in Seq(Segment) /\ writes' = Append(writes, w)
  BY <1>1 DEF TypeOK, Segment, WriteSent, Fetched
<1>3. /\ Len(writes') = Len(writes) + 1 /\ writes'[Len(writes) + 1] = w /\ Len(writes) \in Nat
      /\ \A k \in 1 .. Len(writes) : writes'[k] = writes[k]
  BY <1>2, AppendProperties, LenProperties
<1>4. tcp_remote \in posted[Len(delivered)] .. taken /\ half \in posted[Len(delivered)] .. taken
  BY <1>1 DEF NotBehind, TypeOK, Fetched, DeliveryInv, SendInv, WriteSent
<1>5. UNCHANGED <<wire, posted, delivered>> /\ main' \in {"loop", "tcp"}
  BY DEF WriteSent
<1>6. ASSUME NEW k \in 1 .. Len(writes') PROVE k \in 1 .. Len(writes) \/ k = Len(writes) + 1
  BY <1>3
<1>7. WriteWindow'
  BY <1>3, <1>4, <1>5, <1>6 DEF DeliveryInv, WriteWindow
<1>8. DeliveryWindow'
  BY <1>5 DEF DeliveryInv, DeliveryWindow
<1>. QED BY <1>5, <1>7, <1>8 DEF DeliveryInv, ReadInv, SendInv

\* Every step keeps the windows.
LEMMA StepDelivery ==
  ASSUME TypeOK, ControlInv, SharedInv, DeliveryInv, [Next]_vars
  PROVE  DeliveryInv'
<1>1. TypeOK' /\ Grows
  BY StepTypes, HistoryGrows
<1>2. CASE TcpInput
  BY <1>2, InputWindow
<1>3. CASE WriteSent
  BY <1>3, WriteStepWindow
<1>7. CASE Write
  <2>1. UNCHANGED <<delivered, writes, posted>> /\ half' = tcp_remote
        /\ main' \in {"loop_send", "tcp_send"} /\ Len(delivered) \in Nat \ {0}
    BY <1>7, EmptySeq DEF TypeOK, Write, history
  <2>2. tcp_remote >= posted[Len(delivered)]
    BY <2>1, CurrentPosted, PostedTaken DEF SharedInv, NotBehind
  <2>. QED BY <1>1, <2>1, <2>2, WindowsKept DEF DeliveryInv, ReadInv, SendInv
<1>4. CASE Resolve \/ CopyCell \/ ReadSize \/ ReadRemote
  <2>1. UNCHANGED <<delivered, writes>>
    BY <1>4 DEF Resolve, CopyCell, ReadSize, ReadRemote, history
  <2>. QED BY <1>1, <1>4, <2>1, ReadSteps, WindowsKept DEF DeliveryInv
<1>5. CASE Boot \/ LoopTop \/ TakeEvent \/ WaitTimeout \/ NetHandler \/ TakeFlags \/ TcpDone
  <2>1. UNCHANGED <<delivered, writes>>
        /\ main' \notin {"payload", "size", "ips", "ips_low", "loop_send", "tcp_send"}
    BY <1>5 DEF Boot, MainInitQueue, MainCreateThread, MainConnect, MainListen, LoopTop,
                TakeEvent, WaitTimeout, NetHandler, TakeFlags, TcpDone, history
  <2>. QED BY <1>1, <2>1, WindowsKept DEF DeliveryInv, ReadInv, SendInv
<1>6. CASE RxThread \/ (\E p \in Packet : Arrive(p)) \/ UNCHANGED vars
  <2>1. UNCHANGED <<main, local, delivered, writes>>
    BY <1>6 DEF RxThread, RxCreate, RxRecv, RxSetSize, RxAddNetEvent, Arrive, vars,
                local, history
  <2>. QED BY <1>1, <2>1, ReadKept, WindowsKept DEF DeliveryInv
<1>. QED BY <1>2, <1>3, <1>4, <1>5, <1>6, <1>7 DEF Next, MainThread, MainWrites, Dispatch

\* What the listener and riot_write have read, finished or not, is never older
\* than the datagram they are dealing with.
THEOREM DeliveryCorrect == Spec => []DeliveryInv
<1>1. Init => DeliveryInv
  BY EmptySeq DEF Init, DeliveryInv, ReadInv, SendInv, DeliveryWindow, WriteWindow
<1>. QED BY <1>1, StepDelivery, TypeCorrect, ControlCorrect, SharedCorrect, PTL DEF Spec

\* Each delivery answers one announced datagram, with bytes, length and sender
\* that are never older than it, for every buffer size and any preemption.
THEOREM DeliveriesInWindow == Spec => []DeliveryWindow
<1>1. DeliveryInv => DeliveryWindow
  BY DEF DeliveryInv
<1>. QED BY <1>1, DeliveryCorrect, PTL

\* riot_write never answers a sender older than the last packet delivered.
THEOREM WritesInWindow == Spec => []WriteWindow
<1>1. DeliveryInv => WriteWindow
  BY DEF DeliveryInv
<1>. QED BY <1>1, DeliveryCorrect, PTL

-----------------------------------------------------------------------------
(* The refinement of PacketMailbox: RxRecv takes, RxAddNetEvent announces,  *)
(* TcpInput delivers, and every other step leaves the mailbox alone.        *)
(* Beyond the invariants above this needs that nothing ever goes back in    *)
(* time: the buffer, and each thing read of it, is as new as the last       *)
(* delivery.                                                                *)

LastDelivery == delivered[Len(delivered)]

\* No part of the receive buffer, and no part of it that was read for the
\* delivery to come, is older than the same part of the last delivery.
NoOlderThanDelivered ==
  delivered # <<>> =>
    /\ tcp_hdr_size >= LastDelivery.size
    /\ tcp_remote >= LastDelivery.dst_hi /\ tcp_remote >= LastDelivery.dst_lo
    /\ \A i \in 1 .. Cells : tcpbuf[i] >= LastDelivery.cells[i]
    /\ main = "payload" =>
         \A i \in 1 .. Cells : i < cell => payload[i] >= LastDelivery.cells[i]
    /\ main \in {"size", "ips", "ips_low"} =>
         \A i \in 1 .. Cells : payload[i] >= LastDelivery.cells[i]
    /\ main \in {"ips", "ips_low"} => size >= LastDelivery.size
    /\ main = "ips_low" => half >= LastDelivery.dst_hi

\* The length that was read is that of a datagram announced no earlier than
\* the one being answered.
SizeAnnounced ==
  main \in {"ips", "ips_low"} => \E j \in Len(delivered) + 1 .. Len(posted) : size = posted[j]

\* The datagram in hand is newer than every announced one.
InHandNew == rx \in {"got", "post"} => \A k \in 1 .. Len(posted) : posted[k] < taken

\* Nothing read is newer than what the variable it was read of holds by now.
ReadsNotAhead ==
  /\ tcp_hdr_size >= size /\ tcp_remote >= half
  /\ \A i \in 1 .. Cells : tcpbuf[i] >= payload[i]

MailboxInv == NoOlderThanDelivered /\ ReadsNotAhead /\ SizeAnnounced /\ InHandNew

SafetyInv == TypeOK /\ ControlInv /\ SharedInv /\ DeliveryInv

-----------------------------------------------------------------------------

\* Announcing keeps up with taking: an announced datagram is never in hand again.
LEMMA InHandStep == SafetyInv /\ InHandNew /\ [Next]_vars => InHandNew'
<1> SUFFICES ASSUME SafetyInv, InHandNew, [Next]_vars PROVE InHandNew'
  OBVIOUS
<1>1. \A k \in 1 .. Len(posted) : posted[k] \in 1 .. taken
  BY PostedTaken DEF SafetyInv
<1>2. CASE RxRecv
  BY <1>1, <1>2, PostedTaken DEF SafetyInv, RxRecv, InHandNew, history
<1>3. CASE RxSetSize
  BY <1>3 DEF RxSetSize, InHandNew, history
<1>4. CASE RxCreate \/ RxAddNetEvent
  BY <1>4 DEF RxCreate, RxAddNetEvent, InHandNew
<1>5. CASE \/ \E p \in Packet : Arrive(p)
           \/ Boot \/ LoopTop \/ TakeEvent \/ WaitTimeout \/ Dispatch \/ Write \/ WriteSent
           \/ UNCHANGED vars
  <2>1. UNCHANGED <<taken, posted>> /\ rx' \in {rx, "create"}
    BY <1>5 DEF Arrive, Boot, MainInitQueue, MainCreateThread, MainConnect, MainListen, LoopTop,
                TakeEvent, WaitTimeout, Dispatch, NetHandler, TakeFlags, Resolve, CopyCell,
                ReadSize, ReadRemote, TcpInput, TcpDone, Write, WriteSent, vars, history
  <2>. QED BY <2>1 DEF InHandNew
<1>. QED BY <1>2, <1>3, <1>4, <1>5 DEF Next, RxThread, MainThread, MainWrites

\* The main thread reads a length only when it is the last announced one's.
LEMMA SizeStep == SafetyInv /\ SizeAnnounced /\ [Next]_vars => SizeAnnounced'
<1> SUFFICES ASSUME SafetyInv, SizeAnnounced, [Next]_vars PROVE SizeAnnounced'
  OBVIOUS
<1>1. Grows /\ Len(posted) \in Nat /\ Len(delivered) \in Nat
  BY HistoryGrows, PostedTaken, CurrentPosted DEF SafetyInv
<1>2. CASE MainRuns /\ ReadSize
  <2>1. main = "size" /\ posted # <<>> /\ Len(delivered) + 1 \in 1 .. Len(posted)
    <3>1. main = "size"
      BY <1>2 DEF ReadSize
    <3>2. Len(delivered) + 1 \in 1 .. Len(posted)
      BY <3>1, CurrentPosted DEF SafetyInv
    <3>. QED BY <1>1, <3>1, <3>2, EmptySeq
  <2>2. rx = "recv"
    BY <1>2, <2>1 DEF MainRuns, RxBlocked, SafetyInv, SharedInv
  <2>3. tcp_hdr_size = posted[Len(posted)]
    BY <2>1, <2>2 DEF SafetyInv, SharedInv, Last
  <2>. QED BY <1>1, <1>2, <2>1, <2>3 DEF SizeAnnounced, ReadSize, history
<1>3. CASE UNCHANGED <<main, size, delivered>>
  <2>1. Len(posted') \in Nat
    BY StepTypes, LenProperties DEF SafetyInv, TypeOK
  <2>. QED BY <1>1, <1>3, <2>1 DEF SizeAnnounced, Grows
<1>4. CASE main' \notin {"ips", "ips_low"}
  BY <1>4 DEF SizeAnnounced
<1>5. CASE RxThread \/ (\E p \in Packet : Arrive(p)) \/ UNCHANGED vars
  BY <1>3, <1>5 DEF RxThread, RxCreate, RxRecv, RxSetSize, RxAddNetEvent, Arrive, vars,
                    local, history
<1>8. CASE ReadRemote
  BY <1>8 DEF ReadRemote, SizeAnnounced, history
<1>6. CASE Boot \/ LoopTop \/ TakeEvent \/ WaitTimeout
  BY <1>4, <1>6 DEF Boot, MainInitQueue, MainCreateThread, MainConnect, MainListen, LoopTop,
                    TakeEvent, WaitTimeout
<1>7. CASE \/ NetHandler \/ TakeFlags \/ Resolve \/ CopyCell
           \/ TcpInput \/ TcpDone \/ Write \/ WriteSent
  BY <1>4, <1>7 DEF NetHandler, TakeFlags, Resolve, CopyCell, TcpInput, TcpDone, Write, WriteSent
<1>. QED BY <1>2, <1>5, <1>6, <1>7, <1>8 DEF Next, MainThread, MainWrites, Dispatch

-----------------------------------------------------------------------------

\* A delivery's parts are numbers.
LEMMA LastDeliveryType ==
  ASSUME TypeOK, delivered # <<>>
  PROVE  /\ Len(delivered) \in Nat \ {0} /\ LastDelivery \in Delivery /\ taken \in Nat
         /\ LastDelivery.size \in Nat /\ LastDelivery.dst_hi \in Nat /\ LastDelivery.dst_lo \in Nat
         /\ \A i \in 1 .. Cells : LastDelivery.cells[i] \in Nat
<1>1. delivered \in Seq(Delivery) /\ taken \in Nat
  BY LenProperties DEF TypeOK
<1>2. Len(delivered) \in 1 .. Len(delivered) /\ Len(delivered) \in Nat \ {0}
  BY <1>1, EmptySeq
<1>3. LastDelivery \in Delivery
  BY <1>1, <1>2, ElementOfSeq DEF LastDelivery
<1>4. /\ LastDelivery.size \in Fetched /\ LastDelivery.dst_hi \in Fetched
      /\ LastDelivery.dst_lo \in Fetched /\ LastDelivery.cells \in [1 .. Cells -> Fetched]
  BY <1>3 DEF Delivery
<1>5. \A i \in 1 .. Cells : LastDelivery.cells[i] \in Fetched
  BY <1>4
<1>6. Fetched \subseteq Nat
  BY <1>1 DEF Fetched
<1>. QED BY <1>1, <1>2, <1>3, <1>4, <1>5, <1>6

\* The socket thread only overwrites with what is newer.
LEMMA OlderRx ==
  ASSUME SafetyInv, NoOlderThanDelivered, RxThread \/ \E p \in Packet : Arrive(p)
  PROVE  NoOlderThanDelivered'
<1>1. UNCHANGED <<delivered, main, cell, payload, size, half>> /\ LastDelivery' = LastDelivery
  BY DEF RxThread, RxCreate, RxRecv, RxSetSize, RxAddNetEvent, Arrive, local, history, LastDelivery
<1>2. SUFFICES ASSUME delivered # <<>>
      PROVE  /\ tcp_hdr_size' >= LastDelivery.size
             /\ tcp_remote' >= LastDelivery.dst_hi /\ tcp_remote' >= LastDelivery.dst_lo
             /\ \A i \in 1 .. Cells : tcpbuf'[i] >= LastDelivery.cells[i]
  BY <1>1 DEF NoOlderThanDelivered
<1>3. /\ tcp_hdr_size \in 0 .. taken /\ tcp_remote \in 0 .. taken /\ taken \in Nat
      /\ \A i \in 1 .. Cells : tcpbuf[i] \in 0 .. taken
      /\ LastDelivery.size \in Nat /\ LastDelivery.dst_hi \in Nat /\ LastDelivery.dst_lo \in Nat
      /\ \A i \in 1 .. Cells : LastDelivery.cells[i] \in Nat
  BY <1>2, LastDeliveryType DEF SafetyInv, TypeOK, Fetched
<1>4. /\ tcp_hdr_size >= LastDelivery.size
      /\ tcp_remote >= LastDelivery.dst_hi /\ tcp_remote >= LastDelivery.dst_lo
      /\ \A i \in 1 .. Cells : tcpbuf[i] >= LastDelivery.cells[i]
  BY <1>2 DEF NoOlderThanDelivered
<1>5. tcp_hdr_size' \in {tcp_hdr_size, taken} /\ tcp_remote' \in {tcp_remote, taken + 1}
  BY DEF RxThread, RxCreate, RxRecv, RxSetSize, RxAddNetEvent, Arrive, shared
<1>6. \A i \in 1 .. Cells : tcpbuf'[i] \in {tcpbuf[i], taken + 1}
  BY DEF RxThread, RxCreate, RxRecv, RxSetSize, RxAddNetEvent, Arrive, shared
<1>. QED BY <1>3, <1>4, <1>5, <1>6

\* The main thread reads nothing older than what it delivered before.
LEMMA OlderMain ==
  ASSUME SafetyInv, NoOlderThanDelivered,
         \/ Boot \/ LoopTop \/ TakeEvent \/ WaitTimeout \/ NetHandler \/ TakeFlags \/ TcpDone
         \/ Resolve \/ CopyCell \/ ReadSize \/ ReadRemote \/ Write \/ WriteSent
         \/ UNCHANGED vars
  PROVE  NoOlderThanDelivered'
<1>1. UNCHANGED <<delivered, tcpbuf, tcp_hdr_size, tcp_remote>> /\ LastDelivery' = LastDelivery
  BY DEF Boot, MainInitQueue, MainCreateThread, MainConnect, MainListen, LoopTop, TakeEvent,
         WaitTimeout, NetHandler, TakeFlags, TcpDone, Resolve, CopyCell, ReadSize, ReadRemote,
         Write, WriteSent, vars, shared, history, LastDelivery
<1>2. CASE main' \notin {"payload", "size", "ips", "ips_low"}
  BY <1>1, <1>2 DEF NoOlderThanDelivered
<1>3. CASE UNCHANGED <<main, cell, payload, size, half>>
  BY <1>1, <1>3 DEF NoOlderThanDelivered
<1>4. CASE Resolve
  <2>1. cell' = 1 /\ main' \in {"payload", "loop"}
    BY <1>4 DEF Resolve
  <2>. QED BY <1>1, <2>1 DEF NoOlderThanDelivered
<1>5. CASE CopyCell
  <2>1. /\ main = "payload" /\ cell \in 1 .. Cells /\ cell' = cell + 1
        /\ main' = IF cell = Cells THEN "size" ELSE "payload"
        /\ payload \in [1 .. Cells -> Fetched]
        /\ payload' = [payload EXCEPT ![cell] = tcpbuf[cell]]
    BY <1>5 DEF CopyCell, SafetyInv, TypeOK
  <2>2. SUFFICES ASSUME delivered # <<>>, NEW i \in 1 .. Cells, i < cell'
        PROVE  payload'[i] >= LastDelivery.cells[i]
    BY <1>1, <2>1, CellsAssumption DEF NoOlderThanDelivered
  <2>3. payload'[i] = IF i = cell THEN tcpbuf[i] ELSE payload[i]
    BY <2>1
  <2>. QED BY <2>1, <2>2, <2>3 DEF NoOlderThanDelivered
<1>6. CASE ReadSize
  <2>1. main = "size" /\ main' = "ips" /\ size' = tcp_hdr_size /\ payload' = payload
    BY <1>6 DEF ReadSize
  <2>. QED BY <1>1, <2>1 DEF NoOlderThanDelivered
<1>7. CASE \/ Boot \/ LoopTop \/ TakeEvent \/ WaitTimeout \/ NetHandler \/ TakeFlags \/ TcpDone
           \/ Write \/ WriteSent
  BY <1>2, <1>7 DEF Boot, MainInitQueue, MainCreateThread, MainConnect, MainListen, LoopTop,
                    TakeEvent, WaitTimeout, NetHandler, TakeFlags, TcpDone, Write, WriteSent
<1>8. CASE UNCHANGED vars
  BY <1>3, <1>8 DEF vars, local
<1>9. CASE ReadRemote
  <2>1. main = "ips" /\ main' = "ips_low" /\ half' = tcp_remote /\ UNCHANGED <<payload, size>>
    BY <1>9 DEF ReadRemote
  <2>. QED BY <1>1, <2>1 DEF NoOlderThanDelivered
<1>. QED BY <1>4, <1>5, <1>6, <1>7, <1>8, <1>9

\* Right after a delivery, nothing in the buffer is older than it.
LEMMA OlderDeliver ==
  ASSUME SafetyInv, ReadsNotAhead, TcpInput
  PROVE  NoOlderThanDelivered'
<1> DEFINE d == [cells |-> payload, size |-> size, dst_hi |-> half, dst_lo |-> tcp_remote,
                 seen |-> taken]
<1>1. d \in Delivery /\ delivered \in Seq(Delivery) /\ delivered' = Append(delivered, d)
  BY LenProperties DEF SafetyInv, TypeOK, Delivery, Fetched, TcpInput
<1>2. LastDelivery' = d
  <2>1. Len(delivered') = Len(delivered) + 1 /\ delivered'[Len(delivered) + 1] = d
    BY <1>1, AppendProperties
  <2>. QED BY <2>1 DEF LastDelivery
<1>3. UNCHANGED <<tcpbuf, tcp_hdr_size, tcp_remote>> /\ main' = "tcp"
  BY DEF TcpInput, shared
<1>4. /\ tcp_hdr_size >= d.size /\ tcp_remote >= d.dst_hi /\ tcp_remote >= d.dst_lo
      /\ \A i \in 1 .. Cells : tcpbuf[i] >= d.cells[i]
  <2>1. tcp_remote \in Nat
    BY PostedTaken DEF SafetyInv, TypeOK, Fetched
  <2>. QED BY <2>1 DEF ReadsNotAhead
<1>. QED BY <1>2, <1>3, <1>4 DEF NoOlderThanDelivered

\* A read value never gets ahead of the variable it was read of.
LEMMA AheadStep == SafetyInv /\ ReadsNotAhead /\ [Next]_vars => ReadsNotAhead'
<1> SUFFICES ASSUME SafetyInv, ReadsNotAhead, [Next]_vars PROVE ReadsNotAhead'
  OBVIOUS
<1>1. /\ taken \in Nat /\ tcp_hdr_size \in 0 .. taken /\ size \in 0 .. taken
      /\ tcp_remote \in 0 .. taken /\ half \in 0 .. taken
      /\ payload \in [1 .. Cells -> 0 .. taken] /\ tcpbuf \in [1 .. Cells -> 0 .. taken]
  BY PostedTaken DEF SafetyInv, TypeOK, Fetched
<1>2. CASE RxThread \/ \E p \in Packet : Arrive(p)
  <2>1. UNCHANGED <<payload, size, half>> /\ tcp_hdr_size' \in {tcp_hdr_size, taken}
        /\ tcp_remote' \in {tcp_remote, taken + 1}
    BY <1>2 DEF RxThread, RxCreate, RxRecv, RxSetSize, RxAddNetEvent, Arrive, shared, local
  <2>2. \A i \in 1 .. Cells : tcpbuf'[i] \in {tcpbuf[i], taken + 1}
    BY <1>2 DEF RxThread, RxCreate, RxRecv, RxSetSize, RxAddNetEvent, Arrive, shared
  <2>. QED BY <1>1, <2>1, <2>2 DEF ReadsNotAhead
<1>3. CASE Resolve
  <2>1. /\ payload' = [i \in 1 .. Cells |-> 0]
        /\ UNCHANGED <<size, half, tcpbuf, tcp_hdr_size, tcp_remote>>
    BY <1>3 DEF Resolve, shared
  <2>. QED BY <1>1, <2>1 DEF ReadsNotAhead
<1>4. CASE CopyCell
  <2>1. payload' = [payload EXCEPT ![cell] = tcpbuf[cell]]
        /\ UNCHANGED <<size, half, tcpbuf, tcp_hdr_size, tcp_remote>>
    BY <1>4 DEF CopyCell, shared
  <2>. QED BY <1>1, <2>1 DEF ReadsNotAhead
<1>5. CASE ReadSize
  BY <1>1, <1>5 DEF ReadSize, ReadsNotAhead, shared
<1>7. CASE ReadRemote \/ Write
  <2>1. half' = tcp_remote /\ UNCHANGED <<payload, size, tcpbuf, tcp_hdr_size, tcp_remote>>
    BY <1>7 DEF ReadRemote, Write, shared
  <2>. QED BY <1>1, <2>1 DEF ReadsNotAhead
<1>6. CASE \/ Boot \/ LoopTop \/ TakeEvent \/ WaitTimeout \/ NetHandler \/ TakeFlags \/ TcpInput
           \/ TcpDone \/ WriteSent \/ UNCHANGED vars
  <2>1. UNCHANGED <<payload, size, half, tcpbuf, tcp_hdr_size, tcp_remote>>
    BY <1>6 DEF Boot, MainInitQueue, MainCreateThread, MainConnect, MainListen, LoopTop, TakeEvent,
                WaitTimeout, NetHandler, TakeFlags, TcpInput, TcpDone, WriteSent, vars, shared,
                local
  <2>. QED BY <2>1 DEF ReadsNotAhead
<1>. QED BY <1>2, <1>3, <1>4, <1>5, <1>6, <1>7 DEF Next, MainThread, MainWrites, Dispatch

\* No step goes back behind the last delivery.
LEMMA OlderStep ==
  SafetyInv /\ ReadsNotAhead /\ NoOlderThanDelivered /\ [Next]_vars => NoOlderThanDelivered'
BY OlderRx, OlderMain, OlderDeliver DEF Next, MainThread, MainWrites, Dispatch

\* Receive buffer, length and sender never go back in time, and neither does
\* what the listener reads of them: the part of the refinement that the safety
\* properties do not give.
THEOREM MailboxInvariant == Spec => [](SafetyInv /\ MailboxInv)
<1>1. Init => MailboxInv
  BY EmptySeq DEF Init, MailboxInv, NoOlderThanDelivered, SizeAnnounced, InHandNew, ReadsNotAhead
<1>2. SafetyInv /\ MailboxInv /\ [Next]_vars => MailboxInv'
  BY InHandStep, SizeStep, AheadStep, OlderStep DEF MailboxInv
<1>3. Spec => []SafetyInv
  BY TypeCorrect, ControlCorrect, SharedCorrect, DeliveryCorrect, PTL DEF SafetyInv
<1>. QED BY <1>1, <1>2, <1>3, PTL DEF Spec

-----------------------------------------------------------------------------
(* The mapping: the mailbox's variables are the receive path's own.        *)

MailboxStep == [Mailbox!Next]_(Mailbox!vars)

\* TcpInput delivers as the mailbox allows.
LEMMA DeliverRefines ==
  ASSUME SafetyInv, MailboxInv, TcpInput
  PROVE  Mailbox!Deliver
<1> DEFINE n == Len(delivered) + 1
           d == [cells |-> payload, size |-> size, dst_hi |-> half, dst_lo |-> tcp_remote,
                 seen |-> taken]
<1>1. main = "ips_low" /\ delivered' = Append(delivered, d) /\ UNCHANGED <<wire, taken, posted>>
  BY DEF TcpInput
<1>2. /\ n \in 1 .. Len(posted) /\ Len(posted) \in Nat /\ Len(delivered) \in Nat
      /\ posted[n] \in 1 .. taken /\ wire[posted[n]] \in Packet /\ NotBehind(n)
  BY <1>1, CurrentPosted, PostedTaken DEF SafetyInv, SharedInv, Current
<1>3. /\ taken \in Nat /\ size \in 0 .. taken /\ half \in 0 .. taken /\ tcp_remote \in 0 .. taken
      /\ payload \in [1 .. Cells -> 0 .. taken]
  BY PostedTaken DEF SafetyInv, TypeOK, Fetched
<1>4. /\ size \in posted[n] .. taken /\ half \in posted[n] .. taken
      /\ tcp_remote \in posted[n] .. taken
      /\ \A i \in 1 .. wire[posted[n]] : payload[i] >= posted[n]
  BY <1>1, <1>2, <1>3 DEF SafetyInv, DeliveryInv, ReadInv, NotBehind, Current
<1>5. \E j \in n .. Len(posted) : size = posted[j]
  BY <1>1 DEF MailboxInv, SizeAnnounced
<1>6. n > 1 => /\ size >= delivered[n - 1].size /\ half >= delivered[n - 1].dst_hi
               /\ tcp_remote >= delivered[n - 1].dst_lo
               /\ \A i \in 1 .. Cells : payload[i] >= delivered[n - 1].cells[i]
  <2>1. n > 1 => delivered # <<>> /\ delivered[n - 1] = LastDelivery
    BY <1>2, EmptySeq DEF LastDelivery
  <2>. QED BY <1>1, <2>1 DEF MailboxInv, NoOlderThanDelivered
<1>7. Mailbox!Deliverable(n, d)
  BY <1>4, <1>5, <1>6 DEF Mailbox!Deliverable
<1>8. Len(delivered) < Len(posted)
  BY <1>2
<1>. QED BY <1>1, <1>3, <1>7, <1>8 DEF Mailbox!Deliver

\* The socket thread and the network take, announce, or stutter.
LEMMA RxRefines ==
  ASSUME SafetyInv, MailboxInv, RxThread \/ \E p \in Packet : Arrive(p)
  PROVE  MailboxStep
<1>1. ASSUME NEW p \in Packet, Arrive(p) PROVE Mailbox!Arrive
  BY <1>1 DEF Arrive, Mailbox!Arrive, Packet, history
<1>2. CASE RxRecv
  <2>1. taken < Len(wire) /\ taken' = taken + 1 /\ UNCHANGED <<wire, posted, delivered>>
    BY <1>2 DEF RxRecv, history
  <2>. QED BY <2>1 DEF MailboxStep, Mailbox!Next, Mailbox!Take
<1>3. CASE RxAddNetEvent
  <2>1. CASE posted' = Append(posted, taken)
    <3>1. taken > 0 /\ wire[taken] <= Cells /\ \A k \in 1 .. Len(posted) : posted[k] < taken
      BY <1>3 DEF RxAddNetEvent, SafetyInv, TypeOK, SharedInv, MailboxInv, InHandNew
    <3>2. UNCHANGED <<wire, taken, delivered>>
      BY <1>3 DEF RxAddNetEvent
    <3>. QED BY <2>1, <3>1, <3>2 DEF MailboxStep, Mailbox!Next, Mailbox!Announce
  <2>2. CASE posted' = posted
    BY <1>3, <2>2 DEF RxAddNetEvent, MailboxStep, Mailbox!vars
  <2>. QED BY <1>3, <2>1, <2>2 DEF RxAddNetEvent
<1>4. CASE RxCreate \/ RxSetSize
  BY <1>4 DEF RxCreate, RxSetSize, MailboxStep, Mailbox!vars, history
<1>. QED BY <1>1, <1>2, <1>3, <1>4 DEF RxThread, MailboxStep, Mailbox!Next

\* The main thread's other steps leave the mailbox alone.
LEMMA MainStutters ==
  ASSUME \/ Boot \/ LoopTop \/ TakeEvent \/ WaitTimeout \/ NetHandler \/ TakeFlags \/ TcpDone
         \/ Resolve \/ CopyCell \/ ReadSize \/ ReadRemote \/ Write \/ WriteSent
         \/ UNCHANGED vars
  PROVE  UNCHANGED Mailbox!vars
BY DEF Boot, MainInitQueue, MainCreateThread, MainConnect, MainListen, LoopTop, TakeEvent,
       WaitTimeout, NetHandler, TakeFlags, TcpDone, Resolve, CopyCell, ReadSize, ReadRemote, Write,
       WriteSent, vars, history, Mailbox!vars

\* The receive path implements the mailbox: each announced datagram is answered
\* once and in order, by a delivery no part of which is older than it or than
\* the delivery before.
THEOREM Refinement == Spec => ImplementsMailbox
<1>1. Init => Mailbox!Init
  BY DEF Init, Mailbox!Init
<1>2. SafetyInv /\ MailboxInv /\ [Next]_vars => [Mailbox!Next]_(Mailbox!vars)
  BY RxRefines, DeliverRefines, MainStutters
     DEF Next, MainThread, MainWrites, Dispatch, MailboxStep, Mailbox!Next
<1>. QED BY <1>1, <1>2, MailboxInvariant, PTL DEF Spec, ImplementsMailbox, Mailbox!Spec
=============================================================================
