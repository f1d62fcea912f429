--------------------------- MODULE EventLoopProofs ---------------------------
(***************************************************************************)
(* What TLAPS proves of Event_loop.run whole.  Each of its steps is a step *)
(* of the receive path, of the timers, or of both at once, so what is      *)
(* proved of each half holds of the loop; what is proved on top is that    *)
(* the halves agree on where the main thread is and that packets do not    *)
(* starve the timers.                                                      *)
(***************************************************************************)
EXTENDS EventLoop, RiotNetProofs, RiotTimeProofs

\* A sleeper that a packet has overtaken is due, in the queue, and the turn of
\* the loop that is under way has not finished waking.
Overtaken(s) ==
  /\ Due(s) /\ InQueue(s)
  /\ pc \in {"dispatch", "paused", "restart", "woken"}

\* What makes TimersNotStarved inductive.
BypassOK ==
  /\ bypass \in [1 .. MaxSleeps -> 0 .. 1]
  /\ \A s \in 1 .. MaxSleeps :
       bypass[s] = 1 => s <= Len(sleepers) /\ (Pending(s) => Overtaken(s))

Dispatching_places ==
  {"handler", "flags", "resolve", "payload", "size", "ips", "ips_low", "tcp", "tcp_send"}

\* The two halves are at corresponding places.
PlacesAgree ==
  /\ main = "wait" <=> pc = "waiting"
  /\ main \in Dispatching_places <=> pc = "dispatch"

LoopInv == TypeOK /\ TimeInv /\ PlacesAgree /\ BypassOK

-----------------------------------------------------------------------------
(* The halves.                                                             *)

\* A step of the loop is one of the receive path and one of the timers.
LEMMA StepOfBoth ==
  ASSUME [LoopNext]_loopVars
  PROVE  [Next]_vars /\ [TimeNext]_timeVars
<1>1. CASE UNCHANGED loopVars
  BY <1>1 DEF loopVars
<1>2. CASE LoopNext
  <2>1. CASE (\E p \in Packet : NetOnly(Arrive(p))) \/ NetOnly(RxThread) \/ Booting \/ Sending
             \/ Writing
    BY <2>1 DEF NetOnly, Booting, Sending, Writing, Next, MainThread, MainWrites
  <2>2. CASE NetOnly(\E p \in Packet : Arrive(p))
    BY <2>2 DEF NetOnly, Next
  <2>3. CASE TimeOnly(Tick) \/ Turning \/ Application
    BY <2>3 DEF TimeOnly, Turning, Application, TimeNext, Loop, Turn
  <2>4. CASE StartWait
    BY <2>4 DEF StartWait, Next, MainThread, TimeNext, Loop, Turn
  <2>5. CASE WaitEnds \/ TakePacket
    BY <2>5 DEF WaitEnds, TakePacket, Next, MainThread, TimeNext, Loop
  <2>6. CASE Dispatching
    BY <2>6 DEF Dispatching, Next, MainThread, TimeNext, Loop
  <2>. QED BY <1>2, <2>1, <2>2, <2>3, <2>4, <2>5, <2>6 DEF LoopNext, MainLoop
<1>. QED BY <1>1, <1>2

-----------------------------------------------------------------------------
(* Where the main thread is.                                               *)

\* The socket thread and the network leave the main thread where it is.
LEMMA RxLeavesMain ==
  ASSUME RxThread \/ \E p \in Packet : Arrive(p)
  PROVE  main' = main
BY DEF RxThread, RxCreate, RxRecv, RxSetSize, RxAddNetEvent, Arrive

\* Every step moves the two halves together.
LEMMA PlacesStep ==
  ASSUME TypeOK, PlacesAgree, [LoopNext]_loopVars
  PROVE  PlacesAgree'
<1>. USE DEF PlacesAgree, Dispatching_places
<1>1. CASE UNCHANGED loopVars
  BY <1>1 DEF loopVars, vars, timeVars
<1>2. CASE NetOnly(RxThread) \/ NetOnly(\E p \in Packet : Arrive(p))
  BY <1>2, RxLeavesMain DEF NetOnly, timeVars
<1>3. CASE TimeOnly(Tick) \/ Application
  <2>1. UNCHANGED <<main, pc>>
    BY <1>3 DEF TimeOnly, Tick, Application, App, Sleep_ns, Cancel, vars
  <2>. QED BY <2>1
<1>4. CASE Booting
  <2>1. UNCHANGED pc /\ main \notin Dispatching_places \cup {"wait"}
        /\ main' \notin Dispatching_places \cup {"wait"}
    BY <1>4 DEF Booting, NetOnly, timeVars, Boot, MainInitQueue, MainCreateThread, MainConnect,
                MainListen
  <2>. QED BY <2>1
<1>5. CASE Turning
  <2>1. main' = main /\ main = "loop" /\ pc' \notin {"waiting", "dispatch"}
    BY <1>5 DEF Turning, TimeOnly, vars, StartRestart, DropCanceled, Wakeup, WokenReturns,
                RestartDone, Merge, Selected, ReadClock, MainExits
  <2>. QED BY <2>1
<1>6. CASE Writing
  <2>1. UNCHANGED pc /\ pc \in {"paused", "woken", "enter", "dispatch"}
        /\ \/ main = "loop" /\ main' = "loop_send"
           \/ main = "tcp" /\ main' = "tcp_send"
    BY <1>6 DEF Writing, Callback, NetOnly, timeVars, MainWrites, Write
  <2>. QED BY <2>1
<1>7. CASE Sending
  <2>1. UNCHANGED pc
        /\ \/ main = "loop_send" /\ main' = "loop"
           \/ main = "tcp_send" /\ main' = "tcp"
    BY <1>7 DEF Sending, NetOnly, timeVars, WriteSent
  <2>. QED BY <2>1
<1>8. CASE StartWait
  BY <1>8 DEF StartWait, LoopTop, StartTimer
<1>9. CASE WaitEnds
  BY <1>9 DEF WaitEnds, WaitTimeout, WaitExpires
<1>10. CASE TakePacket
  BY <1>10 DEF TakePacket, TakeEvent, WaitEvent
<1>11. CASE Dispatching
  <2>1. main \in Dispatching_places /\ pc = "dispatch"
        /\ main' \in Dispatching_places \cup {"loop"}
    BY <1>11 DEF Dispatching, Dispatch, NetHandler, TakeFlags, Resolve, CopyCell, ReadSize,
                 ReadRemote, TcpInput, TcpDone
  <2>2. IF main' = "loop" THEN pc' = "paused" ELSE pc' = pc
    BY <1>11 DEF Dispatching, DispatchDone, timeVars
  <2>. QED BY <2>1, <2>2
<1>. QED BY <1>1, <1>2, <1>3, <1>4, <1>5, <1>6, <1>7, <1>8, <1>9, <1>10, <1>11
         DEF LoopNext, MainLoop

-----------------------------------------------------------------------------
(* Packets and timers.                                                     *)

\* A set of natural numbers that is not empty has a least element: the sets of
\* numbers up to each of them are finite, and strict inclusion of finite sets
\* is well founded.
LEMMA LeastOf ==
  ASSUME NEW T \in SUBSET Nat, T # {}
  PROVE  \E m \in T : \A k \in T : m <= k
<1>. DEFINE U == {0 .. n : n \in T}
<1>1. U \subseteq FiniteSubsetsOf(Nat) /\ U # {}
  <2>1. \A n \in T : IsFiniteSet(0 .. n) /\ 0 .. n \subseteq Nat
    BY FS_Interval
  <2>2. \A n \in T : 0 .. n \in FiniteSubsetsOf(Nat)
    BY <2>1 DEF FiniteSubsetsOf
  <2>. QED BY <2>2
<1>2. IsWellFoundedOn(StrictSubsetOrdering(Nat), FiniteSubsetsOf(Nat))
  BY FS_StrictSubsetOrderingWellFounded
<1>3. PICK x \in U : \A y \in U : ~(<<y, x>> \in StrictSubsetOrdering(Nat))
  <2>. HIDE DEF U
  <2>. QED BY <1>1, <1>2, WFMin
<1>4. PICK m \in T : x = 0 .. m
  BY <1>3
<1>5. ASSUME NEW k \in T, k < m PROVE FALSE
  <2>1. 0 .. k \subseteq 0 .. m /\ 0 .. k # 0 .. m
    BY <1>5
  <2>2. 0 .. k \in U /\ 0 .. m \in U
    OBVIOUS
  <2>3. <<0 .. k, 0 .. m>> \in StrictSubsetOrdering(Nat)
    BY <2>1, <2>2, <1>1 DEF StrictSubsetOrdering, FiniteSubsetsOf
  <2>. QED BY <2>2, <2>3, <1>3, <1>4
<1>. QED BY <1>4, <1>5

\* When restart_threads is done no pending sleeper of the queue is due: the
\* minimal one would be, and would be woken or dropped first.
LEMMA RestartLeavesNoneDue ==
  ASSUME TimeInv, RestartDone, NEW s \in 1 .. Len(sleepers), InQueue(s)
  PROVE  ~InThePast(sleepers[s].time)
<1>1. TimeTypeOK
  BY DEF TimeInv
<1>2. \A k \in Key : Time(k) \in Nat
  BY <1>1, TypeFacts, SleeperFields DEF Time
<1>. DEFINE T == {Time(k) : k \in Key}
<1>3. T \in SUBSET Nat /\ T # {}
  BY <1>2 DEF InQueue
<1>4. PICK m \in T : \A t \in T : m <= t
  <2>. HIDE DEF T
  <2>. QED BY <1>3, LeastOf
<1>5. PICK k \in Key : Time(k) = m
  BY <1>4
<1>6. Minimal(k)
  BY <1>4, <1>5 DEF Minimal
<1>7. ~InThePast(m)
  BY <1>5, <1>6 DEF RestartDone
<1>8. m <= sleepers[s].time /\ sleepers[s].time \in Nat /\ m \in Nat
  BY <1>1, <1>3, <1>4, TypeFacts, SleeperFields DEF InQueue, Time
<1>. QED BY <1>1, <1>7, <1>8, TypeFacts DEF InThePast

\* A sleeper that is pending, in the queue and due stays so through a step that
\* keeps its record and its key.
LEMMA OvertakenKept ==
  ASSUME TimeInv, NEW s \in 1 .. Len(sleepers), Pending(s)' => Pending(s) /\ Overtaken(s),
         Pending(s)' => sleepers'[s].time = sleepers[s].time,
         now' \in Nat, now' >= now, s <= Len(sleepers'),
         Pending(s)' => (InQueue(s) => InQueue(s)'),
         Pending(s)' => pc' \in {"dispatch", "paused", "restart", "woken"}
  PROVE  Pending(s)' => Overtaken(s)'
<1>. SUFFICES ASSUME Pending(s)' PROVE Overtaken(s)'
  OBVIOUS
<1>1. sleepers[s].time \in Nat /\ now \in Nat
  BY TypeFacts, SleeperFields DEF TimeInv
<1>. QED BY <1>1 DEF Overtaken, Due, InThePast

\* The application wakes nobody, and takes nobody out of the queue.
LEMMA AppKeepsOvertaken ==
  ASSUME TimeInv, App, NEW s \in 1 .. Len(sleepers), Pending(s) => Overtaken(s)
  PROVE  s \in 1 .. Len(sleepers') /\ (Pending(s)' => Overtaken(s)')
<1>1. UNCHANGED <<now, sleep_queue, pc>> /\ now \in Nat /\ now' >= now
  <2>1. now \in Nat
    BY TypeFacts DEF TimeInv
  <2>. QED BY <2>1 DEF App, Sleep_ns, Cancel, waiting
<1>2. /\ s \in 1 .. Len(sleepers') /\ (Pending(s)' => Pending(s))
      /\ Pending(s)' => sleepers'[s].time = sleepers[s].time
  <2>1. CASE \E d \in Delays : Sleep_ns(d)
    <3>1. PICK d \in Delays : Sleep_ns(d)
      BY <2>1
    <3>2. NewSleeper(d) \in Sleeper /\ sleepers' = Append(sleepers, NewSleeper(d))
      BY <3>1, NewSleeperType DEF TimeInv, Sleep_ns
    <3>3. Len(sleepers') = Len(sleepers) + 1 /\ sleepers'[s] = sleepers[s]
      BY <3>2, Added DEF TimeInv
    <3>. QED BY <3>3, TypeFacts DEF TimeInv, Pending
  <2>2. CASE \E c \in 1 .. Len(sleepers) : Cancel(c)
    <3>1. PICK c \in 1 .. Len(sleepers) : Cancel(c)
      BY <2>2
    <3>. DEFINE r == [sleepers[c] EXCEPT !.canceled = TRUE]
    <3>2. r \in Sleeper /\ r.canceled /\ sleepers' = [sleepers EXCEPT ![c] = r]
      BY <3>1, TypeFacts DEF TimeInv, Cancel, Sleeper
    <3>. HIDE DEF r
    <3>3. Len(sleepers') = Len(sleepers) /\ sleepers'[s] = IF s = c THEN r ELSE sleepers[s]
      BY <3>2, Replaced DEF TimeInv
    <3>. QED BY <3>2, <3>3 DEF Pending
  <2>. QED BY <2>1, <2>2 DEF App
<1>3. Pending(s)' => (InQueue(s) => InQueue(s)') /\ pc' \in {"dispatch", "paused", "restart", "woken"}
  BY <1>1, <1>2 DEF InQueue, Key, Overtaken
<1>. QED BY <1>1, <1>2, <1>3, OvertakenKept

\* Taking a key out of the queue ends its sleeper, and leaves the others.
LEMMA RemovalKeepsOvertaken ==
  ASSUME TimeInv, DropCanceled \/ Wakeup,
         NEW s \in 1 .. Len(sleepers), Pending(s) => Overtaken(s)
  PROVE  s \in 1 .. Len(sleepers') /\ (Pending(s)' => Overtaken(s)')
<1>1. PICK k \in Key, r \in Sleeper :
        /\ sleep_queue' = Without(k)
        /\ sleepers' = [sleepers EXCEPT ![sleep_queue[k]] = r]
        /\ r.canceled \/ r.woken # NONE
        /\ UNCHANGED now
        /\ pc \in {"restart", "select"}
        /\ pc' = pc \/ pc' = "woken"
  <2>1. CASE DropCanceled
    <3>1. PICK k \in Key : Canceled(k) /\ sleep_queue' = Without(k)
      BY <2>1 DEF DropCanceled
    <3>2. sleepers[sleep_queue[k]] \in Sleeper /\ sleepers[sleep_queue[k]].canceled
          /\ sleepers' = [sleepers EXCEPT ![sleep_queue[k]] = sleepers[sleep_queue[k]]]
      <4>1. sleepers' = sleepers /\ sleepers \in [1 .. Len(sleepers) -> Sleeper]
        BY <2>1, LenProperties DEF TimeInv, TimeTypeOK, DropCanceled
      <4>. QED BY <3>1, <4>1, TypeFacts DEF TimeInv, Canceled
    <3>3. UNCHANGED <<now, pc>> /\ pc \in {"restart", "select"}
      BY <2>1 DEF DropCanceled
    <3>. QED BY <3>1, <3>2, <3>3
  <2>2. CASE Wakeup
    <3>1. PICK k \in Key : /\ sleep_queue' = Without(k)
                           /\ sleepers' = [sleepers EXCEPT ![sleep_queue[k]].woken = now]
      BY <2>2 DEF Wakeup
    <3>2. sleepers[sleep_queue[k]] \in Sleeper /\ now \in 0 .. MaxTime /\ now \in Nat
      BY TypeFacts DEF TimeInv, TimeTypeOK
    <3>. DEFINE r == [sleepers[sleep_queue[k]] EXCEPT !.woken = now]
    <3>3. r \in Sleeper /\ r.woken # NONE
      BY <3>2, NoneAssumption DEF Sleeper
    <3>4. sleepers' = [sleepers EXCEPT ![sleep_queue[k]] = r]
      BY <3>1
    <3>5. UNCHANGED now /\ pc = "restart" /\ pc' = "woken"
      BY <2>2 DEF Wakeup
    <3>. HIDE DEF r
    <3>. QED BY <3>1, <3>3, <3>4, <3>5
  <2>. QED BY <2>1, <2>2
<1>2. PICK t \in 1 .. Len(sleepers) : t = sleep_queue[k]
  BY TypeFacts DEF TimeInv
<1>3. /\ Len(sleepers') = Len(sleepers)
      /\ sleepers'[s] = IF s = t THEN r ELSE sleepers[s]
  <2>1. sleepers' = [sleepers EXCEPT ![t] = r] /\ TimeTypeOK
    BY <1>1, <1>2 DEF TimeInv
  <2>. QED BY ONLY <2>1, t \in 1 .. Len(sleepers), r \in Sleeper, s \in 1 .. Len(sleepers), Replaced
<1>4. Pending(s)' => s # t /\ Pending(s)
  BY <1>1, <1>3 DEF Pending
<1>5. s # t => (InQueue(s) => InQueue(s)')
  <2>1. Key' = Key \ {k} /\ \A j \in Key' : sleep_queue'[j] = sleep_queue[j]
    BY <1>1 DEF Without, Key
  <2>. QED BY <1>2, <2>1 DEF InQueue
<1>6. now \in Nat /\ now' >= now /\ now' \in Nat
  BY <1>1, TypeFacts DEF TimeInv
<1>7. Pending(s)' => pc' \in {"dispatch", "paused", "restart", "woken"}
  BY <1>1, <1>4 DEF Overtaken
<1>8. s \in 1 .. Len(sleepers')
  BY <1>3
<1>. QED BY <1>1, <1>3, <1>4, <1>5, <1>6, <1>7, <1>8, OvertakenKept

\* No step of the timers but the taking of a packet makes an exception: an
\* overtaken sleeper stays due and queued until the turn has woken it.
LEMMA TimeKeepsOvertaken ==
  ASSUME TimeInv, [TimeNext]_timeVars, ~WaitEvent,
         NEW s \in 1 .. Len(sleepers), Pending(s) => Overtaken(s)
  PROVE  s \in 1 .. Len(sleepers') /\ (Pending(s)' => Overtaken(s)')
<1>1. CASE App \/ DropCanceled \/ Wakeup
  BY <1>1, AppKeepsOvertaken, RemovalKeepsOvertaken
<1>2. CASE UNCHANGED timeVars \/ Tick \/ StartRestart \/ WokenReturns \/ DispatchDone
  <2>1. /\ UNCHANGED <<sleepers, sleep_queue>> /\ now \in Nat /\ now' \in Nat /\ now' >= now
    <3>1. now \in Nat
      BY TypeFacts DEF TimeInv
    <3>. QED BY <1>2, <3>1 DEF timeVars, Tick, StartRestart, WokenReturns, DispatchDone, queues
  <2>2. pc' = pc \/ pc' \in {"dispatch", "paused", "restart", "woken"}
    BY <1>2 DEF timeVars, Tick, StartRestart, WokenReturns, DispatchDone
  <2>3. (Pending(s)' <=> Pending(s)) /\ (InQueue(s)' <=> InQueue(s))
    BY <2>1 DEF Pending, InQueue, Key
  <2>4. Pending(s) => pc' \in {"dispatch", "paused", "restart", "woken"}
    BY <2>2 DEF Overtaken
  <2>5. s \in 1 .. Len(sleepers')
    BY <2>1
  <2>. QED BY <2>1, <2>3, <2>4, <2>5, OvertakenKept
<1>3. CASE RestartDone
  <2>1. UNCHANGED sleepers
    BY <1>3 DEF RestartDone, queues
  <2>2. ~Pending(s)
    BY <1>3, RestartLeavesNoneDue DEF Overtaken, Due
  <2>. QED BY <2>1, <2>2 DEF Pending
<1>4. CASE Merge \/ Selected \/ ReadClock \/ StartTimer \/ WaitExpires \/ MainExits
  <2>1. UNCHANGED sleepers /\ pc \notin {"dispatch", "paused", "restart", "woken"}
    BY <1>4 DEF Merge, Selected, ReadClock, StartTimer, WaitExpires, MainExits, queues
  <2>. QED BY <2>1 DEF Pending, Overtaken
<1>. QED BY <1>1, <1>2, <1>3, <1>4 DEF TimeNext, Loop, Turn

\* A packet is counted against a sleeper at most once: the one that finds it due
\* ends the wait, and the next wait begins after it was woken.
LEMMA BypassStep ==
  ASSUME TimeInv, BypassOK, [LoopNext]_loopVars
  PROVE  BypassOK'
<1>1. CASE TakePacket
  <2>1. /\ pc = "waiting" /\ pc' = "dispatch"
        /\ UNCHANGED <<now, sleepers, new_sleeps, sleep_queue>>
        /\ bypass' = [s \in 1 .. MaxSleeps |-> IF Due(s) THEN bypass[s] + 1 ELSE bypass[s]]
    BY <1>1 DEF TakePacket, WaitEvent, queues
  <2>2. new_sleeps = <<>> /\ PlacedOnce /\ Len(new_sleeps) = 0
    BY <2>1, EmptySeq DEF TimeInv, WaitOK
  <2>3. ASSUME NEW s \in 1 .. MaxSleeps
        PROVE  /\ bypass[s] = 1 => ~Due(s)
               /\ Due(s) => s \in 1 .. Len(sleepers) /\ InQueue(s)
    <3>1. bypass[s] = 1 => ~Due(s)
      BY <2>1 DEF BypassOK, Overtaken, Due
    <3>2. ASSUME Due(s) PROVE s \in 1 .. Len(sleepers) /\ InQueue(s)
      <4>1. s \in 1 .. Len(sleepers) /\ Pending(s)
        BY <3>2, TypeFacts DEF Due, TimeInv
      <4>2. ~InNew(s)
        BY <2>2 DEF InNew
      <4>. QED BY <2>2, <4>1, <4>2 DEF PlacedOnce
    <3>. QED BY <3>1, <3>2
  <2>4. bypass' \in [1 .. MaxSleeps -> 0 .. 1]
    <3>1. \A s \in 1 .. MaxSleeps : bypass[s] \in 0 .. 1
      BY DEF BypassOK
    <3>2. \A s \in 1 .. MaxSleeps : (IF Due(s) THEN bypass[s] + 1 ELSE bypass[s]) \in 0 .. 1
      BY <2>3, <3>1
    <3>. QED BY <2>1, <3>2
  <2>5. ASSUME NEW s \in 1 .. MaxSleeps, bypass'[s] = 1
        PROVE  s <= Len(sleepers') /\ (Pending(s)' => Overtaken(s)')
    <3>1. (Pending(s)' <=> Pending(s)) /\ (InQueue(s)' <=> InQueue(s)) /\ (Due(s)' <=> Due(s))
      BY <2>1 DEF Pending, InQueue, Key, Due, InThePast
    <3>2. CASE Due(s)
      BY <2>1, <2>3, <3>1, <3>2 DEF Overtaken, Due
    <3>3. CASE ~Due(s)
      <4>1. bypass[s] = 1
        BY <2>1, <2>5, <3>3
      <4>. QED BY <2>1, <3>1, <3>3, <4>1 DEF BypassOK, Overtaken
    <3>. QED BY <3>2, <3>3
  <2>. QED BY <2>4, <2>5 DEF BypassOK
<1>2. CASE ~TakePacket
  <2>1. UNCHANGED bypass /\ ~WaitEvent
    <3>1. CASE UNCHANGED loopVars
      BY <3>1 DEF loopVars, timeVars, WaitEvent
    <3>2. CASE NetOnly(RxThread) \/ NetOnly(\E p \in Packet : Arrive(p)) \/ Booting \/ Sending
               \/ Writing
      BY <3>2 DEF NetOnly, Booting, Sending, Writing, timeVars, WaitEvent
    <3>3. CASE TimeOnly(Tick) \/ Application
      BY <3>3 DEF TimeOnly, Tick, Application, App, Sleep_ns, Cancel, WaitEvent
    <3>4. CASE Turning
      BY <3>4 DEF Turning, TimeOnly, StartRestart, DropCanceled, Wakeup, WokenReturns,
                  RestartDone, Merge, Selected, ReadClock, MainExits, WaitEvent
    <3>5. CASE StartWait \/ WaitEnds \/ Dispatching
      BY <3>5 DEF StartWait, WaitEnds, Dispatching, StartTimer, WaitExpires, DispatchDone,
                  timeVars, WaitEvent
    <3>. QED BY <1>2, <3>1, <3>2, <3>3, <3>4, <3>5 DEF LoopNext, MainLoop
  <2>2. [TimeNext]_timeVars
    BY StepOfBoth
  <2>3. ASSUME NEW s \in 1 .. MaxSleeps, bypass'[s] = 1
        PROVE  s <= Len(sleepers') /\ (Pending(s)' => Overtaken(s)')
    <3>1. s \in 1 .. Len(sleepers) /\ (Pending(s) => Overtaken(s))
      BY <2>1, <2>3, TypeFacts DEF BypassOK, TimeInv
    <3>2. s \in 1 .. Len(sleepers') /\ (Pending(s)' => Overtaken(s)')
      BY <2>1, <2>2, <3>1, TimeKeepsOvertaken
    <3>. QED BY <3>2
  <2>. QED BY <2>1, <2>3 DEF BypassOK
<1>. QED BY <1>1, <1>2

-----------------------------------------------------------------------------
(* What follows for every behaviour of the loop.                           *)

\* The receive path keeps its invariants inside the loop.
THEOREM LoopSafety == LoopSpec => [](TypeOK /\ ControlInv /\ SharedInv /\ DeliveryInv)
<1>1. LoopInit => TypeOK /\ ControlInv /\ SharedInv /\ DeliveryInv
  <2>1. Init => DeliveryInv
    BY EmptySeq DEF Init, DeliveryInv, ReadInv, SendInv, DeliveryWindow, WriteWindow
  <2>. QED BY <2>1, InitTypes, InitControl, InitShared DEF LoopInit
<1>2. TypeOK /\ ControlInv /\ SharedInv /\ DeliveryInv /\ [LoopNext]_loopVars
        => (TypeOK /\ ControlInv /\ SharedInv /\ DeliveryInv)'
  <2>1. TypeOK /\ ControlInv /\ SharedInv /\ [Next]_vars => SharedInv'
    BY ArriveShared, RxShared, MainShared DEF Next, MainThread, MainWrites
  <2>. QED BY <2>1, StepOfBoth, StepTypes, StepControl, StepDelivery
<1>. QED BY <1>1, <1>2, PTL DEF LoopSpec

\* The loop's own invariant, on top of the two halves'.
THEOREM LoopCorrect == LoopSpec => []LoopInv
<1>1. LoopInit => LoopInv
  <2>. SUFFICES ASSUME LoopInit PROVE LoopInv
    OBVIOUS
  <2>1. TypeOK /\ TimeInv
    BY InitTypes, InitTime DEF LoopInit
  <2>2. PlacesAgree
    BY DEF LoopInit, Init, TimeInit, PlacesAgree, Dispatching_places
  <2>3. BypassOK
    BY DEF LoopInit, BypassOK
  <2>. QED BY <2>1, <2>2, <2>3 DEF LoopInv
<1>2. LoopInv /\ [LoopNext]_loopVars => LoopInv'
  BY StepOfBoth, StepTypes, StepTime, PlacesStep, BypassStep DEF LoopInv
<1>. QED BY <1>1, <1>2, PTL DEF LoopSpec

\* The main thread is where both halves say it is, for every number of packets
\* and sleepers: the timers turn only between two dispatches.
THEOREM LoopPlaces == LoopSpec => []LoopTypeOK
<1>1. LoopInv => LoopTypeOK
  <2>1. BypassOK => bypass \in [1 .. MaxSleeps -> Nat]
    BY DEF BypassOK
  <2>. QED BY <2>1 DEF LoopInv, TimeInv, PlacesAgree, Dispatching_places, LoopTypeOK
<1>. QED BY <1>1, LoopCorrect, PTL

\* However many packets are queued, at most one is taken between the moment a
\* sleeper is due and the moment it is woken.
THEOREM TrafficStarvesNoTimer == LoopSpec => []TimersNotStarved
<1>1. LoopInv => TimersNotStarved
  BY DEF LoopInv, BypassOK, TimersNotStarved
<1>. QED BY <1>1, LoopCorrect, PTL

\* No wake-up of the loop is lost, whatever the timers do between two packets.
THEOREM LoopLosesNoEvent == LoopSpec => [](OneDeliveryPerEvent /\ DeliveryWindow)
<1>1. ControlInv /\ DeliveryInv => OneDeliveryPerEvent /\ DeliveryWindow
  BY DEF ControlInv, DeliveryInv
<1>. QED BY <1>1, LoopSafety, PTL

\* What the loop waits for is the earliest deadline, and no sleeper is lost or
\* woken twice, whatever packets come in between.
THEOREM LoopKeepsTimers == LoopSpec => [](WaitsForEarliest /\ PlacedOnce /\ OneOutcome)
<1>1. LoopInv => WaitsForEarliest /\ PlacedOnce /\ OneOutcome
  BY DEF LoopInv, TimeInv, WaitOK, Records, RecordOK, OneOutcome
<1>. QED BY <1>1, LoopCorrect, PTL
=============================================================================
