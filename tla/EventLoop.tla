------------------------------ MODULE EventLoop ------------------------------
(***************************************************************************)
(* Event_loop.run whole: the timers of RiotTime and the receive path of    *)
(* RiotNet, joined where the code joins them.  The main thread is in one   *)
(* place at a time: it turns the timers while RiotNet has it in "loop",    *)
(* calls the wait, and dispatches a packet while RiotTime has it in        *)
(* "dispatch".  The clock and the socket thread go on beside it.           *)
(***************************************************************************)
EXTENDS RiotNet, RiotTime

VARIABLE bypass   \* history: packets taken while a sleeper was due

loopVars == <<vars, timeVars, bypass>>

Due(s) == s <= Len(sleepers) /\ Pending(s) /\ InThePast(sleepers[s].time)

LoopInit == Init /\ TimeInit /\ bypass = [s \in 1 .. MaxSleeps |-> 0]

NetOnly(A) == A /\ UNCHANGED <<timeVars, bypass>>
TimeOnly(A) == A /\ UNCHANGED <<vars, bypass>>

-----------------------------------------------------------------------------

\* MainListen is the last step of boot; the loop starts from there.
Booting == NetOnly(MainRuns /\ Boot)

\* What the loop does with its timers before it waits.
Turning ==
  /\ MainRuns /\ main = "loop"
  /\ TimeOnly(StartRestart \/ DropCanceled \/ Wakeup \/ WokenReturns \/ RestartDone
              \/ Merge \/ Selected \/ ReadClock \/ MainExits)

\* The application sleeps and cancels from a callback, a hook, or while it
\* handles a packet; IP.listen is set up from such code too.
Application == MainRuns /\ main \in {"listen", "loop", "tcp"} /\ TimeOnly(App)

\* The TCP stack writes from a timer's callback or from its packet handler.
Writing == Callback /\ NetOnly(MainWrites)

Sending == NetOnly(MainRuns /\ WriteSent)

\* An event loop that goes straight back to the wait while events are queued.
StartWaitBusy ==
  /\ MainRuns /\ LoopTop
  /\ \/ StartTimer
     \/ /\ QUEUE > 0 /\ pc = "paused" /\ pc' = "waiting"
        /\ UNCHANGED <<now, queues, waiting, fresh>>
  /\ UNCHANGED bypass

StartWait == MainRuns /\ LoopTop /\ StartTimer /\ UNCHANGED bypass

WaitEnds == MainRuns /\ WaitTimeout /\ WaitExpires /\ UNCHANGED bypass

TakePacket ==
  /\ MainRuns /\ TakeEvent /\ WaitEvent
  /\ bypass' = [s \in 1 .. MaxSleeps |-> IF Due(s) THEN bypass[s] + 1 ELSE bypass[s]]

\* A dispatch that leaves the timers where they were.
DispatchingStays ==
  /\ MainRuns /\ Dispatch
  /\ UNCHANGED <<timeVars, bypass>>

\* Dispatch returns to the loop when its last step does.
Dispatching ==
  /\ MainRuns /\ Dispatch
  /\ IF main' = "loop" THEN DispatchDone ELSE UNCHANGED timeVars
  /\ UNCHANGED bypass

MainLoop == Booting \/ Turning \/ Sending \/ StartWait \/ WaitEnds \/ TakePacket \/ Dispatching

LoopNext ==
  \/ NetOnly(\E p \in Packet : Arrive(p))
  \/ NetOnly(RxThread)
  \/ TimeOnly(Tick)
  \/ Application
  \/ Writing
  \/ MainLoop

LoopSpec ==
  LoopInit /\ [][LoopNext]_loopVars
  /\ WF_loopVars(NetOnly(RxThread)) /\ WF_loopVars(MainLoop)

-----------------------------------------------------------------------------
(* Properties.                                                             *)

\* The two halves agree on where the main thread is.
LoopTypeOK ==
  /\ TypeOK /\ TimeTypeOK /\ bypass \in [1 .. MaxSleeps -> Nat]
  /\ main = "wait" <=> pc = "waiting"
  /\ main \in {"handler", "flags", "resolve", "payload", "size", "ips", "ips_low", "tcp",
              "tcp_send"}
       <=> pc = "dispatch"

\* However many packets are queued, the loop takes at most one of them between
\* the moment a sleeper is due and the moment it is woken: traffic does not
\* starve the timers.
TimersNotStarved == \A s \in 1 .. MaxSleeps : bypass[s] <= 1

\* A packet announced is delivered whatever the timers do, a wait that is far
\* too long included, unless the board faults or the program ends.
PacketServed ==
  \A k \in 1 .. MaxPackets :
    Len(posted) >= k ~>
      (Len(delivered) >= k \/ rx = "fault" \/ main = "exit" \/ pc = "exit")
=============================================================================
