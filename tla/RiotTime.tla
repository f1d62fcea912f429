------------------------------ MODULE RiotTime -------------------------------
(***************************************************************************)
(* The timers of the unikernel: riot_time.ml's sleepers and the turns of   *)
(* Event_loop.run that wake them and choose how long to wait.              *)
(*                                                                         *)
(* One thread runs all of this, but the clock is read at several places    *)
(* and moves between any two steps.  Application code (Lwt callbacks and   *)
(* hooks) runs where the loop calls it, and there it may sleep and cancel. *)
(* Sleepers are numbered by creation; the priority search queue maps the   *)
(* key new_id () gave to a sleeper's number.                               *)
(***************************************************************************)
EXTENDS Naturals, Sequences, FiniteSets

CONSTANTS
  NsPerUs,    \* 1000: what sleep_ns multiplies the clock by
  WORD,       \* 2^64, the range of the stub's uint64_t
  OfDay1,     \* Duration.of_day 1
  Delays,     \* the nanoseconds callers sleep for
  MaxSleeps,  \* bound on the sleepers of a behaviour
  MaxTime,    \* bound on the clock, in microseconds
  NONE        \* OCaml's None, and a moment that has not come

ASSUME UnitAssumption == NsPerUs \in Nat \ {0}
ASSUME NoneAssumption == NONE \notin Nat
ASSUME DelaysAssumption == Delays \subseteq Nat
ASSUME TimeBoundsAssumption == MaxSleeps \in Nat /\ MaxTime \in Nat
\* No deadline a bounded behaviour computes reaches the width of the word.
ASSUME WordAssumption ==
  /\ WORD \in Nat /\ OfDay1 \in Nat
  /\ OfDay1 + MaxTime < WORD
  /\ \A d \in Delays : MaxTime * NsPerUs + d + MaxTime < WORD

VARIABLES
  now,         \* the clock, xtimer_now_usec64
  sleepers,    \* every sleeper made so far, with its history
  new_sleeps,  \* sleepers added since the last select_next, newest first
  sleep_queue, \* key -> sleeper
  id,          \* the last key handed out
  pc,          \* where Event_loop.run is
  next,        \* what select_next returned
  timeout,     \* the argument of riot_event_timeout, read as a uint64_t
  expiry,      \* when the timer of event_wait_timeout64 fires
  fresh        \* history: sleepers made since restart_threads was entered

queues == <<sleepers, new_sleeps, sleep_queue, id>>
waiting == <<next, timeout, expiry>>
timeVars == <<now, queues, pc, waiting, fresh>>

TimeInit ==
  /\ now \in 0 .. MaxTime
  /\ sleepers = <<>> /\ new_sleeps = <<>> /\ sleep_queue = <<>> /\ id = 0
  /\ pc = "paused" /\ next = NONE /\ timeout = 0 /\ expiry = 0
  /\ fresh = {}

Key == DOMAIN sleep_queue
Time(k) == sleepers[sleep_queue[k]].time
Canceled(k) == sleepers[sleep_queue[k]].canceled

\* SleepQueue.min: a binding of least time (Psq leaves open which of several).
Minimal(k) == k \in Key /\ \A j \in Key : Time(k) <= Time(j)

Without(k) == [j \in Key \ {k} |-> sleep_queue[j]]

\* "Pending" to Lwt: neither woken nor canceled.
Pending(s) == ~sleepers[s].canceled /\ sleepers[s].woken = NONE

-----------------------------------------------------------------------------
(* What application code does when the loop calls it.                      *)

\* Lwt.wakeup_paused and the leave hooks; a woken thread; Lwt.poll and the
\* enter hooks; Riot_ip.resolve and the packet's handlers.
Callback == pc \in {"paused", "woken", "enter", "dispatch"}

Tick == /\ now < MaxTime /\ now' = now + 1
        /\ UNCHANGED <<queues, pc, waiting, fresh>>

\* A deadline in microseconds, the remaining nanoseconds cut off.
NewSleeperShort(d) ==
  [start |-> now, delay |-> d, time |-> now + d \div NsPerUs,
   canceled |-> FALSE, woken |-> NONE]

NewSleeper(d) ==
  [start |-> now, delay |-> d, time |-> now * NsPerUs + d,
   canceled |-> FALSE, woken |-> NONE]

\* A sleep_ns that puts the sleeper straight into the queue.
Sleep_nsQueued(d) ==
  /\ Callback /\ Len(sleepers) < MaxSleeps
  /\ sleepers' = Append(sleepers, NewSleeper(d))
  /\ id' = id + 1
  /\ sleep_queue' = [k \in Key \cup {id'} |-> IF k = id' THEN Len(sleepers') ELSE sleep_queue[k]]
  /\ fresh' = fresh \cup {Len(sleepers')}
  /\ UNCHANGED <<now, new_sleeps, pc, waiting>>

Sleep_ns(d) ==
  /\ Callback /\ Len(sleepers) < MaxSleeps
  /\ sleepers' = Append(sleepers, NewSleeper(d))
  /\ new_sleeps' = <<Len(sleepers')>> \o new_sleeps
  /\ fresh' = fresh \cup {Len(sleepers')}
  /\ UNCHANGED <<now, sleep_queue, id, pc, waiting>>

\* Lwt.cancel runs on_cancel's callback, on a pending promise only.
Cancel(s) ==
  /\ Callback /\ Pending(s)
  /\ sleepers' = [sleepers EXCEPT ![s].canceled = TRUE]
  /\ UNCHANGED <<now, new_sleeps, sleep_queue, id, pc, waiting, fresh>>

-----------------------------------------------------------------------------
(* A turn of the loop.                                                     *)

StartRestart ==
  /\ pc = "paused" /\ pc' = "restart"
  /\ fresh' = {}
  /\ UNCHANGED <<now, queues, waiting>>

\* The branch restart_threads and get_next_timeout share: drop a canceled
\* sleeper from the front and look again.
DropCanceled ==
  /\ pc \in {"restart", "select"}
  /\ \E k \in Key : Minimal(k) /\ Canceled(k) /\ sleep_queue' = Without(k)
  /\ UNCHANGED <<now, sleepers, new_sleeps, id, pc, waiting, fresh>>

InThePast(t) == t = 0 \/ t <= now

\* A restart_threads that leaves the sleeper it wakes in the queue.
WakeupKept ==
  /\ pc = "restart"
  /\ \E k \in Key : /\ Minimal(k) /\ ~Canceled(k) /\ InThePast(Time(k))
                    /\ sleepers' = [sleepers EXCEPT ![sleep_queue[k]].woken = now]
  /\ pc' = "woken"
  /\ UNCHANGED <<now, new_sleeps, sleep_queue, id, waiting, fresh>>

\* A restart_threads that does not look at the canceled flag.
WakeupCanceled ==
  /\ pc = "restart"
  /\ \E k \in Key : /\ Minimal(k) /\ InThePast(Time(k))
                    /\ sleep_queue' = Without(k)
                    /\ sleepers' = [sleepers EXCEPT ![sleep_queue[k]].woken = now]
  /\ pc' = "woken"
  /\ UNCHANGED <<now, new_sleeps, id, waiting, fresh>>

\* Lwt.wakeup runs the callbacks of the woken thread on the spot.
Wakeup ==
  /\ pc = "restart"
  /\ \E k \in Key : /\ Minimal(k) /\ ~Canceled(k) /\ InThePast(Time(k))
                    /\ sleep_queue' = Without(k)
                    /\ sleepers' = [sleepers EXCEPT ![sleep_queue[k]].woken = now]
  /\ pc' = "woken"
  /\ UNCHANGED <<now, new_sleeps, id, waiting, fresh>>

WokenReturns ==
  /\ pc = "woken" /\ pc' = "restart"
  /\ UNCHANGED <<now, queues, waiting, fresh>>

RestartDone ==
  /\ pc = "restart"
  /\ \A k \in Key : Minimal(k) => ~Canceled(k) /\ ~InThePast(Time(k))
  /\ pc' = "enter" /\ fresh' = {}
  /\ UNCHANGED <<now, queues, waiting>>

\* Lwt.poll finds the main promise resolved: the program is over.
MainExits ==
  /\ pc = "enter" /\ pc' = "exit"
  /\ UNCHANGED <<now, queues, waiting, fresh>>

\* A merge whose new_id () starts again from the last key.
MergeSameId ==
  /\ pc = "enter" /\ pc' = "select"
  /\ sleep_queue' = [k \in Key \cup (id + 1 .. id + Len(new_sleeps)) |->
                       IF k \in id + 1 .. id + Len(new_sleeps)
                       THEN new_sleeps[k - id] ELSE sleep_queue[k]]
  /\ new_sleeps' = <<>>
  /\ UNCHANGED <<now, sleepers, id, waiting, fresh>>

\* select_next folds the new sleepers into the queue under fresh keys.
Merge ==
  /\ pc = "enter" /\ pc' = "select"
  /\ sleep_queue' = [k \in Key \cup (id + 1 .. id + Len(new_sleeps)) |->
                       IF k > id THEN new_sleeps[k - id] ELSE sleep_queue[k]]
  /\ id' = id + Len(new_sleeps)
  /\ new_sleeps' = <<>>
  /\ UNCHANGED <<now, sleepers, waiting, fresh>>

\* A get_next_timeout that settles for any live sleeper.
SelectedAny ==
  /\ pc = "select" /\ pc' = "ask"
  /\ \/ Key = {} /\ next' = NONE
     \/ \E k \in Key : ~Canceled(k) /\ next' = Time(k)
  /\ UNCHANGED <<now, queues, timeout, expiry, fresh>>

Selected ==
  /\ pc = "select" /\ pc' = "ask"
  /\ \/ Key = {} /\ next' = NONE
     \/ \E k \in Key : Minimal(k) /\ ~Canceled(k) /\ next' = Time(k)
  /\ UNCHANGED <<now, queues, timeout, expiry, fresh>>

\* A difference that is not cut to the word.
ReadClockWide ==
  /\ pc = "ask" /\ pc' = "wait"
  /\ timeout' = IF next = NONE THEN now + OfDay1 ELSE (next + WORD) - now
  /\ UNCHANGED <<now, queues, next, expiry, fresh>>

\* The difference of two clocks, passed as an int64 and read as a uint64_t.
ReadClock ==
  /\ pc = "ask" /\ pc' = "wait"
  /\ timeout' = IF next = NONE THEN now + OfDay1 ELSE ((next + WORD) - now) % WORD
  /\ UNCHANGED <<now, queues, next, expiry, fresh>>

\* A stub that counts the timeout from the clock's origin.
StartTimerAbsolute ==
  /\ pc = "wait" /\ pc' = "waiting"
  /\ expiry' = timeout
  /\ UNCHANGED <<now, queues, next, timeout, fresh>>

StartTimer ==
  /\ pc = "wait" /\ pc' = "waiting"
  /\ expiry' = now + timeout
  /\ UNCHANGED <<now, queues, next, timeout, fresh>>

\* The moments that are over hold no value a later turn reads.
ForgetWait == next' = NONE /\ timeout' = 0 /\ expiry' = 0

WaitExpires ==
  /\ pc = "waiting" /\ now >= expiry
  /\ pc' = "paused" /\ ForgetWait
  /\ UNCHANGED <<now, queues, fresh>>

\* A network event ends the wait at any time.
WaitEvent ==
  /\ pc = "waiting"
  /\ pc' = "dispatch" /\ ForgetWait
  /\ UNCHANGED <<now, queues, fresh>>

DispatchDone ==
  /\ pc = "dispatch" /\ pc' = "paused"
  /\ UNCHANGED <<now, queues, waiting, fresh>>

App == \/ \E d \in Delays : Sleep_ns(d)
       \/ \E s \in 1 .. Len(sleepers) : Cancel(s)

Turn == \/ StartRestart \/ DropCanceled \/ Wakeup \/ WokenReturns \/ RestartDone
        \/ Merge \/ Selected \/ ReadClock \/ StartTimer

Loop == Turn \/ WaitExpires \/ DispatchDone

TimeNext == Tick \/ App \/ Loop \/ MainExits \/ WaitEvent

\* The loop runs; neither the clock, a packet nor the application is owed.
TimeSpec == TimeInit /\ [][TimeNext]_timeVars /\ WF_timeVars(Loop)

-----------------------------------------------------------------------------
(* Properties.                                                             *)

Sleeper == [start : 0 .. MaxTime, delay : Delays, time : Nat,
            canceled : BOOLEAN, woken : 0 .. MaxTime \cup {NONE}]

\* Every variable keeps its type; the queues hold sleepers that exist, under
\* keys that were handed out.
TimeTypeOK ==
  /\ now \in 0 .. MaxTime
  /\ sleepers \in Seq(Sleeper)
  /\ new_sleeps \in Seq(1 .. Len(sleepers))
  /\ id \in Nat
  /\ Key \subseteq 1 .. id /\ sleep_queue \in [Key -> 1 .. Len(sleepers)]
  /\ pc \in {"paused", "restart", "woken", "enter", "select", "ask", "wait",
             "waiting", "dispatch", "exit"}
  /\ next \in Nat \cup {NONE} /\ timeout \in 0 .. WORD - 1 /\ expiry \in Nat
  /\ fresh \subseteq 1 .. Len(sleepers)

\* Where a sleeper stands in the list of new ones and in the queue.
Places(s) == {<<"new", i>> : i \in {i \in 1 .. Len(new_sleeps) : new_sleeps[i] = s}}
             \cup {<<"key", k>> : k \in {k \in Key : sleep_queue[k] = s}}

\* A pending sleeper stands in exactly one place, so the merge under new keys
\* loses none; a woken one stands in none, so Lwt.wakeup, which raises on a
\* promise that is resolved, is never called twice.
QueuedOnce ==
  \A s \in 1 .. Len(sleepers) :
    /\ Cardinality(Places(s)) <= 1
    /\ Pending(s) => Places(s) # {}
    /\ sleepers[s].woken # NONE => Places(s) = {}

\* A canceled sleeper is not woken, and a woken one not canceled any more: of
\* the two sides of a with_timeout exactly one is told.
OneOutcome == \A s \in 1 .. Len(sleepers) : ~(sleepers[s].canceled /\ sleepers[s].woken # NONE)

\* No sleeper is woken before the nanoseconds it asked for have passed.
NeverEarly ==
  \A s \in 1 .. Len(sleepers) :
    sleepers[s].woken # NONE =>
      sleepers[s].woken * NsPerUs >= sleepers[s].start * NsPerUs + sleepers[s].delay

\* "In order to prevent them from being wakeup immediatly by restart_threads":
\* a sleeper made by a thread that was just woken waits for the next turn.
NoImmediateWakeup == \A s \in fresh : sleepers[s].woken = NONE

\* While the loop waits nothing is left unmerged, and what it waits for is the
\* earliest deadline of all the sleepers still pending.
WaitsForEarliest ==
  pc \in {"ask", "wait", "waiting"} =>
    LET due == {sleepers[s].time : s \in {s \in 1 .. Len(sleepers) : Pending(s)}}
    IN  IF due = {} THEN next = NONE
        ELSE next \in due /\ \A t \in due : next <= t

\* When its timer ends the wait, the sleeper waited for is due: the loop does
\* not turn for nothing.
TimerFindsWork ==
  [][pc = "waiting" /\ pc' = "paused" => next = NONE \/ InThePast(next)]_timeVars

\* A sleeper whose deadline has passed is woken or canceled, as long as the
\* loop keeps turning (which takes a packet when the wait is too long) and the
\* program does not end.
DueSleeperWoken ==
  []<>(pc = "paused") =>
    \A s \in 1 .. MaxSleeps :
      (s <= Len(sleepers) /\ sleepers[s].time <= now) ~> (s <= Len(sleepers) /\ ~Pending(s))

-----------------------------------------------------------------------------
(* What the program says of itself.                                        *)

\* "(* sleep remaining_time; *)": the loop waits for the time that remains,
\* which is never more than the deadline itself.
WaitsRemainingTime == pc = "waiting" /\ next # NONE => timeout <= next

\* "(* Time in microseconds. *)": a sleeper's time is the microsecond its
\* delay ends in.
TimeInMicroseconds ==
  \A s \in 1 .. Len(sleepers) :
    LET ns == sleepers[s].start * NsPerUs + sleepers[s].delay
    IN  sleepers[s].time * NsPerUs < ns + NsPerUs
=============================================================================
