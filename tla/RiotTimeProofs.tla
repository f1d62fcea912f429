--------------------------- MODULE RiotTimeProofs ----------------------------
(***************************************************************************)
(* What TLAPS proves of the timers, for every set of delays, clock and     *)
(* number of sleepers that fits the word.  One inductive invariant says    *)
(* where each sleeper stands, what its record means, which sleepers a turn *)
(* may not wake, and what the wait waits for.                              *)
(***************************************************************************)
EXTENDS RiotTime, SequenceTheorems, FiniteSetTheorems, TLAPS

InNew(s) == \E i \in 1 .. Len(new_sleeps) : new_sleeps[i] = s
InQueue(s) == \E k \in Key : sleep_queue[k] = s

\* What makes QueuedOnce inductive: the two places are one-to-one and
\* disjoint, they hold every pending sleeper and no woken one.
PlacedOnce ==
  /\ \A j, k \in Key : sleep_queue[j] = sleep_queue[k] => j = k
  /\ \A i, j \in 1 .. Len(new_sleeps) : new_sleeps[i] = new_sleeps[j] => i = j
  /\ \A s \in 1 .. Len(sleepers) :
       /\ ~(InNew(s) /\ InQueue(s))
       /\ Pending(s) => InNew(s) \/ InQueue(s)
       /\ sleepers[s].woken # NONE => ~InNew(s) /\ ~InQueue(s)

\* A record's deadline is in nanoseconds, and its sleeper was woken after it.
RecordOK(r) ==
  /\ r.time = r.start * NsPerUs + r.delay
  /\ r.woken # NONE => r.time <= r.woken /\ ~r.canceled
Records == \A s \in 1 .. Len(sleepers) : RecordOK(sleepers[s])

\* What makes NoImmediateWakeup inductive: while restart_threads runs, the
\* sleepers made since it was entered are not in the queue it wakes from.
FreshApart ==
  \A s \in fresh : /\ sleepers[s].woken = NONE
                   /\ pc \in {"restart", "woken"} => ~InQueue(s)

\* What makes WaitsForEarliest and TimerFindsWork inductive: from the merge on
\* nothing is new, and the timer ends no sooner than the deadline.
WaitOK ==
  /\ pc \in {"select", "ask", "wait", "waiting"} => new_sleeps = <<>>
  /\ WaitsForEarliest
  /\ pc = "wait" /\ next # NONE => next <= now + timeout
  /\ pc = "waiting" /\ next # NONE => next <= expiry

TimeInv == TimeTypeOK /\ PlacedOnce /\ Records /\ FreshApart /\ WaitOK

-----------------------------------------------------------------------------
(* Facts about the state's types that the steps below need.                *)

\* What the types say of the elements of the two places and of the records.
LEMMA TypeFacts ==
  ASSUME TimeTypeOK
  PROVE  /\ Len(sleepers) \in Nat /\ Len(new_sleeps) \in Nat /\ now \in Nat /\ id \in Nat
         /\ \A s \in 1 .. Len(sleepers) : sleepers[s] \in Sleeper
         /\ \A i \in 1 .. Len(new_sleeps) : new_sleeps[i] \in 1 .. Len(sleepers)
         /\ \A k \in Key : k \in 1 .. id /\ sleep_queue[k] \in 1 .. Len(sleepers)
<1>1. Len(sleepers) \in Nat /\ \A s \in 1 .. Len(sleepers) : sleepers[s] \in Sleeper
  BY LenProperties, ElementOfSeq DEF TimeTypeOK
<1>2. /\ Len(new_sleeps) \in Nat
      /\ \A i \in 1 .. Len(new_sleeps) : new_sleeps[i] \in 1 .. Len(sleepers)
  BY LenProperties, ElementOfSeq DEF TimeTypeOK
<1>. QED BY <1>1, <1>2, TimeBoundsAssumption DEF TimeTypeOK

\* The fields of a record.
LEMMA SleeperFields ==
  ASSUME NEW r \in Sleeper
  PROVE  /\ r.start \in 0 .. MaxTime /\ r.delay \in Delays /\ r.time \in Nat
         /\ r.canceled \in BOOLEAN /\ r.woken \in 0 .. MaxTime \cup {NONE}
BY DEF Sleeper

\* One record of sleepers is replaced by another.
LEMMA Replaced ==
  ASSUME TimeTypeOK, NEW s \in 1 .. Len(sleepers), NEW r \in Sleeper,
         sleepers' = [sleepers EXCEPT ![s] = r]
  PROVE  /\ sleepers' \in Seq(Sleeper) /\ Len(sleepers') = Len(sleepers)
         /\ \A j \in 1 .. Len(sleepers) : sleepers'[j] = IF j = s THEN r ELSE sleepers[j]
BY ExceptSeq DEF TimeTypeOK

\* A record is added at the end.
LEMMA Added ==
  ASSUME TimeTypeOK, NEW r \in Sleeper, sleepers' = Append(sleepers, r)
  PROVE  /\ sleepers' \in Seq(Sleeper) /\ Len(sleepers') = Len(sleepers) + 1
         /\ \A j \in 1 .. Len(sleepers) : sleepers'[j] = sleepers[j]
         /\ sleepers'[Len(sleepers) + 1] = r
BY AppendProperties, LenProperties DEF TimeTypeOK

\* A new sleeper's record is of the type, whatever the delay.
LEMMA NewSleeperType ==
  ASSUME TimeTypeOK, NEW d \in Delays
  PROVE  /\ NewSleeper(d) \in Sleeper /\ RecordOK(NewSleeper(d))
         /\ NewSleeper(d).woken = NONE /\ ~NewSleeper(d).canceled
<1>1. now \in 0 .. MaxTime /\ now \in Nat /\ NsPerUs \in Nat /\ d \in Nat
  BY UnitAssumption, DelaysAssumption, TimeBoundsAssumption DEF TimeTypeOK
<1>2. now * NsPerUs + d \in Nat
  BY <1>1
<1>3. NewSleeper(d) \in Sleeper
  BY <1>1, <1>2 DEF NewSleeper, Sleeper
<1>. QED BY <1>3 DEF NewSleeper, RecordOK

\* The initial state: no sleeper, an empty queue.
LEMMA InitTime == TimeInit => TimeInv
<1>. SUFFICES ASSUME TimeInit PROVE TimeInv
  OBVIOUS
<1>1. Len(sleepers) = 0 /\ Len(new_sleeps) = 0 /\ Key = {} /\ sleepers \in Seq(Sleeper)
      /\ new_sleeps \in Seq(1 .. Len(sleepers))
  <2>1. Key = {}
    BY SMT DEF TimeInit, Key
  <2>. QED BY <2>1, EmptySeq DEF TimeInit
<1>2. sleep_queue \in [Key -> 1 .. Len(sleepers)] /\ Key \subseteq 1 .. id
  BY <1>1 DEF TimeInit
<1>3. TimeTypeOK
  BY <1>1, <1>2, WordAssumption, TimeBoundsAssumption DEF TimeInit, TimeTypeOK
<1>4. PlacedOnce /\ Records /\ FreshApart
  BY <1>1 DEF TimeInit, PlacedOnce, Records, FreshApart, Key
<1>5. WaitOK
  BY DEF TimeInit, WaitOK, WaitsForEarliest
<1>. QED BY <1>3, <1>4, <1>5 DEF TimeInv

-----------------------------------------------------------------------------
(* The application's steps.                                                *)

\* A sleeper is made: it is new, pending and in no queue.
LEMMA SleepKeeps ==
  ASSUME TimeInv, NEW d \in Delays, Sleep_ns(d)
  PROVE  TimeInv'
<1>. DEFINE r == NewSleeper(d)
<1>1. TimeTypeOK /\ PlacedOnce /\ Records /\ FreshApart /\ WaitOK
  BY DEF TimeInv
<1>n. PICK n \in Nat : n = Len(sleepers) + 1
  BY <1>1, TypeFacts
<1>2. /\ r \in Sleeper /\ RecordOK(r) /\ r.woken = NONE /\ ~r.canceled
      /\ sleepers' = Append(sleepers, r)
  BY <1>1, NewSleeperType DEF Sleep_ns
<1>. HIDE DEF r
<1>3. /\ sleepers' \in Seq(Sleeper) /\ Len(sleepers') = n /\ n \in Nat
      /\ \A j \in 1 .. Len(sleepers) : sleepers'[j] = sleepers[j]
      /\ sleepers'[n] = r /\ n \in 1 .. Len(sleepers')
      /\ \A j \in 1 .. n : j \in 1 .. Len(sleepers) \/ j = n
      /\ 1 .. Len(sleepers) \subseteq 1 .. n
  BY <1>1, <1>2, <1>n, Added, TypeFacts
<1>4. /\ new_sleeps' = <<n>> \o new_sleeps /\ new_sleeps' \in Seq(1 .. n)
      /\ Len(new_sleeps') = Len(new_sleeps) + 1
      /\ \A i \in 1 .. Len(new_sleeps') : new_sleeps'[i] = IF i = 1 THEN n ELSE new_sleeps[i - 1]
  <2>1. new_sleeps' = <<n>> \o new_sleeps
    BY <1>3, <1>n DEF Sleep_ns
  <2>2. <<n>> \in Seq(1 .. n) /\ Len(<<n>>) = 1 /\ <<n>>[1] = n
    BY <1>3
  <2>3. new_sleeps \in Seq(1 .. n) /\ Len(new_sleeps) \in Nat
    <3>1. new_sleeps \in Seq(1 .. Len(sleepers)) /\ Len(new_sleeps) \in Nat
      BY <1>1, TypeFacts DEF TimeTypeOK
    <3>. QED BY ONLY <3>1, <1>3, SeqMonotonic
  <2>. QED BY ONLY <2>1, <2>2, <2>3, ConcatProperties
<1>5. UNCHANGED <<now, sleep_queue, id, pc, next, timeout, expiry>> /\ Key' = Key
      /\ fresh' = fresh \cup {n} /\ pc \in {"paused", "woken", "enter", "dispatch"}
  BY <1>3, <1>n DEF Sleep_ns, waiting, Callback, Key
<1>6. TimeTypeOK'
  <2>1. sleep_queue' \in [Key' -> 1 .. Len(sleepers')]
    <3>1. sleep_queue \in [Key -> 1 .. Len(sleepers)]
      BY <1>1 DEF TimeTypeOK
    <3>. QED BY ONLY <3>1, <1>3, <1>5
  <2>2. fresh' \subseteq 1 .. Len(sleepers')
    BY <1>1, <1>3, <1>5 DEF TimeTypeOK
  <2>3. new_sleeps' \in Seq(1 .. Len(sleepers'))
    BY ONLY <1>3, <1>4
  <2>. QED BY <1>1, <1>3, <1>5, <2>1, <2>2, <2>3 DEF TimeTypeOK
<1>7. /\ \A s \in 1 .. Len(sleepers) : (InNew(s)' <=> InNew(s)) /\ (InQueue(s)' <=> InQueue(s))
      /\ InNew(n)' /\ ~InQueue(n)'
  <2>1. \A s \in 1 .. Len(sleepers) : InNew(s)' <=> InNew(s)
    <3>1. ASSUME NEW s \in 1 .. Len(sleepers), NEW i \in 1 .. Len(new_sleeps),
                 new_sleeps[i] = s
          PROVE  InNew(s)'
      <4>1. i + 1 \in 1 .. Len(new_sleeps') /\ new_sleeps'[i + 1] = s
        BY <1>1, <1>4, <3>1, TypeFacts
      <4>. QED BY <4>1 DEF InNew
    <3>2. ASSUME NEW s \in 1 .. Len(sleepers), NEW i \in 1 .. Len(new_sleeps'),
                 new_sleeps'[i] = s
          PROVE  InNew(s)
      <4>1. i - 1 \in 1 .. Len(new_sleeps) /\ new_sleeps[i - 1] = s
        BY <1>1, <1>4, <1>n, <3>2, TypeFacts
      <4>. QED BY <4>1 DEF InNew
    <3>. QED BY <3>1, <3>2 DEF InNew
  <2>2. InNew(n)'
    BY <1>1, <1>4, TypeFacts DEF InNew
  <2>3. ~InQueue(n)'
    BY <1>1, <1>5, <1>n, TypeFacts DEF InQueue
  <2>. QED BY <1>5, <2>1, <2>2, <2>3 DEF InQueue
<1>8. PlacedOnce'
  <2>1. \A i, j \in 1 .. Len(new_sleeps') : new_sleeps'[i] = new_sleeps'[j] => i = j
    <3>1. \A i, j \in 1 .. Len(new_sleeps) : new_sleeps[i] = new_sleeps[j] => i = j
      BY <1>1 DEF PlacedOnce
    <3>2. /\ \A i \in 1 .. Len(new_sleeps) : new_sleeps[i] # n
          /\ Len(new_sleeps) \in Nat
      BY <1>1, <1>n, TypeFacts
    <3>3. \A i \in 1 .. Len(new_sleeps') : i = 1 \/ i - 1 \in 1 .. Len(new_sleeps)
      BY <1>4, <3>2
    <3>4. ASSUME NEW i \in 1 .. Len(new_sleeps'), NEW j \in 1 .. Len(new_sleeps'),
                 new_sleeps'[i] = new_sleeps'[j]
          PROVE  i = j
      <4>1. CASE i = 1 \/ j = 1
        BY <1>4, <3>2, <3>3, <3>4, <4>1
      <4>2. CASE i # 1 /\ j # 1
        <5>1. new_sleeps[i - 1] = new_sleeps[j - 1]
          BY <1>4, <3>4, <4>2
        <5>2. i - 1 = j - 1
          BY ONLY <3>1, <3>3, <4>2, <5>1
        <5>. QED BY ONLY <5>2, <1>4, <3>2
      <4>. QED BY <4>1, <4>2
    <3>. QED BY <3>4
  <2>2. \A s \in 1 .. Len(sleepers') :
           /\ ~(InNew(s)' /\ InQueue(s)')
           /\ Pending(s)' => InNew(s)' \/ InQueue(s)'
           /\ sleepers'[s].woken # NONE => ~InNew(s)' /\ ~InQueue(s)'
    BY <1>1, <1>2, <1>3, <1>7 DEF PlacedOnce, Pending
  <2>. QED BY <1>1, <1>5, <2>1, <2>2 DEF PlacedOnce
<1>9. Records'
  BY <1>1, <1>2, <1>3 DEF Records
<1>10. FreshApart'
  BY <1>1, <1>2, <1>3, <1>5, <1>7 DEF FreshApart, TimeTypeOK
<1>11. WaitOK'
  BY <1>5 DEF WaitOK, WaitsForEarliest
<1>. QED BY <1>6, <1>8, <1>9, <1>10, <1>11 DEF TimeInv

\* A record whose promise ends changes no place; what was pending elsewhere
\* still is.
LEMMA CancelKeeps ==
  ASSUME TimeInv, NEW s \in 1 .. Len(sleepers), Cancel(s)
  PROVE  TimeInv'
<1>. DEFINE r == [sleepers[s] EXCEPT !.canceled = TRUE]
<1>1. TimeTypeOK /\ PlacedOnce /\ Records /\ FreshApart /\ WaitOK
  BY DEF TimeInv
<1>2. /\ r \in Sleeper /\ r.time = sleepers[s].time /\ r.start = sleepers[s].start
      /\ r.delay = sleepers[s].delay /\ r.woken = NONE /\ sleepers[s].woken = NONE /\ r.canceled
      /\ sleepers' = [sleepers EXCEPT ![s] = r]
  BY <1>1, TypeFacts DEF Cancel, Pending, Sleeper
<1>. HIDE DEF r
<1>3. /\ sleepers' \in Seq(Sleeper) /\ Len(sleepers') = Len(sleepers)
      /\ \A j \in 1 .. Len(sleepers) : sleepers'[j] = IF j = s THEN r ELSE sleepers[j]
  BY <1>1, <1>2, Replaced
<1>4. /\ UNCHANGED <<now, new_sleeps, sleep_queue, id, pc, next, timeout, expiry, fresh>>
      /\ pc \in {"paused", "woken", "enter", "dispatch"}
  BY DEF Cancel, waiting, Callback
<1>5. TimeTypeOK'
  BY <1>1, <1>3, <1>4 DEF TimeTypeOK, Key
<1>6. \A j \in 1 .. Len(sleepers) : (InNew(j)' <=> InNew(j)) /\ (InQueue(j)' <=> InQueue(j))
  BY <1>4 DEF InNew, InQueue, Key
<1>7. PlacedOnce'
  BY <1>1, <1>2, <1>3, <1>4, <1>6 DEF PlacedOnce, Pending, Key
<1>8. Records'
  BY <1>1, <1>2, <1>3 DEF Records, RecordOK
<1>9. FreshApart'
  BY <1>1, <1>2, <1>3, <1>4, <1>6 DEF FreshApart, TimeTypeOK
<1>10. WaitOK'
  BY <1>4 DEF WaitOK, WaitsForEarliest
<1>. QED BY <1>5, <1>7, <1>8, <1>9, <1>10 DEF TimeInv

-----------------------------------------------------------------------------
(* The loop's steps.                                                       *)

\* A step that leaves the sleepers and both places alone, and wakes nobody.
LEMMA PlacesKept ==
  ASSUME TimeInv, UNCHANGED <<sleepers, new_sleeps, sleep_queue>>
  PROVE  PlacedOnce' /\ Records'
<1>1. \A j : (InNew(j)' <=> InNew(j)) /\ (InQueue(j)' <=> InQueue(j))
  BY DEF InNew, InQueue, Key
<1>. QED BY <1>1 DEF TimeInv, PlacedOnce, Records, Pending, Key

\* The fresh sleepers stay apart when none is added and restart_threads is not
\* entered, or when there are none any more.
LEMMA FreshKept ==
  ASSUME TimeInv, UNCHANGED <<sleepers, sleep_queue>>,
         \/ fresh' = {}
         \/ fresh' = fresh /\ (pc' \in {"restart", "woken"} => pc \in {"restart", "woken"})
  PROVE  FreshApart'
<1>1. \A j : InQueue(j)' <=> InQueue(j)
  BY DEF InQueue, Key
<1>. QED BY <1>1 DEF TimeInv, FreshApart

\* The clock's step.
LEMMA TickKeeps == ASSUME TimeInv, Tick PROVE TimeInv'
<1>1. /\ UNCHANGED <<sleepers, new_sleeps, sleep_queue, id, pc, next, timeout, expiry, fresh>>
      /\ now \in Nat /\ now' = now + 1 /\ now' \in 0 .. MaxTime
  BY TimeBoundsAssumption DEF Tick, queues, waiting, TimeInv, TimeTypeOK
<1>2. TimeTypeOK'
  BY <1>1 DEF TimeInv, TimeTypeOK, Key
<1>3. WaitOK'
  <2>1. WaitsForEarliest'
    BY <1>1 DEF TimeInv, WaitOK, WaitsForEarliest, Pending
  <2>2. pc' = "wait" /\ next' # NONE => next' <= now' + timeout'
    <3>1. next \in Nat \cup {NONE} /\ timeout \in Nat
      BY WordAssumption DEF TimeInv, TimeTypeOK
    <3>. QED BY <1>1, <3>1 DEF TimeInv, WaitOK
  <2>. QED BY <1>1, <2>1, <2>2 DEF TimeInv, WaitOK
<1>. QED BY <1>1, <1>2, <1>3, PlacesKept, FreshKept DEF TimeInv

\* The steps that only move the loop on, away from the wait.
LEMMA MoveKeeps ==
  ASSUME TimeInv,
         StartRestart \/ WokenReturns \/ RestartDone \/ MainExits \/ DispatchDone
  PROVE  TimeInv'
<1>1. /\ UNCHANGED <<now, sleepers, new_sleeps, sleep_queue, id, next, timeout, expiry>>
      /\ fresh' = fresh \/ fresh' = {}
      /\ pc' \in {"restart", "enter", "exit", "paused"}
      /\ pc' = "restart" => fresh' = {} \/ pc = "woken"
  BY DEF StartRestart, WokenReturns, RestartDone, MainExits, DispatchDone, queues, waiting
<1>2. TimeTypeOK'
  BY <1>1 DEF TimeInv, TimeTypeOK, Key
<1>3. WaitOK'
  BY <1>1 DEF WaitOK, WaitsForEarliest
<1>. QED BY <1>1, <1>2, <1>3, PlacesKept, FreshKept DEF TimeInv

\* The wait ends.
LEMMA WaitEndKeeps ==
  ASSUME TimeInv, WaitExpires \/ WaitEvent
  PROVE  TimeInv'
<1>1. /\ UNCHANGED <<now, sleepers, new_sleeps, sleep_queue, id, fresh>>
      /\ next' = NONE /\ timeout' = 0 /\ expiry' = 0 /\ pc' \in {"paused", "dispatch"}
  BY DEF WaitExpires, WaitEvent, ForgetWait, queues
<1>2. TimeTypeOK'
  BY <1>1, WordAssumption DEF TimeInv, TimeTypeOK, Key
<1>3. WaitOK'
  BY <1>1 DEF WaitOK, WaitsForEarliest
<1>. QED BY <1>1, <1>2, <1>3, PlacesKept, FreshKept DEF TimeInv

\* A step that takes key k out of the queue and gives its sleeper record r,
\* one that is canceled already or is woken now.
LEMMA KeyRemoved ==
  ASSUME TimeInv, NEW k \in Key, NEW r \in Sleeper, RecordOK(r),
         sleep_queue' = Without(k), sleepers' = [sleepers EXCEPT ![sleep_queue[k]] = r],
         r.canceled \/ r.woken # NONE,
         UNCHANGED <<now, new_sleeps, id, next, timeout, expiry, fresh>>,
         \/ pc = "restart" /\ pc' \in {"restart", "woken"}
         \/ pc = "select" /\ pc' = "select" /\ r.woken = NONE
  PROVE  TimeInv'
<1>1. TimeTypeOK /\ PlacedOnce /\ Records /\ FreshApart /\ WaitOK
  BY DEF TimeInv
<1>2. PICK s \in 1 .. Len(sleepers) : s = sleep_queue[k]
  BY <1>1, TypeFacts
<1>3. /\ sleepers' \in Seq(Sleeper) /\ Len(sleepers') = Len(sleepers)
      /\ \A j \in 1 .. Len(sleepers) : sleepers'[j] = IF j = s THEN r ELSE sleepers[j]
  <2>1. sleepers' = [sleepers EXCEPT ![s] = r]
    BY <1>2
  <2>. QED BY ONLY <1>1, <2>1, s \in 1 .. Len(sleepers), r \in Sleeper, Replaced
<1>4. /\ Key' = Key \ {k} /\ \A j \in Key' : sleep_queue'[j] = sleep_queue[j]
      /\ sleep_queue' \in [Key' -> 1 .. Len(sleepers)]
  BY <1>1, TypeFacts DEF Without, Key
<1>5. TimeTypeOK'
  <2>1. Key' \subseteq 1 .. id' /\ new_sleeps' \in Seq(1 .. Len(sleepers'))
    BY <1>1, <1>3, <1>4 DEF TimeTypeOK
  <2>2. next' \in Nat \cup {NONE} /\ timeout' \in 0 .. WORD - 1 /\ expiry' \in Nat
        /\ now' \in 0 .. MaxTime /\ id' \in Nat /\ fresh' \subseteq 1 .. Len(sleepers')
    BY <1>1, <1>3 DEF TimeTypeOK
  <2>. QED BY <1>3, <1>4, <2>1, <2>2 DEF TimeTypeOK
<1>6. \A j : (InNew(j)' <=> InNew(j)) /\ (InQueue(j)' <=> InQueue(j) /\ j # s)
  BY <1>1, <1>2, <1>4 DEF InNew, InQueue, PlacedOnce
<1>7. InQueue(s) /\ ~InNew(s)
  BY <1>1, <1>2 DEF PlacedOnce, InQueue
<1>8. PlacedOnce'
  <2>1. \A j \in 1 .. Len(sleepers) : j # s => (Pending(j)' <=> Pending(j))
    BY <1>3 DEF Pending
  <2>2. ~Pending(s)'
    BY <1>3 DEF Pending
  <2>. QED BY <1>1, <1>3, <1>4, <1>6, <1>7, <2>1, <2>2 DEF PlacedOnce
<1>9. Records'
  BY <1>1, <1>3 DEF Records
<1>10. FreshApart'
  BY <1>1, <1>3, <1>6, <1>7 DEF FreshApart, TimeTypeOK
<1>11. WaitOK'
  BY <1>1 DEF WaitOK, WaitsForEarliest
<1>. QED BY <1>5, <1>8, <1>9, <1>10, <1>11 DEF TimeInv

\* A canceled sleeper leaves the queue.
LEMMA DropKeeps == ASSUME TimeInv, DropCanceled PROVE TimeInv'
<1>1. PICK k \in Key : Canceled(k) /\ sleep_queue' = Without(k)
  BY DEF DropCanceled
<1>2. PICK r \in Sleeper : r = sleepers[sleep_queue[k]]
  BY TypeFacts DEF TimeInv
<1>3. RecordOK(r) /\ r.canceled /\ r.woken = NONE
  BY <1>1, <1>2, TypeFacts DEF TimeInv, Records, RecordOK, Canceled
<1>4. sleepers' = [sleepers EXCEPT ![sleep_queue[k]] = r]
  <2>1. sleepers' = sleepers /\ sleepers \in [1 .. Len(sleepers) -> Sleeper]
    BY LenProperties DEF TimeInv, TimeTypeOK, DropCanceled
  <2>. QED BY <1>2, <2>1
<1>. QED BY <1>1, <1>3, <1>4, KeyRemoved DEF DropCanceled, waiting

\* The deadline of a sleeper that is woken has come.
LEMMA WakeupKeeps == ASSUME TimeInv, Wakeup PROVE TimeInv'
<1>1. PICK k \in Key : /\ ~Canceled(k) /\ InThePast(Time(k)) /\ sleep_queue' = Without(k)
                       /\ sleepers' = [sleepers EXCEPT ![sleep_queue[k]].woken = now]
  BY DEF Wakeup
<1>2. sleepers[sleep_queue[k]] \in Sleeper /\ RecordOK(sleepers[sleep_queue[k]])
      /\ now \in 0 .. MaxTime /\ now \in Nat
  BY TypeFacts DEF TimeInv, TimeTypeOK, Records
<1>. DEFINE r == [sleepers[sleep_queue[k]] EXCEPT !.woken = now]
<1>3. r \in Sleeper /\ r.woken = now
  BY <1>2 DEF Sleeper
<1>4. RecordOK(r) /\ r.woken # NONE
  <2>1. /\ r.time = Time(k) /\ r.canceled = Canceled(k) /\ r.woken = now /\ Time(k) \in Nat
        /\ r.start = sleepers[sleep_queue[k]].start /\ r.delay = sleepers[sleep_queue[k]].delay
    BY <1>2 DEF Sleeper, Time, Canceled
  <2>2. Time(k) <= now
    BY <1>1, <1>2, <2>1 DEF InThePast
  <2>3. Time(k) = sleepers[sleep_queue[k]].start * NsPerUs + sleepers[sleep_queue[k]].delay
    BY <1>2 DEF RecordOK, Time
  <2>. QED BY <1>1, <1>2, <2>1, <2>2, <2>3, NoneAssumption DEF RecordOK
<1>5. sleepers' = [sleepers EXCEPT ![sleep_queue[k]] = r]
  BY <1>1
<1>. HIDE DEF r
<1>. QED BY <1>1, <1>3, <1>4, <1>5, KeyRemoved DEF Wakeup, waiting

\* The new sleepers move to the queue, under keys of their own.
LEMMA MergeKeeps == ASSUME TimeInv, Merge PROVE TimeInv'
<1>1. TimeTypeOK /\ PlacedOnce /\ Records /\ FreshApart /\ WaitOK
  BY DEF TimeInv
<1>. DEFINE n == Len(new_sleeps)
<1>2. /\ UNCHANGED <<now, sleepers, next, timeout, expiry, fresh>> /\ new_sleeps' = <<>>
      /\ pc' = "select" /\ id' = id + n
      /\ Key' = Key \cup (id + 1 .. id + n)
      /\ \A k \in Key' : sleep_queue'[k] = IF k > id THEN new_sleeps[k - id] ELSE sleep_queue[k]
  BY DEF Merge, waiting, Key
<1>3. /\ id \in Nat /\ n \in Nat /\ \A k \in Key : k \in 1 .. id /\ k <= id
      /\ \A i \in 1 .. n : new_sleeps[i] \in 1 .. Len(sleepers)
      /\ \A k \in Key : sleep_queue[k] \in 1 .. Len(sleepers)
  BY <1>1, TypeFacts
<1>. HIDE DEF n
<1>4. /\ \A k \in Key' : \/ k \in Key /\ ~(k > id)
                         \/ k > id /\ k - id \in 1 .. n
      /\ \A i \in 1 .. n : id + i \in Key' /\ id + i > id /\ (id + i) - id = i
  BY <1>2, <1>3
<1>5. \A k \in Key' : sleep_queue'[k] \in 1 .. Len(sleepers)
  BY <1>2, <1>3, <1>4
<1>6. TimeTypeOK'
  <2>1. sleep_queue' \in [Key' -> 1 .. Len(sleepers')]
    <3>1. sleep_queue' = [k \in Key' |-> sleep_queue'[k]]
      BY DEF Merge, Key
    <3>. QED BY <1>2, <1>5, <3>1
  <2>2. Key' \subseteq 1 .. id' /\ id' \in Nat
    BY <1>2, <1>3, <1>4
  <2>3. new_sleeps' \in Seq(1 .. Len(sleepers'))
    BY <1>2, EmptySeq
  <2>. QED BY <1>1, <1>2, <2>1, <2>2, <2>3 DEF TimeTypeOK
<1>7. \A j : ~InNew(j)' /\ (InQueue(j)' <=> InNew(j) \/ InQueue(j))
  <2>1. \A j : ~InNew(j)'
    BY <1>2, EmptySeq DEF InNew
  <2>2. ASSUME NEW k \in Key' PROVE InNew(sleep_queue'[k]) \/ InQueue(sleep_queue'[k])
    BY <1>2, <1>4 DEF InNew, InQueue, n
  <2>3. ASSUME NEW j, InNew(j) PROVE InQueue(j)'
    <3>1. PICK i \in 1 .. n : new_sleeps[i] = j
      BY <2>3 DEF InNew, n
    <3>2. id + i \in Key' /\ sleep_queue'[id + i] = j
      BY <1>2, <1>4, <3>1
    <3>. QED BY <3>2 DEF InQueue
  <2>4. ASSUME NEW j, InQueue(j) PROVE InQueue(j)'
    <3>1. PICK k \in Key : sleep_queue[k] = j
      BY <2>4 DEF InQueue
    <3>2. k \in Key' /\ sleep_queue'[k] = j
      BY <1>2, <1>3, <3>1
    <3>. QED BY <3>2 DEF InQueue
  <2>5. \A j : InQueue(j)' => InNew(j) \/ InQueue(j)
    BY <2>2 DEF InQueue
  <2>. QED BY <2>1, <2>3, <2>4, <2>5
<1>8. PlacedOnce'
  <2>0. ASSUME NEW j \in Key, NEW k \in Key', k > id PROVE sleep_queue'[j] # sleep_queue'[k]
    <3>1. InQueue(sleep_queue'[j]) /\ InNew(sleep_queue'[k])
      BY <1>2, <1>3, <1>4, <2>0 DEF InNew, InQueue, n
    <3>2. sleep_queue'[j] \in 1 .. Len(sleepers)
      BY <1>2, <1>5
    <3>. QED BY <1>1, <3>1, <3>2 DEF PlacedOnce
  <2>1. ASSUME NEW j \in Key', NEW k \in Key', sleep_queue'[j] = sleep_queue'[k] PROVE j = k
    <3>1. CASE j \in Key /\ k \in Key
      BY <1>1, <1>2, <1>3, <2>1, <3>1 DEF PlacedOnce
    <3>2. CASE j > id /\ k > id
      <4>1. j - id \in 1 .. n /\ k - id \in 1 .. n /\ new_sleeps[j - id] = new_sleeps[k - id]
        BY <1>2, <1>4, <2>1, <3>2
      <4>2. j - id = k - id
        BY <1>1, <4>1 DEF PlacedOnce, n
      <4>. QED BY <1>2, <1>3, <4>1, <4>2
    <3>3. CASE j \in Key /\ k > id
      BY <2>0, <2>1, <3>3
    <3>4. CASE j > id /\ k \in Key
      BY <2>0, <2>1, <3>4
    <3>. QED BY <1>4, <3>1, <3>2, <3>3, <3>4
  <2>2. Len(new_sleeps') = 0
    BY <1>2, EmptySeq
  <2>. QED BY <1>1, <1>2, <1>7, <2>1, <2>2 DEF PlacedOnce, Pending
<1>9. Records'
  BY <1>1, <1>2 DEF Records
<1>10. FreshApart'
  BY <1>1, <1>2 DEF FreshApart
<1>11. WaitOK'
  BY <1>2 DEF WaitOK, WaitsForEarliest
<1>. QED BY <1>6, <1>8, <1>9, <1>10, <1>11 DEF TimeInv

\* select_next answers with the earliest of all the deadlines still pending.
LEMMA SelectedKeeps == ASSUME TimeInv, Selected PROVE TimeInv'
<1>1. TimeTypeOK /\ PlacedOnce /\ new_sleeps = <<>> /\ pc = "select"
  BY DEF TimeInv, WaitOK, Selected
<1>2. /\ UNCHANGED <<now, sleepers, new_sleeps, sleep_queue, id, timeout, expiry, fresh>>
      /\ pc' = "ask"
      /\ \/ Key = {} /\ next' = NONE
         \/ \E k \in Key : Minimal(k) /\ ~Canceled(k) /\ next' = Time(k)
  BY DEF Selected, queues
<1>3. next' \in Nat \cup {NONE}
  BY <1>1, <1>2, TypeFacts, SleeperFields DEF Time
<1>4. TimeTypeOK'
  BY <1>1, <1>2, <1>3 DEF TimeTypeOK, Key
<1>5. \A s \in 1 .. Len(sleepers) : Pending(s) => InQueue(s)
  BY <1>1, EmptySeq DEF PlacedOnce, InNew
<1>. DEFINE due == {sleepers[s].time : s \in {s \in 1 .. Len(sleepers) : Pending(s)}}
<1>6. IF due = {} THEN next' = NONE ELSE next' \in due /\ \A t \in due : next' <= t
  <2>1. CASE Key = {} /\ next' = NONE
    <3>1. \A s \in 1 .. Len(sleepers) : ~Pending(s)
      BY <1>5, <2>1 DEF InQueue
    <3>. QED BY <2>1, <3>1
  <2>2. CASE \E k \in Key : Minimal(k) /\ ~Canceled(k) /\ next' = Time(k)
    <3>1. PICK k \in Key : Minimal(k) /\ ~Canceled(k) /\ next' = Time(k)
      BY <2>2
    <3>2. Pending(sleep_queue[k]) /\ sleep_queue[k] \in 1 .. Len(sleepers)
      BY <1>1, <3>1, TypeFacts DEF Pending, Canceled, PlacedOnce, InQueue
    <3>3. next' \in due
      BY <3>1, <3>2 DEF Time
    <3>4. \A t \in due : next' <= t
      BY <1>5, <3>1 DEF Minimal, Time, InQueue
    <3>. QED BY <3>3, <3>4
  <2>. QED BY <1>2, <2>1, <2>2
<1>7. WaitsForEarliest'
  BY <1>2, <1>6 DEF WaitsForEarliest, Pending
<1>8. WaitOK'
  BY <1>1, <1>2, <1>7 DEF WaitOK
<1>. QED BY <1>2, <1>4, <1>8, PlacesKept, FreshKept DEF TimeInv

\* No deadline, less the clock, wraps around the word.
LEMMA DeadlineFits ==
  ASSUME TimeInv, pc = "ask", next # NONE
  PROVE  next \in Nat /\ next < WORD /\ now \in Nat /\ WORD \in Nat \ {0}
<1>1. PICK s \in 1 .. Len(sleepers) : next = sleepers[s].time
  BY DEF TimeInv, WaitOK, WaitsForEarliest
<1>2. /\ sleepers[s].start \in 0 .. MaxTime /\ sleepers[s].delay \in Delays
      /\ sleepers[s].time = sleepers[s].start * NsPerUs + sleepers[s].delay
  BY TypeFacts, SleeperFields DEF TimeInv, Records, RecordOK
<1>3. PICK a \in 0 .. MaxTime, d \in Delays : next = a * NsPerUs + d
  BY <1>1, <1>2
<1>4. /\ MaxTime \in Nat /\ NsPerUs \in Nat /\ d \in Nat /\ WORD \in Nat
      /\ MaxTime * NsPerUs + d + MaxTime < WORD
  BY UnitAssumption, DelaysAssumption, TimeBoundsAssumption, WordAssumption
<1>5. a * NsPerUs <= MaxTime * NsPerUs /\ a * NsPerUs \in Nat /\ MaxTime * NsPerUs \in Nat
  BY <1>4
<1>. QED BY <1>3, <1>4, <1>5, TypeFacts DEF TimeInv

\* A difference that is not negative comes out of the word as it went in.
LEMMA ModWord ==
  ASSUME NEW w \in Nat \ {0}, NEW x \in Nat
  PROVE  x % w \in 0 .. w - 1 /\ (x < w => (x + w) % w = x)
OBVIOUS

\* The stub's argument reaches to the deadline, or the deadline is over.
LEMMA ReadClockKeeps == ASSUME TimeInv, ReadClock PROVE TimeInv'
<1>1. TimeTypeOK /\ WaitOK /\ now \in Nat /\ now <= MaxTime
  BY TypeFacts, TimeBoundsAssumption DEF TimeInv, TimeTypeOK
<1>2. /\ UNCHANGED <<now, sleepers, new_sleeps, sleep_queue, id, next, expiry, fresh>>
      /\ pc = "ask" /\ pc' = "wait"
      /\ timeout' = IF next = NONE THEN now + OfDay1 ELSE ((next + WORD) - now) % WORD
  BY DEF ReadClock, queues
<1>3. timeout' \in 0 .. WORD - 1 /\ (next # NONE => next <= now + timeout')
  <2>1. CASE next = NONE
    BY <1>1, <1>2, <2>1, WordAssumption, TimeBoundsAssumption
  <2>2. CASE next # NONE
    <3>1. /\ next \in Nat /\ next < WORD /\ WORD \in Nat \ {0} /\ now < WORD
          /\ timeout' = ((next + WORD) - now) % WORD
      BY <1>1, <1>2, <2>2, DeadlineFits, WordAssumption, TimeBoundsAssumption
    <3>2. (next + WORD) - now \in Nat
      BY <1>1, <3>1
    <3>3. timeout' \in 0 .. WORD - 1
      BY <3>1, <3>2, ModWord
    <3>4. CASE next <= now
      BY <1>1, <3>1, <3>3, <3>4
    <3>5. CASE next > now
      <4>1. next - now \in Nat /\ next - now < WORD /\ (next - now) + WORD = (next + WORD) - now
        BY <1>1, <3>1, <3>5
      <4>2. timeout' = next - now
        BY <3>1, <4>1, ModWord
      <4>. QED BY <1>1, <3>1, <3>3, <4>2
    <3>. QED BY <1>1, <3>1, <3>4, <3>5
  <2>. QED BY <2>1, <2>2
<1>4. TimeTypeOK'
  BY <1>1, <1>2, <1>3 DEF TimeTypeOK, Key
<1>5. WaitOK'
  BY <1>1, <1>2, <1>3 DEF WaitOK, WaitsForEarliest, Pending
<1>. QED BY <1>2, <1>4, <1>5, PlacesKept, FreshKept DEF TimeInv

\* The timer of the wait is set to that moment.
LEMMA StartTimerKeeps == ASSUME TimeInv, StartTimer PROVE TimeInv'
<1>1. TimeTypeOK /\ WaitOK /\ now \in Nat /\ timeout \in Nat
  BY TypeFacts, WordAssumption DEF TimeInv, TimeTypeOK
<1>2. /\ UNCHANGED <<now, sleepers, new_sleeps, sleep_queue, id, next, timeout, fresh>>
      /\ pc = "wait" /\ pc' = "waiting" /\ expiry' = now + timeout
  BY DEF StartTimer, queues
<1>3. TimeTypeOK'
  BY <1>1, <1>2 DEF TimeTypeOK, Key
<1>4. WaitOK'
  BY <1>1, <1>2 DEF WaitOK, WaitsForEarliest, Pending
<1>. QED BY <1>2, <1>3, <1>4, PlacesKept, FreshKept DEF TimeInv

\* Every step keeps the invariant.
LEMMA StepTime == TimeInv /\ [TimeNext]_timeVars => TimeInv'
<1>1. ASSUME TimeInv, UNCHANGED timeVars PROVE TimeInv'
  <2>1. UNCHANGED <<now, sleepers, new_sleeps, sleep_queue, id, pc, next, timeout, expiry, fresh>>
    BY <1>1 DEF timeVars, queues, waiting
  <2>2. TimeTypeOK' /\ WaitOK'
    BY <1>1, <2>1 DEF TimeInv, TimeTypeOK, WaitOK, WaitsForEarliest, Pending, Key
  <2>. QED BY <1>1, <2>1, <2>2, PlacesKept, FreshKept DEF TimeInv
<1>2. ASSUME TimeInv, TimeNext PROVE TimeInv'
  BY <1>2, TickKeeps, SleepKeeps, CancelKeeps, MoveKeeps, WaitEndKeeps, DropKeeps, WakeupKeeps,
     MergeKeeps, SelectedKeeps, ReadClockKeeps, StartTimerKeeps
     DEF TimeNext, App, Loop, Turn
<1>. QED BY <1>1, <1>2

-----------------------------------------------------------------------------
(* What follows for every behaviour.                                       *)

\* The invariant holds in every state of every behaviour.
THEOREM TimersCorrect == TimeSpec => []TimeInv
BY InitTime, StepTime, PTL DEF TimeSpec

\* The types of the timers, for every set of delays and every bound.
THEOREM TimerTypes == TimeSpec => []TimeTypeOK
<1>1. TimeInv => TimeTypeOK
  BY DEF TimeInv
<1>. QED BY <1>1, TimersCorrect, PTL

\* A set of which any two elements are the same has at most one.
LEMMA AtMostOne ==
  ASSUME NEW S, \A x, y \in S : x = y
  PROVE  Cardinality(S) <= 1
<1>1. CASE S = {}
  BY <1>1, FS_EmptySet
<1>2. CASE S # {}
  <2>1. PICK x \in S : TRUE
    BY <1>2
  <2>2. S = {x}
    BY <2>1
  <2>. QED BY <2>2, FS_Singleton
<1>. QED BY <1>1, <1>2

\* A pending sleeper stands in exactly one of riot_time.ml's two places, a
\* woken one in none: the merge loses no sleeper and Lwt.wakeup is not called
\* twice on one promise.
THEOREM SleepersPlaced == TimeSpec => []QueuedOnce
<1>1. ASSUME TimeInv, NEW s \in 1 .. Len(sleepers)
      PROVE  /\ Cardinality(Places(s)) <= 1
             /\ Pending(s) => Places(s) # {}
             /\ sleepers[s].woken # NONE => Places(s) = {}
  <2>. DEFINE inNew == {<<"new", i>> : i \in {i \in 1 .. Len(new_sleeps) : new_sleeps[i] = s}}
              inQueue == {<<"key", k>> : k \in {k \in Key : sleep_queue[k] = s}}
  <2>1. Places(s) = inNew \cup inQueue
    BY DEF Places
  <2>2. (inNew # {} <=> InNew(s)) /\ (inQueue # {} <=> InQueue(s))
    BY DEF InNew, InQueue
  <2>3. (\A x, y \in inNew : x = y) /\ (\A x, y \in inQueue : x = y)
    BY <1>1 DEF TimeInv, PlacedOnce
  <2>. HIDE DEF inNew, inQueue
  <2>4. /\ ~(InNew(s) /\ InQueue(s))
        /\ Pending(s) => InNew(s) \/ InQueue(s)
        /\ sleepers[s].woken # NONE => ~InNew(s) /\ ~InQueue(s)
    BY <1>1 DEF TimeInv, PlacedOnce
  <2>5. \A x, y \in Places(s) : x = y
    BY <2>1, <2>2, <2>3, <2>4
  <2>. QED BY <2>1, <2>2, <2>4, <2>5, AtMostOne
<1>2. TimeInv => QueuedOnce
  BY <1>1 DEF QueuedOnce
<1>. QED BY <1>2, TimersCorrect, PTL

\* Of the two sides of a with_timeout exactly one is told, because
\* restart_threads looks at the canceled flag before it wakes.
THEOREM OutcomesExclude == TimeSpec => []OneOutcome
<1>1. TimeInv => OneOutcome
  BY DEF TimeInv, Records, RecordOK, OneOutcome
<1>. QED BY <1>1, TimersCorrect, PTL

\* A deadline that is over in microseconds is over in nanoseconds: sleep_ns
\* never wakes its caller before the delay it was given.
THEOREM DelaysPass == TimeSpec => []NeverEarly
<1>1. ASSUME TimeInv, NEW s \in 1 .. Len(sleepers), sleepers[s].woken # NONE
      PROVE  sleepers[s].woken * NsPerUs >= sleepers[s].start * NsPerUs + sleepers[s].delay
  <2>1. PICK w \in Nat : w = sleepers[s].woken
    BY <1>1, TypeFacts, SleeperFields, TimeBoundsAssumption DEF TimeInv
  <2>2. PICK t \in Nat : t = sleepers[s].time
    BY <1>1, TypeFacts, SleeperFields DEF TimeInv
  <2>3. t = sleepers[s].start * NsPerUs + sleepers[s].delay /\ t <= w
    BY <1>1, <2>1, <2>2 DEF TimeInv, Records, RecordOK
  <2>4. w * NsPerUs >= w /\ w * NsPerUs \in Nat
    BY UnitAssumption
  <2>. QED BY <2>1, <2>2, <2>3, <2>4
<1>2. TimeInv => NeverEarly
  BY <1>1 DEF NeverEarly
<1>. QED BY <1>2, TimersCorrect, PTL

\* "In order to prevent them from being wakeup immediatly by restart_threads":
\* a sleeper made while restart_threads runs is not woken by it.
THEOREM FreshWait == TimeSpec => []NoImmediateWakeup
<1>1. TimeInv => NoImmediateWakeup
  BY DEF TimeInv, FreshApart, NoImmediateWakeup
<1>. QED BY <1>1, TimersCorrect, PTL

\* What the loop waits for is the earliest deadline of all pending sleepers.
THEOREM EarliestAwaited == TimeSpec => []WaitsForEarliest
<1>1. TimeInv => WaitsForEarliest
  BY DEF TimeInv, WaitOK
<1>. QED BY <1>1, TimersCorrect, PTL

\* A wait that its timer ends finds the sleeper it waited for due, because the
\* timer is set no sooner than the deadline, the clock moving in between.
THEOREM TimerUseful == TimeSpec => TimerFindsWork
<1>. DEFINE Useful == pc = "waiting" /\ pc' = "paused" => next = NONE \/ InThePast(next)
<1>1. TimeInv /\ [TimeNext]_timeVars => [Useful]_timeVars
  <2>. SUFFICES ASSUME TimeInv, [TimeNext]_timeVars PROVE [Useful]_timeVars
    OBVIOUS
  <2>1. CASE pc # "waiting" \/ UNCHANGED timeVars
    BY <2>1
  <2>2. CASE pc = "waiting" /\ TimeNext
    <3>1. pc' = "paused" => WaitExpires
      BY <2>2 DEF TimeNext, App, Loop, Turn, Tick, Sleep_ns, Cancel, Callback, StartRestart,
                  DropCanceled, Wakeup, WokenReturns, RestartDone, Merge, Selected, ReadClock,
                  StartTimer, DispatchDone, MainExits, WaitEvent
    <3>2. WaitExpires => next = NONE \/ InThePast(next)
      <4>1. next \in Nat \cup {NONE} /\ expiry \in Nat /\ now \in Nat
            /\ (next # NONE => next <= expiry)
        BY <2>2, TypeFacts DEF TimeInv, TimeTypeOK, WaitOK
      <4>. QED BY <4>1 DEF WaitExpires, InThePast
    <3>. QED BY <3>1, <3>2
  <2>. QED BY <2>1, <2>2
<1>. QED BY <1>1, TimersCorrect, PTL DEF TimeSpec, TimerFindsWork
=============================================================================
