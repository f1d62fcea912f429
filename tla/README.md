# A TLA+ verification of ocaml-riot-unix

ocaml-riot-unix runs an OCaml (MirageOS) HTTP server on RIOT.  RIOT receives
TCP segments from a raw IP socket in a thread of its own; OCaml, with the
mirage-tcpip stack, runs on the main thread, single-threaded, around an event
loop.  This directory models the code that joins the two, and the parts of the
vendored OCaml runtime that everything above runs on: its collectors, its
allocators, its asynchronous callbacks and its channels.

## 1. The system's parts

| part | code | state | operations |
|---|---|---|---|
| socket thread | `raw_tcp_sock.c` | `tcpbuf`, `tcp_hdr_size`, `tcp_remote` | receive a datagram, set its length, post an event |
| event queue | `ocaml_event_sig.c`, RIOT `event` | `QUEUE`, heap, `event_flags` | `add_net_event`, `net_handler` |
| event stub | `example/stubs.c` | none of its own | wait for an event or a timeout, run its handler, fetch and clear the flags |
| IPv6 layer | `riot_ip.ml`, `netutils.ml` | the Lwt condition `con`, the interface's addresses | `resolve`, `listen`, `write`, `connect`, `pseudoheader` |
| timers | `riot_time.ml` | `sleep_queue`, `new_sleeps`, `id` | `sleep_ns`, cancel, `restart_threads`, `select_next` |
| event loop | `event_loop.ml` | the main promise | one turn: timers, poll, wait, dispatch |
| checksums | `checksum_stubs.c` | none | checksum of one buffer, of a list of buffers |
| boot | `startup.c`, `main.ml` | | queue, thread, OCaml, `connect`, `listen` |
| collectors | `minor_gc.c`, `major_gc.c`, `memory.c`, `weak.c`, `finalise.c` | both heaps, colours, mark stack, tables of the minor collection, ephemerons, finalisable values | minor collection, slices of marking, cleaning and sweeping, write barrier, ephemeron accessors |
| allocators | `freelist.c`, `memory.c`, the sweeper of `major_gc.c` | headers, free set, each policy's tables | allocate, split, merge, grow the heap |
| asynchronous callbacks | `signals.c`, `finalise.c` | recorded signals, masks, functions to run, the C stack | record, poll, run handlers and finalisers, blocking sections |
| channels | `io.c`, `unix.c` | buffers, offsets | output, flush, input, refill, scan a line, seek |
| rest of the OCaml runtime 4.12.1 | `ocaml/runtime` (vendored) | | interpretation, data types, marshalling |

How they interact:

    network -> GNRC queue -> socket thread --(tcpbuf, tcp_hdr_size, tcp_remote)--+
                                 | event_post                                    |
                                 v                                               v
                               QUEUE -> wait -> net_handler -> event_flags -> resolve
                                        ^                                        | Lwt_condition.signal
    clock --> timers --> timeout -------+                                        v
                                           TCP.input <- get_payload, get_pkt_ips (listen)
                                               |
                                               +-> write -> caml_riot_write -> tcp_remote

What is hard about it:

* **Two threads share three variables with no lock.**  RIOT schedules by
  priority.  The socket thread (`THREAD_PRIORITY_MAIN - 2`) preempts the main
  thread at any point, and then runs until `sock_ip_recv` blocks again.
* **One buffer, many events.**  Every datagram posts an event, but there is
  only one buffer for the datagrams: the event says that something arrived,
  not what.
* **A leaking allocation** per event, whose result is not checked.
* **Signals to a condition** are lost when nobody waits on it.
* **The clock moves between its readings**, and the deadline is subtracted from
  a later reading than the one that decided nobody is due.
* **Two units** of time in one comparison.
* **Callbacks run inside the loop's steps**: waking a sleeper runs its
  continuation at once, which may sleep or cancel again.
* **Checksums over lists of odd-sized buffers**, in two versions, added with
  different word sizes and byte orders.
* **The program changes the heap between two slices of the collector**: what
  keeps marking right is spread over the write barrier, the colours of new
  blocks, the ephemeron accessors and the tables of the minor collection.
* **The program allocates from the list that the sweeper merges into**, and
  each policy keeps pointers into it.
* **Any operation may run OCaml code in its middle**: handlers and finalisers
  run at every poll, raise, poll again, and use the same channels.

## 2. Modules

| module | models | composed of |
|---|---|---|
| `RiotNet` | the receive path: boot, socket thread, event queue, loop, listener | |
| `PacketMailbox` | the abstract promise of the receive path: a conflating mailbox | |
| `RiotTime` | `riot_time.ml` and the loop's dealings with it | |
| `EventLoop` | `event_loop.ml` whole | `RiotNet`, `RiotTime` |
| `Checksum` | `checksum_stubs.c`, both versions | |
| `RiotNetProofs` | the proofs of `RiotNet`'s invariants, and that it implements `PacketMailbox` | `RiotNet` |
| `OcamlGC` | minor and major collection, with the program between their steps | |
| `NextFit`, `FirstFit`, `BestFit` | the three allocation policies, as operators on the allocator's state | each other |
| `FreeList` | the major heap under any of them: allocate, grow, drop, sweep | the three policies |
| `Signals` | signals, pending actions, running finalisers, blocking sections | |
| `Channels` | one output and one input channel of a program with such callbacks | `Signals` |
| `CallbackProofs` | the inductive invariant of `Signals`, in terms that the calls of `Channels` keep too | `Channels` |
| `ChannelsProofs` | the proofs of `Channels`' invariants | `CallbackProofs` |
| `RiotTimeProofs` | the proofs of `RiotTime`'s safety properties | `RiotTime` |
| `EventLoopProofs` | that the loop keeps what each half promises, and the proofs of its own properties | `EventLoop`, `RiotNetProofs`, `RiotTimeProofs` |
| `OcamlGCProofs` | the proofs of every property of `OcamlGC` | `OcamlGC` |
| `FreeListProofs` | what next fit and first fit keep of the heap; the proofs of every property of `FreeList` for next fit | `FreeList` |
| `FirstFitProofs` | the table and the search of first fit; the proofs of `FreeList`'s properties for first fit, all but the exactness of its records | `FreeListProofs` |
| `MC...` | the modules the TLC configurations belong to | |

An operator defined just above an action, with the action's name and a suffix
(`TakeEventBlind`, `WakeupKept`, ...), is that action with a plausible bug.
No specification uses it: `PROJECT.json` says which property detects it when it
takes the action's place.

### RiotNet

Datagrams are numbered by arrival; 0 is the zeroed static storage.  `wire` maps
the number to the length.  `tcpbuf` remembers for each cell which datagram last
wrote it, `tcp_hdr_size` whose length it holds, `tcp_remote` whose sender: a
torn read is then a record that mentions different numbers.  A *cell* is a
piece of a `memcpy` between whose copies the socket thread may run.  The sender's
address is read in two halves for the same reason (`ReadRemote` and `TcpInput`,
`Write` and `WriteSent`): what is delivered, or sent to, can be an address made
of two senders' halves.  The windows hold for each half.

| action | code |
|---|---|
| `Arrive` | GNRC queues a datagram on the socket (external) |
| `RxCreate`, `RxRecv`, `RxSetSize`, `RxAddNetEvent` | the steps of `raw_tcp_sock_thread` and `add_net_event` |
| `MainInitQueue`, `MainCreateThread`, `MainConnect`, `MainListen` | `startup.c` main and the first line of `main.ml`'s program |
| `LoopTop`, `TakeEvent`, `WaitTimeout` | the turn up to and including `event_wait_timeout64` |
| `NetHandler`, `TakeFlags` | the rest of `caml_riot_event_timeout` |
| `Resolve` | `Riot_ip.resolve` and the signal |
| `CopyCell`, `ReadSize`, `ReadRemote`, `TcpInput`, `TcpDone` | one round of `Riot_ip.listen` |
| `Write`, `WriteSent` | `caml_riot_write`: `sock_ip_send` copies the address, then sends |

`MainRuns` is the scheduler: the main thread takes a step only while the socket
thread is blocked in `sock_ip_recv` with nothing to receive, or does not exist.
The socket thread is otherwise free to take its steps between any two of the
main thread's.  What runs without touching the shared variables is one step.

### RiotTime

`sleepers` is every sleeper ever made, `new_sleeps` the list of those not yet
merged, `sleep_queue` the priority search queue from key to sleeper.  `pc`
follows `Event_loop.run`; the four values of `Callback` are the places where
the loop calls out, and where the application may sleep and cancel.  `Tick`
moves the clock between any two steps.  Time is counted in the clock's unit,
`NsPerUs` stands for the 1000 that `sleep_ns` multiplies it by, and `WORD` for
the 2^64 of the stub's `uint64_t`, into which a negative timeout wraps.

### EventLoop

The conjunction of the two: each joint action is a step of both.  The loop is
in RiotNet's `"loop"` while RiotTime turns, in `"wait"` exactly while RiotTime
is `"waiting"`, and dispatches a packet exactly while RiotTime is in
`"dispatch"`.

### Checksum

A buffer is a sequence of digits.  Base, word width and the width of the
generic sum are constants: 256, 8 and 4 in the code.  One action sums one
buffer, with the odd byte carried into it and out of it; the loop inside is a
fold over the words the code reads.  The unrolled loop of twenty words is the
same fold.  Which version runs depends on the board: the default `native` board
is built for 32 bits and takes the generic one.

### OcamlGC

Every address holds one block of two fields; the first `NMajor` addresses are
the major heap, the others the minor heap.  A slice is one iteration of the
loop of `mark_slice`, `clean_slice` or `sweep_slice`, the least that a slice
can do, so that the program runs between any two.  The program is any sequence
of allocations, stores (`caml_modify`), loads, drops, ephemeron accessors and
registrations of finalisation functions.  `mk` is the state of the marking:
black blocks, mark stack (`mark_stack_prune` throws it away when it is full and
keeps a range of addresses), `ephe_list_pure`.  `hp` is the sweep pointer.
Roots are darkened in one step, as the bytecode runtime does; two fields
are enough for a pointer to move from an unscanned to a scanned place.

### NextFit, FirstFit, BestFit, FreeList

The heap is a function from block addresses to size and colour, a chunk its
first address and its number of words, and an allocator state (`m`) holds it
with the policy's own tables: the address-ordered list with `caml_fl_merge`,
`nf_prev` and `nf_last`; first fit's `flp` and `beyond`; best fit's small lists
with their merge pointers and bitmap, the tree of large blocks and the least
block.  The tree is a function from sizes to blocks: its splay shape is left
out.  What the program holds is black when a sweep starts (marking is
`OcamlGC`'s); between two steps of the sweeper the program allocates, drops and
grows the heap by a chunk before or behind the sweeper.  `FreeListAssumption`
says where chunks can lie: each holds at least a block of one field, and two of
them do not touch, since the header that `caml_alloc_for_heap` puts before every
chunk lies between.

### Signals, Channels

The C stack of the runtime is modelled: a frame for each active function that
has still something to do, and for each OCaml callback (`handler`, `final`).
The last frame runs.  OCaml code may do anything at any depth: poll, allocate
(and so find dead values), enter blocking sections, use the channels, return or
raise.  A signal arrives between any two steps, if the mask allows it.
`caml_do_pending_actions_exn` is four actions because the callbacks it runs
come back to what it reads next.

`Channels` adds the frames of the operations of `io.c`.  Every operation that
calls `check_pending` may push a frame of pending actions on top of itself;
every system call is short by any amount, interrupted, or failing.  The bytes
written are numbered as they are accepted, those read are their positions in
the file, so that a lost, repeated or reordered byte shows.

## 3. Runs

| run | what it asks | bounds |
|---|---|---|
| `net` | the receive path is coherent, loses no event, delivers each, and implements the mailbox | 2 cells, 3 datagrams, 1 write, heap for 2 events |
| `time` | sleepers are woken once, not early, not in the pass that made them, and eventually | 2 sleepers, delays 0 and 1, clock to 5, 2 ns per us |
| `time_stall` | *violated*: the loop sleeps the remaining time | 1 sleeper, clock to 4 |
| `time_units` | *violated*: a sleeper's time is in microseconds | as `time_stall` |
| `loop` | timers and packets do not starve each other | 1 cell, 2 datagrams, 1 sleeper, clock to 2 |
| `checksum` | both versions compute the reference checksum | base 3, words of 4, at most 6 digits cut in 3 |
| `checksum_cuts` | *violated*: cuts between buffers do not matter | at most 4 digits |
| `gc` | nothing reachable is freed, nothing dead comes back, the tables of the minor collection are exact, finalisers get dead values once | 2 major blocks, 1 young, 2 roots, a mark stack of 1, a finaliser of each kind |
| `gc_keys` | *violated*: the data of a cleaned ephemeron has been marked | as `gc`, no finaliser |
| `freelist` | no word is lost or given twice, every policy's tables are right, free blocks coalesce, a request that fits is served | chunks of 5 and 8 words, blocks to 6, requests of 1, 3 and 6, 2 live blocks, `FLP_MAX` 2 and 6 |
| `freelist_refusal` | *violated*: a request is refused only when no free block fits | first fit, chunks of 9 words, `FLP_MAX` 2 |
| `channels` | output and input stay in order, no handler interrupts itself, no finaliser or signal is forgotten | buffers of 2, 2 bytes each way, 2 signals, 1 finaliser, callbacks two deep |

Why the bounds are enough.  Two cells are what a torn copy needs.  Three
datagrams give one that is announced, one that overtakes it and one that fails
for want of an event; lengths run from the empty datagram to one longer than
the buffer.  Two sleepers give an order, equal deadlines, a cancellation of one
by the other's wake-up, and a sleeper made inside a wake-up; the clock runs far
enough for deadlines of the first microsecond, multiplied by `NsPerUs`, to fall
due, and the word is too narrow for a negative timeout to expire, as 2^64 is.
Six digits in words of four give whole lanes, pairs and an odd rest, before and
after a carried byte; in base 3 the sum wraps its word.

In `gc` the mark stack overflows with its second entry, a block can be promoted
during any phase, and with two roots a program can hold an ephemeron and lose
its key.  In `freelist` the larger request does not fit the first chunk, so the
heap grows while the sweeper runs; a split can leave no remainder, a header with no field,
a small best-fit block or a large one; `NumSmall` is 2, so that block sizes fall
on both sides of it; `FLP_MAX` is 2 (the table fills and is
emptied again) or 6 (never overflows: recorded blocks have different sizes, and
there are 6).  In `channels` the callbacks of the second level run in the middle of an
operation of the first, which was itself called from one of the program; the
proofs of section 4 hold for any size.

The configurations of `net`, `time`, `loop`, `checksum` and their violations
turn the deadlock check off: with the bounds used up and the clock stopped the
program waits for a packet that does not come, a socket thread that failed to
open its socket leaves a loop that only waits, and a checksum ends.

### Fairness

`RiotNet!Spec` has weak fairness of each thread.  The socket thread has the
highest application priority, so it runs whenever it is ready; the main thread
runs when the socket thread is blocked.  With finitely many datagrams weak
fairness is all it needs.  Nothing is assumed of the network, and nothing makes
the stack write.  `RiotTime!TimeSpec` has weak fairness of the loop's own steps,
including the expiry of a timer; the clock need not move, a packet need not
come, the main promise need not resolve.  `DueSleeperWoken` therefore assumes
that the loop keeps coming round, which is exactly what finding `time_stall`
says it may not do without a packet.

`Channels!ChannelsSpec` has weak fairness of what the runtime has begun, and of
transfers.  It has strong fairness of a callback's end (`Return`,
`HandlerRaises`: handlers terminate) and of the program's polling: bytecode polls
at every allocation and application.  The strong form is needed because a poll is
only possible while the flag is on and callbacks that come and go turn it on and
off.  Nothing makes signals arrive, and nothing makes the program enter a
blocking section: `SignalsServed` says what holds *if* it keeps coming back from
such sections.  The program's own wait for its network is none
(`caml_riot_event_timeout`, `example/stubs.c:27-45`, holds the runtime while it
waits); the runtime's reads and writes are.

### Assumptions of the runs

* `KeyEditPhases` (`gc`): the program does not replace or remove keys while the
  collector marks.  When it does (`gc_keys`), the assertion of
  `caml_ephe_clean_partial` fails, the block named by an ephemeron's data is
  freed, and a value can be handed to its first finaliser while it is still
  reachable through the ephemeron.
* `FlpMaxes` (`freelist`): first fit's table is exact (`FlpRecords`: the records
  are the first blocks larger than all before them, and `beyond` skips no such
  block) only while it has room for all of them.  `PolicyTables` therefore claims
  it for `FLP_MAX >= MaxWosize` alone; for a smaller table `FitFound` claims the
  lowest block of the states where `FlpRecords` holds, which are not all.  In the code `FLP_MAX` is 1000 and sizes go further; what happens then is
  the finding `freelist_refusal`.  What `FlpSafe` says, that the table stays
  within its bounds and that `Next_small` can be taken of every record, is claimed
  of all sizes.
* `InputInRefill` (`channels`) is `FALSE`: callbacks that run while
  `caml_refill` waits do not read the same channel.  `caml_refill` does not
  look again whether `curr < max` after `check_pending`, so what a callback has
  buffered meanwhile is overwritten and lost to the program; `caml_ml_input` and
  `caml_input_scan_line` do look again.
* `Coalesced` is claimed only of chunks that one block could fill: blocks of
  `Max_wosize` words are not merged further.

Three behaviours that the model shows and no run is about:

* The comment in `caml_do_pending_actions_exn` says that after an exception
  `caml_something_to_do` is set "to force reexamination of callbacks"
  (`signals.c:286-289`).  For signals this has no effect:
  `caml_process_pending_signals_exn` has already cleared `signals_are_pending`, so
  the poll that follows passes the recorded ones by.  The same happens to a
  signal that arrives again after its predecessor was taken and before the handler
  has masked it: the handler's own polls clear the flag and skip it.  Either waits until a blocking section is left, or another signal
  arrives; a program that does neither never handles it.  This is why
  `SignalsServed` has a condition.
* `bf_check` asserts that while sweeping each small list's merge pointer lies
  behind the next field of `caml_fl_merge` (`freelist.c:950-952`).  It does not:
  when a small blue block has been swept, it is `caml_fl_merge`; a white block
  of that size further on is then inserted behind it by `bf_insert_sweep`, which
  moves the merge pointer past it and leaves `caml_fl_merge` alone.  The
  assertion also fails when the swept block is split and its remnant is inserted
  at the very address that `caml_fl_merge` names.  The code relies on less, that
  what lies behind the merge pointer lies behind the sweeper, and that is what
  `BestFitTables` states.
* `ff_check` asserts that `beyond` skips no record (`freelist.c:403-404`), with a
  full table too.  On the chunks of `freelist_refusal` it fails, for the two
  reasons given there.

Both checks exist in debugging builds only (`DEBUG` or `FREELIST_DEBUG`).

### Findings

* `time_stall`: a negative remaining time becomes an almost endless wait.
* `time_units`: nanosecond deadlines are compared with a microsecond clock.
* `checksum_cuts`: the generic checksum forgets a carried zero byte.
* `gc_keys`: an ephemeron's key edited during marking leaves unmarked data.
* `freelist_refusal`: first fit refuses requests that a free block would serve.
  `ff_allocate` looks among the recorded blocks and behind `beyond`, and two things
  put `beyond` behind a block larger than all that are recorded: an overflow in
  `update_flp`, which keeps `FLP_MAX - 1` records and sets `beyond` to the block of
  the next (`freelist.c:602-603`), and the slow search, which goes past such a
  block when it is too small for the request (`freelist.c:536-537`), followed by
  the loss of a record, after which the table has room again but `beyond` stays.
  For the second take a table of 2, free blocks of 2, 3, 5 and 1 words and requests
  for 6, 2 and 5: the third is refused.  The heap grows instead; no memory is
  damaged.

That overlapping datagrams are conflated, the older lost and the newer delivered
twice, is not a violation of a run but what `ImplementsMailbox` says the receive
path does; the message "Overlapping net event, dropping..." of `net_handler` is
never printed (`OverlapBranchDead`).

## 4. Proofs

`RiotNetProofs` proves, for every `Cells > 0`, every bound on datagrams and
writes and every heap:

* `TypeCorrect`: `TypeOK`, which is inductive.
* `ControlCorrect`: `ControlInv`, which ties the place of the main thread to
  whether the listener waits on `con`, to the flags and to the number of
  deliveries.  `NoEventLost` (`OneDeliveryPerEvent`) and
  `OverlapNeverReported` (`OverlapBranchDead`) are read off it.  The count alone
  is not inductive: that a signal is not lost needs `con` to hold whenever the
  loop reaches `Resolve`, and that the flag test finds the bit needs the flags
  to be empty everywhere else.
* `SharedCorrect`: `SharedInv`, which says for each place of the *socket* thread
  what buffer, length and sender it has written, and that announcements
  increase.  `Coherence` (`SharedCoherent`) is its restriction to the moments
  when the main thread runs.
* `DeliveryCorrect`: `DeliveryInv`, which says of each value the main thread has
  read so far that it is not older than the datagram being answered.
  `DeliveriesInWindow` follows from it, `WritesInWindow` from it and from what
  `SendInv` says of the half already read when a segment is being sent.

The refinement adds that what is read does not go back behind the previous
delivery (`MailboxInvariant`); `Refinement` is that every step of `Next` is
a step of the mailbox or a stutter.

The only assumptions are `CellsAssumption` and `BoundsAssumption`.

`CallbackProofs` and `ChannelsProofs` prove, for any set of signals, number of
callbacks, depth of nesting, buffer size, file and request:

* `RuntimeCorrect`: `CallbackInv` and `OutputInv` are inductive.
  `CallbackInv` is `SigTypeOK`, `StackOK` and `Watched`.  `StackOK` says what
  the depth-bounded run cannot: which frame may lie on which (`FrameOK`), that
  the signal of every active handler is in the mask saved by each frame above
  it (`HandlersIn`), and which finalisation function, if any,
  `running_finalisation_function` stands for (`FinalsIn`).  Without the saved
  masks `HandlerMasked` is not inductive: the return of an inner handler
  restores one of them.  `Watched` is `FinalisersNotForgotten` for any list of
  chunks, empty ones too.
* `HandlersMasked`, `FinalisersOneByOne`, `FinalisersFound` are read off it.
* `OutputCorrect` (`OutputInOrder`) needs `PutchOK`, that there is room in the
  buffer whenever `caml_putch` stores: only a flush lies between its test and
  its store, and `FrameOK` says that nothing else can lie above it.
* `InputCorrect` (`InputInOrder`), assuming `~InputInRefill`, needs
  `RefillAlone`: while `caml_refill` is under way the buffer is empty and
  no other call of the input channel lies above it.

The lemmas on the stack (`Pushed`, `Edited`, `Cut`) say what one change of the
last frames keeps; each action is one or two such changes.  The assumptions are
`SignalsAssumption` and `ChannelsAssumption`.

`RiotTimeProofs` proves every safety property of `RiotTime`, for any delays,
clock and number of sleepers.  `TimeInv` adds to the types:

* `PlacedOnce`: `new_sleeps` and `sleep_queue` are one-to-one and disjoint, hold
  every pending sleeper and no woken one (`SleepersPlaced` needs the last part:
  a sleeper woken while still queued would be woken twice).
* `Records`: a deadline is `start * NsPerUs + delay`, and a sleeper was woken
  after it, counted in the clock's unit (`DelaysPass`: as the clock counts the
  larger unit, an error that `time_units` shows makes waits longer, never shorter).
* `FreshApart`: the sleepers made since `restart_threads` began are not in the
  queue it wakes from (`FreshWait`).
* `WaitOK`: from the merge to the wait nothing is new, and the timer ends no
  sooner than the deadline (`EarliestAwaited`, `TimerUseful`).

Assumed: `UnitAssumption`, `NoneAssumption`, `DelaysAssumption`,
`TimeBoundsAssumption` and `WordAssumption`.

`EventLoopProofs` first shows that each step of the loop is a step or a stutter
of the receive path and of the timers (`StepOfBoth`), so that the step lemmas of
both halves apply: `LoopLosesNoEvent` and `LoopKeepsTimers` are the halves'
properties of the composition.  `LoopCorrect` adds where the main thread is in
each half (`PlacesAgree`, hence `LoopPlaces`) and `BypassOK`: a sleeper that a
packet has overtaken is due and queued, and the turn under way has not finished
waking, hence `TrafficStarvesNoTimer`.

`OcamlGCProofs` proves all six properties of the run `gc`, for heaps of any
size, any number of roots and finalisation functions, and a mark stack of any
size.  The invariant `GCInv` is the tricolour invariant of this collector:

* `Protected` is what marking keeps whatever the program does: the least set
  that holds the black blocks and what the pending fields (those behind the mark
  stack's entries, or of the addresses to redarken) lead to through blocks that
  are not black.  It is stated as the intersection of the sets closed that way
  (`Shields`), so that "still protected after this step" is proved of one closed
  set at a time, with no induction over paths.  Ephemerons do not count: their
  data is reached by the scan alone.
* `Safe` is what is not freed before the next cycle: every young block and,
  of the major heap, everything when idle, `Protected` while marking, what is
  black when cleaning, what is black or already swept when sweeping.
* `RootsSafe`, `BlocksSafe`, `FinsSafe` say that what the program holds, the
  fields of safe blocks and the values of finalisers are safe.  They need
  `Protected` not to shrink (`ProtectedGrows`), which is what the barrier of
  `caml_modify` is for: the value overwritten is darkened, because the field may
  have been the only way from the pending ones to a value the program has loaded.
* `EphesSafe` says what the scan knows: the data of a checked ephemeron is safe;
  that of a skipped one is, or the ephemeron or its key is white, as long as
  nothing was darkened since (`mk.pure`).  When the second scan finds nothing,
  this is what makes the data of a live key black (`ReachableMarked`).
* `Tables` is `Remembered`, and that the remembered fields are of safe blocks.
* `HeapClosed`, `Colours` and `Lists` are the bookkeeping: no field names a free
  address before the sweep, black blocks are allocated, the ephemeron lists are
  exact.

Each action has a lemma (`MinorStep`, `DarkenStep`, `SweepStep`, ...), and
`GCSafety` puts them together.  Six theorems are read off `GCInv` with
`ReachableWithin`: a set that holds the roots and is closed under one step of
`ReachStep` holds all of `Reachable`.  `Safe` is such a set outside marking
(`TheDeadStayDead`, `NothingDangles`), the black and young blocks are when
marking ends and the survivors are in a minor collection (`FinalisesTheDead`,
`KeepsEpheData`).

Two definitions of `OcamlGC` are recursive functions: `Survivors` and
`Reachable` repeat a round, `caml_darken_all` visits addresses in order.  What is
needed of them is proved by induction over an interval of numbers, which
`UpTo` derives from the well-foundedness of strict inclusion on finite sets; that
the rounds of `Survivors` stop at a fixed point is `RoundsClose`, a counting
argument.

All but `GCTypes` assume `KeysKeptWhileMarking`: `KeyEditPhases` holds no phase
of marking.  The run `gc_keys` shows that this cannot be dropped: `EphesSafe`
breaks when the white key of a skipped ephemeron is replaced by a live one.
Conversely `CleanedIsMarked` proves the assertion that `gc_keys` refutes for
every program that leaves the keys alone while the collector marks.  The other
assumption is `GCAssumption`.

`FreeListProofs` proves all six properties of the run `freelist` for next fit,
`FirstFitProofs` four of them for first fit, the two safe parts of the fifth
(`ListInOrder` and `FlpSafe` of `PolicyTables`), and `FitFound` in every state where
the records are exact (`FirstFitFinds`), for every set of chunks, request sizes,
`Max_wosize` and `FLP_MAX`, however the program's requests and the sweeper's
steps alternate.  The invariant has a part that both policies share, `HeapInv`:

* `Tiled`: every block ends where another begins or where its chunk ends.
* `Listed` and `Held`: the free list is sorted, is exactly the blue blocks, all
  of them with fields, and `caml_fl_cur_wsz` is the sum of their words; what the
  program holds is never blue and has the size it asked for.
* `Swept`: while the sweeper runs, `caml_fl_merge` is the last block of the list
  behind `caml_gc_sweep_hp`, which is where a block begins or the chunk ends;
  what the program holds ahead of it is black, so that the sweeper does not free
  it; and the last fragment, if it is still adjacent, is a header alone.
* `Apart`: no two blue blocks are adjacent in a chunk that one block could fill.

`HeapTiled` counts the words of all blocks; they are proved to add up from
`Tiled` alone (`TiledWords`), by induction on the finite set of blocks.

Each operation is a few changes of the heap, and the invariant does not hold
between them: `nf_merge_block` first joins the fragment before the block, then
the free block after it, then the one before.  `Merging` is what does hold there,
of the heap as if the block were already free, and `FragmentKeeps`, `NextKeeps`
and `ListKeeps` go from one stage to the next.  `GiveKeeps` is the cut of a piece
from a free block, which leaves a smaller block, a white header or nothing, and
`AddedFits` a new chunk that is filled, spliced into the list and
large enough for the request.

Next fit adds `Pointers`, that `nf_prev` names a block of the list or its head.
Its search goes round the list from there, and `NextSearches` shows that it
passes every block: `NextFitFinds`.

First fit (`FirstFitProofs`) adds `FlpOk`, the table of records: at most `FLP_MAX` of them, each the
head or a block of the list with another block behind it, in rising order, and
`beyond` behind them all.  The second clause is what keeps `Next_small (flp[i])`
from being null where the code reads its header.  Between `ff_allocate_block`
and `update_flp` the record that led to the block need not satisfy it (`Loose`),
and `Updates` shows that `update_flp` repairs it, in all its cases, the overflow
included.  `FirstSearches` follows `ff_allocate` through its three parts (a
recorded block, the extension of the table, the slow search), `FirstExpands`
shows that the block asked for is found after `ff_add_blocks`, although the
table may be full, and `FirstMerges` that `ff_truncate_flp` drops every record
the merge can remove.  What the search finds is `FirstGives`.  The lowest block
that fits is larger than all before it (`LowestIsMaximum`), so exact records hold
it or end before it: the first record that is large enough leads to it, and if
there is none it lies after `beyond` (`ExactLeads`), where the extension of the
table or the slow search meets it first (`SlowFromReached`, `SlowGives`).
`FlpRecords` is a hypothesis there and not a consequence of `FlpOk`, as
`freelist_refusal` shows.

The words of a set and the freeing of the first heap's blocks are folds.  Before
anything is proved of them `FoldGraph`, `SumsUnique` and `FreedGraph` show that
such a fold satisfies its recurrence.  The only assumption is
`FreeListAssumption`.

Only model-checked:

* liveness (`EventuallyDelivered`, `PacketServed`, `DueSleeperWoken`,
  `SignalsServed`), which the prover does not do;
* `FreeList` under best fit, whose small lists and tree are a second data
  structure of their own; and of first fit that `FlpRecords` holds in tables with
  room enough;
* `Checksum`: its properties are congruences of nonlinear terms in `BASE` and
  its powers, summed by folds over sequences; the provers here know nothing of
  exponentiation, and next to nothing of `%` by a variable.

## 5. Not modelled

* Of the OCaml runtime: the interpreter (its state space is the program's), data
  types, marshalling, comparison and hashing, the system interface, statistical
  profiling, start-up.  Of the modelled parts: compaction, the change of policy
  at run time and the blocks that `intern` frees; incremental darkening of native
  roots, infix, closure and custom headers; ephemerons of several keys, their
  copying and blitting accessors; the splay tree's shape; opening, closing,
  output seeks and binary integers of channels; native code.
* The size check of `Riot_ip.write`: one test of a sum against a limit, in a
  function without state.  The missing length argument of `riot_write`
  (`netutils.ml:2`): the length sent can be anything, and nothing in the code
  restrains it.  The parsing of the interface's addresses in `connect` and
  `get_ips_from_netif`: it runs once before any concurrency, and what it reads
  past its buffer is undefined.  No property of theirs would say more than the
  line does.
* The pure copying stubs, the entropy stubs, the constants of the missing
  system calls, pretty printing, and the HTTP callback's formatting.
* mirage-tcpip, Lwt, Psq and RIOT are not in the repository: they appear as the
  code uses them.

## 6. Plan

1. `RiotNet`, `PacketMailbox`, `RiotTime`, `EventLoop`, `Checksum`: done.
2. `RiotNetProofs`, the refinement included: done.
3. `OcamlGC`, the allocation policies and `FreeList`, `Signals`, `Channels`: done.
4. `CallbackProofs`, `ChannelsProofs`: done.
5. `RiotTimeProofs`, `EventLoopProofs`: done.
6. `OcamlGCProofs`: done, all properties of `OcamlGC`.
7. `FreeListProofs`, `FirstFitProofs`: done for next fit and first fit.  Left: best fit, whose
   `HeapInv` would have the lists and the tree in place of the sorted list.
