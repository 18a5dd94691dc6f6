# VortexEngine in TLA+

A TLA+ development of VortexEngine, a log ingestion server for Windows: TCP
sessions receive logs, parse them into shared memory and pass entries through a
lock-free ring to worker threads. The modules here are translated from the C++
under `src/engine` and `src/shared`; TLC checks them on small instances and TLAPS
proves the safety properties that matter most for every value of the constants.

Paths below are relative to `src/engine` unless they say otherwise; `README.md:N`
with a line number is the repository's own README.

## 1. The system

| Component | State | Operations | Interacts with |
|---|---|---|---|
| `Core::LogQueue` (Core/) | ring `log_array`, cursors `head` and `tail`, `is_running`, overflow profile, high-watermark flag | `push`, `pop`, `set_finished` | sessions push, one worker pops, `stop_threads` finishes; counts in the `Telemetry` that all queues share; owns a `SlabPool` |
| `Network::SlabPool` (Network/include/LogServer.h) | `write_index`, `current_offset`, the mapping | `InitializeSharedMemory`, `get_next_slab` | called by the parsers before they push |
| `Network::NetworkSession` and `MagicRingBuffer` (Network/) | stash indices `head`, `tail`; `is_closing`; the socket | `start`, `read_header`, `process_stash`, `handle_error`, `disconnect` | one handler at a time, on the thread of its context; calls the parser, which pushes |
| Parsers (Network/) | none | `parse_and_push`, `parse_and_push_simd`, the `validate...` functions | `SlabPool::get_next_slab`, shared memory, `LogQueue::push`, `disconnect` |
| `Network::LogServer` (Network/) | acceptor, its context, two worker contexts and their threads, `ptr_queue`, `next_worker_index` | `start`, `start_accept` and its handler, `stop` | makes sessions and gives them a context and a queue |
| `ThreadManager` (ThreadManager/) | queues, worker threads, sampler threads, `is_on` | constructor, `start_threads`, `stop_threads` | owns everything above but the server |
| `Telemetry`, `Tools::Time` | two counters and the last sample, one object for all queues; a cached clock | counting, sampling every 2 s; update every 1 ms | counters from every `push` and `pop`; the clock is read by the parsers |
| Configuration and `main` (VortexEngine/) | `MainConfig` | `GetUserCofig` | sizes, profile and thread number of the rest |
| External readers | none in the repository | map `Vortex_Channel_N`, read entries | shared memory only |

What makes the parts correct, and what makes that hard:

- **LogQueue.** Two threads, no lock, plain slots between two atomic cursors: no
  log lost, duplicated, reordered or read half-written; only the losses the
  profile allows; a flag that says how full the ring is. The tests for room
  and for emptiness are made some accesses before they are acted upon.
- **Telemetry.** One pair of counters, moved behind the cursors by all network threads and
  all workers, and loaded one after the other: what they say must be what is in the rings,
  but for the threads that are between their two stores.
- **ThreadManager.** The worker parks on `head` in three separate steps: no wakeup
  may be lost. Teardown joins threads and destroys queues to which sessions hold
  raw pointers: nothing may be used after it is gone, and `stop_threads` must return.
- **SlabPool, parsers.** Memory is reused in a circle, regardless of what has been
  read: an entry must name bytes that are its message's, written before the entry
  is visible, in the mapping, and not reused too early.
- **NetworkSession.** TCP cuts the stream anywhere, the stash is finite, the close
  of a session is posted and races with reads: logs must come out whole and all
  of them, bytes must not be overwritten, sessions must end for a reason and must end.
- **LogServer.** Contexts and queues are paired by a number: no two threads may push
  into one queue; accept errors must not end the loop; `stop` runs concurrently
  with an accept handler.
- **MagicRingBuffer.** One section mapped twice: plain pointers run over the end of the
  ring, cursors over the end of their type. Neither the parser nor the kernel may meet a
  byte that is not theirs; each of six calls may fail in a constructor.
- **Parsers.** The scalar and the AVX2 parser must agree, wherever a line lies; time
  stamps are judged by a clock another thread caches.
- **Configuration and main.** Numbers go from a file into sizes, masks and indices; nearly
  everything is `noexcept`, so that what throws ends the process; readers keep sections
  from one process to the next.

`PROJECT.json` lists each hazard at its line, with the properties that cover it.

## 2. The modules

| Module | Models | Uses |
|---|---|---|
| `Bits` | powers of two, bitwise `&`, as recursive functions | |
| `BoundedFifo` | what a queue promises: a FIFO of at most `Bound` logs that refuses a log only when it is full or closed | |
| `LogQueue` | `push`, `pop`, `set_finished` | extends `Bits`; `BoundedFifo` (refined) |
| `ThreadManager` | the worker, the network thread, the accept handler, `stop_threads`, the ends of the samplers, around one queue | extends `LogQueue` |
| `SlabPool` | `get_next_slab` | extends `Bits` |
| `Ingest` | the path of a message: reserve, write header, write payload, push; and the pop | extends `SlabPool`, instance of `BoundedFifo` |
| `NetworkSession` | one session from its first read to its end | |
| `RingSizes`, `MagicRing` | the stash: its numbers; its mapping, cursors, views, end | `MagicRing` extends `RingSizes` |
| `Stash`, `MCNetworkSession` | a session on its ring; the logs of the run | extends `NetworkSession`, `RingSizes`; instance of `MagicRing` |
| `Parsers`, `MCParsers` | both tokenizers, validation, the cached clock; the lines of the run | extends `Bits` |
| `LogServer` | the accept loop, the contexts' threads, `stop` | |
| `Telemetry` | the counters, with the network threads and workers of all queues and the sampler | extends `LogServer` |
| `Channel` | `InitializeSharedMemory`, the named sections, readers | |
| `Engine`, `MCEngine` | `main` from the configuration to the sessions, its ends and restarts; the configurations of the run | extends `Channel`, `Bits` |
| `BitsProof` | induction over numbers, what the recursions of `Bits` compute | extends `Bits` |
| `LogQueueProof` | theorems on `LogQueue` and `ThreadManager` | extends `ThreadManager`, `BitsProof` |
| `IngestProof` | theorems on `SlabPool` and `Ingest` | extends `Ingest`, `BitsProof` |
| `EngineProof`, `ParsersProof` | theorems | the module each is named after, `BitsProof` |
| `NetworkSessionProof` | theorems on `NetworkSession` and `Stash` | extends `Stash`; instance of `MagicRingProof` |
| `LogServerProof` | theorems on `LogServer` and `Telemetry` | extends `Telemetry` |
| `MagicRingProof` | theorems | extends `MagicRing` |

Two compositions are modules. `Stash` puts a `NetworkSession` on its `MagicRing`: the session counts
positions in the stream, the ring has the bytes and cursors that wrap, and each commit and
consume of the one is a step of the other. `SessionOnItsRing` proves that the two together implement
each of them. `Telemetry` puts the counters among the network threads of `LogServer`
and the workers of all the queues.

The rest is by contract. `LogServer` shows that the threads pushing into one
queue are one (`OneThreadPerQueue`), which is the assumption of `LogQueue`: one
pusher. `LogQueue` shows that the ring is a bounded FIFO under DropAll
(`ImplementsFifo`), which is what `Ingest` uses for the queue. `NetworkSession`
hands whole messages to the parser. `Parsers` says what is pushed for a message, `Ingest` starts where it is
pushed. `Engine` discharges what the others assume of the configuration: a queue has its
ring exactly if it has its channel, of at least two slots and a power of two
(`RingsAreSound`, for `allocated` and `Capacity` of `LogQueue`), and says which
configurations the server (`thread_num` against two contexts), the pool and the stash
survive (`SoundConfigSurvives`).

### LogQueue

Every access to a variable the other thread writes is an action; a thread's own
cursor is read with the next shared access, since nobody else stores it. `ppc` and
`cpc` are where `push` and `pop` are. `push`: test `log_array` and `is_running`
(`PushCall`), compare with `tail` (`PushHasRoom`, `PushOverflow`, which is the
`switch` over the profile), spin, test `is_running` again, write the slot, store
`head`, notify, count (a step here; what it counts is in `Telemetry`), read `tail` for the watermark, set the flag. `pop` is cut the
same way. The watermark flag is tested and set in separate steps. A copy
of a slot that is being written returns a mixture of both entries. `log_array` may
be null from the start (shared memory not to be had). `published`, `delivered`,
`refused`, `submitted`, `lapped` are history; `lapped` is true from the first push
that stores `head = tail`, which empties a full ring.

Memory order: the stores to the cursors are releases, the loads of the other
thread's cursor acquires, so an interleaving of the accesses is enough for the
slots; `is_running` is read alone. The counters of `Telemetry` are relaxed. Its properties
relate them to the cursors, so they are stated for the target, x86-64 (MSVC, AVX2 and
`_tzcnt_u32` in the source), where an atomic increment is a locked instruction that no load or
store passes.

### ThreadManager

`wpc` is the worker's place: its calls of `pop` in the loop, before parking and in
the drain loop after it; `spincounter` and `currenthead` are its locals. Parking is
`std::atomic::wait`: it blocks only while `head = currenthead`, and `notify_one`
makes it look again. `stop_threads` is one action per join, per store and for
`LogServer::stop`. A session leaves only between pushes, because a push runs inside
one handler. `AcceptBegins` and `Connect` are the accept handler being taken up and ending:
`stop` keeps the next one from running and does not wait for this one, so that a session may
come at any step of `stop_threads`. It holds up the join if the network thread has not
left `run()` by then, and is never served if it has.

### Telemetry

Of `push` and `pop` there are the steps the counters depend on: the store of `head`, the
increment behind it, the test for emptiness, the store of `tail`, its increment. `StoreHead` also
stores into a full ring, as every profile but DropAll can: the cursors then say empty (`Occupied`),
while `ahead` still has the logs, which were counted as pushed and will never be counted as
eliminated. A handler does not end before its push (`ServerStep`). The sampler loads the two
counters in two steps, and `GetVelocity` is what it keeps of them; the numbers printed are
their differences.

### SlabPool and Ingest

Bytes are abstract units. `extents` records each reservation. `&` is bitwise,
so `max_slabs` need not be a power of two; `out_offset` is cut to `OffsetRange`
(2^32). In `Ingest`, `memory` says which message wrote each byte last, and a
message is header and payload written in two steps before its entry is pushed.

### NetworkSession

The stream is described by `bounds`, where each message starts. `pc` is what the
session does next: `header` (in `read_header`), `restash`/`header2` (its second
`process_stash` and what follows), `reading`, `completed` (the kernel is done, the
handler has not run), `stash` (in `process_stash`), `gone` (no handler left). The
read keeps the room it was started with. The kernel brings any number of the bytes
there are; a read fails once a side has closed. `process_stash` is one action per
turn of its loop and goes on behind a rejected log, as the code does. The posted
close runs between handlers, also between the completion of a read and its handler.

### MagicRing and Stash

An address is an offset from `base_ptr`; both views show the one section (`ByteAt`); a byte
of the stream is its number. `portal` is how far the constructor and `start_portal` are,
`held` what the process holds for the ring; each call may fail, and what the code gives
back then is in the action. A range that is left reserved after a failure holds no memory,
and the constructor runs in a `noexcept` one, so that the process ends anyway.
In `Stash` the session runs once its ring is ready and frees it behind its last handler; the ring's
own operations are guarded by what they ask for, and the session never gets stuck at such
a guard: `SessionOnItsRing` shows that it asks for no more than there is, the run that it goes on.

### Parsers

Characters are one-character strings. `FromChars` is the library's loop, which compares with
`last` for equality: on the range the vector parser inverts it reads on to the next other
character (`inverted = "scan"`, the release build), and a library that checks ranges ends the process
(`"abort"`); `Libraries` says which of the two a run is about. `Mask` and `Separators` are the vector parser's bits. The time thread keeps
`unix_time` within `MaxLag` of the clock. The parsers keep nothing between two lines, so a
behaviour parses one.

### Channel and Engine

A named section lives as long as anybody holds it: an engine that starts while a reader
holds the section of an earlier one gets that section, in its old size. Every store to the
control block is a step. `Engine` is the main thread, one action per call that can fail, except the creation of the
threads (`std::thread` may throw, and the process ends), with the
accept handler and the sessions as far as they touch what was set up; `Ends` is the end of the
process, `cause` and `denied` say why. No action ends the process well, because
`io_context_.run()` does not return. Sizes are computed as in the code, in their widths.

### LogServer

`worker_index` is captured by `start_accept` before the connection is there.
A handler of a session is the interval in which the thread of its context is
`busy`. `Accept` is the strand taking up a completed accept; from then on the handler
runs even if `stop` has stopped the context. `stop` is one action per call that
other threads can see.

## 3. The runs

| Run | Shows | Bounds |
|---|---|---|
| `LogQueue` | FIFO, no slot race, DropAll lossless, null ring, refusals, in every interleaving and profile | 8 slots, 8 logs, both levels: the ring is full, the head comes round to slot 0, and the tail is lapped under the other profiles. With one log to a slot no slot is written twice here; that is in `ThreadManager`, in `LogQueueBlock`, and in the proofs |
| `ThreadManager` | refinement of `BoundedFifo`, no lost wakeup, delivery, order of teardown, how far `stop_threads` gets | 4 slots, 6 logs under DropAll: the ring is full, wraps, and two slots are written again; one client, which may also come during `stop_threads`; `SpinLimit` 1 for 500: the worker spins, then parks |
| `Ingest` | writes stay in their slab, entries stay intact until the ring of slabs has gone round | 4 slabs of 4 units, sizes that fill a slab, share one, and do not fit; one roll more than there are slabs |
| `NetworkSession` | in step with the stream, no overwriting, no forgotten log, justified closes, progress, end; on the ring: the view is the stream, reads harm none of it, no memory is lost | stash of 16, header of 4; three of: small frame, frame of `max_log_size`, one too long, empty line, short line, line too long; every cut. Rings of 0 and 1 (refused) and 16, each call failing or not; cursors modulo 32, a stream of up to 48: ring and cursors wrap |
| `LogServer` | one thread per queue, `stop`, the counters of all queues | 2 queues, 5 accepts, each of which may fail, 2 logs in rings of 2 slots: one ring overrun, or both counted at once |
| `Parsers` | the vector parser loses no log, header or byte of the scalar one; only recent logs, and every current one | vector of 8 for 32 bytes, page of 16 for 4096, clock of 2 to 4, 964 lines, both kinds of library: every combination of 6 times, 4 levels, 5 ids, 4 messages, with and without a blank in front |
| `Engine` | handles, control blocks, lost channels, rings, what a sound configuration survives | 2 channels, 2 processes, 13 configurations: each number at the edge of what the engine can do with it; 4 units to the MB, 16 to the DWORD, 256 to a size, so that each cut happens |
| `LogQueueBlock`, `LogQueueFlag`, `SlabPoolTen`, `LogServerOneThread`, `ParsersAgree` | divergences, section 5 | small instances of the module each is about: 4 slots and 6 logs under Block; 8 slots, the smallest power of two with `LowWatermark > 0`, under DropAll; 10 slabs; one queue and 5 accepts; the lines of `Parsers`, release build |

The bounds are on how much happens, not on what can happen: the ring, the slabs and
the stash are filled, wrapped and overrun within them. Deadlock is not checked where a
bounded number of logs, a finished queue or an ended session stops the system for good;
that the system does not stop before is said by the liveness properties.

**Fairness.** Each thread that can run does (weak fairness of a push in progress, of
the worker, of the end of a network thread, of an accept handler that has begun, of `stop_threads`
once called, of the samplers): the operating system schedules threads, and none of the steps waits for
anything but the condition in its guard. For a session: the thread of its context
runs handlers and posted closes that are ready, and TCP delivers what was sent. No
client is obliged to connect, send or leave, and nobody to call `stop`.
`StopGetsOn` therefore starts where no client and no accept handler is left, and,
for the second half, where the worker is not on its way to park; `LogsAreParsed` is stated for a client that stays. The
ring of `Stash` owes nothing, since each of its calls may fail; the counters of `Telemetry` take steps with the
threads that push. `Parsers` and `Engine` make no liveness claim and need no fairness.

## 4. What is proved

For every value of the constants, under the assumptions named in the modules. All the safety
properties the passing runs check are proved, and so is the refinement
of `BoundedFifo`. The type invariants are proved too, and not repeated in a run, except that of
`LogQueue`.

- `BitsProof`: what the others need of numbers. A set of numbers has a least one (`LeastNumber`, from the
  library's well-foundedness of `<`), hence induction for sets (`SetInduction`) and the existence of a
  function defined by recursion (`Recursion`), from which the equations of `Pow2` and `And` follow
  (`Pow2Def`, `AndDef`). Then the arithmetic: sums, order, divisibility of powers of two,
  `AndRemainder` (a mask of `2^k - 1` takes the remainder), which `get_next_slab` relies on, and `AndClears`
  (`x & (x - 1)` clears the lowest bit, `& (x - 2)` clears no second one), which is where the vector
  parser goes wrong. Nothing about `&` or powers of two is assumed.
- `LogQueueProof`: all six invariants of `LogQueue`, and under DropAll the refinement
  of `BoundedFifo` (`RingIsFifo`) and, of finding 2, `FlagFallsWhileHigh`: the flag falls only while the
  ring is above `HighWatermark`. The
  FIFO property is not inductive: it does not say where the logs are. `RingInv` does:
  `published` is as long as `delivered` and the occupied slots together, agrees with
  `delivered` at its beginning, and slot `tail + k` holds log `Len(delivered) + 1 + k`.
  `RoomInv` says that under DropAll a push that has passed the test for room still has
  it, because only it moves `head` and `pop` only makes more. Lemmas on `Wrap` give
  the distance of cursors in the ring. In the refinement the queue is what has been published and
  not delivered (`Pending`), so that only `PushPublish` and `PopFree` move it, and every refusal is
  of a full ring or a closed one. Assumed: `Capacity` is a power of two of at least 2 slots, which `bit_ceil` gives
  (`RingsAreSound`). The flag needs it: with 10 slots, and watermarks of 8 and 2, it would fall elsewhere;
  that five divides no power of two is `FiveDoesNotDivide`, by induction.
- `LogQueueProof`, of `ThreadManager`: `ThreadsRunTheQueue` says that the threads take the steps of `LogQueue`
  and no others, hence all of the above holds among them (`ThreadsShareAFifo`). Then
  `NoWakeupIsLost`, `PushesEndFirst` (`FinishedQueueIsQuiet`), `TeardownIsInOrder`
  (`QueuesOutliveUsers`), with a session that may come at any step of `stop_threads`. Two theorems say
  what the code does against what it seems to want: `DrainDeliversNothing`, that the loop behind the worker's loop never
  takes a log out, and `ParkedForGood`, that once the queue is finished with the worker parked on it
  `stop_threads` never returns. `NoLostWakeup` is about a parked
  worker; `Parking` extends it to one on its way: from the load of `head` on, `currenthead` is
  not ahead of the ring, and once `pop` has found the ring empty it equals `tail`, so that
  `wait` sleeps only on a head that is still that of an empty ring. `Users` says who may be in
  `push` and `pop` at each step of `stop_threads`.
- `IngestProof`, of `SlabPool`: `NeverOutOfBounds` (`WithinTheMapping`) for every
  `max_slabs`; `PowersOfTwoMakeARing` (`RingOfMaxSlabs`) if `max_slabs` is a power of two.
  The invariant says that messages of one roll lie in one slab one behind the other,
  and which slab a roll was in. That the mask is a remainder, and no larger than itself for any other
  `max_slabs`, comes from `AndRemainder` and `AndAtMost`.
  `OnlyTheLowestBitCounts` says what happens for any other: of `max_slabs` = 2^a times an odd number the pool
  uses 2^a slabs, in turn (`CountsBy`), which is finding 3 for every configuration. It rests on
  `MaskOfOddMultiple`: counting under the mask `max_slabs - 1` starts again at the lowest bit of `max_slabs`.
- `IngestProof`, of the path: `PathUsesThePool` (the path moves the pool by `get_next_slab` only, so that what
  is proved of the pool holds there) and `MessagesStayIntact` (`IntactUntilReused`), if
  `max_slabs` is a power of two and the channel's offsets fit their 32 bits. Without either it is
  false. The invariant says that each entry names a reservation of the pool, that the
  message being written is apart from all those still to be read, and how much of it is written.
- `NetworkSessionProof`: all six safety properties of `NetworkSession`, for every size of the
  stash, slack, least room and set of messages. The invariant adds that nothing
  parsable is in the stash outside `process_stash` (`NothingParsable`), that the second pass is reached only
  by a crowded stash (`Crowded`), and what a failed read says about the socket
  (`ReadResult`). `CrowdedByCulprit` is the core: a stash without room for a read and
  without a parsable log has one at its front that is illegal or too long. Assumed: the
  least room is no less than the slack and, with a header, fits into the stash (1024, 32, 8).
- `NetworkSessionProof`, of `Stash`: `SessionOnItsRing`, that a session on its ring implements `NetworkSession` and
  `MagicRing`: every read commits and every turn consumes a number of bytes that the ring has, which needs the
  session's invariant. With it the theorems of `MagicRingProof`, instantiated, hold of a session's stash
  (`SessionViewsItsStream`, `SessionReadsIntoRoom`, `SessionLosesNoMemory`).
- `MagicRingProof`: all five properties of `MagicRing`, for every set of sizes, range of the
  cursors and length of the stream. What the view shows is not inductive by itself:
  the invariant says that the cursors are `received` and `consumed` modulo their range, that
  at most `size` bytes are between them, and that each of those is in the section at its number
  modulo `size`. From that and the lemmas on `%` (the size divides the range of the cursors, numbers less than
  `size` apart have different places) follow the view, the room and the peek. Assumed: a size
  divides the range of the cursors, which `bit_floor` gives.
- `LogServerProof`: `OneProducer` (`OneThreadPerQueue`), for any number of queues and
  accepts, `TwoThreadsAreEnough` (`QueueExists` if `thread_num >= 2`) and `StopIsQuiet`
  (`NothingRunsAfterStop`). The first invariant is that a session's queue has the number of its context, and that a thread is
  in handlers of its own context's sessions only; the second (`Joining`) that a handler runs only
  in a context that is alive and for an open session, and that no context is alive once `stop` has returned.
- `LogServerProof`, of `Telemetry`, for any number of queues from two on: `CountersAgree` (`TelemetryAgrees`), `VelocitiesAreSound`
  (`SamplesAdvance`), and `CountersDisturbNothing`, that the two above hold among the threads that push, pop and sample. The invariant
  (`Counted`) is the balance of the cursors and the counters: stored logs are counted or about to be, freed
  ones likewise, and as many are outstanding as were stored and not freed. Sums over queues are cardinalities of sets
  of pairs, so that a step of one queue adds or takes one pair. With one queue the server itself reads beyond
  the vector (finding 4), hence the condition.
- `EngineProof`: `NoHandleIsLeft`, `LossesAreExplained` (`ChannelLossHasCause`), `SoundConfigsSurvive`,
  `ControlBlocksAreReady` and `RingsFollowChannels` (`RingsAreSound`), for every set of configuration files, every size and any number of
  processes killed anywhere. The invariant follows the main thread: what the configuration has become, which queues
  have been made and which channel is being made. For the rings it adds which of the queues made so far
  have one, and that the memory they are cut from is a `bit_floor` no less than the least (`RingsInv`). For the lost channels it has to say
  that the first process finds no section but its own (`FirstInv`); for the control blocks, that the fields written so
  far are this process's and that the section is at least as large as asked for from the moment its view exists.
  Assumed: numbers are unsigned, fit a size, and each queue has a channel's name (`FilesAssumption`); the
  megabyte, the least memory and the ranges of a size and a DWORD are powers of two, and the least memory holds two logs
  (`BitsAssumption`). From that it is proved that a power of two that is not cut to nothing in a DWORD is not cut at all
  (`StashBelow`), that `bit_floor` of the memory holds two logs and fits a size or is cut to nothing (`RamOf`), and that
  `bit_ceil` is a power of two less than twice its argument (`CeilOf`).
- `ParsersProof`: `ParsersReadTheSameHeader` (`SameHeader`, `MessageComplete`), `WhatIsPushedIsValid`
  (`PushedIsValid`) and `NoCurrentLogIsRefused` (`CurrentLogsAccepted`), for every set of lines and addresses, widths
  of the vector and of the numbers. The state is simple: the cached clock is behind the system clock by `MaxLag` at most,
  and `entry` is what the parser chosen makes of `call` (`ParsersInv`). The work is in the two parsers. The
  digits the scalar parser reads end at a blank that is the first, second, third of the line; the mask is shown to be the sum of
  the bits of the line's blanks, so that `Separators` are the first two of them, the second one twice (`SecondBlankTwice`),
  unless the line begins with a blank, and then the scalar parser refuses it. Hence both read the same time and level, the vector parser
  reads an id from an inverted range, whose digits end at the same blank, and takes it into the message: of the scalar parser's entry, nothing is
  lost, unless the library checks ranges and ends the process over that one. `SecondBlankTwice` is the fifth finding below, for every line. Assumed: the window does not
  reach below zero or beyond the type of the time, the lag of the clock is within it, and the vector is no
  longer than the least line and that no longer than a page.

Only model-checked: the liveness properties (`EventuallyDelivered`, `StopGetsOn`, `LogsAreParsed`,
`SessionsEnd`, `AcceptLoopGoesOn`, `StopWaitsForClientsOnly`). Proofs under fairness need `ENABLED`, which
the prover does not handle.

## 5. Where code and documents differ

Shown by runs, each with a counterexample:

1. `BlockNeverLaps` (Core/src/LogQueue.cpp:49): Block spins while `current_head == tail`, which
   is false when the ring is full; the push laps the ring and everything in it is lost.
2. `FlagFallsWhenStable` (Core/src/LogQueue.cpp:121): the flag is to fall when the queue is "estabilizado de nuevo"
   (Core/src/LogQueue.cpp:125), at a `LowWatermark` of a fifth of the slots, but that is compared with the free
   slots: it falls at a pop from a ring that is still above `HighWatermark`, and at no other.
   `FlagFallsWhileHigh` says so for every ring under DropAll.
3. `RingOfMaxSlabs` (Network/include/LogServer.h:114): with `max_slabs = 10` only slabs 0 and 1 are used.
   `OnlyTheLowestBitCounts` says which are used for every `max_slabs`: slab 0 alone if the number is odd.
4. `QueueExists` (Network/src/LogServer.cpp:75): with `thread_num = 1`, the default, every second
   session reads a queue pointer beyond the end of the vector. With more than two, the queues
   from the third on are never used; and clients share queues, against "1:1" in README.md:34-35.
5. `ParsersAgree` (Network/src/LogServer.cpp:266): `p3 = p2` unless the line starts with a blank.
   The id is read from a range that ends before it begins and goes into the message: a log both parsers take
   is pushed with two different messages. The property compares only lines the scalar parser takes, in the release build. Which parser a line meets
   depends on the page it lies in.

Seen in the code, not (yet) the subject of a run:

- The loop of Block never ends if the worker empties the ring between the test for room and the
  first test of the loop: `current_head == tail` then holds for good, against "until queue
  space is freed" (README.md:113).
- `set_finished` (Core/src/LogQueue.cpp:95) wakes nobody; a parked worker stays parked and the join of
  `stop_threads` waits for ever (`ParkedForGood`, proved). `StopGetsOn` says that a worker not on its way to
  park is joined. The join before it, of the network threads, is held up by connected clients and by a session
  that an accept handler opens while `stop` is at work (Network/src/LogServer.cpp:49, 71-85).
- Slabs are reused while entries in them are unread (Network/include/LogServer.h:112), against
  "Popped entries expire" (README.md:50), if the queue holds more than the slabs do.
  `IntactUntilReused` says how long an entry lasts.
- `start()` ends in `io_context_.run()`, which does not return while the work guard stands: the
  constructor of `ThreadManager` never returns, and the prompt of `main` and the call of
  `stop_threads` are never reached. They are modelled as operations that anyone may call.
- The drain loop after the worker's loop (ThreadManager/src/ThreadManager.cpp:123) never takes a log out, against the comment in
  it, "Logs arrive here, processed at high speed." (ThreadManager/src/ThreadManager.cpp:125-126): `pop` returns
  false once the queue is finished. What is queued at shutdown is discarded. This is the theorem `DrainDeliversNothing`, stronger
  than a counterexample of one run: no behaviour delivers a log there.
- `log_size` is documented as the longest payload (README.md:102) and `max_log_size` is 32 bytes less, but
  a read is not started with less than 1024 bytes of room: a log of more than `size - 1023` bytes gets through
  only if its end comes in one read with what precedes it. `Culprit` in `NetworkSession` states the
  limit that holds. Text lines longer than `max_log_size` are accepted if their newline comes in time.
- A line of fewer than four bytes, newline included, waits for the next log (`LogsAreParsed`).
- `process_stash` goes on pushing logs after it has disconnected the session.
- The second `process_stash` of `read_header` never changes anything (`RestashIsFutile`, proved).
- Profile 3 cannot be configured (VortexEngine/VortexEngine.cpp:63), against README.md:116.
- `write_offset` and `read_offset` of the control block are never advanced.
- The parsers write through `shared_memory_base_ptr` even if the mapping failed: the engine serves
  until the first log (`SoundConfigSurvives`).
- `log_size = 0`, or so large that the DWORD of a section cannot hold it, ends the process with the first client, and so does
  any failure to map a stash (Network/src/LogServer.cpp:92, `noexcept`); `max_slabs = 0` makes a channel without slabs that is written to.
- The ring of a queue is rounded up to a power of two of slots and may take nearly twice `usable_ram`
  (`RingsAreSound`), against "Maximum RAM capacity" (README.md:101).
- The magic number is written before the sizes it vouches for (Network/include/LogServer.h:149).
- `message_offset` is an offset in the channel, not "inside slab" (README.md:65).

## 6. Not modelled

asio's own machinery beyond what its callers see, JSON beyond which keys hold numbers, what is
printed, move constructors and functions nobody calls (`reset`, `SendToPy`,
`count_trailing_zeros`). The pushes and pops of several queues are composed in `Telemetry` as far as they meet,
which is in the counters; otherwise each queue has its own ring, slab pool, worker and pusher, and
`LogQueue` and `ThreadManager` model one. Offsets beyond 32 bits: `SlabPool` cuts them as the code does, the runs
keep channels below 4 GB.

The engine is about 1500 lines of C++. The other files under `src/` are vendored copies of asio
and nlohmann::json, some 190000 lines, whose code is not the subject of this development; a share of
lines measured against them says nothing about the engine. Of its own files, what is not mapped is
includes, declarations, accessors, printing and the functions above.

## 7. Plan

Written first, because everything rests on it: `LogQueue`, then `ThreadManager` around it;
`SlabPool` and `Ingest`; the edge of the system, `NetworkSession` and `LogServer`; then what those
take for granted: `MagicRing`, `Parsers`, `Channel` and `Engine`; last what they share and how they fit, `Telemetry` and `Stash`. The safety properties of all of them
have been proved. Left is the liveness of `LogQueue` under the other
profiles, once the loop of Block waits for the condition it documents.
