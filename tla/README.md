# TLA+ model of DMA-Latte

DMA-Latte measures GPU-to-GPU collectives (all-gather, all-to-all) and single
copies carried out by the SDMA engines of AMD GPUs, without compute kernels. One
CPU thread writes SDMA packets into the ring buffers of many engines, rings their
doorbells, and spins on signal words in memory that the engines clear. All
concurrency is between that thread and the engines; nothing else synchronises
them. These modules state what that protocol has to guarantee, check it with TLC
on small machines, and prove with TLAPS, for all sizes, that the ring buffer, the splitting of
packets, the command lists, the execution of the collectives and of the latency benchmark, and
the session around them (tables, queues, rings, mappings, sizes, samples) are correct.

Paths below are relative to the repository (`src/src/...` is
`src/` of the repository, and so on). `C:` stands for `src/src/sdmaCollective.cpp`.

## Inventory

| Component | State | Operations | Hard parts | What makes it correct |
|---|---|---|---|---|
| Ring buffer (`BaseQueue.cpp`, `SDMAQueue.cpp`) | ring memory, `m_pendingWptr`, `m_pendingWptr64`, `*Queue_write_ptr`/doorbell, `*Queue_read_ptr` | `PlacePacket`, `SubmitPacket`, `Rptr`; the engine fetches and writes its read pointer back | stale read pointer, wrap with NOP padding, full versus empty, two doorbell formats | submitted packets reach the engine whole, once, in order |
| Engine map (`getPreferredEngines`, C:510) | `preferredEngines`, `hwToLocal` | round robin, file, lookup | missing keys become 0, colliding keys | existing engines only |
| Command lists (head of each collective) | `cmds[i]` | ring order, index order, batches, greedy swap pairs, broadcast pairs | odd/even counts, unequal list lengths, rounding | each pair served once; counts, slots and time points fit |
| Collective execution (C:53-1133) | GPU, system and signal buffers, `dest_done`, `times`, queues of all engines | `allocateMem`, `fillMem`, `initSignals`, submission, `triggerPoll`, `spinWait`, `logTimes`, `validateMem`, `freeMem` | engines run at any pace; signals reused between phases; three completion types; triggers block queues; equality test in the spin loop | data in place before the CPU goes on, quiescence before free, termination |
| P2P benchmark (C:1136-1484) | two GPUs' buffers, signals 0-6, timestamps | calibration, fills, CPU-timed and GPU-timed pass, readback | timestamps written by the engine, one signal for many fills, signal reuse | fills before copies before readback; stamps before they are read |
| Packets (`SDMAPacket.cpp`) | remaining size and addresses, allocation | constructors of copy, swap, fill | splitting at 1 GiB with 32-bit sizes | every byte of the surface in one packet, packets fill the allocation |
| Session (`main`, `SetUp`, `initialize`, `Create`, `Destroy`, `destroyQueues`, the size loops) | driver, node table, queue tables, buffers and their mappings, size | open, look up nodes, create queues, dispatch, allocate, submit batches, free, destroy, close | early returns, three index spaces (node, hardware index, list position), stale samples, batches larger than a ring, an endless sweep | what is used exists, is mapped and has room; all sizes are swept; what was created is destroyed; the program ends |
| Statistics (`logTimes`, `finalizeTime`, `average`) | time samples | append, average, clear | warm-up values, samples of an earlier size | a line averages its own size after the warm-up |
| HSA wrappers, scripts, build | node table (`HsaNodeInfo`) | driver calls | nodes that do not answer | - |

Interaction: `main` reads the environment, `initialize` makes queues,
`getPreferredEngines` the map; a collective builds its lists once and then, per
size, allocates and fills buffers, runs `NUM_ITER` iterations, validates and frees.
CPU and engines share exactly: the rings with their pointers, the GPU and system
buffers, and the signal buffers.

The hazards of this code - what can go wrong that a test would hardly reach - are
listed with their lines in `PROJECT.json`, with the properties that watch them.

## Modules

| Module | Models | State and actions against the code |
|---|---|---|
| `PacketFifo` | what a queue promises | abstract: `staged`, `queued`, `received` |
| `SDMARing` | `BaseQueue::PlacePacket`, `SDMAQueue::SubmitPacket`, `Rptr`, an engine | `ring` slots are dwords tagged with the packet they belong to; `PlacePacket(size)` is the whole function with its padding loop and both pointers, `Overrun` its failing `CHECK_GE`s; `SkipNop`, `FetchPacket`, `WriteBack` are the engine as the code relies on it |
| `SDMARing_proofs` | - | theorems about `SDMARing` |
| `Sorted` | the order of a `std::map` | `Ascending`, a finite set of numbers in order; used by `CommandLists` and, for positions in the ring, by `SDMARing` |
| `CommandLists` | `getPreferredEngines` and the list construction of the six collectives | pure operators on an input record (environment, machine) |
| `ListFacts` | - | lemmas about the operators of `CommandLists`: whom a list serves and how long it is, per collective; about sums over finite sets |
| `PacketSplit` | the loop of the copy, swap and fill constructors, packet lengths | `Construct` computes the allocation with 32-bit wrap, `WritePacket` is one turn of the loop |
| `PacketSplit_proofs` | - | theorems about `PacketSplit` |
| `CommandPlan` | the loop over GPUs that builds the lists, and what the rest reads off them | `FinishedPlan` is the plan it hands on; `Build` is one GPU's turn, `Skip` the early return of b2b, `Crash` a read past the end of `dma` or of an empty `engine_dests`, or the round robin's division by the number of xGMI engines less one when there is one (`NoMap`) |
| `CollectivePlans` | what a collective executes | a plan: finished lists, what a command does, counts and targets; `Serves` says when it does its job |
| `CollectiveSpec` | what a collective promises | abstract: pairs that have arrived, iterations completed |
| `Collective` | one run of a collective over a sweep of sizes, CPU thread and all engines | `pc` is the position of the CPU thread; each function is one action or, where engines can run in between, one action per doorbell, signal read or signal write; `Engine(e)` executes the packet at the head of e's queue |
| `CollectiveInv` | - | the inductive invariant of `Collective`, with lemmas about what each phase submits |
| `Collective_proofs` | - | theorems about `Collective` |
| `P2pLatency` | `P2pCopyLatencyMap` | the same for the benchmark, `pass` telling calibration, fills and the timed passes apart |
| `P2pLatency_proofs` | - | theorems about `P2pLatency` |
| `QueueFacts` | - | lemmas about queues of packets (what is in them, before what, and at their end) and about sets of numbers in ascending order |
| `Session` | a run of the program: `main` from the opening of the map to its return | extends `CommandPlan` and `PacketSplit`, whose steps it takes inside `Plan` and `ConstructPacket`; `pc` is the position of `main`; one action per call that can return early, exit or crash; `Submit`/`Wait` are a batch of packets and the spin loop behind it |
| `Session_proofs` | - | theorems about `Session` |
| `MC*` | - | instances for TLC; `MCCollective` takes its plans from `PlanFor`, as `FinishedPlan` does, so the lists run are the code's |

How the modules compose: `Collective` and `P2pLatency` see a queue as a FIFO of
packets that become visible at the doorbell; `SDMARing` implements `PacketFifo`
(run `ring`, property `ImplementsFifo`; theorem `RingImplements`), which is that abstraction. `Collective`
implements `CollectiveSpec` (run `two_gpus`, `ImplementsCollective`).

`Session` composes the other way round: it takes the building of lists and the
splitting of packets as steps of its own and treats a batch (what is placed before
one wait) as done at the wait, which is what `Collective` and `P2pLatency` show
(`Terminates`, `FreedIsQuiescent`). In return it sees what those leave out: how many
dwords go to which ring, which queue exists, which GPU a buffer is mapped on, which
size is next. `exited` is `exit(1)` after a failed `CHECK_*`; `crashed` is a read
past the end of a table, an exception nobody catches, a packet placed on a queue that
was not created (a null pointer, or an engine number past the end of the GPU's queues),
or a division by zero; `EXPECT_*` only prints, so a failure there is no step. In `BatchFits` the read pointer `PlacePacket`
consults may be one batch old: the wait shows that the engine has executed the batch, not
that it has written its read pointer back. All data packets of a size are built alike,
so one construction per size stands for them.

Choices of grain. A signal is read or written by the CPU one word at a time, with
engine steps in between. Writes of a phase's first values (`fillMem`, `initSignals`,
`validateMem` arming) are one action: no packet that uses those slots is queued at
that moment (`FreedIsQuiescent`, `SignalsNeverWrap` and the results would show
otherwise). Packets placed before one doorbell become visible together, which is
what the doorbell does. A packet is executed in one step; that two engines never
work on one chunk at a time is checked separately (`RaceFree`), so that the grain
does not hide a race. A chunk holds one value: its elements are always written
together. GPU memory is visible to every reader once the packet that wrote it has
been executed; an engine executes its queue strictly in order. These are
assumptions about the hardware that the code makes as well.

`CpuEngine` and `FillEngine` are the engine numbers `validateMem` and `fillMem`
use (0 and 2). Time points are counted, not measured.

## Runs

Bounds are chosen as the smallest that contain the cases named.

| Run | Checks | Bounds and why they are enough |
|---|---|---|
| `ring` | safety of the ring with either doorbell format, room for packets, refinement of `PacketFifo` with liveness | ring of 8 dwords, packets of 2, 3, 4 and an impossible 9, positions up to 22, a read pointer word of 16: every residue, padding of 0 to 3 slots, nearly three laps, and the low word wraps |
| `session` | lists, queues, mappings, ring space, sweep, samples, splitting, end of the program | lists on every machine up to 8 GPUs, the hardware's maximum (swap up to 11), with GPU lists that are prefixes, reversed and with gaps, broadcast among some GPUs with a map of their links, those without a sweep. Sweeps on 2 to 4 GPUs. A "GiB" is 32 bytes and a 32-bit word 128, so that sizes of 1 to 96 bytes make one to three packets, exact and with a rest; a page is 8 bytes; rings have the code's 1024 and 524288 dwords; 7 iterations (two after the warm-up), 60 for the P2P fills in a 4 KB ring. `MaxSamples` 70 and `MaxDoublings` 7 exceed what the inputs need. Inputs with too few GPUs, silent nodes, a partitioned GPU, no GPU, no map file, too few iterations or an unknown variant stop early. Inputs the code crashes on are explored as well: machines with none to three xGMI engines, engine ids or a map the machine lacks, CPU engines in either, a map without some line, a third CPU engine, the benchmark with one GPU or four iterations. `WellFormed`, under which `NeverCrashes` is stated, has no idle condition: with any one of them dropped the run finds `NeverCrashes` violated |
| `two_gpus` | everything about execution | 2 GPUs, 2 iterations, 2 sizes: iterations, phases and sizes follow each other, so slots and buffers are reused; all completion types and triggers |
| `three_gpus` | results, races and termination | swap lists of different lengths, b2b batches of two; with one usable engine per GPU a poll stands in front of a poll; 1 iteration, atomics only, to stay small |
| `four_gpus_bcst` | broadcast | the smallest collective with a two-destination packet; 1 iteration, no trigger, to stay small |
| `p2p` | the benchmark | 3 iterations, 2 sizes (the timestamp overhead is measured with the first only), both modes |

Signals are two halves of 2 bits each, so a wrap below zero is visible. `CHECK_DEADLOCK
FALSE` stands where the program ends; the rings may not deadlock. The runs explore from
592 (`p2p`) to about 612,000 states (`four_gpus_bcst`).

The remaining runs each show a place where the code does not do what it or its
documentation says (`findings` in `PROJECT.json`, with both places quoted):

* `short_dma`: b2b checks the number of engine ids rounding down, uses it rounding up (C:807, C:1063).
* `prelaunch_times`: 59 time points in a vector of 58 with 8 GPUs and `PRELAUNCH`.
* `bcst_subset`: broadcast on some of the GPUs takes the others for GPU 0 and can finish early or never.
* `free_leak`: `freeMem` keeps the output buffers.
* `p2p_stamps`: the last timestamp may be read before it is written.
* `gpu_list`: with a `GPU_LIST` that does not start at 0 the engines of other GPUs are used, on memory mapped for the listed ones (C:703).

Seen while modelling, outside the properties:

* `validateMem` leaves out GPU 0 and the second half of every chunk (`ResultCorrect`
  is stated for all of them and holds, so validation would miss nothing the model
  contains).
* Broadcast on an odd number of GPUs needs one command more than the ⌈(N−1)/2⌉ of
  `PERFORMANCE.md:44`: the first and the last destination both go alone.
* Chunk strides are whole words: 3 GPUs with the default `MIN_SIZE` of 128 get chunks of
  42 bytes 40 bytes apart, which overlap. `ChunksApart` is stated for whole words.
* With too few GPUs `initialize` prints "Skipping execution" and returns, and `main` goes on
  with empty queue tables. With `NUM_ITER` below 5 the P2P benchmark averages from beyond the
  end of its samples, and with one GPU it reads the second of a list of one (C:357-361).
* `HsaNodeInfo::Init` goes on after a node that does not answer ("we want to get information
  regarding others", `util.cpp:273`) but keeps the answers without gaps and the GPU numbers
  with them, so lookups after the gap get the next node's properties or throw.
* `destroyQueues` covers the first `numNodes` GPUs; broadcast, a skipped b2b and an
  unknown variant do not call it. What is left is destroyed by the destructors, after the
  driver has been closed. `QueuesReleased` is stated for the rest.
* With `SDMA_QUEUE_SIZE=0` and some 190 iterations or more the P2P fills overrun the 4 KB ring
  (5 dwords each, none submitted), with multi-packet sizes earlier. `freeMem` passes
  the size before its rounding to a page.
* Sizes of more than 3 GiB wrap the packet count, of 4 GiB and more are truncated
  (hence `SplitAssumption`). `MIN_SIZE` below the number of GPUs gives the size 0 and an
  endless sweep (hence no such input in `SessionEnds`).
* Engine numbers are not checked: neither the benchmark's 4 nor the default b2b engine 8 need exist, and
  a packet for an engine that does not is placed through a null or stray pointer (C:703, C:851). With one
  xGMI engine and no map the round robin divides by zero (C:526).
* None of these inputs is rejected, so `NeverCrashes` is a statement about the others. `WellFormed` says what
  the documentation asks for (`README.md:105-113`: two GPUs or more, six iterations or more, xGMI engine
  ids, a map of the links) as far as the code depends on it, and what a machine has (two CPU
  engines, nodes that answer). The property then says that the tables agree: a node, a GPU number,
  a list position and an engine number computed in one part are valid where another uses them. It does
  not watch the code on the other inputs: there the model crashes as the code does, or goes on, and
  `PROJECT.json` lists these places as hazards without a property.
* The README's `SRC_GPU` and `DST_GPU` are not read (`main.cpp` passes 0, 1 and engine 4); a comment says `SDMA_MAP` is ignored on MI210,
  the code uses it.

Round robin takes every second xGMI engine, so with fewer than
2(N-1) of them several destinations share an engine, although pcpy is described as
one engine per destination (`PERFORMANCE.md` and the comments).

## Fairness

`Collective` and `P2pLatency` assume weak fairness of the CPU thread (the
operating system keeps running it; it never blocks except by spinning) and of each
engine (one that has an executable packet at its head executes it). A poll whose
signal is not clear is not executable. Polls retry for ever (`SDMAPacket.cpp:147`)
and see a trigger stay cleared, so weak fairness is enough. `SDMARing` assumes that the
engine reads what was submitted and eventually writes its pointer back; nothing
is assumed of the CPU there. `Session` assumes that `main`'s thread keeps running and
that each wait ends, which `Terminates` of `Collective` and `P2pLatency` gives.

## Variants

Definitions marked `variant` are not part of any model. Each is its successor with
one plausible slip (a forgotten padding, a shared slot, a swapped order), and
`PROJECT.json` pairs it with a property that fails once it is put in place, which shows
that the property constrains the code and is not true by construction.

## Proofs

`SDMARing_proofs` proves, for every ring size, every set of packet sizes, both
doorbell formats and any behaviour of the engine's write-back:

* `RingInvariant`: `Spec => []RingInv`, and from it
* `TypeCorrect` (`TypeOK`), `PointersCorrect` (`PointersAgree`), both conjuncts of `RingInv`,
  which is what the run checks; `NoOverwrite` (`UnreadIntact`) and `RoomForHalfRing` (`RoomUnlessBusy`);
* `RingImplements`: every behaviour starts as `PacketFifo` does and each step is one of its steps or a
  stutter (the safety part of `ImplementsFifo`), so what `Collective` and `P2pLatency` take a queue to be
  is what the ring is.

Assumptions: `RingAssumption` (types of the constants) and `WordAssumption` (the ring
divides the word `Rptr` reads, true of the power-of-two sizes the code creates).

The argument. `UnreadIntact` alone is not inductive: `PlacePacket` judges free space by
a stale read pointer, and the engine stops where an older doorbell told it to.
`ReadPtrOk` says that the read pointer, in either format, stands for some position the
engine has reached that is still less than a ring behind the CPU; with it the
available dwords computed modulo the ring are exactly those behind that position
(`RoomSeen`), so an accepted packet ends less than a ring beyond it (`PlaceRoom`) and
the slots it writes hold no unread position (`PlaceWrites`). `SubmitOk` says that the
submitted position has been reached by the CPU and lies inside no unread packet, so the
engine, which advances by whole packets, never runs past it
(`AdvanceKeepsInv`, `FetchKeepsInv`). The arithmetic rests on a few lemmas about `%`
at the head of the module (positions less than a ring apart share no slot; wrapping
before adding makes no difference).

For the FIFO, a stretch of the ring amounts to the packets whose headers lie in it, by rising
position (`Walk`). `WalkJoin` says that a stretch is the part up to some position followed by the
part from there, so each step needs to look at one piece only: the new packet's stretch
(`PlaceImplements`), the NOP skipped (`SkipImplements`), the packet read (`FetchImplements`); and
the doorbell moves the border between staged and queued to the CPU's position (`SubmitImplements`). In
the old doorbell format that border has to be recovered from a wrapped pointer
(`SubmittedFound`), which works because the CPU is never a ring ahead.

`PacketSplit_proofs` proves for every packet limit, word size and surface of up to
`Word - Gig` bytes that the constructors stay inside their allocation and fill it
(`StaysWithin`) and that the packets cover the surface once (`EveryByteOnce`), from
`SplitAssumption` (which keeps surfaces below the sizes where the packet count wraps). The properties speak of packets written, so the invariant has to tie
them to what is left: `RoomLeft` says that the room not yet used is the rest of the surface
divided by the limit, rounded up (`(room - written - 1) * Gig < surfsize <= (room - written)
* Gig`), which one turn of the loop keeps whether its piece is whole or last; `Written` that
the packets are disjoint and cover what is done. `NegativeFactor`, `PositiveFactor` and
`RoundUp` are the arithmetic.

`Collective_proofs` proves, for every number of GPUs, iterations and sizes, all three completion
types, with and without triggers, and any set of plans with the property `Serves`:
`CollectiveInvariant` (`Inv`), and from it all safety properties the runs check:
`CollectiveTypeCorrect` (`TypeOK`), `CollectiveSignals` (`SignalsNeverWrap`), `CollectiveCorrect`
(`ResultCorrect`), `CollectiveSeenMoved` (`SeenIsMoved`), `CollectiveRaceFree` (`RaceFree`),
`CollectiveFreedQuiescent` (`FreedIsQuiescent`), `CollectiveValidates` (`ValidationPasses`), the action
properties `CollectiveGated` (`PrelaunchGated`) and `CollectiveLogComplete` (`LogComplete`), and
`CollectiveImplements`: every behaviour starts as `CollectiveSpec` does and each of its steps is
one of `CollectiveSpec` or a stutter (the safety part of `ImplementsCollective`).

Assumptions: `CollectiveAssumption` (types of the constants, two engines told apart, room in the signal
buffer), and `PlansServe`: each ordered pair of GPUs is served by one command, once, and the counts
are those of the lists. It is a hypothesis of the theorems and no assumption of the module because it
is false where GPUs are left out of a broadcast (run `bcst_subset`, where `ResultCorrect` fails). TLC
evaluates it for the plans of the runs (`WholeMachineServes` in `MCCollective`), and `SessionServes` in
`Session_proofs` shows it of the plan the code builds, for any number of GPUs (under `Pairing`, see below).

The argument. None of the properties is inductive: that a signal is 0 says nothing of memory unless one
knows what stood in front of the packet that cleared it, and that an engine's write does no harm depends
on what the others hold. `Inv` looks at filling, moving and checking as one protocol. A *job* is the batch
of packets for one GPU or command; it has a slot of its own, set before (`Armed`) and cleared by the
packet that ends the job. `Queued` says that queues consist of parts of jobs placed and end in a
completion, so a queue without one is empty; `DataInv` that each data packet has had its effect or stands
before its job's completion. So when all slots are clear every queue is empty and all data has
arrived (`Drained`), which closes each of the three phases (`FillsDone`, `MoveDone`, `ChecksDone`).
`MemInv` says what the packets read: all-gather and all-to-all read chunks that nobody writes (`Sources`),
a pair to be swapped is untouched until its one swap is executed (`Swaps`: a swap executed twice would
undo itself). That an effect once had is not undone is where the plan comes in: by `Serves` no two
commands write one chunk. `CountInv` ties the spin loop's count to the shares of the commands it has seen;
as these are part of a finite set with as many elements as the target, meeting the target means
having seen all (`AllSeen`), for weighted (broadcast) and plain counts alike. `Gated` keeps a poll at the
head of every queue until the last command is placed. For the refinement two more facts are needed: freshly
filled buffers show no transfer as done (`NothingMoved`: patterns differ), and whatever an engine
writes while commands move chunks is what belongs there (`WrittenRight`), so what has arrived stays.

`P2pLatency_proofs` does the same for the benchmark, for any number of iterations and sizes and both modes:
`P2pInvariant`, and from it `P2pTypeCorrect` (`TypeOK`), `P2pValidates` (`ValidationPasses`), `P2pCopyGated`
(`CopyAwaitsRelease`), `P2pStampsWritten` (`StampsBeforeSync`) and `P2pFreedQuiescent` (`FreedIsQuiescent`).
Here at most one batch is under way on each queue, with the completion the CPU waits for behind its data
packets; a queue with nothing placed holds at most the timestamp that follows a completion
(`IdleUnlessPlaced`). `DataInv`, `StampInv` and `GateInv` say of data, timestamps and polls that they are
done or under way.

`Session_proofs` proves facts about whole sessions, for every set of inputs within
`SessionAssumption` (which says what the environment variables can be: lists of numbers, at least one
way per batch, sizes the constructors handle) and any ring and page sizes. `SessionInvariant` lifts the
facts about packets (`SessionStaysWithin`, `SessionEveryByteOnce`): `SizeInv` shows that every size
swept and the calibration's are among those the constructors handle. It also proves that no queue of a
whole machine is left (`NoQueueLeft`): `QueueInv` bounds the queues by those `initialize` created and
follows the paths that skip `destroyQueues`; the engine numbers from 2 on contain the created ones
because `SessionAssumption` grants two CPU engines.

`SessionFullInvariant` (`FullInv`) adds what the other properties need to know about states far apart:

* `TableInv`: behind `initialize` the node table and the GPU numbers are those of the machine, and
  whoever uses queues has gone through the creation of all of them (`main` does not check). With
  `PlanInv`, which says that lists are built GPU by GPU by the operators of `CommandLists` and only
  where these find what they read, this gives `SessionTypesHold` (`SessionTypeOK`) and every step of
  `SessionNeverCrashes` (`NeverCrashes`) up to the batches: GPUs of the list without repetition are no more than
  `initialize` counted (`WellFormedTables`), lists end regularly (`WellFormedLists`), and where there
  is no map the round robin has something to divide by (`WellFormedMap`).
* `BatchInv`: batches of a size come in order, only on the queues that fills, readbacks and the
  lists name (`Reached`), with the buffers of this size mapped. It gives `SessionMapped`
  (`MappedWhereUsed`) and the rest of `SessionNeverCrashes`: every queue a batch can name is one
  `initialize` created (`ReachedLive`). `CommandEngines` shows of each
  collective that its lists name xGMI engines, with or without a map; `SecondEngine` and `EngineNumbers`
  do so for the engines of fills and readbacks.
* `SampleInv`: the samples are those of the measured batches behind us of this size (`Measured`
  counts them, interleaved with readbacks in the benchmark), which gives `SessionAveragesFresh`
  (`AveragesFresh`): `finalizeTime` clears what it has averaged, and where it returns early nothing is averaged.

`SessionChunksApart` (`ChunksApart`) needs `SizeInv` only. Two of the above hold under a condition on the input, since
the code does not give them without. `SessionMapped` needs `InOrder` (`GPU_LIST` names the first GPUs in order; otherwise
run `gpu_list` finds `MappedWhereUsed` violated). `SessionNeverCrashes` has `WellFormed` inside the property:
`Usable`, nodes that answer up to the last GPU, and at least five iterations for the benchmark. `Usable` is

* `ListServes`: `GPU_LIST` names GPUs of the machine, none twice, and more than one for broadcast and the benchmark;
* `EnginesServe`: two CPU engines; two or more xGMI engines to deal out if no map is given; engine 4 for the
  benchmark; for b2b, ids of `B2B_DMA` that are xGMI engines, enough of them for the destinations;
* `MapServes`: if a map is given its engines are xGMI engines, and it has a line for every two GPUs taking part
  (a missing line reads as engine 0).

Sizes: `SessionSweeps` (`SweepComplete`). That a sweep is at some size says nothing of the lines printed before;
`SweepInv` says that it is at the `k`-th doubling of its first size, that the sizes of the doublings before were
within the limit, and that their lines are those printed. When the sweep is over, no doubling from
the `k`-th on is within the limit (`SweptAll`); `DoublingsAssumption` says that the bound `MaxDoublings`
reaches the largest size a word holds. What a power of two is (`PowerOf2`, a recursive function) had to be
proved first: the library's theorem about such definitions needs an operator as a parameter, so
`DoublingExists` builds the function up to each number and `PowerOf2Is` joins these.

Room: `SessionBatchesFit` (`BatchFits`). `FitInv` bounds what is on its way and what was before it, on each
queue, by the longest batch of that queue, computed with the packets of the largest size (`RoomGrows`). The
batch of an iteration is a sum over the commands on an engine; the sum of the community modules is shown to be
what adding one element after the other gives (`SumExists`), and so no more than the bound of one command
times the number of commands (`SumBounded`, `CommandSizes`, `IterateFits`). The theorem needs `Usable` and the rule
`Roomy`: a ring holds two of its longest batches and a packet. `SessionFitsSmallRings` says where that is so
without looking: on up to eight GPUs with rings of 4 KB (`SDMA_QUEUE_SIZE=0`), for all sizes of less than 3 GiB
per GPU and any number of iterations, and for the benchmark up to 32 iterations. Of the inputs of run
`session` all but one keep to `Roomy`: the benchmark's 60 iterations in a 4 KB ring still fit, since each size's fills
come behind those of a smaller size; that one only TLC checks.

The lists, for any number of GPUs: `SessionTransfersOnce` (`EveryTransferOnce`), `SessionCountMeets`
(`CountMeetsTarget`) and, if two signals for each ordered pair of GPUs fit the buffer (up to 16 GPUs in the
code's 4 KB), `SessionSlotsSuffice` (`SlotsSuffice`). `SessionServes` draws them together: once the lists are
finished, `FinishedPlan` has the property `Serves` that `Collective_proofs` assumes of its plans. That a
pair is served by one place of one list is `ServedByOne`; lengths, the count that is the target and the
target itself are `FinishedSlots`, `FinishedCount` and `FinishedTarget`. The condition `Pairing` excludes swap with a GPU named twice
in `GPU_LIST`, and broadcast where the affinity map is not `Wired`, that is, has not for each GPU one
engine to each other GPU taking part and none that leads elsewhere (without an `SDMA_MAP` that is so on some of a machine's
GPUs, see `bcst_subset`). It is wired on a whole machine with an engine per peer (`WholeWires`), and by any
`SDMA_MAP` with one line and one engine for each link between the GPUs taking part (`MapWires`), in whatever order the
engines lead to them. All inputs of the run whose lists are finished satisfy `Pairing`. `ListFacts` has the argument per collective:

* Direct copies: `(i + n) % N` and the index order with `i` left out are bijections on the peers
  (`PeersOnce`); batches cut that order into slices without gap or overlap (`SliceServes`).
* Swap is greedy, and what GPU `i` takes depends on all GPUs before it. `SwapInv` says what that comes to:
  with `h` half the number of GPUs, rounded down, GPU `i` takes the next `h` GPUs in ring order, the
  second half of an even number of GPUs one fewer (`SwapTakes`). `SwapTurn` shows that one more turn of the code's loop keeps this, `SwapPairs` that exactly one GPU of each pair takes it, and
  `CommandCount` that the two lengths of list add up to `N * (N - 1) / 2`.
* Broadcast: a wired GPU has as many engines as there are other GPUs (`WiredEngines`), in ascending order they
  lead to all of them (`BcstDests`), and pairing them up puts each in one place (`BcstPairsUp`), engine `n` in row
  `n div 2 + 1`; all places together are `N * (N - 1)` (`BcstCount`).

A finite set in ascending order is defined without recursion (`Ascending`: element `n` has `n - 1` elements below
it). What is proved of it rests on `MemberOfRank`, the one induction over numbers, made from the
existence of least members (`NumberInduction`).

Every safety property that a passing run checks is thus stated by a theorem. Only model-checked:

* liveness: that collectives, the benchmark and sessions come to an end, and the liveness parts of `ImplementsFifo` and
  `ImplementsCollective`. The prover does not handle fairness (`ENABLED`).
* `BatchFits` for rings smaller than `Roomy` asks for.
* That the waits of a session end, which `Session` takes from `Terminates` of `Collective` and `P2pLatency`.

## Not modelled

Bit layouts of packets and the packet kinds nobody places; measured times, averages and
bandwidths as numbers (floating point); output; the HSA driver calls beyond success or
failure of opening, creating and allocating; `average` and its table, which stays empty; the scripts.

## Plan

Done: `PacketFifo`, `SDMARing`, `CommandLists`/`CommandPlan`, `CollectiveSpec`/`Collective`,
`P2pLatency`, `PacketSplit` and `Session`, with proofs of all safety properties.

Next, in this order:

1. Larger instances: broadcast with triggers on four GPUs, swap with two iterations on three.
2. `BatchFits` with a bound of its own for each size of the benchmark, which would cover the input named above.
