------------------------------- MODULE Session ------------------------------
(***************************************************************************)
(* A run of the program, from main to its return: the driver is opened,    *)
(* nodes are looked up, queues are created, the collective builds its      *)
(* command lists (CommandPlan) and sweeps over sizes, each with buffers,   *)
(* packets (PacketSplit) and batches of its own, and everything is torn    *)
(* down again.                                                             *)
(*                                                                         *)
(* What happens between a doorbell and the end of the wait behind it is    *)
(* the matter of Collective and P2pLatency; here a batch is placed, waited *)
(* for and done, and what counts is where its packets go, how much room    *)
(* they take and what they touch.                                          *)
(*                                                                         *)
(* The input record of CommandLists has these fields in addition:          *)
(*   mapOpens       the file SDMA_MAP names, if any, can be opened         *)
(*   nodes          what each node of the machine is: "cpu", "gpu", or     *)
(*                  "silent" if its properties cannot be had               *)
(*   gfx942         the GPUs are MI300X                                    *)
(*   minSize, maxSize, numIter, syncType, bigQueues (SDMA_QUEUE_SIZE)      *)
(* and its collective may be "p2p_latency" or "unknown" as well.           *)
(***************************************************************************)
EXTENDS CommandPlan, PacketSplit

CONSTANTS Page,         \* bytes of a page, 4 KB
          CpuQueue, SmallQueue, BigQueue,   \* dwords of the rings created
          MaxSamples,   \* bound: time samples kept
          MaxDoublings  \* bound: times the size of a sweep doubles

\* Sizes in the range that the packet constructors handle, at least one GPU,
\* the two CPU engines per GPU that the 2 of destroyQueues stands for, lists of
\* numbers as the environment variables give them, and samples within the bound.
Variants == {"ag_pcpy", "aa_pcpy", "aa_swap", "ag_bcst", "ag_b2b", "aa_b2b",
             "p2p_latency", "unknown"}
ASSUME SessionAssumption ==
    /\ Lengths = 0 .. Word - Gig
    /\ Gig \div 16 <= Word - Gig
    /\ Page \in Nat /\ MaxSamples \in Nat
    /\ CpuQueue \in Nat /\ SmallQueue \in Nat /\ BigQueue \in Nat
    /\ \A in \in Inputs :
         /\ in.collective \in Variants
         /\ in.nodes \in Seq({"cpu", "gpu", "silent"})
         /\ in.gpus \in Seq(Nat)
         /\ in.engineMap \in Seq(Nat \X Nat \X Nat)
         /\ in.dma \in Seq(Nat)
         /\ in.ways \in Nat \ {0}
         /\ in.numTotalNodes = Cardinality({n \in 0 .. Len(in.nodes) - 1 : in.nodes[n + 1] = "gpu"})
         /\ in.numIter \in Nat
         /\ in.numIter <= MaxSamples
         /\ in.minSize \in Nat
         /\ in.maxSize \in Nat
         /\ NodeCount(in) \in Nat \ {0}
         /\ IF in.collective = "p2p_latency" THEN in.maxSize <= Word - Gig
                                             ELSE in.maxSize \div NodeCount(in) <= Word - Gig
         /\ in.numCpuSdma \in Nat /\ in.numCpuSdma >= 2
         /\ in.numTotalSdma \in Nat /\ in.numTotalSdma >= in.numCpuSdma

\* Sizes are below Word: a sweep that starts at a byte or more doubles at most
\* as often as it takes to get there.
PowerOf2[k \in Nat] == IF k = 0 THEN 1 ELSE 2 * PowerOf2[k - 1]
ASSUME DoublingsAssumption ==
    /\ MaxDoublings \in Nat
    /\ Word <= PowerOf2[MaxDoublings]

VARIABLES pc,           \* where main is
          kfd,          \* the driver is open
          m_HsaNodeProps, \* the nodes whose properties the table holds, in order
          allGpuNodes,  \* the nodes that are GPUs, in order
          queues,       \* the queues that exist
          calibrated,   \* p2p: the calibration is behind us
          size,         \* the size being swept
          step,         \* the batch of this size whose turn it is
          memory,       \* buffers engines find through one GPU's mapping:
                        \* the GPUs (hardware indices) each is mapped on
          batch,        \* dwords placed on each queue since the last wait
          drained,      \* those placed before that, read by the engine but
                        \* perhaps not yet written back as read
          samples,      \* scheduleCopyTime: the size each sample was taken at
          reports       \* the lines printed

lookVars    == <<kfd, m_HsaNodeProps, allGpuNodes>>
batchVars   == <<batch, drained, samples>>
sweepVars   == <<calibrated, size, step, memory, reports>>
sessionVars == <<planVars, splitVars, lookVars, queues, batchVars, sweepVars, pc>>

N == NodeCount(input)
IsP2p == input.collective = "p2p_latency"

-----------------------------------------------------------------------------
(* Nodes and queues.                                                       *)

\* HsaNodeInfo::Init keeps the properties of the nodes that answer.
Nodes == 0 .. Len(input.nodes) - 1
Answering == {n \in Nodes : input.nodes[n + 1] # "silent"}
GpuNodesAll == {n \in Nodes : input.nodes[n + 1] # "cpu"}        \* variant
GpuNodes  == {n \in Nodes : input.nodes[n + 1] = "gpu"}

\* GetNodeProperties(n) is element n of that table: at() throws beyond its end.
Throws(n) == n >= Cardinality(m_HsaNodeProps)

\* A queue is named by its table, its row there and its engine.
CpuQ(i, j)  == <<"cpu", i, j>>
XgmiQ(i, j) == <<"xgmi", i, j>>
Rows(n)     == 0 .. n - 1
XgmiEngines(first) == first .. input.numTotalSdma - 1

CreatedQueues ==
    {CpuQ(i, j) : i \in Rows(Cardinality(allGpuNodes)), j \in 0 .. input.numCpuSdma - 1}
      \cup {XgmiQ(i, j) : i \in Rows(Cardinality(allGpuNodes)), j \in XgmiEngines(input.numCpuSdma)}

DestroyedQueuesXgmiOnly == {XgmiQ(i, j) : i \in Rows(N), j \in XgmiEngines(2)}   \* variant
DestroyedQueues ==
    {XgmiQ(i, j) : i \in Rows(N), j \in XgmiEngines(2)}
      \cup {CpuQ(i, j) : i \in Rows(N), j \in 0 .. input.numCpuSdma - 1}

Capacity(q) == IF q[1] = "cpu" THEN CpuQueue
               ELSE IF input.bigQueues THEN BigQueue ELSE SmallQueue

-----------------------------------------------------------------------------
(* The sweep.                                                              *)

\* Collectives divide the sizes by the number of GPUs, the benchmark does not;
\* its calibration copies 64 MB.
Share(n) == IF IsP2p THEN n ELSE n \div N
MinShareWhole == input.minSize                   \* variant
MinShare == Share(input.minSize)
NextSizeSame == size                             \* variant
NextSize == 2 * size
CalibrationSize == Gig \div 16
Warmup == 5

\* The batches of one size, in order, each ended by a wait.
CollectiveBatch(k) == IF k <= input.numIter THEN "fill"
                      ELSE IF k <= 2 * input.numIter THEN "iterate" ELSE "validate"
Overheads == IF size = MinShare THEN input.numIter ELSE 0     \* ~ts_calibrated
P2pBatch(k) ==
    LET m == k - 1 - Overheads
    IN  CASE k = 1          -> "fills"
          [] k > 1 /\ m <= 0 -> "overhead"
          [] m > 0 /\ m % 2 = 0 -> "readback"
          [] OTHER          -> IF m <= 2 * input.numIter THEN "copy" ELSE "stamped"
BatchKind(k) == IF ~calibrated THEN <<"calibrateFill", "calibrateCopy">>[k]
                ELSE IF IsP2p THEN P2pBatch(k) ELSE CollectiveBatch(k)
BatchesOfSize == IF ~calibrated THEN 2
            ELSE IF IsP2p THEN 1 + Overheads + 4 * input.numIter ELSE 3 * input.numIter

\* Dwords: a packet object is as long as its allocation.
Copies(n)    == CopyDwords(n) * room
SyncDwords   == CASE input.syncType = 0 -> FenceDwords
                  [] input.syncType = 1 -> 2 * FenceDwords
                  [] OTHER              -> AtomicDwords
GateDwords   == IF input.prelaunch THEN PollDwords ELSE 0
MoveDwords(c) == IF IsSwap(input) THEN SwapDwords * room
                 ELSE IF input.collective = "ag_bcst" THEN Copies(Len(c.dests))
                 ELSE Len(c.dests) * Copies(1)
CommandDwords(c) == GateDwords + MoveDwords(c) + SyncDwords
MaxPacket == Max({Copies(2), AtomicDwords})

OnEngine(q) == {x \in Issued : XgmiQ(x[1], List(x[1])[x[2]].engine_id) = q}
IterateDwords ==
    [q \in {XgmiQ(x[1], List(x[1])[x[2]].engine_id) : x \in Issued} |->
       MapThenSumSet(LAMBDA x : CommandDwords(List(x[1])[x[2]]), OnEngine(q))]

\* What each kind of batch places on which queue before it waits.
Src  == XgmiQ(0, 4)
Dest == XgmiQ(1, 4)
Placed(kind) ==
    CASE kind = "fill"     -> [q \in {XgmiQ(i, 2) : i \in Rows(N)} |->
                                 2 * N * FillDwords * room + FenceDwords]
      [] kind = "iterate"  -> IterateDwords
      [] kind = "validate" -> [q \in {CpuQ(i, 0) : i \in Rows(N) \ {0}} |->
                                 N * Copies(1) + FenceDwords]
      [] kind = "fills"    -> [q \in {Src, Dest} |->
                                 input.numIter * FillDwords * room + AtomicDwords]
      [] kind = "overhead" -> [q \in {Src} |-> 3 * TimeDwords + AtomicDwords]
      [] kind = "copy"     -> [q \in {Src} |-> GateDwords + Copies(1) + AtomicDwords]
      [] kind = "stamped"  -> [q \in {Src} |-> GateDwords + Copies(1) + AtomicDwords
                                 + (IF input.prelaunch THEN 4 ELSE 3) * TimeDwords]
      [] kind = "readback" -> [q \in {CpuQ(1, 0)} |-> Copies(1) + AtomicDwords]
      [] kind = "calibrateFill" -> [q \in {Src} |-> FillDwords * room + AtomicDwords]
      [] kind = "calibrateCopy" -> [q \in {Src} |-> Copies(1) + AtomicDwords + 2 * TimeDwords]

\* What the packets of a batch on queue q touch, GPU buffers aside.
Touched(q) == {<<"signal">>} \cup (IF q[1] = "cpu" THEN {<<"sys", q[2]>>} ELSE {})

\* allocateMem, allocateMemP2p: system buffers are mapped on their GPU, signal
\* buffers on all GPUs taking part.  (GPU buffers are mapped on every GPU.)
Slabs == IF IsP2p THEN {0, 1} ELSE Gpus(input)
SignalMappingFirstOnly == {Hw(input, 0)}         \* variant
SignalMapping == {Hw(input, i) : i \in Slabs}
Mappings == [b \in {<<"sys", i>> : i \in Slabs} \cup {<<"signal">>} |->
               IF b = <<"signal">> THEN SignalMapping ELSE {Hw(input, b[2])}]

\* Chunk j of a slab starts at element j * (size / 4) of 32 bits.
AllocSize == Max({Page, (IF IsP2p THEN 1 ELSE N) * size})
ChunkStrideOfWords == size \div 4                \* variant
ChunkStride == 4 * (size \div 4)
Chunk(j) == ChunkStride * j .. ChunkStride * j + size - 1

-----------------------------------------------------------------------------
(* main, up to the dispatch.                                               *)

Empty == [q \in {} |-> 0]

SessionInit ==
    /\ Init
    /\ SplitInit
    /\ pc = "start"
    /\ kfd = FALSE
    /\ m_HsaNodeProps = {}
    /\ allGpuNodes = {}
    /\ queues = {}
    /\ calibrated = ~IsP2p
    /\ size = 0
    /\ step = 1
    /\ memory = Empty
    /\ batch = Empty
    /\ drained = Empty
    /\ samples = <<>>
    /\ reports = {}

Goto(here, next) == pc = here /\ pc' = next

OpenMap ==
    /\ Goto("start", IF input.mapOpens THEN "setup" ELSE "destruct")
    /\ UNCHANGED <<planVars, splitVars, lookVars, queues, batchVars, sweepVars>>

\* SetUp exits when the driver does not open or there is no GPU.
SetUp ==
    /\ pc = "setup"
    /\ kfd' = TRUE
    /\ m_HsaNodeProps' = Answering
    /\ allGpuNodes' = GpuNodes
    /\ pc' = IF GpuNodes = {} THEN "exited"
             ELSE IF Min(GpuNodes) >= Cardinality(Answering) THEN "crashed" ELSE "initialize"
    /\ UNCHANGED <<planVars, splitVars, queues, batchVars, sweepVars>>

SetUpFails ==
    /\ Goto("setup", "exited")
    /\ UNCHANGED <<planVars, splitVars, lookVars, queues, batchVars, sweepVars>>

\* initialize: too few GPUs, and main goes on all the same; a partitioned
\* MI300X; an index in GPU_LIST beyond the last GPU, read past the vector's end.
TooFewGpus  == Cardinality(allGpuNodes) < N
Partitioned == input.gfx942 /\ input.numTotalSdma < 16
NoSuchGpu   == \E i \in Gpus(input) : Hw(input, i) >= Cardinality(allGpuNodes)

InitializeSkips ==
    /\ Goto("initialize", "dispatch")
    /\ TooFewGpus
    /\ UNCHANGED <<planVars, splitVars, lookVars, queues, batchVars, sweepVars>>

InitializeExits ==
    /\ Goto("initialize", "exited")
    /\ ~TooFewGpus
    /\ Partitioned
    /\ UNCHANGED <<planVars, splitVars, lookVars, queues, batchVars, sweepVars>>

\* A queue needs the properties of its node.  If the driver refuses one the
\* process exits; the driver then takes back what it holds.
CreateQueues ==
    /\ pc = "initialize"
    /\ ~TooFewGpus
    /\ ~Partitioned
    /\ \/ /\ ~NoSuchGpu
          /\ \A n \in allGpuNodes : ~Throws(n)
          /\ queues' = CreatedQueues
          /\ pc' = "dispatch"
       \/ /\ NoSuchGpu \/ \E n \in allGpuNodes : Throws(n)
          /\ pc' = "crashed"
          /\ UNCHANGED queues
       \/ /\ pc' = "exited"
          /\ UNCHANGED queues
    /\ UNCHANGED <<planVars, splitVars, lookVars, batchVars, sweepVars>>

\* The engine map comes first, for the benchmark too.  Without queues a
\* collective indexes empty vectors, unless it returns first or its sweep is
\* empty.
Dispatch ==
    /\ pc = "dispatch"
    /\ \/ /\ input.collective = "unknown"
          /\ pc' = "teardown"
       \/ /\ input.collective # "unknown"
          /\ queues # {}
          /\ pc' = IF ~IsP2p THEN "plan" ELSE IF NoMap THEN "crashed" ELSE "sweep"
       \/ /\ input.collective # "unknown"
          /\ queues = {}
          /\ \/ pc' = "crashed"
             \/ /\ TooFewEngines \/ (~IsP2p /\ MinShare > Share(input.maxSize))
                /\ pc' = "teardown"
    /\ size' = IF IsP2p THEN CalibrationSize ELSE MinShare
    /\ UNCHANGED <<planVars, splitVars, lookVars, queues, batchVars,
                   calibrated, step, memory, reports>>

Plan ==
    /\ pc = "plan"
    /\ Next
    /\ pc' = [building |-> "plan", ready |-> "sweep",
              skipped |-> "teardown", crashed |-> "crashed"][status']
    /\ UNCHANGED <<splitVars, lookVars, queues, batchVars, sweepVars>>

-----------------------------------------------------------------------------
(* One size: allocate, construct packets, run the batches, report, free.   *)

InSweep == ~calibrated \/ size <= Share(input.maxSize)

\* The benchmark takes the second GPU of the collective, whatever their number.
Allocate ==
    /\ pc = "sweep"
    /\ InSweep
    /\ \/ /\ IsP2p => N > 1
          /\ pc' = "run"
          /\ memory' = Mappings
          /\ samples' = IF IsP2p THEN <<>> ELSE samples
          /\ Construct(size)
       \/ /\ IsP2p /\ N = 1
          /\ pc' = "crashed"
          /\ UNCHANGED <<splitVars, memory, samples>>
    /\ UNCHANGED <<planVars, lookVars, queues, calibrated, size, step, batch, drained, reports>>

AllocateFails ==
    /\ Goto("sweep", "exited")
    /\ InSweep
    /\ UNCHANGED <<planVars, splitVars, lookVars, queues, batchVars, sweepVars>>

\* All data packets of a size are built alike; one construction stands for all.
ConstructPacket ==
    /\ Goto("run", "run")
    /\ WritePacket
    /\ UNCHANGED <<planVars, lookVars, queues, batchVars, sweepVars>>

\* A queue outside its table, or one that was never created, is followed all
\* the same.
Submit ==
    /\ pc = "run"
    /\ surfsize = 0
    /\ step <= BatchesOfSize
    /\ \/ /\ DOMAIN Placed(BatchKind(step)) \subseteq queues
          /\ pc' = "wait"
          /\ batch' = Placed(BatchKind(step))
       \/ /\ ~(DOMAIN Placed(BatchKind(step)) \subseteq queues)
          /\ pc' = "crashed"
          /\ UNCHANGED batch
    /\ UNCHANGED <<planVars, splitVars, lookVars, queues, drained, samples, sweepVars>>

\* The benchmark averages its overhead samples from the sixth on: with fewer
\* than five it reads beyond their end.
Wait ==
    /\ pc = "wait"
    /\ batch' = Empty
    /\ drained' = [q \in DOMAIN batch \cup DOMAIN drained |->
                     IF q \in DOMAIN batch THEN batch[q] ELSE drained[q]]
    /\ samples' = IF BatchKind(step) \in {"iterate", "copy"} /\ Len(samples) < MaxSamples
                  THEN Append(samples, size) ELSE samples
    /\ step' = step + 1
    /\ pc' = IF BatchKind(step) = "overhead" /\ step = 1 + Overheads /\ input.numIter < Warmup
             THEN "crashed" ELSE "run"
    /\ UNCHANGED <<planVars, splitVars, lookVars, queues, calibrated, size, memory, reports>>

\* finalizeTime: a line per size, over the samples after the warm-up.
Averaged == SubSeq(samples, Warmup + 1, Len(samples))
Line == [size |-> size, samples |-> Averaged]
ClearedNever == samples                          \* variant
Cleared == <<>>

Finish ==
    /\ Goto("run", "sweep")
    /\ surfsize = 0
    /\ step > BatchesOfSize
    /\ memory' = Empty
    /\ calibrated' = TRUE
    /\ size' = IF calibrated THEN NextSize ELSE MinShare
    /\ step' = 1
    /\ IF calibrated /\ (IsP2p \/ input.numIter > Warmup)
       THEN reports' = reports \cup {Line} /\ samples' = Cleared
       ELSE UNCHANGED <<reports, samples>>
    /\ UNCHANGED <<planVars, splitVars, lookVars, queues, batch, drained>>

\* Broadcast does not destroy its queues.
SweepDone ==
    /\ Goto("sweep", IF input.collective = "ag_bcst" THEN "teardown" ELSE "destroy")
    /\ ~InSweep
    /\ UNCHANGED <<planVars, splitVars, lookVars, queues, batchVars, sweepVars>>

-----------------------------------------------------------------------------
(* The end.                                                                *)

DestroyQueues ==
    /\ Goto("destroy", "teardown")
    /\ queues' = queues \ DestroyedQueues
    /\ UNCHANGED <<planVars, splitVars, lookVars, batchVars, sweepVars>>

TearDown ==
    /\ Goto("teardown", "destruct")
    /\ kfd' = FALSE
    /\ UNCHANGED <<planVars, splitVars, m_HsaNodeProps, allGpuNodes, queues, batchVars, sweepVars>>

\* ~BaseQueue destroys the queue, which needs the driver.
Destruct ==
    /\ Goto("destruct", "returned")
    /\ queues' = IF kfd THEN {} ELSE queues
    /\ UNCHANGED <<planVars, splitVars, lookVars, batchVars, sweepVars>>

SessionNext ==
    \/ OpenMap \/ SetUp \/ SetUpFails \/ InitializeSkips \/ InitializeExits
    \/ CreateQueues \/ Dispatch \/ Plan \/ Allocate \/ AllocateFails
    \/ ConstructPacket \/ Submit \/ Wait \/ Finish \/ SweepDone
    \/ DestroyQueues \/ TearDown \/ Destruct

\* The thread of main keeps running, and a batch ends (Collective!Terminates,
\* P2pLatency!Terminates).
SessionSpec == SessionInit /\ [][SessionNext]_sessionVars /\ WF_sessionVars(SessionNext)

-----------------------------------------------------------------------------
(* Properties.                                                             *)

\* Every variable has its type, those of CommandPlan included.
SessionTypeOK ==
    /\ TypeOK
    /\ pc \in {"start", "setup", "initialize", "dispatch", "plan", "sweep", "run", "wait",
               "destroy", "teardown", "destruct", "returned", "exited", "crashed"}
    /\ kfd \in BOOLEAN /\ calibrated \in BOOLEAN
    /\ allGpuNodes \subseteq m_HsaNodeProps
    /\ queues \subseteq CreatedQueues
    /\ size \in Nat /\ step \in 1 .. BatchesOfSize + 1
    /\ \A q \in DOMAIN batch \cup DOMAIN drained : q[1] \in {"cpu", "xgmi"}
    /\ DOMAIN memory \subseteq {<<"sys", i>> : i \in Slabs} \cup {<<"signal">>}
    /\ \A n \in DOMAIN samples : samples[n] \in Nat
    /\ \A line \in reports : line.size \in Nat

\* What a packet reads or writes is mapped on the GPU whose engine executes it.
\* Buffers are mapped by hardware index, queues indexed by position.
MappedWhereUsed ==
    \A q \in DOMAIN batch : \A b \in Touched(q) :
      b \in DOMAIN memory /\ q[2] \in memory[b]

\* A batch fits its ring behind a read pointer that is one batch old, with the
\* room PlacePacket needs (SDMARing!RoomUnlessBusy), so the process never
\* exits on an overrun.
BatchFits ==
    \A q \in DOMAIN batch :
      (IF q \in DOMAIN drained THEN drained[q] ELSE 0) + batch[q] + MaxPacket <= Capacity(q)

\* The chunks of a slab lie inside it and apart from each other (for sizes of
\* whole words).
ChunksApart ==
    pc = "run" /\ ~IsP2p /\ size % 4 = 0 =>
      /\ \A j \in Gpus(input) : Chunk(j) \subseteq 0 .. AllocSize - 1
      /\ \A j, k \in Gpus(input) : j # k => Chunk(j) \cap Chunk(k) = {}

\* "first 5 warmup": a line averages all other iterations of its own size and
\* none of another.
AveragesFresh ==
    \A line \in reports : line.samples = [n \in 1 .. input.numIter - Warmup |-> line.size]

\* A session that gets through its sweep has printed a line for every size
\* between MIN_SIZE and MAX_SIZE, doubling, and no other.
SweepComplete ==
    pc = "destroy" /\ input.numIter > Warmup =>
      {line.size : line \in reports} =
        {n \in 0 .. Share(input.maxSize) : \E k \in 0 .. MaxDoublings :
           n = Share(input.minSize) * PowerOf2[k]}

\* "Destroys all SDMA queues": on a whole machine no queue is left when the
\* driver is closed (broadcast, a skipped b2b and an unknown variant leave
\* them all).
QueuesReleased ==
    pc \in {"destruct", "returned"} /\ N = Cardinality(allGpuNodes)
      /\ input.collective \notin {"ag_bcst", "unknown"} /\ status # "skipped"
      => queues = {}

\* What the user and the machine supply, in the terms of the documentation.
\* GPU_LIST names GPUs of the machine, none of them twice; broadcast and the
\* benchmark are between GPUs.
ListServes ==
    /\ ToSet(input.gpus) \subseteq Rows(input.numTotalNodes)
    /\ \A i, j \in Gpus(input) : i # j => Hw(input, i) # Hw(input, j)
    /\ input.collective \in {"ag_bcst", "p2p_latency"} => N > 1

\* "2 CPU + xGMI" engines: two of the latter to deal out where no SDMA_MAP is
\* given, number 4 for the benchmark; B2B_DMA holds "xGMI engine IDs", one for
\* every B2B_WAYS destinations.
EnginesServe ==
    /\ input.numCpuSdma = 2
    /\ input.engineMap = <<>> => Cardinality(XgmiEngines(2)) >= 2
    /\ IsP2p => 4 \in XgmiEngines(2)
    /\ IsB2b(input) => /\ ToSet(input.dma) \subseteq XgmiEngines(2)
                       /\ Len(input.dma) * input.ways >= N - 1

\* SDMA_MAP, if given, has a line for every two GPUs taking part, and its
\* engines are xGMI engines.
MapServes ==
    /\ \A n \in DOMAIN input.engineMap : input.engineMap[n][2] \in XgmiEngines(2)
    /\ input.engineMap # <<>> =>
         \A i, j \in Gpus(input) : i # j =>
           \E n \in DOMAIN input.engineMap : /\ input.engineMap[n][1] = Hw(input, i)
                                             /\ input.engineMap[n][3] = Hw(input, j)

Usable == ListServes /\ EnginesServe /\ MapServes

\* All nodes up to the last GPU answer, and the benchmark runs at least as many
\* iterations as its warm-up takes.
WellFormed ==
    /\ Usable
    /\ \A n \in GpuNodes : \A m \in 0 .. n : input.nodes[m + 1] # "silent"
    /\ IsP2p => input.numIter >= Warmup

\* Given that, no step reads past the end of the node, GPU, queue, engine or
\* sample tables, places a packet on a queue that does not exist or divides by
\* zero: of three numberings of GPUs and one of engines, each index that one
\* part computes is valid in the table where another part uses it.
NeverCrashes == WellFormed => pc # "crashed"

\* Sizes of at least one byte per GPU: the program comes to an end.
SessionEnds == <>(pc \in {"returned", "exited", "crashed"})
=============================================================================
