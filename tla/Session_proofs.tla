--------------------------- MODULE Session_proofs ---------------------------
(***************************************************************************)
(* For every set of inputs within the assumptions: a session constructs    *)
(* its packets right, whatever sizes it sweeps over, never reads past the  *)
(* end of a table nor places a packet on a queue that does not exist if    *)
(* its input is what the documentation asks for, and averages samples of   *)
(* one size.                                                               *)
(***************************************************************************)
EXTENDS Session, PacketSplit_proofs, ListFacts, CollectivePlans

\* The states in which no queue has been created yet.
Early == {"start", "setup", "initialize"}

\* The sizes swept, and the size of the calibration before them.
Sweeping == {"sweep", "run", "wait"}
SizeInv ==
    /\ input \in Inputs
    /\ size \in Nat
    /\ calibrated \/ IsP2p
    /\ pc = "plan" => ~IsP2p
    /\ pc \in Sweeping => calibrated \/ size = CalibrationSize

\* Only what `initialize' created exists, and what is on its way to the end
\* without `destroyQueues' is one of the known exceptions.
Late == {"teardown", "destruct", "returned"}
Exempt == \/ N # Cardinality(allGpuNodes)
          \/ input.collective \in {"ag_bcst", "unknown"}
          \/ status = "skipped"
QueueInv ==
    /\ queues \subseteq CreatedQueues
    /\ pc \in Early => queues = {}
    /\ pc \in Late => queues = {} \/ Exempt

\* The tables hold what the machine's nodes say, and the queues in use are all
\* those that were created.
Looked == {"initialize", "dispatch", "plan", "sweep", "run", "wait", "destroy"}
Using  == {"plan", "sweep", "run", "wait", "destroy"}
TableInv ==
    /\ allGpuNodes \subseteq m_HsaNodeProps
    /\ pc \in Looked => m_HsaNodeProps = Answering /\ allGpuNodes = GpuNodes
    /\ pc = "dispatch" /\ TooFewGpus => queues = {}
    /\ \/ pc = "dispatch" /\ ~TooFewGpus
       \/ pc \in Using
       => queues = CreatedQueues /\ ~TooFewGpus /\ ~NoSuchGpu

\* The lists are built GPU by GPU, by the operators of CommandLists, and only
\* where they find what they read.
IsSwapList(i) ==
    /\ Len(List(i)) \in 0 .. CommandsPerNode(input)
    /\ DOMAIN List(i) = 1 .. Len(List(i))
    /\ \A n \in DOMAIN List(i) : \E j \in Gpus(input) \ {i} :
         List(i)[n] = Command(EngineFor(input, i, j), <<j>>)
PlanInv ==
    /\ TypeOK /\ cmds \in Seq(ToSet(cmds))
    /\ pc \in Early \cup {"dispatch", "plan"} => status = "building"
    /\ status = "building" => gpu < N
    /\ status = "ready" => gpu = N
    /\ pc \in Using /\ ~IsP2p => input.collective # "unknown"
    /\ pc \in Sweeping => IsP2p \/ status = "ready"
    /\ \A i \in 0 .. gpu - 1 :
         /\ IF IsSwap(input) THEN IsSwapList(i) ELSE List(i) = GpuCmds(input, i, {})
         /\ IsB2b(input) => Batches(input) <= Len(input.dma)
         /\ input.collective = "ag_bcst" => EnginesOf(input, i) # {}

\* The batches of a size come in order, on queues that its lists and the fixed
\* engines of fills and readbacks name, with buffers mapped.
Reached ==
    IF IsP2p THEN {Src, Dest, CpuQ(1, 0)}
    ELSE {XgmiQ(i, 2) : i \in Rows(N)} \cup {CpuQ(i, 0) : i \in Rows(N)}
           \cup {XgmiQ(x[1], List(x[1])[x[2]].engine_id) : x \in Issued}
BatchInv ==
    /\ step \in 1 .. BatchesOfSize + 1
    /\ pc = "wait" => step <= BatchesOfSize /\ DOMAIN batch \subseteq Reached
    /\ pc \notin {"run", "wait", "crashed"} => step = 1
    /\ pc # "wait" => batch = Empty
    /\ pc \in {"run", "wait"} => memory = Mappings
    /\ memory = Empty \/ memory = Mappings
    /\ \A q \in DOMAIN batch \cup DOMAIN drained : q[1] \in {"cpu", "xgmi"}

\* Where samples are averaged, those kept are of the size being swept, one for
\* every measured batch behind us.
Within(lo, n, hi) == IF n < lo THEN lo ELSE IF n > hi THEN hi ELSE n
Measured(k) == IF IsP2p THEN (Within(0, k - 2 - Overheads, 2 * input.numIter) + 1) \div 2
                        ELSE Within(0, k - 1 - input.numIter, input.numIter)
Averaging == IsP2p \/ input.numIter > Warmup
SampleInv ==
    /\ samples \in Seq(Nat)
    /\ \A line \in reports : line.size \in Nat
    /\ AveragesFresh
    /\ pc \in Early \cup {"dispatch", "plan", "sweep"} /\ ~IsP2p /\ Averaging => samples = <<>>
    /\ pc \in {"run", "wait"} /\ calibrated /\ Averaging =>
         samples = [n \in 1 .. Measured(step) |-> size]

SessionInv == SizeInv /\ QueueInv /\ SplitInv
FullInv == SessionInv /\ TableInv /\ PlanInv /\ BatchInv /\ SampleInv /\ NeverCrashes

-----------------------------------------------------------------------------
(* Facts about the sizes and the tables.                                   *)

\* The shares of the limits, in one form or the other.
LEMMA ShareInRange ==
  ASSUME SizeInv
  PROVE  /\ MinShare \in Nat
         /\ Share(input.maxSize) \in Nat
         /\ Share(input.maxSize) <= Word - Gig
<1>1. /\ input.minSize \in Nat /\ input.maxSize \in Nat
      /\ N \in Nat \ {0}
      /\ IF IsP2p THEN input.maxSize <= Word - Gig ELSE input.maxSize \div N <= Word - Gig
  BY SessionAssumption DEF SizeInv, N, IsP2p
<1>2. Gig \in Nat /\ Word \in Nat
  BY SplitAssumption
<1>3. /\ input.minSize \div N \in Nat
      /\ input.maxSize \div N \in Nat
  BY <1>1, DivisionShrinks
<1> QED
  BY <1>1, <1>2, <1>3 DEF MinShare, Share

\* The calibration's surface is one of those the constructors handle.
LEMMA CalibrationInRange ==
  CalibrationSize \in Nat /\ CalibrationSize <= Word - Gig
<1>1. Gig \in Nat /\ Gig \div 16 \in Nat
  BY SplitAssumption, DivisionShrinks
<1> QED
  BY <1>1, SessionAssumption DEF CalibrationSize

\* On a whole machine `destroyQueues' misses none of the queues: its engine
\* numbers from 2 on cover those `initialize' began at numCpuSdma.
LEMMA DestroyedCoversCreated ==
  ASSUME input \in Inputs, N = Cardinality(allGpuNodes)
  PROVE  CreatedQueues \subseteq DestroyedQueues
<1>1. /\ input.numCpuSdma \in Nat /\ input.numCpuSdma >= 2
      /\ input.numTotalSdma \in Nat
  BY SessionAssumption
<1>2. XgmiEngines(input.numCpuSdma) \subseteq XgmiEngines(2)
  BY <1>1 DEF XgmiEngines
<1> QED
  BY <1>2 DEF CreatedQueues, DestroyedQueues

-----------------------------------------------------------------------------
(* The steps.                                                              *)

\* At the start.
LEMMA SessionInitInv == SessionInit => SessionInv
<1> SUFFICES ASSUME SessionInit PROVE SessionInv
  OBVIOUS
<1>1. SplitInv
  BY InitEstablishesInv DEF SessionInit
<1>2. SizeInv
  BY DEF SessionInit, Init, SizeInv, Sweeping, IsP2p
<1>3. QueueInv
  BY DEF SessionInit, QueueInv, Early, Late
<1> QED
  BY <1>1, <1>2, <1>3 DEF SessionInv

\* Packets are constructed by Allocate and ConstructPacket alone, and only for
\* surfaces the constructors handle.
LEMMA StepKeepsSplit ==
  ASSUME SessionInv, SessionNext
  PROVE  SplitInv'
<1>1. CASE UNCHANGED splitVars
  <2>1. /\ asked' = asked /\ surfsize' = surfsize /\ src' = src
        /\ dst' = dst /\ room' = room /\ packets' = packets
    BY <1>1 DEF splitVars
  <2> QED
    BY <2>1 DEF SessionInv, SplitInv, SplitTypeOK, RoomLeft, Progress, Written
<1>2. CASE Allocate
  <2>1. size \in 0 .. Word - Gig
    BY <1>2, ShareInRange, CalibrationInRange, SplitAssumption
    DEF Allocate, Goto, InSweep, SessionInv, SizeInv, Sweeping
  <2>2. Construct(size) \/ UNCHANGED splitVars
    BY <1>2 DEF Allocate
  <2> QED
    BY <1>1, <2>1, <2>2, SessionAssumption, ConstructEstablishesInv
<1>3. CASE ConstructPacket
  BY <1>3, WriteKeepsInv DEF ConstructPacket, SessionInv
<1> QED
  BY <1>1, <1>2, <1>3
  DEF SessionNext, OpenMap, SetUp, SetUpFails, InitializeSkips, InitializeExits,
      CreateQueues, Dispatch, Plan, AllocateFails, Submit, Wait, Finish, SweepDone,
      DestroyQueues, TearDown, Destruct

\* The sizes: they stay numbers by being shares, doubles and the calibration's.
LEMMA StepKeepsSize ==
  ASSUME SessionInv, SessionNext
  PROVE  SizeInv'
<1>1. ASSUME input' = input
      PROVE  IsP2p' = IsP2p /\ CalibrationSize' = CalibrationSize
  BY <1>1 DEF IsP2p, CalibrationSize
\* Most steps leave the sizes alone and stay inside or outside of the sweep.
<1>2. ASSUME input' = input, size' = size, calibrated' = calibrated,
             pc' # "plan", pc' \in Sweeping => pc \in Sweeping
      PROVE  SizeInv'
  BY <1>1, <1>2 DEF SessionInv, SizeInv
<1>3. CASE Dispatch
  <2>1. input' = input /\ calibrated' = calibrated
    BY <1>3 DEF Dispatch, planVars
  <2>2. size' = IF IsP2p THEN CalibrationSize ELSE MinShare
    BY <1>3 DEF Dispatch
  <2>3. pc' = "plan" => ~IsP2p
    BY <1>3 DEF Dispatch
  <2>4. CalibrationSize \in Nat /\ MinShare \in Nat
    BY CalibrationInRange, ShareInRange DEF SessionInv
  <2> QED
    BY <1>1, <2>1, <2>2, <2>3, <2>4 DEF SessionInv, SizeInv
<1>4. CASE Plan
  <2>1. input' = input /\ pc = "plan"
    BY <1>4 DEF Plan, Next, Skip, Crash, Build
  <2>2. size' = size /\ calibrated' = calibrated
    BY <1>4 DEF Plan, sweepVars
  <2>3. ~IsP2p /\ calibrated
    BY <2>1 DEF SessionInv, SizeInv
  <2> QED
    BY <1>1, <2>1, <2>2, <2>3 DEF SessionInv, SizeInv
<1>5. CASE Finish
  <2>1. input' = input /\ calibrated' = TRUE /\ pc' = "sweep"
    BY <1>5 DEF Finish, Goto, planVars
  <2>2. size' = IF calibrated THEN NextSize ELSE MinShare
    BY <1>5 DEF Finish
  <2>3. NextSize \in Nat /\ MinShare \in Nat
    BY ShareInRange DEF NextSize, SessionInv, SizeInv
  <2> QED
    BY <1>1, <2>1, <2>2, <2>3 DEF SessionInv, SizeInv
<1>6. CASE OpenMap \/ SetUp \/ SetUpFails \/ InitializeSkips \/ InitializeExits \/ CreateQueues
  <2>1. /\ input' = input /\ size' = size /\ calibrated' = calibrated
        /\ pc' \in {"setup", "destruct", "exited", "crashed", "initialize", "dispatch"}
    BY <1>6 DEF OpenMap, SetUp, SetUpFails, InitializeSkips, InitializeExits, CreateQueues,
                Goto, planVars, sweepVars
  <2> QED
    BY <1>2, <2>1 DEF Sweeping
<1>7. CASE Allocate \/ AllocateFails \/ ConstructPacket \/ Submit \/ Wait
  <2>1. /\ input' = input /\ size' = size /\ calibrated' = calibrated
        /\ pc \in Sweeping /\ pc' \in Sweeping \cup {"exited", "crashed"}
    BY <1>7 DEF Allocate, AllocateFails, ConstructPacket, Submit, Wait,
                Goto, planVars, sweepVars, Sweeping
  <2> QED
    BY <1>2, <2>1 DEF Sweeping
<1>8. CASE SweepDone \/ DestroyQueues \/ TearDown \/ Destruct
  <2>1. /\ input' = input /\ size' = size /\ calibrated' = calibrated
        /\ pc' \in {"teardown", "destroy", "destruct", "returned"}
    BY <1>8 DEF SweepDone, DestroyQueues, TearDown, Destruct, Goto, planVars, sweepVars
  <2> QED
    BY <1>2, <2>1 DEF Sweeping
<1> QED
  BY <1>3, <1>4, <1>5, <1>6, <1>7, <1>8 DEF SessionNext

\* The queues: created once, destroyed before the end or exempt.
LEMMA StepKeepsQueues ==
  ASSUME SessionInv, SessionNext
  PROVE  QueueInv'
\* Most steps leave the tables alone and do not reach the end.
<1>1. ASSUME input' = input, allGpuNodes' = allGpuNodes
      PROVE  CreatedQueues' = CreatedQueues /\ N' = N
  BY <1>1 DEF CreatedQueues, N, XgmiEngines, Rows, CpuQ, XgmiQ
<1>2. ASSUME input' = input, allGpuNodes' = allGpuNodes, queues' = queues,
             pc' \in Early => pc \in Early, pc' \notin Late
      PROVE  QueueInv'
  BY <1>1, <1>2 DEF SessionInv, QueueInv
<1>3. CASE OpenMap \/ SetUp \/ SetUpFails
  <2>1. queues = {} /\ queues' = queues
    BY <1>3 DEF OpenMap, SetUp, SetUpFails, Goto, SessionInv, QueueInv, Early
  <2> QED
    BY <2>1 DEF QueueInv
<1>4. CASE CreateQueues
  <2>1. /\ input' = input /\ allGpuNodes' = allGpuNodes
        /\ queues' = CreatedQueues \/ queues' = queues
        /\ pc' \in {"dispatch", "crashed", "exited"}
    BY <1>4 DEF CreateQueues, planVars, lookVars
  <2> QED
    BY <1>1, <2>1 DEF SessionInv, QueueInv, Early, Late
<1>5. CASE Dispatch
  <2>1. /\ input' = input /\ allGpuNodes' = allGpuNodes /\ queues' = queues /\ status' = status
        /\ pc' \in {"sweep", "plan", "crashed", "teardown"}
        /\ pc' = "teardown" => input.collective = "unknown" \/ queues = {}
    BY <1>5 DEF Dispatch, planVars, lookVars
  <2> QED
    BY <1>1, <2>1 DEF SessionInv, QueueInv, Early, Late, Exempt
<1>6. CASE Plan
  <2>1. /\ input' = input /\ allGpuNodes' = allGpuNodes /\ queues' = queues
        /\ status' \in {"building", "ready", "skipped", "crashed"}
        /\ pc' = [building |-> "plan", ready |-> "sweep",
                  skipped |-> "teardown", crashed |-> "crashed"][status']
    BY <1>6 DEF Plan, Next, Skip, Crash, Build, lookVars
  <2>2. pc' \in {"plan", "sweep", "teardown", "crashed"} /\ (pc' = "teardown" => status' = "skipped")
    BY <2>1
  <2> QED
    BY <1>1, <2>1, <2>2 DEF SessionInv, QueueInv, Early, Late, Exempt
<1>7. CASE \/ InitializeSkips \/ InitializeExits \/ Allocate \/ AllocateFails
           \/ ConstructPacket \/ Submit \/ Wait \/ Finish
  <2>1. /\ input' = input /\ allGpuNodes' = allGpuNodes /\ queues' = queues
        /\ pc' \in {"dispatch", "exited", "crashed", "sweep", "run", "wait"}
    BY <1>7 DEF InitializeSkips, InitializeExits, Allocate, AllocateFails,
                ConstructPacket, Submit, Wait, Finish, Goto, planVars, lookVars
  <2> QED
    BY <1>2, <2>1 DEF Early, Late
<1>8. CASE SweepDone
  <2>1. /\ input' = input /\ allGpuNodes' = allGpuNodes /\ queues' = queues /\ status' = status
        /\ pc' = IF input.collective = "ag_bcst" THEN "teardown" ELSE "destroy"
    BY <1>8 DEF SweepDone, Goto, planVars, lookVars
  <2> QED
    BY <1>1, <2>1 DEF SessionInv, QueueInv, Early, Late, Exempt
<1>9. CASE DestroyQueues
  <2>1. /\ input' = input /\ allGpuNodes' = allGpuNodes /\ pc' = "teardown"
        /\ queues' = queues \ DestroyedQueues
    BY <1>9 DEF DestroyQueues, Goto, planVars, lookVars
  <2>2. input \in Inputs /\ queues \subseteq CreatedQueues
    BY DEF SessionInv, SizeInv, QueueInv
  <2>3. N = Cardinality(allGpuNodes) => queues' = {}
    BY <2>1, <2>2, DestroyedCoversCreated
  <2> QED
    BY <1>1, <2>1, <2>2, <2>3 DEF QueueInv, Early, Late, Exempt
<1>10. CASE TearDown \/ Destruct
  <2>1. /\ input' = input /\ allGpuNodes' = allGpuNodes /\ status' = status
        /\ queues' = queues \/ queues' = {}
        /\ pc \in Late /\ pc' \in Late
    BY <1>10 DEF TearDown, Destruct, Goto, planVars, lookVars, Late
  <2> QED
    BY <1>1, <2>1 DEF SessionInv, QueueInv, Early, Late, Exempt
<1> QED
  BY <1>3, <1>4, <1>5, <1>6, <1>7, <1>8, <1>9, <1>10 DEF SessionNext

\* The tables are filled by SetUp; from then on they and the queues do not
\* change while they are in use.
LEMMA StepKeepsTables ==
  ASSUME SessionInv, TableInv, SessionNext
  PROVE  TableInv'
<1>1. ASSUME input' = input, allGpuNodes' = allGpuNodes
      PROVE  /\ TooFewGpus' = TooFewGpus /\ NoSuchGpu' = NoSuchGpu
             /\ CreatedQueues' = CreatedQueues
             /\ Answering' = Answering /\ GpuNodes' = GpuNodes
  BY <1>1 DEF TooFewGpus, NoSuchGpu, Gpus, NodeCount, Hw, N, CreatedQueues, XgmiEngines, Rows, CpuQ,
              XgmiQ, Answering, GpuNodes, Nodes
\* Most steps leave the tables alone.
<1>2. ASSUME input' = input, allGpuNodes' = allGpuNodes, m_HsaNodeProps' = m_HsaNodeProps,
             pc' \in Looked => pc \in Looked, pc' # "dispatch",
             pc' \in Using => queues' = queues /\ pc \in Using
      PROVE  TableInv'
  BY <1>1, <1>2 DEF TableInv
<1>3. CASE OpenMap \/ SetUpFails \/ AllocateFails \/ TearDown \/ Destruct \/ InitializeExits
  <2>1. /\ input' = input /\ allGpuNodes' = allGpuNodes /\ m_HsaNodeProps' = m_HsaNodeProps
        /\ pc' \in {"setup", "exited", "destruct", "returned"}
    BY <1>3 DEF OpenMap, SetUpFails, AllocateFails, TearDown, Destruct, InitializeExits,
                Goto, planVars, lookVars
  <2> QED
    BY <1>2, <2>1 DEF Looked, Using
<1>4. CASE SetUp
  <2>1. /\ input' = input /\ m_HsaNodeProps' = Answering /\ allGpuNodes' = GpuNodes
        /\ pc' \in {"exited", "crashed", "initialize"}
    BY <1>4 DEF SetUp, planVars
  <2>2. Answering' = Answering /\ GpuNodes' = GpuNodes
    BY <2>1 DEF Answering, GpuNodes, Nodes
  <2>3. GpuNodes \subseteq Answering
    BY DEF Answering, GpuNodes
  <2> QED
    BY <2>1, <2>2, <2>3 DEF TableInv, Using
<1>5. CASE InitializeSkips
  <2>1. /\ input' = input /\ allGpuNodes' = allGpuNodes /\ m_HsaNodeProps' = m_HsaNodeProps
        /\ queues' = queues /\ pc = "initialize" /\ pc' = "dispatch" /\ TooFewGpus
    BY <1>5 DEF InitializeSkips, Goto, planVars, lookVars
  <2> QED
    BY <1>1, <2>1 DEF TableInv, Looked, Using, SessionInv, QueueInv, Early
<1>6. CASE CreateQueues
  <2>1. /\ input' = input /\ allGpuNodes' = allGpuNodes /\ m_HsaNodeProps' = m_HsaNodeProps
        /\ pc = "initialize" /\ ~TooFewGpus
        /\ \/ pc' \in {"crashed", "exited"}
           \/ pc' = "dispatch" /\ ~NoSuchGpu /\ queues' = CreatedQueues
    BY <1>6 DEF CreateQueues, planVars, lookVars
  <2> QED
    BY <1>1, <2>1 DEF TableInv, Looked, Using
<1>7. CASE Dispatch
  <2>1. /\ input' = input /\ allGpuNodes' = allGpuNodes /\ m_HsaNodeProps' = m_HsaNodeProps
        /\ queues' = queues /\ pc = "dispatch"
        /\ pc' \in {"crashed", "teardown", "sweep", "plan"}
        /\ pc' \in {"sweep", "plan"} => queues # {}
    BY <1>7 DEF Dispatch, planVars, lookVars
  <2>2. pc' \in {"sweep", "plan"} => ~TooFewGpus
    BY <2>1 DEF TableInv
  <2> QED
    BY <1>1, <2>1, <2>2 DEF TableInv, Looked, Using
<1>8. CASE Plan
  <2>1. /\ input' = input /\ allGpuNodes' = allGpuNodes /\ m_HsaNodeProps' = m_HsaNodeProps
        /\ queues' = queues /\ pc = "plan"
        /\ status' \in {"building", "ready", "skipped", "crashed"}
        /\ pc' = [building |-> "plan", ready |-> "sweep",
                  skipped |-> "teardown", crashed |-> "crashed"][status']
    BY <1>8 DEF Plan, Next, Skip, Crash, Build, lookVars
  <2>2. pc' \in {"plan", "sweep", "teardown", "crashed"}
    BY <2>1
  <2>3. pc \in Looked /\ pc \in Using /\ pc' # "dispatch"
    BY <2>1, <2>2 DEF Looked, Using
  <2> QED
    BY <1>2, <2>1, <2>3
<1>9. CASE Allocate \/ ConstructPacket \/ Submit \/ Wait \/ Finish \/ SweepDone
  <2>1. /\ input' = input /\ allGpuNodes' = allGpuNodes /\ m_HsaNodeProps' = m_HsaNodeProps
        /\ queues' = queues /\ pc \in {"sweep", "run", "wait"}
        /\ pc' \in {"sweep", "run", "wait", "crashed", "teardown", "destroy"}
    BY <1>9 DEF Allocate, ConstructPacket, Submit, Wait, Finish, SweepDone, Goto, planVars, lookVars
  <2>2. pc \in Looked /\ pc \in Using /\ pc' # "dispatch"
    BY <2>1 DEF Looked, Using
  <2> QED
    BY <1>2, <2>1, <2>2
<1>10. CASE DestroyQueues
  <2>1. /\ input' = input /\ allGpuNodes' = allGpuNodes /\ m_HsaNodeProps' = m_HsaNodeProps
        /\ pc' = "teardown"
    BY <1>10 DEF DestroyQueues, Goto, planVars, lookVars
  <2> QED
    BY <1>2, <2>1 DEF Looked, Using
<1> QED
  BY <1>3, <1>4, <1>5, <1>6, <1>7, <1>8, <1>9, <1>10 DEF SessionNext

\* Lists are built while the session is at "plan", and stay.
LEMMA StepKeepsPlan ==
  ASSUME SessionInv, PlanInv, SessionNext
  PROVE  PlanInv'
<1> DEFINE PcsBefore == Early \cup {"dispatch", "plan"}
<1>1. ASSUME UNCHANGED planVars, pc' \in PcsBefore => pc \in PcsBefore,
             pc' \in Using /\ ~IsP2p => input.collective # "unknown",
             pc' \in Sweeping => IsP2p \/ status = "ready"
      PROVE  PlanInv'
  <2>1. input' = input /\ gpu' = gpu /\ cmds' = cmds /\ seen' = seen /\ status' = status
    BY <1>1 DEF planVars
  <2>2. N' = N /\ IsP2p' = IsP2p
    BY <2>1 DEF N, IsP2p
  <2>3. \A i : List(i)' = List(i) /\ (IsSwapList(i)' <=> IsSwapList(i))
    BY <2>1 DEF List, IsSwapList
  <2> QED
    BY <1>1, <2>1, <2>2, <2>3 DEF PlanInv, TypeOK
<1>2. CASE OpenMap \/ SetUp \/ SetUpFails \/ InitializeSkips \/ InitializeExits \/ CreateQueues
  <2>1. /\ UNCHANGED planVars /\ pc \in Early
        /\ pc' \in {"setup", "destruct", "exited", "crashed", "initialize", "dispatch"}
    BY <1>2 DEF OpenMap, SetUp, SetUpFails, InitializeSkips, InitializeExits, CreateQueues, Goto, Early
  <2>2. pc \in PcsBefore /\ pc' \notin Using /\ pc' \notin Sweeping
    BY <2>1 DEF Using, Sweeping
  <2> QED
    BY <1>1, <2>1, <2>2
<1>3. CASE Dispatch
  <2>1. /\ UNCHANGED planVars /\ pc = "dispatch"
        /\ \/ pc' \in {"crashed", "teardown"}
           \/ input.collective # "unknown" /\ pc' = IF IsP2p THEN "sweep" ELSE "plan"
    BY <1>3 DEF Dispatch
  <2>2. pc \in PcsBefore
    BY <2>1
  <2>3. pc' \in Using => input.collective # "unknown"
    BY <2>1 DEF Using
  <2>4. pc' \in Sweeping => IsP2p
    BY <2>1 DEF Sweeping
  <2> QED
    BY <1>1, <2>1, <2>2, <2>3, <2>4
<1>4. CASE Plan
  <2>1. /\ pc = "plan" /\ Next
        /\ pc' = [building |-> "plan", ready |-> "sweep",
                  skipped |-> "teardown", crashed |-> "crashed"][status']
    BY <1>4 DEF Plan
  <2>2. /\ ~IsP2p /\ input.collective # "unknown" /\ input \in Inputs /\ TypeOK
        /\ cmds \in Seq(ToSet(cmds)) /\ status = "building" /\ gpu < N
    BY <2>1 DEF SessionInv, SizeInv, PlanInv, Using
  <2>3. input' = input /\ N' = N /\ IsP2p' = IsP2p
    BY <2>1 DEF Next, Skip, Crash, Build, N, IsP2p
  <2>4. CASE Skip \/ Crash
    <3>1. /\ gpu' = gpu /\ cmds' = cmds /\ seen' = seen
          /\ status' \in {"skipped", "crashed"}
      BY <2>4 DEF Skip, Crash
    <3>2. pc' \in {"teardown", "crashed"}
      BY <2>1, <3>1
    <3>3. \A i : List(i)' = List(i) /\ (IsSwapList(i)' <=> IsSwapList(i))
      BY <2>3, <3>1 DEF List, IsSwapList
    <3>4. pc' \notin PcsBefore /\ pc' \notin Using /\ pc' \notin Sweeping
      BY <3>2 DEF Early, Using, Sweeping
    <3>5. TypeOK'
      BY <2>2, <2>3, <3>1 DEF TypeOK
    <3> QED
      BY <2>3, <3>1, <3>3, <3>4, <3>5 DEF PlanInv
  <2>5. CASE Build
    <3> DEFINE list == GpuCmds(input, gpu, seen)
    <3>1. /\ cmds' = Append(cmds, list)
          /\ seen' = seen \cup Taken(input, gpu, seen)
          /\ gpu' = gpu + 1
          /\ status' = IF gpu' = NodeCount(input) THEN "ready" ELSE "building"
          /\ ~ReadsPastEnd
      BY <2>5 DEF Build
    <3>2. N \in Nat \ {0} /\ gpu \in Gpus(input) /\ gpu \in Nat /\ N = NodeCount(input)
      BY <2>2, GpuNumbers DEF TypeOK, Gpus, N
    <3>3. /\ ~IsSwap(input) => list = GpuCmds(input, gpu, {})
          /\ IsSwap(input) =>
               /\ Len(list) \in 0 .. CommandsPerNode(input)
               /\ DOMAIN list = 1 .. Len(list)
               /\ \A n \in DOMAIN list : \E j \in Gpus(input) \ {gpu} :
                    list[n] = Command(EngineFor(input, gpu, j), <<j>>)
          /\ seen' \subseteq SUBSET ToSet(input.gpus)
      BY <2>2, <3>1, <3>2, ListShape DEF TypeOK, IsP2p
    <3> HIDE DEF list
    <3>4. /\ cmds' \in Seq(ToSet(cmds')) /\ Len(cmds') = gpu + 1
          /\ \A k \in 1 .. gpu : cmds'[k] = cmds[k]
          /\ cmds'[gpu + 1] = list
      <4>1. Len(cmds) = gpu
        BY <2>2 DEF TypeOK
      <4> QED
        BY <2>2, <3>1, <4>1, OneMore
    <3>5. \A i \in 0 .. gpu - 1 : List(i)' = List(i) /\ (IsSwapList(i)' <=> IsSwapList(i))
      <4>1. \A i \in 0 .. gpu - 1 : i + 1 \in 1 .. gpu
        BY <3>2
      <4>2. \A i \in 0 .. gpu - 1 : List(i)' = List(i)
        BY <3>4, <4>1 DEF List
      <4> QED
        BY <2>3, <4>2 DEF IsSwapList
    <3>6. List(gpu)' = cmds'[gpu' + 1]
      BY DEF List
    <3>7. /\ IF IsSwap(input) THEN Len(list) \in 0 .. CommandsPerNode(input)
                                   /\ DOMAIN list = 1 .. Len(list)
                                   /\ \A n \in DOMAIN list : \E j \in Gpus(input) \ {gpu} :
                                        list[n] = Command(EngineFor(input, gpu, j), <<j>>)
                              ELSE list = GpuCmds(input, gpu, {})
          /\ IsB2b(input) => Batches(input) <= Len(input.dma)
          /\ input.collective = "ag_bcst" => EnginesOf(input, gpu) # {}
      <4>1. input.dma \in Seq(Nat) /\ input.ways \in Nat \ {0}
        BY <2>2, SessionAssumption
      <4>2. Len(input.dma) \in Nat
        BY <4>1, LenProperties
      <4>3. Batches(input) \in Nat
        <5>1. NodeCount(input) - 1 \in Nat
          BY <3>2
        <5> QED
          BY <4>1, <5>1, CeilDivNat DEF Batches
      <4> QED
        BY <3>1, <3>3, <4>2, <4>3 DEF ReadsPastEnd
    <3>8. TypeOK'
      BY <2>2, <2>3, <3>1, <3>2, <3>3, <3>4 DEF TypeOK
    <3>9. /\ status' = "building" => gpu' < N'
          /\ status' = "ready" => gpu' = N'
          /\ status' \in {"building", "ready"}
      BY <2>2, <2>3, <3>1, <3>2
    <3>10. /\ pc' \in {"plan", "sweep"}
           /\ pc' = "plan" => status' = "building"
           /\ pc' = "sweep" => status' = "ready"
      BY <2>1, <3>9
    <3>11. /\ pc' \in PcsBefore => status' = "building"
           /\ pc' \in Sweeping => status' = "ready"
      BY <3>10 DEF Early, Sweeping
    <3>12. ASSUME NEW i \in 0 .. gpu' - 1
           PROVE  /\ IF IsSwap(input') THEN IsSwapList(i)' ELSE List(i)' = GpuCmds(input', i, {})
                  /\ IsB2b(input') => Batches(input') <= Len(input'.dma)
                  /\ input'.collective = "ag_bcst" => EnginesOf(input', i) # {}
      <4>1. CASE i = gpu
        <5>1. cmds'[i + 1] = list
          BY <3>4, <4>1
        <5> QED
          BY <2>3, <3>7, <4>1, <5>1 DEF IsSwapList, List
      <4>2. CASE i \in 0 .. gpu - 1
        BY <2>3, <3>5, <4>2 DEF PlanInv
      <4> QED
        BY <3>1, <3>2, <4>1, <4>2
    <3> QED
      BY <2>2, <2>3, <3>4, <3>8, <3>9, <3>11, <3>12 DEF PlanInv
  <2> QED
    BY <2>1, <2>4, <2>5 DEF Next
<1>5. CASE \/ Allocate \/ AllocateFails \/ ConstructPacket \/ Submit \/ Wait \/ Finish \/ SweepDone
  <2>1. /\ UNCHANGED planVars /\ pc \in Sweeping
        /\ pc' \in Sweeping \cup {"exited", "crashed", "teardown", "destroy"}
    BY <1>5 DEF Allocate, AllocateFails, ConstructPacket, Submit, Wait, Finish, SweepDone, Goto, Sweeping
  <2>2. pc \in Using /\ pc' \notin PcsBefore
    BY <2>1 DEF Sweeping, Using, Early
  <2> QED
    BY <1>1, <2>1, <2>2 DEF PlanInv
<1>6. CASE DestroyQueues \/ TearDown \/ Destruct
  <2>1. UNCHANGED planVars /\ pc' \in {"teardown", "destruct", "returned"}
    BY <1>6 DEF DestroyQueues, TearDown, Destruct, Goto
  <2>2. pc' \notin Using /\ pc' \notin Sweeping /\ pc' \notin PcsBefore
    BY <2>1 DEF Using, Sweeping, Early
  <2> QED
    BY <1>1, <2>1, <2>2
<1> QED
  BY <1>2, <1>3, <1>4, <1>5, <1>6 DEF SessionNext

\* How many batches a size has.
LEMMA BatchCounts ==
  ASSUME input \in Inputs
  PROVE  /\ input.numIter \in Nat /\ Overheads \in Nat /\ BatchesOfSize \in Nat
         /\ 1 \in 1 .. BatchesOfSize + 1
<1>1. input.numIter \in Nat
  BY SessionAssumption
<1>2. Overheads \in Nat
  BY <1>1 DEF Overheads
<1>3. BatchesOfSize \in Nat
  BY <1>1, <1>2 DEF BatchesOfSize
<1> QED
  BY <1>1, <1>2, <1>3

\* At the start, the rest.
LEMMA SessionInitFull == SessionInit => TableInv /\ PlanInv /\ BatchInv /\ SampleInv /\ NeverCrashes
<1> SUFFICES ASSUME SessionInit PROVE TableInv /\ PlanInv /\ BatchInv /\ SampleInv /\ NeverCrashes
  OBVIOUS
<1>1. /\ input \in Inputs /\ gpu = 0 /\ cmds = <<>> /\ seen = {} /\ status = "building"
      /\ pc = "start" /\ m_HsaNodeProps = {} /\ allGpuNodes = {} /\ queues = {}
      /\ step = 1 /\ memory = Empty /\ batch = Empty /\ drained = Empty
      /\ samples = <<>> /\ reports = {}
  BY DEF SessionInit, Init
<1>2. TableInv
  BY <1>1 DEF TableInv, Looked, Using
<1>3. N \in Nat \ {0}
  BY <1>1, GpuNumbers DEF N
<1>4. PlanInv
  <2>1. ToSet(input.gpus) \subseteq Nat
    <3>1. input.gpus \in Seq(Nat)
      BY <1>1, SessionAssumption
    <3> QED
      BY <3>1, LenProperties, ElementOfSeq DEF ToSet
  <2>2. TypeOK
    BY <1>1, <1>3, <2>1 DEF TypeOK, N
  <2>3. cmds \in Seq(ToSet(cmds))
    BY <1>1, EmptySeq
  <2> QED
    BY <1>1, <1>3, <2>2, <2>3 DEF PlanInv, Using, Sweeping
<1>5. BatchInv
  <2>1. step \in 1 .. BatchesOfSize + 1
    BY <1>1, BatchCounts
  <2>2. DOMAIN batch = {} /\ DOMAIN drained = {}
    BY <1>1 DEF Empty
  <2> QED
    BY <1>1, <2>1, <2>2 DEF BatchInv
<1>6. SampleInv
  BY <1>1 DEF SampleInv, AveragesFresh
<1>7. NeverCrashes
  BY <1>1 DEF NeverCrashes
<1> QED
  BY <1>2, <1>4, <1>5, <1>6, <1>7

\* On a well-formed input the table of nodes reaches to the last GPU, and every
\* GPU asked for is there: as many as are listed, since none is listed twice.
LEMMA WellFormedTables ==
  ASSUME input \in Inputs, WellFormed
  PROVE  /\ \A n \in GpuNodes : n \in Nat /\ n < Cardinality(Answering)
         /\ Cardinality(GpuNodes) \in Nat /\ N <= Cardinality(GpuNodes)
         /\ input.numTotalNodes = Cardinality(GpuNodes)
         /\ \A i \in Gpus(input) : Hw(input, i) \in 0 .. Cardinality(GpuNodes) - 1
<1> DEFINE len == Len(input.nodes)
<1>1. input.nodes \in Seq({"cpu", "gpu", "silent"})
  BY SessionAssumption
<1>2. len \in Nat /\ DOMAIN input.nodes = 1 .. len
  BY <1>1, LenProperties
<1>3. Nodes = 0 .. len - 1 /\ GpuNodes \subseteq Nodes /\ Answering \subseteq Nodes
  BY DEF Nodes, GpuNodes, Answering
<1> HIDE DEF len
<1>4. IsFiniteSet(Nodes) /\ IsFiniteSet(Answering)
  <2>1. len - 1 \in Int
    BY <1>2
  <2> DEFINE top == len - 1
  <2>2. top \in Int /\ Nodes = 0 .. top
    BY <1>3, <2>1
  <2> HIDE DEF top
  <2>3. IsFiniteSet(Nodes)
    BY <2>2, FS_Interval
  <2> QED
    BY <1>3, <2>3, FS_Subset
<1>5. ASSUME NEW n \in GpuNodes
      PROVE  n \in Nat /\ n < Cardinality(Answering)
  <2>1. n \in Nat /\ 0 .. n \subseteq Nodes
    BY <1>2, <1>3
  <2>2. 0 .. n \subseteq Answering
    BY <2>1 DEF WellFormed, Answering
  <2>3. Cardinality(0 .. n) = n + 1
    BY <2>1, FS_Interval
  <2>4. Cardinality(0 .. n) <= Cardinality(Answering)
    BY <1>4, <2>2, FS_Subset
  <2> QED
    BY <1>4, <2>1, <2>3, <2>4, FS_CardinalityType
<1>6. Cardinality(GpuNodes) \in Nat
  BY <1>3, <1>4, FS_Subset, FS_CardinalityType
<1>7. input.numTotalNodes = Cardinality(GpuNodes)
  BY SessionAssumption DEF GpuNodes, Nodes
<1>8. N \in Nat \ {0} /\ Gpus(input) = 0 .. N - 1
  BY GpuNumbers DEF N, Gpus
<1> DEFINE rows == 0 .. Cardinality(GpuNodes) - 1
<1>9. \A i \in Gpus(input) : Hw(input, i) \in rows
  <2>1. \A i \in Gpus(input) : Hw(input, i) \in ToSet(input.gpus)
    BY GpuNumbers
  <2> QED
    BY <1>7, <2>1 DEF WellFormed, Usable, ListServes, Rows
<1>10. N <= Cardinality(GpuNodes)
  <2> DEFINE row == [i \in Gpus(input) |-> Hw(input, i)]
  <2>1. row \in [Gpus(input) -> rows]
    BY <1>9
  <2>2. \A i, j \in Gpus(input) : i # j => row[i] # row[j]
    BY DEF WellFormed, Usable, ListServes
  <2> HIDE DEF row
  <2>3. /\ IsFiniteSet(Gpus(input)) /\ Cardinality(Gpus(input)) = N
        /\ IsFiniteSet(rows) /\ Cardinality(rows) = Cardinality(GpuNodes)
    <3>1. \A m \in Nat : IsFiniteSet(0 .. m - 1) /\ Cardinality(0 .. m - 1) = m
      <4> SUFFICES ASSUME NEW m \in Nat
                   PROVE  IsFiniteSet(0 .. m - 1) /\ Cardinality(0 .. m - 1) = m
        OBVIOUS
      <4> DEFINE top == m - 1
      <4>1. top \in Int /\ top + 1 = m /\ top >= -1
        OBVIOUS
      <4> HIDE DEF top
      <4>2. IsFiniteSet(0 .. top) /\ Cardinality(0 .. top) = IF 0 > top THEN 0 ELSE top - 0 + 1
        BY <4>1, FS_Interval
      <4> QED
        BY <4>1, <4>2 DEF top
    <3> QED
      BY <1>6, <1>8, <3>1
  <2>4. ~ (Cardinality(rows) < Cardinality(Gpus(input)))
    BY <2>1, <2>2, <2>3, FS_PigeonHole
  <2> QED
    BY <1>6, <1>8, <2>3, <2>4
<1> QED
  BY <1>5, <1>6, <1>7, <1>9, <1>10

\* On a well-formed input no list is built from what is not there.
LEMMA WellFormedLists ==
  ASSUME input \in Inputs, WellFormed, gpu \in Gpus(input)
  PROVE  ~ReadsPastEnd
<1>1. ASSUME IsB2b(input) PROVE Len(input.dma) >= Batches(input)
  <2>1. /\ NodeCount(input) - 1 \in Nat /\ Len(input.dma) \in Nat /\ input.ways \in Nat \ {0}
        /\ Len(input.dma) * input.ways >= NodeCount(input) - 1
    <3>1. input.dma \in Seq(Nat) /\ input.ways \in Nat \ {0} /\ NodeCount(input) \in Nat \ {0}
      BY SessionAssumption
    <3>2. Len(input.dma) \in Nat
      BY <3>1, LenProperties
    <3>3. Len(input.dma) * input.ways >= NodeCount(input) - 1
      BY <1>1 DEF WellFormed, Usable, EnginesServe, N
    <3> QED
      BY <3>1, <3>2, <3>3
  <2>2. Batches(input) <= Len(input.dma) /\ Batches(input) \in Nat
    BY <2>1, CeilDivAtMost, CeilDivNat DEF Batches
  <2> QED
    BY <2>1, <2>2
<1>2. ASSUME input.collective = "ag_bcst" PROVE EnginesOf(input, gpu) # {}
  <2> DEFINE h == Hw(input, gpu)
  <2>1. SdmaToDest(input)
    BY <1>2 DEF SdmaToDest
  <2>2. CASE input.engineMap = <<>>
    <3>1. /\ input.numTotalNodes \in Nat /\ input.numTotalNodes > 1
          /\ h \in 0 .. input.numTotalNodes - 1
      <4>1. N > 1 /\ N \in Nat
        BY <1>2, GpuNumbers DEF WellFormed, Usable, ListServes, N
      <4> QED
        BY <4>1, WellFormedTables
    <3>2. PICK j \in 0 .. input.numTotalNodes - 1 : j # h
      <4>1. 0 \in 0 .. input.numTotalNodes - 1 /\ 1 \in 0 .. input.numTotalNodes - 1
        BY <3>1
      <4> QED
        BY <4>1
    <3> HIDE DEF h
    <3>3. <<h, RoundRobinEngine(input, h, j)>> \in DOMAIN RoundRobin(input)
      <4> DEFINE Links == {l \in (0 .. input.numTotalNodes - 1) \X (0 .. input.numTotalNodes - 1) : l[1] # l[2]}
      <4>1. <<h, j>> \in Links
        BY <3>1, <3>2
      <4>2. DOMAIN RoundRobin(input) = {<<l[1], RoundRobinEngine(input, l[1], l[2])>> : l \in Links}
        BY <2>1 DEF RoundRobin
      <4> HIDE DEF Links
      <4> QED
        BY <4>1, <4>2
    <3>4. PreferredEngines(input) = RoundRobin(input)
      BY <2>2 DEF PreferredEngines
    <3>5. RoundRobinEngine(input, h, j) \in EnginesOf(input, gpu)
      BY <3>3, <3>4 DEF EnginesOf, h
    <3> QED
      BY <3>5
  <2>3. CASE input.engineMap # <<>>
    <3>1. PICK j \in Gpus(input) : j # gpu
      <4>1. N > 1 /\ N \in Nat /\ Gpus(input) = 0 .. N - 1
        BY <1>2, GpuNumbers DEF WellFormed, Usable, ListServes, N, Gpus
      <4>2. 0 \in Gpus(input) /\ 1 \in Gpus(input)
        BY <4>1
      <4> QED
        BY <4>2
    <3>2. PICK n \in DOMAIN input.engineMap : input.engineMap[n][1] = h
      BY <2>3, <3>1 DEF WellFormed, Usable, MapServes
    <3> HIDE DEF h
    <3>3. <<h, input.engineMap[n][2]>> \in DOMAIN FromFile(input)
      BY <2>1, <3>2 DEF FromFile
    <3>4. PreferredEngines(input) = FromFile(input)
      BY <2>3 DEF PreferredEngines
    <3>5. input.engineMap[n][2] \in EnginesOf(input, gpu)
      BY <3>3, <3>4 DEF EnginesOf, h
    <3> QED
      BY <3>5
  <2> QED
    BY <2>2, <2>3
<1>3. Len(input.dma) \in Nat /\ Batches(input) \in Nat
  <2>1. input.dma \in Seq(Nat) /\ input.ways \in Nat \ {0} /\ NodeCount(input) \in Nat \ {0}
    BY SessionAssumption
  <2>2. NodeCount(input) - 1 \in Nat /\ Len(input.dma) \in Nat
    BY <2>1, LenProperties
  <2> QED
    BY <2>1, <2>2, CeilDivNat DEF Batches
<1> QED
  BY <1>1, <1>2, <1>3 DEF ReadsPastEnd

\* What the machine looks like to a session that uses its queues.
LEMMA UsedTables ==
  ASSUME input \in Inputs, TableInv, pc \in Using
  PROVE  /\ queues = CreatedQueues
         /\ Cardinality(allGpuNodes) \in Nat /\ N <= Cardinality(allGpuNodes)
         /\ input.numTotalNodes = Cardinality(allGpuNodes)
         /\ \A i \in Gpus(input) : Hw(input, i) \in 0 .. input.numTotalNodes - 1
<1>1. allGpuNodes = GpuNodes /\ queues = CreatedQueues /\ ~TooFewGpus /\ ~NoSuchGpu
  BY DEF TableInv, Using, Looked
<1>2. input.numTotalNodes = Cardinality(GpuNodes)
  BY SessionAssumption DEF GpuNodes, Nodes
<1>3. Cardinality(GpuNodes) \in Nat
  <2>1. input.nodes \in Seq({"cpu", "gpu", "silent"})
    BY SessionAssumption
  <2>2. IsFiniteSet(Nodes)
    BY <2>1, LenProperties, FS_Interval DEF Nodes
  <2> QED
    BY <2>2, FS_Subset, FS_CardinalityType DEF GpuNodes
<1>4. N \in Nat /\ \A i \in Gpus(input) : Hw(input, i) \in Nat
  BY GpuNumbers DEF N
<1> QED
  BY <1>1, <1>2, <1>3, <1>4 DEF TooFewGpus, NoSuchGpu

\* How many engines have numbers from 2 on, and that 2 is one of them where the
\* machine serves its input: by their number, or because the map names one.
LEMMA EngineNumbers ==
  ASSUME input \in Inputs
  PROVE  /\ input.numTotalSdma \in Nat
         /\ Cardinality(XgmiEngines(2)) = IF input.numTotalSdma < 3 THEN 0 ELSE input.numTotalSdma - 2
<1>1. input.numTotalSdma \in Nat
  BY SessionAssumption
<1> DEFINE top == input.numTotalSdma - 1
<1>2. top \in Int /\ XgmiEngines(2) = 2 .. top
  BY <1>1 DEF XgmiEngines
<1> HIDE DEF top
<1>3. Cardinality(2 .. top) = IF 2 > top THEN 0 ELSE top - 2 + 1
  BY <1>2, FS_Interval
<1> QED
  BY <1>1, <1>2, <1>3 DEF top
LEMMA SecondEngine ==
  ASSUME input \in Inputs, Usable
  PROVE  2 \in XgmiEngines(2)
<1>1. input.numTotalSdma \in Nat
  BY EngineNumbers
<1>2. CASE input.engineMap = <<>>
  <2>1. Cardinality(XgmiEngines(2)) >= 2
    BY <1>2 DEF Usable, EnginesServe
  <2>2. input.numTotalSdma >= 4
    BY <1>1, <2>1, EngineNumbers
  <2> QED
    BY <1>1, <2>2 DEF XgmiEngines
<1>3. CASE input.engineMap # <<>>
  <2>1. input.engineMap \in Seq(Nat \X Nat \X Nat)
    BY SessionAssumption
  <2>2. 1 \in DOMAIN input.engineMap
    BY <1>3, <2>1, EmptySeq, LenProperties
  <2> DEFINE e == input.engineMap[1][2]
  <2>3. e \in XgmiEngines(2)
    BY <2>2 DEF Usable, MapServes
  <2> HIDE DEF e
  <2> QED
    BY <1>1, <2>3 DEF XgmiEngines
<1> QED
  BY <1>2, <1>3

\* On a well-formed input there are engines to deal out.
LEMMA WellFormedMap ==
  ASSUME input \in Inputs, WellFormed
  PROVE  ~NoMap
<1> SUFFICES ASSUME input.engineMap = <<>> PROVE EvenEngines(input) # 0
  BY DEF NoMap, DividesByZero
<1>1. Cardinality(XgmiEngines(2)) >= 2 /\ input.numCpuSdma = 2
  BY DEF WellFormed, Usable, EnginesServe
<1>2. input.numTotalSdma \in Nat /\ input.numTotalSdma >= 4
  BY <1>1, EngineNumbers
<1> QED
  BY <1>1, <1>2 DEF EvenEngines

\* The engines dealt out without a map are xGMI engines.
LEMMA RoundRobinInRange ==
  ASSUME input \in Inputs, Usable, input.engineMap = <<>>, NEW i \in Nat, NEW j \in Nat, i # j
  PROVE  RoundRobinEngine(input, i, j) \in XgmiEngines(2)
<1> DEFINE e == (input.numTotalSdma - 2) \div 2
           d == IF j < i THEN j ELSE j - 1
<1>1. input.numTotalSdma \in Nat /\ input.numTotalSdma >= 4 /\ input.numCpuSdma = 2
  <2>1. Cardinality(XgmiEngines(2)) >= 2 /\ input.numCpuSdma = 2
    BY DEF Usable, EnginesServe
  <2> QED
    BY <2>1, EngineNumbers
<1>2. e \in Nat \ {0} /\ 2 * e <= input.numTotalSdma - 2
  <2> DEFINE t == input.numTotalSdma - 2
  <2>1. t \in Nat /\ t >= 2
    BY <1>1
  <2> HIDE DEF t
  <2>2. t \div 2 \in Nat \ {0} /\ 2 * (t \div 2) <= t
    BY <2>1
  <2> QED
    BY <2>2 DEF t
<1>3. d \in Nat
  OBVIOUS
<1>4. RoundRobinEngine(input, i, j) = 2 + 2 * (d % e)
  BY <1>1 DEF RoundRobinEngine, EvenEngines
<1> HIDE DEF e, d
<1>5. d % e \in 0 .. e - 1
  BY <1>2, <1>3
<1> QED
  BY <1>1, <1>2, <1>4, <1>5 DEF XgmiEngines

\* The last of some lines of the map is one of them.
LEMMA LastLine ==
  ASSUME input \in Inputs, NEW T \in SUBSET DOMAIN input.engineMap, T # {}
  PROVE  Max(T) \in T
<1>1. input.engineMap \in Seq(Nat \X Nat \X Nat)
  BY SessionAssumption
<1>2. Len(input.engineMap) \in Nat /\ DOMAIN input.engineMap = 1 .. Len(input.engineMap)
  BY <1>1, LenProperties
<1>3. T \in SUBSET Nat /\ \A y \in T : y <= Len(input.engineMap)
  BY <1>2
<1>4. \E x \in T : \A y \in T : y <= x
  BY <1>2, <1>3, GreatestMember
<1> QED
  BY <1>3, <1>4 DEF Max

\* From one GPU to another there is an xGMI engine.
LEMMA EngineInRange ==
  ASSUME input \in Inputs, Usable, ~SdmaToDest(input),
         \A k \in Gpus(input) : Hw(input, k) \in 0 .. input.numTotalNodes - 1,
         NEW i \in Gpus(input), NEW j \in Gpus(input), i # j
  PROVE  EngineFor(input, i, j) \in XgmiEngines(2)
<1> DEFINE a == Hw(input, i)
           b == Hw(input, j)
<1>1. a \in 0 .. input.numTotalNodes - 1 /\ b \in 0 .. input.numTotalNodes - 1 /\ a # b
      /\ a \in Nat /\ b \in Nat
  BY GpuNumbers DEF Usable, ListServes
<1>2. EngineFor(input, i, j) = Lookup(PreferredEngines(input), <<a, b>>)
  BY DEF EngineFor
<1> HIDE DEF a, b
<1>3. CASE input.engineMap = <<>>
  <2> DEFINE Links == {l \in (0 .. input.numTotalNodes - 1) \X (0 .. input.numTotalNodes - 1) : l[1] # l[2]}
  <2>1. <<a, b>> \in Links
    BY <1>1
  <2>2. PreferredEngines(input) = [l \in Links |-> RoundRobinEngine(input, l[1], l[2])]
    BY <1>3 DEF PreferredEngines, RoundRobin
  <2> HIDE DEF Links
  <2>3. EngineFor(input, i, j) = RoundRobinEngine(input, a, b)
    BY <1>2, <2>1, <2>2 DEF Lookup
  <2> QED
    BY <1>1, <1>3, <2>3, RoundRobinInRange
<1>4. CASE input.engineMap # <<>>
  <2> DEFINE Lines == DOMAIN input.engineMap
             Key(n) == <<input.engineMap[n][1], input.engineMap[n][3]>>
             T == {n \in Lines : Key(n) = <<a, b>>}
  <2>1. PreferredEngines(input) =
          [k \in {Key(n) : n \in Lines} |-> input.engineMap[Max({n \in Lines : Key(n) = k})][2]]
    BY <1>4 DEF PreferredEngines, FromFile
  <2>2. PICK n \in Lines : Key(n) = <<a, b>>
    BY <1>4 DEF Usable, MapServes, a, b
  <2>3. <<a, b>> \in {Key(m) : m \in Lines}
    BY <2>2
  <2>4. Max(T) \in Lines
    <3>1. T \in SUBSET DOMAIN input.engineMap /\ T # {}
      BY <2>2
    <3> QED
      BY <3>1, LastLine
  <2>5. Lookup(PreferredEngines(input), <<a, b>>) = input.engineMap[Max(T)][2]
    BY <2>1, <2>3 DEF Lookup
  <2> DEFINE last == Max(T)
  <2>6. last \in DOMAIN input.engineMap
    BY <2>4
  <2>7. EngineFor(input, i, j) = input.engineMap[last][2]
    BY <1>2, <2>5
  <2> HIDE DEF last
  <2> QED
    BY <2>6, <2>7 DEF Usable, MapServes
<1> QED
  BY <1>3, <1>4

\* Where broadcast looks for engines there are xGMI engines only.
LEMMA BroadcastEngines ==
  ASSUME input \in Inputs, Usable, input.collective = "ag_bcst", NEW i
  PROVE  /\ XgmiEngines(2) \in SUBSET Nat /\ IsFiniteSet(XgmiEngines(2))
         /\ EnginesOf(input, i) \subseteq XgmiEngines(2)
<1> DEFINE T == XgmiEngines(2)
<1>1. T \in SUBSET Nat /\ IsFiniteSet(T)
  <2>1. input.numTotalSdma \in Nat
    BY SessionAssumption
  <2> DEFINE top == input.numTotalSdma - 1
  <2>2. top \in Int
    BY <2>1
  <2> HIDE DEF top
  <2>3. IsFiniteSet(2 .. top) /\ 2 .. top \in SUBSET Nat
    BY <2>2, FS_Interval
  <2> QED
    BY <2>3 DEF XgmiEngines, top
<1>2. EnginesOf(input, i) \subseteq T
  <2> SUFFICES ASSUME NEW k \in DOMAIN PreferredEngines(input), k[1] = Hw(input, i)
               PROVE  k[2] \in T
    BY DEF EnginesOf
  <2>1. CASE input.engineMap = <<>>
    <3> DEFINE Links == {l \in (0 .. input.numTotalNodes - 1) \X (0 .. input.numTotalNodes - 1) : l[1] # l[2]}
    <3>1. DOMAIN PreferredEngines(input) = {<<l[1], RoundRobinEngine(input, l[1], l[2])>> : l \in Links}
      BY <2>1 DEF PreferredEngines, RoundRobin, SdmaToDest
    <3>2. PICK l \in Links : k = <<l[1], RoundRobinEngine(input, l[1], l[2])>>
      BY <3>1
    <3>3. l[1] \in Nat /\ l[2] \in Nat /\ l[1] # l[2]
      <4>1. l \in (0 .. input.numTotalNodes - 1) \X (0 .. input.numTotalNodes - 1) /\ l[1] # l[2]
        BY <3>2
      <4> QED
        BY <4>1
    <3>4. RoundRobinEngine(input, l[1], l[2]) \in T
      BY <2>1, <3>3, RoundRobinInRange
    <3> QED
      BY <3>2, <3>4
  <2>2. CASE input.engineMap # <<>>
    <3>1. DOMAIN PreferredEngines(input) =
            {<<input.engineMap[m][1], input.engineMap[m][2]>> : m \in DOMAIN input.engineMap}
      BY <2>2 DEF PreferredEngines, FromFile, SdmaToDest
    <3> QED
      BY <3>1 DEF Usable, MapServes
  <2> QED
    BY <2>1, <2>2
<1> QED
  BY <1>1, <1>2

\* Every command of every list names an xGMI engine.
LEMMA CommandEngines ==
  ASSUME SizeInv, TableInv, PlanInv, Usable, pc \in Using, ~IsP2p, status = "ready",
         NEW x \in Issued
  PROVE  List(x[1])[x[2]].engine_id \in XgmiEngines(2)
<1> DEFINE i == x[1]
           n == x[2]
           c == NodeCount(input)
<1>1. i \in Gpus(input) /\ n \in 1 .. c /\ n <= Len(List(i))
  BY DEF Issued
<1>2. /\ input \in Inputs /\ c \in Nat \ {0} /\ i \in 0 .. gpu - 1
      /\ input.collective \in Variants \ {"unknown", "p2p_latency"}
  <2>1. input \in Inputs /\ input.collective \in Variants /\ gpu = N
    BY SessionAssumption DEF SizeInv, PlanInv
  <2>2. input.collective # "unknown" /\ input.collective # "p2p_latency"
    BY DEF PlanInv, IsP2p
  <2> QED
    BY <1>1, <2>1, <2>2, GpuNumbers DEF Gpus, N
<1>3. \A k \in Gpus(input) : Hw(input, k) \in 0 .. input.numTotalNodes - 1
  BY <1>2, UsedTables
<1>4. ASSUME ~SdmaToDest(input), NEW j \in Gpus(input), i # j
      PROVE  EngineFor(input, i, j) \in XgmiEngines(2)
  BY <1>1, <1>2, <1>3, <1>4, EngineInRange
<1>5. IF IsSwap(input) THEN IsSwapList(i) ELSE List(i) = GpuCmds(input, i, {})
  BY <1>2 DEF PlanInv
<1> HIDE DEF i, n
<1>6. CASE input.collective = "aa_swap"
  <2>1. DOMAIN List(i) = 1 .. Len(List(i)) /\ Len(List(i)) \in Nat
        /\ \A m \in DOMAIN List(i) : \E j \in Gpus(input) \ {i} :
             List(i)[m] = Command(EngineFor(input, i, j), <<j>>)
    <3>1. CommandsPerNode(input) \in Nat
      BY <1>1, <1>2, SwapPeersShape
    <3>2. IsSwapList(i)
      BY <1>5, <1>6 DEF IsSwap
    <3>3. Len(List(i)) \in 0 .. CommandsPerNode(input)
      BY <3>2 DEF IsSwapList
    <3>4. Len(List(i)) \in Nat
      BY <3>1, <3>3
    <3> QED
      BY <3>2, <3>4 DEF IsSwapList
  <2>2. n \in DOMAIN List(i)
    BY <1>1, <2>1
  <2>3. PICK j \in Gpus(input) \ {i} : List(i)[n] = Command(EngineFor(input, i, j), <<j>>)
    BY <2>1, <2>2
  <2>4. ~SdmaToDest(input)
    BY <1>6 DEF SdmaToDest
  <2>5. List(i)[n].engine_id \in XgmiEngines(2)
    BY <1>4, <2>3, <2>4 DEF Command
  <2> QED
    BY <2>5 DEF i, n
<1>7. CASE input.collective \in {"ag_pcpy", "aa_pcpy"}
  <2> DEFINE Dest1(m) == (i + m) % c
             Dest2(m) == Peers(input, i)[m]
             Pick(m) == IF input.collective = "ag_pcpy" THEN Dest1(m) ELSE Dest2(m)
             list == [m \in 1 .. c - 1 |-> Command(EngineFor(input, i, Pick(m)), <<Pick(m)>>)]
  <2>1. List(i) = list
    BY <1>5, <1>7 DEF IsSwap, IsB2b, GpuCmds, AllgatherPcpyCmds, AlltoallPcpyCmds
  <2>2. \A m \in 1 .. c - 1 : Pick(m) \in Gpus(input) \ {i}
    BY <1>1, <1>2, PeerNumbers
  <2> HIDE DEF Pick
  <2>3. Len(list) = c - 1
    <3> DEFINE D == {list[m] : m \in 1 .. c - 1}
    <3>1. list \in [1 .. c - 1 -> D] /\ c - 1 \in Nat
      BY <1>2
    <3> HIDE DEF list, D
    <3> QED
      BY <3>1, FunctionIsSequence
  <2>4. n \in 1 .. c - 1
    BY <1>1, <1>2, <2>1, <2>3
  <2>5. List(i)[n] = Command(EngineFor(input, i, Pick(n)), <<Pick(n)>>)
    BY <2>1, <2>4
  <2>6. ~SdmaToDest(input)
    BY <1>7 DEF SdmaToDest
  <2>7. List(i)[n].engine_id \in XgmiEngines(2)
    BY <1>4, <2>2, <2>4, <2>5, <2>6 DEF Command
  <2> QED
    BY <2>7 DEF i, n
<1>8. CASE input.collective \in {"ag_b2b", "aa_b2b"}
  <2> DEFINE Part(b) == SubSeq(Peers(input, i), (b - 1) * input.ways + 1, Min({b * input.ways, c - 1}))
             list == [b \in 1 .. Batches(input) |-> Command(input.dma[b], Part(b))]
  <2>1. List(i) = list
    BY <1>5, <1>8 DEF IsSwap, IsB2b, GpuCmds, NwayB2bCmds
  <2> HIDE DEF Part
  <2>2. input.dma \in Seq(Nat) /\ input.ways \in Nat \ {0} /\ Batches(input) \in Nat
    <3>1. input.dma \in Seq(Nat) /\ input.ways \in Nat \ {0}
      BY <1>2, SessionAssumption
    <3>2. NodeCount(input) - 1 \in Nat
      BY <1>2
    <3> QED
      BY <3>1, <3>2, CeilDivNat DEF Batches
  <2>3. Len(list) = Batches(input)
    <3> DEFINE D == {list[m] : m \in 1 .. Batches(input)}
    <3>1. list \in [1 .. Batches(input) -> D]
      OBVIOUS
    <3> HIDE DEF list, D
    <3> QED
      BY <2>2, <3>1, FunctionIsSequence
  <2>4. n \in 1 .. Batches(input)
    BY <1>1, <2>1, <2>2, <2>3
  <2>5. Batches(input) <= Len(input.dma)
    BY <1>2, <1>8 DEF PlanInv, IsB2b
  <2>6. n \in DOMAIN input.dma
    BY <2>2, <2>4, <2>5, LenProperties
  <2>7. List(i)[n].engine_id = input.dma[n]
    BY <2>1, <2>4 DEF Command
  <2>8. List(i)[n].engine_id \in XgmiEngines(2)
    BY <1>8, <2>6, <2>7 DEF Usable, EnginesServe, IsB2b, ToSet
  <2> QED
    BY <2>8 DEF i, n
<1>9. CASE input.collective = "ag_bcst"
  <2> DEFINE T == XgmiEngines(2)
  <2>1. T \in SUBSET Nat /\ IsFiniteSet(T)
    BY <1>2, <1>9, BroadcastEngines
  <2>2. EnginesOf(input, i) \subseteq T
    BY <1>2, <1>9, BroadcastEngines
  <2>3. EnginesOf(input, i) # {}
    BY <1>2, <1>9 DEF PlanInv
  <2>4. List(i) = AllgatherBcstCmds(input, i)
    BY <1>5, <1>9 DEF IsSwap, IsB2b, GpuCmds
  <2> HIDE DEF T
  <2>5. Len(List(i)) \in Nat /\ \A m \in 1 .. Len(List(i)) : List(i)[m].engine_id \in T
    BY <1>2, <2>1, <2>2, <2>3, <2>4, BcstShape
  <2>6. n \in 1 .. Len(List(i))
    BY <1>1, <2>5
  <2> QED
    BY <2>5, <2>6 DEF i, n, T
<1> QED
  BY <1>2, <1>6, <1>7, <1>8, <1>9 DEF Variants

\* The queues a batch is placed on are those of its kind.
LEMMA PlacedReached ==
  ASSUME SizeInv, step \in 1 .. BatchesOfSize
  PROVE  /\ DOMAIN Placed(BatchKind(step)) \subseteq Reached
         /\ \A q \in Reached : q[1] \in {"cpu", "xgmi"}
<1>1. CASE ~IsP2p
  <2>1. calibrated
    BY <1>1 DEF SizeInv
  <2>2. BatchKind(step) \in {"fill", "iterate", "validate"}
    BY <1>1, <2>1 DEF BatchKind, CollectiveBatch
  <2>3. Reached = {XgmiQ(i, 2) : i \in Rows(N)} \cup {CpuQ(i, 0) : i \in Rows(N)}
                    \cup {XgmiQ(x[1], List(x[1])[x[2]].engine_id) : x \in Issued}
    BY <1>1 DEF Reached
  <2>4. ASSUME BatchKind(step) = "fill" PROVE DOMAIN Placed(BatchKind(step)) \subseteq Reached
    <3>1. DOMAIN Placed("fill") = {XgmiQ(i, 2) : i \in Rows(N)}
      BY DEF Placed
    <3> QED
      BY <2>3, <2>4, <3>1
  <2>5. ASSUME BatchKind(step) = "iterate" PROVE DOMAIN Placed(BatchKind(step)) \subseteq Reached
    <3>1. Placed("iterate") = IterateDwords
      BY DEF Placed
    <3>2. DOMAIN IterateDwords = {XgmiQ(x[1], List(x[1])[x[2]].engine_id) : x \in Issued}
      BY DEF IterateDwords
    <3> QED
      BY <2>3, <2>5, <3>1, <3>2
  <2>6. ASSUME BatchKind(step) = "validate" PROVE DOMAIN Placed(BatchKind(step)) \subseteq Reached
    <3>1. DOMAIN Placed("validate") = {CpuQ(i, 0) : i \in Rows(N) \ {0}}
      BY DEF Placed
    <3> QED
      BY <2>3, <2>6, <3>1
  <2>7. \A q \in Reached : q[1] \in {"cpu", "xgmi"}
    BY <2>3 DEF CpuQ, XgmiQ
  <2> QED
    BY <2>2, <2>4, <2>5, <2>6, <2>7
<1>2. CASE IsP2p
  <2>1. Reached = {Src, Dest, CpuQ(1, 0)}
    BY <1>2 DEF Reached
  <2>2. BatchKind(step) \in {"fills", "overhead", "readback", "copy", "stamped",
                             "calibrateFill", "calibrateCopy"}
    <3>1. CASE calibrated
      BY <1>2, <3>1 DEF BatchKind, P2pBatch
    <3>2. CASE ~calibrated
      <4>1. step = 1 \/ step = 2
        BY <3>2 DEF BatchesOfSize
      <4> QED
        BY <3>2, <4>1 DEF BatchKind
    <3> QED
      BY <3>1, <3>2
  <2>3. DOMAIN Placed("fills") = {Src, Dest}
    BY DEF Placed
  <2>4. DOMAIN Placed("readback") = {CpuQ(1, 0)}
    BY DEF Placed
  <2>5. \A kind \in {"overhead", "copy", "stamped", "calibrateFill", "calibrateCopy"} :
          DOMAIN Placed(kind) = {Src}
    BY DEF Placed
  <2>6. \A q \in Reached : q[1] \in {"cpu", "xgmi"}
    BY <2>1 DEF CpuQ, XgmiQ, Src, Dest
  <2> QED
    BY <2>1, <2>2, <2>3, <2>4, <2>5, <2>6
<1> QED
  BY <1>1, <1>2

\* The queues of a collective's batches, or the benchmark's, exist: with
\* engine numbers that make sense neither the affinity map, nor the command
\* lists, nor the fixed engines of fills, readbacks and the benchmark name a
\* queue that `initialize' did not create.
LEMMA ReachedLive ==
  ASSUME SizeInv, TableInv, PlanInv, Usable, pc \in Sweeping
  PROVE  Reached \subseteq queues
<1>1. pc \in Using /\ input \in Inputs
  BY DEF Using, Sweeping, SizeInv
<1> DEFINE total == Cardinality(allGpuNodes)
<1>2. queues = CreatedQueues /\ total \in Nat /\ N <= total /\ N \in Nat \ {0}
  BY <1>1, UsedTables, GpuNumbers DEF N
<1>3. input.numCpuSdma = 2 /\ (IsP2p => N > 1)
  BY DEF Usable, ListServes, EnginesServe, IsP2p
<1>4. \A i \in 0 .. total - 1 : CpuQ(i, 0) \in CreatedQueues
  BY <1>3 DEF CreatedQueues, Rows
<1>5. \A i \in 0 .. total - 1 : \A j \in XgmiEngines(2) : XgmiQ(i, j) \in CreatedQueues
  BY <1>3 DEF CreatedQueues, Rows
<1>6. CASE IsP2p
  <2>1. 0 \in 0 .. total - 1 /\ 1 \in 0 .. total - 1
    BY <1>2, <1>3, <1>6
  <2>2. 4 \in XgmiEngines(2)
    BY <1>6 DEF Usable, EnginesServe
  <2>3. Reached = {XgmiQ(0, 4), XgmiQ(1, 4), CpuQ(1, 0)}
    BY <1>6 DEF Reached, Src, Dest
  <2> QED
    BY <1>2, <1>4, <1>5, <2>1, <2>2, <2>3
<1>7. CASE ~IsP2p
  <2>1. status = "ready"
    BY <1>7 DEF PlanInv
  <2>2. Rows(N) \subseteq 0 .. total - 1
    BY <1>2 DEF Rows
  <2>3. \A x \in Issued : XgmiQ(x[1], List(x[1])[x[2]].engine_id) \in CreatedQueues
    <3> SUFFICES ASSUME NEW x \in Issued
                 PROVE  XgmiQ(x[1], List(x[1])[x[2]].engine_id) \in CreatedQueues
      OBVIOUS
    <3>1. x[1] \in 0 .. total - 1
      BY <2>2 DEF Issued, Gpus, Rows, N
    <3>2. List(x[1])[x[2]].engine_id \in XgmiEngines(2)
      BY <1>1, <1>7, <2>1, CommandEngines
    <3> QED
      BY <1>5, <3>1, <3>2
  <2>4. 2 \in XgmiEngines(2)
    BY <1>1, SecondEngine
  <2>5. \A i \in Rows(N) : CpuQ(i, 0) \in CreatedQueues /\ XgmiQ(i, 2) \in CreatedQueues
    BY <1>4, <1>5, <2>2, <2>4
  <2>6. Reached = {XgmiQ(i, 2) : i \in Rows(N)} \cup {CpuQ(i, 0) : i \in Rows(N)}
                    \cup {XgmiQ(x[1], List(x[1])[x[2]].engine_id) : x \in Issued}
    BY <1>7 DEF Reached
  <2> QED
    BY <1>2, <2>3, <2>5, <2>6
<1> QED
  BY <1>6, <1>7

\* A session given what it needs does not go wrong.
LEMMA StepKeepsSound ==
  ASSUME SessionInv, TableInv, PlanInv, BatchInv, NeverCrashes, SessionNext
  PROVE  NeverCrashes'
<1>1. input' = input /\ input \in Inputs
  BY DEF SessionInv, SizeInv, SessionNext, OpenMap, SetUp, SetUpFails, InitializeSkips, InitializeExits,
         CreateQueues, Dispatch, Plan, Next, Skip, Crash, Build, Allocate, AllocateFails,
         ConstructPacket, Submit, Wait, Finish, SweepDone, DestroyQueues, TearDown, Destruct, planVars
<1>2. WellFormed' = WellFormed
  BY <1>1 DEF WellFormed, Usable, ListServes, EnginesServe, MapServes, N, GpuNodes, Nodes, IsP2p,
              XgmiEngines, Rows
<1> SUFFICES ASSUME WellFormed PROVE pc' # "crashed"
  BY <1>2 DEF NeverCrashes
<1>3. /\ \A n \in GpuNodes : n \in Nat /\ n < Cardinality(Answering)
      /\ Cardinality(GpuNodes) \in Nat /\ N <= Cardinality(GpuNodes) /\ N \in Nat \ {0}
      /\ \A i \in Gpus(input) : Hw(input, i) \in 0 .. Cardinality(GpuNodes) - 1
  BY <1>1, WellFormedTables, GpuNumbers DEF N
<1>4. CASE SetUp
  <2>1. pc' = IF GpuNodes = {} THEN "exited"
              ELSE IF Min(GpuNodes) >= Cardinality(Answering) THEN "crashed" ELSE "initialize"
    BY <1>4 DEF SetUp
  <2>2. ASSUME GpuNodes # {} PROVE Min(GpuNodes) \in GpuNodes
    <3>1. \E x \in GpuNodes : \A y \in GpuNodes : x <= y
      BY <1>3, <2>2, LeastMember
    <3> QED
      BY <3>1 DEF Min
  <2>3. Cardinality(Answering) \in Nat
    <3>1. input.nodes \in Seq({"cpu", "gpu", "silent"})
      BY <1>1, SessionAssumption
    <3>2. IsFiniteSet(Nodes)
      BY <3>1, LenProperties, FS_Interval DEF Nodes
    <3> QED
      BY <3>2, FS_Subset, FS_CardinalityType DEF Answering
  <2>4. GpuNodes # {} => ~ (Min(GpuNodes) >= Cardinality(Answering))
    BY <1>3, <2>2, <2>3
  <2> QED
    BY <2>1, <2>4
<1>5. CASE CreateQueues
  <2>1. /\ allGpuNodes = GpuNodes /\ m_HsaNodeProps = Answering
        /\ pc' = "crashed" => NoSuchGpu \/ \E n \in allGpuNodes : Throws(n)
    BY <1>5 DEF CreateQueues, TableInv, Looked
  <2>2. ~NoSuchGpu
    BY <1>3, <2>1 DEF NoSuchGpu
  <2>3. Cardinality(Answering) \in Nat
    <3>1. input.nodes \in Seq({"cpu", "gpu", "silent"})
      BY <1>1, SessionAssumption
    <3>2. IsFiniteSet(Nodes)
      BY <3>1, LenProperties, FS_Interval DEF Nodes
    <3> QED
      BY <3>2, FS_Subset, FS_CardinalityType DEF Answering
  <2>4. \A n \in allGpuNodes : ~Throws(n)
    BY <1>3, <2>1, <2>3 DEF Throws
  <2> QED
    BY <2>1, <2>2, <2>4
<1>6. CASE Dispatch
  <2>1. /\ pc = "dispatch" /\ allGpuNodes = GpuNodes
        /\ pc' = "crashed" => queues = {} \/ NoMap
    BY <1>6 DEF Dispatch, TableInv, Looked
  <2>2. queues = CreatedQueues
    BY <1>3, <2>1 DEF TableInv, TooFewGpus
  <2>3. CpuQ(0, 0) \in CreatedQueues
    <3>1. 0 \in Rows(Cardinality(allGpuNodes)) /\ 0 \in 0 .. input.numCpuSdma - 1
      <4>1. input.numCpuSdma \in Nat /\ input.numCpuSdma >= 2
        BY <1>1, SessionAssumption
      <4>2. Cardinality(allGpuNodes) \in Nat /\ Cardinality(allGpuNodes) >= 1
        BY <1>3, <2>1
      <4> QED
        BY <4>1, <4>2 DEF Rows
    <3> QED
      BY <3>1 DEF CreatedQueues
  <2>4. ~NoMap
    BY <1>1, WellFormedMap
  <2> QED
    BY <2>1, <2>2, <2>3, <2>4
<1>7. CASE Plan
  <2>1. /\ pc = "plan" /\ Next
        /\ pc' = [building |-> "plan", ready |-> "sweep",
                  skipped |-> "teardown", crashed |-> "crashed"][status']
    BY <1>7 DEF Plan
  <2>2. gpu \in Gpus(input)
    <3>1. status = "building" /\ gpu \in 0 .. N
      BY <2>1 DEF PlanInv, TypeOK, N
    <3> QED
      BY <1>3, <3>1 DEF PlanInv, Gpus, N
  <2>3. ~Crash
    BY <1>1, <2>2, WellFormedLists, WellFormedMap DEF Crash
  <2>4. status' \in {"skipped", "building", "ready"}
    BY <2>1, <2>3 DEF Next, Skip, Build
  <2> QED
    BY <2>1, <2>4
<1>8. CASE Wait
  <2>1. pc' = IF BatchKind(step) = "overhead" /\ step = 1 + Overheads /\ input.numIter < Warmup
              THEN "crashed" ELSE "run"
    BY <1>8 DEF Wait
  <2>2. CASE IsP2p
    <3>1. input.numIter \in Nat /\ input.numIter >= Warmup /\ Warmup \in Nat
      BY <1>1, <2>2, SessionAssumption DEF WellFormed, Warmup
    <3> QED
      BY <2>1, <3>1
  <2>3. CASE ~IsP2p
    <3>1. calibrated
      BY <2>3 DEF SessionInv, SizeInv
    <3>2. BatchKind(step) = CollectiveBatch(step)
      BY <2>3, <3>1 DEF BatchKind
    <3>3. CollectiveBatch(step) # "overhead"
      BY DEF CollectiveBatch
    <3> QED
      BY <2>1, <3>2, <3>3
  <2> QED
    BY <2>2, <2>3
<1>9. CASE Allocate
  <2>1. IsP2p => N > 1
    BY DEF WellFormed, Usable, ListServes, IsP2p
  <2> QED
    BY <1>9, <2>1 DEF Allocate
<1>10. CASE Submit
  <2>1. pc = "run" /\ step <= BatchesOfSize
    BY <1>10 DEF Submit
  <2>2. step \in 1 .. BatchesOfSize
    BY <1>1, <2>1, BatchCounts DEF BatchInv
  <2>3. DOMAIN Placed(BatchKind(step)) \subseteq Reached
    BY <2>2, PlacedReached DEF SessionInv
  <2>4. Reached \subseteq queues
    BY <2>1, ReachedLive DEF SessionInv, Sweeping, WellFormed
  <2>5. DOMAIN Placed(BatchKind(step)) \subseteq queues
    BY <2>3, <2>4
  <2> QED
    BY <1>10, <2>5 DEF Submit
<1>11. CASE \/ OpenMap \/ SetUpFails \/ InitializeSkips \/ InitializeExits \/ AllocateFails
            \/ ConstructPacket \/ Finish \/ SweepDone \/ DestroyQueues \/ TearDown \/ Destruct
  BY <1>11 DEF OpenMap, SetUpFails, InitializeSkips, InitializeExits, AllocateFails,
               ConstructPacket, Finish, SweepDone, DestroyQueues, TearDown, Destruct, Goto
<1> QED
  BY <1>4, <1>5, <1>6, <1>7, <1>8, <1>9, <1>10, <1>11 DEF SessionNext

\* A batch is placed when its turn comes and gone when it is waited for; what
\* its packets touch is mapped as long as the size lasts.
LEMMA StepKeepsBatch ==
  ASSUME SessionInv, BatchInv, SessionNext
  PROVE  BatchInv'
<1>1. input' = input /\ input \in Inputs
  BY DEF SessionInv, SizeInv, SessionNext, OpenMap, SetUp, SetUpFails, InitializeSkips, InitializeExits,
         CreateQueues, Dispatch, Plan, Next, Skip, Crash, Build, Allocate, AllocateFails,
         ConstructPacket, Submit, Wait, Finish, SweepDone, DestroyQueues, TearDown, Destruct, planVars
<1>2. N' = N /\ IsP2p' = IsP2p /\ Mappings' = Mappings /\ Empty' = Empty
  BY <1>1 DEF N, IsP2p, Mappings, Slabs, SignalMapping, Empty
<1>3. 1 \in 1 .. BatchesOfSize' + 1
  <2>1. input.numIter \in Nat /\ Overheads' \in Nat
    BY <1>1, SessionAssumption DEF Overheads
  <2>2. BatchesOfSize' \in Nat
    BY <1>1, <2>1 DEF BatchesOfSize
  <2>3. \A b \in Nat : 1 \in 1 .. b + 1
    OBVIOUS
  <2> QED
    BY <2>2, <2>3
<1>4. DOMAIN Empty = {}
  BY DEF Empty
<1> DEFINE Kind(q) == q[1] \in {"cpu", "xgmi"}
\* Outside of a size no batch is on its way.
<1>5. ASSUME UNCHANGED <<step, memory, batch, drained>>,
             pc \notin {"run", "wait", "crashed"}, pc' \notin {"run", "wait"}
      PROVE  BatchInv'
  <2>1. step' = step /\ memory' = memory /\ batch' = batch /\ drained' = drained
    BY <1>5
  <2> QED
    BY <1>2, <1>3, <1>5, <2>1 DEF BatchInv
<1>6. CASE \/ OpenMap \/ SetUp \/ SetUpFails \/ InitializeSkips \/ InitializeExits \/ CreateQueues
           \/ Dispatch \/ Plan \/ AllocateFails \/ SweepDone \/ DestroyQueues \/ TearDown \/ Destruct
  <2>1. UNCHANGED <<step, memory, batch, drained>> /\ pc \notin {"run", "wait", "crashed"}
    BY <1>6 DEF OpenMap, SetUp, SetUpFails, InitializeSkips, InitializeExits, CreateQueues, Dispatch,
                Plan, AllocateFails, SweepDone, DestroyQueues, TearDown, Destruct, Goto,
                batchVars, sweepVars
  <2>2. pc' \notin {"run", "wait"}
    <3>1. CASE Plan
      <4>1. /\ status' \in {"building", "ready", "skipped", "crashed"}
            /\ pc' = [building |-> "plan", ready |-> "sweep",
                      skipped |-> "teardown", crashed |-> "crashed"][status']
        BY <3>1 DEF Plan, Next, Skip, Crash, Build
      <4> QED
        BY <4>1
    <3> QED
      BY <1>6, <3>1 DEF OpenMap, SetUp, SetUpFails, InitializeSkips, InitializeExits, CreateQueues,
                        Dispatch, AllocateFails, SweepDone, DestroyQueues, TearDown, Destruct, Goto
  <2> QED
    BY <1>5, <2>1, <2>2
<1>7. CASE Allocate
  <2>1. /\ pc = "sweep"
        /\ \/ pc' = "run" /\ memory' = Mappings
           \/ pc' = "crashed" /\ memory' = memory
        /\ step' = step /\ batch' = batch /\ drained' = drained
    BY <1>7 DEF Allocate
  <2> QED
    BY <1>2, <1>3, <2>1 DEF BatchInv
<1>8. ASSUME input' = input, calibrated' = calibrated, size' = size
      PROVE  BatchesOfSize' = BatchesOfSize
  BY <1>8 DEF BatchesOfSize, Overheads, IsP2p, MinShare, Share, N
<1>9. CASE ConstructPacket
  <2>1. /\ pc = "run" /\ pc' = "run" /\ memory' = memory /\ calibrated' = calibrated /\ size' = size
        /\ step' = step /\ batch' = batch /\ drained' = drained
    BY <1>9 DEF ConstructPacket, Goto, batchVars, sweepVars
  <2> QED
    BY <1>1, <1>2, <1>8, <2>1 DEF BatchInv
<1>10. CASE Submit
  <2>1. /\ pc = "run" /\ memory' = memory /\ calibrated' = calibrated /\ size' = size
        /\ \/ pc' = "wait" /\ batch' = Placed(BatchKind(step))
           \/ pc' = "crashed" /\ batch' = batch
        /\ step' = step /\ drained' = drained
        /\ step <= BatchesOfSize /\ cmds' = cmds
    BY <1>10 DEF Submit, sweepVars, planVars
  <2>2. step \in 1 .. BatchesOfSize
    BY <1>1, <2>1, BatchCounts DEF BatchInv
  <2>3. /\ DOMAIN batch' = {} \/ DOMAIN batch' \subseteq Reached
        /\ pc' = "crashed" => batch' = Empty
        /\ \A q \in Reached : Kind(q)
    BY <1>4, <2>1, <2>2, PlacedReached DEF SessionInv, BatchInv
  <2>4. Reached' = Reached
    BY <1>1, <1>2, <2>1 DEF Reached, Src, Dest, CpuQ, XgmiQ, Rows, List, Issued
  <2>5. \A q \in DOMAIN batch' \cup DOMAIN drained' : Kind(q)
    BY <2>1, <2>3 DEF BatchInv
  <2> QED
    BY <1>1, <1>2, <1>4, <1>8, <2>1, <2>2, <2>3, <2>4, <2>5 DEF BatchInv
<1>11. CASE Wait
  <2>1. /\ pc = "wait" /\ pc' \in {"crashed", "run"} /\ memory' = memory
        /\ calibrated' = calibrated /\ size' = size
        /\ step' = step + 1 /\ batch' = Empty
    BY <1>11 DEF Wait
  <2>2. step' \in 1 .. BatchesOfSize + 1
    BY <1>1, <2>1, BatchCounts DEF BatchInv
  <2>3. DOMAIN drained' = DOMAIN batch \cup DOMAIN drained
    BY <1>11 DEF Wait
  <2>4. \A q \in DOMAIN batch' \cup DOMAIN drained' : Kind(q)
    BY <1>4, <2>1, <2>3 DEF BatchInv
  <2> QED
    BY <1>1, <1>2, <1>8, <2>1, <2>2, <2>4 DEF BatchInv
<1>12. CASE Finish
  <2>1. /\ pc = "run" /\ pc' = "sweep" /\ memory' = Empty
        /\ step' = 1 /\ batch' = batch /\ drained' = drained
    BY <1>12 DEF Finish, Goto
  <2> QED
    BY <1>2, <1>3, <2>1 DEF BatchInv
<1> QED
  BY <1>6, <1>7, <1>9, <1>10, <1>11, <1>12 DEF SessionNext

\* One batch more: a sample more if it is one of the measured ones, which are
\* as many as the iterations.
LEMMA MeasuredGrows ==
  ASSUME input \in Inputs, calibrated, NEW k \in 1 .. BatchesOfSize
  PROVE  /\ Measured(k) \in Nat
         /\ BatchKind(k) \in {"iterate", "copy"} =>
              Measured(k + 1) = Measured(k) + 1 /\ Measured(k) < input.numIter
         /\ BatchKind(k) \notin {"iterate", "copy"} => Measured(k + 1) = Measured(k)
<1>1. input.numIter \in Nat /\ Overheads \in Nat /\ k \in Nat /\ k >= 1
  BY BatchCounts
<1>2. CASE ~IsP2p
  <2>1. BatchKind(k) = IF k <= input.numIter THEN "fill"
                       ELSE IF k <= 2 * input.numIter THEN "iterate" ELSE "validate"
    BY <1>2 DEF BatchKind, CollectiveBatch
  <2>2. \A j : Measured(j) = Within(0, j - 1 - input.numIter, input.numIter)
    BY <1>2 DEF Measured
  <2>3. k + 1 - 1 - input.numIter = k - input.numIter
    BY <1>1
  <2>4. /\ Measured(k) = Within(0, k - 1 - input.numIter, input.numIter)
        /\ Measured(k + 1) = Within(0, k - input.numIter, input.numIter)
    BY <2>2, <2>3
  <2>5. CASE k <= input.numIter
    <3>1. BatchKind(k) = "fill"
      BY <1>1, <2>1, <2>5
    <3>2. Measured(k) = 0
      BY <1>1, <2>4, <2>5 DEF Within
    <3>3. Measured(k + 1) = 0
      BY <1>1, <2>4, <2>5 DEF Within
    <3> QED
      BY <3>1, <3>2, <3>3
  <2>6. CASE k > input.numIter /\ k <= 2 * input.numIter
    <3>1. BatchKind(k) = "iterate"
      BY <1>1, <2>1, <2>6
    <3>2. Measured(k) = k - 1 - input.numIter /\ Measured(k + 1) = k - input.numIter
      BY <1>1, <2>4, <2>6 DEF Within
    <3> QED
      BY <1>1, <2>6, <3>1, <3>2
  <2>7. CASE k > 2 * input.numIter
    <3>1. BatchKind(k) = "validate"
      BY <1>1, <2>1, <2>7
    <3>2. Measured(k) = input.numIter /\ Measured(k + 1) = input.numIter
      BY <1>1, <2>4, <2>7 DEF Within
    <3> QED
      BY <1>1, <3>1, <3>2
  <2> QED
    BY <1>1, <2>5, <2>6, <2>7
<1>3. CASE IsP2p
  <2> DEFINE m == k - 1 - Overheads
             top == 2 * input.numIter
  <2>1. m \in Int /\ top \in Nat /\ k - 2 - Overheads = m - 1 /\ k + 1 - 2 - Overheads = m
    BY <1>1
  <2>2. BatchKind(k) = CASE k = 1          -> "fills"
                         [] k > 1 /\ m <= 0 -> "overhead"
                         [] m > 0 /\ m % 2 = 0 -> "readback"
                         [] OTHER          -> IF m <= top THEN "copy" ELSE "stamped"
    BY <1>3 DEF BatchKind, P2pBatch
  <2>3. /\ Measured(k) = (Within(0, m - 1, top) + 1) \div 2
        /\ Measured(k + 1) = (Within(0, m, top) + 1) \div 2
    BY <1>3, <2>1 DEF Measured
  <2>4. k = 1 => m <= 0
    BY <1>1
  <2> HIDE DEF m
  <2>5. CASE m <= 0
    <3>1. BatchKind(k) \in {"fills", "overhead"}
      <4>1. CASE k = 1
        <5>1. BatchKind(k) = "fills"
          BY <2>2, <2>5, <2>1, <4>1
        <5> QED
          BY <5>1
      <4>2. CASE k # 1
        <5>1. k > 1
          BY <1>1, <4>2
        <5>2. BatchKind(k) = "overhead"
          BY <2>1, <2>2, <2>5, <4>2, <5>1
        <5> QED
          BY <5>2
      <4> QED
        BY <4>1, <4>2
    <3>2. Within(0, m - 1, top) = 0 /\ Within(0, m, top) = 0
      BY <2>1, <2>5 DEF Within
    <3> QED
      BY <2>3, <3>1, <3>2
  <2>6. CASE m > 0 /\ m <= top
    <3>1. Within(0, m - 1, top) = m - 1 /\ Within(0, m, top) = m
      BY <2>1, <2>6 DEF Within
    <3>2. Measured(k) = m \div 2 /\ Measured(k + 1) = (m + 1) \div 2
      BY <2>1, <2>3, <3>1
    <3>3. BatchKind(k) = IF m % 2 = 0 THEN "readback" ELSE "copy"
      BY <2>1, <2>2, <2>4, <2>6
    <3> DEFINE j == m \div 2
    <3>4. j \in Int /\ m % 2 \in 0 .. 1 /\ m = 2 * j + (m % 2)
      BY <2>1
    <3> HIDE DEF j
    <3>5. (m + 1) \div 2 = IF m % 2 = 0 THEN j ELSE j + 1
      BY <3>4
    <3>6. j >= 0 /\ (m % 2 # 0 => j < input.numIter)
      BY <1>1, <2>6, <3>4
    <3> QED
      BY <3>2, <3>3, <3>4, <3>5, <3>6 DEF j
  <2>7. CASE m > top
    <3>1. BatchKind(k) \in {"readback", "stamped"}
      BY <2>1, <2>2, <2>4, <2>7
    <3>2. Within(0, m - 1, top) = top /\ Within(0, m, top) = top
      BY <2>1, <2>7 DEF Within
    <3>3. (top + 1) \div 2 \in Nat
      BY <2>1
    <3> QED
      BY <2>3, <3>1, <3>2, <3>3
  <2> QED
    BY <2>1, <2>5, <2>6, <2>7
<1> QED
  BY <1>2, <1>3

\* None at first, and all iterations in the end.
LEMMA MeasuredEnds ==
  ASSUME input \in Inputs, calibrated
  PROVE  Measured(1) = 0 /\ Measured(BatchesOfSize + 1) = input.numIter
<1>1. input.numIter \in Nat /\ Overheads \in Nat
  BY BatchCounts
<1>2. CASE ~IsP2p
  <2>1. \A j : Measured(j) = Within(0, j - 1 - input.numIter, input.numIter)
    BY <1>2 DEF Measured
  <2>2. BatchesOfSize = 3 * input.numIter
    BY <1>2 DEF BatchesOfSize
  <2> QED
    BY <1>1, <2>1, <2>2 DEF Within
<1>3. CASE IsP2p
  <2> DEFINE b == BatchesOfSize + 1
  <2>1. b = 2 + Overheads + 4 * input.numIter
    BY <1>1, <1>3 DEF BatchesOfSize
  <2> HIDE DEF b
  <2>2. /\ Within(0, 1 - 2 - Overheads, 2 * input.numIter) = 0
        /\ Within(0, b - 2 - Overheads, 2 * input.numIter) = 2 * input.numIter
    BY <1>1, <2>1 DEF Within
  <2>3. (0 + 1) \div 2 = 0 /\ (2 * input.numIter + 1) \div 2 = input.numIter
    BY <1>1
  <2>4. Measured(1) = (Within(0, 1 - 2 - Overheads, 2 * input.numIter) + 1) \div 2
    BY <1>3 DEF Measured
  <2>5. Measured(b) = (Within(0, b - 2 - Overheads, 2 * input.numIter) + 1) \div 2
    BY <1>3 DEF Measured
  <2>6. Measured(1) = 0
    BY <2>2, <2>3, <2>4
  <2>7. Measured(b) = input.numIter
    BY <2>2, <2>3, <2>5
  <2> QED
    BY <2>6, <2>7 DEF b
<1> QED
  BY <1>2, <1>3

\* Samples are those of the size being swept, and a line averages exactly the
\* ones after the warm-up.
LEMMA StepKeepsSamples ==
  ASSUME SessionInv, BatchInv, SampleInv, SessionNext
  PROVE  SampleInv'
<1>1. input' = input /\ input \in Inputs /\ size \in Nat
  BY DEF SessionInv, SizeInv, SessionNext, OpenMap, SetUp, SetUpFails, InitializeSkips, InitializeExits,
         CreateQueues, Dispatch, Plan, Next, Skip, Crash, Build, Allocate, AllocateFails,
         ConstructPacket, Submit, Wait, Finish, SweepDone, DestroyQueues, TearDown, Destruct, planVars
<1>2. /\ IsP2p' = IsP2p /\ Averaging' = Averaging
      /\ reports' = reports => AveragesFresh' = AveragesFresh
  BY <1>1 DEF IsP2p, Averaging, AveragesFresh
<1>3. ASSUME size' = size, step' = step
      PROVE  Measured(step)' = Measured(step)
  BY <1>1, <1>3 DEF Measured, Overheads, MinShare, Share, IsP2p, N
<1> DEFINE PcsBefore == Early \cup {"dispatch", "plan", "sweep"}
\* Outside of a size.
<1>4. ASSUME samples' = samples, reports' = reports,
             pc' \notin {"run", "wait"}, pc' \in PcsBefore => pc \in PcsBefore
      PROVE  SampleInv'
  BY <1>1, <1>2, <1>4 DEF SampleInv
<1>5. CASE \/ OpenMap \/ SetUp \/ SetUpFails \/ InitializeSkips \/ InitializeExits \/ CreateQueues
           \/ Dispatch \/ Plan \/ AllocateFails \/ SweepDone
  <2>1. /\ samples' = samples /\ reports' = reports
        /\ pc \in {"start", "setup", "initialize", "dispatch", "plan", "sweep"}
    BY <1>5 DEF OpenMap, SetUp, SetUpFails, InitializeSkips, InitializeExits, CreateQueues, Dispatch,
                Plan, AllocateFails, SweepDone, Goto, batchVars, sweepVars
  <2>2. pc \in PcsBefore
    BY <2>1 DEF Early
  <2>3. pc' \notin {"run", "wait"}
    <3>1. CASE Plan
      <4>1. /\ status' \in {"building", "ready", "skipped", "crashed"}
            /\ pc' = [building |-> "plan", ready |-> "sweep",
                      skipped |-> "teardown", crashed |-> "crashed"][status']
        BY <3>1 DEF Plan, Next, Skip, Crash, Build
      <4> QED
        BY <4>1
    <3> QED
      BY <1>5, <3>1 DEF OpenMap, SetUp, SetUpFails, InitializeSkips, InitializeExits, CreateQueues,
                        Dispatch, AllocateFails, SweepDone, Goto
  <2> QED
    BY <1>4, <2>1, <2>2, <2>3
<1>6. CASE DestroyQueues \/ TearDown \/ Destruct
  <2>1. /\ samples' = samples /\ reports' = reports
        /\ pc' \in {"teardown", "destruct", "returned"}
    BY <1>6 DEF DestroyQueues, TearDown, Destruct, Goto, batchVars, sweepVars
  <2>2. pc' \notin PcsBefore
    BY <2>1 DEF Early
  <2> QED
    BY <1>4, <2>1, <2>2
<1>7. CASE Allocate
  <2> DEFINE crashes == /\ pc' = "crashed" /\ samples' = samples
  <2>1. /\ pc = "sweep" /\ reports' = reports /\ calibrated' = calibrated
        /\ size' = size /\ step' = step
        /\ crashes \/ (pc' = "run" /\ samples' = IF IsP2p THEN <<>> ELSE samples)
    BY <1>7 DEF Allocate
  <2>2. CASE crashes
    BY <1>4, <2>1, <2>2 DEF Early
  <2>3. CASE ~crashes
    <3>1. /\ pc = "sweep" /\ pc' = "run" /\ reports' = reports /\ calibrated' = calibrated
          /\ samples' = IF IsP2p THEN <<>> ELSE samples
          /\ size' = size /\ step' = step
      BY <2>1, <2>3
    <3>2. pc' \notin PcsBefore /\ pc \in PcsBefore
      BY <3>1 DEF Early
    <3>3. samples' \in Seq(Nat)
      BY <3>1 DEF SampleInv
    <3>4. ASSUME calibrated, Averaging
          PROVE  samples' = [n \in 1 .. Measured(step) |-> size]
      <4>1. samples' = <<>>
        BY <3>1, <3>2, <3>4 DEF SampleInv
      <4>2. step = 1
        BY <3>1 DEF BatchInv
      <4>3. Measured(step) = 0
        BY <1>1, <3>4, <4>2, MeasuredEnds
      <4>4. [n \in 1 .. 0 |-> size] = <<>>
        OBVIOUS
      <4> QED
        BY <4>1, <4>3, <4>4
    <3> QED
      BY <1>2, <1>3, <3>1, <3>2, <3>3, <3>4 DEF SampleInv
  <2> QED
    BY <2>2, <2>3
<1>8. CASE ConstructPacket \/ Submit
  <2>1. /\ pc = "run" /\ pc' \in {"run", "wait", "crashed"} /\ reports' = reports /\ calibrated' = calibrated
        /\ samples' = samples /\ size' = size /\ step' = step
    BY <1>8 DEF ConstructPacket, Submit, Goto, batchVars, sweepVars
  <2>2. pc' \notin PcsBefore
    BY <2>1 DEF Early
  <2> QED
    BY <1>2, <1>3, <2>1, <2>2 DEF SampleInv
<1>9. CASE Wait
  <2> DEFINE keeps == BatchKind(step) \in {"iterate", "copy"}
  <2>1. /\ pc = "wait" /\ pc' \in {"run", "crashed"} /\ reports' = reports /\ calibrated' = calibrated
        /\ samples' = IF keeps /\ Len(samples) < MaxSamples
                      THEN Append(samples, size) ELSE samples
        /\ size' = size /\ step' = step + 1
    BY <1>9 DEF Wait
  <2>2. pc' \notin PcsBefore
    BY <2>1 DEF Early
  <2> HIDE DEF keeps
  <2>3. samples' \in Seq(Nat)
    <3>1. Append(samples, size) \in Seq(Nat)
      BY <1>1, AppendProperties DEF SampleInv
    <3> QED
      BY <2>1, <3>1 DEF SampleInv
  <2>4. Measured(step)' = Measured(step + 1)
    BY <1>1, <2>1 DEF Measured, Overheads, MinShare, Share, IsP2p, N
  <2>5. ASSUME calibrated, Averaging
        PROVE  samples' = [n \in 1 .. Measured(step + 1) |-> size]
    <3>1. step \in 1 .. BatchesOfSize
      BY <1>1, <2>1, BatchCounts DEF BatchInv
    <3>2. samples = [n \in 1 .. Measured(step) |-> size]
      BY <2>1, <2>5 DEF SampleInv
    <3>3. /\ Measured(step) \in Nat
          /\ keeps => Measured(step + 1) = Measured(step) + 1 /\ Measured(step) < input.numIter
          /\ ~keeps => Measured(step + 1) = Measured(step)
      BY <1>1, <2>5, <3>1, MeasuredGrows DEF keeps
    <3>4. Len(samples) = Measured(step) /\ Append(samples, size) = [n \in 1 .. Measured(step) + 1 |-> size]
      BY <1>1, <3>2, <3>3, EqualElements
    <3>5. input.numIter \in Nat /\ MaxSamples \in Nat /\ input.numIter <= MaxSamples
      BY <1>1, SessionAssumption
    <3>6. CASE keeps
      <4>1. Len(samples) < MaxSamples
        BY <3>3, <3>4, <3>5, <3>6
      <4> QED
        BY <2>1, <3>3, <3>4, <3>6, <4>1
    <3>7. CASE ~keeps
      BY <2>1, <3>2, <3>3, <3>7
    <3> QED
      BY <3>6, <3>7
  <2> QED
    BY <1>2, <2>1, <2>2, <2>3, <2>4, <2>5 DEF SampleInv
<1>10. CASE Finish
  <2> DEFINE prints == calibrated /\ (IsP2p \/ input.numIter > Warmup)
  <2>1. /\ pc = "run" /\ pc' = "sweep" /\ step > BatchesOfSize
        /\ IF prints THEN reports' = reports \cup {Line} /\ samples' = <<>>
                     ELSE reports' = reports /\ samples' = samples
    BY <1>10 DEF Finish, Goto, Cleared
  <2>2. CASE prints
    <3>1. step = BatchesOfSize + 1
      BY <1>1, <2>1, BatchCounts DEF BatchInv
    <3>2. samples = [n \in 1 .. input.numIter |-> size]
      BY <1>1, <2>1, <2>2, <3>1, MeasuredEnds DEF SampleInv, Averaging
    <3>3. input.numIter \in Nat /\ Warmup = 5
      BY <1>1, SessionAssumption DEF Warmup
    <3>4. /\ Len(samples) = input.numIter
          /\ SubSeq(samples, 5 + 1, input.numIter) = [n \in 1 .. input.numIter - 5 |-> size]
      BY <1>1, <3>2, <3>3, EqualElements
    <3>5. Averaged = [n \in 1 .. input.numIter - Warmup |-> size]
      BY <3>3, <3>4 DEF Averaged
    <3>6. Line.size = size /\ Line.samples = [n \in 1 .. input.numIter - Warmup |-> Line.size]
      BY <3>5 DEF Line
    <3>7. \A line \in reports' : line.size \in Nat
      BY <1>1, <2>1, <2>2, <3>6 DEF SampleInv
    <3>8. AveragesFresh'
      BY <1>1, <2>1, <2>2, <3>6 DEF SampleInv, AveragesFresh, Warmup
    <3>9. samples' \in Seq(Nat)
      BY <2>1, <2>2, EmptySeq
    <3> QED
      BY <2>1, <2>2, <3>7, <3>8, <3>9 DEF SampleInv
  <2>3. CASE ~prints
    <3>1. ~ (~IsP2p /\ Averaging)
      BY <2>3 DEF SessionInv, SizeInv, Averaging
    <3> QED
      BY <1>2, <2>1, <2>3, <3>1 DEF SampleInv
  <2> QED
    BY <2>2, <2>3
<1> QED
  BY <1>5, <1>6, <1>7, <1>8, <1>9, <1>10 DEF SessionNext

\* A step that changes nothing.
LEMMA StutterKeepsFull ==
  ASSUME TableInv, PlanInv, BatchInv, SampleInv, NeverCrashes, UNCHANGED sessionVars
  PROVE  TableInv' /\ PlanInv' /\ BatchInv' /\ SampleInv' /\ NeverCrashes'
<1>1. /\ input' = input /\ gpu' = gpu /\ cmds' = cmds /\ seen' = seen /\ status' = status
      /\ pc' = pc /\ m_HsaNodeProps' = m_HsaNodeProps /\ allGpuNodes' = allGpuNodes
      /\ queues' = queues /\ calibrated' = calibrated /\ size' = size /\ step' = step
      /\ memory' = memory /\ batch' = batch /\ drained' = drained /\ samples' = samples
      /\ reports' = reports
  BY DEF sessionVars, planVars, lookVars, batchVars, sweepVars
<1>2. N' = N /\ IsP2p' = IsP2p /\ Mappings' = Mappings /\ BatchesOfSize' = BatchesOfSize
  BY <1>1 DEF N, IsP2p, Mappings, Slabs, SignalMapping, BatchesOfSize, Overheads, MinShare, Share
<1>3. TableInv'
  <2>1. /\ TooFewGpus' = TooFewGpus /\ NoSuchGpu' = NoSuchGpu
        /\ CreatedQueues' = CreatedQueues
        /\ Answering' = Answering /\ GpuNodes' = GpuNodes
    BY <1>1 DEF TooFewGpus, NoSuchGpu, Gpus, NodeCount, Hw, N, CreatedQueues, XgmiEngines, Rows,
                CpuQ, XgmiQ, Answering, GpuNodes, Nodes
  <2> QED
    BY <1>1, <2>1 DEF TableInv
<1>4. PlanInv'
  <2>1. \A i : List(i)' = List(i) /\ (IsSwapList(i)' <=> IsSwapList(i))
    BY <1>1 DEF List, IsSwapList
  <2> QED
    BY <1>1, <1>2, <2>1 DEF PlanInv, TypeOK
<1>5. BatchInv'
  <2>1. Reached' = Reached
    BY <1>1, <1>2 DEF Reached, Src, Dest, CpuQ, XgmiQ, Rows, List, Issued
  <2> QED
    BY <1>1, <1>2, <2>1 DEF BatchInv, Empty
<1>6. SampleInv'
  <2>1. Measured(step)' = Measured(step)
    BY <1>1 DEF Measured, Overheads, MinShare, Share, IsP2p, N
  <2> QED
    BY <1>1, <1>2, <2>1 DEF SampleInv, AveragesFresh, Averaging
<1>7. NeverCrashes'
  <2>1. WellFormed' = WellFormed
    BY <1>1 DEF WellFormed, Usable, ListServes, EnginesServe, MapServes, N, GpuNodes, Nodes, IsP2p,
                XgmiEngines, Rows
  <2> QED
    BY <1>1, <2>1 DEF NeverCrashes
<1> QED
  BY <1>3, <1>4, <1>5, <1>6, <1>7

-----------------------------------------------------------------------------
(* The theorems.                                                           *)

\* The inductive invariant of a session.
THEOREM SessionInvariant == SessionSpec => []SessionInv
<1>1. SessionInit => SessionInv
  BY SessionInitInv
<1>2. SessionInv /\ [SessionNext]_sessionVars => SessionInv'
  <2> SUFFICES ASSUME SessionInv, [SessionNext]_sessionVars PROVE SessionInv'
    OBVIOUS
  <2>1. CASE SessionNext
    BY <2>1, StepKeepsSize, StepKeepsQueues, StepKeepsSplit DEF SessionInv
  <2>2. CASE UNCHANGED sessionVars
    <3>1. /\ input' = input /\ size' = size /\ calibrated' = calibrated /\ pc' = pc
          /\ queues' = queues /\ allGpuNodes' = allGpuNodes /\ status' = status
      BY <2>2 DEF sessionVars, planVars, sweepVars, lookVars
    <3>2. SizeInv'
      BY <3>1 DEF SessionInv, SizeInv, IsP2p, CalibrationSize
    <3>3. QueueInv'
      BY <3>1 DEF SessionInv, QueueInv, Exempt, CreatedQueues, N, XgmiEngines, Rows, CpuQ, XgmiQ
    <3>4. /\ asked' = asked /\ surfsize' = surfsize /\ src' = src
          /\ dst' = dst /\ room' = room /\ packets' = packets
      BY <2>2 DEF sessionVars, splitVars
    <3>5. SplitInv'
      BY <3>4 DEF SessionInv, SplitInv, SplitTypeOK, RoomLeft, Progress, Written
    <3> QED
      BY <3>2, <3>3, <3>5 DEF SessionInv
  <2> QED
    BY <2>1, <2>2
<1> QED
  BY <1>1, <1>2, PTL DEF SessionSpec

\* Everything that a session keeps.
THEOREM SessionFullInvariant == SessionSpec => []FullInv
<1>1. SessionInit => SessionInv /\ TableInv /\ PlanInv /\ BatchInv /\ SampleInv /\ NeverCrashes
  BY SessionInitInv, SessionInitFull
<1>2. ASSUME SessionInv, TableInv, PlanInv, BatchInv, SampleInv, NeverCrashes, [SessionNext]_sessionVars
      PROVE  TableInv' /\ PlanInv' /\ BatchInv' /\ SampleInv' /\ NeverCrashes'
  <2>1. CASE SessionNext
    BY <1>2, <2>1, StepKeepsTables, StepKeepsPlan, StepKeepsBatch, StepKeepsSamples, StepKeepsSound
  <2>2. CASE UNCHANGED sessionVars
    BY <1>2, <2>2, StutterKeepsFull
  <2> QED
    BY <1>2, <2>1, <2>2
<1> DEFINE Rest == TableInv /\ PlanInv /\ BatchInv /\ SampleInv /\ NeverCrashes
<1>3. SessionInit => Rest
  BY <1>1
<1>4. SessionInv /\ Rest /\ [SessionNext]_sessionVars => Rest'
  BY <1>2
<1>5. SessionInv /\ Rest => FullInv
  BY DEF FullInv
<1> HIDE DEF Rest
<1> QED
  BY <1>3, <1>4, <1>5, SessionInvariant, PTL DEF SessionSpec

\* Whatever sizes a session sweeps over, its packet constructors stay inside
\* their allocation and fill it.
THEOREM SessionStaysWithin == SessionSpec => []WithinAllocation
<1>1. SessionInv => WithinAllocation
  BY InvWithin DEF SessionInv
<1> QED
  BY <1>1, SessionInvariant, PTL

\* Whatever sizes a session sweeps over, its packets handle every byte once.
THEOREM SessionEveryByteOnce == SessionSpec => []CoversOnce
<1>1. SessionInv => CoversOnce
  BY InvCovers DEF SessionInv
<1> QED
  BY <1>1, SessionInvariant, PTL

\* A collective or the benchmark on a whole machine, however many GPUs and
\* engines it has, leaves no queue to the driver.
THEOREM NoQueueLeft == SessionSpec => []QueuesReleased
<1>1. SessionInv => QueuesReleased
  BY DEF SessionInv, QueueInv, QueuesReleased, Late, Exempt
<1> QED
  BY <1>1, SessionInvariant, PTL
\* The places of main and its flags.
Places == {"start", "setup", "initialize", "dispatch", "plan", "sweep", "run", "wait",
           "destroy", "teardown", "destruct", "returned", "exited", "crashed"}
PlaceInv == pc \in Places /\ kfd \in BOOLEAN /\ calibrated \in BOOLEAN

\* They stay what they are.
LEMMA PlacesStay == SessionSpec => []PlaceInv
<1>1. SessionInit => PlaceInv
  <2> SUFFICES ASSUME SessionInit PROVE PlaceInv
    OBVIOUS
  <2>1. pc = "start" /\ kfd = FALSE /\ calibrated = ~IsP2p
    BY DEF SessionInit
  <2>2. IsP2p \in BOOLEAN
    BY DEF IsP2p
  <2> QED
    BY <2>1, <2>2 DEF PlaceInv, Places
<1>2. PlaceInv /\ [SessionNext]_sessionVars => PlaceInv'
  <2> SUFFICES ASSUME PlaceInv, [SessionNext]_sessionVars PROVE PlaceInv'
    OBVIOUS
  <2>1. CASE \/ OpenMap \/ SetUp \/ SetUpFails \/ InitializeSkips \/ InitializeExits \/ CreateQueues
             \/ Dispatch \/ Allocate \/ AllocateFails \/ ConstructPacket \/ Submit \/ Wait \/ Finish
             \/ SweepDone \/ DestroyQueues \/ TearDown \/ Destruct
    <3>1. pc' \in Places
      BY <2>1 DEF OpenMap, SetUp, SetUpFails, InitializeSkips, InitializeExits, CreateQueues, Dispatch,
                  Allocate, AllocateFails, ConstructPacket, Submit, Wait, Finish, SweepDone,
                  DestroyQueues, TearDown, Destruct, Goto, Places
    <3>2. kfd' \in {kfd, TRUE, FALSE} /\ calibrated' \in {calibrated, TRUE}
      BY <2>1 DEF OpenMap, SetUp, SetUpFails, InitializeSkips, InitializeExits, CreateQueues, Dispatch,
                  Allocate, AllocateFails, ConstructPacket, Submit, Wait, Finish, SweepDone,
                  DestroyQueues, TearDown, Destruct, lookVars, sweepVars
    <3> QED
      BY <3>1, <3>2 DEF PlaceInv
  <2>2. CASE Plan
    <3>1. /\ status' \in {"building", "ready", "skipped", "crashed"}
          /\ pc' = [building |-> "plan", ready |-> "sweep",
                    skipped |-> "teardown", crashed |-> "crashed"][status']
          /\ kfd' = kfd /\ calibrated' = calibrated
      BY <2>2 DEF Plan, Next, Skip, Crash, Build, lookVars, sweepVars
    <3>2. pc' \in {"plan", "sweep", "teardown", "crashed"}
      BY <3>1
    <3> QED
      BY <3>1, <3>2 DEF PlaceInv, Places
  <2>3. CASE UNCHANGED sessionVars
    <3>1. pc' = pc /\ kfd' = kfd /\ calibrated' = calibrated
      BY <2>3 DEF sessionVars, lookVars, sweepVars
    <3> QED
      BY <3>1 DEF PlaceInv
  <2> QED
    BY <2>1, <2>2, <2>3 DEF SessionNext
<1> QED
  BY <1>1, <1>2, PTL DEF SessionSpec

\* Whatever its input, a session's variables keep their types: no list is built
\* for a GPU that does not take part, no step is beyond the batches of a size.
THEOREM SessionTypesHold == SessionSpec => []SessionTypeOK
<1>1. FullInv /\ PlaceInv => SessionTypeOK
  <2> SUFFICES ASSUME FullInv, PlaceInv PROVE SessionTypeOK
    OBVIOUS
  <2>1. TypeOK /\ queues \subseteq CreatedQueues /\ allGpuNodes \subseteq m_HsaNodeProps /\ size \in Nat
    BY DEF FullInv, SessionInv, SizeInv, QueueInv, PlanInv, TableInv
  <2>2. /\ step \in 1 .. BatchesOfSize + 1
        /\ \A q \in DOMAIN batch \cup DOMAIN drained : q[1] \in {"cpu", "xgmi"}
        /\ memory = Empty \/ memory = Mappings
    BY DEF FullInv, BatchInv
  <2>3. DOMAIN memory \subseteq {<<"sys", i>> : i \in Slabs} \cup {<<"signal">>}
    BY <2>2 DEF Empty, Mappings
  <2>4. /\ \A n \in DOMAIN samples : samples[n] \in Nat
        /\ \A line \in reports : line.size \in Nat
    <3>1. samples \in Seq(Nat) /\ \A line \in reports : line.size \in Nat
      BY DEF FullInv, SampleInv
    <3>2. DOMAIN samples = 1 .. Len(samples)
      BY <3>1, LenProperties
    <3> QED
      BY <3>1, <3>2, ElementOfSeq
  <2> QED
    BY <2>1, <2>2, <2>3, <2>4 DEF SessionTypeOK, PlaceInv, Places
<1> QED
  BY <1>1, SessionFullInvariant, PlacesStay, PTL

\* On a machine, and with settings, that are what the documentation asks for
\* (WellFormed), no step of a session reads past the end of a table, follows a
\* queue that was not created or divides by zero: whatever the number of nodes,
\* GPUs and engines, in whatever order GPU_LIST names them, the map, the lists
\* and the fixed engines of fills, readbacks and the benchmark stay within what
\* `initialize' made.
THEOREM SessionNeverCrashes == SessionSpec => []NeverCrashes
<1>1. FullInv => NeverCrashes
  BY DEF FullInv
<1> QED
  BY <1>1, SessionFullInvariant, PTL

\* A line of the report averages exactly the iterations after the warm-up, all
\* of its own size: however many iterations and sizes there are, no sample of
\* another size, of the calibration or of a warm-up gets into it.
THEOREM SessionAveragesFresh == SessionSpec => []AveragesFresh
<1>1. FullInv => AveragesFresh
  BY DEF FullInv, SampleInv
<1> QED
  BY <1>1, SessionFullInvariant, PTL

\* For any number of GPUs and any size of whole words, the chunks of a slab
\* are inside the allocation and apart from each other.
THEOREM SessionChunksApart == SessionSpec => []ChunksApart
<1>1. FullInv => ChunksApart
  <2> SUFFICES ASSUME FullInv, ~IsP2p, size % 4 = 0
               PROVE  /\ \A j \in Gpus(input) : Chunk(j) \subseteq 0 .. AllocSize - 1
                      /\ \A j, k \in Gpus(input) : j # k => Chunk(j) \cap Chunk(k) = {}
    BY DEF ChunksApart
  <2>1. size \in Nat /\ N \in Nat \ {0} /\ Page \in Nat /\ Gpus(input) = 0 .. N - 1
    BY GpuNumbers, SessionAssumption DEF FullInv, SessionInv, SizeInv, N, Gpus
  <2>2. ChunkStride = size
    BY <2>1 DEF ChunkStride
  <2>3. AllocSize >= N * size /\ AllocSize \in Nat
    <3> DEFINE slab == N * size
    <3>1. slab \in Nat
      BY <2>1
    <3>2. AllocSize = Max({Page, slab})
      BY DEF AllocSize
    <3> HIDE DEF slab
    <3>3. AllocSize >= slab /\ AllocSize \in Nat
      BY <2>1, <3>1, <3>2, MaxOfTwo
    <3> QED
      BY <3>3 DEF slab
  <2>4. \A j \in 0 .. N - 1 : Chunk(j) = size * j .. size * j + size - 1
    BY <2>2 DEF Chunk
  <2>5. ASSUME NEW j \in 0 .. N - 1
        PROVE  size * j \in Nat /\ size * j + size <= N * size
    <3>1. size * (j + 1) <= size * N
      BY <2>1
    <3> QED
      BY <2>1, <3>1
  <2>6. ASSUME NEW j \in 0 .. N - 1, NEW k \in 0 .. N - 1, j < k
        PROVE  size * j + size <= size * k
    <3>1. size * (j + 1) <= size * k
      BY <2>1, <2>6
    <3> QED
      BY <2>1, <3>1
  <2>7. \A j \in 0 .. N - 1 : Chunk(j) \subseteq 0 .. AllocSize - 1
    <3> SUFFICES ASSUME NEW j \in 0 .. N - 1 PROVE Chunk(j) \subseteq 0 .. AllocSize - 1
      OBVIOUS
    <3> DEFINE a == size * j
               b == N * size
    <3>1. a \in Nat /\ a + size <= b /\ b <= AllocSize /\ Chunk(j) = a .. a + size - 1
      BY <2>3, <2>4, <2>5
    <3>2. b \in Nat
      BY <2>1
    <3> HIDE DEF a, b
    <3> QED
      BY <2>1, <2>3, <3>1, <3>2
  <2>8. \A j, k \in 0 .. N - 1 : j < k => Chunk(j) \cap Chunk(k) = {}
    <3> SUFFICES ASSUME NEW j \in 0 .. N - 1, NEW k \in 0 .. N - 1, j < k
                 PROVE  Chunk(j) \cap Chunk(k) = {}
      OBVIOUS
    <3> DEFINE a == size * j
               b == size * k
    <3>1. /\ a \in Nat /\ b \in Nat /\ a + size <= b
          /\ Chunk(j) = a .. a + size - 1 /\ Chunk(k) = b .. b + size - 1
      BY <2>4, <2>5, <2>6
    <3> HIDE DEF a, b
    <3> QED
      BY <2>1, <3>1
  <2>9. \A j, k \in 0 .. N - 1 : j # k => j < k \/ k < j
    BY <2>1
  <2> QED
    BY <2>1, <2>7, <2>8, <2>9
<1> QED
  BY <1>1, SessionFullInvariant, PTL

\* GPUs taking part in the order of the machine; the benchmark takes two.
InOrder ==
    /\ \A i \in Gpus(input) : Hw(input, i) = i
    /\ IsP2p => N > 1

\* The GPUs that execute packets are those that the buffers are mapped for.
LEMMA ReachedSlabs ==
  ASSUME input \in Inputs, InOrder, NEW q \in Reached
  PROVE  q[2] \in Slabs /\ Hw(input, q[2]) = q[2]
<1>1. N \in Nat \ {0} /\ Gpus(input) = 0 .. N - 1 /\ Rows(N) = Gpus(input)
  BY GpuNumbers DEF N, Gpus, Rows
<1>2. CASE IsP2p
  <2>1. 0 \in Gpus(input) /\ 1 \in Gpus(input)
    BY <1>1, <1>2 DEF InOrder
  <2>2. q[2] \in {0, 1}
    BY <1>2 DEF Reached, Src, Dest, CpuQ, XgmiQ
  <2> QED
    BY <1>2, <2>1, <2>2 DEF InOrder, Slabs
<1>3. CASE ~IsP2p
  <2>1. \A x \in Issued : x[1] \in Gpus(input)
    BY DEF Issued
  <2>2. q[2] \in Gpus(input)
    BY <1>1, <1>3, <2>1 DEF Reached, CpuQ, XgmiQ
  <2> QED
    BY <1>3, <2>2 DEF InOrder, Slabs
<1> QED
  BY <1>2, <1>3

\* On any number of GPUs in the machine's order, what a packet reads or writes
\* is mapped on the GPU whose engine executes it, until the batch is waited for.
\* (For a GPU_LIST in another order it is not: see MCSessionGpuList.cfg.)
THEOREM SessionMapped == SessionSpec => [](InOrder => MappedWhereUsed)
<1>1. FullInv => (InOrder => MappedWhereUsed)
  <2> SUFFICES ASSUME FullInv, InOrder, NEW q \in DOMAIN batch, NEW b \in Touched(q)
               PROVE  b \in DOMAIN memory /\ q[2] \in memory[b]
    BY DEF MappedWhereUsed
  <2>1. pc = "wait"
    BY DEF FullInv, BatchInv, Empty
  <2>2. q \in Reached /\ memory = Mappings /\ input \in Inputs
    BY <2>1 DEF FullInv, BatchInv, SessionInv, SizeInv
  <2>3. q[2] \in Slabs /\ Hw(input, q[2]) = q[2]
    BY <2>2, ReachedSlabs
  <2> DEFINE r == q[2]
  <2>4. CASE b = <<"signal">>
    <3>1. <<"signal">> \in DOMAIN Mappings /\ Mappings[<<"signal">>] = SignalMapping
      BY DEF Mappings
    <3>2. r \in SignalMapping
      BY <2>3 DEF SignalMapping
    <3> QED
      BY <2>2, <2>4, <3>1, <3>2
  <2>5. CASE b = <<"sys", r>>
    <3>1. b # <<"signal">> /\ b[2] = r
      BY <2>5
    <3>2. b \in DOMAIN Mappings /\ Mappings[b] = {Hw(input, r)}
      BY <2>3, <2>5, <3>1 DEF Mappings
    <3> QED
      BY <2>2, <2>3, <3>2
  <2> QED
    BY <2>4, <2>5 DEF Touched
<1> QED
  BY <1>1, SessionFullInvariant, PTL

-----------------------------------------------------------------------------
(* What the finished lists come to.                                        *)

\* Swap has gone over the GPUs before this one and taken their pairs.
SwapInv ==
    IsSwap(input) /\ Distinct(input) =>
      /\ seen = SwapSeen(input, gpu)
      /\ \A i \in 0 .. gpu - 1 :
           SwapsWith(input, i, List(i)) /\ Len(List(i)) = SwapLen(input, i)

\* Only a list that is built changes any of it.
LEMMA StepKeepsSwap ==
  ASSUME SizeInv, PlanInv, SwapInv, [SessionNext]_sessionVars
  PROVE  SwapInv'
<1>1. CASE UNCHANGED planVars \/ Skip \/ Crash
  <2>1. input' = input /\ gpu' = gpu /\ cmds' = cmds /\ seen' = seen
    BY <1>1 DEF planVars, Skip, Crash
  <2>2. \A i : List(i)' = List(i)
    BY <2>1 DEF List
  <2> QED
    BY <2>1, <2>2 DEF SwapInv
<1>2. CASE Build
  <2> SUFFICES ASSUME IsSwap(input), Distinct(input), input' = input PROVE SwapInv'
    BY <1>2 DEF SwapInv, Build
  <2> DEFINE list == GpuCmds(input, gpu, seen)
  <2>1. /\ cmds' = Append(cmds, list)
        /\ seen' = seen \cup Taken(input, gpu, seen)
        /\ gpu' = gpu + 1
        /\ status = "building"
    BY <1>2 DEF Build
  <2>2. /\ input \in Inputs /\ gpu \in Gpus(input) /\ gpu \in Nat
        /\ cmds \in Seq(ToSet(cmds)) /\ Len(cmds) = gpu
    BY <2>1, GpuNumbers DEF SizeInv, PlanInv, TypeOK, Gpus, N
  <2>3. seen = SwapSeen(input, gpu)
    BY DEF SwapInv
  <2>4. /\ SwapsWith(input, gpu, list) /\ Len(list) = SwapLen(input, gpu)
        /\ seen' = SwapSeen(input, gpu')
    BY <2>1, <2>2, <2>3, SwapBuild
  <2> HIDE DEF list
  <2>5. /\ \A k \in 1 .. gpu : cmds'[k] = cmds[k]
        /\ cmds'[gpu + 1] = list
    BY <2>1, <2>2, OneMore
  <2>6. \A i : (i = gpu => List(i)' = list) /\ (i \in 0 .. gpu - 1 => List(i)' = List(i))
    <3>1. \A i \in 0 .. gpu - 1 : i + 1 \in 1 .. gpu
      BY <2>2
    <3>2. \A i \in 0 .. gpu - 1 : List(i)' = List(i)
      BY <2>5, <3>1 DEF List
    <3>3. cmds'[gpu + 1] = list
      BY <2>5
    <3> QED
      BY <3>2, <3>3 DEF List
  <2>7. \A i \in 0 .. gpu' - 1 : i = gpu \/ i \in 0 .. gpu - 1
    BY <2>1, <2>2
  <2>8. \A i \in 0 .. gpu - 1 : SwapsWith(input, i, List(i)) /\ Len(List(i)) = SwapLen(input, i)
    BY DEF SwapInv
  <2>9. \A i \in 0 .. gpu' - 1 : SwapsWith(input, i, List(i)') /\ Len(List(i)') = SwapLen(input, i)
    <3> SUFFICES ASSUME NEW i \in 0 .. gpu' - 1
                 PROVE  SwapsWith(input, i, List(i)') /\ Len(List(i)') = SwapLen(input, i)
      OBVIOUS
    <3>1. CASE i = gpu
      BY <2>4, <2>6, <3>1
    <3>2. CASE i \in 0 .. gpu - 1
      BY <2>6, <2>8, <3>2
    <3> QED
      BY <2>7, <3>1, <3>2
  <2> QED
    BY <2>4, <2>9 DEF SwapInv
<1>3. [SessionNext]_sessionVars => UNCHANGED planVars \/ Skip \/ Crash \/ Build
  BY DEF SessionNext, OpenMap, SetUp, SetUpFails, InitializeSkips, InitializeExits, CreateQueues,
         Dispatch, Plan, Next, Allocate, AllocateFails, ConstructPacket, Submit, Wait, Finish,
         SweepDone, DestroyQueues, TearDown, Destruct, sessionVars
<1> QED
  BY <1>1, <1>2, <1>3

\* Direct copies and batches with any GPU_LIST; swap with one that names no GPU
\* twice; broadcast where the affinity map, made from SDMA_MAP (MapWires) or on
\* a whole machine (WholeWires), wires the GPUs taking part to each other.
Pairing == \/ input.collective \in {"ag_pcpy", "aa_pcpy", "ag_b2b", "aa_b2b"}
           \/ IsSwap(input) /\ Distinct(input)
           \/ input.collective = "ag_bcst" /\ Wired(input)

\* Broadcast's finished lists pair up the GPU's destinations.
LEMMA FinishedBroadcast ==
  ASSUME SizeInv, PlanInv, Ready, input.collective = "ag_bcst", Wired(input)
  PROVE  /\ N \in Nat \ {0, 1} /\ \A i \in Gpus(input) : PairsUp(input, i, List(i))
<1>1. /\ input \in Inputs /\ gpu = N /\ N = NodeCount(input) /\ N \in Nat \ {0}
      /\ Gpus(input) = 0 .. N - 1 /\ \A i \in Gpus(input) : i \in 0 .. gpu - 1
  BY GpuNumbers DEF SizeInv, PlanInv, Ready, N, Gpus
<1>2. N # 1
  <2> SUFFICES ASSUME N = 1 PROVE FALSE
    OBVIOUS
  <2>1. 0 \in Gpus(input) /\ Gpus(input) \ {0} = {}
    BY <1>1
  <2>2. {LeadsTo(input, 0, e) : e \in EnginesOf(input, 0)} = Gpus(input) \ {0}
    BY <2>1 DEF Wired
  <2>3. EnginesOf(input, 0) # {}
    BY <1>1, <2>1 DEF PlanInv
  <2> QED
    BY <2>1, <2>2, <2>3
<1>3. ASSUME NEW i \in Gpus(input) PROVE PairsUp(input, i, List(i))
  <2>1. List(i) = GpuCmds(input, i, {})
    BY <1>1 DEF PlanInv, IsSwap
  <2>2. GpuCmds(input, i, {}) = AllgatherBcstCmds(input, i)
    BY DEF GpuCmds, IsB2b, IsSwap
  <2>3. NodeCount(input) > 1
    BY <1>1, <1>2
  <2> QED
    BY <1>1, <2>1, <2>2, <2>3, BcstPairsUp
<1> QED
  BY <1>1, <1>2, <1>3

\* How long the finished lists are and whom they serve.
LEMMA FinishedLists ==
  ASSUME SizeInv, PlanInv, SwapInv, Ready, Pairing
  PROVE  /\ N \in Nat \ {0} /\ N = NodeCount(input) /\ Gpus(input) = 0 .. N - 1
         /\ ~IsSwap(input) => NumCmds \in 0 .. N - 1
         /\ input.collective \in {"ag_pcpy", "aa_pcpy"} => NumCmds = N - 1
         /\ \A i \in Gpus(input) :
              /\ Len(List(i)) = IF IsSwap(input) THEN SwapLen(input, i) ELSE NumCmds
              /\ Shaped(List(i), Gpus(input))
              /\ IsSwap(input) => \A n \in DOMAIN List(i) : Len(List(i)[n].dests) = 1
              /\ \A j \in Gpus(input) : Cardinality(Serving(List(i), j)) =
                   IF IsSwap(input) THEN (IF j \in SwapTakes(input, i) THEN 1 ELSE 0)
                                    ELSE (IF i = j THEN 0 ELSE 1)
<1>1. /\ input \in Inputs /\ gpu = N /\ N = NodeCount(input) /\ N \in Nat \ {0}
      /\ Gpus(input) = 0 .. N - 1 /\ \A i \in Gpus(input) : i \in 0 .. gpu - 1
  BY GpuNumbers DEF SizeInv, PlanInv, Ready, N, Gpus
<1>2. CASE IsSwap(input)
  <2>1. Distinct(input)
    BY <1>2 DEF Pairing, IsSwap
  <2>2. \A i \in Gpus(input) : SwapsWith(input, i, List(i)) /\ Len(List(i)) = SwapLen(input, i)
    BY <1>1, <1>2, <2>1 DEF SwapInv
  <2>3. input.collective \notin {"ag_pcpy", "aa_pcpy"}
    BY <1>2 DEF IsSwap
  <2> QED
    BY <1>1, <1>2, <2>2, <2>3, SwapServes, SwapShaped
<1>3. CASE ~IsSwap(input) /\ input.collective # "ag_bcst"
  <2>1. input.collective \in {"ag_pcpy", "aa_pcpy", "ag_b2b", "aa_b2b"}
    BY <1>3 DEF Pairing
  <2>2. \A i \in Gpus(input) : List(i) = GpuCmds(input, i, {})
    BY <1>1, <1>3 DEF PlanInv
  <2> DEFINE len == IF IsB2b(input) THEN Batches(input) ELSE NodeCount(input) - 1
  <2>3. \A i \in Gpus(input) :
          /\ Len(List(i)) \in 0 .. NodeCount(input) - 1
          /\ Len(List(i)) = len
          /\ Shaped(List(i), Gpus(input))
          /\ \A j \in Gpus(input) : Cardinality(Serving(List(i), j)) = IF i = j THEN 0 ELSE 1
    BY <1>1, <2>1, <2>2, CopiesServe
  <2>4. NumCmds = len /\ NumCmds \in 0 .. N - 1
    <3>1. 0 \in Gpus(input)
      BY <1>1
    <3>2. NumCmds = Len(List(0))
      BY <1>3 DEF NumCmds, SlotsFor
    <3> HIDE DEF len
    <3> QED
      BY <1>1, <2>3, <3>1, <3>2
  <2>5. input.collective \in {"ag_pcpy", "aa_pcpy"} => NumCmds = N - 1
    BY <1>1, <2>4 DEF IsB2b
  <2> HIDE DEF len
  <2> QED
    BY <1>1, <1>3, <2>3, <2>4, <2>5
<1>4. CASE input.collective = "ag_bcst"
  <2>1. Wired(input) /\ ~IsSwap(input)
    BY <1>4 DEF Pairing, IsSwap
  <2>2. N \in Nat \ {0, 1} /\ \A i \in Gpus(input) : PairsUp(input, i, List(i))
    BY <1>4, <2>1, FinishedBroadcast
  <2>3. \A i \in Gpus(input) : Len(List(i)) = Row(N - 1)
    BY <1>1, <2>2 DEF PairsUp
  <2>4. Row(N - 1) \in 0 .. N - 1
    BY <2>2 DEF Row
  <2>5. NumCmds = Row(N - 1)
    BY <1>1, <2>1, <2>3 DEF NumCmds, SlotsFor
  <2>6. ASSUME NEW i \in Gpus(input), NEW j \in Gpus(input)
        PROVE  Cardinality(Serving(List(i), j)) = IF i = j THEN 0 ELSE 1
    <3> DEFINE list == List(i)
    <3>1. PairsUp(input, i, list)
      BY <2>2
    <3> HIDE DEF list
    <3>2. input \in Inputs /\ Wired(input)
      BY <1>1, <2>1
    <3>3. Broadcasts(input, i, j, list)
      BY <3>1, <3>2 DEF Broadcasts
    <3>4. Cardinality(Serving(list, j)) = IF i = j THEN 0 ELSE 1
      BY <3>3, BcstServes
    <3> QED
      BY <3>4 DEF list
  <2>7. ASSUME NEW i \in Gpus(input) PROVE Shaped(List(i), Gpus(input))
    <3> DEFINE list == List(i)
    <3>1. PairsUp(input, i, list)
      BY <2>2
    <3> HIDE DEF list
    <3>2. Broadcasts(input, i, i, list) /\ NodeCount(input) > 1
      BY <1>1, <2>1, <2>2, <3>1 DEF Broadcasts
    <3>3. Shaped(list, Gpus(input))
      BY <3>2, BcstShaped
    <3> QED
      BY <3>3 DEF list
  <2>8. input.collective \notin {"ag_pcpy", "aa_pcpy"}
    BY <1>4
  <2> QED
    BY <1>1, <2>1, <2>3, <2>4, <2>5, <2>6, <2>7, <2>8
<1> QED
  BY <1>2, <1>3, <1>4

\* Swap's invariant along with the others.
LEMMA SwapListsStay == SessionSpec => [](FullInv /\ SwapInv)
<1>1. SessionInit => SwapInv
  <2> SUFFICES ASSUME SessionInit, IsSwap(input), Distinct(input)
               PROVE  seen = SwapSeen(input, gpu) /\ 0 .. gpu - 1 = {}
    BY DEF SwapInv
  <2>1. gpu = 0 /\ seen = {}
    BY DEF SessionInit, Init
  <2>2. 0 .. gpu - 1 = {}
    BY <2>1
  <2>3. SwapSeen(input, gpu) = {}
    BY <2>2 DEF SwapSeen
  <2> QED
    BY <2>1, <2>2, <2>3
<1>2. FullInv /\ SwapInv /\ [SessionNext]_sessionVars => SwapInv'
  BY StepKeepsSwap DEF FullInv, SessionInv
<1> QED
  BY <1>1, <1>2, SessionFullInvariant, PTL DEF SessionSpec

\* On any number of GPUs, each ordered pair of them is served by one command,
\* once: direct copies in ring or index order leave out no peer and repeat
\* none, batches of any width overlap nowhere, and swap's greedy choice, GPU
\* after GPU, covers every unordered pair exactly once.
THEOREM SessionTransfersOnce == SessionSpec => [](Pairing => EveryTransferOnce)
<1>1. FullInv /\ SwapInv => (Pairing => EveryTransferOnce)
  <2> SUFFICES ASSUME FullInv, SwapInv, Pairing, Ready PROVE EveryTransferOnce
    BY DEF EveryTransferOnce
  <2> DEFINE Served == [i \in Gpus(input) |->
                          UNION {{n} \X DOMAIN List(i)[n].dests : n \in DOMAIN List(i)}]
             Times(i, j) == Cardinality({x \in Served[i] : List(i)[x[1]].dests[x[2]] = j})
  <2>1. \A i, j \in Gpus(input) : Times(i, j) = Cardinality(Serving(List(i), j))
    BY DEF Serving
  <2>2. /\ input \in Inputs
        /\ \A i, j \in Gpus(input) : Cardinality(Serving(List(i), j)) =
             IF IsSwap(input) THEN (IF j \in SwapTakes(input, i) THEN 1 ELSE 0)
                              ELSE (IF i = j THEN 0 ELSE 1)
    BY FinishedLists DEF FullInv, SessionInv, SizeInv
  <2> HIDE DEF Served, Times
  <2>3. ASSUME NEW i \in Gpus(input), NEW j \in Gpus(input)
        PROVE  Times(i, j) + (IF IsSwap(input) THEN Times(j, i) ELSE 0) = IF i = j THEN 0 ELSE 1
    <3>1. CASE IsSwap(input)
      BY <2>1, <2>2, <3>1, SwapPairs
    <3>2. CASE ~IsSwap(input)
      BY <2>1, <2>2, <3>2
    <3> QED
      BY <3>1, <3>2
  <2> QED
    BY <2>3 DEF EveryTransferOnce, Served, Times
<1> QED
  BY <1>1, SwapListsStay, PTL

\* Each fits num_cmds, which is less than the number of GPUs.
LEMMA FinishedSlots ==
  ASSUME SizeInv, PlanInv, SwapInv, Ready, Pairing
  PROVE  NumCmds \in 0 .. N - 1 /\ \A i \in Gpus(input) : IF IsSwap(input) THEN Len(List(i)) <= NumCmds
                                                                         ELSE Len(List(i)) = NumCmds
<1>1. /\ input \in Inputs /\ N \in Nat \ {0} /\ N = NodeCount(input) /\ Gpus(input) = 0 .. N - 1
      /\ ~IsSwap(input) => NumCmds \in 0 .. N - 1
      /\ \A i \in Gpus(input) : Len(List(i)) = IF IsSwap(input) THEN SwapLen(input, i) ELSE NumCmds
  BY FinishedLists DEF SizeInv
<1>2. CASE ~IsSwap(input)
  BY <1>1, <1>2
<1>3. CASE IsSwap(input)
  <2> DEFINE h == Half(input)
  <2>1. h \in Nat /\ (N = 2 * h \/ N = 2 * h + 1) /\ NumCmds = h
    BY <1>1, <1>3, HalfOfGpus DEF NumCmds, SlotsFor
  <2>2. \A i \in Gpus(input) : Len(List(i)) = IF 2 * h < N \/ i < h THEN h ELSE h - 1
    BY <1>1, <1>3 DEF SwapLen
  <2> HIDE DEF h
  <2> QED
    <3>1. NumCmds \in 0 .. N - 1
      <4>1. N \in Nat /\ N >= 1
        BY <1>1
      <4>2. h <= N - 1
        BY <2>1, <4>1
      <4> QED
        BY <2>1, <4>1, <4>2
    <3>2. \A i \in Gpus(input) : Len(List(i)) <= NumCmds
      BY <2>1, <2>2
    <3> QED
      BY <1>3, <3>1, <3>2
<1> QED
  BY <1>2, <1>3

\* How many commands there are.
LEMMA FinishedCount ==
  ASSUME SizeInv, PlanInv, SwapInv, Ready, Pairing
  PROVE  /\ IsFiniteSet(Issued)
         /\ Cardinality(Issued) = IF IsSwap(input) THEN TotalCommands(input) ELSE N * NumCmds
<1>1. /\ input \in Inputs /\ N \in Nat \ {0} /\ N = NodeCount(input) /\ Gpus(input) = 0 .. N - 1
      /\ ~IsSwap(input) => NumCmds \in 0 .. N - 1
      /\ \A i \in Gpus(input) : Len(List(i)) = IF IsSwap(input) THEN SwapLen(input, i) ELSE NumCmds
  BY FinishedLists DEF SizeInv
<1> DEFINE len == [i \in 0 .. N - 1 |-> Len(List(i))]
           h == Half(input)
           total == IF IsSwap(input) THEN TotalCommands(input) ELSE N * NumCmds
<1>2. Issued = Cells(N, len)
  BY <1>1 DEF Issued, Cells
<1>3. IsFiniteSet(Issued) /\ Cardinality(Issued) = total
  <2>1. CASE ~IsSwap(input)
    <3> DEFINE k == NumCmds
    <3>1. /\ \A i \in 0 .. N - 1 : len[i] = k
          /\ \A i \in N .. N - 1 : len[i] = k
      BY <1>1, <2>1
    <3>2. k \in Nat /\ k <= N /\ N \in Nat /\ N <= N
      BY <1>1, <2>1
    <3> HIDE DEF k, len
    <3>5. Stepped(N, N, k, k, len)
      BY <3>1, <3>2 DEF Stepped
    <3>3. IsFiniteSet(Issued) /\ Cardinality(Issued) = N * k + (N - N) * k
      BY <1>2, <3>5, CommandCount
    <3>4. N * k + (N - N) * k = N * k
      BY <3>2
    <3> QED
      BY <2>1, <3>3, <3>4 DEF k
  <2>2. CASE IsSwap(input)
    <3>1. /\ h \in Nat
          /\ NodeCount(input) = 2 * h \/ NodeCount(input) = 2 * h + 1
          /\ TotalCommands(input) = (IF NodeCount(input) = 2 * h THEN h * (2 * h - 1) ELSE h * (2 * h + 1))
      BY <1>1, HalfOfGpus
    <3>2. \A i \in 0 .. N - 1 : len[i] = IF 2 * h < N \/ i < h THEN h ELSE h - 1
      BY <1>1, <2>2 DEF SwapLen
    <3> HIDE DEF h, len
    <3>3. CASE N = 2 * h
      <4> DEFINE l == h - 1
      <4>1. h \in Nat /\ l \in Nat /\ h <= N /\ l <= N /\ N \in Nat
        BY <1>1, <3>1, <3>3
      <4>2. /\ \A i \in 0 .. h - 1 : len[i] = h
            /\ \A i \in h .. N - 1 : len[i] = l
        BY <3>1, <3>2, <3>3
      <4> HIDE DEF l
      <4>5. Stepped(h, N, h, l, len)
        BY <4>1, <4>2 DEF Stepped
      <4>3. IsFiniteSet(Issued) /\ Cardinality(Issued) = h * h + (N - h) * l
        BY <1>2, <4>5, CommandCount
      <4>4. h * h + (N - h) * l = h * (2 * h - 1)
        BY <3>1, <3>3, <4>1 DEF l
      <4> QED
        BY <1>1, <2>2, <3>1, <3>3, <4>3, <4>4
    <3>4. CASE N = 2 * h + 1
      <4>1. N # 2 * h /\ 2 * h < N /\ h <= N /\ N \in Nat
        BY <3>1, <3>4
      <4>2. /\ \A i \in 0 .. N - 1 : len[i] = h
            /\ \A i \in N .. N - 1 : len[i] = h
        BY <3>1, <3>2, <4>1
      <4>5. Stepped(N, N, h, h, len)
        BY <3>1, <4>1, <4>2 DEF Stepped
      <4>3. IsFiniteSet(Issued) /\ Cardinality(Issued) = N * h + (N - N) * h
        BY <1>2, <4>5, CommandCount
      <4>4. N * h + (N - N) * h = h * (2 * h + 1)
        BY <3>1, <3>4
      <4> QED
        BY <1>1, <2>2, <3>1, <3>4, <4>1, <4>3, <4>4
    <3> QED
      BY <1>1, <3>1, <3>3, <3>4
  <2> QED
    BY <2>1, <2>2
<1> QED
  BY <1>3

\* What the completions of all commands count for.
LEMMA FinishedTarget == FullInv /\ SwapInv => (Pairing => CountMeetsTarget)
<1>1. FullInv /\ SwapInv /\ input.collective # "ag_bcst" => (Pairing => CountMeetsTarget)
  <2> SUFFICES ASSUME FullInv, SwapInv, Pairing, Ready, input.collective # "ag_bcst"
               PROVE  CountedWeight = DoneTarget
    BY DEF CountMeetsTarget
  <2> DEFINE total == IF IsSwap(input) THEN TotalCommands(input) ELSE N * NumCmds
  <2>3. IsFiniteSet(Issued) /\ Cardinality(Issued) = total
    BY FinishedCount DEF FullInv, SessionInv
  <2>5. CountedWeight = Cardinality(Issued)
    <3>1. \A x \in Issued : 1 .. Weight(List(x[1])[x[2]]) = {1}
      BY DEF Weight
    <3>2. UNION {{x} \X (1 .. Weight(List(x[1])[x[2]])) : x \in Issued} = Issued \X {1}
      BY <3>1
    <3>3. Cardinality(Issued \X {1}) = Cardinality(Issued) * 1
      <4>1. IsFiniteSet({1}) /\ Cardinality({1}) = 1
        BY FS_Singleton
      <4> DEFINE S == Issued
      <4>2. IsFiniteSet(S)
        BY <2>3
      <4> HIDE DEF S
      <4>3. Cardinality(S \X {1}) = Cardinality(S) * Cardinality({1})
        BY <4>1, <4>2, FS_Product
      <4> QED
        BY <4>1, <4>3 DEF S
    <3>4. Cardinality(Issued) * 1 = Cardinality(Issued)
      <4>1. Cardinality(Issued) \in Nat
        BY <2>3, FS_CardinalityType
      <4> QED
        BY <4>1
    <3>5. CountedWeight = Cardinality(Issued \X {1})
      BY <3>2 DEF CountedWeight
    <3> QED
      BY <3>3, <3>4, <3>5
  <2>6. DoneTarget = total
    BY DEF DoneTarget, TargetFor, N
  <2> HIDE DEF total
  <2> QED
    BY <2>3, <2>5, <2>6
<1>2. FullInv /\ SwapInv /\ input.collective = "ag_bcst" => (Pairing => CountMeetsTarget)
  <2> SUFFICES ASSUME FullInv, Pairing, Ready, input.collective = "ag_bcst" PROVE CountedWeight = DoneTarget
    BY DEF CountMeetsTarget
  <2> DEFINE lists == [i \in Gpus(input) |-> List(i)]
             len == [i \in Gpus(input) |-> Len(lists[i])]
  <2>1. input \in Inputs /\ N = NodeCount(input) /\ Wired(input)
    BY DEF FullInv, SessionInv, SizeInv, Pairing, IsSwap, N
  <2>2. \A i \in Gpus(input) : PairsUp(input, i, lists[i])
    BY <2>1, FinishedBroadcast DEF FullInv, SessionInv
  <2>3. Cardinality(Destinations(input, lists)) = NodeCount(input) * (NodeCount(input) - 1)
    BY <2>1, <2>2, BcstCount
  <2>4. Issued = Cells(NodeCount(input), len)
    BY DEF Issued, Cells, Gpus
  <2>5. \A x \in Issued : Weight(List(x[1])[x[2]]) = Len(lists[x[1]][x[2]].dests)
    BY DEF Weight, Issued
  <2> HIDE DEF lists
  <2>6. UNION {{x} \X (1 .. Weight(List(x[1])[x[2]])) : x \in Issued} = Destinations(input, lists)
    <3>1. Destinations(input, lists) = UNION {{x} \X (1 .. Len(lists[x[1]][x[2]].dests)) : x \in Issued}
      BY <2>4 DEF Destinations
    <3> QED
      BY <2>5, <3>1
  <2>7. DoneTarget = NodeCount(input) * (NodeCount(input) - 1)
    BY DEF DoneTarget, TargetFor, IsSwap
  <2> QED
    BY <2>3, <2>6, <2>7 DEF CountedWeight
<1> QED
  BY <1>1, <1>2

\* On any number of GPUs, the completions that the spin loop counts are the
\* number it compares its count with for equality: N * (N - 1) copies, N rows
\* of batches, the destinations of all broadcast commands, or swap's
\* N * (N - 1) / 2 pairs, although an even number of GPUs makes the lists of
\* the second half shorter.
THEOREM SessionCountMeets == SessionSpec => [](Pairing => CountMeetsTarget)
BY FinishedTarget, SwapListsStay, PTL

\* However many GPUs there are, if two signals for each ordered pair of them
\* fit the signal buffer the slots of the commands do, and the loops up to
\* num_cmds stay inside every list.
THEOREM SessionSlotsSuffice ==
  SessionSpec => [](Pairing /\ 2 * N * (N - 1) <= SignalSlots => SlotsSuffice)
<1>1. FullInv /\ SwapInv => (Pairing /\ 2 * N * (N - 1) <= SignalSlots => SlotsSuffice)
  <2> SUFFICES ASSUME FullInv, SwapInv, Pairing, Ready, 2 * N * (N - 1) <= SignalSlots PROVE SlotsSuffice
    BY DEF SlotsSuffice
  <2>1. N \in Nat \ {0} /\ N = NodeCount(input)
    BY FinishedLists DEF FullInv, SessionInv
  <2>2. NumCmds \in 0 .. N - 1 /\ \A i \in Gpus(input) : IF IsSwap(input) THEN Len(List(i)) <= NumCmds
                                                                       ELSE Len(List(i)) = NumCmds
    BY FinishedSlots DEF FullInv, SessionInv
  <2>3. 2 * NodeCount(input) * NumCmds <= SignalSlots
    <3> DEFINE k == NumCmds
    <3>1. k \in Nat /\ k <= N - 1 /\ N \in Nat
      BY <2>1, <2>2
    <3> HIDE DEF k
    <3> DEFINE d == N - 1 - k
               x == N * k
               y == N * d
    <3>2. d \in Nat /\ x \in Nat /\ y \in Nat
      BY <3>1
    <3>3. N * (N - 1) = x + y /\ 2 * N * k = 2 * x /\ 2 * N * (N - 1) = 2 * (N * (N - 1))
      BY <3>1
    <3> HIDE DEF d, x, y
    <3>4. 2 * x <= 2 * (x + y)
      BY <3>2
    <3>5. 2 * N * k <= SignalSlots
      BY <3>2, <3>3, <3>4, PlanAssumption
    <3> QED
      BY <2>1, <3>5 DEF k
  <2> QED
    BY <2>2, <2>3 DEF SlotsSuffice
<1> QED
  BY <1>1, SwapListsStay, PTL

\* For any number of GPUs, the finished lists with the counts that go with them
\* are a plan that does what a collective is for: what the theorems about
\* module Collective ask of the plans it executes.
THEOREM SessionServes == SessionSpec => [](Pairing /\ Ready => Serves(FinishedPlan))
<1>1. FullInv /\ SwapInv => (Pairing /\ Ready => Serves(FinishedPlan))
  <2> SUFFICES ASSUME FullInv, SwapInv, Pairing, Ready PROVE Serves(FinishedPlan)
    OBVIOUS
  <2> DEFINE p == FinishedPlan
             G == Gpus(input)
             Dests(c) == List(c[1])[c[2]].dests
             Gets(i, j) == IF IsSwap(input) THEN j \in SwapTakes(input, i) ELSE i # j
  <2>1. /\ SizeInv /\ PlanInv /\ input \in Inputs
        /\ N \in Nat \ {0} /\ N = NodeCount(input) /\ G = 0 .. N - 1 /\ 0 \in G
    BY FinishedLists DEF FullInv, SessionInv, SizeInv
  <2>2. /\ \A i \in G : /\ Shaped(List(i), G)
                        /\ IsSwap(input) => \A n \in DOMAIN List(i) : Len(List(i)[n].dests) = 1
                        /\ Len(List(i)) <= NumCmds
        /\ NumCmds \in 0 .. N - 1
    <3>1. \A i \in G : Shaped(List(i), G)
                       /\ (IsSwap(input) => \A n \in DOMAIN List(i) : Len(List(i)[n].dests) = 1)
      BY <2>1, FinishedLists
    <3>2. NumCmds \in 0 .. N - 1 /\ \A i \in G : IF IsSwap(input) THEN Len(List(i)) <= NumCmds
                                                                  ELSE Len(List(i)) = NumCmds
      BY <2>1, FinishedSlots
    <3> QED
      BY <3>1, <3>2
  <2>3. /\ p.cmds = [i \in G |-> List(i)] /\ DOMAIN p.cmds = G /\ p.num_cmds = NumCmds
        /\ p.op = "swap" <=> IsSwap(input)
        /\ p.weighted = (input.collective = "ag_bcst")
        /\ p.done_target = DoneTarget /\ p.total_transfers = TransfersFor(input, NumCmds)
    BY <2>1 DEF FinishedPlan, PlanFor, NumCmds, DoneTarget, OpFor
  <2> HIDE DEF p
  <2>4. /\ CommandsOf(p) = Issued
        /\ \A c \in Issued : /\ c[1] \in G /\ c[2] \in DOMAIN List(c[1]) /\ c = <<c[1], c[2]>>
                             /\ DestsOf(p, c) = Dests(c)
    <3>1. \A i \in G : p.cmds[i] = List(i)
      BY <2>3
    <3>2. CommandsOf(p) = {c \in G \X (1 .. NumCmds) : c[2] <= Len(List(c[1]))}
      BY <2>3, <3>1 DEF CommandsOf
    <3>3. \A c : c \in CommandsOf(p) <=> c \in Issued
      <4>1. ASSUME NEW c \in G \X Nat, c[2] <= Len(List(c[1]))
            PROVE  c[2] <= NumCmds /\ c[2] <= N
        <5>1. c[1] \in G /\ c[2] \in Nat
          BY <4>1
        <5> DEFINE len == Len(List(c[1]))
        <5>2. len \in Nat /\ len <= NumCmds /\ NumCmds \in Nat /\ NumCmds <= N
          BY <2>1, <2>2, <5>1 DEF Shaped
        <5>3. c[2] <= len
          BY <4>1
        <5> HIDE DEF len
        <5> QED
          BY <2>1, <5>1, <5>2, <5>3
      <4>2. CommandsOf(p) = {c \in G \X (1 .. NumCmds) : c[2] <= Len(List(c[1]))}
            /\ Issued = {c \in G \X (1 .. N) : c[2] <= Len(List(c[1]))}
        BY <2>1, <3>2 DEF Issued
      <4>3. NumCmds \in Nat /\ N \in Nat
        BY <2>1, <2>2
      <4> HIDE DEF G
      <4> QED
        BY <4>1, <4>2, <4>3
    <3>4. ASSUME NEW c \in Issued
          PROVE  c[1] \in G /\ c[2] \in DOMAIN List(c[1]) /\ c = <<c[1], c[2]>>
      <4>1. c[1] \in G /\ c[2] \in 1 .. N /\ c[2] <= Len(List(c[1])) /\ c = <<c[1], c[2]>>
        BY <2>1 DEF Issued
      <4> DEFINE list == List(c[1])
      <4>2. Len(list) \in Nat /\ DOMAIN list = 1 .. Len(list)
        BY <2>2, <4>1 DEF Shaped
      <4> HIDE DEF list
      <4>3. c[2] \in DOMAIN list
        BY <2>1, <4>1, <4>2 DEF list
      <4> QED
        BY <4>1, <4>3 DEF list
    <3>5. \A c \in Issued : DestsOf(p, c) = Dests(c)
      BY <3>1, <3>4 DEF DestsOf
    <3> QED
      BY <3>3, <3>4, <3>5
\* Whom a command serves is whom its list serves.
  <2>5. ASSUME NEW i \in G, NEW n, NEW k, NEW j
        PROVE  <<n, k>> \in Serving(List(i), j) <=>
                 <<i, n>> \in Issued /\ k \in DOMAIN Dests(<<i, n>>) /\ Dests(<<i, n>>)[k] = j
    <3> DEFINE list == List(i)
    <3>1. DOMAIN list = 1 .. Len(list) /\ Len(list) \in Nat /\ Len(list) <= N
      BY <2>1, <2>2 DEF Shaped
    <3>2. <<i, n>> \in Issued <=> n \in DOMAIN list
      <4>1. <<i, n>> \in Issued <=> n \in 1 .. N /\ n <= Len(list)
        BY <2>1 DEF Issued
      <4> HIDE DEF list
      <4> QED
        BY <2>1, <3>1, <4>1
    <3>3. Dests(<<i, n>>) = list[n].dests
      OBVIOUS
    <3> HIDE DEF list, Dests
    <3>4. <<n, k>> \in Serving(list, j) <=> n \in DOMAIN list /\ k \in DOMAIN list[n].dests /\ list[n].dests[k] = j
      BY DEF Serving
    <3> QED
      BY <3>2, <3>3, <3>4 DEF list
  <2>6. ASSUME NEW i \in G, NEW j \in G
        PROVE  IF Gets(i, j) THEN \E x : Serving(List(i), j) = {x} ELSE Serving(List(i), j) = {}
    <3>1. Shaped(List(i), G)
      BY <2>2
    <3>2. Cardinality(Serving(List(i), j)) = IF Gets(i, j) THEN 1 ELSE 0
      BY <2>1, FinishedLists
    <3> DEFINE list == List(i)
               P == Gets(i, j)
    <3> HIDE DEF list, P, G
    <3>3. IF P THEN \E x : Serving(list, j) = {x} ELSE Serving(list, j) = {}
      BY <3>1, <3>2, ServedByOne DEF list, P
    <3> QED
      BY <3>3 DEF list, P
\* Of every two GPUs one has the other, and never both under swap.
  <2>7. /\ \A i \in G : ~Gets(i, i)
        /\ \A i, j \in G : i # j => Gets(i, j) \/ (IsSwap(input) /\ Gets(j, i))
        /\ \A i, j \in G : IsSwap(input) => ~(Gets(i, j) /\ Gets(j, i))
    BY <2>1, SwapPairs
  <2>8. ASSUME NEW c \in Issued, NEW k \in DOMAIN Dests(c)
        PROVE  /\ Dests(c)[k] \in G /\ Gets(c[1], Dests(c)[k])
               /\ <<c[2], k>> \in Serving(List(c[1]), Dests(c)[k])
    <3>1. c[1] \in G /\ c[2] \in DOMAIN List(c[1]) /\ c = <<c[1], c[2]>>
      BY <2>4
    <3>2. Dests(c)[k] \in G
      BY <2>2, <3>1 DEF Shaped, HasDests
    <3>3. <<c[2], k>> \in Serving(List(c[1]), Dests(c)[k])
      <4> DEFINE i == c[1]
                 n == c[2]
      <4>1. i \in G /\ <<i, n>> \in Issued /\ k \in DOMAIN Dests(<<i, n>>) /\ Dests(<<i, n>>) = Dests(c)
        BY <3>1
      <4> HIDE DEF i, n
      <4>2. <<n, k>> \in Serving(List(i), Dests(c)[k])
        BY <2>5, <4>1
      <4> QED
        BY <4>2 DEF i, n
    <3> HIDE DEF Dests, Gets
    <3> QED
      BY <2>6, <3>1, <3>2, <3>3
  <2>9. \A i, j \in G : Gets(i, j) => \E c \in Issued : \E k \in DOMAIN Dests(c) : c[1] = i /\ Dests(c)[k] = j
    <3> SUFFICES ASSUME NEW i \in G, NEW j \in G, Gets(i, j)
                 PROVE  \E c \in Issued : \E k \in DOMAIN Dests(c) : c[1] = i /\ Dests(c)[k] = j
      OBVIOUS
    <3>1. PICK x : x \in Serving(List(i), j)
      BY <2>6
    <3>2. x = <<x[1], x[2]>>
      BY <3>1 DEF Serving
    <3> DEFINE n == x[1]
               k == x[2]
    <3>3. <<n, k>> \in Serving(List(i), j)
      BY <3>1, <3>2
    <3> HIDE DEF n, k
    <3>4. <<i, n>> \in Issued /\ k \in DOMAIN Dests(<<i, n>>) /\ Dests(<<i, n>>)[k] = j
      BY <2>5, <3>3
    <3> QED
      BY <3>4
  <2>10. \A i, j \in DOMAIN p.cmds : i # j =>
           \E c \in CommandsOf(p) : \E k \in DOMAIN DestsOf(p, c) : <<i, j>> \in Covers(p, c, k)
    <3> SUFFICES ASSUME NEW i \in G, NEW j \in G, i # j
                 PROVE  \E c \in Issued : \E k \in DOMAIN Dests(c) : <<i, j>> \in Covers(p, c, k)
      BY <2>3, <2>4
    <3>1. CASE Gets(i, j)
      <4>1. PICK c \in Issued : \E k \in DOMAIN Dests(c) : c[1] = i /\ Dests(c)[k] = j
        BY <2>9, <3>1
      <4> QED
        BY <2>4, <4>1 DEF Covers
    <3>2. CASE IsSwap(input) /\ Gets(j, i)
      <4>1. PICK c \in Issued : \E k \in DOMAIN Dests(c) : c[1] = j /\ Dests(c)[k] = i
        BY <2>9, <3>2
      <4> QED
        BY <2>3, <2>4, <3>2, <4>1 DEF Covers
    <3> QED
      BY <2>7, <3>1, <3>2
  <2>11. \A c, d \in CommandsOf(p) : \A k \in DOMAIN DestsOf(p, c), l \in DOMAIN DestsOf(p, d) :
           Covers(p, c, k) \cap Covers(p, d, l) # {} => c = d /\ k = l
    <3> SUFFICES ASSUME NEW c \in Issued, NEW d \in Issued,
                        NEW k \in DOMAIN Dests(c), NEW l \in DOMAIN Dests(d),
                        Covers(p, c, k) \cap Covers(p, d, l) # {}
                 PROVE  c = d /\ k = l
      BY <2>4
    <3> DEFINE a == Dests(c)[k]
               b == Dests(d)[l]
    <3>1. /\ c[1] \in G /\ a \in G /\ Gets(c[1], a) /\ <<c[2], k>> \in Serving(List(c[1]), a)
          /\ d[1] \in G /\ b \in G /\ Gets(d[1], b) /\ <<d[2], l>> \in Serving(List(d[1]), b)
          /\ c = <<c[1], c[2]>> /\ d = <<d[1], d[2]>>
      BY <2>4, <2>8
    <3>2. \/ c[1] = d[1] /\ a = b
          \/ IsSwap(input) /\ c[1] = b /\ a = d[1]
      BY <2>3, <2>4 DEF Covers
    <3> HIDE DEF a, b, Gets
    <3>3. c[1] = d[1] /\ a = b
      BY <2>7, <3>1, <3>2
    <3>4. <<c[2], k>> = <<d[2], l>>
      BY <2>6, <3>1, <3>3
    <3> QED
      BY <3>1, <3>3, <3>4
  <2>12. \A c \in CommandsOf(p) :
           /\ DestsOf(p, c) # <<>> /\ \A k \in DOMAIN DestsOf(p, c) : DestsOf(p, c)[k] # c[1]
           /\ p.op = "swap" => Len(DestsOf(p, c)) = 1
    <3> SUFFICES ASSUME NEW c \in Issued
                 PROVE  /\ Dests(c) # <<>> /\ \A k \in DOMAIN Dests(c) : Dests(c)[k] # c[1]
                        /\ IsSwap(input) => Len(Dests(c)) = 1
      BY <2>3, <2>4
    <3>1. c[1] \in G /\ c[2] \in DOMAIN List(c[1])
      BY <2>4
    <3>2. Len(Dests(c)) \in Nat \ {0} /\ (IsSwap(input) => Len(Dests(c)) = 1)
      BY <2>2, <3>1 DEF Shaped, HasDests
    <3>3. \A k \in DOMAIN Dests(c) : Dests(c)[k] # c[1]
      BY <2>7, <2>8, <3>1
    <3> HIDE DEF Dests
    <3> QED
      BY <3>2, <3>3
  <2>13. p.done_target = Cardinality(Shares(p))
    <3>1. \A c \in Issued : (IF p.weighted THEN Len(DestsOf(p, c)) ELSE 1) = Weight(List(c[1])[c[2]])
      BY <2>3, <2>4 DEF Weight
    <3>2. Shares(p) = UNION {{c} \X (1 .. Weight(List(c[1])[c[2]])) : c \in Issued}
      BY <2>4, <3>1 DEF Shares
    <3>3. CountedWeight = DoneTarget
      BY FinishedTarget DEF CountMeetsTarget
    <3> QED
      BY <2>3, <3>2, <3>3 DEF CountedWeight
  <2>14. p.total_transfers = Cardinality(CommandsOf(p))
    <3>1. Cardinality(Issued) = IF IsSwap(input) THEN TotalCommands(input) ELSE N * NumCmds
      BY <2>1, FinishedCount
    <3>2. input.collective \in {"ag_pcpy", "aa_pcpy"} => NumCmds = N - 1
      BY <2>1, FinishedLists
    <3>3. TransfersFor(input, NumCmds) = IF IsSwap(input) THEN TotalCommands(input) ELSE N * NumCmds
      BY <2>1, <3>2 DEF TransfersFor, IsSwap
    <3> QED
      BY <2>3, <2>4, <3>1, <3>3
  <2> QED
    BY <2>10, <2>11, <2>12, <2>13, <2>14 DEF Serves, p
<1> QED
  BY <1>1, SwapListsStay, PTL

-----------------------------------------------------------------------------
(* Powers of two.                                                          *)

\* The first n + 1 of them.
DoublesTo(f, n) ==
    /\ f \in [0 .. n -> Nat]
    /\ f[0] = 1
    /\ \A k \in 1 .. n : f[k] = 2 * f[k - 1]

\* There are such lists, of every length, and they agree.
LEMMA DoublingExists ==
  ASSUME NEW n \in Nat
  PROVE  \E f : DoublesTo(f, n)
<1> DEFINE T == {m \in Nat : \E f : DoublesTo(f, m)}
<1>1. 0 \in T
  <2>1. DoublesTo([k \in 0 .. 0 |-> 1], 0)
    BY DEF DoublesTo
  <2> QED
    BY <2>1
<1>2. ASSUME NEW m \in Nat, m \in T PROVE m + 1 \in T
  <2>1. PICK f : DoublesTo(f, m)
    BY <1>2
  <2> DEFINE g == [k \in 0 .. m + 1 |-> IF k <= m THEN f[k] ELSE 2 * f[m]]
  <2>2. g \in [0 .. m + 1 -> Nat]
    BY <2>1 DEF DoublesTo
  <2>3. g[0] = 1
    BY <2>1 DEF DoublesTo
  <2>4. \A k \in 1 .. m + 1 : g[k] = 2 * g[k - 1]
    BY <2>1 DEF DoublesTo
  <2>5. DoublesTo(g, m + 1)
    BY <2>2, <2>3, <2>4 DEF DoublesTo
  <2> QED
    BY <2>5
<1> HIDE DEF T
<1>3. n \in T
  BY <1>1, <1>2, NumberInduction
<1> QED
  BY <1>3 DEF T

LEMMA DoublingAgrees ==
  ASSUME NEW n \in Nat, NEW m \in Nat, NEW f, NEW g, DoublesTo(f, n), DoublesTo(g, m),
         NEW k \in Nat, k <= n, k <= m
  PROVE  f[k] = g[k]
<1> DEFINE T == {l \in Nat : l <= n /\ l <= m => f[l] = g[l]}
<1>1. 0 \in T
  BY DEF DoublesTo
<1>2. ASSUME NEW l \in Nat, l \in T PROVE l + 1 \in T
  <2> SUFFICES ASSUME l + 1 <= n, l + 1 <= m PROVE f[l + 1] = g[l + 1]
    OBVIOUS
  <2>1. f[l] = g[l] /\ l + 1 \in 1 .. n /\ l + 1 \in 1 .. m /\ (l + 1) - 1 = l
    BY <1>2
  <2> QED
    BY <2>1 DEF DoublesTo
<1> HIDE DEF T
<1>3. k \in T
  BY <1>1, <1>2, NumberInduction
<1> QED
  BY <1>3 DEF T

\* Their equation, which makes the recursive definition one.
LEMMA PowerOf2Is ==
  /\ PowerOf2[0] = 1
  /\ \A k \in Nat : PowerOf2[k] \in Nat \ {0} /\ PowerOf2[k + 1] = 2 * PowerOf2[k]
<1> DEFINE F(n) == CHOOSE f : DoublesTo(f, n)
           p == [n \in Nat |-> F(n)[n]]
           Body(f) == [k \in Nat |-> IF k = 0 THEN 1 ELSE 2 * f[k - 1]]
<1>1. \A n \in Nat : DoublesTo(F(n), n)
  BY DoublingExists
<1> HIDE DEF F
<1>2. p[0] = 1
  BY <1>1 DEF DoublesTo
<1>3. \A n \in Nat : p[n] \in Nat /\ p[n + 1] = 2 * p[n]
  <2> SUFFICES ASSUME NEW n \in Nat PROVE p[n] \in Nat /\ p[n + 1] = 2 * p[n]
    OBVIOUS
  <2>1. DoublesTo(F(n), n) /\ DoublesTo(F(n + 1), n + 1)
    BY <1>1
  <2>2. F(n + 1)[n] = F(n)[n]
    BY <2>1, DoublingAgrees
  <2>3. n + 1 \in 1 .. n + 1 /\ (n + 1) - 1 = n /\ n \in 0 .. n
    OBVIOUS
  <2>4. F(n + 1)[n + 1] = 2 * F(n + 1)[n] /\ F(n)[n] \in Nat
    BY <2>1, <2>3 DEF DoublesTo
  <2> QED
    BY <2>2, <2>4
<1>4. p = Body(p)
  <2>1. \A k \in Nat : p[k] = IF k = 0 THEN 1 ELSE 2 * p[k - 1]
    <3> SUFFICES ASSUME NEW k \in Nat, k # 0 PROVE p[k] = 2 * p[k - 1]
      BY <1>2
    <3>1. k - 1 \in Nat /\ (k - 1) + 1 = k
      OBVIOUS
    <3> HIDE DEF p
    <3> QED
      BY <1>3, <3>1
  <2>2. p = [k \in Nat |-> p[k]]
    OBVIOUS
  <2> HIDE DEF p
  <2> QED
    BY <2>1, <2>2
<1>5. PowerOf2 = CHOOSE f : f = Body(f)
  BY DEF PowerOf2
<1> HIDE DEF p, Body
<1>6. PowerOf2 = Body(PowerOf2)
  BY <1>4, <1>5
<1>7. /\ PowerOf2[0] = 1
      /\ \A k \in Nat : k # 0 => PowerOf2[k] = 2 * PowerOf2[k - 1]
  BY <1>6 DEF Body
<1> DEFINE T == {k \in Nat : PowerOf2[k] \in Nat \ {0} /\ PowerOf2[k + 1] = 2 * PowerOf2[k]}
<1>8. \A k \in Nat : PowerOf2[k + 1] = 2 * PowerOf2[k]
  BY <1>7
<1>9. 0 \in T
  BY <1>7, <1>8
<1>10. \A k \in Nat : k \in T => k + 1 \in T
  BY <1>8
<1> HIDE DEF T
<1>11. Nat \subseteq T
  BY <1>9, <1>10, NumberInduction
<1> QED
  BY <1>7, <1>11 DEF T

\* They grow.
LEMMA PowerOf2Grows ==
  ASSUME NEW j \in Nat, NEW k \in Nat, j <= k
  PROVE  PowerOf2[j] <= PowerOf2[k]
<1> DEFINE T == {m \in Nat : PowerOf2[j] <= PowerOf2[j + m]}
<1>1. 0 \in T
  BY PowerOf2Is
<1>2. ASSUME NEW m \in Nat, m \in T PROVE m + 1 \in T
  <2>1. PowerOf2[(j + m) + 1] = 2 * PowerOf2[j + m] /\ PowerOf2[j + m] \in Nat /\ PowerOf2[j] \in Nat
    BY PowerOf2Is
  <2> QED
    BY <1>2, <2>1
<1> HIDE DEF T
<1>3. k - j \in T
  BY <1>1, <1>2, NumberInduction
<1> QED
  BY <1>3 DEF T

-----------------------------------------------------------------------------
(* The sizes of a sweep.                                                   *)

\* The sweep is at the k-th doubling of its first size: the sizes before were
\* within the limit and have their lines, which are all there are.
Printed == {line.size : line \in reports}
AtSize(k) ==
    /\ size = MinShare * PowerOf2[k]
    /\ \A j \in 0 .. k - 1 : MinShare * PowerOf2[j] <= Share(input.maxSize)
    /\ input.numIter > Warmup => Printed = {MinShare * PowerOf2[j] : j \in 0 .. k - 1}
Before1st == Early \cup {"dispatch", "plan"}
SweepInv ==
    /\ pc \in Before1st => reports = {} /\ (IsP2p => ~calibrated)
    /\ pc = "plan" => size = MinShare
    /\ pc \in Sweeping /\ ~calibrated => reports = {}
    /\ pc \in Sweeping /\ calibrated => \E k \in Nat : AtSize(k)
    /\ pc \in {"run", "wait"} /\ calibrated => size <= Share(input.maxSize)
    /\ SweepComplete

\* The first size of a sweep.
LEMMA FirstSize ==
  ASSUME SizeInv, reports = {}, size = MinShare
  PROVE  AtSize(0)
<1>1. MinShare \in Nat /\ MinShare * PowerOf2[0] = MinShare
  BY ShareInRange, PowerOf2Is
<1>2. 0 .. 0 - 1 = {}
  OBVIOUS
<1>3. Printed = {} /\ {MinShare * PowerOf2[j] : j \in 0 .. 0 - 1} = {}
  BY <1>2 DEF Printed
<1> QED
  BY <1>1, <1>2, <1>3 DEF AtSize

\* A sweep that is over has printed all powers that are within the limit.
LEMMA SweptAll ==
  ASSUME SizeInv, NEW k \in Nat, AtSize(k), size > Share(input.maxSize), input.numIter > Warmup
  PROVE  Printed = {n \in 0 .. Share(input.maxSize) : \E j \in 0 .. MaxDoublings :
                      n = Share(input.minSize) * PowerOf2[j]}
<1> DEFINE m == MinShare
           top == Share(input.maxSize)
           p == PowerOf2
<1>1. m \in Nat /\ top \in Nat /\ m = Share(input.minSize) /\ top <= Word - Gig
  BY ShareInRange DEF MinShare
<1>2. Word \in Nat /\ Gig \in Nat \ {0} /\ MaxDoublings \in Nat /\ Word <= p[MaxDoublings]
  BY SplitAssumption, DoublingsAssumption
<1>3. \A j \in Nat : p[j] \in Nat \ {0}
  BY PowerOf2Is
<1>4. \A j, l \in Nat : j <= l => p[j] <= p[l]
  BY PowerOf2Grows
<1>5. /\ m * p[k] > top
      /\ \A j \in 0 .. k - 1 : m * p[j] <= top
      /\ Printed = {m * p[j] : j \in 0 .. k - 1}
  BY DEF AtSize
<1> HIDE DEF m, top, p
\* A first size of no byte never gets beyond the limit.
<1>6. m >= 1
  <2>1. ASSUME m = 0 PROVE FALSE
    <3>1. m * p[k] = 0
      BY <1>3, <2>1
    <3> QED
      BY <1>1, <1>5, <3>1
  <2> QED
    BY <1>1, <2>1
<1>7. \A a, b \in Nat : a <= b => m * a <= m * b
  BY <1>1
<1>8. ASSUME NEW j \in 0 .. k - 1 PROVE j \in 0 .. MaxDoublings
  <2>1. p[j] \in Nat /\ p[j] <= m * p[j]
    BY <1>1, <1>3, <1>6
  <2>2. m * p[j] \in Nat /\ m * p[j] <= top
    BY <1>1, <1>5, <2>1
  <2>3. p[j] < p[MaxDoublings] /\ p[MaxDoublings] \in Nat
    BY <1>1, <1>2, <1>3, <2>1, <2>2
  <2>4. ~ (MaxDoublings <= j)
    BY <1>2, <1>4, <2>1, <2>3
  <2> QED
    BY <1>2, <2>4
<1>9. ASSUME NEW j \in Nat, m * p[j] <= top PROVE j \in 0 .. k - 1
  <2>1. ASSUME k <= j PROVE FALSE
    <3>1. p[k] <= p[j] /\ p[k] \in Nat /\ p[j] \in Nat
      BY <1>3, <1>4, <2>1
    <3>2. m * p[k] <= m * p[j] /\ m * p[k] \in Nat /\ m * p[j] \in Nat
      BY <1>1, <1>7, <3>1
    <3> QED
      BY <1>1, <1>5, <1>9, <3>2
  <2> QED
    BY <2>1
<1>10. ASSUME NEW n \in Printed
       PROVE  n \in 0 .. top /\ \E j \in 0 .. MaxDoublings : n = m * p[j]
  <2>1. PICK j \in 0 .. k - 1 : n = m * p[j]
    BY <1>5
  <2>2. n \in Nat /\ n <= top
    BY <1>1, <1>3, <1>5, <2>1
  <2> QED
    BY <1>1, <1>8, <2>1, <2>2
<1>11. ASSUME NEW n \in 0 .. top, NEW j \in 0 .. MaxDoublings, n = m * p[j]
       PROVE  n \in Printed
  <2>1. j \in 0 .. k - 1
    BY <1>1, <1>2, <1>9, <1>11
  <2> QED
    BY <1>5, <1>11, <2>1
<1>12. Printed = {n \in 0 .. top : \E j \in 0 .. MaxDoublings : n = m * p[j]}
  BY <1>10, <1>11
<1> QED
  BY <1>1, <1>12 DEF top, p

\* A size is done: it gets its line, and the next is the double.
LEMMA NextSizeSwept ==
  ASSUME SizeInv, NEW k \in Nat, AtSize(k), size <= Share(input.maxSize),
         calibrated, Finish
  PROVE  AtSize(k + 1)'
<1>1. /\ input' = input /\ size' = 2 * size
      /\ input.numIter > Warmup => reports' = reports \cup {Line}
  BY DEF Finish, planVars, NextSize
<1>2. MinShare' = MinShare /\ Share(input.maxSize)' = Share(input.maxSize) /\ Warmup' = Warmup
  BY <1>1 DEF MinShare, Share, IsP2p, N, Warmup
<1> DEFINE m == MinShare
           p == PowerOf2
<1>3. m \in Nat /\ p[k] \in Nat /\ p[k + 1] = 2 * p[k]
  BY ShareInRange, PowerOf2Is
<1>4. size = m * p[k]
  BY DEF AtSize
<1>5. 0 .. (k + 1) - 1 = (0 .. k - 1) \cup {k}
  OBVIOUS
<1> HIDE DEF m, p
<1>6. size' = m * p[k + 1]
  BY <1>1, <1>3, <1>4
<1>7. \A j \in 0 .. (k + 1) - 1 : m * p[j] <= Share(input.maxSize)
  BY <1>4, <1>5 DEF AtSize, m, p
<1>8. ASSUME input.numIter > Warmup
      PROVE  Printed' = {m * p[j] : j \in 0 .. (k + 1) - 1}
  <2>1. Line.size = size
    BY DEF Line
  <2>2. Printed' = Printed \cup {size}
    BY <1>1, <1>8, <2>1 DEF Printed
  <2>3. Printed = {m * p[j] : j \in 0 .. k - 1}
    BY <1>8 DEF AtSize, m, p
  <2> QED
    BY <1>4, <1>5, <2>2, <2>3
<1> QED
  BY <1>1, <1>2, <1>6, <1>7, <1>8 DEF AtSize, m, p

\* What the sweep keeps is kept by steps that leave its variables alone.
LEMMA SweepStays ==
  ASSUME SweepInv, input' = input, calibrated' = calibrated, size' = size, reports' = reports,
         pc' \in Before1st => pc \in Before1st,
         pc' = "plan" => pc = "plan",
         pc' \in Sweeping => pc \in Sweeping,
         pc' \in {"run", "wait"} => pc \in {"run", "wait"} \/ size <= Share(input.maxSize) \/ ~calibrated,
         pc' = "destroy" => pc = "destroy"
  PROVE  SweepInv'
<1>1. /\ IsP2p' = IsP2p /\ MinShare' = MinShare /\ Share(input.maxSize)' = Share(input.maxSize)
      /\ Share(input.minSize)' = Share(input.minSize) /\ Warmup' = Warmup
  BY DEF IsP2p, MinShare, Share, N, Warmup
<1>2. \A k : AtSize(k)' <=> AtSize(k)
  BY <1>1 DEF AtSize, Printed
<1>3. SweepComplete'
  BY <1>1 DEF SweepInv, SweepComplete
<1> QED
  BY <1>1, <1>2, <1>3 DEF SweepInv

\* Every step of a session keeps it.
LEMMA StepKeepsSweep ==
  ASSUME SizeInv, SweepInv, SessionNext
  PROVE  SweepInv'
<1>1. CASE Dispatch
  <2>1. /\ input' = input /\ calibrated' = calibrated /\ reports' = reports
        /\ size' = IF IsP2p THEN CalibrationSize ELSE MinShare
        /\ pc = "dispatch" /\ pc' \in {"sweep", "plan", "crashed", "teardown"}
        /\ pc' = "sweep" => IsP2p
        /\ pc' = "plan" => ~IsP2p
    BY <1>1 DEF Dispatch, planVars
  <2>2. IsP2p' = IsP2p /\ MinShare' = MinShare
    BY <2>1 DEF IsP2p, MinShare, Share, N
  <2>3. reports = {} /\ (IsP2p => ~calibrated)
    BY <2>1 DEF SweepInv, Before1st
  <2>4. SweepComplete'
    BY <2>1 DEF SweepComplete
  <2> QED
    BY <2>1, <2>2, <2>3, <2>4 DEF SweepInv, Before1st, Early, Sweeping
<1>2. CASE Plan
  <2>1. /\ input' = input /\ calibrated' = calibrated /\ size' = size /\ reports' = reports
        /\ pc = "plan" /\ status' \in {"building", "ready", "skipped", "crashed"}
        /\ pc' = [building |-> "plan", ready |-> "sweep",
                  skipped |-> "teardown", crashed |-> "crashed"][status']
    BY <1>2 DEF Plan, Next, Skip, Crash, Build, sweepVars
  <2>2. pc' \in {"plan", "sweep", "teardown", "crashed"}
    BY <2>1
  <2>3. CASE pc' = "sweep"
    <3>1. reports = {} /\ size = MinShare
      BY <2>1 DEF SweepInv, Before1st
    <3>2. AtSize(0)
      BY <3>1, FirstSize
    <3>3. /\ IsP2p' = IsP2p /\ MinShare' = MinShare /\ Share(input.maxSize)' = Share(input.maxSize)
          /\ Warmup' = Warmup
      BY <2>1 DEF IsP2p, MinShare, Share, N, Warmup
    <3>4. AtSize(0)'
      BY <2>1, <3>2, <3>3 DEF AtSize, Printed
    <3>5. SweepComplete'
      BY <2>3 DEF SweepComplete
    <3> QED
      BY <2>1, <2>3, <3>1, <3>4, <3>5 DEF SweepInv, Before1st, Early, Sweeping
  <2>4. CASE pc' # "sweep"
    BY <2>1, <2>2, <2>4, SweepStays DEF Before1st, Early, Sweeping
  <2> QED
    BY <2>3, <2>4
<1>3. CASE Allocate
  <2>1. /\ input' = input /\ calibrated' = calibrated /\ size' = size /\ reports' = reports
        /\ pc = "sweep" /\ pc' \in {"run", "crashed"} /\ (~calibrated \/ size <= Share(input.maxSize))
    BY <1>3 DEF Allocate, InSweep, planVars
  <2> QED
    BY <2>1, SweepStays DEF Before1st, Early, Sweeping
<1>4. CASE Finish
  <2>1. /\ input' = input /\ calibrated' = TRUE /\ pc = "run" /\ pc' = "sweep"
    BY <1>4 DEF Finish, Goto, planVars
  <2>2. SweepComplete'
    BY <2>1 DEF SweepComplete
  <2>3. \E k \in Nat : AtSize(k)'
    <3>1. CASE calibrated
      <4>1. PICK k \in Nat : AtSize(k)
        BY <2>1, <3>1 DEF SweepInv, Sweeping
      <4>2. size <= Share(input.maxSize)
        BY <2>1, <3>1 DEF SweepInv
      <4>3. AtSize(k + 1)'
        BY <1>4, <3>1, <4>1, <4>2, NextSizeSwept
      <4> QED
        BY <4>3
    <3>2. CASE ~calibrated
      <4>1. size' = MinShare /\ reports' = reports /\ reports = {}
        BY <1>4, <2>1, <3>2 DEF Finish, SweepInv, Sweeping
      <4>2. /\ MinShare' = MinShare /\ Share(input.maxSize)' = Share(input.maxSize) /\ Warmup' = Warmup
        BY <2>1 DEF IsP2p, MinShare, Share, N, Warmup
      <4>3. MinShare \in Nat /\ MinShare * PowerOf2[0] = MinShare
        BY ShareInRange, PowerOf2Is
      <4>4. 0 .. 0 - 1 = {}
        OBVIOUS
      <4>5. Printed' = {} /\ {MinShare * PowerOf2[j] : j \in 0 .. 0 - 1} = {}
        BY <4>1, <4>4 DEF Printed
      <4>6. AtSize(0)'
        BY <2>1, <4>1, <4>2, <4>3, <4>4, <4>5 DEF AtSize
      <4> QED
        BY <4>6
    <3> QED
      BY <3>1, <3>2
  <2> QED
    BY <2>1, <2>2, <2>3 DEF SweepInv, Before1st, Early, Sweeping
<1>5. CASE SweepDone
  <2>1. /\ input' = input /\ calibrated' = calibrated /\ size' = size /\ reports' = reports
        /\ pc = "sweep" /\ pc' \in {"teardown", "destroy"}
        /\ calibrated /\ ~ (size <= Share(input.maxSize))
    BY <1>5 DEF SweepDone, Goto, InSweep, planVars, sweepVars
  <2>2. size > Share(input.maxSize)
    BY <2>1, ShareInRange DEF SizeInv
  <2>3. PICK k \in Nat : AtSize(k)
    BY <2>1 DEF SweepInv, Sweeping
  <2>4. Share(input.maxSize)' = Share(input.maxSize) /\ Share(input.minSize)' = Share(input.minSize)
        /\ Warmup' = Warmup
    BY <2>1 DEF Share, IsP2p, N, Warmup
  <2>5. SweepComplete'
    BY <2>1, <2>2, <2>3, <2>4, SweptAll DEF SweepComplete, Printed
  <2> QED
    BY <2>1, <2>5 DEF SweepInv, Before1st, Early, Sweeping
<1>6. CASE OpenMap \/ SetUp \/ SetUpFails \/ InitializeSkips \/ InitializeExits \/ CreateQueues
  <2>1. /\ input' = input /\ size' = size /\ calibrated' = calibrated /\ reports' = reports
        /\ pc \in Before1st
        /\ pc' \in {"setup", "destruct", "exited", "crashed", "initialize", "dispatch"}
    BY <1>6 DEF OpenMap, SetUp, SetUpFails, InitializeSkips, InitializeExits, CreateQueues,
                Goto, planVars, sweepVars, Before1st, Early
  <2> QED
    BY <2>1, SweepStays DEF Sweeping
<1>7. CASE AllocateFails \/ ConstructPacket \/ Submit \/ Wait
  <2>1. /\ input' = input /\ size' = size /\ calibrated' = calibrated /\ reports' = reports
        /\ pc \in Sweeping
        /\ \/ pc \in {"run", "wait"} /\ pc' \in {"run", "wait"}
           \/ pc' \in {"exited", "crashed"}
    BY <1>7 DEF AllocateFails, ConstructPacket, Submit, Wait,
                Goto, planVars, sweepVars, Sweeping
  <2> QED
    BY <2>1, SweepStays DEF Sweeping, Before1st, Early
<1>8. CASE DestroyQueues \/ TearDown \/ Destruct
  <2>1. /\ input' = input /\ size' = size /\ calibrated' = calibrated /\ reports' = reports
        /\ pc' \in {"teardown", "destruct", "returned"}
    BY <1>8 DEF DestroyQueues, TearDown, Destruct, Goto, planVars, sweepVars
  <2> QED
    BY <2>1, SweepStays DEF Sweeping, Before1st, Early
<1> QED
  BY <1>1, <1>2, <1>3, <1>4, <1>5, <1>6, <1>7, <1>8 DEF SessionNext

\* A session that gets through its sweep has a line for every size from the
\* least on, doubling, up to the greatest, and no other, whatever the sizes.
THEOREM SessionSweeps == SessionSpec => []SweepComplete
<1>1. SessionInit => SweepInv
  <2> SUFFICES ASSUME SessionInit PROVE SweepInv
    OBVIOUS
  <2>1. pc = "start" /\ reports = {} /\ calibrated = ~IsP2p
    BY DEF SessionInit
  <2>2. SweepComplete
    BY <2>1 DEF SweepComplete
  <2> QED
    BY <2>1, <2>2 DEF SweepInv, Sweeping
<1>2. SessionInv /\ SweepInv /\ [SessionNext]_sessionVars => SweepInv'
  <2> SUFFICES ASSUME SessionInv, SweepInv, [SessionNext]_sessionVars PROVE SweepInv'
    OBVIOUS
  <2>1. CASE SessionNext
    BY <2>1, StepKeepsSweep DEF SessionInv
  <2>2. CASE UNCHANGED sessionVars
    <3>1. /\ input' = input /\ size' = size /\ calibrated' = calibrated /\ pc' = pc
          /\ reports' = reports
      BY <2>2 DEF sessionVars, planVars, sweepVars
    <3> QED
      BY <3>1, SweepStays
  <2> QED
    BY <2>1, <2>2
<1>3. SweepInv => SweepComplete
  BY DEF SweepInv
<1> QED
  BY <1>1, <1>2, <1>3, SessionInvariant, PTL DEF SessionSpec

-----------------------------------------------------------------------------
(* The room of batches in their rings.                                     *)

\* The packets that the largest surface of a sweep takes.
MostBytes == IF IsP2p THEN Max({CalibrationSize, Share(input.maxSize)}) ELSE Share(input.maxSize)
MostPackets == RoomFor(MostBytes)

\* The commands on one engine, and the dwords of each of them per packet.
MostCommands == IF IsB2b(input) THEN Batches(input)
                ELSE IF IsSwap(input) THEN CommandsPerNode(input) ELSE N
MoveDwordsEach == IF IsSwap(input) THEN SwapDwords
                  ELSE IF input.collective = "ag_bcst" THEN CopyDwords(2)
                  ELSE IF IsB2b(input) THEN input.ways * CopyDwords(1) ELSE CopyDwords(1)
LongestCommand == PollDwords + MoveDwordsEach * MostPackets + AtomicDwords

\* What a batch places on a queue at most: the signalled copies of a readback
\* or validation, the fills, a measured copy with its time stamps, the commands
\* of an iteration.
LongestCpu == IF IsP2p THEN CopyDwords(1) * MostPackets + AtomicDwords
                       ELSE N * (CopyDwords(1) * MostPackets) + FenceDwords
LongestFill == IF IsP2p THEN input.numIter * (FillDwords * MostPackets) + AtomicDwords
                        ELSE (2 * N) * (FillDwords * MostPackets) + FenceDwords
LongestMeasured == IF IsP2p THEN PollDwords + CopyDwords(1) * MostPackets + AtomicDwords + 4 * TimeDwords
                            ELSE LongestCommand * MostCommands
LongestBatch(q) == IF q[1] = "cpu" THEN LongestCpu
                   ELSE IF LongestFill <= LongestMeasured THEN LongestMeasured ELSE LongestFill
LongestPacket == Max({CopyDwords(2) * MostPackets, AtomicDwords})

\* The rule for the size of a ring: it holds two batches and a packet.
Roomy == \A q \in {CpuQ(0, 0), Src} : 2 * LongestBatch(q) + LongestPacket <= Capacity(q)

\* A surface takes no more packets than a larger one.
LEMMA RoomGrows ==
  ASSUME NEW n \in 0 .. Word - Gig, NEW m \in 0 .. Word - Gig, n <= m
  PROVE  RoomFor(n % Word) \in Nat /\ RoomFor(m) \in Nat /\ RoomFor(n % Word) <= RoomFor(m)
<1>1. Gig \in Nat \ {0} /\ Word \in Nat /\ n \in Nat /\ m \in Nat
  BY SplitAssumption
<1>2. n % Word = n /\ (n + Gig - 1) % Word = n + Gig - 1 /\ (m + Gig - 1) % Word = m + Gig - 1
  BY <1>1
<1> DEFINE a == n + Gig - 1
           b == m + Gig - 1
<1>3. RoomFor(n % Word) = a \div Gig /\ RoomFor(m) = b \div Gig
  BY <1>2 DEF RoomFor
<1>4. a \in Nat /\ b \in Nat /\ a <= b
  BY <1>1
<1> HIDE DEF a, b
<1> DEFINE x == a \div Gig
           y == b \div Gig
<1>5. /\ x \in Nat /\ y \in Nat
      /\ Gig * x <= a /\ b < Gig * y + Gig
  BY <1>1, <1>4
<1> HIDE DEF x, y
<1>6. ASSUME x >= y + 1 PROVE FALSE
  <2>1. Gig * x >= Gig * (y + 1) /\ Gig * (y + 1) = Gig * y + Gig
    BY <1>1, <1>5, <1>6
  <2> QED
    BY <1>1, <1>4, <1>5, <2>1
<1> QED
  BY <1>3, <1>5, <1>6 DEF x, y

\* Products of numbers.
LEMMA ProductGrows ==
  ASSUME NEW k \in Nat, NEW a \in Nat, NEW b \in Nat, a <= b
  PROVE  k * a \in Nat /\ k * b \in Nat /\ k * a <= k * b
OBVIOUS

\* The parts of the bound are numbers.
LEMMA LongestNumbers ==
  ASSUME SizeInv
  PROVE  /\ N \in Nat \ {0} /\ input.numIter \in Nat /\ input.ways \in Nat \ {0}
         /\ MostPackets \in Nat /\ MostCommands \in Nat /\ MoveDwordsEach \in Nat
         /\ LongestCommand \in Nat
         /\ LongestCpu \in Nat /\ LongestFill \in Nat /\ LongestMeasured \in Nat
         /\ MostBytes \in 0 .. Word - Gig /\ Share(input.maxSize) <= MostBytes
         /\ IsP2p => CalibrationSize <= MostBytes
<1>1. input \in Inputs /\ N \in Nat \ {0} /\ N = NodeCount(input)
  BY GpuNumbers DEF SizeInv, N
<1>2. input.numIter \in Nat /\ input.ways \in Nat \ {0}
  BY <1>1, SessionAssumption
<1>3. /\ Share(input.maxSize) \in Nat /\ Share(input.maxSize) <= Word - Gig
      /\ CalibrationSize \in Nat /\ CalibrationSize <= Word - Gig
      /\ Word \in Nat /\ Gig \in Nat
  BY ShareInRange, CalibrationInRange, SplitAssumption
<1>4. /\ MostBytes \in 0 .. Word - Gig /\ Share(input.maxSize) <= MostBytes
      /\ IsP2p => CalibrationSize <= MostBytes
  <2> DEFINE a == CalibrationSize
             b == Share(input.maxSize)
  <2> HIDE DEF a, b
  <2>1. a \in Nat /\ b \in Nat
    BY <1>3 DEF a, b
  <2>2. Max({a, b}) = IF a <= b THEN b ELSE a
    BY <2>1, MaxOfTwo
  <2>3. MostBytes = IF IsP2p THEN Max({a, b}) ELSE b
    BY DEF MostBytes, a, b
  <2> QED
    BY <1>3, <2>1, <2>2, <2>3 DEF a, b
<1>5. MostPackets \in Nat
  BY <1>4, RoomGrows DEF MostPackets
<1>6. MostCommands \in Nat
  <2>1. 0 \in Gpus(input)
    BY <1>1 DEF Gpus
  <2>2. CommandsPerNode(input) \in Nat
    BY <1>1, <2>1, SwapPeersShape
  <2>3. NodeCount(input) - 1 \in Nat
    BY <1>1
  <2>4. Batches(input) \in Nat
    BY <1>2, <2>3, CeilDivNat DEF Batches
  <2> QED
    BY <1>1, <2>2, <2>4 DEF MostCommands
<1>7. MoveDwordsEach \in Nat
  BY <1>2 DEF MoveDwordsEach, SwapDwords, CopyDwords
<1>8. MoveDwordsEach * MostPackets \in Nat /\ 7 * MostPackets \in Nat /\ 5 * MostPackets \in Nat
  BY <1>5, <1>7
<1>9. LongestCommand \in Nat
  BY <1>8 DEF LongestCommand, PollDwords, AtomicDwords
<1>10. LongestCpu \in Nat
  <2>1. N * (7 * MostPackets) \in Nat
    BY <1>1, <1>8
  <2> QED
    BY <1>8, <2>1 DEF LongestCpu, CopyDwords, AtomicDwords, FenceDwords
<1>11. LongestFill \in Nat
  <2>1. input.numIter * (5 * MostPackets) \in Nat /\ (2 * N) * (5 * MostPackets) \in Nat
    BY <1>1, <1>2, <1>8
  <2> QED
    BY <2>1 DEF LongestFill, FillDwords, AtomicDwords, FenceDwords
<1>12. LongestMeasured \in Nat
  <2>1. LongestCommand * MostCommands \in Nat
    BY <1>6, <1>9
  <2> QED
    BY <1>8, <2>1 DEF LongestMeasured, CopyDwords, PollDwords, AtomicDwords, TimeDwords
<1> QED
  BY <1>1, <1>2, <1>4, <1>5, <1>6, <1>7, <1>9, <1>10, <1>11, <1>12

\* The commands of a list: how many they are, and how long.
LEMMA CommandSizes ==
  ASSUME SizeInv, TableInv, PlanInv, Usable, pc \in Using, ~IsP2p, status = "ready",
         room \in Nat, NEW x \in Issued
  PROVE  LET c == List(x[1])[x[2]]
         IN  /\ x[2] \in 1 .. MostCommands
             /\ MoveDwords(c) \in Nat /\ MoveDwords(c) <= MoveDwordsEach * room
<1> DEFINE i == x[1]
           n == x[2]
           c == NodeCount(input)
           command == List(i)[n]
<1>1. i \in Gpus(input) /\ n \in 1 .. c /\ n <= Len(List(i))
  BY DEF Issued
<1>2. /\ input \in Inputs /\ c \in Nat \ {0} /\ i \in 0 .. gpu - 1
      /\ input.collective \in Variants \ {"unknown", "p2p_latency"}
  <2>1. input \in Inputs /\ input.collective \in Variants /\ gpu = N
    BY SessionAssumption DEF SizeInv, PlanInv
  <2>2. input.collective # "unknown" /\ input.collective # "p2p_latency"
    BY DEF PlanInv, IsP2p
  <2> QED
    BY <1>1, <2>1, <2>2, GpuNumbers DEF Gpus, N
<1>3. IF IsSwap(input) THEN IsSwapList(i) ELSE List(i) = GpuCmds(input, i, {})
  BY <1>2 DEF PlanInv
<1> HIDE DEF i, n
<1>4. CASE input.collective = "aa_swap"
  <2>1. CommandsPerNode(input) \in Nat
    BY <1>1, <1>2, SwapPeersShape
  <2>2. Len(List(i)) \in 0 .. CommandsPerNode(input)
    BY <1>3, <1>4 DEF IsSwap, IsSwapList
  <2>3. n \in 1 .. MostCommands
    BY <1>1, <1>4, <2>1, <2>2 DEF MostCommands, IsSwap, IsB2b
  <2>4. MoveDwords(command) = 7 * room /\ MoveDwordsEach = 7
    BY <1>4 DEF MoveDwords, MoveDwordsEach, IsSwap, SwapDwords
  <2> QED
    BY <2>3, <2>4 DEF i, n
<1>5. CASE input.collective \in {"ag_pcpy", "aa_pcpy"}
  <2> DEFINE Pick(m) == IF input.collective = "ag_pcpy" THEN (i + m) % c ELSE Peers(input, i)[m]
             list == [m \in 1 .. c - 1 |-> Command(EngineFor(input, i, Pick(m)), <<Pick(m)>>)]
  <2>1. List(i) = list
    BY <1>3, <1>5 DEF IsSwap, IsB2b, GpuCmds, AllgatherPcpyCmds, AlltoallPcpyCmds
  <2> HIDE DEF Pick
  <2>2. Len(list) = c - 1
    <3> DEFINE D == {list[m] : m \in 1 .. c - 1}
    <3>1. list \in [1 .. c - 1 -> D] /\ c - 1 \in Nat
      BY <1>2
    <3> HIDE DEF list, D
    <3> QED
      BY <3>1, FunctionIsSequence
  <2>3. n \in 1 .. c - 1
    BY <1>1, <1>2, <2>1, <2>2
  <2>4. command.dests = <<Pick(n)>>
    BY <2>1, <2>3 DEF Command
  <2>5. Len(command.dests) = 1
    BY <2>4
  <2>6. MoveDwords(command) = 1 * (7 * room) /\ MoveDwordsEach = 7
    BY <1>5, <2>5 DEF MoveDwords, MoveDwordsEach, IsSwap, IsB2b, Copies, CopyDwords
  <2>7. n \in 1 .. MostCommands
    BY <1>1, <1>5 DEF MostCommands, IsSwap, IsB2b, N
  <2> QED
    BY <2>6, <2>7 DEF i, n
<1>6. CASE input.collective \in {"ag_b2b", "aa_b2b"}
  <2> DEFINE p == Peers(input, i)
             w == input.ways
             list == [b \in 1 .. Batches(input) |-> Command(input.dma[b], SubSeq(p, (b - 1) * w + 1, Min({b * w, c - 1})))]
  <2>1. List(i) = list
    BY <1>3, <1>6 DEF IsSwap, IsB2b, GpuCmds, NwayB2bCmds
  <2>2. w \in Nat \ {0} /\ Batches(input) \in Nat
    <3>1. w \in Nat \ {0}
      BY <1>2, SessionAssumption
    <3>2. NodeCount(input) - 1 \in Nat
      BY <1>2
    <3> QED
      BY <3>1, <3>2, CeilDivNat DEF Batches
  <2>3. p \in Seq(Nat) /\ Len(p) = c - 1
    <3>1. p \in [1 .. c - 1 -> Nat] /\ c - 1 \in Nat
      BY <1>1, <1>2 DEF Peers, Gpus
    <3> HIDE DEF p
    <3> QED
      BY <3>1, FunctionIsSequence
  <2> HIDE DEF p, w
  <2>4. Len(list) = Batches(input)
    <3> DEFINE D == {list[m] : m \in 1 .. Batches(input)}
    <3>1. list \in [1 .. Batches(input) -> D]
      OBVIOUS
    <3> HIDE DEF list, D
    <3> QED
      BY <2>2, <3>1, FunctionIsSequence
  <2>5. n \in 1 .. Batches(input) /\ n \in Nat \ {0}
    BY <1>1, <2>1, <2>2, <2>4
  <2>6. command.dests = Slice(p, w, n)
    <3> DEFINE s == SubSeq(p, (n - 1) * w + 1, Min({n * w, c - 1}))
    <3>1. command = Command(input.dma[n], s)
      BY <2>1, <2>5
    <3>2. s = Slice(p, w, n)
      BY <2>3 DEF Slice
    <3> HIDE DEF s, command
    <3> QED
      BY <3>1, <3>2 DEF Command
  <2>7. Len(command.dests) \in 0 .. w
    BY <2>2, <2>3, <2>5, <2>6, SliceLength
  <2> DEFINE len == Len(command.dests)
  <2>8. MoveDwords(command) = len * (7 * room) /\ MoveDwordsEach = w * 7
    <3>1. ~IsSwap(input) /\ input.collective # "ag_bcst" /\ IsB2b(input)
      BY <1>6 DEF IsSwap, IsB2b
    <3>2. MoveDwords(command) = len * Copies(1) /\ MoveDwordsEach = w * CopyDwords(1)
      BY <3>1, Zenon DEF MoveDwords, MoveDwordsEach, w
    <3>3. CopyDwords(1) = 7 /\ Copies(1) = 7 * room
      BY DEF Copies, CopyDwords
    <3> QED
      BY <3>2, <3>3
  <2> HIDE DEF len, command
  <2>9. len * (7 * room) \in Nat /\ len * (7 * room) <= w * 7 * room
    <3>1. len \in Nat /\ len <= w /\ w \in Nat /\ 7 * room \in Nat
      BY <2>2, <2>7 DEF len
    <3> DEFINE r == 7 * room
    <3> HIDE DEF r
    <3>2. r * len \in Nat /\ r * len <= r * w /\ r * w \in Nat
      BY <3>1, ProductGrows DEF r
    <3>3. len * r = r * len /\ w * 7 * room = r * w
      BY <3>1 DEF r
    <3> QED
      BY <3>2, <3>3 DEF r
  <2>10. n \in 1 .. MostCommands
    BY <1>6, <2>5 DEF MostCommands, IsB2b
  <2> QED
    BY <2>8, <2>9, <2>10 DEF i, n, command
<1>7. CASE input.collective = "ag_bcst"
  <2>1. EnginesOf(input, i) # {}
    BY <1>2, <1>7 DEF PlanInv
  <2>2. List(i) = AllgatherBcstCmds(input, i)
    BY <1>3, <1>7 DEF IsSwap, IsB2b, GpuCmds
  <2>3. /\ XgmiEngines(2) \in SUBSET Nat /\ IsFiniteSet(XgmiEngines(2))
        /\ EnginesOf(input, i) \subseteq XgmiEngines(2)
    BY <1>2, <1>7, BroadcastEngines
  <2>4. Len(List(i)) \in Nat /\ \A m \in 1 .. Len(List(i)) : Len(List(i)[m].dests) \in 1 .. 2
    BY <1>2, <2>1, <2>2, <2>3, BcstShape
  <2>5. Len(command.dests) \in 1 .. 2
    BY <1>1, <2>4
  <2> DEFINE len == Len(command.dests)
  <2>6. MoveDwords(command) = (5 + 2 * len) * room /\ MoveDwordsEach = 9
    BY <1>7 DEF MoveDwords, MoveDwordsEach, IsSwap, IsB2b, Copies, CopyDwords
  <2> HIDE DEF command
  <2>7. len = 1 \/ len = 2
    BY <2>5
  <2> HIDE DEF len
  <2>8. MoveDwords(command) = 7 * room \/ MoveDwords(command) = 9 * room
    BY <2>6, <2>7
  <2>9. n \in 1 .. MostCommands
    BY <1>1, <1>7 DEF MostCommands, IsSwap, IsB2b, N
  <2> QED
    BY <2>6, <2>8, <2>9 DEF i, n, command
<1> QED
  BY <1>2, <1>4, <1>5, <1>6, <1>7 DEF Variants

\* The commands that go to one engine in an iteration.
LEMMA IterateFits ==
  ASSUME SizeInv, TableInv, PlanInv, Usable, pc \in Using, ~IsP2p, status = "ready",
         room \in Nat, room <= MostPackets, NEW q \in DOMAIN IterateDwords
  PROVE  IterateDwords[q] \in Nat /\ IterateDwords[q] <= LongestCommand * MostCommands
<1> DEFINE Dwords(x) == CommandDwords(List(x[1])[x[2]])
           T == OnEngine(q)
<1>1. /\ MostPackets \in Nat /\ MostCommands \in Nat /\ MoveDwordsEach \in Nat
      /\ LongestCommand \in Nat
  BY LongestNumbers
<1>2. ASSUME NEW x \in Issued PROVE Dwords(x) \in Nat /\ Dwords(x) <= LongestCommand
  <2> DEFINE m == MoveDwords(List(x[1])[x[2]])
  <2>1. m \in Nat /\ m <= MoveDwordsEach * room
    BY <1>2, CommandSizes
  <2>2. MoveDwordsEach * room \in Nat /\ MoveDwordsEach * MostPackets \in Nat
        /\ MoveDwordsEach * room <= MoveDwordsEach * MostPackets
    BY <1>1, ProductGrows
  <2>3. Dwords(x) = GateDwords + m + SyncDwords
    BY DEF CommandDwords
  <2>4. GateDwords \in 0 .. 6 /\ SyncDwords \in 0 .. 8
    BY DEF GateDwords, SyncDwords, PollDwords, FenceDwords, AtomicDwords
  <2>5. LongestCommand = 6 + MoveDwordsEach * MostPackets + 8
    BY DEF LongestCommand, PollDwords, AtomicDwords
  <2> HIDE DEF m, Dwords
  <2> QED
    BY <2>1, <2>2, <2>3, <2>4, <2>5
<1>3. T \subseteq Issued /\ IsFiniteSet(T) /\ Cardinality(T) \in Nat /\ Cardinality(T) <= MostCommands
  <2>1. PICK y \in Issued : q = XgmiQ(y[1], List(y[1])[y[2]].engine_id)
    BY DEF IterateDwords
  <2> DEFINE U == {y[1]} \X (1 .. MostCommands)
  <2>2. T \subseteq U
    <3> SUFFICES ASSUME NEW x \in Issued, XgmiQ(x[1], List(x[1])[x[2]].engine_id) = q
                 PROVE  x \in U
      BY DEF OnEngine
    <3>1. x[1] = y[1]
      BY <2>1 DEF XgmiQ
    <3>2. x[2] \in 1 .. MostCommands
      BY CommandSizes
    <3>3. x = <<x[1], x[2]>>
      BY DEF Issued
    <3> QED
      BY <3>1, <3>2, <3>3
  <2>3. IsFiniteSet(U) /\ Cardinality(U) = MostCommands
    <3>1. IsFiniteSet({y[1]}) /\ Cardinality({y[1]}) = 1
      BY FS_Singleton
    <3>2. IsFiniteSet(1 .. MostCommands) /\ Cardinality(1 .. MostCommands) = MostCommands
      BY <1>1, FS_Interval
    <3>3. IsFiniteSet(U) /\ Cardinality(U) = Cardinality({y[1]}) * Cardinality(1 .. MostCommands)
      BY <3>1, <3>2, FS_Product
    <3> QED
      BY <1>1, <3>1, <3>2, <3>3
  <2>4. T \subseteq Issued
    BY DEF OnEngine
  <2> HIDE DEF T, U
  <2> QED
    BY <2>2, <2>3, <2>4, FS_Subset, FS_CardinalityType
\* The fold over the set is a solution of the recursion for the sum.
<1> DEFINE d == [x \in T |-> Dwords(x)]
           Body(f) == [s \in SUBSET T |->
                         IF s = {} THEN 0
                         ELSE Dwords(CHOOSE x \in s : TRUE) + f[s \ {CHOOSE x \in s : TRUE}]]
           g == CHOOSE f : f = Body(f)
<1>4. IterateDwords[q] = g[T]
  <2>1. IterateDwords[q] = MapThenSumSet(LAMBDA x : CommandDwords(List(x[1])[x[2]]), OnEngine(q))
    BY DEF IterateDwords
  <2> QED
    BY <2>1 DEF MapThenSumSet, MapThenFoldSet
<1> HIDE DEF Dwords, T
<1>5. \A f : Body(f) = SumStep(T, d, f)
  <2> SUFFICES ASSUME NEW f PROVE Body(f) = SumStep(T, d, f)
    OBVIOUS
  <2>1. ASSUME NEW s \in SUBSET T, s # {}
        PROVE  /\ AnyOf(s) = (CHOOSE x \in s : TRUE)
               /\ d[AnyOf(s)] = Dwords(AnyOf(s))
    <3>1. AnyOf(s) \in s
      BY <2>1 DEF AnyOf
    <3>2. AnyOf(s) \in T
      BY <3>1
    <3> QED
      BY <3>2 DEF AnyOf
  <2> DEFINE Value(s) == IF s = {} THEN 0
                         ELSE Dwords(CHOOSE x \in s : TRUE) + f[s \ {CHOOSE x \in s : TRUE}]
             Sum(s) == IF s = {} THEN 0 ELSE d[AnyOf(s)] + f[s \ {AnyOf(s)}]
  <2> HIDE DEF d
  <2>2. ASSUME NEW s \in SUBSET T PROVE Value(s) = Sum(s)
    <3>1. Value(s) = IF s = {} THEN 0 ELSE Dwords(AnyOf(s)) + f[s \ {AnyOf(s)}]
      BY Zenon DEF AnyOf
    <3>2. s # {} => d[AnyOf(s)] = Dwords(AnyOf(s))
      BY <2>1
    <3> QED
      BY <3>1, <3>2
  <2>3. Body(f) = [s \in SUBSET T |-> Value(s)] /\ SumStep(T, d, f) = [s \in SUBSET T |-> Sum(s)]
    BY DEF SumStep
  <2> HIDE DEF Value, Sum, Body
  <2> QED
    BY <2>2, <2>3
<1>6. g = SumStep(T, d, g)
  <2>1. PICK f : f = SumStep(T, d, f)
    BY <1>3, SumExists
  <2> HIDE DEF Body, d
  <2>2. f = Body(f)
    BY <1>5, <2>1
  <2>3. g = Body(g)
    BY <2>2
  <2> QED
    BY <1>5, <2>3
<1>7. \A x \in T : d[x] \in Nat /\ d[x] <= LongestCommand
  BY <1>2, <1>3
<1> HIDE DEF d, g
<1>8. g[T] \in Nat /\ g[T] <= LongestCommand * Cardinality(T)
  BY <1>1, <1>3, <1>6, <1>7, SumBounded
<1>9. /\ LongestCommand * Cardinality(T) \in Nat /\ LongestCommand * MostCommands \in Nat
      /\ LongestCommand * Cardinality(T) <= LongestCommand * MostCommands
  BY <1>1, <1>3, ProductGrows
<1> QED
  BY <1>4, <1>8, <1>9

\* Every batch is within the bound of its queue.
LEMMA PlacedFits ==
  ASSUME SizeInv, TableInv, PlanInv, Usable, pc \in Sweeping, step \in 1 .. BatchesOfSize,
         room \in Nat, room <= MostPackets, NEW q \in DOMAIN Placed(BatchKind(step))
  PROVE  Placed(BatchKind(step))[q] \in Nat /\ Placed(BatchKind(step))[q] <= LongestBatch(q)
<1> DEFINE r == MostPackets
           dwords == Placed(BatchKind(step))[q]
<1>1. /\ N \in Nat \ {0} /\ input.numIter \in Nat
      /\ r \in Nat /\ LongestCpu \in Nat /\ LongestFill \in Nat /\ LongestMeasured \in Nat
  BY LongestNumbers
<1>2. 7 * room \in Nat /\ 7 * r \in Nat /\ 7 * room <= 7 * r
      /\ 5 * room \in Nat /\ 5 * r \in Nat /\ 5 * room <= 5 * r
  BY <1>1
<1>3. ASSUME q[1] = "cpu", dwords \in Nat, dwords <= LongestCpu PROVE dwords <= LongestBatch(q)
  BY <1>3 DEF LongestBatch
<1>4. ASSUME q[1] = "xgmi", dwords \in Nat, dwords <= LongestFill \/ dwords <= LongestMeasured
      PROVE  dwords <= LongestBatch(q)
  BY <1>1, <1>4 DEF LongestBatch
<1>5. CASE ~IsP2p
  <2>1. calibrated /\ status = "ready" /\ pc \in Using
    BY <1>5 DEF SizeInv, PlanInv, Sweeping, Using
  <2>2. BatchKind(step) \in {"fill", "iterate", "validate"}
    BY <1>5, <2>1 DEF BatchKind, CollectiveBatch
  <2>3. CASE BatchKind(step) = "fill"
    <3>1. Placed("fill") = [x \in {XgmiQ(i, 2) : i \in Rows(N)} |-> 2 * N * FillDwords * room + FenceDwords]
      BY DEF Placed
    <3>2. q[1] = "xgmi" /\ dwords = 2 * N * 5 * room + 4
      BY <2>3, <3>1 DEF XgmiQ, FillDwords, FenceDwords
    <3>3. LongestFill = (2 * N) * (5 * r) + 4
      BY <1>5 DEF LongestFill, FillDwords, FenceDwords
    <3> DEFINE n == 2 * N
               a == 5 * room
               b == 5 * r
    <3>4. n \in Nat /\ a \in Nat /\ b \in Nat /\ a <= b /\ 2 * N * 5 * room = n * a
      BY <1>1, <1>2
    <3> HIDE DEF n, a, b
    <3>5. n * a \in Nat /\ n * a <= n * b /\ n * b \in Nat
      BY <3>4, ProductGrows
    <3>6. dwords \in Nat /\ dwords <= LongestFill
      BY <3>2, <3>3, <3>4, <3>5 DEF n, b
    <3> QED
      BY <1>4, <3>2, <3>6
  <2>4. CASE BatchKind(step) = "iterate"
    <3>1. Placed("iterate") = IterateDwords
      BY DEF Placed
    <3>2. q \in DOMAIN IterateDwords
      BY <2>4, <3>1
    <3>3. IterateDwords[q] \in Nat /\ IterateDwords[q] <= LongestCommand * MostCommands
      BY <1>5, <2>1, <3>2, IterateFits
    <3>4. LongestMeasured = LongestCommand * MostCommands
      BY <1>5 DEF LongestMeasured
    <3>5. q[1] = "xgmi"
      BY <3>2 DEF IterateDwords, XgmiQ
    <3>6. dwords = IterateDwords[q]
      BY <2>4, <3>1
    <3> QED
      BY <1>4, <3>3, <3>4, <3>5, <3>6
  <2>5. CASE BatchKind(step) = "validate"
    <3>1. Placed("validate") = [x \in {CpuQ(i, 0) : i \in Rows(N) \ {0}} |-> N * Copies(1) + FenceDwords]
      BY DEF Placed
    <3>2. q[1] = "cpu" /\ dwords = N * (7 * room) + 4
      BY <2>5, <3>1 DEF CpuQ, Copies, CopyDwords, FenceDwords
    <3>3. LongestCpu = N * (7 * r) + 4
      BY <1>5 DEF LongestCpu, CopyDwords, FenceDwords
    <3> DEFINE a == 7 * room
               b == 7 * r
    <3>4. a \in Nat /\ b \in Nat /\ a <= b
      BY <1>2
    <3> HIDE DEF a, b
    <3>5. N * a \in Nat /\ N * a <= N * b /\ N * b \in Nat
      BY <1>1, <3>4, ProductGrows
    <3>6. dwords \in Nat /\ dwords <= LongestCpu
      BY <3>2, <3>3, <3>5 DEF a, b
    <3> QED
      BY <1>3, <3>2, <3>6
  <2> QED
    BY <2>2, <2>3, <2>4, <2>5
<1>6. CASE IsP2p
  <2>1. BatchKind(step) \in {"fills", "overhead", "readback", "copy", "stamped",
                             "calibrateFill", "calibrateCopy"}
    <3>1. CASE calibrated
      BY <1>6, <3>1 DEF BatchKind, P2pBatch
    <3>2. CASE ~calibrated
      <4>1. step = 1 \/ step = 2
        BY <3>2 DEF BatchesOfSize
      <4> QED
        BY <3>2, <4>1 DEF BatchKind
    <3> QED
      BY <3>1, <3>2
  <2>2. /\ LongestCpu = 7 * r + 8
        /\ LongestFill = input.numIter * (5 * r) + 8
        /\ LongestMeasured = 6 + 7 * r + 8 + 12
    BY <1>6 DEF LongestCpu, LongestFill, LongestMeasured, CopyDwords, FillDwords, AtomicDwords,
                PollDwords, TimeDwords
  <2>3. GateDwords \in {0, 6} /\ Copies(1) = 7 * room
    BY DEF GateDwords, PollDwords, Copies, CopyDwords
  <2>4. /\ DOMAIN Placed("fills") = {Src, Dest}
        /\ \A x \in {Src, Dest} : Placed("fills")[x] = input.numIter * 5 * room + 8
    BY DEF Placed, FillDwords, AtomicDwords
  <2>5. /\ DOMAIN Placed("readback") = {CpuQ(1, 0)}
        /\ Placed("readback")[CpuQ(1, 0)] = Copies(1) + 8
    BY DEF Placed, AtomicDwords
  <2>6. /\ DOMAIN Placed("overhead") = {Src} /\ Placed("overhead")[Src] = 17
        /\ DOMAIN Placed("copy") = {Src} /\ Placed("copy")[Src] = GateDwords + Copies(1) + 8
    BY DEF Placed, AtomicDwords, TimeDwords
  <2>7. /\ DOMAIN Placed("stamped") = {Src}
        /\ \E n \in {9, 12} : Placed("stamped")[Src] = GateDwords + Copies(1) + 8 + n
    BY DEF Placed, AtomicDwords, TimeDwords
  <2>8. /\ DOMAIN Placed("calibrateFill") = {Src} /\ Placed("calibrateFill")[Src] = 5 * room + 8
        /\ DOMAIN Placed("calibrateCopy") = {Src} /\ Placed("calibrateCopy")[Src] = Copies(1) + 8 + 6
    BY DEF Placed, AtomicDwords, TimeDwords, FillDwords
  <2>9. Src[1] = "xgmi" /\ Dest[1] = "xgmi" /\ CpuQ(1, 0)[1] = "cpu"
    BY DEF Src, Dest, XgmiQ, CpuQ
  <2>10. CASE BatchKind(step) = "fills"
    <3>1. q \in {Src, Dest} /\ dwords = input.numIter * 5 * room + 8
      BY <2>4, <2>10
    <3> DEFINE n == input.numIter
               a == 5 * room
               b == 5 * r
    <3>2. n \in Nat /\ a \in Nat /\ b \in Nat /\ a <= b /\ input.numIter * 5 * room = n * a
      BY <1>1, <1>2
    <3> HIDE DEF n, a, b
    <3>3. n * a \in Nat /\ n * a <= n * b /\ n * b \in Nat
      BY <3>2, ProductGrows
    <3>4. dwords \in Nat /\ dwords <= LongestFill
      BY <2>2, <3>1, <3>2, <3>3 DEF n, b
    <3> QED
      BY <1>4, <2>9, <3>1, <3>4
  <2>11. CASE BatchKind(step) = "readback"
    <3>1. q = CpuQ(1, 0) /\ dwords = 7 * room + 8
      BY <2>3, <2>5, <2>11
    <3>2. dwords \in Nat /\ dwords <= LongestCpu
      BY <1>1, <1>2, <2>2, <3>1
    <3> QED
      BY <1>3, <2>9, <3>1, <3>2
  <2>12. CASE BatchKind(step) \in {"overhead", "copy", "stamped", "calibrateFill", "calibrateCopy"}
    <3>1. q = Src
      BY <2>6, <2>7, <2>8, <2>12
    <3>2. dwords \in Nat /\ dwords <= 6 + 7 * room + 8 + 12
      BY <1>2, <2>3, <2>6, <2>7, <2>8, <2>12, <3>1
    <3>3. dwords <= LongestMeasured
      BY <1>1, <1>2, <2>2, <3>2
    <3> QED
      BY <1>4, <2>9, <3>1, <3>2, <3>3
  <2> QED
    BY <2>1, <2>10, <2>11, <2>12
<1> QED
  BY <1>5, <1>6

\* The packets of a size are no more than those of the largest; what is on its
\* way and what was before it are within the bounds of their queues.
FitInv ==
    /\ pc \in {"run", "wait"} => room \in Nat /\ room <= MostPackets
    /\ Usable =>
         /\ \A q \in DOMAIN batch : batch[q] \in Nat /\ batch[q] <= LongestBatch(q)
         /\ \A q \in DOMAIN drained : drained[q] \in Nat /\ drained[q] <= LongestBatch(q)

\* Every step of a session keeps it.
LEMMA StepKeepsFit ==
  ASSUME SessionInv, TableInv, PlanInv, BatchInv, FitInv, SessionNext
  PROVE  FitInv'
<1>1. input' = input
  BY DEF SessionNext, OpenMap, SetUp, SetUpFails, InitializeSkips, InitializeExits, CreateQueues, Dispatch,
         Plan, Next, Skip, Crash, Build, Allocate, AllocateFails, ConstructPacket, Submit, Wait, Finish,
         SweepDone, DestroyQueues, TearDown, Destruct, planVars
<1>2. /\ MostPackets' = MostPackets /\ Usable' = Usable /\ IsP2p' = IsP2p /\ N' = N
      /\ CalibrationSize' = CalibrationSize
  BY <1>1 DEF MostPackets, RoomFor, MostBytes, CalibrationSize, Share, Usable, ListServes, EnginesServe,
              MapServes, IsP2p, N, XgmiEngines, Rows, Max
<1>3. \A q : LongestBatch(q)' = LongestBatch(q)
  BY <1>1, <1>2 DEF LongestBatch, LongestCpu, LongestFill, LongestMeasured, LongestCommand, MostCommands,
                    MoveDwordsEach
<1>4. ASSUME batch' = batch, drained' = drained,
             pc' \in {"run", "wait"} => room' \in Nat /\ room' <= MostPackets
      PROVE  FitInv'
  BY <1>2, <1>3, <1>4 DEF FitInv
<1>5. CASE \/ OpenMap \/ SetUp \/ SetUpFails \/ InitializeSkips \/ InitializeExits \/ CreateQueues
           \/ Dispatch \/ Plan \/ AllocateFails \/ Finish \/ SweepDone \/ DestroyQueues \/ TearDown \/ Destruct
  <2>1. batch' = batch /\ drained' = drained
    BY <1>5 DEF OpenMap, SetUp, SetUpFails, InitializeSkips, InitializeExits, CreateQueues, Dispatch,
                Plan, AllocateFails, Finish, SweepDone, DestroyQueues, TearDown, Destruct, batchVars
  <2>2. pc' \notin {"run", "wait"}
    <3>1. CASE Plan
      <4>1. /\ status' \in {"building", "ready", "skipped", "crashed"}
            /\ pc' = [building |-> "plan", ready |-> "sweep",
                      skipped |-> "teardown", crashed |-> "crashed"][status']
        BY <3>1 DEF Plan, Next, Skip, Crash, Build
      <4> QED
        BY <4>1
    <3> QED
      BY <1>5, <3>1 DEF OpenMap, SetUp, SetUpFails, InitializeSkips, InitializeExits, CreateQueues,
                        Dispatch, AllocateFails, Finish, SweepDone, DestroyQueues, TearDown, Destruct, Goto
  <2> QED
    BY <1>4, <2>1, <2>2
<1>6. CASE Allocate
  <2>1. /\ batch' = batch /\ drained' = drained /\ pc = "sweep" /\ InSweep
        /\ pc' = "crashed" \/ room' = RoomFor(size % Word)
    BY <1>6 DEF Allocate, Construct
  <2>2. /\ MostBytes \in 0 .. Word - Gig /\ Share(input.maxSize) <= MostBytes
        /\ IsP2p => CalibrationSize <= MostBytes
        /\ Share(input.maxSize) \in Nat /\ CalibrationSize \in Nat
    BY LongestNumbers, ShareInRange, CalibrationInRange DEF SessionInv
  <2>3. size \in Nat /\ size <= MostBytes
    <3>1. size \in Nat /\ (calibrated \/ (IsP2p /\ size = CalibrationSize))
      BY <2>1 DEF SessionInv, SizeInv, Sweeping
    <3>2. Word - Gig \in Int
      BY SplitAssumption
    <3> QED
      BY <2>1, <2>2, <3>1, <3>2 DEF InSweep
  <2>4. size \in 0 .. Word - Gig
    <3>1. Word - Gig \in Int
      BY SplitAssumption
    <3> QED
      BY <2>2, <2>3, <3>1
  <2>5. pc' = "crashed" \/ (room' \in Nat /\ room' <= MostPackets)
    BY <2>1, <2>2, <2>3, <2>4, RoomGrows DEF MostPackets
  <2> QED
    BY <1>4, <2>1, <2>5
<1>7. CASE ConstructPacket
  <2>1. batch' = batch /\ drained' = drained /\ pc = "run" /\ room' = room
    BY <1>7 DEF ConstructPacket, Goto, WritePacket, batchVars
  <2> QED
    BY <1>4, <2>1 DEF FitInv
<1>8. CASE Submit
  <2>1. /\ pc = "run" /\ room' = room /\ drained' = drained
        /\ step <= BatchesOfSize /\ batch' \in {batch, Placed(BatchKind(step))}
    BY <1>8 DEF Submit, splitVars
  <2>2. room \in Nat /\ room <= MostPackets
    BY <2>1 DEF FitInv
  <2>3. step \in 1 .. BatchesOfSize /\ pc \in Sweeping
    BY <2>1, BatchCounts DEF BatchInv, Sweeping, SessionInv, SizeInv
  <2>4. ASSUME Usable, NEW q \in DOMAIN batch'
        PROVE  batch'[q] \in Nat /\ batch'[q] <= LongestBatch(q)
    <3>1. CASE batch' = batch
      BY <2>4, <3>1 DEF FitInv
    <3>2. CASE batch' = Placed(BatchKind(step))
      BY <2>2, <2>3, <2>4, <3>2, PlacedFits DEF SessionInv
    <3> QED
      BY <2>1, <3>1, <3>2
  <2> QED
    BY <1>2, <1>3, <2>1, <2>2, <2>4 DEF FitInv
<1>9. CASE Wait
  <2>1. /\ pc = "wait" /\ room' = room /\ batch' = Empty
        /\ drained' = [q \in DOMAIN batch \cup DOMAIN drained |->
                         IF q \in DOMAIN batch THEN batch[q] ELSE drained[q]]
    BY <1>9 DEF Wait, splitVars
  <2>2. room' \in Nat /\ room' <= MostPackets
    BY <2>1 DEF FitInv
  <2>3. DOMAIN batch' = {}
    BY <2>1 DEF Empty
  <2>4. ASSUME Usable, NEW q \in DOMAIN drained'
        PROVE  drained'[q] \in Nat /\ drained'[q] <= LongestBatch(q)
    BY <2>1, <2>4 DEF FitInv
  <2> QED
    BY <1>2, <1>3, <2>2, <2>3, <2>4 DEF FitInv
<1> QED
  BY <1>5, <1>6, <1>7, <1>8, <1>9 DEF SessionNext

\* A batch fits its ring behind the batch before it, on any number of GPUs, in
\* sweeps over any sizes, if the rings hold two of the longest batches.
THEOREM SessionBatchesFit == SessionSpec => [](Usable /\ Roomy => BatchFits)
<1>1. SessionInit => FitInv
  <2> SUFFICES ASSUME SessionInit PROVE FitInv
    OBVIOUS
  <2>1. pc = "start" /\ batch = Empty /\ drained = Empty
    BY DEF SessionInit
  <2>2. DOMAIN Empty = {}
    BY DEF Empty
  <2> QED
    BY <2>1, <2>2 DEF FitInv
<1>2. FullInv /\ FitInv /\ [SessionNext]_sessionVars => FitInv'
  <2> SUFFICES ASSUME FullInv, FitInv, [SessionNext]_sessionVars PROVE FitInv'
    OBVIOUS
  <2>1. CASE SessionNext
    BY <2>1, StepKeepsFit DEF FullInv
  <2>2. CASE UNCHANGED sessionVars
    <3>1. input' = input /\ pc' = pc /\ room' = room /\ batch' = batch /\ drained' = drained
      BY <2>2 DEF sessionVars, planVars, splitVars, batchVars
    <3>2. /\ MostPackets' = MostPackets /\ Usable' = Usable /\ IsP2p' = IsP2p /\ N' = N
      BY <3>1 DEF MostPackets, RoomFor, MostBytes, CalibrationSize, Share, Usable, ListServes,
                  EnginesServe, MapServes, IsP2p, N, XgmiEngines, Rows, Max
    <3>3. \A q : LongestBatch(q)' = LongestBatch(q)
      BY <3>1, <3>2 DEF LongestBatch, LongestCpu, LongestFill, LongestMeasured, LongestCommand,
                        MostCommands, MoveDwordsEach
    <3> QED
      BY <3>1, <3>2, <3>3 DEF FitInv
  <2> QED
    BY <2>1, <2>2
<1>3. FullInv /\ FitInv => (Usable /\ Roomy => BatchFits)
  <2> SUFFICES ASSUME FullInv, FitInv, Usable, Roomy, NEW q \in DOMAIN batch
               PROVE  (IF q \in DOMAIN drained THEN drained[q] ELSE 0) + batch[q] + MaxPacket <= Capacity(q)
    BY DEF BatchFits
  <2>1. pc = "wait" /\ q[1] \in {"cpu", "xgmi"}
    <3>1. BatchInv
      BY DEF FullInv
    <3>2. pc = "wait"
      BY <3>1 DEF BatchInv, Empty
    <3> QED
      BY <3>1, <3>2 DEF BatchInv
  <2>2. SizeInv
    BY DEF FullInv, SessionInv
  <2>3. /\ MostPackets \in Nat /\ room \in Nat /\ room <= MostPackets
        /\ LongestCpu \in Nat /\ LongestFill \in Nat /\ LongestMeasured \in Nat
    BY <2>1, <2>2, LongestNumbers DEF FitInv
  <2>4. LongestBatch(q) \in Nat
    BY <2>3 DEF LongestBatch
  <2>5. MaxPacket \in Nat /\ MaxPacket <= LongestPacket /\ LongestPacket \in Nat
    <3> DEFINE a == 9 * room
               b == 9 * MostPackets
    <3>1. a \in Nat /\ b \in Nat /\ a <= b
      BY <2>3
    <3>2. MaxPacket = Max({a, 8}) /\ LongestPacket = Max({b, 8})
      BY DEF MaxPacket, LongestPacket, Copies, CopyDwords, AtomicDwords
    <3> HIDE DEF a, b
    <3>3. Max({a, 8}) = (IF a <= 8 THEN 8 ELSE a) /\ Max({b, 8}) = (IF b <= 8 THEN 8 ELSE b)
      BY <3>1, MaxOfTwo
    <3> QED
      BY <3>1, <3>2, <3>3
  <2>6. 2 * LongestBatch(q) + LongestPacket <= Capacity(q)
    <3>1. CpuQ(0, 0)[1] = "cpu" /\ Src[1] = "xgmi"
      BY DEF CpuQ, Src, XgmiQ
    <3>2. CASE q[1] = "cpu"
      <4>1. LongestBatch(q) = LongestBatch(CpuQ(0, 0)) /\ Capacity(q) = Capacity(CpuQ(0, 0))
        BY <3>1, <3>2 DEF LongestBatch, Capacity
      <4> QED
        BY <4>1 DEF Roomy
    <3>3. CASE q[1] = "xgmi"
      <4>1. LongestBatch(q) = LongestBatch(Src) /\ Capacity(q) = Capacity(Src)
        BY <3>1, <3>3 DEF LongestBatch, Capacity
      <4> QED
        BY <4>1 DEF Roomy
    <3> QED
      BY <2>1, <3>2, <3>3
  <2>7. Capacity(q) \in Nat
    <3>1. input \in Inputs
      BY <2>2 DEF SizeInv
    <3> QED
      BY <3>1, SessionAssumption DEF Capacity
  <2>8. batch[q] \in Nat /\ batch[q] <= LongestBatch(q)
    BY DEF FitInv
  <2> DEFINE before == IF q \in DOMAIN drained THEN drained[q] ELSE 0
  <2>9. before \in Nat /\ before <= LongestBatch(q)
    BY <2>4 DEF FitInv
  <2> HIDE DEF before
  <2>10. before + batch[q] + MaxPacket <= Capacity(q)
    BY <2>4, <2>5, <2>6, <2>7, <2>8, <2>9
  <2> QED
    BY <2>10 DEF before
<1> QED
  BY <1>1, <1>2, <1>3, SessionFullInvariant, PTL DEF SessionSpec

\* The machines there are: eight GPUs at most, and rings of 4 KB at least, with
\* a packet limit of at least a quarter of what a word counts, as in the code
\* (1 GiB of 4 GiB).  What else a batch grows with is bounded as well.
SmallMachine ==
    /\ N <= 8 /\ Word <= 4 * Gig
    /\ CpuQueue >= 1024 /\ SmallQueue >= 1024 /\ BigQueue >= 1024
    /\ IsB2b(input) => input.ways <= 8
    /\ IsP2p => input.numIter <= 32

\* There the smallest rings are large enough.
LEMMA SmallMachineRoomy ==
  ASSUME SizeInv, SmallMachine
  PROVE  Roomy
<1> DEFINE P == MostPackets
           C == MostCommands
           w == input.ways
<1>1. /\ N \in Nat \ {0} /\ N <= 8 /\ input.numIter \in Nat /\ w \in Nat \ {0} /\ P \in Nat /\ C \in Nat
      /\ MostBytes \in 0 .. Word - Gig
      /\ LongestCpu \in Nat /\ LongestFill \in Nat /\ LongestMeasured \in Nat
  BY LongestNumbers DEF SmallMachine
<1>2. input \in Inputs /\ N = NodeCount(input)
  BY DEF SizeInv, N
<1>3. P <= 3
  <2> DEFINE a == MostBytes + Gig - 1
             q == a \div Gig
  <2>1. Gig \in Nat \ {0} /\ Word \in Nat /\ Word <= 4 * Gig
    BY SplitAssumption DEF SmallMachine
  <2>2. a \in Nat /\ a <= Word - 1 /\ a % Word = a
    BY <1>1, <2>1
  <2>3. P = q
    BY <2>2 DEF MostPackets, RoomFor
  <2> HIDE DEF a, P
  <2>4. q \in Int /\ Gig * q <= a
    BY <2>1, <2>2
  <2> HIDE DEF q
  <2>5. ASSUME q >= 4 PROVE FALSE
    <3>1. Gig * q >= Gig * 4
      BY <2>1, <2>4, <2>5
    <3> QED
      BY <2>1, <2>2, <2>4, <3>1
  <2> QED
    BY <2>3, <2>4, <2>5
<1> HIDE DEF P, C, w
\* The commands of an iteration.
<1>4. ~IsP2p => LongestCommand * C <= 448
  <2>1. LongestCommand = 14 + MoveDwordsEach * P
    <3> DEFINE y == MoveDwordsEach * P
    <3>1. y \in Nat
      BY <1>1, LongestNumbers
    <3>2. LongestCommand = 6 + y + 8
      BY DEF LongestCommand, PollDwords, AtomicDwords, P
    <3> HIDE DEF y
    <3>3. LongestCommand = 14 + y
      BY <3>1, <3>2
    <3> QED
      BY <3>3 DEF y
  <2>2. CASE IsSwap(input)
    <3>1. ~IsB2b(input) /\ MoveDwordsEach = 7
      BY <2>2 DEF IsSwap, IsB2b, MoveDwordsEach, SwapDwords
    <3>2. C <= 8
      BY <1>1, <1>2, <2>2, <3>1, HalfOfGpus DEF C, MostCommands
    <3>3. 7 * P <= 21 /\ 14 + 7 * P \in 0 .. 35
      BY <1>1, <1>3
    <3> DEFINE l == 14 + 7 * P
    <3>5. LongestCommand = l
      BY <2>1, <3>1
    <3> HIDE DEF l
    <3>4. l * C \in Nat /\ l * C <= 280
      <4>1. l \in 0 .. 35 /\ C \in 0 .. 8
        BY <1>1, <3>2, <3>3 DEF l
      <4>2. l * C <= l * 8
        BY <4>1, ProductGrows
      <4> QED
        BY <4>1, <4>2
    <3> DEFINE d == LongestCommand * C
    <3>6. d = l * C
      BY <3>5
    <3> HIDE DEF d
    <3>7. d <= 448
      BY <3>4, <3>6
    <3> QED
      BY <3>7 DEF d
  <2>3. CASE ~IsSwap(input) /\ ~IsB2b(input)
    <3>1. C = N /\ MoveDwordsEach \in {7, 9}
      BY <2>3 DEF C, MostCommands, MoveDwordsEach, CopyDwords
    <3> DEFINE l == 14 + MoveDwordsEach * P
    <3>2. l \in 0 .. 41 /\ LongestCommand = l
      BY <1>1, <1>3, <2>1, <3>1
    <3> HIDE DEF l
    <3>3. l * N <= l * 8
      BY <1>1, <3>2, ProductGrows
    <3> DEFINE d == LongestCommand * C
    <3>4. d = l * N
      BY <3>1, <3>2
    <3> HIDE DEF d
    <3>5. d <= 448
      BY <1>1, <3>2, <3>3, <3>4
    <3> QED
      BY <3>5 DEF d
  <2>4. CASE IsB2b(input)
    <3>1. /\ C = Batches(input) /\ MoveDwordsEach = w * 7 /\ w <= 8
      BY <2>4 DEF C, w, MostCommands, MoveDwordsEach, CopyDwords, IsSwap, IsB2b, SmallMachine
    <3>2. C <= 7
      <4>1. NodeCount(input) - 1 \in Nat /\ NodeCount(input) - 1 <= 7 /\ 7 * w >= 7
        BY <1>1, <1>2 DEF w
      <4>2. 7 * w >= NodeCount(input) - 1 /\ w \in Nat \ {0}
        BY <1>1, <4>1 DEF w
      <4> QED
        BY <3>1, <4>1, <4>2, CeilDivAtMost DEF Batches, w
    <3>3. w * C <= 14
      <4> DEFINE a == NodeCount(input) - 1
                 b == a + w - 1
                 q == b \div w
      <4>1. a \in Nat /\ a <= 7 /\ w \in Nat \ {0} /\ w <= 8
        BY <1>1, <1>2, <3>1 DEF w
      <4>2. C = q
        BY <3>1 DEF Batches, CeilDiv, w
      <4> HIDE DEF a
      <4>3. b \in Nat /\ b <= 14
        BY <4>1
      <4> HIDE DEF b
      <4>4. w * q <= b
        BY <4>1, <4>3
      <4> HIDE DEF q
      <4> QED
        BY <1>1, <4>1, <4>2, <4>3, <4>4
    <3> DEFINE x == w * C
    <3>4. (14 + (w * 7) * P) * C = 14 * C + 7 * (P * x)
      BY <1>1 DEF w
    <3>5. x \in Nat /\ x <= 14
      BY <1>1, <3>3 DEF w
    <3> HIDE DEF x
    <3>6. P * x <= 3 * 14 /\ P * x \in Nat
      <4>1. P * x <= P * 14 /\ P * x \in Nat
        BY <1>1, <3>5, ProductGrows
      <4> QED
        BY <1>1, <1>3, <4>1
    <3>7. 14 * C + 7 * (P * x) <= 392
      BY <1>1, <3>2, <3>6
    <3>8. LongestCommand * C = (14 + (w * 7) * P) * C
      BY <2>1, <3>1
    <3> DEFINE l == LongestCommand * C
    <3>9. l = 14 * C + 7 * (P * x)
      BY <3>4, <3>8 DEF x
    <3> HIDE DEF l
    <3>10. l <= 392 /\ l \in Nat
      BY <1>1, <3>6, <3>7, <3>9
    <3>11. l <= 448
      BY <3>10
    <3> QED
      BY <3>11 DEF l
  <2> QED
    BY <2>2, <2>3, <2>4
<1>5. LongestCpu <= 448
  <2>1. CASE IsP2p
    BY <1>1, <1>3, <2>1 DEF LongestCpu, CopyDwords, AtomicDwords, P
  <2>2. CASE ~IsP2p
    <3> DEFINE y == 7 * P
    <3>1. y \in 0 .. 21 /\ LongestCpu = N * y + 4
      BY <1>1, <1>3, <2>2 DEF LongestCpu, CopyDwords, FenceDwords, P
    <3> HIDE DEF y
    <3>2. N * y <= N * 21
      BY <1>1, <3>1, ProductGrows
    <3> QED
      BY <1>1, <3>1, <3>2
  <2> QED
    BY <2>1, <2>2
<1>6. LongestFill <= 488
  <2> DEFINE y == 5 * P
             k == IF IsP2p THEN input.numIter ELSE 2 * N
  <2>1. y \in 0 .. 15 /\ k \in 0 .. 32
    BY <1>1, <1>3 DEF SmallMachine
  <2>2. LongestFill = k * y + (IF IsP2p THEN 8 ELSE 4)
    BY DEF LongestFill, FillDwords, AtomicDwords, FenceDwords, P
  <2> HIDE DEF y, k
  <2>3. k * y <= k * 15 /\ k * y \in Nat
    BY <2>1, ProductGrows
  <2> QED
    BY <2>1, <2>2, <2>3
<1>7. LongestMeasured <= 448
  <2>1. CASE IsP2p
    BY <1>1, <1>3, <2>1 DEF LongestMeasured, CopyDwords, PollDwords, AtomicDwords, TimeDwords, P
  <2>2. CASE ~IsP2p
    BY <1>4, <2>2 DEF LongestMeasured, C
  <2> QED
    BY <2>1, <2>2
<1>8. LongestPacket \in Nat /\ LongestPacket <= 27
  <2> DEFINE b == 9 * P
  <2>1. b \in 0 .. 27
    BY <1>1, <1>3
  <2>2. LongestPacket = Max({b, 8})
    BY DEF LongestPacket, CopyDwords, AtomicDwords, P
  <2> HIDE DEF b
  <2>3. Max({b, 8}) = IF b <= 8 THEN 8 ELSE b
    BY <2>1, MaxOfTwo
  <2> QED
    BY <2>1, <2>2, <2>3
<1>9. ASSUME NEW q PROVE LongestBatch(q) \in 0 .. 488 /\ Capacity(q) >= 1024 /\ Capacity(q) \in Nat
  <2>1. LongestBatch(q) \in 0 .. 488
    BY <1>1, <1>5, <1>6, <1>7 DEF LongestBatch
  <2>2. Capacity(q) \in {CpuQueue, SmallQueue, BigQueue}
    BY DEF Capacity
  <2> QED
    BY <2>1, <2>2, SessionAssumption DEF SmallMachine
<1> QED
  BY <1>8, <1>9 DEF Roomy

\* On the machines there are no batch overruns its ring, even with the smallest
\* rings: collectives whatever NUM_ITER, the benchmark up to 32 iterations.
THEOREM SessionFitsSmallRings == SessionSpec => [](Usable /\ SmallMachine => BatchFits)
<1>1. FullInv /\ SmallMachine => Roomy
  BY SmallMachineRoomy DEF FullInv, SessionInv
<1> QED
  BY <1>1, SessionBatchesFit, SessionFullInvariant, PTL

=============================================================================
