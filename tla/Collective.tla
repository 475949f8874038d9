----------------------------- MODULE Collective -----------------------------
(***************************************************************************)
(* One run of a collective: the CPU thread of sdmaCollective sweeping over *)
(* sizes (allocate, fill, iterate, validate, free), and the SDMA engines   *)
(* of all GPUs executing what it submits, each engine in the order of its  *)
(* own queue and at its own pace.  They meet in the signal buffers and in  *)
(* the GPU buffers only.                                                   *)
(*                                                                         *)
(* The six collectives share this structure and differ in their command    *)
(* lists and in the copies a command makes; a plan (see CollectivePlans    *)
(* and CommandPlan) says which collective runs.  A queue is                *)
(* the FIFO that module SDMARing implements: packets become visible to the *)
(* engine in one piece when SubmitPacket rings the doorbell.               *)
(*                                                                         *)
(* A definition marked `variant' is not part of the model: it is the next  *)
(* one with a plausible slip, and some property below rejects it (README,  *)
(* section Variants).                                                      *)
(***************************************************************************)
EXTENDS CollectivePlans

CONSTANTS NumNodes,     \* numNodes
          NumIter,      \* num_iter
          NumSizes,     \* sizes in the sweep from minSize to maxSize
          Plans,        \* the plans to run, see IsPlan
          SyncTypes,    \* the values of SYNC_TYPE considered
          TriggerModes, \* <<poll, multi_poll>> pairs considered
          EngineIds,    \* engines of one GPU
          FillEngine,   \* sdma_id in fillMem
          SignalSlots,  \* slots of one signal buffer
          Half          \* 2^32: a signal is two words of this many values

Gpus  == 0 .. NumNodes - 1
Iters == 0 .. NumIter - 1
Slots == 0 .. SignalSlots - 1
Engines == Gpus \X EngineIds
CpuEngine == 0          \* sdma_id in validateMem

\* A plan for these GPUs and engines, with room for its signals.
IsPlan(p) ==
    /\ p.op \in {"ag", "aa", "swap"}
    /\ p.num_cmds \in Nat
    /\ p.done_target \in Nat
    /\ p.total_transfers \in Nat
    /\ p.weighted \in BOOLEAN
    /\ p.cmds \in [Gpus -> Seq([engine_id : EngineIds \ {CpuEngine}, dests : Seq(Gpus)])]
    /\ \A i \in Gpus : Len(p.cmds[i]) <= p.num_cmds
    /\ 2 * NumNodes * p.num_cmds < SignalSlots

ASSUME CollectiveAssumption ==
    /\ NumNodes \in Nat \ {0}
    /\ NumIter \in Nat \ {0}
    /\ NumSizes \in Nat \ {0}
    /\ \A p \in Plans : IsPlan(p)
    /\ SyncTypes \subseteq 0 .. 2
    /\ TriggerModes \subseteq BOOLEAN \X BOOLEAN
    /\ CpuEngine \in EngineIds /\ FillEngine \in EngineIds \ {CpuEngine}
    /\ SignalSlots \in Nat /\ NumNodes * NumNodes <= SignalSlots
    /\ Half \in Nat /\ Half > 1

VARIABLES env,          \* the environment variables: plan, sync, poll, multi
          pc,           \* where the CPU thread is
          size,         \* sizes done so far
          iter, gpu, cmd, \* loop counters of the CPU thread
          scan,         \* next slot the spin loop (or the trigger loop) visits
          dest_done,    \* slots the spin loop has counted
          done,         \* its count
          t_index,      \* next entry of `times'
          queue,        \* submitted packets each engine has not yet executed
          mem,          \* GPU input and output buffers, system buffers
          signal,       \* signalMem
          live          \* allocations not yet freed, per kind of buffer

cpuVars == <<env, pc, size, iter, gpu, cmd, scan, dest_done, done, t_index, live>>
vars == <<env, pc, size, iter, gpu, cmd, scan, dest_done, done, t_index,
          queue, mem, signal, live>>

Plan    == env.plan
NumCmds == Plan.num_cmds
List(i) == Plan.cmds[i]

-----------------------------------------------------------------------------
(* Memory.  A chunk is the unit of every packet; its content matters only   *)
(* through the fill pattern it carries.                                     *)

In(it, i, j)  == <<"in", it, i, j>>     \* gpuBufs[i][it][j]
Out(it, i, j) == <<"out", it, i, j>>    \* gpuOutBufs[i][it][j]
Sys(i, j)     == <<"sys", 0, i, j>>     \* sysBufs[i][0][j]
Address == ({"in", "out"} \X Iters \X Gpus \X Gpus) \cup ({"sys"} \X {0} \X Gpus \X Gpus)

Junk    == -1                           \* what fresh GPU memory holds
PatternFrom1(i, j) == i * NumNodes + j + 1      \* variant
Pattern(i, j) == i * NumNodes + j
Value   == {Junk} \cup 0 .. NumNodes * NumNodes - 1

InPlace == Plan.op # "aa"               \* which buffer validateMem reads back
Result(it, i, j) == IF InPlace THEN In(it, i, j) ELSE Out(it, i, j)
ExpectedTransposed(i, j) == IF Plan.op = "ag" THEN Pattern(i, j) ELSE Pattern(j, i) \* variant
Expected(i, j)   == IF Plan.op = "ag" THEN Pattern(j, j) ELSE Pattern(j, i)

BufferKinds == {"sys", "in", "out", "signal"}

-----------------------------------------------------------------------------
(* Signals are 64-bit words the CPU reads whole; fences and polls see one   *)
(* 32-bit half.                                                             *)

LowHalf(v)   == v % Half
ClearLow(v)  == v - LowHalf(v)
ClearHigh(v) == LowHalf(v)
Decrement(v) == (v + Half * Half - 1) % (Half * Half)

SignalIdShared(i, n) == n - 1                    \* variant: one GPU's slots for all
SignalId(i, n) == i * NumCmds + n - 1
PollId(i, n)   == IF env.multi THEN NumNodes * NumCmds + i * NumCmds + n - 1
                               ELSE NumNodes * NumCmds

\* Packets.
PollPacket(it, slot)     == [op |-> "poll", it |-> it, slot |-> slot]
CopyPacket(from, to)     == [op |-> "copy", from |-> from, to |-> to]
SwapPacket(a, b)         == [op |-> "swap", a |-> a, b |-> b]
FillPacket(to, value)    == [op |-> "fill", to |-> to, value |-> value]
SyncPacket(op, it, slot) == [op |-> op, it |-> it, slot |-> slot]

\* placePollPacket, the copies of a command, placeSyncPacket.
PollPacketsMultiOnly(it, i, n) ==                \* variant: no poll on a shared trigger
    IF env.poll /\ env.multi THEN <<PollPacket(it, PollId(i, n))>> ELSE <<>>
PollPackets(it, i, n) == IF env.poll THEN <<PollPacket(it, PollId(i, n))>> ELSE <<>>

SyncPackets(it, i, n) ==
    CASE env.sync = 0 -> <<SyncPacket("fence_lo", it, SignalId(i, n))>>
      [] env.sync = 1 -> <<SyncPacket("fence_hi", it, SignalId(i, n)),
                           SyncPacket("fence_lo", it, SignalId(i, n))>>
      [] env.sync = 2 -> <<SyncPacket("atomic", it, SignalId(i, n))>>

\* The copies of a command: all-gather pushes the GPU's own chunk to each peer,
\* all-to-all a chunk per peer into the output buffers, swap exchanges a pair's
\* chunks in place.  A b2b batch is a packet per destination, a broadcast one
\* packet with up to two.
AllgatherCopies(it, i, dests) ==
    [k \in DOMAIN dests |-> CopyPacket(In(it, i, i), {In(it, dests[k], i)})]
AlltoallCopies(it, i, dests) ==
    [k \in DOMAIN dests |-> CopyPacket(In(it, i, dests[k]), {Out(it, dests[k], i)})]
SwapCopies(it, i, dests) == <<SwapPacket(In(it, dests[1], i), In(it, i, dests[1]))>>
BroadcastCopies(it, i, dests) ==
    <<CopyPacket(In(it, i, i), {In(it, dests[k], i) : k \in DOMAIN dests})>>

DataPackets(it, i, n) ==
    LET dests == List(i)[n].dests IN
    CASE Plan.op = "swap" -> SwapCopies(it, i, dests)
      [] Plan.op = "aa"   -> AlltoallCopies(it, i, dests)
      [] Plan.op = "ag" /\ Plan.weighted  -> BroadcastCopies(it, i, dests)
      [] Plan.op = "ag" /\ ~Plan.weighted -> AllgatherCopies(it, i, dests)

CommandPacketsSyncFirst(it, i, n) ==             \* variant
    PollPackets(it, i, n) \o SyncPackets(it, i, n) \o DataPackets(it, i, n)
CommandPackets(it, i, n) ==
    PollPackets(it, i, n) \o DataPackets(it, i, n) \o SyncPackets(it, i, n)

\* fillMem: chunk by chunk, input then output buffer, then a fence.
FillPackets(it, i) ==
    [k \in 1 .. 2 * NumNodes |->
       LET j == (k - 1) \div 2 IN
       IF k % 2 = 1 THEN FillPacket(In(it, i, j), Pattern(i, j))
       ELSE FillPacket(Out(it, i, j), IF i = j THEN Pattern(i, j) ELSE 0)]
      \o <<SyncPacket("fence_lo", it, i * NumNodes)>>

\* validateMem: GPU i's result to system memory, then a fence.
ReadbackPackets(it, i) ==
    [k \in 1 .. NumNodes |-> CopyPacket(Result(it, i, k - 1), {Sys(i, k - 1)})]
      \o <<SyncPacket("fence_lo", it, i * NumNodes)>>

Submit(engine, packets) == queue' = [queue EXCEPT ![engine] = @ \o packets]

-----------------------------------------------------------------------------
(* The CPU thread.                                                          *)

\* Fills and readbacks are signalled in slot i * numNodes, one slot per GPU.
PhaseSlotsFirstOnly(first) == {first * NumNodes} \* variant: waits for one GPU only
PhaseSlots(first) == {i * NumNodes : i \in first .. NumNodes - 1}
Arm(slots) == signal' = [signal EXCEPT ![iter] =
                           [s \in Slots |-> IF s \in slots THEN 1 ELSE @[s]]]
Cleared(slots) == \A s \in slots : signal[iter][s] = 0

AllocateMem ==
    /\ pc = "allocate"
    /\ live' = [b \in BufferKinds |-> live[b] + 1]
    /\ mem' = [a \in Address |-> IF a[1] = "sys" THEN 0 ELSE Junk]
    /\ signal' = [it \in Iters |-> [s \in Slots |-> 0]]
    /\ pc' = "fill_arm"
    /\ iter' = 0
    /\ UNCHANGED <<env, size, gpu, cmd, scan, dest_done, done, t_index, queue>>

FillArm ==
    /\ pc = "fill_arm"
    /\ Arm(PhaseSlots(0))
    /\ pc' = "fill"
    /\ gpu' = 0
    /\ UNCHANGED <<env, size, iter, cmd, scan, dest_done, done, t_index, queue, mem, live>>

FillSubmit ==
    /\ pc = "fill"
    /\ Submit(<<gpu, FillEngine>>, FillPackets(iter, gpu))
    /\ gpu' = gpu + 1
    /\ pc' = IF gpu + 1 = NumNodes THEN "fill_wait" ELSE "fill"
    /\ UNCHANGED <<env, size, iter, cmd, scan, dest_done, done, t_index, mem, signal, live>>

FillWait ==
    /\ pc = "fill_wait"
    /\ Cleared(PhaseSlots(0))
    /\ IF iter + 1 = NumIter THEN pc' = "init_signals" /\ iter' = 0
                             ELSE pc' = "fill_arm" /\ iter' = iter + 1
    /\ UNCHANGED <<env, size, gpu, cmd, scan, dest_done, done, t_index, queue, mem, signal, live>>

\* initSignals, and the per-iteration locals.
InitSignals ==
    /\ pc = "init_signals"
    /\ Arm({i * NumCmds + c : i \in Gpus, c \in 0 .. NumCmds - 1}
             \cup IF env.poll THEN {PollId(i, n) : i \in Gpus, n \in 1 .. NumCmds}
                                     \cup (IF env.multi THEN {} ELSE {PollId(0, 1)})
                              ELSE {})
    /\ dest_done' = {}
    /\ done' = 0
    /\ t_index' = 2
    /\ gpu' = 0
    /\ cmd' = 1
    /\ pc' = "submit"
    /\ UNCHANGED <<env, size, iter, scan, queue, mem, live>>

\* triggerPoll records one time point, then clears the trigger signals.
TriggerTimesNone == 0                            \* variant
TriggerTimes == 1
TriggerSlotsSingle == 1                          \* variant
TriggerSlots == IF env.multi THEN NumNodes * NumCmds ELSE 1

\* Place a command's packets and ring the doorbell.
SubmitCommand ==
    /\ pc = "submit"
    /\ cmd <= Len(List(gpu))
    /\ Submit(<<gpu, List(gpu)[cmd].engine_id>>, CommandPackets(iter, gpu, cmd))
    /\ cmd' = cmd + 1
    /\ UNCHANGED <<env, pc, size, iter, gpu, scan, dest_done, done, t_index, mem, signal, live>>

NextGpu ==
    /\ pc = "submit"
    /\ cmd > Len(List(gpu))
    /\ gpu' = gpu + 1
    /\ cmd' = 1
    /\ scan' = 0
    /\ pc' = IF gpu + 1 < NumNodes THEN "submit" ELSE IF env.poll THEN "trigger" ELSE "spin"
    /\ t_index' = IF pc' = "trigger" THEN t_index + TriggerTimes ELSE t_index
    /\ UNCHANGED <<env, size, iter, dest_done, done, queue, mem, signal, live>>

\* triggerPoll: clear the trigger signals, one store at a time.
Trigger ==
    /\ pc = "trigger"
    /\ IF scan < TriggerSlots
       THEN /\ signal' = [signal EXCEPT ![iter][NumNodes * NumCmds + scan] = 0]
            /\ scan' = scan + 1
            /\ UNCHANGED pc
       ELSE /\ scan' = 0
            /\ pc' = "spin"
            /\ UNCHANGED signal
    /\ UNCHANGED <<env, size, iter, gpu, cmd, dest_done, done, t_index, queue, mem, live>>

Weight(slot) ==
    IF Plan.weighted
    THEN Len(List(slot \div NumCmds)[(slot % NumCmds) + 1].dests) ELSE 1

\* A pass counts what it sees cleared, whether or not it was counted before.
SpinReadRecounting ==                            \* variant
    /\ pc = "spin"
    /\ scan < NumNodes * NumCmds
    /\ scan' = scan + 1
    /\ IF signal[iter][scan] = 0
       THEN /\ dest_done' = dest_done \cup {scan}
            /\ done' = done + Weight(scan)
            /\ t_index' = t_index + 1
       ELSE UNCHANGED <<dest_done, done, t_index>>
    /\ UNCHANGED <<env, pc, size, iter, gpu, cmd, queue, mem, signal, live>>

\* spinWait: one read of one signal, counting it when it is first seen cleared.
SpinRead ==
    /\ pc = "spin"
    /\ scan < NumNodes * NumCmds
    /\ scan' = scan + 1
    /\ IF signal[iter][scan] = 0 /\ scan \notin dest_done
       THEN /\ dest_done' = dest_done \cup {scan}
            /\ done' = done + Weight(scan)
            /\ t_index' = t_index + 1
       ELSE UNCHANGED <<dest_done, done, t_index>>
    /\ UNCHANGED <<env, pc, size, iter, gpu, cmd, queue, mem, signal, live>>

\* The end of a pass over the signals; logTimes follows a successful one.
SpinEnd ==
    /\ pc = "spin"
    /\ scan = NumNodes * NumCmds
    /\ scan' = 0
    /\ IF done # Plan.done_target THEN UNCHANGED <<pc, iter>>
       ELSE IF iter + 1 < NumIter THEN pc' = "init_signals" /\ iter' = iter + 1
       ELSE pc' = "check_arm" /\ iter' = 0
    /\ UNCHANGED <<env, size, gpu, cmd, dest_done, done, t_index, queue, mem, signal, live>>

\* validateMem covers every GPU but the first.
CheckArm ==
    /\ pc = "check_arm"
    /\ Arm(PhaseSlots(1))
    /\ gpu' = 1
    /\ pc' = IF NumNodes = 1 THEN "check_wait" ELSE "check"
    /\ UNCHANGED <<env, size, iter, cmd, scan, dest_done, done, t_index, queue, mem, live>>

CheckSubmit ==
    /\ pc = "check"
    /\ Submit(<<gpu, CpuEngine>>, ReadbackPackets(iter, gpu))
    /\ gpu' = gpu + 1
    /\ pc' = IF gpu + 1 = NumNodes THEN "check_wait" ELSE "check"
    /\ UNCHANGED <<env, size, iter, cmd, scan, dest_done, done, t_index, mem, signal, live>>

ReadbackMatches ==
    \A i \in 1 .. NumNodes - 1, j \in Gpus : mem[Sys(i, j)] = Expected(i, j)

CheckWait ==
    /\ pc = "check_wait"
    /\ Cleared(PhaseSlots(1))
    /\ IF ~ReadbackMatches THEN pc' = "exited" /\ UNCHANGED iter
       ELSE IF iter + 1 < NumIter THEN pc' = "check_arm" /\ iter' = iter + 1
       ELSE pc' = "free" /\ UNCHANGED iter
    /\ UNCHANGED <<env, size, gpu, cmd, scan, dest_done, done, t_index, queue, mem, signal, live>>

\* finalizeTime only computes; freeMem leaves gpuOutMem allocated.
FreeMem ==
    /\ pc = "free"
    /\ live' = [b \in BufferKinds |-> IF b = "out" THEN live[b] ELSE live[b] - 1]
    /\ size' = size + 1
    /\ pc' = IF size + 1 < NumSizes THEN "allocate" ELSE "end"
    /\ UNCHANGED <<env, iter, gpu, cmd, scan, dest_done, done, t_index, queue, mem, signal>>

Cpu == \/ AllocateMem \/ FillArm \/ FillSubmit \/ FillWait
       \/ InitSignals \/ SubmitCommand \/ NextGpu \/ Trigger \/ SpinRead \/ SpinEnd
       \/ CheckArm \/ CheckSubmit \/ CheckWait \/ FreeMem

-----------------------------------------------------------------------------
(* The engines (hardware, external): each executes the packet at the head   *)
(* of its queue.                                                            *)

Pop(e) == queue' = [queue EXCEPT ![e] = Tail(@)]

\* A poll holds the queue until the low half of its signal is 0.
ExecPoll(e) ==
    /\ Head(queue[e]).op = "poll"
    /\ LowHalf(signal[Head(queue[e]).it][Head(queue[e]).slot]) = 0
    /\ UNCHANGED <<mem, signal>>

ExecData(e) ==
    LET p == Head(queue[e]) IN
    /\ \/ /\ p.op = "fill"
          /\ mem' = [mem EXCEPT ![p.to] = p.value]
       \/ /\ p.op = "copy"
          /\ mem' = [a \in Address |-> IF a \in p.to THEN mem[p.from] ELSE mem[a]]
       \/ /\ p.op = "swap"
          /\ mem' = [mem EXCEPT ![p.a] = mem[p.b], ![p.b] = mem[p.a]]
    /\ UNCHANGED signal

ExecSync(e) ==
    LET p == Head(queue[e]) IN
    /\ \/ /\ p.op = "fence_lo"
          /\ signal' = [signal EXCEPT ![p.it][p.slot] = ClearLow(@)]
       \/ /\ p.op = "fence_hi"
          /\ signal' = [signal EXCEPT ![p.it][p.slot] = ClearHigh(@)]
       \/ /\ p.op = "atomic"
          /\ signal' = [signal EXCEPT ![p.it][p.slot] = Decrement(@)]
    /\ UNCHANGED mem

Engine(e) ==
    /\ queue[e] # <<>>
    /\ ExecPoll(e) \/ ExecData(e) \/ ExecSync(e)
    /\ Pop(e)
    /\ UNCHANGED cpuVars

-----------------------------------------------------------------------------
Init == /\ env \in [plan : Plans, sync : SyncTypes,
                    poll : BOOLEAN, multi : BOOLEAN]
        /\ <<env.poll, env.multi>> \in TriggerModes
        /\ pc = "allocate"
        /\ size = 0 /\ iter = 0 /\ gpu = 0 /\ cmd = 1 /\ scan = 0
        /\ dest_done = {} /\ done = 0 /\ t_index = 2
        /\ queue = [e \in Engines |-> <<>>]
        /\ mem = [a \in Address |-> Junk]
        /\ signal = [it \in Iters |-> [s \in Slots |-> 0]]
        /\ live = [b \in BufferKinds |-> 0]

Next == Cpu \/ \E e \in Engines : Engine(e)

\* The thread keeps running and every engine keeps executing what it can.
Fairness == WF_vars(Cpu) /\ \A e \in Engines : WF_vars(Engine(e))

Spec == Init /\ [][Next]_vars /\ Fairness

-----------------------------------------------------------------------------
(* Properties.                                                              *)

Packet == [op : {"poll", "fence_lo", "fence_hi", "atomic"}, it : Iters, slot : Slots]
            \cup [op : {"copy"}, from : Address, to : SUBSET Address]
            \cup [op : {"swap"}, a : Address, b : Address]
            \cup [op : {"fill"}, to : Address, value : Value]

PcValues == {"allocate", "fill_arm", "fill", "fill_wait", "init_signals", "submit", "trigger",
             "spin", "check_arm", "check", "check_wait", "free", "end", "exited"}

\* Every variable has its type.
TypeOK ==
    /\ env \in [plan : Plans, sync : SyncTypes, poll : BOOLEAN, multi : BOOLEAN]
    /\ pc \in PcValues
    /\ size \in 0 .. NumSizes
    /\ iter \in Iters
    /\ gpu \in 0 .. NumNodes
    /\ cmd \in Nat
    /\ scan \in Nat
    /\ dest_done \subseteq Slots
    /\ done \in Nat
    /\ t_index \in Nat
    /\ queue \in [Engines -> Seq(Packet)]
    /\ mem \in [Address -> Value]
    /\ signal \in [Iters -> [Slots -> 0 .. Half * Half - 1]]
    /\ live \in [BufferKinds -> Nat]

Transfers == {t \in Gpus \X Gpus : t[1] # t[2]}
Moved(it, src, dst) == mem[Result(it, dst, src)] = Expected(dst, src)

IterationPcs == {"init_signals", "submit", "trigger", "spin"}
CheckPcs     == {"check_arm", "check", "check_wait"}

\* Iterations whose spin loop has ended, while their buffers exist.
FinishedIters == IF pc \in IterationPcs THEN 0 .. iter - 1
                 ELSE IF pc \in CheckPcs \cup {"free", "exited"} THEN Iters ELSE {}

\* When the spin loop lets the CPU go on, every GPU - the first one included,
\* which validateMem never reads back - holds every chunk, own chunk included.
ResultCorrect == \A it \in FinishedIters, src, dst \in Gpus : Moved(it, src, dst)

\* A completion is counted only after the data of that command has arrived at
\* all its destinations (for a swap, on both sides).
SeenIsMoved ==
    pc = "spin" => \A slot \in dest_done :
      LET i == slot \div NumCmds
          dests == List(i)[(slot % NumCmds) + 1].dests
      IN  \A k \in DOMAIN dests :
            Moved(iter, i, dests[k]) /\ (Plan.op = "swap" => Moved(iter, dests[k], i))

\* No two engines work on one chunk at the same time unless both only read it,
\* so the order in which engines run cannot change the result.
Reads(p)  == CASE p.op = "copy" -> {p.from} [] p.op = "swap" -> {p.a, p.b} [] OTHER -> {}
Writes(p) == CASE p.op = "copy" -> p.to [] p.op = "swap" -> {p.a, p.b}
               [] p.op = "fill" -> {p.to} [] OTHER -> {}
RaceFree ==
    LET Busy == {e \in Engines : queue[e] # <<>>} IN
    \A e \in Busy : \A f \in Busy \ {e} :
      Writes(Head(queue[e])) \cap (Reads(Head(queue[f])) \cup Writes(Head(queue[f]))) = {}

\* Buffers are unmapped only when no engine has anything left to execute.
FreedIsQuiescent == live["in"] = 0 => \A e \in Engines : queue[e] = <<>>

\* A completion signal is cleared once: no second decrement wraps it around.
SignalsNeverWrap == \A it \in Iters : \A s \in Slots : signal[it][s] \in {0, 1}

\* The readback never finds a wrong element (CHECK_EQ would exit).
ValidationPasses == pc # "exited"

\* With PRELAUNCH nothing moves before the trigger: all commands are queued
\* first.
PrelaunchGated == [][env.poll /\ pc = "submit" => mem' = mem]_vars

\* logTimes reads as many time points as the spin loop has recorded.
LogComplete ==
    [][pc = "spin" /\ pc' # "spin"
         => t_index = Plan.total_transfers + (IF env.poll THEN 3 ELSE 2)]_vars

\* The sweep comes to its end: no iteration waits for ever.
Terminates == <>(pc = "end")

\* freeMem "unmaps and frees all GPU and system buffers" of the size just done.
AllBuffersFreed == pc \in {"allocate", "end"} => \A b \in BufferKinds : live[b] = 0

-----------------------------------------------------------------------------
(* The collective implements CollectiveSpec.                                *)

Abstract == INSTANCE CollectiveSpec WITH
    stage     <- IF pc \in IterationPcs \cup CheckPcs \cup {"free", "exited"}
                 THEN "running" ELSE "setup",
    completed <- IF pc \in IterationPcs THEN iter
                 ELSE IF pc \in CheckPcs \cup {"free", "exited"} THEN NumIter ELSE 0,
    arrived   <- IF pc \in IterationPcs
                 THEN {t \in Transfers : Moved(iter, t[1], t[2])} ELSE {}

\* Commands, signals and queues amount to: every chunk arrives once and stays,
\* iterations complete only with all of them, buffers go only after the last.
ImplementsCollective == Abstract!Spec
=============================================================================
