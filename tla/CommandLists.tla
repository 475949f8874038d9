---------------------------- MODULE CommandLists ----------------------------
(***************************************************************************)
(* How each collective turns its set of GPUs into command lists: the       *)
(* engine affinity map (sdmaCollective::getPreferredEngines) and the loop  *)
(* body at the head of every collective that builds cmds[i] for GPU i.     *)
(*                                                                         *)
(* `in' is what the environment variables and the machine fix:             *)
(*   collective     the dispatch key of main.cpp ("ag_pcpy", ...)          *)
(*   numTotalNodes  GPUs in the machine                                    *)
(*   gpus           hardware indices of the GPUs taking part, in order     *)
(*   numCpuSdma, numTotalSdma   engines per GPU                            *)
(*   engineMap      lines <<src, engine, dst>> of SDMA_MAP, <<>> if unset  *)
(*   dma, ways      B2B_DMA and B2B_WAYS                                   *)
(*   prelaunch      PRELAUNCH                                              *)
(* GPUs are numbered from 0 as in the code, commands of a list from 1.     *)
(*                                                                         *)
(* A definition marked `variant' is not part of the model: it is the next  *)
(* one with a plausible slip, and some property of CommandPlan rejects it. *)
(***************************************************************************)
EXTENDS Sorted, SequencesExt, FiniteSetsExt

NodeCount(in) == Len(in.gpus)
Gpus(in)     == 0 .. NodeCount(in) - 1
Hw(in, i)    == in.gpus[i + 1]
CeilDiv(a, b) == (a + b - 1) \div b

-----------------------------------------------------------------------------
(* The affinity map.                                                       *)

\* Collectives that want engine -> destination rather than the reverse.
SdmaToDest(in) == in.collective = "ag_bcst"

\* Without a file: the even xGMI engines in turn, over all GPUs of the machine.
EvenEngines(in)  == (in.numTotalSdma - in.numCpuSdma) \div 2

\* With fewer than two xGMI engines that divides by zero at the first link.
DividesByZero(in) == in.engineMap = <<>> /\ in.numTotalNodes > 1 /\ EvenEngines(in) = 0

RoundRobinEngineFromZero(in, i, j) ==            \* variant: CPU engines not skipped
    2 * ((IF j < i THEN j ELSE j - 1) % EvenEngines(in))
RoundRobinEngine(in, i, j) ==
    LET dest_idx == IF j < i THEN j ELSE j - 1
    IN  in.numCpuSdma + 2 * (dest_idx % EvenEngines(in))

RoundRobin(in) ==
    LET Links == {l \in (0 .. in.numTotalNodes - 1) \X (0 .. in.numTotalNodes - 1) : l[1] # l[2]}
    IN  IF SdmaToDest(in)
        THEN [k \in {<<l[1], RoundRobinEngine(in, l[1], l[2])>> : l \in Links} |->
                Max({j \in 0 .. in.numTotalNodes - 1 :
                       j # k[1] /\ RoundRobinEngine(in, k[1], j) = k[2]})]
        ELSE [l \in Links |-> RoundRobinEngine(in, l[1], l[2])]

\* With a file: a later line replaces an earlier one with the same key.
FromFile(in) ==
    LET Key(n) == IF SdmaToDest(in) THEN <<in.engineMap[n][1], in.engineMap[n][2]>>
                                    ELSE <<in.engineMap[n][1], in.engineMap[n][3]>>
        Value(n) == IF SdmaToDest(in) THEN in.engineMap[n][3] ELSE in.engineMap[n][2]
        Lines == DOMAIN in.engineMap
    IN  [k \in {Key(n) : n \in Lines} |-> Value(Max({n \in Lines : Key(n) = k}))]

PreferredEngines(in) == IF in.engineMap = <<>> THEN RoundRobin(in) ELSE FromFile(in)

\* std::map::operator[]: a missing key reads as 0.
Lookup(map, key) == IF key \in DOMAIN map THEN map[key] ELSE 0

EngineFor(in, i, j) == Lookup(PreferredEngines(in), <<Hw(in, i), Hw(in, j)>>)
HwToLocal(in, hw) ==
    IF \E n \in Gpus(in) : Hw(in, n) = hw
    THEN Max({n \in Gpus(in) : Hw(in, n) = hw}) ELSE 0

-----------------------------------------------------------------------------
(* The command list of GPU i.                                              *)

Command(engine, dests) == [engine_id |-> engine, dests |-> dests]
UpTo(n) == [k \in 1 .. n |-> k - 1]
Peers(in, i) == [n \in 1 .. NodeCount(in) - 1 |-> IF n <= i THEN n - 1 ELSE n]

\* AllgatherPcpy: the peers in ring order from i.
AllgatherPcpyCmds(in, i) ==
    [n \in 1 .. NodeCount(in) - 1 |->
       LET dest == (i + n) % NodeCount(in) IN Command(EngineFor(in, i, dest), <<dest>>)]

\* AlltoallPcpy: the peers in index order.
AlltoallPcpyCmds(in, i) ==
    [n \in 1 .. NodeCount(in) - 1 |->
       LET dest == Peers(in, i)[n] IN Command(EngineFor(in, i, dest), <<dest>>)]

\* AllgatherNwayB2b, AlltoallNwayB2b: batches of `ways' peers, one engine each.
Batches(in) == CeilDiv(NodeCount(in) - 1, in.ways)
NwayB2bCmds(in, i) ==
    [b \in 1 .. Batches(in) |->
       Command(in.dma[b], SubSeq(Peers(in, i), (b - 1) * in.ways + 1,
                                 Min({b * in.ways, NodeCount(in) - 1})))]

\* AlltoallSwap: the first commands_per_node peers whose pair is not taken.
TotalCommands(in)   == (NodeCount(in) * (NodeCount(in) - 1)) \div 2
CommandsPerNodeFloor(in) == TotalCommands(in) \div NodeCount(in)     \* variant
CommandsPerNode(in) == CeilDiv(TotalCommands(in), NodeCount(in))
Pair(in, i, j)      == {Hw(in, i), Hw(in, j)}
FreePeers(in, i, taken) == {j \in Gpus(in) \ {i} : Pair(in, i, j) \notin taken}
SwapPeersUnlimited(in, i, taken) == Ascending[FreePeers(in, i, taken)]    \* variant
SwapPeers(in, i, taken) ==
    LET free == Ascending[FreePeers(in, i, taken)]
    IN  SubSeq(free, 1, Min({Len(free), CommandsPerNode(in)}))
SwapCmds(in, i, taken) ==
    LET peers == SwapPeers(in, i, taken)
    IN  [n \in DOMAIN peers |-> Command(EngineFor(in, i, peers[n]), <<peers[n]>>)]

\* AllgatherBcst: the engines of GPU i in order; the first alone, the others
\* in pairs on the second engine of each pair, the last alone if one is left.
EnginesOf(in, i) == {k[2] : k \in {k \in DOMAIN PreferredEngines(in) : k[1] = Hw(in, i)}}
EngineDests(in, i) ==
    LET map == PreferredEngines(in)
        engines == Ascending[EnginesOf(in, i)]
    IN  [n \in DOMAIN engines |->
           Command(engines[n], <<HwToLocal(in, map[<<Hw(in, i), engines[n]>>])>>)]
AllgatherBcstCmdsNoLast(in, i) ==                \* variant: even count forgotten
    LET ed == EngineDests(in, i) IN
    <<ed[1]>> \o [p \in 1 .. (Len(ed) - 1) \div 2 |->
                    Command(ed[2 * p + 1].engine_id, ed[2 * p].dests \o ed[2 * p + 1].dests)]
AllgatherBcstCmds(in, i) ==
    LET ed == EngineDests(in, i) IN
    <<ed[1]>>
      \o [p \in 1 .. (Len(ed) - 1) \div 2 |->
            Command(ed[2 * p + 1].engine_id, ed[2 * p].dests \o ed[2 * p + 1].dests)]
      \o (IF Len(ed) % 2 = 0 THEN <<ed[Len(ed)]>> ELSE <<>>)

IsB2b(in)  == in.collective \in {"ag_b2b", "aa_b2b"}
IsSwap(in) == in.collective = "aa_swap"

GpuCmds(in, i, taken) ==
    CASE in.collective = "ag_pcpy" -> AllgatherPcpyCmds(in, i)
      [] in.collective = "aa_pcpy" -> AlltoallPcpyCmds(in, i)
      [] in.collective = "ag_bcst" -> AllgatherBcstCmds(in, i)
      [] IsB2b(in)                 -> NwayB2bCmds(in, i)
      [] IsSwap(in)                -> SwapCmds(in, i, taken)

\* What building GPU i's list adds to the pairs already covered.
Taken(in, i, taken) ==
    IF IsSwap(in) THEN {Pair(in, i, j) : j \in ToSet(SwapPeers(in, i, taken))} ELSE {}

\* The pairs covered before GPU i's turn, and all the lists of a collective.
TakenBefore(in) ==
    LET taken[i \in 0 .. NodeCount(in)] ==
          IF i = 0 THEN {} ELSE taken[i - 1] \cup Taken(in, i - 1, taken[i - 1])
    IN  taken
AllCmds(in) == LET taken == TakenBefore(in)
               IN  [i \in Gpus(in) |-> GpuCmds(in, i, taken[i])]

-----------------------------------------------------------------------------
(* What the collectives read off the finished lists.                       *)

\* num_cmds: signal slots per GPU, and the bound of every loop over commands
\* except swap's.
SlotsFor(in, first) == IF IsSwap(in) THEN CommandsPerNode(in) ELSE Len(first)

\* The count that the spin loop waits for, and how many completions logTimes
\* is told to read.
TargetFor(in, num_cmds) ==
    CASE IsSwap(in)                -> TotalCommands(in)
      [] in.collective = "ag_bcst" -> NodeCount(in) * (NodeCount(in) - 1)
      [] OTHER                     -> NodeCount(in) * num_cmds
TransfersFor(in, num_cmds) ==
    CASE IsSwap(in)                                -> TotalCommands(in)
      [] in.collective \in {"ag_pcpy", "aa_pcpy"} -> NodeCount(in) * (NodeCount(in) - 1)
      [] OTHER                                     -> NodeCount(in) * num_cmds

\* What a command does: copy the GPU's own chunk or the destination's, or swap.
OpFor(in) == IF IsSwap(in) THEN "swap"
             ELSE IF in.collective \in {"aa_pcpy", "aa_b2b"} THEN "aa" ELSE "ag"

PlanFor(in, lists) ==
    LET num_cmds == SlotsFor(in, lists[0])
    IN  [op |-> OpFor(in), cmds |-> lists, num_cmds |-> num_cmds,
         weighted |-> in.collective = "ag_bcst",
         done_target |-> TargetFor(in, num_cmds),
         total_transfers |-> TransfersFor(in, num_cmds)]
=============================================================================
