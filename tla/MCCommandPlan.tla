---------------------------- MODULE MCCommandPlan ----------------------------
(* Machines of 2 to 8 MI300X-like GPUs (2 + 14 engines), all GPUs or a      *)
(* subset of them, with and without an affinity map; b2b with every number  *)
(* of engine ids and ways.                                                  *)
EXTENDS CommandPlan

CONSTANTS MaxGpus

\* An affinity map as gen_sdma_map_sysfs.py writes it: one engine per link,
\* lines grouped by source; XOR-free stand-in for the machine's wiring.
MapLines(total) ==
    [l \in 1 .. total * (total - 1) |->
       LET src == (l - 1) \div (total - 1)
           k   == (l - 1) % (total - 1)
       IN  <<src, 2 + 2 * k, (src + k + 1) % total>>]

\* Those between some of the GPUs.
LinesAmong(total, gpus) ==
    SelectSeq(MapLines(total), LAMBDA l : l[1] \in ToSet(gpus) /\ l[3] \in ToSet(gpus))

In(coll, total, gpus, map, engines, dma, ways) ==
    [collective |-> coll, numTotalNodes |-> total, gpus |-> gpus, numCpuSdma |-> 2,
     numTotalSdma |-> engines, engineMap |-> map, dma |-> dma, ways |-> ways,
     prelaunch |-> FALSE]

\* GPU_LISTs of a machine: all, all but the last, from the top down, every second.
GpuLists(total) ==
    {UpTo(total), UpTo(Max({total - 1, 2})),
     [i \in 1 .. total |-> total - i], [i \in 1 .. (total + 1) \div 2 |-> 2 * (i - 1)]}

PairInputs ==
    UNION {{In(c, t, g, m, 16, <<>>, 1) :
              c \in {"ag_pcpy", "aa_pcpy", "aa_swap"},
              g \in {l \in GpuLists(t) : Len(l) > 1}, m \in {<<>>, MapLines(MaxGpus)}} :
           t \in 2 .. MaxGpus}

BcstInputs ==
    {In("ag_bcst", t, UpTo(t), <<>>, 16, <<>>, 1) : t \in 2 .. MaxGpus}
      \cup {In("ag_bcst", t, UpTo(t), MapLines(t), 16, <<>>, 1) : t \in 2 .. MaxGpus}
      \cup {In("ag_bcst", 8, g, LinesAmong(8, g), 16, <<>>, 1) : g \in {<<1, 3>>, <<6, 0, 5, 2>>}}

B2bInputs(ids, ways) ==
    {In(c, t, UpTo(t), <<>>, 16, [i \in 1 .. k |-> 1 + i], w) :
       c \in {"ag_b2b", "aa_b2b"}, t \in 2 .. MaxGpus, k \in ids, w \in ways}

\* Swap's greedy pairing on larger machines than today's (its completions fit
\* `times' up to 11 GPUs).
SwapInputs == {In("aa_swap", t, UpTo(t), <<>>, 2 + 2 * t, <<>>, 1) : t \in 9 .. 11}

PlanInputs == PairInputs \cup BcstInputs \cup SwapInputs
                \cup B2bInputs({1, 2, 4, 7}, {1, 2, 4, 7})

\* Inputs of the documentation that the code does not serve as documented.
ShortDmaInputs  == B2bInputs(1 .. 7, 1 .. 7)
PrelaunchInputs == {[In("ag_pcpy", t, UpTo(t), <<>>, 16, <<>>, 1) EXCEPT !.prelaunch = TRUE] :
                      t \in 2 .. MaxGpus}
=============================================================================
