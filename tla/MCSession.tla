------------------------------ MODULE MCSession -----------------------------
(* Sessions on machines of up to 8 GPUs behind one CPU node.  The larger   *)
(* machines and the unusual GPU lists only build their lists (their sweep  *)
(* is empty); 2 to 4 GPUs sweep from below the packet limit to three times *)
(* it; the rest are sessions that do not get that far.                     *)
EXTENDS MCCommandPlan, Session

Machine(total) == <<"cpu">> \o [i \in 1 .. total |-> "gpu"]
Full(in, more) ==
    more @@ in @@ [mapOpens |-> TRUE, nodes |-> Machine(in.numTotalNodes),
                   gfx942 |-> in.numTotalSdma >= 16, minSize |-> 64, maxSize |-> 0,
                   numIter |-> 7, syncType |-> 2, bigQueues |-> TRUE]
Sizes(least, greatest) == [minSize |-> least, maxSize |-> greatest]

\* The collectives on n GPUs of a machine of `total'; two engine ids for b2b,
\* two destinations each.
Plain(c, n, total) == In(c, total, UpTo(n), <<>>, 16, <<2, 4>>, 2)
Pairwise == {"ag_pcpy", "aa_pcpy", "aa_swap", "ag_b2b", "aa_b2b"}
Known    == Pairwise \cup {"ag_bcst"}

\* Chunks of 24, 48 and 96 bytes: one, two and three packets, in 4 KB rings.
SweepInputs ==
    {Full(Plain(c, n, n), Sizes(24 * n, 96 * n) @@
        [syncType |-> mode[1], prelaunch |-> mode[2], bigQueues |-> FALSE]) :
       c \in Known, n \in 2 .. 4, mode \in {<<2, FALSE>>, <<0, TRUE>>, <<1, TRUE>>}}
    \cup {Full(Plain(c, 2, 4), Sizes(48, 100)) : c \in Pairwise}
    \cup {Full(Plain(c, 2, 2), Sizes(13, 60) @@ [numIter |-> 2]) : c \in Known}
    \cup {Full(In("ag_pcpy", 2, UpTo(2), <<>>, 5, <<>>, 1), Sizes(8, 16))}

\* The benchmark takes sizes as they are.  60 iterations with 4 KB rings; as
\* many as the warm-up takes, and fewer; one GPU only.
P2pInputs ==
    {Full(Plain("p2p_latency", n, 4), Sizes(24, 96) @@ [numIter |-> 6, prelaunch |-> pre]) :
       n \in 2 .. 4, pre \in BOOLEAN}
    \cup {Full(Plain("p2p_latency", 2, 2), Sizes(24, 48) @@ [numIter |-> 60, bigQueues |-> FALSE])}
    \cup {Full(Plain("p2p_latency", 2, 2), Sizes(24, 48) @@ [numIter |-> n]) : n \in {4, 5}}
    \cup {Full(Plain("p2p_latency", 1, t), Sizes(24, 48)) : t \in {1, 4}}

\* Two GPUs with none to three xGMI engines: the fills need one, the map two,
\* the benchmark three.
FewEngines ==
    {Full(In(c, 2, UpTo(2), <<>>, e, <<2>>, 1), Sizes(48, 48)) :
       c \in Known \cup {"p2p_latency"}, e \in 2 .. 5}

\* Engine ids and maps the machine does not go with: an engine the machine
\* lacks, a CPU engine, a missing line; the last one serves.
BothWays(e) == <<<<0, e, 1>>, <<1, e, 0>>>>
BadEngines ==
    {Full(In("ag_b2b", 2, UpTo(2), <<>>, 5, <<8>>, 7), Sizes(48, 48)),
     Full(In("aa_b2b", 3, UpTo(3), <<>>, 16, <<0>>, 2), Sizes(48, 48)),
     Full(In("ag_pcpy", 2, UpTo(2), BothWays(20), 16, <<>>, 1), Sizes(48, 48)),
     Full(In("aa_swap", 2, UpTo(2), BothWays(1), 16, <<>>, 1), Sizes(48, 48)),
     Full(In("ag_pcpy", 2, UpTo(2), <<<<0, 2, 1>>>>, 16, <<>>, 1), Sizes(48, 48)),
     Full(In("ag_bcst", 2, UpTo(2), <<<<0, 2, 1>>>>, 16, <<>>, 1), Sizes(48, 48)),
     Full(In("ag_pcpy", 2, UpTo(2), <<>>, 16, <<>>, 1), Sizes(48, 48) @@ [numCpuSdma |-> 3])}
    \cup {Full(In(c, 2, UpTo(2), BothWays(2), 3, <<2>>, 1), Sizes(48, 48)) : c \in Known}

\* Too few GPUs, a partitioned MI300X, an index too large, one given twice,
\* nodes that do not answer, no GPU, no map, no peer to broadcast to, an unknown variant.
StoppedInputs ==
    {Full(Plain(c, 3, 2), Sizes(12, 24)) : c \in Known \cup {"p2p_latency", "unknown"}}
    \cup {Full(In("ag_b2b", 2, UpTo(3), <<>>, 16, <<>>, 1), Sizes(12, 24)),
          Full(In("ag_pcpy", 2, UpTo(2), <<>>, 8, <<>>, 1), [gfx942 |-> TRUE]),
          Full(In("ag_pcpy", 2, <<0, 2>>, <<>>, 16, <<>>, 1), <<>>),
          Full(In("ag_pcpy", 2, <<0, 1, 0>>, <<>>, 16, <<>>, 1), Sizes(12, 24)),
          Full(Plain("ag_pcpy", 2, 2), [nodes |-> <<"cpu", "gpu", "gpu", "silent">>]),
          Full(Plain("ag_pcpy", 2, 2), [nodes |-> <<"cpu", "silent", "gpu", "gpu">>]),
          Full(Plain("ag_pcpy", 2, 1), [nodes |-> <<"silent", "gpu">>]),
          Full(Plain("ag_pcpy", 2, 0), [nodes |-> <<"cpu", "cpu">>]),
          Full(Plain("ag_pcpy", 2, 2), [mapOpens |-> FALSE]),
          Full(Plain("ag_bcst", 1, 1), Sizes(12, 24)),
          Full(Plain("unknown", 2, 2), <<>>)}

SessionInputs ==
    {Full(in, <<>>) : in \in PlanInputs} \cup SweepInputs \cup P2pInputs \cup StoppedInputs
      \cup FewEngines \cup BadEngines

\* Surfaces of up to Word - Gig bytes.
SurfaceSizes == 0 .. 96

\* GPUs 2 and 3 of 4.
GpuListInputs == {Full(In(c, 4, <<2, 3>>, <<>>, 16, <<>>, 1), Sizes(16, 32)) :
                    c \in {"ag_pcpy", "aa_swap"}}
=============================================================================
