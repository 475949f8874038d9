---------------------------- MODULE MCCollective ----------------------------
(* Plans for small machines, taken from the code's own command lists: an     *)
(* MI300X-like machine (2 CPU engines, xGMI engines from 2) of `total' GPUs  *)
(* of which the first NumNodes take part.                                    *)
EXTENDS Collective

Lists == INSTANCE CommandLists

CONSTANTS Collectives,  \* dispatch keys to run
          NumTotalNodes,
          SharedEngine, \* dispatch keys to run with one usable engine per GPU as well
          Dma, Ways     \* B2B_DMA, B2B_WAYS

Input(coll, engines) ==
    [collective |-> coll, numTotalNodes |-> NumTotalNodes,
     gpus |-> [i \in 1 .. NumNodes |-> i - 1], numCpuSdma |-> 2,
     numTotalSdma |-> engines, engineMap |-> <<>>, dma |-> Dma, ways |-> Ways]

PlanOf(coll, engines) ==
    LET in == Input(coll, engines) IN Lists!PlanFor(in, Lists!AllCmds(in))

\* 14 xGMI engines as on MI300X, or three, of which round robin uses the first.
MCPlans == {PlanOf(coll, 16) : coll \in Collectives}
             \cup {PlanOf(coll, 5) : coll \in SharedEngine}

\* Where all GPUs take part, every plan run is one that serves (what the
\* theorems about Collective suppose).
ASSUME WholeMachineServes == NumTotalNodes = NumNodes => \A p \in MCPlans : Serves(p)

OneDma == <<4>>
TwoDma == <<4, 6>>
NoTrigger   == {<<FALSE, FALSE>>}
NoOrOwnTriggers == NoTrigger \cup {<<TRUE, TRUE>>}
AllTriggers == NoOrOwnTriggers \cup {<<TRUE, FALSE>>}
=============================================================================
