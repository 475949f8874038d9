----------------------------- MODULE CommandPlan ----------------------------
(***************************************************************************)
(* The loop at the head of every collective: it builds cmds[i] for one GPU *)
(* after the other, and everything that follows (signal slots, spin-wait   *)
(* targets, the queues commands go to) trusts what it built.               *)
(***************************************************************************)
EXTENDS CommandLists

CONSTANTS Inputs,       \* the inputs to consider
          SignalSlots   \* 64-bit slots of a signal buffer: signalBufSize / 8

ASSUME PlanAssumption == SignalSlots \in Nat

VARIABLES input,        \* chosen at the start, never changed
          gpu,          \* the GPU whose list is built next
          cmds,         \* the lists built so far
          seen,         \* swap: the pairs already covered
          status        \* "building", "ready", "skipped" or "crashed"

planVars == <<input, gpu, cmds, seen, status>>

-----------------------------------------------------------------------------
(* The loop.                                                               *)

Init == /\ input \in Inputs
        /\ gpu = 0
        /\ cmds = <<>>
        /\ seen = {}
        /\ status = "building"

\* The map is made first.  The b2b collectives return at once when they are
\* given too few engines.
NoMap == DividesByZero(input)
TooFewEngines == IsB2b(input) /\ Len(input.dma) < (NodeCount(input) - 1) \div input.ways

Skip ==
    /\ status = "building"
    /\ ~NoMap
    /\ TooFewEngines
    /\ status' = "skipped"
    /\ UNCHANGED <<input, gpu, cmds, seen>>

\* Elements read past the end of dma or of an empty engine_dests.
ReadsPastEnd ==
    \/ IsB2b(input) /\ Len(input.dma) < Batches(input)
    \/ input.collective = "ag_bcst" /\ EnginesOf(input, gpu) = {}

Crash ==
    /\ status = "building"
    /\ \/ NoMap
       \/ ~NoMap /\ ~TooFewEngines /\ ReadsPastEnd
    /\ status' = "crashed"
    /\ UNCHANGED <<input, gpu, cmds, seen>>

Build ==
    /\ status = "building"
    /\ ~NoMap
    /\ ~TooFewEngines
    /\ ~ReadsPastEnd
    /\ cmds' = Append(cmds, GpuCmds(input, gpu, seen))
    /\ seen' = seen \cup Taken(input, gpu, seen)
    /\ gpu' = gpu + 1
    /\ status' = IF gpu' = NodeCount(input) THEN "ready" ELSE "building"
    /\ UNCHANGED input

Next == Skip \/ Crash \/ Build
Spec == Init /\ [][Next]_planVars

-----------------------------------------------------------------------------
(* What the collectives read off the finished lists.                       *)

Ready == status = "ready"
List(i) == cmds[i + 1]

NumCmds == SlotsFor(input, List(0))

\* What the spin loop counts when a command's signal is cleared, and the
\* count it waits for.
Weight(command) == IF input.collective = "ag_bcst" THEN Len(command.dests) ELSE 1
DoneTarget == TargetFor(input, NumCmds)

\* The plan that module Collective executes.
FinishedPlan == PlanFor(input, [i \in Gpus(input) |-> List(i)])

\* Time points per iteration: start, end of submission, the trigger's under
\* PRELAUNCH, one per completion; the vector `times' has room for TimesLen.
TimesLen == 58
Issued == {x \in Gpus(input) \X (1 .. NodeCount(input)) : x[2] <= Len(List(x[1]))}
TimesUsed == 2 + (IF input.prelaunch THEN 1 ELSE 0) + Cardinality(Issued)
CountedWeight == Cardinality(UNION {{x} \X (1 .. Weight(List(x[1])[x[2]])) : x \in Issued})

-----------------------------------------------------------------------------
(* Properties.                                                             *)

\* Every variable has its type.
TypeOK ==
    /\ ToSet(input.gpus) \subseteq Nat
    /\ gpu \in 0 .. NodeCount(input)
    /\ Len(cmds) = gpu
    /\ seen \subseteq SUBSET ToSet(input.gpus)
    /\ status \in {"building", "ready", "skipped", "crashed"}

\* Each ordered pair of GPUs is served by one command, once; with swap each
\* unordered pair is, since swapping a pair twice would undo the exchange.
EveryTransferOnce ==
    Ready =>
      LET Served == [i \in Gpus(input) |->
                       UNION {{n} \X DOMAIN List(i)[n].dests : n \in DOMAIN List(i)}]
          Times(i, j) == Cardinality({x \in Served[i] : List(i)[x[1]].dests[x[2]] = j})
      IN  \A i, j \in Gpus(input) :
            Times(i, j) + (IF IsSwap(input) THEN Times(j, i) ELSE 0) = IF i = j THEN 0 ELSE 1

\* When all commands have completed, the spin loop's count equals its target:
\* it neither leaves early nor waits for ever, although it tests for equality.
CountMeetsTarget == Ready => CountedWeight = DoneTarget

\* Slot i * num_cmds + ci belongs to one command only, the loops up to
\* num_cmds stay inside every list, and with one trigger per command all
\* signals fit the signal buffer.
SlotsSuffice ==
    Ready => /\ \A i \in Gpus(input) : IF IsSwap(input) THEN Len(List(i)) <= NumCmds
                                                        ELSE Len(List(i)) = NumCmds
             /\ 2 * NodeCount(input) * NumCmds <= SignalSlots

\* spinWait "records per-completion timestamps": each has its place in the
\* vector `times', which logTimes reads.
TimesSuffice == Ready => TimesUsed <= TimesLen

\* The b2b collectives are skipped when "DMA IDs specified less than required".
EnoughEngineIds == status # "crashed"
=============================================================================
