--------------------------- MODULE CollectiveSpec ---------------------------
(***************************************************************************)
(* What a collective promises, whatever engines and signals carry it: in   *)
(* every iteration each GPU's chunk reaches every other GPU exactly once   *)
(* and stays there, an iteration counts as complete only when all of them  *)
(* have arrived, and the buffers are given up only after all iterations.   *)
(***************************************************************************)
EXTENDS Integers, FiniteSets

CONSTANTS Gpus,         \* the GPUs taking part
          NumIter       \* iterations per size

VARIABLES stage,        \* "setup" (no usable buffers) or "running"
          completed,    \* iterations completed with these buffers
          arrived       \* <<src, dst>> pairs served in the iteration under way

specVars == <<stage, completed, arrived>>

Transfers == {t \in Gpus \X Gpus : t[1] # t[2]}

Init == stage = "setup" /\ completed = 0 /\ arrived = {}

\* Buffers of the next size are allocated and filled.
Prepare == /\ stage = "setup"
           /\ stage' = "running"
           /\ UNCHANGED <<completed, arrived>>

\* One DMA command serves one pair, or several at once (broadcast, swap).
Move == /\ stage = "running"
        /\ completed < NumIter
        /\ arrived' \in SUBSET Transfers
        /\ arrived \subseteq arrived' /\ arrived' # arrived
        /\ UNCHANGED <<stage, completed>>

Complete == /\ stage = "running"
            /\ completed < NumIter
            /\ arrived = Transfers
            /\ completed' = completed + 1
            /\ arrived' = {}
            /\ UNCHANGED stage

Release == /\ stage = "running"
           /\ completed = NumIter
           /\ stage' = "setup"
           /\ completed' = 0
           /\ UNCHANGED arrived

Next == Prepare \/ Move \/ Complete \/ Release

\* What is started is brought to its end.
Spec == Init /\ [][Next]_specVars /\ WF_specVars(Move \/ Complete \/ Release)
=============================================================================
