----------------------------- MODULE PacketFifo -----------------------------
(***************************************************************************)
(* What an SDMA queue promises its user: packets placed on it stay with    *)
(* the CPU until they are submitted, and the engine then receives every    *)
(* submitted packet whole, exactly once and in the order of placement.     *)
(* Whatever the queue cannot take ends the process (CHECK_GE exits), never *)
(* silently drops or damages a packet.                                     *)
(***************************************************************************)
EXTENDS Sequences

CONSTANT Packets        \* what may be placed

VARIABLES staged,       \* placed, not yet submitted
          queued,       \* submitted, not yet read by the engine
          received,     \* the packet the engine read last
          exited        \* the process has ended in a failed CHECK_GE

fifoVars == <<staged, queued, received, exited>>

NoPacket == [start |-> 0, size |-> 0]   \* nothing received yet

Init == /\ staged = <<>>
        /\ queued = <<>>
        /\ received = NoPacket
        /\ exited = FALSE

Place(p) == /\ ~exited
            /\ staged' = Append(staged, p)
            /\ UNCHANGED <<queued, received, exited>>

Submit == /\ ~exited
          /\ queued' = queued \o staged
          /\ staged' = <<>>
          /\ UNCHANGED <<received, exited>>

Receive == /\ queued # <<>>
           /\ received' = Head(queued)
           /\ queued' = Tail(queued)
           /\ UNCHANGED <<staged, exited>>

Exit == /\ ~exited
        /\ exited' = TRUE
        /\ UNCHANGED <<staged, queued, received>>

Next == \/ \E p \in Packets : Place(p)
        \/ Submit
        \/ Receive
        \/ Exit

\* The engine keeps reading what it was given.
Spec == Init /\ [][Next]_fifoVars /\ WF_fifoVars(Receive)
=============================================================================
