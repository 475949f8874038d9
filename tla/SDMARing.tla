------------------------------ MODULE SDMARing ------------------------------
(***************************************************************************)
(* The ring buffer of one SDMA queue: BaseQueue::PlacePacket and           *)
(* SDMAQueue::SubmitPacket on the CPU, and the engine that reads the ring. *)
(*                                                                         *)
(* A ring slot is one dword.  It holds either NOP (CMD_NOP, which is also  *)
(* what the zeroed buffer holds) or dword number `off' of the packet that  *)
(* was placed at 64-bit position `start' and is `size' dwords long; the    *)
(* words of a packet matter only through where they belong.  Pointers are  *)
(* counted in dwords: the byte values the code stores are these times      *)
(* sizeof(unsigned int), and Rptr divides them back.                       *)
(*                                                                         *)
(* A definition marked `variant' is not part of the model: it is what the  *)
(* next one would be with a plausible slip in the code, and some property  *)
(* below fails when it takes its place (README, section Variants).         *)
(***************************************************************************)
EXTENDS Sorted, Sequences

CONSTANTS QueueSize,    \* queueSizeInDWord
          PacketSizes,  \* sizes in dwords of the packets callers place
          Word,         \* 2^32 in dwords of read pointer: Rptr reads the low word
          MaxWptr       \* bound: no packet is placed that ends beyond this position

ASSUME RingAssumption ==
    /\ QueueSize \in Nat \ {0}
    /\ PacketSizes \subseteq Nat \ {0}
    /\ Word \in Nat \ {0}
    /\ MaxWptr \in Nat

\* Buffer sizes are powers of two (4KB, 2MB), so they divide 2^32.
ASSUME WordAssumption == Word % QueueSize = 0

VARIABLES legacyWptr,       \* m_FamilyId < FAMILY_AI: the submitted pointer is wrapped
          ring,             \* m_QueueBuf
          m_pendingWptr,    \* next free slot, wrapped
          m_pendingWptr64,  \* the same position, never wrapped
          writePtr,         \* *Queue_write_ptr and the doorbell
          readPtr,          \* *Queue_read_ptr, written back by the engine
          fetch,            \* the engine's own position in the ring
          last,             \* the dwords of the packet the engine read last
          exited            \* a CHECK_GE failed and the process exited

vars == <<legacyWptr, ring, m_pendingWptr, m_pendingWptr64, writePtr, readPtr, fetch, last, exited>>

Slots    == 0 .. QueueSize - 1
NOP      == [start |-> 0, size |-> 0, off |-> 0]
Dword(start, size, off) == [start |-> start, size |-> size, off |-> off]
SlotContents == {NOP} \cup [start : Nat, size : Nat \ {0}, off : Nat]

-----------------------------------------------------------------------------
(* The CPU side.                                                           *)

\* The read pointer as PlacePacket sees it: low word of the value last
\* written back, modulo the ring.
Rptr == (readPtr % Word) % QueueSize

\* A packet that would cross the end of the ring goes to its start, and the
\* slots up to the end are filled with NOPs.
WrapsEarly(size) == m_pendingWptr + size >= QueueSize      \* variant
Wraps(size)    == m_pendingWptr + size > QueueSize
Padding(size)  == IF Wraps(size) THEN QueueSize - m_pendingWptr ELSE 0
RequiredUnpadded(size) == size                             \* variant
Required(size) == size + Padding(size)
Available      == (Rptr - 1 - m_pendingWptr + QueueSize) % QueueSize
Fits(size)     == Available >= Required(size) /\ QueueSize >= size

\* Where the packet lands: its wrapped slot and its 64-bit position.
Offset(size)   == IF Wraps(size) THEN 0 ELSE m_pendingWptr
StartUnpadded(size) == m_pendingWptr64                     \* variant
Start(size)    == m_pendingWptr64 + Padding(size)
NextWptr(size) == (Offset(size) + size) % QueueSize

PlacePacket(size) ==
    /\ ~exited
    /\ Start(size) + size <= MaxWptr
    /\ Fits(size)
    /\ ring' = [a \in Slots |->
                  IF a - Offset(size) \in 0 .. size - 1
                  THEN Dword(Start(size), size, a - Offset(size))
                  ELSE IF Wraps(size) /\ a >= m_pendingWptr THEN NOP ELSE ring[a]]
    /\ m_pendingWptr' = NextWptr(size)
    /\ m_pendingWptr64' = Start(size) + size
    /\ UNCHANGED <<legacyWptr, writePtr, readPtr, fetch, last, exited>>

\* "Cannot add a packet": CHECK_GE exits the process.
Overrun(size) ==
    /\ ~exited
    /\ ~Fits(size)
    /\ exited' = TRUE
    /\ UNCHANGED <<legacyWptr, ring, m_pendingWptr, m_pendingWptr64, writePtr, readPtr, fetch, last>>

\* What the doorbell is rung with: wrapped before Vega10, 64-bit since.
DoorbellSwapped   == IF legacyWptr THEN m_pendingWptr64 ELSE m_pendingWptr  \* variant
DoorbellWptr == IF legacyWptr THEN m_pendingWptr ELSE m_pendingWptr64

SubmitPacket ==
    /\ ~exited
    /\ writePtr' = DoorbellWptr
    /\ UNCHANGED <<legacyWptr, ring, m_pendingWptr, m_pendingWptr64, readPtr, fetch, last, exited>>

-----------------------------------------------------------------------------
(* The engine, as the code relies on it (the hardware is not in src/).     *)

HasWork == IF legacyWptr THEN fetch % QueueSize # writePtr ELSE fetch # writePtr
Header  == ring[fetch % QueueSize]

SkipNop ==
    /\ HasWork
    /\ Header = NOP
    /\ fetch' = fetch + 1
    /\ UNCHANGED <<legacyWptr, ring, m_pendingWptr, m_pendingWptr64, writePtr, readPtr, last, exited>>

FetchPacket ==
    /\ HasWork
    /\ Header # NOP
    /\ last' = [k \in 1 .. Header.size |-> ring[(fetch + k - 1) % QueueSize]]
    /\ fetch' = fetch + Header.size
    /\ UNCHANGED <<legacyWptr, ring, m_pendingWptr, m_pendingWptr64, writePtr, readPtr, exited>>

\* The engine writes its read pointer back some time after it advanced.
WriteBack ==
    /\ readPtr' = IF legacyWptr THEN fetch % QueueSize ELSE fetch
    /\ UNCHANGED <<legacyWptr, ring, m_pendingWptr, m_pendingWptr64, writePtr, fetch, last, exited>>

-----------------------------------------------------------------------------
Init == /\ legacyWptr \in BOOLEAN
        /\ ring = [a \in Slots |-> NOP]
        /\ m_pendingWptr = 0
        /\ m_pendingWptr64 = 0
        /\ writePtr = 0
        /\ readPtr = 0
        /\ fetch = 0
        /\ last = <<>>
        /\ exited = FALSE

Engine == SkipNop \/ FetchPacket \/ WriteBack

Next == \/ \E size \in PacketSizes : PlacePacket(size) \/ Overrun(size)
        \/ SubmitPacket
        \/ Engine

Spec == Init /\ [][Next]_vars
             /\ WF_vars(SkipNop \/ FetchPacket) /\ WF_vars(WriteBack)

-----------------------------------------------------------------------------
(* Properties.                                                             *)

\* Every variable has its type.
TypeOK ==
    /\ legacyWptr \in BOOLEAN
    /\ ring \in [Slots -> SlotContents]
    /\ m_pendingWptr \in Slots
    /\ m_pendingWptr64 \in Nat
    /\ writePtr \in Nat
    /\ readPtr \in Nat
    /\ fetch \in Nat
    /\ last \in Seq(SlotContents)
    /\ exited \in BOOLEAN

\* The wrapped and the 64-bit pending pointer name the same slot, and the CPU
\* is never a full ring ahead of the engine: `all read' and `all full' cannot
\* be confused, which is what the -1 in dwordsAvailable is for.
PointersAgree ==
    /\ m_pendingWptr = m_pendingWptr64 % QueueSize
    /\ fetch <= m_pendingWptr64
    /\ m_pendingWptr64 - fetch < QueueSize

\* Slot a still holds what the CPU put at position p: a NOP, or a word of a
\* packet that lies between the engine and the pending pointer, in one piece.
HoldsPlaced(p) ==
    LET d == ring[p % QueueSize] IN
    d # NOP =>
      /\ d.start + d.off = p /\ d.off < d.size
      /\ fetch <= d.start /\ d.start + d.size <= m_pendingWptr64
      /\ (d.start % QueueSize) + d.size <= QueueSize
      /\ \A k \in 0 .. d.size - 1 :
           ring[(d.start % QueueSize) + k] = Dword(d.start, d.size, k)

\* No packet is overwritten, torn or split across the ring's end between
\* PlacePacket and the engine's read, whatever the engine has written back
\* of its progress.
UnreadIntact == \A p \in fetch .. m_pendingWptr64 - 1 : HoldsPlaced(p)

\* Why those hold.  readPtr is a position r the engine has reached, less than a
\* ring behind the CPU; writePtr is a position s the CPU has reached, and no
\* unread packet lies across s, so the engine stops at packet boundaries.
ReadPtrOk ==
    \E r \in 0 .. fetch :
      /\ m_pendingWptr64 - r < QueueSize
      /\ readPtr = IF legacyWptr THEN r % QueueSize ELSE r

SubmitOk ==
    \E s \in fetch .. m_pendingWptr64 :
      /\ writePtr = IF legacyWptr THEN s % QueueSize ELSE s
      /\ \A p \in fetch .. m_pendingWptr64 - 1 :
           LET d == ring[p % QueueSize] IN
           d # NOP => d.start >= s \/ d.start + d.size <= s

RingInv == TypeOK /\ PointersAgree /\ UnreadIntact /\ ReadPtrOk /\ SubmitOk

\* However old the read pointer it consults, PlacePacket accepts a packet if
\* the slots not known to be read and twice the packet fit the ring: an idle
\* queue takes any packet of half a ring wherever the pending pointer stands,
\* and one that waits for idle between batches never exits on an overrun.
\* (A packet longer than half a ring may be refused by an empty ring.)
RoomUnlessBusy ==
    \A size \in PacketSizes :
      ((m_pendingWptr - readPtr) % QueueSize) + 2 * size <= QueueSize => Fits(size)

-----------------------------------------------------------------------------
(* The ring implements PacketFifo: a queue's content is what the engine    *)
(* would find by walking the ring.                                         *)

\* The 64-bit position up to which the ring has been submitted.
Submitted == IF legacyWptr THEN fetch + ((writePtr - fetch) % QueueSize) ELSE writePtr

\* The positions from..to-1 that hold a packet's header, and those packets in
\* order.
Heads(from, to) ==
    {p \in from .. to - 1 : ring[p % QueueSize] # NOP /\ ring[p % QueueSize].off = 0}
Walk(from, to) ==
    LET heads == Ascending[Heads(from, to)]
        At(k) == ring[heads[k] % QueueSize]
    IN  [k \in DOMAIN heads |-> [start |-> At(k).start, size |-> At(k).size]]

\* The packet the engine read last, if all its words were its own.
Received ==
    IF last = <<>> THEN [start |-> 0, size |-> 0]
    ELSE IF \A k \in 1 .. Len(last) : last[k] = Dword(last[1].start, Len(last), k - 1)
         THEN [start |-> last[1].start, size |-> Len(last)]
         ELSE [start |-> -1, size |-> Len(last)]

Fifo == INSTANCE PacketFifo
          WITH Packets  <- [start : 0 .. MaxWptr, size : PacketSizes],
               staged   <- Walk(Submitted, m_pendingWptr64),
               queued   <- Walk(fetch, Submitted),
               received <- Received,
               exited   <- exited

\* The ring hands the engine exactly the submitted packets, whole, once, in
\* order, and eventually.
ImplementsFifo == Fifo!Spec
=============================================================================
