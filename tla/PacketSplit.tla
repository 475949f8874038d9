---------------------------- MODULE PacketSplit -----------------------------
(***************************************************************************)
(* The constructors of copy, swap and fill packets (SDMAPacket.cpp): they  *)
(* allocate room for ceil(surfsize / 1 GiB) packets and then write packets *)
(* of at most 1 GiB into it until nothing of the surface is left.  The     *)
(* three loops are the same; a fill has no source, a swap two targets.     *)
(*                                                                         *)
(* Sizes are `unsigned int': what a caller passes is taken modulo Word,    *)
(* and so is the sum that the allocation divides.                          *)
(***************************************************************************)
EXTENDS Integers, Sequences

CONSTANTS Gig,       \* ONE_GIG: bytes of one packet, also the range of its count
          Word,      \* 2^32
          Lengths    \* the surface sizes callers ask for

ASSUME SplitAssumption ==
    /\ Gig \in Nat \ {0}
    /\ Word \in Nat
    /\ Gig <= Word
    /\ Lengths \subseteq 0 .. Word - Gig

VARIABLES asked,     \* the surface size the constructor was called with
          surfsize,  \* what is left of it
          src, dst,  \* the addresses of the next packet, relative to the first
          room,      \* packets that fit the allocation
          packets    \* the packets written

splitVars == <<asked, surfsize, src, dst, room, packets>>

-----------------------------------------------------------------------------
(* Dwords of a packet, from sdma_pkt_struct.h.                             *)

CopyDwords(n) == 5 + 2 * n      \* n destinations
SwapDwords == 7
PollDwords == 6
FenceDwords == 4
AtomicDwords == 8
FillDwordsOfSwap == SwapDwords   \* variant: sized as another packet
FillDwords == 5
TimeDwords == 3

-----------------------------------------------------------------------------
(* The constructors.                                                       *)

\* Packets allocated; SDMA_COUNT, the count field of a packet.
RoomRoundedDown(n) == n \div Gig                       \* variant
RoomFor(n) == ((n + Gig - 1) % Word) \div Gig
CountOneBased(n) == n                                  \* variant: before AI
Count(n) == n - 1

PieceUnlimited == surfsize                             \* variant
Piece == IF surfsize > Gig THEN Gig ELSE surfsize

Construct(n) ==
    /\ asked' = n
    /\ surfsize' = n % Word
    /\ src' = 0
    /\ dst' = 0
    /\ room' = RoomFor(n % Word)
    /\ packets' = <<>>

WritePacket ==
    /\ surfsize > 0
    /\ packets' = Append(packets, [src |-> src, dst |-> dst, count |-> Count(Piece)])
    /\ src' = src + Piece
    /\ dst' = dst + Piece
    /\ surfsize' = surfsize - Piece
    /\ UNCHANGED <<asked, room>>

SplitInit ==
    /\ asked = 0 /\ surfsize = 0 /\ src = 0 /\ dst = 0
    /\ room = 0 /\ packets = <<>>

ConstructNext == surfsize = 0 /\ \E n \in Lengths : Construct(n)

SplitNext == ConstructNext \/ WritePacket
SplitSpec == SplitInit /\ [][SplitNext]_splitVars

-----------------------------------------------------------------------------
(* What the packets amount to.                                             *)

\* The bytes the engine handles for packet p: one more than its count field,
\* which has room for Gig values.
Bytes(p) == p.dst .. p.dst + (p.count % Gig)

\* The loop never writes a packet beyond the allocation, and at its end the
\* allocation holds as many packets as were written: the dwords PlacePacket
\* copies to the ring are exactly the packets.
WithinAllocation ==
    /\ Len(packets) <= room
    /\ surfsize = 0 => Len(packets) = room

\* No byte of a surface is handled by two packets; when the constructor is
\* done none is left out, and every byte comes from the same place in the
\* source.  (A swap repeated would undo itself, a copy past the end would
\* overwrite the neighbouring chunk.)
CoversOnce ==
    /\ \A n \in DOMAIN packets : packets[n].src = packets[n].dst
    /\ \A m, n \in DOMAIN packets :
         m # n => Bytes(packets[m]) \cap Bytes(packets[n]) = {}
    /\ surfsize = 0 =>
         UNION {Bytes(packets[n]) : n \in DOMAIN packets} = 0 .. asked - 1
=============================================================================
