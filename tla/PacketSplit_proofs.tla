------------------------- MODULE PacketSplit_proofs -------------------------
(***************************************************************************)
(* For every packet limit and every surface up to Word - Gig bytes, the    *)
(* loop of the packet constructors stays inside its allocation, fills it,  *)
(* and handles every byte exactly once.                                    *)
(***************************************************************************)
EXTENDS PacketSplit, TLAPS

-----------------------------------------------------------------------------
(* Arithmetic.                                                             *)

\* What a rounded-up quotient is: the number of pieces a length needs.
LEMMA RoundUp ==
  ASSUME NEW g \in Nat \ {0}, NEW n \in Nat
  PROVE  LET q == (n + g - 1) \div g
         IN  q \in Nat /\ n <= q * g /\ (q - 1) * g < n
<1> DEFINE x == n + g - 1
           q == x \div g
<1>1. x \in Nat /\ q \in Int
  OBVIOUS
<1>2. x = g * q + (x % g) /\ x % g \in 0 .. g - 1
  BY <1>1
<1>3. q \in Nat
  BY <1>1
<1>4. g * q = q * g /\ (q - 1) * g = q * g - g
  BY <1>1
<1> QED
  BY <1>1, <1>2, <1>3, <1>4

\* One piece less.
LEMMA OneLess ==
  ASSUME NEW g \in Nat, NEW k \in Int
  PROVE  (k - 1) * g = k * g - g
  OBVIOUS

\* Something left to write means that room is left.
LEMMA PositiveFactor ==
  ASSUME NEW g \in Nat, NEW k \in Int, k * g > 0
  PROVE  k >= 1
  OBVIOUS

\* Nothing left to write means that no room is left over.
LEMMA NegativeFactor ==
  ASSUME NEW g \in Nat \ {0}, NEW k \in Int, k * g < 0
  PROVE  k < 0
  OBVIOUS

-----------------------------------------------------------------------------
(* The inductive invariant.                                                *)

Packet == [src : Nat, dst : Nat, count : Nat]

SplitTypeOK ==
    /\ asked \in Nat
    /\ surfsize \in Nat
    /\ src \in Nat
    /\ dst \in Nat
    /\ room \in Nat
    /\ packets \in Seq(Packet)

\* The room left is what the rest of the surface needs, rounded up.
RoomLeft ==
    /\ surfsize <= (room - Len(packets)) * Gig
    /\ (room - Len(packets) - 1) * Gig < surfsize

\* Addresses advance together, and what is done and what is left make up
\* the surface.
Progress == src = dst /\ dst + surfsize = asked

\* The packets written so far cover what is done, each byte once.
Written ==
    /\ \A n \in 1 .. Len(packets) :
         /\ packets[n].src = packets[n].dst
         /\ packets[n].count < Gig
         /\ packets[n].dst + packets[n].count < dst
    /\ \A m, n \in 1 .. Len(packets) :
         m < n => packets[m].dst + packets[m].count < packets[n].dst
    /\ \A b \in 0 .. dst - 1 : \E n \in 1 .. Len(packets) :
         packets[n].dst <= b /\ b <= packets[n].dst + packets[n].count

SplitInv == SplitTypeOK /\ RoomLeft /\ Progress /\ Written

\* The engine's view of a count that fits its field.
LEMMA SmallCount ==
  ASSUME NEW c \in Nat, c < Gig
  PROVE  c % Gig = c
  BY SplitAssumption

-----------------------------------------------------------------------------
(* The steps.                                                              *)

\* A new packet object: nothing written, room for all of the surface.
LEMMA ConstructEstablishesInv ==
  ASSUME NEW n \in Lengths, Construct(n)
  PROVE  SplitInv'
<1>1. /\ n \in Nat /\ n <= Word - Gig
      /\ Gig \in Nat \ {0} /\ Word \in Nat
  BY SplitAssumption
<1>2. n % Word = n
  BY <1>1
<1>3. (n + Gig - 1) % Word = n + Gig - 1
  BY <1>1
<1>4. /\ asked' = n /\ surfsize' = n /\ src' = 0 /\ dst' = 0
      /\ room' = (n + Gig - 1) \div Gig /\ packets' = <<>>
  BY <1>2, <1>3 DEF Construct, RoomFor
<1>5. room' \in Nat /\ n <= room' * Gig /\ (room' - 1) * Gig < n
  BY <1>1, <1>4, RoundUp
<1>6. Len(packets') = 0 /\ packets' \in Seq(Packet)
  BY <1>4
<1>7. SplitTypeOK'
  BY <1>1, <1>4, <1>5, <1>6 DEF SplitTypeOK
<1>8. RoomLeft'
  BY <1>4, <1>5, <1>6 DEF RoomLeft
<1>9. Progress'
  BY <1>1, <1>4 DEF Progress
<1>10. Written'
  BY <1>4, <1>6 DEF Written
<1> QED
  BY <1>7, <1>8, <1>9, <1>10 DEF SplitInv

\* Before the first call there is neither surface nor allocation.
LEMMA InitEstablishesInv == SplitInit => SplitInv
<1> SUFFICES ASSUME SplitInit PROVE SplitInv
  OBVIOUS
<1>1. /\ asked = 0 /\ surfsize = 0 /\ src = 0 /\ dst = 0 /\ room = 0
      /\ packets = <<>> /\ Len(packets) = 0 /\ packets \in Seq(Packet)
  BY DEF SplitInit
<1>2. Gig \in Nat \ {0}
  BY SplitAssumption
<1> QED
  BY <1>1, <1>2 DEF SplitInv, SplitTypeOK, RoomLeft, Progress, Written

\* The piece a packet handles.
LEMMA PieceSize ==
  ASSUME SplitInv, surfsize > 0
  PROVE  /\ Piece \in 1 .. Gig
         /\ Piece <= surfsize
         /\ Piece = Gig \/ Piece = surfsize
         /\ Count(Piece) \in Nat /\ Count(Piece) = Piece - 1
  BY SplitAssumption DEF SplitInv, SplitTypeOK, Piece, Count

\* One packet more, one place less: both sides of RoomLeft lose one piece,
\* and a last piece shorter than Gig leaves nothing.
LEMMA WriteKeepsRoomLeft ==
  ASSUME SplitInv, WritePacket
  PROVE  RoomLeft'
<1> DEFINE k == room - Len(packets)
<1>1. /\ Gig \in Nat \ {0} /\ surfsize \in Nat /\ surfsize > 0
      /\ packets \in Seq(Packet) /\ room \in Nat
  BY SplitAssumption DEF SplitInv, SplitTypeOK, WritePacket
<1>2. Len(packets) \in Nat /\ Len(packets') = Len(packets) + 1 /\ k \in Int
  BY <1>1 DEF WritePacket
<1>3. surfsize <= k * Gig /\ (k - 1) * Gig < surfsize
  BY DEF SplitInv, RoomLeft
<1>4. surfsize' = surfsize - Piece /\ room' - Len(packets') = k - 1
  BY <1>1, <1>2 DEF WritePacket
<1>5. (k - 1) * Gig = k * Gig - Gig /\ (k - 1 - 1) * Gig = (k - 1) * Gig - Gig
  BY <1>1, <1>2, OneLess
<1>6. k * Gig \in Int /\ (k - 1) * Gig \in Int
  BY <1>1, <1>2
<1> HIDE DEF k
<1>7. surfsize' <= (k - 1) * Gig /\ (k - 1 - 1) * Gig < surfsize'
  <2>1. CASE surfsize > Gig
    <3>1. Piece = Gig
      BY <2>1 DEF Piece
    <3> QED
      BY <3>1, <1>1, <1>3, <1>4, <1>5, <1>6
  <2>2. CASE ~(surfsize > Gig)
    <3>1. surfsize' = 0
      BY <2>2, <1>1, <1>4 DEF Piece
    <3>2. k * Gig > 0
      BY <1>1, <1>3, <1>6
    <3>3. k >= 1
      BY <3>2, <1>1, <1>2, PositiveFactor DEF k
    <3>4. (k - 1) * Gig >= 0
      BY <3>3, <1>1, <1>2 DEF k
    <3>5. (k - 1) * Gig < Gig
      BY <2>2, <1>1, <1>3, <1>6
    <3> QED
      BY <3>1, <3>4, <3>5, <1>1, <1>5, <1>6
  <2> QED
    BY <2>1, <2>2
<1> QED
  BY <1>4, <1>7 DEF RoomLeft

\* The new packet starts where the last one ended and covers its piece.
LEMMA WriteKeepsWritten ==
  ASSUME SplitInv, WritePacket
  PROVE  Written'
<1> DEFINE new == [src |-> src, dst |-> dst, count |-> Count(Piece)]
           len == Len(packets)
<1>1. /\ packets \in Seq(Packet) /\ src = dst /\ dst \in Nat /\ Gig \in Nat \ {0}
      /\ surfsize > 0
  BY SplitAssumption DEF SplitInv, SplitTypeOK, Progress, WritePacket
<1>2. Piece \in 1 .. Gig /\ Count(Piece) \in Nat /\ Count(Piece) = Piece - 1
  BY <1>1, PieceSize
<1>3. packets' = Append(packets, new) /\ dst' = dst + Piece
  BY DEF WritePacket
<1>4. len \in Nat /\ Len(packets') = len + 1
  BY <1>1, <1>3
<1>5. /\ packets'[len + 1] = new
      /\ \A n \in 1 .. len : packets'[n] = packets[n] /\ packets[n] \in Packet
  BY <1>1, <1>3, <1>4
<1>6. /\ new.src = dst /\ new.dst = dst /\ new.count = Piece - 1
  BY <1>1, <1>2
<1>7. \A n \in 1 .. len : /\ packets[n].dst \in Nat /\ packets[n].count \in Nat
                          /\ packets[n].src = packets[n].dst
                          /\ packets[n].count < Gig
                          /\ packets[n].dst + packets[n].count < dst
  BY <1>5 DEF SplitInv, Written, Packet
<1> HIDE DEF new, len
<1>8. \A n \in 1 .. len + 1 :
        /\ packets'[n].src = packets'[n].dst
        /\ packets'[n].count < Gig
        /\ packets'[n].dst + packets'[n].count < dst'
  <2> TAKE n \in 1 .. len + 1
  <2>1. CASE n \in 1 .. len
    <3>1. packets'[n] = packets[n]
      BY <2>1, <1>5
    <3>2. /\ packets[n].dst \in Nat /\ packets[n].count \in Nat
          /\ packets[n].src = packets[n].dst /\ packets[n].count < Gig
          /\ packets[n].dst + packets[n].count < dst
      BY <2>1, <1>7
    <3>3. dst <= dst'
      BY <1>1, <1>2, <1>3
    <3>4. packets[n].dst + packets[n].count < dst'
      BY <3>2, <3>3, <1>1, <1>2, <1>3
    <3> QED
      BY <3>1, <3>2, <3>4
  <2>2. CASE n = len + 1
    BY <2>2, <1>1, <1>2, <1>3, <1>5, <1>6
  <2> QED
    BY <2>1, <2>2, <1>4
<1>9. \A m, n \in 1 .. len + 1 :
        m < n => packets'[m].dst + packets'[m].count < packets'[n].dst
  <2> TAKE m, n \in 1 .. len + 1
  <2> HAVE m < n
  <2>1. CASE n \in 1 .. len
    BY <2>1, <1>4, <1>5 DEF SplitInv, Written, len
  <2>2. CASE n = len + 1
    <3>1. m \in 1 .. len
      BY <2>2, <1>4
    <3> QED
      BY <3>1, <2>2, <1>5, <1>6, <1>7
  <2> QED
    BY <2>1, <2>2, <1>4
<1>10. \A b \in 0 .. dst' - 1 : \E n \in 1 .. len + 1 :
         packets'[n].dst <= b /\ b <= packets'[n].dst + packets'[n].count
  <2> TAKE b \in 0 .. dst' - 1
  <2>1. CASE b < dst
    <3>1. PICK n \in 1 .. len : packets[n].dst <= b /\ b <= packets[n].dst + packets[n].count
      BY <2>1, <1>1 DEF SplitInv, Written, len
    <3> QED
      BY <3>1, <1>4, <1>5
  <2>2. CASE ~(b < dst)
    <3>1. dst <= b /\ b <= dst + (Piece - 1)
      BY <2>2, <1>1, <1>2, <1>3
    <3> QED
      BY <3>1, <1>4, <1>5, <1>6
  <2> QED
    BY <2>1, <2>2
<1> QED
  BY <1>4, <1>8, <1>9, <1>10 DEF Written

LEMMA WriteKeepsInv ==
  ASSUME SplitInv, WritePacket
  PROVE  SplitInv'
<1>1. Piece \in 1 .. Gig /\ Piece <= surfsize /\ Count(Piece) \in Nat
  BY PieceSize DEF WritePacket
<1>2. Gig \in Nat
  BY SplitAssumption
<1>3. SplitTypeOK'
  BY <1>1, <1>2 DEF SplitInv, SplitTypeOK, WritePacket, Packet
<1>4. Progress'
  BY <1>1, <1>2 DEF SplitInv, SplitTypeOK, Progress, WritePacket
<1> QED
  BY <1>3, <1>4, WriteKeepsRoomLeft, WriteKeepsWritten DEF SplitInv

\* The loop of the constructors keeps its invariant, whatever surfaces are
\* asked for: the room left fits what is left, and what is written is done.
THEOREM SplitInvariant == SplitSpec => []SplitInv
<1>1. SplitInit => SplitInv
  BY InitEstablishesInv
<1>2. SplitInv /\ [SplitNext]_splitVars => SplitInv'
  <2> SUFFICES ASSUME SplitInv, [SplitNext]_splitVars PROVE SplitInv'
    OBVIOUS
  <2>1. CASE ConstructNext
    BY <2>1, ConstructEstablishesInv DEF ConstructNext
  <2>2. CASE WritePacket
    BY <2>2, WriteKeepsInv
  <2>3. CASE UNCHANGED splitVars
    BY <2>3 DEF splitVars, SplitInv, SplitTypeOK, RoomLeft, Progress, Written
  <2> QED
    BY <2>1, <2>2, <2>3 DEF SplitNext
<1> QED
  BY <1>1, <1>2, PTL DEF SplitSpec

-----------------------------------------------------------------------------
(* What the invariant implies.                                             *)

LEMMA InvWithin == SplitInv => WithinAllocation
<1> SUFFICES ASSUME SplitInv PROVE WithinAllocation
  OBVIOUS
<1> DEFINE k == room - Len(packets)
<1>1. /\ Gig \in Nat \ {0} /\ surfsize \in Nat /\ room \in Nat
      /\ Len(packets) \in Nat /\ k \in Int
  BY SplitAssumption DEF SplitInv, SplitTypeOK
<1>2. surfsize <= k * Gig /\ (k - 1) * Gig < surfsize /\ k * Gig \in Int
  BY <1>1 DEF SplitInv, RoomLeft
<1>3. k >= 0
  BY <1>1, <1>2, NegativeFactor
<1>4. surfsize = 0 => k - 1 < 0
  BY <1>1, <1>2, NegativeFactor
<1> QED
  BY <1>1, <1>3, <1>4 DEF WithinAllocation

LEMMA InvCovers == SplitInv => CoversOnce
<1> SUFFICES ASSUME SplitInv PROVE CoversOnce
  OBVIOUS
<1>1. /\ DOMAIN packets = 1 .. Len(packets) /\ Len(packets) \in Nat
      /\ dst \in Nat /\ surfsize \in Nat /\ dst + surfsize = asked
      /\ \A n \in DOMAIN packets : packets[n] \in Packet
  BY DEF SplitInv, SplitTypeOK, Progress
<1>2. \A n \in DOMAIN packets :
        /\ packets[n].src = packets[n].dst
        /\ packets[n].dst \in Nat /\ packets[n].count \in Nat
        /\ packets[n].dst + packets[n].count < dst
        /\ Bytes(packets[n]) = packets[n].dst .. packets[n].dst + packets[n].count
  BY <1>1, SmallCount DEF SplitInv, Written, Packet, Bytes
<1>3. \A m, n \in DOMAIN packets :
        m < n => Bytes(packets[m]) \cap Bytes(packets[n]) = {}
  <2> TAKE m, n \in DOMAIN packets
  <2> HAVE m < n
  <2>1. packets[m].dst + packets[m].count < packets[n].dst
    BY <1>1 DEF SplitInv, Written
  <2> QED
    BY <2>1, <1>2
<1>4. \A m, n \in DOMAIN packets :
        m # n => Bytes(packets[m]) \cap Bytes(packets[n]) = {}
  <2> TAKE m, n \in DOMAIN packets
  <2> HAVE m # n
  <2>1. m < n \/ n < m
    BY <1>1
  <2> QED
    BY <2>1, <1>3
<1>5. ASSUME surfsize = 0
      PROVE  UNION {Bytes(packets[n]) : n \in DOMAIN packets} = 0 .. asked - 1
  <2>1. dst = asked
    BY <1>1, <1>5
  <2>2. \A n \in DOMAIN packets : Bytes(packets[n]) \subseteq 0 .. dst - 1
    BY <1>1, <1>2
  <2>3. \A b \in 0 .. dst - 1 : \E n \in DOMAIN packets : b \in Bytes(packets[n])
    <3> TAKE b \in 0 .. dst - 1
    <3>1. PICK n \in 1 .. Len(packets) :
            packets[n].dst <= b /\ b <= packets[n].dst + packets[n].count
      BY DEF SplitInv, Written
    <3> QED
      BY <3>1, <1>1, <1>2
  <2> QED
    BY <2>1, <2>2, <2>3
<1> QED
  BY <1>2, <1>4, <1>5 DEF CoversOnce

\* The packets never overrun their allocation, and fill it in the end, for
\* every surface of up to Word - Gig bytes (3 GiB).
THEOREM StaysWithin == SplitSpec => []WithinAllocation
<1>1. SplitSpec => []SplitInv
  BY SplitInvariant
<1>2. SplitInv => WithinAllocation
  BY InvWithin
<1> QED
  BY <1>1, <1>2, PTL

\* Every byte of the surface is handled by one packet, once.
THEOREM EveryByteOnce == SplitSpec => []CoversOnce
<1>1. SplitSpec => []SplitInv
  BY SplitInvariant
<1>2. SplitInv => CoversOnce
  BY InvCovers
<1> QED
  BY <1>1, <1>2, PTL
=============================================================================
