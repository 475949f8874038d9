-------------------------- MODULE SDMARing_proofs ---------------------------
(***************************************************************************)
(* For every ring size, every set of packet sizes and both pointer         *)
(* formats: no packet is overwritten, torn or split before the engine has  *)
(* read it, and a queue that is idle enough accepts the next packet.       *)
(***************************************************************************)
EXTENDS SDMARing, QueueFacts

-----------------------------------------------------------------------------
(* Arithmetic of the wrapped pointers.                                     *)

\* The remainder is what is left beyond a multiple of the ring's size.
LEMMA ModOf ==
  ASSUME NEW Q \in Nat \ {0}, NEW d \in Int, NEW r \in 0 .. Q - 1
  PROVE  (Q * d + r) % Q = r
  OBVIOUS

\* Every position is a multiple of the ring's size plus its slot.
LEMMA DivMod ==
  ASSUME NEW Q \in Nat \ {0}, NEW a \in Int
  PROVE  \E d \in Int : \E r \in 0 .. Q - 1 : a = Q * d + r /\ a % Q = r
<1>1. a \div Q \in Int
  OBVIOUS
<1>2. a = Q * (a \div Q) + (a % Q)
  OBVIOUS
<1>3. a % Q \in 0 .. Q - 1
  OBVIOUS
<1> QED
  BY <1>1, <1>2, <1>3, Zenon

\* Adding without leaving the ring.
LEMMA ModAdd ==
  ASSUME NEW Q \in Nat \ {0}, NEW a \in Int, NEW k \in Int,
         0 <= (a % Q) + k, (a % Q) + k < Q
  PROVE  (a + k) % Q = (a % Q) + k
<1>1. PICK d \in Int, r \in 0 .. Q - 1 : a = Q * d + r /\ a % Q = r
  BY DivMod
<1>2. r + k \in 0 .. Q - 1
  BY <1>1
<1>3. a + k = Q * d + (r + k)
  BY <1>1
<1>4. (Q * d + (r + k)) % Q = r + k
  BY <1>2, ModOf
<1> QED
  BY <1>1, <1>3, <1>4

\* Two positions less than a ring apart share a slot only if they are equal.
LEMMA ModUnique ==
  ASSUME NEW Q \in Nat \ {0}, NEW a \in Int, NEW b \in Int,
         a % Q = b % Q, a <= b, b - a < Q
  PROVE  a = b
<1>1. PICK d \in Int, r \in 0 .. Q - 1 : a = Q * d + r /\ a % Q = r
  BY DivMod
<1>2. PICK e \in Int, t \in 0 .. Q - 1 : b = Q * e + t /\ b % Q = t
  BY DivMod
<1>3. r = t
  BY <1>1, <1>2
<1>4. b - a = Q * e - Q * d
  BY <1>1, <1>2, <1>3
<1>5. Q * e - Q * d = Q * (e - d)
  OBVIOUS
<1>6. 0 <= Q * (e - d) /\ Q * (e - d) < Q
  BY <1>4, <1>5
<1>7. e - d = 0
  BY <1>6
<1> QED
  BY <1>1, <1>2, <1>3, <1>7

\* Padding to the end of the ring leads to slot 0.
LEMMA ModPad ==
  ASSUME NEW Q \in Nat \ {0}, NEW a \in Int, NEW k \in 0 .. Q - 1
  PROVE  (a + (Q - (a % Q)) + k) % Q = k
<1>1. PICK d \in Int, r \in 0 .. Q - 1 : a = Q * d + r /\ a % Q = r
  BY DivMod
<1>2. Q * (d + 1) = Q * d + Q
  OBVIOUS
<1>3. a + (Q - r) + k = Q * (d + 1) + k
  BY <1>1, <1>2
<1>4. (Q * (d + 1) + k) % Q = k
  BY ModOf
<1> QED
  BY <1>1, <1>3, <1>4

\* The distance between two positions less than a ring apart.
LEMMA ModDiff ==
  ASSUME NEW Q \in Nat \ {0}, NEW a \in Int, NEW b \in Int, NEW c \in 0 .. Q - 1,
         b - a = c
  PROVE  ((b % Q) - (a % Q)) % Q = c /\ ((b % Q) - a) % Q = c
<1>1. PICK d \in Int, r \in 0 .. Q - 1 : a = Q * d + r /\ a % Q = r
  BY DivMod
<1>2. PICK e \in Int, t \in 0 .. Q - 1 : b = Q * e + t /\ b % Q = t
  BY DivMod
<1>3. Q * (d - e) = Q * d - Q * e
  OBVIOUS
<1>4. Q * (-e) = -(Q * e)
  OBVIOUS
<1>5. t - r = Q * (d - e) + c /\ t - a = Q * (-e) + c
  BY <1>1, <1>2, <1>3, <1>4
<1>6. (Q * (d - e) + c) % Q = c /\ (Q * (-e) + c) % Q = c
  BY ModOf
<1> QED
  BY <1>1, <1>2, <1>5, <1>6

\* Reading the low word of a pointer loses nothing when rings divide words.
LEMMA ModMod ==
  ASSUME NEW Q \in Nat \ {0}, NEW W \in Nat \ {0}, W % Q = 0, NEW a \in Int
  PROVE  (a % W) % Q = a % Q
<1>1. PICK k \in Int, z \in 0 .. Q - 1 : W = Q * k + z /\ W % Q = z
  BY DivMod
<1>2. PICK d \in Int, r \in 0 .. W - 1 : a = W * d + r /\ a % W = r
  BY DivMod
<1>3. PICK e \in Int, t \in 0 .. Q - 1 : r = Q * e + t /\ r % Q = t
  <2>1. r \in Int
    OBVIOUS
  <2> QED
    BY <2>1, DivMod
<1>4. W = Q * k
  BY <1>1
<1>5. W * d = Q * (k * d)
  BY <1>4
<1>6. Q * (k * d + e) = Q * (k * d) + Q * e
  OBVIOUS
<1>7. a = Q * (k * d + e) + t
  BY <1>2, <1>3, <1>5, <1>6
<1>8. k * d + e \in Int
  OBVIOUS
<1>9. (Q * (k * d + e) + t) % Q = t
  BY <1>8, ModOf
<1> QED
  BY <1>2, <1>3, <1>7, <1>9

\* Wrapping before adding makes no difference.
LEMMA ModShift ==
  ASSUME NEW Q \in Nat \ {0}, NEW a \in Int, NEW k \in Int
  PROVE  ((a % Q) + k) % Q = (a + k) % Q
<1>1. PICK d \in Int, r \in 0 .. Q - 1 : a = Q * d + r /\ a % Q = r
  BY DivMod
<1>2. PICK e \in Int, t \in 0 .. Q - 1 : r + k = Q * e + t /\ (r + k) % Q = t
  <2>1. r + k \in Int
    OBVIOUS
  <2> QED
    BY <2>1, DivMod
<1>3. Q * (d + e) = Q * d + Q * e
  OBVIOUS
<1>4. a + k = Q * (d + e) + t
  BY <1>1, <1>2, <1>3
<1>5. (Q * (d + e) + t) % Q = t
  BY ModOf
<1> QED
  BY <1>1, <1>2, <1>4, <1>5

\* What PlacePacket computes from a wrapped read pointer r and pending pointer p.
LEMMA ModRoom ==
  ASSUME NEW Q \in Nat \ {0}, NEW r \in Int, NEW p \in Int, NEW c \in 0 .. Q - 1,
         p - r = c
  PROVE  ((r % Q) - 1 - (p % Q) + Q) % Q = Q - 1 - c
<1>1. PICK d \in Int, t \in 0 .. Q - 1 : r = Q * d + t /\ r % Q = t
  BY DivMod
<1>2. PICK e \in Int, u \in 0 .. Q - 1 : p = Q * e + u /\ p % Q = u
  BY DivMod
<1>3. Q * (e - d) = Q * e - Q * d
  OBVIOUS
<1>4. t - 1 - u + Q = Q * (e - d) + (Q - 1 - c)
  BY <1>1, <1>2, <1>3
<1>5. (Q * (e - d) + (Q - 1 - c)) % Q = Q - 1 - c
  <2>1. Q - 1 - c \in 0 .. Q - 1 /\ e - d \in Int
    OBVIOUS
  <2> QED
    BY <2>1, ModOf
<1> QED
  BY <1>1, <1>2, <1>4, <1>5

\* A position inside the first ring is its own slot.
LEMMA ModSmall ==
  ASSUME NEW Q \in Nat \ {0}, NEW a \in 0 .. Q - 1
  PROVE  a % Q = a
OBVIOUS

-----------------------------------------------------------------------------
(* PlacePacket.                                                            *)

\* The dwords PlacePacket sees as available are those behind the position r the
\* read pointer stands for.
LEMMA RoomSeen ==
  ASSUME RingInv, NEW r \in 0 .. fetch, m_pendingWptr64 - r < QueueSize,
         readPtr = IF legacyWptr THEN r % QueueSize ELSE r
  PROVE  /\ m_pendingWptr64 - r \in 0 .. QueueSize - 1
         /\ Available = QueueSize - 1 - (m_pendingWptr64 - r)
         /\ (m_pendingWptr - readPtr) % QueueSize = m_pendingWptr64 - r
<1> DEFINE Q == QueueSize
<1>0. Q \in Nat \ {0} /\ Word \in Nat \ {0} /\ Word % Q = 0
  BY RingAssumption, WordAssumption
<1>1. r \in Int /\ r % Q \in 0 .. Q - 1 /\ readPtr \in Int /\ fetch \in Nat
      /\ m_pendingWptr64 \in Int /\ fetch <= m_pendingWptr64
      /\ m_pendingWptr = m_pendingWptr64 % Q /\ m_pendingWptr \in 0 .. Q - 1
  BY <1>0 DEF RingInv, TypeOK, PointersAgree, Slots
<1>2. PICK c \in 0 .. Q - 1 : m_pendingWptr64 - r = c
  BY <1>0, <1>1
<1>3. readPtr % Q = r % Q
  BY <1>0, <1>1, ModSmall
<1>4. Rptr = r % Q
  <2>1. (readPtr % Word) % Q = readPtr % Q
    BY <1>0, <1>1, ModMod
  <2> QED
    BY <2>1, <1>3 DEF Rptr
<1>5. Available = Q - 1 - c
  <2>0. r \in Int /\ m_pendingWptr64 \in Int /\ c \in 0 .. Q - 1
        /\ m_pendingWptr64 - r = c /\ Q \in Nat \ {0}
    BY <1>0, <1>1, <1>2
  <2>1. ((r % Q) - 1 - (m_pendingWptr64 % Q) + Q) % Q = Q - 1 - c
    BY <2>0, ModRoom, Zenon
  <2> QED
    BY <2>1, <1>1, <1>4 DEF Available
<1>6. (m_pendingWptr - readPtr) % Q = c
  <2>1. /\ ((m_pendingWptr64 % Q) - (r % Q)) % Q = c
        /\ ((m_pendingWptr64 % Q) - r) % Q = c
    BY <1>0, <1>1, <1>2, ModDiff, Zenon
  <2> QED
    BY <2>1, <1>1
<1> QED
  BY <1>2, <1>5, <1>6

\* So an accepted packet ends less than a ring beyond that position.
LEMMA PlaceRoom ==
  ASSUME RingInv, NEW size \in PacketSizes, Fits(size)
  PROVE  \E r \in 0 .. fetch :
           /\ Start(size) + size - r < QueueSize
           /\ readPtr = IF legacyWptr THEN r % QueueSize ELSE r
<1> DEFINE Q == QueueSize
<1>0. Q \in Nat \ {0} /\ size \in Nat \ {0}
  BY RingAssumption
<1>1. PICK r \in 0 .. fetch :
         /\ m_pendingWptr64 - r < Q
         /\ readPtr = IF legacyWptr THEN r % Q ELSE r
  BY DEF RingInv, ReadPtrOk
<1>2. fetch \in Nat /\ m_pendingWptr64 \in Nat /\ m_pendingWptr \in 0 .. Q - 1
  BY DEF RingInv, TypeOK, Slots
<1>3. Available = Q - 1 - (m_pendingWptr64 - r)
  BY <1>1, RoomSeen
<1>4. Padding(size) \in Nat /\ Q - 1 - (m_pendingWptr64 - r) >= size + Padding(size)
  BY <1>0, <1>2, <1>3 DEF Fits, Required, Padding
<1>5. Start(size) + size - r < Q
  BY <1>0, <1>1, <1>2, <1>4 DEF Start
<1> QED
  BY <1>1, <1>5

\* Where an accepted packet lands.
LEMMA PlaceWhere ==
  ASSUME RingInv, NEW size \in PacketSizes, Fits(size)
  PROVE  /\ Start(size) \in Nat /\ size \in Nat \ {0}
         /\ m_pendingWptr64 <= Start(size)
         /\ Start(size) + size - fetch < QueueSize
         /\ Offset(size) \in 0 .. QueueSize - 1
         /\ Offset(size) + size <= QueueSize
         /\ Start(size) % QueueSize = Offset(size)
         /\ NextWptr(size) = (Start(size) + size) % QueueSize
<1> DEFINE Q == QueueSize
<1>0. Q \in Nat \ {0} /\ size \in Nat \ {0}
  BY RingAssumption
<1>1. /\ fetch \in Nat /\ m_pendingWptr64 \in Nat /\ fetch <= m_pendingWptr64
      /\ m_pendingWptr = m_pendingWptr64 % Q /\ m_pendingWptr \in 0 .. Q - 1
  BY DEF RingInv, TypeOK, PointersAgree, Slots
<1>2. Padding(size) \in Nat /\ Start(size) \in Nat /\ m_pendingWptr64 <= Start(size)
  BY <1>0, <1>1 DEF Padding, Start
<1>3. Start(size) + size - fetch < Q
  <2>1. PICK r \in 0 .. fetch : Start(size) + size - r < Q
    BY PlaceRoom
  <2> QED
    BY <2>1, <1>0, <1>1, <1>2
<1>4. Offset(size) \in 0 .. Q - 1 /\ Offset(size) + size <= Q
  BY <1>0, <1>1 DEF Offset, Wraps, Fits
<1>5. Start(size) % Q = Offset(size)
  <2>1. CASE ~Wraps(size)
    BY <2>1, <1>1 DEF Start, Offset, Padding
  <2>2. CASE Wraps(size)
    <3>0. m_pendingWptr64 \in Int /\ 0 \in 0 .. Q - 1
      BY <1>0, <1>1
    <3>1. (m_pendingWptr64 + (Q - (m_pendingWptr64 % Q)) + 0) % Q = 0
      BY <1>0, <3>0, ModPad, Zenon
    <3>2. Start(size) = m_pendingWptr64 + (Q - (m_pendingWptr64 % Q)) + 0
      BY <2>2, <1>0, <1>1 DEF Start, Padding
    <3> QED
      BY <2>2, <3>1, <3>2 DEF Offset
  <2> QED
    BY <2>1, <2>2
<1>6. NextWptr(size) = (Start(size) + size) % Q
  <2>0. Start(size) \in Int /\ size \in Int
    BY <1>0, <1>2
  <2>1. ((Start(size) % Q) + size) % Q = (Start(size) + size) % Q
    BY <1>0, <2>0, ModShift, Zenon
  <2> QED
    BY <2>1, <1>5 DEF NextWptr
<1> QED
  BY <1>0, <1>2, <1>3, <1>4, <1>5, <1>6

\* Placing a packet leaves every unread slot alone, fills the slots up to its
\* start with NOPs and those from there with the packet's words.
LEMMA PlaceWrites ==
  ASSUME RingInv, NEW size \in PacketSizes, PlacePacket(size)
  PROVE  /\ \A p \in fetch .. m_pendingWptr64 - 1 :
              ring'[p % QueueSize] = ring[p % QueueSize]
         /\ \A p \in m_pendingWptr64 .. Start(size) - 1 : ring'[p % QueueSize] = NOP
         /\ \A k \in 0 .. size - 1 :
              /\ (Start(size) + k) % QueueSize = Offset(size) + k
              /\ ring'[Offset(size) + k] = Dword(Start(size), size, k)
<1> DEFINE Q == QueueSize
           S == Start(size)
           O == Offset(size)
<1>0. Q \in Nat \ {0} /\ Fits(size)
  BY RingAssumption DEF PlacePacket
<1>1. /\ S \in Nat /\ size \in Nat \ {0} /\ m_pendingWptr64 <= S
      /\ S + size - fetch < Q /\ O \in 0 .. Q - 1 /\ O + size <= Q /\ S % Q = O
  BY <1>0, PlaceWhere
<1>2. /\ fetch \in Nat /\ m_pendingWptr64 \in Nat /\ fetch <= m_pendingWptr64
      /\ m_pendingWptr = m_pendingWptr64 % Q /\ m_pendingWptr \in 0 .. Q - 1
  BY DEF RingInv, TypeOK, PointersAgree, Slots
<1>3. ring' = [a \in Slots |-> IF a - O \in 0 .. size - 1 THEN Dword(S, size, a - O)
                              ELSE IF Wraps(size) /\ a >= m_pendingWptr THEN NOP ELSE ring[a]]
  BY DEF PlacePacket
<1> HIDE DEF S, O
<1>4. \A p \in Int : p % Q \in Slots
  BY <1>0 DEF Slots
<1>5. ASSUME NEW k \in 0 .. size - 1
      PROVE  (S + k) % Q = O + k /\ ring'[O + k] = Dword(S, size, k)
  <2>1. O + k \in Slots /\ (O + k) - O = k
    BY <1>0, <1>1 DEF Slots
  <2>2. (S + k) % Q = (S % Q) + k
    <3>1. S \in Int /\ k \in Int /\ 0 <= (S % Q) + k /\ (S % Q) + k < Q
      BY <1>0, <1>1
    <3> QED
      BY <1>0, <3>1, ModAdd, Zenon
  <2> QED
    BY <1>1, <1>3, <2>1, <2>2
<1>6. ASSUME NEW p \in m_pendingWptr64 .. S - 1
      PROVE  Wraps(size) /\ (m_pendingWptr64 + (p - m_pendingWptr64)) % Q
                              = m_pendingWptr + (p - m_pendingWptr64)
  <2>1. Wraps(size) /\ S = m_pendingWptr64 + (Q - m_pendingWptr)
    BY <1>1, <1>2 DEF S, Start, Padding
  <2>2. /\ m_pendingWptr64 \in Int /\ p - m_pendingWptr64 \in Int
        /\ 0 <= (m_pendingWptr64 % Q) + (p - m_pendingWptr64)
        /\ (m_pendingWptr64 % Q) + (p - m_pendingWptr64) < Q
    BY <1>0, <1>1, <1>2, <2>1
  <2>3. (m_pendingWptr64 + (p - m_pendingWptr64)) % Q
          = (m_pendingWptr64 % Q) + (p - m_pendingWptr64)
    BY <1>0, <2>2, ModAdd, Zenon
  <2> QED
    BY <1>2, <2>1, <2>3
<1>7. ASSUME NEW p \in m_pendingWptr64 .. S - 1
      PROVE  ring'[p % Q] = NOP
  <2>1. p \in Int /\ p % Q \in Slots /\ m_pendingWptr64 + (p - m_pendingWptr64) = p
    BY <1>1, <1>2, <1>4
  <2>2. Wraps(size) /\ p % Q = m_pendingWptr + (p - m_pendingWptr64)
    BY <1>6, <2>1
  <2>3. p % Q >= m_pendingWptr
    BY <1>1, <1>2, <2>2
  <2>4. O = 0 /\ S = m_pendingWptr64 + (Q - m_pendingWptr)
    BY <1>0, <1>2, <2>2 DEF O, S, Offset, Start, Padding
  <2>5. size < m_pendingWptr
    BY <1>0, <1>1, <1>2, <2>4
  <2>6. ~((p % Q) - O \in 0 .. size - 1)
    BY <1>0, <1>1, <1>2, <2>1, <2>3, <2>4, <2>5 DEF Slots
  <2> QED
    BY <1>3, <2>1, <2>2, <2>3, <2>6
<1>8. ASSUME NEW p \in fetch .. m_pendingWptr64 - 1
      PROVE  ring'[p % Q] = ring[p % Q]
  <2>1. p \in Int /\ p % Q \in Slots
    BY <1>2, <1>4
  <2>2. ASSUME (p % Q) - O \in 0 .. size - 1
        PROVE  FALSE
    <3> DEFINE k == (p % Q) - O
    <3>1. (S + k) % Q = p % Q
      BY <1>1, <1>5, <2>1, <2>2 DEF Slots
    <3>2. S + k \in Int /\ p <= S + k /\ (S + k) - p < Q
      BY <1>0, <1>1, <1>2, <2>2
    <3>3. p = S + k
      BY <1>0, <2>1, <3>1, <3>2, ModUnique, Zenon
    <3> QED
      BY <1>1, <1>2, <2>2, <3>3
  <2>3. ASSUME Wraps(size), p % Q >= m_pendingWptr
        PROVE  FALSE
    <3> DEFINE q == m_pendingWptr64 + ((p % Q) - m_pendingWptr)
    <3>1. S = m_pendingWptr64 + (Q - m_pendingWptr)
      BY <2>3 DEF S, Start, Padding
    <3>2. q \in m_pendingWptr64 .. S - 1 /\ q - m_pendingWptr64 = (p % Q) - m_pendingWptr
      BY <1>0, <1>1, <1>2, <2>1, <2>3, <3>1 DEF Slots
    <3>3. q % Q = p % Q
      <4>1. (m_pendingWptr64 + (q - m_pendingWptr64)) % Q = m_pendingWptr + (q - m_pendingWptr64)
        BY <1>6, <3>2
      <4>2. m_pendingWptr64 + (q - m_pendingWptr64) = q
        BY <1>1, <1>2, <3>2
      <4> QED
        BY <1>1, <1>2, <2>1, <3>2, <4>1, <4>2 DEF Slots
    <3>4. q \in Int /\ p <= q /\ q - p < Q
      BY <1>0, <1>1, <1>2, <3>2
    <3>5. p = q
      <4> HIDE DEF q
      <4> QED
        BY <1>0, <2>1, <3>3, <3>4, ModUnique, Zenon
    <3> QED
      BY <1>1, <1>2, <3>2, <3>5
  <2> QED
    BY <1>3, <2>1, <2>2, <2>3
<1> QED
  BY <1>5, <1>7, <1>8 DEF S, O

\* Each position between the engine and the new pending pointer is an old one,
\* padding, or a word of the new packet.
LEMMA PlaceKeepsInv ==
  ASSUME RingInv, NEW size \in PacketSizes, PlacePacket(size)
  PROVE  RingInv'
<1> DEFINE Q == QueueSize
           S == Start(size)
           O == Offset(size)
<1>0. Q \in Nat \ {0} /\ Fits(size)
  BY RingAssumption DEF PlacePacket
<1>1. /\ S \in Nat /\ size \in Nat \ {0} /\ m_pendingWptr64 <= S
      /\ S + size - fetch < Q /\ O \in 0 .. Q - 1 /\ O + size <= Q /\ S % Q = O
      /\ NextWptr(size) = (S + size) % Q
  BY <1>0, PlaceWhere
<1>2. /\ fetch \in Nat /\ m_pendingWptr64 \in Nat /\ fetch <= m_pendingWptr64
      /\ m_pendingWptr = m_pendingWptr64 % Q /\ m_pendingWptr \in 0 .. Q - 1
      /\ ring \in [Slots -> SlotContents]
  BY DEF RingInv, TypeOK, PointersAgree, Slots
<1>3. /\ m_pendingWptr' = NextWptr(size) /\ m_pendingWptr64' = S + size
      /\ UNCHANGED <<legacyWptr, writePtr, readPtr, fetch, last, exited>>
  BY DEF PlacePacket
<1>4. /\ \A p \in fetch .. m_pendingWptr64 - 1 : ring'[p % Q] = ring[p % Q]
      /\ \A p \in m_pendingWptr64 .. S - 1 : ring'[p % Q] = NOP
      /\ \A k \in 0 .. size - 1 :
           (S + k) % Q = O + k /\ ring'[O + k] = Dword(S, size, k)
  BY PlaceWrites
<1>5. ring' \in [Slots -> SlotContents]
  <2>1. ring' = [a \in Slots |-> IF a - O \in 0 .. size - 1 THEN Dword(S, size, a - O)
                                 ELSE IF Wraps(size) /\ a >= m_pendingWptr THEN NOP ELSE ring[a]]
    BY DEF PlacePacket
  <2> HIDE DEF S, O
  <2>2. ASSUME NEW a \in Slots, a - O \in 0 .. size - 1
        PROVE  Dword(S, size, a - O) \in SlotContents
    BY <1>1, <2>2 DEF Dword, SlotContents
  <2>3. NOP \in SlotContents
    BY DEF SlotContents
  <2> QED
    BY <1>2, <2>1, <2>2, <2>3
<1> HIDE DEF S, O
<1>6. ASSUME NEW p \in fetch .. m_pendingWptr64' - 1, ring'[p % Q] # NOP
      PROVE  \/ p \in fetch .. m_pendingWptr64 - 1 /\ ring'[p % Q] = ring[p % Q]
             \/ /\ p - S \in 0 .. size - 1
                /\ ring'[p % Q] = Dword(S, size, p - S)
  <2>1. CASE p < m_pendingWptr64
    BY <1>2, <1>3, <1>4, <2>1
  <2>2. CASE p >= m_pendingWptr64 /\ p < S
    BY <1>1, <1>2, <1>3, <1>4, <1>6, <2>2
  <2>3. CASE p >= S
    <3>1. p - S \in 0 .. size - 1 /\ S + (p - S) = p
      BY <1>1, <1>2, <1>3, <2>3
    <3>2. p % Q = O + (p - S) /\ ring'[O + (p - S)] = Dword(S, size, p - S)
      BY <1>4, <3>1
    <3> QED
      BY <3>1, <3>2
  <2> QED
    BY <1>1, <1>2, <1>3, <2>1, <2>2, <2>3
<1>7. TypeOK'
  <2>1. (S + size) % Q \in 0 .. Q - 1 /\ S + size \in Nat
    BY <1>0, <1>1
  <2> QED
    BY <1>1, <1>3, <1>5, <2>1 DEF RingInv, TypeOK, Slots
<1>8. PointersAgree'
  BY <1>1, <1>2, <1>3 DEF PointersAgree
<1>9. UnreadIntact'
  <2> SUFFICES ASSUME NEW p \in fetch .. m_pendingWptr64' - 1, ring'[p % Q] # NOP
               PROVE  /\ ring'[p % Q].start + ring'[p % Q].off = p
                      /\ ring'[p % Q].off < ring'[p % Q].size
                      /\ fetch <= ring'[p % Q].start
                      /\ ring'[p % Q].start + ring'[p % Q].size <= m_pendingWptr64'
                      /\ (ring'[p % Q].start % Q) + ring'[p % Q].size <= Q
                      /\ \A k \in 0 .. ring'[p % Q].size - 1 :
                           ring'[(ring'[p % Q].start % Q) + k]
                             = Dword(ring'[p % Q].start, ring'[p % Q].size, k)
    BY <1>3 DEF UnreadIntact, HoldsPlaced
  <2>1. CASE p - S \in 0 .. size - 1 /\ ring'[p % Q] = Dword(S, size, p - S)
    <3>1. /\ ring'[p % Q].start = S /\ ring'[p % Q].size = size
          /\ ring'[p % Q].off = p - S
      BY <2>1 DEF Dword
    <3>2. S + (p - S) = p /\ p - S < size /\ fetch <= S
      BY <1>1, <1>2, <1>3, <2>1
    <3> QED
      BY <1>1, <1>3, <1>4, <3>1, <3>2
  <2>2. CASE p \in fetch .. m_pendingWptr64 - 1 /\ ring'[p % Q] = ring[p % Q]
    <3> DEFINE d == ring[p % Q]
    <3>1. HoldsPlaced(p) /\ d # NOP
      BY <2>2 DEF RingInv, UnreadIntact
    <3>2. /\ d.start + d.off = p /\ d.off < d.size /\ fetch <= d.start
          /\ d.start + d.size <= m_pendingWptr64 /\ (d.start % Q) + d.size <= Q
          /\ \A k \in 0 .. d.size - 1 : ring[(d.start % Q) + k] = Dword(d.start, d.size, k)
      BY <3>1 DEF HoldsPlaced
    <3>3. d.start \in Nat /\ d.size \in Nat \ {0} /\ d.off \in Nat
      <4>1. p % Q \in Slots
        BY <1>0, <1>2 DEF Slots
      <4> QED
        BY <1>2, <3>1, <4>1 DEF SlotContents
    <3> HIDE DEF d
    <3>4. ASSUME NEW k \in 0 .. d.size - 1
          PROVE  ring'[(d.start % Q) + k] = Dword(d.start, d.size, k)
      <4>1. /\ d.start \in Int /\ k \in Int
            /\ 0 <= (d.start % Q) + k /\ (d.start % Q) + k < Q
        BY <1>0, <3>2, <3>3
      <4>2. (d.start + k) % Q = (d.start % Q) + k
        BY <1>0, <4>1, ModAdd, Zenon
      <4>3. d.start + k \in fetch .. m_pendingWptr64 - 1
        BY <1>2, <3>2, <3>3
      <4> QED
        BY <1>4, <3>2, <4>2, <4>3
    <3>5. d.start + d.size <= m_pendingWptr64'
      BY <1>1, <1>2, <1>3, <3>2, <3>3
    <3>6. ring'[p % Q] = d
      BY <2>2 DEF d
    <3> QED
      BY <3>2, <3>4, <3>5, <3>6
  <2> QED
    BY <1>3, <1>6, <2>1, <2>2
<1>10. ReadPtrOk'
  BY <1>0, <1>1, <1>3, PlaceRoom DEF ReadPtrOk, S
<1>11. SubmitOk'
  <2>1. PICK s \in fetch .. m_pendingWptr64 :
          /\ writePtr = IF legacyWptr THEN s % Q ELSE s
          /\ \A p \in fetch .. m_pendingWptr64 - 1 :
               ring[p % Q] # NOP => ring[p % Q].start >= s
                                    \/ ring[p % Q].start + ring[p % Q].size <= s
    BY DEF RingInv, SubmitOk
  <2>2. s \in fetch' .. m_pendingWptr64'
    BY <1>1, <1>2, <1>3
  <2>3. ASSUME NEW p \in fetch .. m_pendingWptr64' - 1, ring'[p % Q] # NOP
        PROVE  ring'[p % Q].start >= s \/ ring'[p % Q].start + ring'[p % Q].size <= s
    <3>1. CASE p - S \in 0 .. size - 1 /\ ring'[p % Q] = Dword(S, size, p - S)
      BY <1>1, <1>2, <3>1 DEF Dword
    <3>2. CASE p \in fetch .. m_pendingWptr64 - 1 /\ ring'[p % Q] = ring[p % Q]
      BY <2>1, <2>3, <3>2
    <3> QED
      BY <1>6, <2>3, <3>1, <3>2
  <2> QED
    BY <1>3, <2>1, <2>2, <2>3 DEF SubmitOk
<1> QED
  BY <1>7, <1>8, <1>9, <1>10, <1>11 DEF RingInv

-----------------------------------------------------------------------------
(* The other steps.                                                        *)

\* Facts of an unread position that holds a packet's word.
LEMMA UnreadFacts ==
  ASSUME RingInv, NEW p \in fetch .. m_pendingWptr64 - 1, ring[p % QueueSize] # NOP,
         NEW d, d = ring[p % QueueSize]
  PROVE  /\ d.start \in Nat /\ d.size \in Nat \ {0} /\ d.off \in Nat
         /\ d.start + d.off = p /\ d.off < d.size
         /\ fetch <= d.start /\ d.start + d.size <= m_pendingWptr64
         /\ (d.start % QueueSize) + d.size <= QueueSize
         /\ \A k \in 0 .. d.size - 1 :
              /\ (d.start + k) % QueueSize = (d.start % QueueSize) + k
              /\ ring[(d.start % QueueSize) + k] = Dword(d.start, d.size, k)
<1> DEFINE Q == QueueSize
<1>0. Q \in Nat \ {0}
  BY RingAssumption
<1>1. HoldsPlaced(p)
  BY DEF RingInv, UnreadIntact
<1>2. /\ d.start + d.off = p /\ d.off < d.size /\ fetch <= d.start
      /\ d.start + d.size <= m_pendingWptr64 /\ (d.start % Q) + d.size <= Q
      /\ \A k \in 0 .. d.size - 1 : ring[(d.start % Q) + k] = Dword(d.start, d.size, k)
  BY <1>1 DEF HoldsPlaced
<1>3. p % Q \in Slots
  BY <1>0 DEF RingInv, TypeOK, Slots
<1>4. d.start \in Nat /\ d.size \in Nat \ {0} /\ d.off \in Nat
  BY <1>3 DEF RingInv, TypeOK, SlotContents
<1>5. ASSUME NEW k \in 0 .. d.size - 1
      PROVE  (d.start + k) % Q = (d.start % Q) + k
  <2>1. /\ d.start \in Int /\ k \in Int
        /\ 0 <= (d.start % Q) + k /\ (d.start % Q) + k < Q
    BY <1>0, <1>2, <1>4
  <2> QED
    BY <1>0, <2>1, ModAdd, Zenon
<1> QED
  BY <1>2, <1>4, <1>5

\* The engine has work only before the submitted position.
LEMMA WorkIsSubmitted ==
  ASSUME RingInv, HasWork
  PROVE  \E s \in fetch + 1 .. m_pendingWptr64 :
           /\ writePtr = IF legacyWptr THEN s % QueueSize ELSE s
           /\ \A p \in fetch .. m_pendingWptr64 - 1 :
                ring[p % QueueSize] # NOP =>
                  \/ ring[p % QueueSize].start >= s
                  \/ ring[p % QueueSize].start + ring[p % QueueSize].size <= s
<1>1. PICK s \in fetch .. m_pendingWptr64 :
        /\ writePtr = IF legacyWptr THEN s % QueueSize ELSE s
        /\ \A p \in fetch .. m_pendingWptr64 - 1 :
             ring[p % QueueSize] # NOP =>
               \/ ring[p % QueueSize].start >= s
               \/ ring[p % QueueSize].start + ring[p % QueueSize].size <= s
  BY DEF RingInv, SubmitOk
<1>2. fetch \in Nat /\ m_pendingWptr64 \in Nat
  BY DEF RingInv, TypeOK
<1>3. s # fetch
  BY <1>1 DEF HasWork
<1>4. s \in fetch + 1 .. m_pendingWptr64
  BY <1>2, <1>3
<1> QED
  BY <1>1, <1>4

\* What the engine's advance from `fetch' to `to' needs: it stays behind the
\* submitted position and in no packet's middle.
LEMMA AdvanceKeepsInv ==
  ASSUME RingInv, NEW to \in Nat, NEW s \in to .. m_pendingWptr64, fetch <= to,
         writePtr = IF legacyWptr THEN s % QueueSize ELSE s,
         \A p \in fetch .. m_pendingWptr64 - 1 :
            ring[p % QueueSize] # NOP =>
              \/ ring[p % QueueSize].start >= s
              \/ ring[p % QueueSize].start + ring[p % QueueSize].size <= s,
         \A p \in to .. m_pendingWptr64 - 1 :
            ring[p % QueueSize] # NOP => to <= ring[p % QueueSize].start,
         fetch' = to, last' \in Seq(SlotContents),
         UNCHANGED <<legacyWptr, ring, m_pendingWptr, m_pendingWptr64, writePtr, readPtr, exited>>
  PROVE  RingInv'
<1> DEFINE Q == QueueSize
<1>1. fetch \in Nat /\ m_pendingWptr64 \in Nat /\ m_pendingWptr64 - fetch < Q /\ Q \in Nat \ {0}
  BY RingAssumption DEF RingInv, TypeOK, PointersAgree
<1>2. TypeOK'
  BY DEF RingInv, TypeOK
<1>3. PointersAgree'
  BY <1>1 DEF RingInv, PointersAgree
<1>4. UnreadIntact'
  <2> SUFFICES ASSUME NEW p \in to .. m_pendingWptr64 - 1, ring[p % Q] # NOP
               PROVE  HoldsPlaced(p)'
    BY DEF UnreadIntact, HoldsPlaced
  <2>1. p \in fetch .. m_pendingWptr64 - 1
    BY <1>1
  <2>2. HoldsPlaced(p) /\ to <= ring[p % Q].start
    BY <2>1 DEF RingInv, UnreadIntact
  <2> QED
    BY <2>2 DEF HoldsPlaced
<1>5. ReadPtrOk'
  <2>1. PICK r \in 0 .. fetch : /\ m_pendingWptr64 - r < Q
                                /\ readPtr = IF legacyWptr THEN r % Q ELSE r
    BY DEF RingInv, ReadPtrOk
  <2>2. r \in 0 .. to
    BY <1>1
  <2> QED
    BY <2>1, <2>2 DEF ReadPtrOk
<1>6. SubmitOk'
  <2>1. \A p \in to .. m_pendingWptr64 - 1 : p \in fetch .. m_pendingWptr64 - 1
    BY <1>1
  <2> QED
    BY <2>1 DEF SubmitOk
<1> QED
  BY <1>2, <1>3, <1>4, <1>5, <1>6 DEF RingInv

\* Skipping a NOP takes the engine to the next position, past no packet.
LEMMA SkipKeepsInv ==
  ASSUME RingInv, SkipNop
  PROVE  RingInv'
<1> DEFINE Q == QueueSize
<1>1. PICK s \in fetch + 1 .. m_pendingWptr64 :
        /\ writePtr = IF legacyWptr THEN s % Q ELSE s
        /\ \A p \in fetch .. m_pendingWptr64 - 1 :
             ring[p % Q] # NOP =>
               ring[p % Q].start >= s \/ ring[p % Q].start + ring[p % Q].size <= s
  BY WorkIsSubmitted DEF SkipNop
<1>2. fetch \in Nat /\ m_pendingWptr64 \in Nat /\ last \in Seq(SlotContents)
  BY DEF RingInv, TypeOK
<1>3. ASSUME NEW p \in fetch + 1 .. m_pendingWptr64 - 1, ring[p % Q] # NOP
      PROVE  fetch + 1 <= ring[p % Q].start
  <2> DEFINE d == ring[p % Q]
  <2>1. p \in fetch .. m_pendingWptr64 - 1
    BY <1>2
  <2>2. /\ d.start \in Nat /\ d.size \in Nat \ {0} /\ fetch <= d.start
        /\ \A k \in 0 .. d.size - 1 :
             /\ (d.start + k) % Q = (d.start % Q) + k
             /\ ring[(d.start % Q) + k] = Dword(d.start, d.size, k)
    BY <1>3, <2>1, UnreadFacts
  <2> HIDE DEF d
  <2>3. ASSUME d.start = fetch
        PROVE  FALSE
    <3>1. 0 \in 0 .. d.size - 1 /\ fetch + 0 = fetch
      BY <1>2, <2>2
    <3>2. ring[fetch % Q] = Dword(fetch, d.size, 0)
      BY <2>2, <2>3, <3>1
    <3>3. Dword(fetch, d.size, 0) # NOP
      BY <2>2 DEF Dword, NOP
    <3> QED
      BY <3>2, <3>3 DEF SkipNop, Header
  <2> QED
    BY <1>2, <2>2, <2>3 DEF d
<1> QED
  BY <1>1, <1>2, <1>3, AdvanceKeepsInv DEF SkipNop

\* The header at `fetch' is the first word of its packet, the packet was
\* submitted whole, and no other one begins inside it.
LEMMA FetchKeepsInv ==
  ASSUME RingInv, FetchPacket
  PROVE  RingInv'
<1> DEFINE Q == QueueSize
           n == Header.size
<1>1. PICK s \in fetch + 1 .. m_pendingWptr64 :
        /\ writePtr = IF legacyWptr THEN s % Q ELSE s
        /\ \A p \in fetch .. m_pendingWptr64 - 1 :
             ring[p % Q] # NOP =>
               ring[p % Q].start >= s \/ ring[p % Q].start + ring[p % Q].size <= s
  BY WorkIsSubmitted DEF FetchPacket
<1>2. /\ fetch \in Nat /\ m_pendingWptr64 \in Nat /\ Q \in Nat \ {0}
      /\ ring \in [Slots -> SlotContents]
  BY RingAssumption DEF RingInv, TypeOK
<1>3. fetch \in fetch .. m_pendingWptr64 - 1 /\ ring[fetch % Q] # NOP
  BY <1>1, <1>2 DEF FetchPacket, Header
<1>4. /\ Header.start \in Nat /\ n \in Nat \ {0} /\ Header.off \in Nat
      /\ Header.start + Header.off = fetch /\ fetch <= Header.start
      /\ Header.start + n <= m_pendingWptr64
      /\ \A k \in 0 .. n - 1 :
           /\ (Header.start + k) % Q = (Header.start % Q) + k
           /\ ring[(Header.start % Q) + k] = Dword(Header.start, n, k)
  BY <1>3, UnreadFacts DEF Header
<1>5. Header.start = fetch
  BY <1>2, <1>4
<1>6. s \in fetch + n .. m_pendingWptr64
  <2>1. Header.start >= s \/ Header.start + n <= s
    BY <1>1, <1>3 DEF Header
  <2> QED
    BY <1>1, <1>2, <1>4, <1>5, <2>1
<1> HIDE DEF n
<1>7. ASSUME NEW p \in fetch + n .. m_pendingWptr64 - 1, ring[p % Q] # NOP
      PROVE  fetch + n <= ring[p % Q].start
  <2> DEFINE d == ring[p % Q]
  <2>1. p \in fetch .. m_pendingWptr64 - 1
    BY <1>2, <1>4
  <2>2. /\ d.start \in Nat /\ d.size \in Nat \ {0} /\ d.off \in Nat
        /\ d.start + d.off = p /\ d.off < d.size /\ fetch <= d.start
        /\ \A k \in 0 .. d.size - 1 :
             /\ (d.start + k) % Q = (d.start % Q) + k
             /\ ring[(d.start % Q) + k] = Dword(d.start, d.size, k)
    BY <1>7, <2>1, UnreadFacts
  <2> HIDE DEF d
  <2>3. ASSUME d.start < fetch + n
        PROVE  FALSE
    <3>1. PICK k \in 0 .. n - 1 : d.start = fetch + k
      <4>1. d.start - fetch \in 0 .. n - 1 /\ d.start = fetch + (d.start - fetch)
        BY <1>2, <1>4, <2>2, <2>3
      <4> QED
        BY <4>1, Zenon
    <3>2. ring[d.start % Q] = Dword(fetch, n, k)
      BY <1>4, <1>5, <3>1
    <3>3. ring[d.start % Q] = Dword(d.start, d.size, 0)
      <4>1. 0 \in 0 .. d.size - 1 /\ d.start + 0 = d.start
        BY <2>2
      <4> QED
        BY <2>2, <4>1
    <3>4. d.start = fetch /\ d.size = n
      BY <3>2, <3>3 DEF Dword
    <3> QED
      BY <1>2, <1>4, <1>7, <2>2, <3>4
  <2> QED
    BY <1>2, <1>4, <2>2, <2>3 DEF d
<1>8. last' \in Seq(SlotContents)
  <2>1. last' = [k \in 1 .. n |-> ring[(fetch + k - 1) % Q]]
    BY DEF FetchPacket, n
  <2>2. ASSUME NEW k \in 1 .. n
        PROVE  ring[(fetch + k - 1) % Q] \in SlotContents
    BY <1>2, <1>4 DEF Slots
  <2>3. last' \in [1 .. n -> SlotContents]
    BY <2>1, <2>2
  <2> QED
    BY <1>4, <2>3
<1>9. fetch + n \in Nat /\ fetch <= fetch + n /\ fetch' = fetch + n
      /\ UNCHANGED <<legacyWptr, ring, m_pendingWptr, m_pendingWptr64, writePtr, readPtr, exited>>
  BY <1>2, <1>4 DEF FetchPacket, n
<1> QED
  BY <1>1, <1>6, <1>7, <1>8, <1>9, AdvanceKeepsInv

-----------------------------------------------------------------------------
(* The invariant.                                                          *)

\* Initially the ring is empty and every pointer is 0.
LEMMA InitInv == Init => RingInv
<1> SUFFICES ASSUME Init PROVE RingInv
  OBVIOUS
<1> DEFINE Q == QueueSize
<1>0. Q \in Nat \ {0} /\ 0 % Q = 0 /\ 0 \in 0 .. 0
  BY RingAssumption, ModSmall
<1>1. TypeOK
  BY <1>0 DEF Init, TypeOK, Slots, SlotContents
<1>2. PointersAgree /\ UnreadIntact
  BY <1>0 DEF Init, PointersAgree, UnreadIntact
<1>3. ReadPtrOk /\ SubmitOk
  BY <1>0 DEF Init, ReadPtrOk, SubmitOk
<1> QED
  BY <1>1, <1>2, <1>3 DEF RingInv

\* Every step of the CPU and of the engine preserves RingInv.
LEMMA NextInv == RingInv /\ [Next]_vars => RingInv'
<1> SUFFICES ASSUME RingInv, [Next]_vars PROVE RingInv'
  OBVIOUS
<1> DEFINE Q == QueueSize
<1>0. /\ Q \in Nat \ {0} /\ fetch \in Nat /\ m_pendingWptr64 \in Nat
      /\ fetch <= m_pendingWptr64 /\ m_pendingWptr64 - fetch < Q
      /\ m_pendingWptr = m_pendingWptr64 % Q /\ m_pendingWptr \in Nat
  BY RingAssumption DEF RingInv, TypeOK, PointersAgree, Slots
<1>1. ASSUME NEW size \in PacketSizes, PlacePacket(size)
      PROVE  RingInv'
  BY <1>1, PlaceKeepsInv
<1>2. ASSUME NEW size \in PacketSizes, Overrun(size)
      PROVE  RingInv'
  BY <1>2 DEF Overrun, RingInv, TypeOK, PointersAgree, UnreadIntact, HoldsPlaced,
              ReadPtrOk, SubmitOk
<1>3. CASE SubmitPacket
  <2>1. writePtr' = DoorbellWptr
        /\ UNCHANGED <<legacyWptr, ring, m_pendingWptr, m_pendingWptr64, readPtr, fetch, last, exited>>
    BY <1>3 DEF SubmitPacket
  <2>2. SubmitOk'
    <3>1. m_pendingWptr64 \in fetch .. m_pendingWptr64
      BY <1>0
    <3>2. writePtr' = IF legacyWptr THEN m_pendingWptr64 % Q ELSE m_pendingWptr64
      BY <1>0, <2>1 DEF DoorbellWptr
    <3>3. \A p \in fetch .. m_pendingWptr64 - 1 :
            ring[p % Q] # NOP => ring[p % Q].start + ring[p % Q].size <= m_pendingWptr64
      BY DEF RingInv, UnreadIntact, HoldsPlaced
    <3> QED
      BY <2>1, <3>1, <3>2, <3>3 DEF SubmitOk
  <2>3. TypeOK'
    BY <1>0, <2>1 DEF RingInv, TypeOK, DoorbellWptr
  <2> QED
    BY <2>1, <2>2, <2>3 DEF RingInv, PointersAgree, UnreadIntact, HoldsPlaced, ReadPtrOk
<1>4. CASE SkipNop
  BY <1>4, SkipKeepsInv
<1>5. CASE FetchPacket
  BY <1>5, FetchKeepsInv
<1>6. CASE WriteBack
  <2>1. readPtr' = (IF legacyWptr THEN fetch % Q ELSE fetch)
        /\ UNCHANGED <<legacyWptr, ring, m_pendingWptr, m_pendingWptr64, writePtr, fetch, last, exited>>
    BY <1>6 DEF WriteBack
  <2>2. fetch % Q \in Nat /\ fetch \in 0 .. fetch
    BY <1>0
  <2>3. TypeOK'
    BY <1>0, <2>1, <2>2 DEF RingInv, TypeOK
  <2>4. ReadPtrOk'
    BY <1>0, <2>1, <2>2 DEF ReadPtrOk
  <2> QED
    BY <2>1, <2>3, <2>4 DEF RingInv, PointersAgree, UnreadIntact, HoldsPlaced, SubmitOk
<1>7. CASE UNCHANGED vars
  BY <1>7 DEF vars, RingInv, TypeOK, PointersAgree, UnreadIntact, HoldsPlaced,
              ReadPtrOk, SubmitOk
<1> QED
  BY <1>1, <1>2, <1>3, <1>4, <1>5, <1>6, <1>7 DEF Next, Engine

\* The invariant of the ring, for every ring size and both pointer formats:
\* RingInv names what BaseQueue and the engine rely on of each other.
THEOREM RingInvariant == Spec => []RingInv
<1>1. Init => RingInv
  BY InitInv
<1>2. RingInv /\ [Next]_vars => RingInv'
  BY NextInv
<1> QED
  BY <1>1, <1>2, PTL DEF Spec

\* Every variable of the ring keeps its type.
THEOREM TypeCorrect == Spec => []TypeOK
<1>1. RingInv => TypeOK
  BY DEF RingInv
<1> QED
  BY <1>1, RingInvariant, PTL

\* The two pending pointers agree and the CPU never laps the engine.
THEOREM PointersCorrect == Spec => []PointersAgree
<1>1. RingInv => PointersAgree
  BY DEF RingInv
<1> QED
  BY <1>1, RingInvariant, PTL

\* No packet is overwritten, torn or split before the engine has read it.
THEOREM NoOverwrite == Spec => []UnreadIntact
<1>1. RingInv => UnreadIntact
  BY DEF RingInv
<1> QED
  BY <1>1, RingInvariant, PTL

\* A queue with enough free slots never exits on an overrun.
THEOREM RoomForHalfRing == Spec => []RoomUnlessBusy
<1>1. ASSUME RingInv
      PROVE  RoomUnlessBusy
  <2> SUFFICES ASSUME NEW size \in PacketSizes,
                      ((m_pendingWptr - readPtr) % QueueSize) + 2 * size <= QueueSize
               PROVE  Fits(size)
    BY DEF RoomUnlessBusy
  <2>1. QueueSize \in Nat \ {0} /\ size \in Nat \ {0} /\ m_pendingWptr \in 0 .. QueueSize - 1
    BY <1>1, RingAssumption DEF RingInv, TypeOK, Slots
  <2>2. PICK r \in 0 .. fetch : /\ m_pendingWptr64 - r < QueueSize
                                /\ readPtr = IF legacyWptr THEN r % QueueSize ELSE r
    BY <1>1 DEF RingInv, ReadPtrOk
  <2>3. /\ m_pendingWptr64 - r \in 0 .. QueueSize - 1
        /\ Available = QueueSize - 1 - (m_pendingWptr64 - r)
        /\ (m_pendingWptr - readPtr) % QueueSize = m_pendingWptr64 - r
    BY <1>1, <2>2, RoomSeen
  <2> QED
    BY <2>1, <2>3 DEF Fits, Required, Padding, Wraps
<1> QED
  BY <1>1, RingInvariant, PTL
-----------------------------------------------------------------------------
(* The ring as a FIFO.                                                     *)

\* Heads and Walk for any content r of the ring.
HeadsIn(r, from, to) ==
    {p \in from .. to - 1 : r[p % QueueSize] # NOP /\ r[p % QueueSize].off = 0}
PacketAt(r, p) == [start |-> r[p % QueueSize].start, size |-> r[p % QueueSize].size]
WalkIn(r, from, to) ==
    [k \in DOMAIN Ascending[HeadsIn(r, from, to)] |->
       PacketAt(r, Ascending[HeadsIn(r, from, to)][k])]

LEMMA WalkIsWalkIn ==
  /\ \A from, to : Walk(from, to) = WalkIn(ring, from, to)
  /\ \A from, to : Walk(from, to)' = WalkIn(ring', from, to)
  BY DEF Walk, Heads, WalkIn, HeadsIn, PacketAt

\* The headers between two positions are finitely many.
LEMMA HeadsFinite ==
  ASSUME NEW r, NEW from \in Nat, NEW to \in Nat
  PROVE  HeadsIn(r, from, to) \in SUBSET Nat /\ IsFiniteSet(HeadsIn(r, from, to))
<1>1. IsFiniteSet(from .. to - 1)
  BY FS_Interval
<1>2. HeadsIn(r, from, to) \subseteq from .. to - 1
  BY DEF HeadsIn
<1>3. \A p \in from .. to - 1 : p \in Nat
  OBVIOUS
<1> QED
  BY <1>1, <1>2, <1>3, FS_Subset

\* A walk goes by what lies on its way.
LEMMA WalkSees ==
  ASSUME NEW r, NEW t, NEW from \in Nat, NEW to \in Nat,
         \A p \in from .. to - 1 : r[p % QueueSize] = t[p % QueueSize]
  PROVE  WalkIn(r, from, to) = WalkIn(t, from, to)
<1> DEFINE H == HeadsIn(r, from, to)
           h == Ascending[H]
<1>1. HeadsIn(t, from, to) = H
  BY DEF HeadsIn
<1>2. h \in Seq(H) /\ H \subseteq from .. to - 1
  <2>1. H \subseteq from .. to - 1
    BY DEF HeadsIn
  <2> HIDE DEF H
  <2> QED
    BY <2>1, HeadsFinite, AscendingMembers DEF H
<1> HIDE DEF h, H
<1>3. \A k \in DOMAIN h : h[k] \in from .. to - 1
  <2>1. DOMAIN h = 1 .. Len(h) /\ \A k \in 1 .. Len(h) : h[k] \in H
    BY <1>2, LenProperties
  <2> QED
    BY <1>2, <2>1
<1>4. \A k \in DOMAIN h : PacketAt(r, h[k]) = PacketAt(t, h[k])
  BY <1>3 DEF PacketAt
<1> QED
  BY <1>1, <1>4 DEF WalkIn, h, H

\* A walk is a sequence of packets.
LEMMA WalkIsSequence ==
  ASSUME NEW r, NEW from \in Nat, NEW to \in Nat
  PROVE  WalkIn(r, from, to) \in Seq({PacketAt(r, p) : p \in from .. to - 1})
<1> DEFINE H == HeadsIn(r, from, to)
           h == Ascending[H]
           P == {PacketAt(r, p) : p \in from .. to - 1}
<1>1. h \in Seq(H) /\ H \subseteq from .. to - 1
  <2>1. H \subseteq from .. to - 1
    BY DEF HeadsIn
  <2> HIDE DEF H
  <2> QED
    BY <2>1, HeadsFinite, AscendingMembers DEF H
<1> HIDE DEF h, H
<1>2. DOMAIN h = 1 .. Len(h) /\ Len(h) \in Nat /\ \A k \in 1 .. Len(h) : h[k] \in H
  BY <1>1, LenProperties
<1>3. WalkIn(r, from, to) = [k \in 1 .. Len(h) |-> PacketAt(r, h[k])]
  BY <1>2 DEF WalkIn, h, H
<1>4. WalkIn(r, from, to) \in [1 .. Len(h) -> P]
  BY <1>1, <1>2, <1>3
<1> HIDE DEF P
<1> QED
  BY <1>2, <1>4, FunctionIsSequence DEF P

\* A walk is a walk to any position on its way and one from there.
LEMMA WalkJoin ==
  ASSUME NEW r, NEW from \in Nat, NEW mid \in Nat, NEW to \in Nat, from <= mid, mid <= to
  PROVE  WalkIn(r, from, to) = WalkIn(r, from, mid) \o WalkIn(r, mid, to)
<1> DEFINE A == HeadsIn(r, from, mid)
           B == HeadsIn(r, mid, to)
           a == Ascending[A]
           b == Ascending[B]
           Image(s) == [k \in DOMAIN s |-> PacketAt(r, s[k])]
<1>1. HeadsIn(r, from, to) = A \cup B
  <2>1. \A p : p \in from .. to - 1 <=> p \in from .. mid - 1 \/ p \in mid .. to - 1
    OBVIOUS
  <2> QED
    BY <2>1 DEF HeadsIn
<1>2. A \in SUBSET Nat /\ B \in SUBSET Nat /\ IsFiniteSet(A) /\ IsFiniteSet(B)
  BY HeadsFinite
<1>3. \A x \in A, y \in B : x < y
  BY DEF HeadsIn
<1> HIDE DEF A, B
<1>4. Ascending[A \cup B] = a \o b
  BY <1>2, <1>3, AscendingJoin
<1>5. /\ a \in Seq(Nat) /\ b \in Seq(Nat)
      /\ DOMAIN a = 1 .. Len(a) /\ DOMAIN b = 1 .. Len(b)
      /\ Len(a) \in Nat /\ Len(b) \in Nat
  <2>1. a \in Seq(A) /\ b \in Seq(B)
    BY <1>2, AscendingMembers
  <2> HIDE DEF a, b
  <2>2. /\ DOMAIN a = 1 .. Len(a) /\ DOMAIN b = 1 .. Len(b)
        /\ Len(a) \in Nat /\ Len(b) \in Nat
    BY <2>1, LenProperties
  <2>3. a \in [1 .. Len(a) -> Nat] /\ b \in [1 .. Len(b) -> Nat]
    <3>1. a \in [1 .. Len(a) -> A] /\ b \in [1 .. Len(b) -> B]
      BY <2>1, <2>2
    <3> QED
      BY <1>2, <3>1
  <2> QED
    BY <2>2, <2>3, FunctionIsSequence
<1> HIDE DEF a, b
<1>6. Image(a \o b) = Image(a) \o Image(b)
  <2> DEFINE P == {PacketAt(r, p) : p \in Nat}
             m == Len(a)
             n == Len(b)
             c == a \o b
  <2>1. /\ c \in Seq(Nat) /\ Len(c) = m + n /\ DOMAIN c = 1 .. m + n
        /\ \A k \in 1 .. m + n : c[k] = IF k <= m THEN a[k] ELSE b[k - m]
    BY <1>5, ConcatProperties, LenProperties
  <2>2. /\ \A k \in 1 .. m : a[k] \in Nat
        /\ \A k \in 1 .. n : b[k] \in Nat
        /\ \A k \in 1 .. m + n : c[k] \in Nat
    BY <1>5, <2>1
  <2> HIDE DEF c
  <2>3. /\ Image(a) \in [1 .. m -> P] /\ Image(b) \in [1 .. n -> P]
        /\ Image(c) \in [1 .. m + n -> P]
    BY <1>5, <2>1, <2>2
  <2>4. /\ Image(a) \in Seq(P) /\ Len(Image(a)) = m
        /\ Image(b) \in Seq(P) /\ Len(Image(b)) = n
        /\ Image(c) \in Seq(P) /\ Len(Image(c)) = m + n
    <3>1. m \in Nat /\ n \in Nat /\ m + n \in Nat
      BY <1>5
    <3> HIDE DEF m, n, P, Image
    <3> QED
      BY <2>3, <3>1, FunctionIsSequence
  <2>5. /\ \A k \in 1 .. m : Image(a)[k] = PacketAt(r, a[k])
        /\ \A k \in 1 .. n : Image(b)[k] = PacketAt(r, b[k])
        /\ \A k \in 1 .. m + n : Image(c)[k] = PacketAt(r, c[k])
    <3>1. DOMAIN a = 1 .. m /\ DOMAIN b = 1 .. n /\ DOMAIN c = 1 .. m + n
      BY <1>5, <2>1 DEF m, n
    <3> HIDE DEF m, n
    <3> QED
      BY <3>1
  <2> HIDE DEF Image, P, m, n
  <2>6. /\ Image(a) \o Image(b) \in Seq(P) /\ Len(Image(a) \o Image(b)) = m + n
        /\ \A k \in 1 .. m + n :
             (Image(a) \o Image(b))[k] = IF k <= m THEN Image(a)[k] ELSE Image(b)[k - m]
    BY <2>4, ConcatProperties
  <2>7. \A k \in 1 .. m + n : Image(c)[k] = (Image(a) \o Image(b))[k]
    <3> SUFFICES ASSUME NEW k \in 1 .. m + n
                 PROVE  Image(c)[k] = (Image(a) \o Image(b))[k]
      OBVIOUS
    <3>1. CASE k <= m
      <4>1. k \in 1 .. m
        BY <1>5, <3>1 DEF m, n
      <4> QED
        BY <2>1, <2>5, <2>6, <3>1, <4>1
    <3>2. CASE ~ (k <= m)
      <4>1. k - m \in 1 .. n
        BY <1>5, <3>2 DEF m, n
      <4> QED
        BY <2>1, <2>5, <2>6, <3>2, <4>1
    <3> QED
      BY <3>1, <3>2
  <2> QED
    BY <2>4, <2>6, <2>7, SeqEqual DEF c
<1> QED
  BY <1>1, <1>4, <1>6 DEF WalkIn, a, b, A, B

\* A walk past no header, and one past a single header.
LEMMA WalkShort ==
  ASSUME NEW r, NEW from, NEW to
  PROVE  /\ HeadsIn(r, from, to) = {} => WalkIn(r, from, to) = <<>>
         /\ \A p \in Nat : HeadsIn(r, from, to) = {p} => WalkIn(r, from, to) = <<PacketAt(r, p)>>
<1>1. ASSUME HeadsIn(r, from, to) = {} PROVE WalkIn(r, from, to) = <<>>
  BY <1>1, AscendingFew DEF WalkIn
<1>2. ASSUME NEW p \in Nat, HeadsIn(r, from, to) = {p} PROVE WalkIn(r, from, to) = <<PacketAt(r, p)>>
  <2>1. Ascending[HeadsIn(r, from, to)] = <<p>>
    BY <1>2, AscendingFew
  <2> QED
    BY <2>1 DEF WalkIn
<1> QED
  BY <1>1, <1>2

\* The submitted position can be told from the wrapped write pointer.
LEMMA SubmittedFound ==
  ASSUME NEW f \in Nat, NEW e \in Nat, e - f < QueueSize, NEW s \in f .. e
  PROVE  f + (((s % QueueSize) - f) % QueueSize) = s
<1> DEFINE Q == QueueSize
<1>1. Q \in Nat \ {0} /\ s \in Int /\ f \in Int /\ -f \in Int
  BY RingAssumption
<1>2. ((s % Q) + (-f)) % Q = (s + (-f)) % Q
  BY <1>1, ModShift, Zenon
<1>3. s % Q \in Int
  BY <1>1
<1>4. (s % Q) + (-f) = (s % Q) - f /\ s + (-f) = s - f /\ s - f \in 0 .. Q - 1
  BY <1>1, <1>3
<1>5. (s - f) % Q = s - f
  BY <1>1, <1>4, ModSmall
<1>6. ((s % Q) - f) % Q = s - f
  BY <1>2, <1>4, <1>5, Zenon
<1> QED
  BY <1>1, <1>6
\* What the mapped variables are, in terms of the position s submitted last.
LEMMA MappedQueue ==
  ASSUME RingInv, NEW s \in fetch .. m_pendingWptr64,
         writePtr = IF legacyWptr THEN s % QueueSize ELSE s
  PROVE  /\ Walk(Submitted, m_pendingWptr64) = WalkIn(ring, s, m_pendingWptr64)
         /\ Walk(fetch, Submitted) = WalkIn(ring, fetch, s)
<1>1. fetch \in Nat /\ m_pendingWptr64 \in Nat /\ m_pendingWptr64 - fetch < QueueSize
  BY DEF RingInv, TypeOK, PointersAgree
<1>2. Submitted = s
  <2>1. fetch + (((s % QueueSize) - fetch) % QueueSize) = s
    BY <1>1, SubmittedFound
  <2> QED
    BY <2>1 DEF Submitted
<1> QED
  BY <1>2, WalkIsWalkIn DEF Fifo!fifoVars

\* The same behind a step.
LEMMA MappedQueueNext ==
  ASSUME RingInv', NEW s \in fetch' .. m_pendingWptr64',
         writePtr' = IF legacyWptr' THEN s % QueueSize ELSE s
  PROVE  /\ Walk(Submitted, m_pendingWptr64)' = WalkIn(ring', s, m_pendingWptr64')
         /\ Walk(fetch, Submitted)' = WalkIn(ring', fetch', s)
<1>1. fetch' \in Nat /\ m_pendingWptr64' \in Nat /\ m_pendingWptr64' - fetch' < QueueSize
  BY DEF RingInv, TypeOK, PointersAgree
<1>2. Submitted' = s
  <2>1. fetch' + (((s % QueueSize) - fetch') % QueueSize) = s
    BY <1>1, SubmittedFound
  <2> QED
    BY <2>1 DEF Submitted
<1> QED
  BY <1>2, WalkIsWalkIn DEF Fifo!fifoVars

\* A packet placed joins the staged ones and no other.
LEMMA PlaceImplements ==
  ASSUME RingInv, RingInv', NEW size \in PacketSizes, PlacePacket(size)
  PROVE  Fifo!Place([start |-> Start(size), size |-> size])
<1> DEFINE Q == QueueSize
           S == Start(size)
           e == m_pendingWptr64
           pkt == [start |-> S, size |-> size]
<1>1. /\ Fits(size) /\ ~exited /\ m_pendingWptr64' = S + size
      /\ UNCHANGED <<legacyWptr, writePtr, fetch, last, exited>>
  BY DEF PlacePacket
<1>2. S \in Nat /\ size \in Nat \ {0} /\ e <= S
  BY <1>1, PlaceWhere
<1>3. fetch \in Nat /\ e \in Nat
  BY DEF RingInv, TypeOK
<1>4. /\ \A p \in fetch .. e - 1 : ring'[p % Q] = ring[p % Q]
      /\ \A p \in e .. S - 1 : ring'[p % Q] = NOP
      /\ \A k \in 0 .. size - 1 : ring'[(S + k) % Q] = Dword(S, size, k)
  BY PlaceWrites
<1>5. PICK s \in fetch .. e : writePtr = IF legacyWptr THEN s % Q ELSE s
  BY DEF RingInv, SubmitOk
<1> HIDE DEF S, Q, e
<1>6. s \in Nat /\ s \in fetch' .. m_pendingWptr64' /\ s <= e /\ fetch <= s
  BY <1>1, <1>2, <1>3, <1>5
<1>7. WalkIn(ring', fetch, s) = WalkIn(ring, fetch, s) /\ WalkIn(ring', s, e) = WalkIn(ring, s, e)
  <2>1. /\ \A p \in fetch .. s - 1 : ring'[p % Q] = ring[p % Q]
        /\ \A p \in s .. e - 1 : ring'[p % Q] = ring[p % Q]
    BY <1>3, <1>4, <1>6
  <2> QED
    <3>1. WalkIn(ring', fetch, s) = WalkIn(ring, fetch, s)
      BY <2>1, <1>3, <1>6, WalkSees DEF Q
    <3>2. WalkIn(ring', s, e) = WalkIn(ring, s, e)
      BY <2>1, <1>3, <1>6, WalkSees DEF Q
    <3> QED
      BY <3>1, <3>2
<1>8. WalkIn(ring', e, S + size) = <<pkt>>
  <2>1. S = S + 0 /\ 0 \in 0 .. size - 1
    BY <1>2
  <2>2. ring'[S % Q] = Dword(S, size, 0)
    BY <1>4, <2>1
  <2>3. Dword(S, size, 0) # NOP
    BY <1>2 DEF Dword, NOP
  <2>4. ASSUME NEW p \in e .. (S + size) - 1, ring'[p % Q] # NOP, ring'[p % Q].off = 0
        PROVE  p = S
    <3>1. p >= S
      BY <1>2, <1>3, <1>4, <2>4
    <3>2. p - S \in 0 .. size - 1 /\ S + (p - S) = p
      BY <1>2, <1>3, <3>1
    <3>3. ring'[p % Q] = Dword(S, size, p - S)
      BY <1>4, <3>2
    <3>4. p - S = 0
      BY <2>4, <3>3 DEF Dword
    <3> QED
      BY <1>2, <3>2, <3>4
  <2>5. S \in e .. (S + size) - 1 /\ ring'[S % Q].off = 0
    BY <1>2, <1>3, <2>2 DEF Dword
  <2>6. HeadsIn(ring', e, S + size) = {S}
    <3>1. HeadsIn(ring', e, S + size)
            = {p \in e .. (S + size) - 1 : ring'[p % Q] # NOP /\ ring'[p % Q].off = 0}
      BY DEF HeadsIn, Q
    <3>2. ring'[S % Q] # NOP
      BY <2>2, <2>3
    <3>3. S \in HeadsIn(ring', e, S + size)
      BY <2>5, <3>1, <3>2
    <3>4. \A p \in HeadsIn(ring', e, S + size) : p = S
      BY <2>4, <3>1
    <3> QED
      BY <3>3, <3>4
  <2>7. PacketAt(ring', S) = pkt
    BY <2>2 DEF PacketAt, Dword, Q
  <2> QED
    BY <1>2, <2>6, <2>7, WalkShort
<1>9. WalkIn(ring', s, S + size) = Append(WalkIn(ring, s, e), pkt)
  <2>1. WalkIn(ring', s, S + size) = WalkIn(ring', s, e) \o WalkIn(ring', e, S + size)
    <3>1. S + size \in Nat /\ e <= S + size
      BY <1>2, <1>3
    <3> QED
      BY <1>3, <1>6, <3>1, WalkJoin
  <2>2. WalkIn(ring, s, e) \o <<pkt>> = Append(WalkIn(ring, s, e), pkt)
    OBVIOUS
  <2> QED
    BY <1>7, <1>8, <2>1, <2>2
<1>10. /\ Walk(Submitted, e) = WalkIn(ring, s, e)
       /\ Walk(fetch, Submitted) = WalkIn(ring, fetch, s)
  BY <1>5, MappedQueue DEF e, Q
<1>11. /\ Walk(Submitted, e)' = Append(WalkIn(ring, s, e), pkt)
       /\ Walk(fetch, Submitted)' = WalkIn(ring, fetch, s)
  <2>1. /\ Walk(Submitted, e)' = WalkIn(ring', s, m_pendingWptr64')
        /\ Walk(fetch, Submitted)' = WalkIn(ring', fetch', s)
    BY <1>1, <1>5, <1>6, MappedQueueNext DEF Q, e
  <2> QED
    BY <1>1, <1>7, <1>9, <2>1
<1>12. Received' = Received
  BY <1>1 DEF Received
<1> QED
  BY <1>1, <1>10, <1>11, <1>12 DEF Fifo!Place, e, S
\* Ringing the doorbell submits whatever is staged.
LEMMA SubmitImplements ==
  ASSUME RingInv, RingInv', SubmitPacket
  PROVE  Fifo!Submit
<1> DEFINE Q == QueueSize
           e == m_pendingWptr64
<1>1. /\ ~exited /\ writePtr' = DoorbellWptr
      /\ UNCHANGED <<legacyWptr, ring, m_pendingWptr, m_pendingWptr64, fetch, last, exited>>
  BY DEF SubmitPacket
<1>2. fetch \in Nat /\ e \in Nat /\ fetch <= e /\ m_pendingWptr = e % Q
  BY DEF RingInv, TypeOK, PointersAgree
<1>3. PICK s \in fetch .. e : writePtr = IF legacyWptr THEN s % Q ELSE s
  BY DEF RingInv, SubmitOk
<1> HIDE DEF Q, e
<1>4. /\ Walk(Submitted, e) = WalkIn(ring, s, e)
      /\ Walk(fetch, Submitted) = WalkIn(ring, fetch, s)
  BY <1>3, MappedQueue DEF e, Q
<1>5. Walk(Submitted, e)' = WalkIn(ring, e, e) /\ Walk(fetch, Submitted)' = WalkIn(ring, fetch, e)
  <2>1. e \in fetch' .. m_pendingWptr64' /\ writePtr' = IF legacyWptr' THEN e % Q ELSE e
    BY <1>1, <1>2 DEF DoorbellWptr, e
  <2>2. /\ Walk(Submitted, e)' = WalkIn(ring', e, m_pendingWptr64')
        /\ Walk(fetch, Submitted)' = WalkIn(ring', fetch', e)
    BY <2>1, MappedQueueNext DEF Q, e
  <2> QED
    BY <1>1, <2>2 DEF e
<1>6. WalkIn(ring, e, e) = <<>>
  <2>1. HeadsIn(ring, e, e) = {}
    BY <1>2 DEF HeadsIn
  <2> QED
    BY <2>1, WalkShort
<1>7. WalkIn(ring, fetch, e) = WalkIn(ring, fetch, s) \o WalkIn(ring, s, e)
  <2>1. s \in Nat /\ fetch <= s /\ s <= e
    BY <1>2, <1>3
  <2> QED
    BY <1>2, <2>1, WalkJoin
<1>8. Received' = Received
  BY <1>1 DEF Received
<1> QED
  BY <1>1, <1>4, <1>5, <1>6, <1>7, <1>8 DEF Fifo!Submit, e

\* Skipping a NOP changes nothing: no packet begins there.
LEMMA SkipImplements ==
  ASSUME RingInv, RingInv', SkipNop
  PROVE  UNCHANGED Fifo!fifoVars
<1> DEFINE Q == QueueSize
           e == m_pendingWptr64
<1>1. /\ HasWork /\ ring[fetch % Q] = NOP /\ fetch' = fetch + 1
      /\ UNCHANGED <<legacyWptr, ring, m_pendingWptr64, writePtr, last, exited>>
  BY DEF SkipNop, Header
<1>2. fetch \in Nat /\ e \in Nat
  BY DEF RingInv, TypeOK
<1>3. PICK s \in fetch + 1 .. e : writePtr = IF legacyWptr THEN s % Q ELSE s
  BY <1>1, WorkIsSubmitted
<1> HIDE DEF Q, e
<1>4. /\ Walk(Submitted, e) = WalkIn(ring, s, e)
      /\ Walk(fetch, Submitted) = WalkIn(ring, fetch, s)
  <2>1. s \in fetch .. e
    BY <1>2, <1>3
  <2> QED
    BY <1>3, <2>1, MappedQueue DEF e, Q
<1>5. /\ Walk(Submitted, e)' = WalkIn(ring, s, e)
      /\ Walk(fetch, Submitted)' = WalkIn(ring, fetch + 1, s)
  <2>1. s \in fetch' .. m_pendingWptr64' /\ writePtr' = IF legacyWptr' THEN s % Q ELSE s
    BY <1>1, <1>3 DEF e
  <2>2. /\ Walk(Submitted, e)' = WalkIn(ring', s, m_pendingWptr64')
        /\ Walk(fetch, Submitted)' = WalkIn(ring', fetch', s)
    BY <2>1, MappedQueueNext DEF Q, e
  <2> QED
    BY <1>1, <2>2 DEF e
<1>6. WalkIn(ring, fetch, s) = WalkIn(ring, fetch + 1, s)
  <2>1. WalkIn(ring, fetch, s) = WalkIn(ring, fetch, fetch + 1) \o WalkIn(ring, fetch + 1, s)
    <3>1. fetch + 1 \in Nat /\ s \in Nat /\ fetch <= fetch + 1 /\ fetch + 1 <= s
      BY <1>2, <1>3
    <3> QED
      BY <1>2, <3>1, WalkJoin
  <2>2. HeadsIn(ring, fetch, fetch + 1) = {}
    <3>1. \A p \in fetch .. (fetch + 1) - 1 : p = fetch
      BY <1>2
    <3> QED
      BY <1>1, <3>1 DEF HeadsIn, Q
  <2>3. WalkIn(ring, fetch, fetch + 1) = <<>>
    BY <2>2, WalkShort
  <2>4. <<>> \o WalkIn(ring, fetch + 1, s) = WalkIn(ring, fetch + 1, s)
    BY <1>2, <1>3, WalkIsSequence, ConcatEmptySeq
  <2> QED
    BY <2>1, <2>3, <2>4
<1>7. Received' = Received
  BY <1>1 DEF Received
<1> QED
  BY <1>1, <1>4, <1>5, <1>6, <1>7 DEF Fifo!fifoVars, e
\* The engine receives the packet that was placed first among the submitted,
\* with all its words.
LEMMA FetchImplements ==
  ASSUME RingInv, RingInv', FetchPacket
  PROVE  Fifo!Receive
<1> DEFINE Q == QueueSize
           e == m_pendingWptr64
           n == Header.size
           pkt == [start |-> fetch, size |-> n]
<1>1. /\ HasWork /\ ring[fetch % Q] # NOP /\ Header = ring[fetch % Q]
      /\ last' = [k \in 1 .. n |-> ring[(fetch + k - 1) % Q]] /\ fetch' = fetch + n
      /\ UNCHANGED <<legacyWptr, ring, m_pendingWptr64, writePtr, exited>>
  BY DEF FetchPacket, Header
<1>2. fetch \in Nat /\ e \in Nat
  BY DEF RingInv, TypeOK
<1>3. PICK s \in fetch + 1 .. e :
        /\ writePtr = IF legacyWptr THEN s % Q ELSE s
        /\ \A p \in fetch .. e - 1 :
             ring[p % Q] # NOP => ring[p % Q].start >= s \/ ring[p % Q].start + ring[p % Q].size <= s
  BY <1>1, WorkIsSubmitted
<1>4. /\ n \in Nat \ {0} /\ Header.start = fetch /\ Header.off = 0
      /\ \A k \in 0 .. n - 1 : ring[(fetch + k) % Q] = Dword(fetch, n, k)
  <2>1. fetch \in fetch .. e - 1
    BY <1>2, <1>3
  <2>2. /\ Header.start \in Nat /\ n \in Nat \ {0} /\ Header.off \in Nat
        /\ Header.start + Header.off = fetch /\ fetch <= Header.start
        /\ \A k \in 0 .. n - 1 :
             /\ (Header.start + k) % Q = (Header.start % Q) + k
             /\ ring[(Header.start % Q) + k] = Dword(Header.start, n, k)
    BY <1>1, <2>1, UnreadFacts DEF Header
  <2>3. Header.start = fetch /\ Header.off = 0
    BY <1>2, <2>2
  <2> HIDE DEF n
  <2> QED
    BY <2>2, <2>3
<1>5. s \in fetch + n .. e
  <2>1. fetch \in fetch .. e - 1
    BY <1>2, <1>3
  <2>2. Header.start >= s \/ Header.start + n <= s
    BY <1>1, <1>3, <2>1
  <2> HIDE DEF n
  <2> QED
    BY <1>2, <1>3, <1>4, <2>2
<1>6. PacketAt(ring, fetch) = pkt
  BY <1>1, <1>4 DEF PacketAt
<1> HIDE DEF Q, e, n
<1>7. /\ Walk(Submitted, e) = WalkIn(ring, s, e)
      /\ Walk(fetch, Submitted) = WalkIn(ring, fetch, s)
  <2>1. s \in fetch .. e
    BY <1>2, <1>3
  <2> QED
    BY <1>3, <2>1, MappedQueue DEF e, Q
<1>8. /\ Walk(Submitted, e)' = WalkIn(ring, s, e)
      /\ Walk(fetch, Submitted)' = WalkIn(ring, fetch + n, s)
  <2>1. s \in fetch' .. m_pendingWptr64' /\ writePtr' = IF legacyWptr' THEN s % Q ELSE s
    BY <1>1, <1>3, <1>5 DEF e
  <2>2. /\ Walk(Submitted, e)' = WalkIn(ring', s, m_pendingWptr64')
        /\ Walk(fetch, Submitted)' = WalkIn(ring', fetch', s)
    BY <2>1, MappedQueueNext DEF Q, e
  <2> QED
    BY <1>1, <2>2 DEF e
<1>9. WalkIn(ring, fetch, s) = <<pkt>> \o WalkIn(ring, fetch + n, s)
  <2>1. WalkIn(ring, fetch, s) = WalkIn(ring, fetch, fetch + n) \o WalkIn(ring, fetch + n, s)
    <3>1. fetch + n \in Nat /\ s \in Nat /\ fetch <= fetch + n /\ fetch + n <= s
      BY <1>2, <1>3, <1>4, <1>5
    <3> QED
      BY <1>2, <3>1, WalkJoin
  <2>2. HeadsIn(ring, fetch, fetch + n) = {fetch}
    <3>1. HeadsIn(ring, fetch, fetch + n)
            = {p \in fetch .. (fetch + n) - 1 : ring[p % Q] # NOP /\ ring[p % Q].off = 0}
      BY DEF HeadsIn, Q
    <3>2. fetch \in HeadsIn(ring, fetch, fetch + n)
      BY <1>1, <1>2, <1>4, <3>1
    <3>3. ASSUME NEW p \in HeadsIn(ring, fetch, fetch + n) PROVE p = fetch
      <4>1. p \in fetch .. (fetch + n) - 1 /\ ring[p % Q].off = 0
        BY <3>1
      <4>2. p - fetch \in 0 .. n - 1 /\ fetch + (p - fetch) = p
        BY <1>2, <1>4, <4>1
      <4>3. ring[p % Q] = Dword(fetch, n, p - fetch)
        BY <1>4, <4>2
      <4>4. p - fetch = 0
        BY <4>1, <4>3 DEF Dword
      <4> QED
        BY <1>2, <4>2, <4>4
    <3> QED
      BY <3>2, <3>3
  <2>3. WalkIn(ring, fetch, fetch + n) = <<pkt>>
    BY <1>2, <1>6, <2>2, WalkShort
  <2> QED
    BY <2>1, <2>3
<1>10. /\ WalkIn(ring, fetch, s) # <<>> /\ Head(WalkIn(ring, fetch, s)) = pkt
       /\ Tail(WalkIn(ring, fetch, s)) = WalkIn(ring, fetch + n, s)
  <2> DEFINE rest == WalkIn(ring, fetch + n, s)
             P == {PacketAt(ring, p) : p \in fetch + n .. s - 1} \cup {pkt}
  <2>1. rest \in Seq(P)
    <3>1. fetch + n \in Nat /\ s \in Nat
      BY <1>2, <1>3, <1>4
    <3>2. rest \in Seq({PacketAt(ring, p) : p \in fetch + n .. s - 1})
      BY <3>1, WalkIsSequence
    <3> QED
      BY <3>2
  <2>2. pkt \in P
    OBVIOUS
  <2> HIDE DEF rest, P, pkt
  <2>3. <<pkt>> \o rest # <<>> /\ Head(<<pkt>> \o rest) = pkt /\ Tail(<<pkt>> \o rest) = rest
    BY <2>1, <2>2
  <2> QED
    BY <1>9, <2>3 DEF rest
<1>11. Received' = pkt
  <2>1. DOMAIN last' = 1 .. n /\ Len(last') = n /\ last' # <<>>
    BY <1>1, <1>4
  <2>2. ASSUME NEW k \in 1 .. n PROVE last'[k] = Dword(fetch, n, k - 1)
    <3>1. k - 1 \in 0 .. n - 1 /\ fetch + k - 1 = fetch + (k - 1)
      BY <1>2, <1>4
    <3>2. last'[k] = ring[(fetch + k - 1) % Q]
      BY <1>1
    <3> QED
      BY <1>4, <3>1, <3>2
  <2>3. last'[1].start = fetch
    <3>1. 1 \in 1 .. n
      BY <1>4
    <3>2. last'[1] = Dword(fetch, n, 1 - 1)
      BY <2>2, <3>1
    <3> QED
      BY <3>2 DEF Dword
  <2> QED
    BY <2>1, <2>2, <2>3 DEF Received
<1> QED
  BY <1>1, <1>7, <1>8, <1>10, <1>11 DEF Fifo!Receive, e

\* Each step of the ring, its user and the engine is a step of the FIFO.
LEMMA NextImplements == RingInv /\ [Next]_vars => [Fifo!Next]_(Fifo!fifoVars)
<1> SUFFICES ASSUME RingInv, [Next]_vars PROVE [Fifo!Next]_(Fifo!fifoVars)
  OBVIOUS
<1>0. RingInv'
  BY NextInv
<1>1. ASSUME NEW size \in PacketSizes, PlacePacket(size) PROVE Fifo!Next
  <2>1. Fifo!Place([start |-> Start(size), size |-> size])
    BY <1>0, <1>1, PlaceImplements
  <2>2. [start |-> Start(size), size |-> size] \in [start : 0 .. MaxWptr, size : PacketSizes]
    <3>1. Fits(size) /\ Start(size) + size <= MaxWptr
      BY <1>1 DEF PlacePacket
    <3>2. Start(size) \in Nat /\ size \in Nat \ {0}
      BY <3>1, PlaceWhere
    <3>3. Start(size) \in 0 .. MaxWptr
      BY <3>1, <3>2, RingAssumption
    <3> QED
      BY <3>3
  <2> QED
    BY <2>1, <2>2 DEF Fifo!Next
<1>2. ASSUME UNCHANGED <<legacyWptr, ring, m_pendingWptr64, writePtr, fetch, last>>
      PROVE  UNCHANGED <<Walk(Submitted, m_pendingWptr64), Walk(fetch, Submitted), Received>>
  BY <1>2 DEF Walk, Heads, Submitted, Received
<1>3. ASSUME NEW size \in PacketSizes, Overrun(size) PROVE Fifo!Next
  <2>1. /\ ~exited /\ exited' = TRUE
        /\ UNCHANGED <<legacyWptr, ring, m_pendingWptr64, writePtr, fetch, last>>
    BY <1>3 DEF Overrun
  <2> QED
    BY <1>2, <2>1 DEF Fifo!Next, Fifo!Exit
<1>4. CASE SubmitPacket
  BY <1>0, <1>4, SubmitImplements DEF Fifo!Next
<1>5. CASE SkipNop
  BY <1>0, <1>5, SkipImplements
<1>6. CASE FetchPacket
  BY <1>0, <1>6, FetchImplements DEF Fifo!Next
<1>7. CASE WriteBack
  <2>1. UNCHANGED <<legacyWptr, ring, m_pendingWptr64, writePtr, fetch, last, exited>>
    BY <1>7 DEF WriteBack
  <2> QED
    BY <1>2, <2>1 DEF Fifo!fifoVars
<1>8. CASE UNCHANGED vars
  <2>1. UNCHANGED <<legacyWptr, ring, m_pendingWptr64, writePtr, fetch, last, exited>>
    BY <1>8 DEF vars
  <2> QED
    BY <1>2, <2>1 DEF Fifo!fifoVars
<1> QED
  BY <1>1, <1>3, <1>4, <1>5, <1>6, <1>7, <1>8 DEF Next, Engine

\* Whatever the sizes, and however late the engine writes its position back,
\* the ring is a FIFO: submitted packets reach the engine whole, once and in
\* the order of placement, and none that was not submitted (the safety part of
\* ImplementsFifo).
THEOREM RingImplements == Spec => Fifo!Init /\ [][Fifo!Next]_(Fifo!fifoVars)
<1>1. Init => Fifo!Init
  <2> SUFFICES ASSUME Init PROVE Fifo!Init
    OBVIOUS
  <2>1. /\ RingInv /\ fetch = 0 /\ m_pendingWptr64 = 0 /\ writePtr = 0 /\ last = <<>> /\ ~exited
    BY InitInv DEF Init
  <2>2. 0 \in fetch .. m_pendingWptr64 /\ writePtr = IF legacyWptr THEN 0 % QueueSize ELSE 0
    BY <2>1, RingAssumption, ModSmall
  <2>3. /\ Walk(Submitted, m_pendingWptr64) = WalkIn(ring, 0, 0)
        /\ Walk(fetch, Submitted) = WalkIn(ring, 0, 0)
    BY <2>1, <2>2, MappedQueue
  <2>4. WalkIn(ring, 0, 0) = <<>>
    <3>1. HeadsIn(ring, 0, 0) = {}
      BY DEF HeadsIn
    <3> QED
      BY <3>1, WalkShort
  <2>5. Received = [start |-> 0, size |-> 0] /\ exited = FALSE
    BY <2>1 DEF Received, Init
  <2> QED
    BY <2>3, <2>4, <2>5 DEF Fifo!Init, Fifo!NoPacket
<1>2. RingInv /\ [Next]_vars => [Fifo!Next]_(Fifo!fifoVars)
  BY NextImplements
<1> QED
  BY <1>1, <1>2, RingInvariant, PTL DEF Spec
=============================================================================
