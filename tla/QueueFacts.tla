----------------------------- MODULE QueueFacts -----------------------------
(***************************************************************************)
(* What the proofs about engines say of a queue of packets, and how it     *)
(* changes when packets are put behind it and when its head is executed;   *)
(* and of finite sets of numbers in ascending order.                       *)
(***************************************************************************)
EXTENDS Sorted, Sequences, SequenceTheorems, FiniteSetTheorems, WellFoundedInduction, TLAPS

\* Packet p waits in queue c.
Has(c, p) == \E k \in 1 .. Len(c) : c[k] = p

\* Whatever is equal to p has an r somewhere behind it.
Followed(c, p, r) ==
    \A k \in 1 .. Len(c) : c[k] = p => \E l \in k + 1 .. Len(c) : c[l] = r

\* No two packets in the queue are p.
Once(c, p) == \A k, l \in 1 .. Len(c) : c[k] = p /\ c[l] = p => k = l

\* Some p is in front of some r.
Before(c, p, r) == \E k, l \in 1 .. Len(c) : k < l /\ c[k] = p /\ c[l] = r

\* Unless the queue is empty, its last packet is one of R.
EndsIn(c, R) == c # <<>> => c[Len(c)] \in R

-----------------------------------------------------------------------------
(* The empty queue.                                                        *)

LEMMA EmptyQueue ==
  \A p, r : ~Has(<<>>, p) /\ Followed(<<>>, p, r) /\ Once(<<>>, p)
BY DEF Has, Followed, Once

-----------------------------------------------------------------------------
(* The head is executed.                                                   *)

\* The head is in the queue, and so is what comes behind it.
LEMMA HasHead ==
  ASSUME NEW S, NEW c \in Seq(S), c # <<>>
  PROVE  /\ Head(c) \in S /\ Tail(c) \in Seq(S)
         /\ Has(c, Head(c))
         /\ \A p : Has(c, p) <=> p = Head(c) \/ Has(Tail(c), p)
<1>1. /\ Tail(c) \in Seq(S) /\ Head(c) \in S /\ Head(c) = c[1]
      /\ Len(c) \in Nat /\ Len(c) >= 1 /\ Len(Tail(c)) = Len(c) - 1
      /\ \A k \in 1 .. Len(Tail(c)) : Tail(c)[k] = c[k + 1]
  BY HeadTailProperties, EmptySeq, LenProperties
<1>2. ASSUME NEW p, Has(c, p), p # Head(c) PROVE Has(Tail(c), p)
  <2>1. PICK k \in 1 .. Len(c) : c[k] = p
    BY <1>2 DEF Has
  <2>2. k - 1 \in 1 .. Len(Tail(c)) /\ Tail(c)[k - 1] = p
    BY <1>1, <1>2, <2>1
  <2> QED
    BY <2>2 DEF Has
<1>3. ASSUME NEW p, Has(Tail(c), p) PROVE Has(c, p)
  <2>1. PICK k \in 1 .. Len(Tail(c)) : Tail(c)[k] = p
    BY <1>3 DEF Has
  <2>2. k + 1 \in 1 .. Len(c) /\ c[k + 1] = p
    BY <1>1, <2>1
  <2> QED
    BY <2>2 DEF Has
<1>4. Has(c, Head(c))
  BY <1>1 DEF Has
<1> QED
  BY <1>1, <1>2, <1>3, <1>4

\* Order and uniqueness survive; what was there once is gone when executed;
\* what followed the head is still there.
LEMMA TailOrder ==
  ASSUME NEW S, NEW c \in Seq(S), c # <<>>
  PROVE  /\ \A p, r : Followed(c, p, r) => Followed(Tail(c), p, r)
         /\ \A p : Once(c, p) => Once(Tail(c), p)
         /\ Once(c, Head(c)) => ~Has(Tail(c), Head(c))
         /\ \A r : Followed(c, Head(c), r) => Has(Tail(c), r)
<1>1. /\ Tail(c) \in Seq(S) /\ Head(c) = c[1]
      /\ Len(c) \in Nat /\ Len(c) >= 1 /\ Len(Tail(c)) = Len(c) - 1
      /\ \A k \in 1 .. Len(Tail(c)) : Tail(c)[k] = c[k + 1]
  BY HeadTailProperties, EmptySeq, LenProperties
<1>2. ASSUME NEW p, NEW r, Followed(c, p, r) PROVE Followed(Tail(c), p, r)
  <2> SUFFICES ASSUME NEW k \in 1 .. Len(Tail(c)), Tail(c)[k] = p
               PROVE  \E l \in k + 1 .. Len(Tail(c)) : Tail(c)[l] = r
    BY DEF Followed
  <2>1. k + 1 \in 1 .. Len(c) /\ c[k + 1] = p
    BY <1>1
  <2>2. PICK l \in k + 2 .. Len(c) : c[l] = r
    BY <1>1, <1>2, <2>1 DEF Followed
  <2>3. l - 1 \in k + 1 .. Len(Tail(c)) /\ Tail(c)[l - 1] = r
    BY <1>1, <2>2
  <2> QED
    BY <2>3
<1>3. ASSUME NEW p, Once(c, p) PROVE Once(Tail(c), p)
  <2> SUFFICES ASSUME NEW k \in 1 .. Len(Tail(c)), NEW l \in 1 .. Len(Tail(c)),
                      Tail(c)[k] = p, Tail(c)[l] = p
               PROVE  k = l
    BY DEF Once
  <2>1. k + 1 \in 1 .. Len(c) /\ l + 1 \in 1 .. Len(c) /\ c[k + 1] = p /\ c[l + 1] = p
    BY <1>1
  <2>2. k + 1 = l + 1
    BY <1>3, <2>1, Zenon DEF Once
  <2> QED
    BY <2>2
<1>4. ASSUME Once(c, Head(c)), Has(Tail(c), Head(c)) PROVE FALSE
  <2>1. PICK k \in 1 .. Len(Tail(c)) : Tail(c)[k] = Head(c)
    BY <1>4 DEF Has
  <2>2. 1 \in 1 .. Len(c) /\ k + 1 \in 1 .. Len(c) /\ c[1] = Head(c) /\ c[k + 1] = Head(c)
    BY <1>1, <2>1
  <2>3. 1 = k + 1
    BY <1>4, <2>2, Zenon DEF Once
  <2> QED
    BY <2>1, <2>3
<1>5. ASSUME NEW r, Followed(c, Head(c), r) PROVE Has(Tail(c), r)
  <2>1. PICK l \in 1 + 1 .. Len(c) : c[l] = r
    BY <1>1, <1>5 DEF Followed
  <2>2. l - 1 \in 1 .. Len(Tail(c)) /\ Tail(c)[l - 1] = r
    BY <1>1, <2>1
  <2> QED
    BY <2>2 DEF Has
<1> QED
  BY <1>2, <1>3, <1>4, <1>5

\* What waits and is followed by r has r waiting, too.
LEMMA FollowerWaits ==
  ASSUME NEW S, NEW c \in Seq(S), NEW p, NEW r, Has(c, p), Followed(c, p, r)
  PROVE  Has(c, r)
<1>1. PICK k \in 1 .. Len(c) : c[k] = p
  BY DEF Has
<1>2. PICK l \in k + 1 .. Len(c) : c[l] = r
  BY <1>1 DEF Followed
<1>3. l \in 1 .. Len(c)
  BY <1>1, <1>2, LenProperties
<1> QED
  BY <1>2, <1>3 DEF Has

\* What is in front of r stays so until it is executed, and the end stays.
LEMMA TailBefore ==
  ASSUME NEW S, NEW c \in Seq(S), c # <<>>
  PROVE  /\ \A p, r : Before(c, p, r) => \/ p = Head(c) /\ Has(Tail(c), r)
                                         \/ Before(Tail(c), p, r)
         /\ \A R : EndsIn(c, R) => EndsIn(Tail(c), R)
<1>1. /\ Tail(c) \in Seq(S) /\ Head(c) = c[1]
      /\ Len(c) \in Nat /\ Len(c) >= 1 /\ Len(Tail(c)) = Len(c) - 1
      /\ \A k \in 1 .. Len(Tail(c)) : Tail(c)[k] = c[k + 1]
  BY HeadTailProperties, EmptySeq, LenProperties
<1>2. ASSUME NEW p, NEW r, Before(c, p, r)
      PROVE  (p = Head(c) /\ Has(Tail(c), r)) \/ Before(Tail(c), p, r)
  <2>1. PICK k \in 1 .. Len(c), l \in 1 .. Len(c) : k < l /\ c[k] = p /\ c[l] = r
    BY <1>2 DEF Before
  <2>2. l - 1 \in 1 .. Len(Tail(c)) /\ Tail(c)[l - 1] = r
    BY <1>1, <2>1
  <2>3. CASE k = 1
    BY <1>1, <2>1, <2>2, <2>3 DEF Has
  <2>4. CASE k > 1
    <3>1. k - 1 \in 1 .. Len(Tail(c)) /\ Tail(c)[k - 1] = p /\ k - 1 < l - 1
      BY <1>1, <2>1, <2>4
    <3> QED
      BY <2>2, <3>1 DEF Before
  <2> QED
    BY <1>1, <2>1, <2>3, <2>4
<1>3. ASSUME NEW R, EndsIn(c, R), Tail(c) # <<>> PROVE Tail(c)[Len(Tail(c))] \in R
  <2>1. Len(Tail(c)) \in 1 .. Len(Tail(c))
    BY <1>1, <1>3, EmptySeq
  <2> QED
    BY <1>1, <1>3, <2>1 DEF EndsIn
<1> QED
  BY <1>2, <1>3 DEF EndsIn

\* What is in front of another waits, and so does the other.
LEMMA BeforeWaits ==
  ASSUME NEW c, NEW p, NEW r, Before(c, p, r)
  PROVE  Has(c, p) /\ Has(c, r)
BY DEF Before, Has

\* A queue whose end is known to be absent is empty.
LEMMA EndWaits ==
  ASSUME NEW S, NEW c \in Seq(S), NEW R, EndsIn(c, R), \A r \in R : ~Has(c, r)
  PROVE  c = <<>>
<1> SUFFICES ASSUME c # <<>> PROVE FALSE
  OBVIOUS
<1>1. Len(c) \in 1 .. Len(c)
  BY EmptySeq, LenProperties
<1> QED
  BY <1>1 DEF EndsIn, Has

-----------------------------------------------------------------------------
(* Packets are put behind the others.                                      *)

\* A queue and the packets put behind it have their packets between them.
LEMMA HasBoth ==
  ASSUME NEW S, NEW c \in Seq(S), NEW d \in Seq(S)
  PROVE  /\ c \o d \in Seq(S)
         /\ \A p : Has(c \o d, p) <=> Has(c, p) \/ Has(d, p)
<1>1. /\ c \o d \in Seq(S)
      /\ Len(c) \in Nat /\ Len(d) \in Nat /\ Len(c \o d) = Len(c) + Len(d)
      /\ \A k \in 1 .. Len(c) + Len(d) :
           (c \o d)[k] = IF k <= Len(c) THEN c[k] ELSE d[k - Len(c)]
  BY ConcatProperties, LenProperties
<1>2. ASSUME NEW p, Has(c \o d, p) PROVE Has(c, p) \/ Has(d, p)
  <2>1. PICK k \in 1 .. Len(c) + Len(d) : (c \o d)[k] = p
    BY <1>1, <1>2 DEF Has
  <2>2. CASE k <= Len(c)
    BY <1>1, <2>1, <2>2 DEF Has
  <2>3. CASE k > Len(c)
    <3>1. k - Len(c) \in 1 .. Len(d) /\ d[k - Len(c)] = p
      BY <1>1, <2>1, <2>3
    <3> QED
      BY <3>1 DEF Has
  <2> QED
    BY <1>1, <2>1, <2>2, <2>3
<1>3. ASSUME NEW p, Has(c, p) PROVE Has(c \o d, p)
  <2>1. PICK k \in 1 .. Len(c) : c[k] = p
    BY <1>3 DEF Has
  <2>2. k \in 1 .. Len(c) + Len(d) /\ (c \o d)[k] = p
    BY <1>1, <2>1
  <2> QED
    BY <1>1, <2>2 DEF Has
<1>4. ASSUME NEW p, Has(d, p) PROVE Has(c \o d, p)
  <2>1. PICK k \in 1 .. Len(d) : d[k] = p
    BY <1>4 DEF Has
  <2>2. k + Len(c) \in 1 .. Len(c) + Len(d) /\ (c \o d)[k + Len(c)] = p
    BY <1>1, <2>1
  <2> QED
    BY <1>1, <2>2 DEF Has
<1> QED
  BY <1>1, <1>2, <1>3, <1>4

\* What is followed by r in the new packets is followed by it wherever it
\* stood, if the new packets have an r at all.
LEMMA BothFollowed ==
  ASSUME NEW S, NEW c \in Seq(S), NEW d \in Seq(S), NEW p, NEW r,
         Followed(d, p, r), Has(d, r) \/ ~Has(c, p) \/ Followed(c, p, r)
  PROVE  Followed(c \o d, p, r)
<1>1. /\ Len(c) \in Nat /\ Len(d) \in Nat /\ Len(c \o d) = Len(c) + Len(d)
      /\ \A k \in 1 .. Len(c) + Len(d) :
           (c \o d)[k] = IF k <= Len(c) THEN c[k] ELSE d[k - Len(c)]
  BY ConcatProperties, LenProperties
<1> SUFFICES ASSUME NEW k \in 1 .. Len(c) + Len(d), (c \o d)[k] = p
             PROVE  \E l \in k + 1 .. Len(c) + Len(d) : (c \o d)[l] = r
  BY <1>1 DEF Followed
<1>2. CASE k > Len(c)
  <2>1. k - Len(c) \in 1 .. Len(d) /\ d[k - Len(c)] = p
    BY <1>1, <1>2
  <2>2. PICK l \in (k - Len(c)) + 1 .. Len(d) : d[l] = r
    BY <2>1 DEF Followed
  <2>3. l + Len(c) \in k + 1 .. Len(c) + Len(d) /\ (c \o d)[l + Len(c)] = r
    BY <1>1, <1>2, <2>2
  <2> QED
    BY <2>3
<1>3. CASE k <= Len(c) /\ Has(d, r)
  <2>1. PICK l \in 1 .. Len(d) : d[l] = r
    BY <1>3 DEF Has
  <2>2. l + Len(c) \in k + 1 .. Len(c) + Len(d) /\ (c \o d)[l + Len(c)] = r
    BY <1>1, <1>3, <2>1
  <2> QED
    BY <2>2
<1>4. CASE k <= Len(c) /\ Followed(c, p, r)
  <2>1. k \in 1 .. Len(c) /\ c[k] = p
    BY <1>1, <1>4
  <2>2. PICK l \in k + 1 .. Len(c) : c[l] = r
    BY <1>4, <2>1 DEF Followed
  <2>3. l \in k + 1 .. Len(c) + Len(d) /\ (c \o d)[l] = r
    BY <1>1, <2>1, <2>2
  <2> QED
    BY <2>3
<1>5. CASE k <= Len(c) /\ ~Has(c, p)
  BY <1>1, <1>5 DEF Has
<1> QED
  BY <1>1, <1>2, <1>3, <1>4, <1>5

\* What was not there and comes once is there once, and so is what was there
\* once and does not come.
LEMMA BothOnce ==
  ASSUME NEW S, NEW c \in Seq(S), NEW d \in Seq(S), NEW p,
         \/ Once(c, p) /\ ~Has(d, p)
         \/ ~Has(c, p) /\ Once(d, p)
  PROVE  Once(c \o d, p)
<1>1. /\ Len(c) \in Nat /\ Len(d) \in Nat /\ Len(c \o d) = Len(c) + Len(d)
      /\ \A k \in 1 .. Len(c) + Len(d) :
           (c \o d)[k] = IF k <= Len(c) THEN c[k] ELSE d[k - Len(c)]
  BY ConcatProperties, LenProperties
<1> SUFFICES ASSUME NEW k \in 1 .. Len(c) + Len(d), NEW l \in 1 .. Len(c) + Len(d),
                    (c \o d)[k] = p, (c \o d)[l] = p
             PROVE  k = l
  BY <1>1 DEF Once
<1>2. CASE Once(c, p) /\ ~Has(d, p)
  <2>1. ASSUME NEW m \in 1 .. Len(c) + Len(d), (c \o d)[m] = p
        PROVE  m \in 1 .. Len(c) /\ c[m] = p
    <3>1. CASE m > Len(c)
      <4>1. m - Len(c) \in 1 .. Len(d) /\ d[m - Len(c)] = p
        BY <1>1, <2>1, <3>1
      <4> QED
        BY <1>2, <4>1 DEF Has
    <3>2. CASE m <= Len(c)
      BY <1>1, <2>1, <3>2
    <3> QED
      BY <1>1, <3>1, <3>2
  <2> QED
    BY <1>2, <2>1, Zenon DEF Once
<1>3. CASE ~Has(c, p) /\ Once(d, p)
  <2>1. ASSUME NEW m \in 1 .. Len(c) + Len(d), (c \o d)[m] = p
        PROVE  m - Len(c) \in 1 .. Len(d) /\ d[m - Len(c)] = p
    <3>1. CASE m <= Len(c)
      <4>1. m \in 1 .. Len(c) /\ c[m] = p
        BY <1>1, <2>1, <3>1
      <4> QED
        BY <1>3, <4>1 DEF Has
    <3>2. CASE m > Len(c)
      BY <1>1, <2>1, <3>2
    <3> QED
      BY <1>1, <3>1, <3>2
  <2>2. k - Len(c) = l - Len(c)
    BY <1>3, <2>1, Zenon DEF Once
  <2> QED
    BY <1>1, <2>2
<1> QED
  BY <1>2, <1>3

\* The last of the packets put behind a queue follows all the others.
LEMMA LastFollows ==
  ASSUME NEW S, NEW d \in Seq(S), NEW z \in S
  PROVE  /\ d \o <<z>> \in Seq(S)
         /\ \A p : Has(d \o <<z>>, p) <=> Has(d, p) \/ p = z
         /\ \A p : p # z => Followed(d \o <<z>>, p, z)
         /\ ~Has(d, z) => Once(d \o <<z>>, z)
<1>1. <<z>> \in Seq(S) /\ Len(<<z>>) = 1 /\ <<z>>[1] = z
  OBVIOUS
<1>2. /\ \A p : Has(<<z>>, p) <=> p = z
      /\ \A p : p # z => Followed(<<z>>, p, z)
      /\ Once(<<z>>, z)
  BY <1>1 DEF Has, Followed, Once
<1> QED
  BY <1>1, <1>2, HasBoth, BothFollowed, BothOnce

\* New packets change no order, bring their own, and end the queue.
LEMMA BothBefore ==
  ASSUME NEW S, NEW c \in Seq(S), NEW d \in Seq(S)
  PROVE  /\ \A p, r : Before(c, p, r) \/ Before(d, p, r) => Before(c \o d, p, r)
         /\ \A R : d # <<>> /\ EndsIn(d, R) => EndsIn(c \o d, R)
         /\ c # <<>> => Head(c \o d) = Head(c)
<1>1. /\ c \o d \in Seq(S)
      /\ Len(c) \in Nat /\ Len(d) \in Nat /\ Len(c \o d) = Len(c) + Len(d)
      /\ \A k \in 1 .. Len(c) + Len(d) :
           (c \o d)[k] = IF k <= Len(c) THEN c[k] ELSE d[k - Len(c)]
  BY ConcatProperties, LenProperties
<1>2. ASSUME NEW p, NEW r, Before(c, p, r) PROVE Before(c \o d, p, r)
  <2>1. PICK k \in 1 .. Len(c), l \in 1 .. Len(c) : k < l /\ c[k] = p /\ c[l] = r
    BY <1>2 DEF Before
  <2>2. /\ k \in 1 .. Len(c) + Len(d) /\ l \in 1 .. Len(c) + Len(d)
        /\ (c \o d)[k] = p /\ (c \o d)[l] = r
    BY <1>1, <2>1
  <2> QED
    BY <1>1, <2>1, <2>2 DEF Before
<1>3. ASSUME NEW p, NEW r, Before(d, p, r) PROVE Before(c \o d, p, r)
  <2>1. PICK k \in 1 .. Len(d), l \in 1 .. Len(d) : k < l /\ d[k] = p /\ d[l] = r
    BY <1>3 DEF Before
  <2>2. /\ k + Len(c) \in 1 .. Len(c) + Len(d) /\ l + Len(c) \in 1 .. Len(c) + Len(d)
        /\ (c \o d)[k + Len(c)] = p /\ (c \o d)[l + Len(c)] = r
        /\ k + Len(c) < l + Len(c)
    BY <1>1, <2>1
  <2> QED
    BY <1>1, <2>2 DEF Before
<1>4. ASSUME NEW R, d # <<>>, EndsIn(d, R) PROVE EndsIn(c \o d, R)
  <2>1. Len(d) \in 1 .. Len(d)
    BY <1>1, <1>4, EmptySeq
  <2>2. (c \o d)[Len(c \o d)] = d[Len(d)]
    BY <1>1, <2>1
  <2> QED
    BY <1>4, <2>2 DEF EndsIn
<1>5. ASSUME c # <<>> PROVE Head(c \o d) = Head(c)
  <2>1. Len(c) \in 1 .. Len(c) /\ c \o d # <<>>
    BY <1>1, <1>5, EmptySeq
  <2>2. (c \o d)[1] = c[1]
    BY <1>1, <2>1
  <2>3. \A b \in Seq(S) : b # <<>> => Head(b) = b[1]
    BY EmptySeq
  <2> QED
    BY <1>1, <1>5, <2>1, <2>2, <2>3
<1> QED
  BY <1>2, <1>3, <1>4, <1>5

\* The last of the packets has all the others in front of it.
LEMMA LastBehind ==
  ASSUME NEW S, NEW d \in Seq(S), NEW z \in S
  PROVE  /\ \A p : Has(d, p) => Before(d \o <<z>>, p, z)
         /\ EndsIn(d \o <<z>>, {z}) /\ d \o <<z>> # <<>>
<1>1. /\ <<z>> \in Seq(S) /\ d \o <<z>> \in Seq(S)
      /\ Len(d) \in Nat /\ Len(d \o <<z>>) = Len(d) + 1
      /\ \A k \in 1 .. Len(d) : (d \o <<z>>)[k] = d[k]
      /\ (d \o <<z>>)[Len(d) + 1] = z
  BY LenProperties
<1>2. ASSUME NEW p, Has(d, p) PROVE Before(d \o <<z>>, p, z)
  <2>1. PICK k \in 1 .. Len(d) : d[k] = p
    BY <1>2 DEF Has
  <2>2. /\ k \in 1 .. Len(d) + 1 /\ Len(d) + 1 \in 1 .. Len(d) + 1
        /\ k < Len(d) + 1 /\ (d \o <<z>>)[k] = p
    BY <1>1, <2>1
  <2> QED
    BY <1>1, <2>2 DEF Before
<1> QED
  BY <1>1, <1>2 DEF EndsIn

\* What does not wait stands in no order.
LEMMA AbsentPacket ==
  ASSUME NEW c, NEW p, ~Has(c, p)
  PROVE  (\A r : Followed(c, p, r)) /\ Once(c, p)
BY DEF Has, Followed, Once

-----------------------------------------------------------------------------
(* Short queues written out.                                               *)

\* One packet and one.
LEMMA JoinTwo ==
  ASSUME NEW a, NEW b
  PROVE  <<a, b>> = <<a>> \o <<b>>
<1> DEFINE S == {a, b}
           l == <<a>>
           r == <<b>>
<1>1. l \in Seq(S) /\ r \in Seq(S) /\ <<a, b>> \in Seq(S)
  OBVIOUS
<1> HIDE DEF S
<1>2. /\ l \o r \in Seq(S) /\ Len(l \o r) = 2
      /\ \A k \in 1 .. 2 : (l \o r)[k] = IF k <= 1 THEN l[k] ELSE r[k - 1]
  BY <1>1, ConcatProperties
<1>3. \A k \in 1 .. 2 : (l \o r)[k] = <<a, b>>[k]
  BY <1>2
<1> QED
  BY <1>1, <1>2, <1>3, SeqEqual

\* One packet and two.
LEMMA JoinThree ==
  ASSUME NEW a, NEW b, NEW c
  PROVE  <<a>> \o <<b, c>> = <<a, b, c>>
<1> DEFINE S == {a, b, c}
           l == <<a>>
           r == <<b, c>>
<1>1. l \in Seq(S) /\ r \in Seq(S) /\ <<a, b, c>> \in Seq(S)
  OBVIOUS
<1> HIDE DEF S
<1>2. /\ l \o r \in Seq(S) /\ Len(l \o r) = 3
      /\ \A k \in 1 .. 3 : (l \o r)[k] = IF k <= 1 THEN l[k] ELSE r[k - 1]
  BY <1>1, ConcatProperties
<1>3. \A k \in 1 .. 3 : (l \o r)[k] = <<a, b, c>>[k]
  BY <1>2
<1> QED
  BY <1>1, <1>2, <1>3, SeqEqual

\* Two packets and five.
LEMMA JoinSeven ==
  ASSUME NEW a, NEW b, NEW c, NEW d, NEW e, NEW f, NEW g
  PROVE  <<a, b>> \o <<c, d, e, f, g>> = <<a, b, c, d, e, f, g>>
<1> DEFINE S == {a, b, c, d, e, f, g}
           l == <<a, b>>
           r == <<c, d, e, f, g>>
<1>1. l \in Seq(S) /\ r \in Seq(S) /\ <<a, b, c, d, e, f, g>> \in Seq(S)
  OBVIOUS
<1> HIDE DEF S
<1>2. /\ l \o r \in Seq(S) /\ Len(l \o r) = 7
      /\ \A k \in 1 .. 7 : (l \o r)[k] = IF k <= 2 THEN l[k] ELSE r[k - 2]
  BY <1>1, ConcatProperties
<1>3. \A k \in 1 .. 7 : (l \o r)[k] = <<a, b, c, d, e, f, g>>[k]
  BY <1>2
<1> QED
  BY <1>1, <1>2, <1>3, SeqEqual


-----------------------------------------------------------------------------
(* Sets of numbers and their ascending order.                              *)

\* A set of natural numbers has a least member, unless it is empty.
LEMMA LeastMember ==
  ASSUME NEW T \in SUBSET Nat, T # {}
  PROVE  \E x \in T : \A y \in T : x <= y
<1> DEFINE R == {ss \in Nat \X Nat : ss[1] < ss[2]}
<1>1. R = OpToRel(<, Nat)
  BY DEF OpToRel
<1>2. IsWellFoundedOn(R, Nat)
  BY <1>1, NatLessThanWellFounded
<1>3. PICK x \in T : \A y \in T : <<y, x>> \notin R
  <2> HIDE DEF R
  <2> QED
    BY <1>2, WFMin
<1>4. \A y \in T : ~ (y < x)
  BY <1>3
<1> QED
  BY <1>4

\* Induction over the natural numbers, for a set of numbers.
LEMMA NumberInduction ==
  ASSUME NEW T, 0 \in T, \A n \in Nat : n \in T => n + 1 \in T
  PROVE  Nat \subseteq T
<1> SUFFICES ASSUME Nat \ T # {} PROVE FALSE
  OBVIOUS
<1>1. PICK x \in Nat \ T : \A y \in Nat \ T : x <= y
  BY LeastMember
<1>2. x - 1 \in Nat /\ x - 1 \notin Nat \ T
  BY <1>1
<1> QED
  BY <1>1, <1>2

\* A finite set of numbers has a member of every rank.
LEMMA MemberOfRank ==
  ASSUME NEW S \in SUBSET Nat, IsFiniteSet(S), NEW n \in Nat, n < Cardinality(S)
  PROVE  \E x \in S : Cardinality({y \in S : y < x}) = n
<1> DEFINE Below(x) == {y \in S : y < x}
           T == {m \in Nat : m < Cardinality(S) => \E x \in S : Cardinality(Below(x)) = m}
<1>0. Cardinality(S) \in Nat
  BY FS_CardinalityType
<1>1. 0 \in T
  <2>1. CASE S = {}
    BY <2>1, FS_EmptySet
  <2>2. CASE S # {}
    <3>1. PICK x \in S : \A y \in S : x <= y
      BY <2>2, LeastMember
    <3>2. \A y \in S : ~ (y < x)
      BY <3>1
    <3>3. Below(x) = {}
      BY <3>2
    <3> QED
      BY <3>3, FS_EmptySet
  <2> QED
    BY <2>1, <2>2
<1>2. ASSUME NEW m \in Nat, m \in T PROVE m + 1 \in T
  <2> SUFFICES ASSUME m + 1 < Cardinality(S)
               PROVE  \E x \in S : Cardinality(Below(x)) = m + 1
    OBVIOUS
  <2>1. PICK x \in S : Cardinality(Below(x)) = m
    BY <1>0, <1>2
  <2>2. IsFiniteSet(Below(x)) /\ x \notin Below(x)
    BY FS_Subset
  <2>3. Cardinality(Below(x) \cup {x}) = m + 1
    BY <2>1, <2>2, FS_AddElement
  <2>4. {y \in S : y > x} # {}
    <3>1. SUFFICES ASSUME {y \in S : y > x} = {} PROVE FALSE
      OBVIOUS
    <3>2. \A y \in S : ~ (y > x)
      BY <3>1
    <3>3. \A y \in S : y \in Nat /\ x \in Nat
      OBVIOUS
    <3>4. \A y \in S : y < x \/ y = x
      BY <3>2, <3>3
    <3>5. S = Below(x) \cup {x}
      BY <3>4
    <3> QED
      BY <2>3, <3>5, <1>0
  <2>5. PICK z \in {y \in S : y > x} : \A y \in {y \in S : y > x} : z <= y
    BY <2>4, LeastMember
  <2>6. Below(z) = Below(x) \cup {x}
    <3>1. x \in Nat /\ z \in Nat /\ z > x /\ \A y \in S : y \in Nat
      BY <2>5
    <3>2. \A y \in S : y > x => z <= y
      BY <2>5
    <3>3. \A y \in S : y < z <=> y < x \/ y = x
      BY <3>1, <3>2
    <3> QED
      BY <3>3
  <2> QED
    BY <2>3, <2>5, <2>6
<1>3. n \in T
  <2> HIDE DEF T
  <2> QED
    BY <1>1, <1>2, NumberInduction
<1> QED
  BY <1>3

\* A function on the first n numbers is a sequence of length n.
LEMMA FunctionIsSequence ==
  ASSUME NEW n \in Nat, NEW S, NEW f \in [1 .. n -> S]
  PROVE  f \in Seq(S) /\ Len(f) = n /\ DOMAIN f = 1 .. n
<1>1. f \in Seq(S)
  BY SeqDef
<1>2. DOMAIN f = 1 .. Len(f) /\ Len(f) \in Nat /\ DOMAIN f = 1 .. n
  BY <1>1, LenProperties
<1>3. Len(f) = n
  <2>1. CASE Len(f) > n
    <3>1. Len(f) \in 1 .. Len(f) /\ Len(f) \notin 1 .. n
      BY <1>2, <2>1
    <3> QED
      BY <1>2, <3>1
  <2>2. CASE Len(f) < n
    <3>1. n \in 1 .. n /\ n \notin 1 .. Len(f)
      BY <1>2, <2>2
    <3> QED
      BY <1>2, <3>1
  <2> QED
    BY <1>2, <2>1, <2>2
<1> QED
  BY <1>1, <1>2, <1>3

\* A set in ascending order is a sequence of its members.
LEMMA AscendingMembers ==
  ASSUME NEW S \in SUBSET Nat, IsFiniteSet(S)
  PROVE  Ascending[S] \in Seq(S) /\ Len(Ascending[S]) = Cardinality(S)
<1> DEFINE Below(x) == {y \in S : y < x}
<1>1. Cardinality(S) \in Nat
  BY FS_CardinalityType
<1>2. Ascending[S] = [n \in 1 .. Cardinality(S) |-> CHOOSE x \in S : Cardinality(Below(x)) = n - 1]
  BY DEF Ascending
<1>3. \A n \in 1 .. Cardinality(S) : (CHOOSE x \in S : Cardinality(Below(x)) = n - 1) \in S
  <2> SUFFICES ASSUME NEW n \in 1 .. Cardinality(S)
               PROVE  (CHOOSE x \in S : Cardinality(Below(x)) = n - 1) \in S
    OBVIOUS
  <2>1. n - 1 \in Nat /\ n - 1 < Cardinality(S)
    BY <1>1
  <2>2. \E x \in S : Cardinality(Below(x)) = n - 1
    BY <2>1, MemberOfRank
  <2> QED
    BY <2>2
<1>4. Ascending[S] \in [1 .. Cardinality(S) -> S]
  BY <1>2, <1>3
<1> QED
  BY <1>1, <1>4, FunctionIsSequence

\* A greater member has a greater rank, so that the rank tells the member.
LEMMA RankTells ==
  ASSUME NEW S \in SUBSET Nat, IsFiniteSet(S), NEW x \in S
  PROVE  LET n == Cardinality({y \in S : y < x}) + 1
         IN  n \in 1 .. Cardinality(S) /\ Ascending[S][n] = x
<1> DEFINE Below(z) == {y \in S : y < z}
           Rank(z) == Cardinality(Below(z))
<1>1. \A z \in S : IsFiniteSet(Below(z)) /\ Rank(z) \in Nat
  BY FS_Subset, FS_CardinalityType
<1>2. ASSUME NEW a \in S, NEW b \in S, a < b
      PROVE  Rank(a) < Rank(b)
  <2>1. Below(a) \subseteq Below(b) /\ a \in Below(b) /\ a \notin Below(a)
    <3>1. \A y \in S : y \in Nat
      OBVIOUS
    <3>2. a \in Nat /\ b \in Nat
      BY <3>1
    <3>3. \A y \in S : y < a => y < b
      BY <1>2, <3>1, <3>2
    <3>4. ~ (a < a)
      BY <3>2
    <3> QED
      BY <1>2, <3>3, <3>4
  <2>2. Below(a) # Below(b)
    BY <2>1
  <2> HIDE DEF Below
  <2> QED
    BY <1>1, <2>1, <2>2, FS_Subset
<1>3. \A z \in S : Rank(z) = Rank(x) => z = x
  <2> SUFFICES ASSUME NEW z \in S, z # x PROVE Rank(z) # Rank(x)
    OBVIOUS
  <2>1. z < x \/ x < z
    OBVIOUS
  <2> HIDE DEF Rank
  <2>2. Rank(z) < Rank(x) \/ Rank(x) < Rank(z)
    BY <1>2, <2>1
  <2>3. Rank(z) \in Nat /\ Rank(x) \in Nat
    BY <1>1
  <2> QED
    BY <2>2, <2>3
<1>4. Rank(x) < Cardinality(S) /\ Cardinality(S) \in Nat
  <2>1. Below(x) \subseteq S /\ Below(x) # S
    <3>1. x \notin Below(x)
      OBVIOUS
    <3> QED
      BY <3>1
  <2> HIDE DEF Below
  <2> QED
    BY <2>1, FS_Subset, FS_CardinalityType
<1>5. (CHOOSE z \in S : Rank(z) = Rank(x)) = x
  <2> HIDE DEF Rank
  <2> QED
    BY <1>3
<1>6. Rank(x) + 1 \in 1 .. Cardinality(S) /\ (Rank(x) + 1) - 1 = Rank(x)
  BY <1>1, <1>4
<1>7. Ascending[S] = [n \in 1 .. Cardinality(S) |-> CHOOSE z \in S : Rank(z) = n - 1]
  BY DEF Ascending
<1> HIDE DEF Rank
<1>8. Ascending[S][Rank(x) + 1] = x
  BY <1>5, <1>6, <1>7
<1> QED
  BY <1>6, <1>8 DEF Rank

\* The member in place n has n - 1 members below it.
LEMMA RankOfPlace ==
  ASSUME NEW S \in SUBSET Nat, IsFiniteSet(S), NEW n \in 1 .. Cardinality(S)
  PROVE  /\ Ascending[S][n] \in S
         /\ Cardinality({y \in S : y < Ascending[S][n]}) = n - 1
<1> DEFINE Rank(x) == Cardinality({y \in S : y < x})
<1>1. Cardinality(S) \in Nat
  BY FS_CardinalityType
<1>2. n - 1 \in Nat /\ n - 1 < Cardinality(S)
  BY <1>1
<1>3. \E x \in S : Rank(x) = n - 1
  BY <1>2, MemberOfRank
<1>4. Ascending[S] = [k \in 1 .. Cardinality(S) |-> CHOOSE x \in S : Rank(x) = k - 1]
  BY DEF Ascending
<1> HIDE DEF Rank
<1>5. Ascending[S][n] = CHOOSE x \in S : Rank(x) = n - 1
  BY <1>4
<1>6. Ascending[S][n] \in S /\ Rank(Ascending[S][n]) = n - 1
  BY <1>3, <1>5
<1> QED
  BY <1>6 DEF Rank

\* Two sets of which one lies below the other, in ascending order.
LEMMA AscendingJoin ==
  ASSUME NEW A \in SUBSET Nat, NEW B \in SUBSET Nat, IsFiniteSet(A), IsFiniteSet(B),
         \A a \in A, b \in B : a < b
  PROVE  Ascending[A \cup B] = Ascending[A] \o Ascending[B]
<1> DEFINE U == A \cup B
           m == Cardinality(A)
           n == Cardinality(B)
           s == Ascending[A]
           t == Ascending[B]
           u == Ascending[U]
<1>0. \A x \in U : x \in Nat
  OBVIOUS
<1>1. U \in SUBSET Nat /\ IsFiniteSet(U) /\ m \in Nat /\ n \in Nat /\ Cardinality(U) = m + n
  <2>1. A \cap B = {}
    <3>1. \A x \in A \cap B : x \in Nat /\ x < x
      OBVIOUS
    <3>2. \A x \in Nat : ~ (x < x)
      OBVIOUS
    <3> QED
      BY <3>1, <3>2
  <2>2. IsFiniteSet(U) /\ Cardinality(U) = m + n - Cardinality(A \cap B)
    BY FS_Union
  <2>3. Cardinality(A \cap B) = 0 /\ m \in Nat /\ n \in Nat
    BY <2>1, FS_CardinalityType, FS_EmptySet
  <2> HIDE DEF m, n, U
  <2>4. Cardinality(U) = m + n
    BY <2>2, <2>3
  <2> QED
    BY <2>2, <2>3, <2>4 DEF U
<1>2. /\ s \in Seq(A) /\ Len(s) = m /\ t \in Seq(B) /\ Len(t) = n
      /\ u \in Seq(U) /\ Len(u) = m + n
  <2> HIDE DEF U
  <2> QED
    BY <1>1, AscendingMembers
<1>3. ASSUME NEW k \in 1 .. m PROVE u[k] = s[k]
  <2> DEFINE x == s[k]
  <2>1. x \in A /\ Cardinality({y \in A : y < x}) = k - 1
    BY RankOfPlace
  <2> HIDE DEF x
  <2>2. {y \in U : y < x} = {y \in A : y < x}
    <3>1. \A y \in B : x < y /\ y \in Nat /\ x \in Nat
      BY <2>1
    <3>2. \A y \in B : ~ (y < x)
      BY <3>1
    <3> QED
      BY <3>2
  <2>3. u[Cardinality({y \in U : y < x}) + 1] = x
    <3>1. x \in U
      BY <2>1
    <3> HIDE DEF U
    <3> QED
      BY <1>1, <3>1, RankTells
  <2>4. (k - 1) + 1 = k
    OBVIOUS
  <2> QED
    BY <2>1, <2>2, <2>3, <2>4 DEF x
<1>4. ASSUME NEW k \in 1 .. n PROVE u[m + k] = t[k]
  <2> DEFINE x == t[k]
             Below == {y \in B : y < x}
  <2>1. x \in B /\ Cardinality(Below) = k - 1
    BY RankOfPlace
  <2> HIDE DEF x
  <2>2. {y \in U : y < x} = A \cup Below /\ A \cap Below = {}
    <3>1. \A y \in A : y < x /\ y \in Nat
      BY <2>1
    <3>2. \A y \in A : y \notin B
      <4>1. \A y \in Nat : ~ (y < y)
        OBVIOUS
      <4> QED
        BY <3>1, <4>1
    <3> QED
      BY <3>1, <3>2
  <2>3. Cardinality(A \cup Below) = m + (k - 1)
    <3>1. IsFiniteSet(Below)
      BY FS_Subset
    <3> HIDE DEF Below
    <3>2. Cardinality(A \cup Below) = m + (k - 1) - 0
      BY <2>1, <2>2, <3>1, FS_Union, FS_EmptySet
    <3> QED
      BY <1>1, <3>2
  <2>4. u[Cardinality({y \in U : y < x}) + 1] = x
    <3>1. x \in U
      BY <2>1
    <3> HIDE DEF U
    <3> QED
      BY <1>1, <3>1, RankTells
  <2>5. m + (k - 1) + 1 = m + k
    BY <1>1
  <2> QED
    BY <2>2, <2>3, <2>4, <2>5 DEF x
<1> HIDE DEF s, t, u, m, n, U
<1>5. /\ s \in Seq(U) /\ t \in Seq(U)
  BY <1>2 DEF U
<1>6. /\ s \o t \in Seq(U) /\ Len(s \o t) = m + n
      /\ \A k \in 1 .. m + n : (s \o t)[k] = IF k <= m THEN s[k] ELSE t[k - m]
  BY <1>1, <1>2, <1>5, ConcatProperties
<1>7. \A k \in 1 .. m + n : u[k] = (s \o t)[k]
  <2> SUFFICES ASSUME NEW k \in 1 .. m + n PROVE u[k] = (s \o t)[k]
    OBVIOUS
  <2>1. CASE k <= m
    <3>1. k \in 1 .. m
      BY <1>1, <2>1
    <3> QED
      BY <1>3, <1>6, <2>1, <3>1
  <2>2. CASE ~ (k <= m)
    <3>1. k - m \in 1 .. n /\ m + (k - m) = k
      BY <1>1, <2>2
    <3>2. u[m + (k - m)] = t[k - m]
      BY <1>4, <3>1
    <3> QED
      BY <1>6, <2>2, <3>1, <3>2
  <2> QED
    BY <2>1, <2>2
<1> QED
  BY <1>2, <1>6, <1>7, SeqEqual DEF s, t, u, U

\* The shortest ascending orders.
LEMMA AscendingFew ==
  /\ Ascending[{}] = <<>>
  /\ \A x \in Nat : Ascending[{x}] = <<x>>
<1>1. Ascending[{}] = <<>>
  <2>1. Ascending[{}] \in Seq({}) /\ Len(Ascending[{}]) = 0
    BY FS_EmptySet, AscendingMembers
  <2> QED
    BY <2>1, EmptySeq
<1>2. ASSUME NEW x \in Nat PROVE Ascending[{x}] = <<x>>
  <2>1. {x} \in SUBSET Nat /\ IsFiniteSet({x}) /\ Cardinality({x}) = 1
    BY FS_Singleton
  <2>2. Ascending[{x}] \in Seq({x}) /\ Len(Ascending[{x}]) = 1
    BY <2>1, AscendingMembers
  <2>3. Ascending[{x}][1] \in {x}
    <3>1. 1 \in 1 .. Cardinality({x})
      BY <2>1
    <3> QED
      BY <2>1, <3>1, RankOfPlace
  <2>4. <<x>> \in Seq({x}) /\ Len(<<x>>) = 1 /\ <<x>>[1] = x
    OBVIOUS
  <2>5. \A k \in 1 .. 1 : Ascending[{x}][k] = <<x>>[k]
    BY <2>3, <2>4
  <2> QED
    BY <2>2, <2>4, <2>5, SeqEqual
<1> QED
  BY <1>1, <1>2
=============================================================================
