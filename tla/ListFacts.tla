------------------------------ MODULE ListFacts ------------------------------
(***************************************************************************)
(* What the proofs about a session need to know of numbers, sequences and  *)
(* finite sets of numbers, and of the command lists made of them.          *)
(***************************************************************************)
EXTENDS Session, QueueFacts

\* A set of numbers with a bound has a greatest member.
LEMMA GreatestMember ==
  ASSUME NEW T \in SUBSET Nat, T # {}, NEW b \in Nat, \A y \in T : y <= b
  PROVE  \E x \in T : \A y \in T : y <= x
<1> DEFINE U == {m \in Nat : \E y \in T : m = b - y}
<1>0. \A y \in T : y \in Nat /\ y <= b
  OBVIOUS
<1>1. U # {}
  <2>1. PICK y \in T : TRUE
    OBVIOUS
  <2>2. b - y \in U
    BY <1>0
  <2> QED
    BY <2>2
<1>2. PICK m \in U : \A k \in U : m <= k
  BY <1>1, LeastMember
<1>3. PICK x \in T : m = b - x
  BY <1>2
<1>4. \A y \in T : b - y \in U
  BY <1>0
<1>5. \A y \in T : b - x <= b - y
  BY <1>2, <1>3, <1>4
<1> QED
  BY <1>0, <1>5

\* Going round once.
LEMMA OnceRound ==
  ASSUME NEW n \in Nat \ {0}, NEW a \in Nat, a < n + n
  PROVE  a % n = IF a < n THEN a ELSE a - n
<1> DEFINE q == a \div n
           r == a % n
<1>1. q \in Int /\ r \in Int /\ a = n * q + r /\ 0 <= r /\ r < n
  OBVIOUS
<1> HIDE DEF q, r
<1>2. q >= 0
  <2> SUFFICES ASSUME q <= -1 PROVE FALSE
    BY <1>1
  <2>1. n * q <= n * (-1)
    BY <1>1
  <2> QED
    BY <1>1, <2>1
<1>3. q <= 1
  <2> SUFFICES ASSUME q >= 2 PROVE FALSE
    BY <1>1
  <2>1. n * q >= n * 2
    BY <1>1
  <2> QED
    BY <1>1, <2>1
<1>4. q = 0 \/ q = 1
  BY <1>1, <1>2, <1>3
<1>5. n * 0 = 0 /\ n * 1 = n
  OBVIOUS
<1>6. r = IF a < n THEN a ELSE a - n
  BY <1>1, <1>4, <1>5
<1> QED
  BY <1>6 DEF r

\* A share is no larger than the whole.
LEMMA DivisionShrinks ==
  ASSUME NEW n \in Nat, NEW k \in Nat \ {0}
  PROVE  n \div k \in Nat /\ n \div k <= n
<1> DEFINE q == n \div k
<1>1. q \in Int /\ n = k * q + (n % k) /\ n % k \in 0 .. k - 1
  OBVIOUS
<1>2. q >= 0
  BY <1>1
<1>3. q <= k * q
  BY <1>2
<1> QED
  BY <1>1, <1>2, <1>3

\* A quotient is what its bounds say.
LEMMA QuotientIs ==
  ASSUME NEW a \in Nat, NEW b \in Nat \ {0}, NEW q \in Nat, b * q <= a, a < b * q + b
  PROVE  a \div b = q
<1> DEFINE d == a \div b
<1>1. d \in Int /\ b * d <= a /\ a < b * d + b
  OBVIOUS
<1> HIDE DEF d
<1>2. ~ (d >= q + 1)
  <2> SUFFICES ASSUME d >= q + 1 PROVE FALSE
    OBVIOUS
  <2>1. b * d >= b * (q + 1)
    BY <1>1
  <2>2. b * (q + 1) = b * q + b
    OBVIOUS
  <2> QED
    BY <1>1, <2>1, <2>2
<1>3. ~ (q >= d + 1)
  <2> SUFFICES ASSUME q >= d + 1 PROVE FALSE
    OBVIOUS
  <2>1. b * q >= b * (d + 1)
    BY <1>1
  <2>2. b * (d + 1) = b * d + b
    BY <1>1
  <2> QED
    BY <1>1, <2>1, <2>2
<1>4. d = q
  BY <1>1, <1>2, <1>3
<1> QED
  BY <1>4 DEF d

-----------------------------------------------------------------------------
(* Sequences.                                                              *)

\* One element more.
LEMMA OneMore ==
  ASSUME NEW c, c \in Seq(ToSet(c)), NEW x
  PROVE  /\ Append(c, x) \in Seq(ToSet(Append(c, x)))
         /\ Len(c) \in Nat /\ Len(Append(c, x)) = Len(c) + 1
         /\ \A k \in 1 .. Len(c) : Append(c, x)[k] = c[k]
         /\ Append(c, x)[Len(c) + 1] = x
<1> DEFINE S == ToSet(c) \cup {x}
           d == Append(c, x)
<1>1. c \in Seq(S)
  BY SeqMonotonic
<1>2. /\ d \in Seq(S) /\ Len(d) = Len(c) + 1
      /\ \A k \in 1 .. Len(c) : d[k] = c[k]
      /\ d[Len(c) + 1] = x
  BY <1>1, AppendProperties
<1>3. Len(c) \in Nat /\ Len(d) \in Nat /\ DOMAIN d = 1 .. Len(d) /\ d \in [1 .. Len(d) -> S]
  BY <1>1, <1>2, LenProperties
<1>4. d \in [1 .. Len(d) -> ToSet(d)]
  <2>1. \A k \in 1 .. Len(d) : d[k] \in ToSet(d)
    BY <1>3 DEF ToSet
  <2> HIDE DEF d
  <2> QED
    BY <1>3, <2>1
<1>5. d \in Seq(ToSet(d))
  BY <1>3, <1>4, FunctionIsSequence
<1> QED
  BY <1>2, <1>3, <1>5

\* The lesser of two.
LEMMA MinOfTwo ==
  ASSUME NEW a \in Nat, NEW b \in Nat
  PROVE  Min({a, b}) = IF a <= b THEN a ELSE b
BY DEF Min

\* The greater of two.
LEMMA MaxOfTwo ==
  ASSUME NEW a \in Nat, NEW b \in Nat
  PROVE  Max({a, b}) = IF a <= b THEN b ELSE a
BY DEF Max

\* The first c elements of a sequence, or all.
LEMMA FirstOf ==
  ASSUME NEW S, NEW s \in Seq(S), NEW c \in Nat
  PROVE  LET t == SubSeq(s, 1, Min({Len(s), c}))
         IN  /\ t \in Seq(S) /\ Len(t) <= c /\ Len(t) <= Len(s)
             /\ Len(t) = IF Len(s) <= c THEN Len(s) ELSE c
             /\ \A k \in 1 .. Len(t) : t[k] = s[k]
<1> DEFINE m == Min({Len(s), c})
<1>1. Len(s) \in Nat
  BY LenProperties
<1>2. m = IF Len(s) <= c THEN Len(s) ELSE c
  BY <1>1, MinOfTwo
<1>3. m \in Nat /\ m <= c /\ m <= Len(s)
  BY <1>1, <1>2
<1> HIDE DEF m
<1>4. \A k \in 1 .. m : s[k] \in S
  BY <1>1, <1>3, ElementOfSeq
<1>5. /\ SubSeq(s, 1, m) \in Seq(S)
      /\ Len(SubSeq(s, 1, m)) = IF 1 <= m THEN m - 1 + 1 ELSE 0
      /\ \A k \in 1 .. m - 1 + 1 : SubSeq(s, 1, m)[k] = s[1 + k - 1]
  BY <1>3, <1>4, SubSeqProperties
<1>6. Len(SubSeq(s, 1, m)) = m
  BY <1>3, <1>5
<1>7. \A k \in 1 .. m : SubSeq(s, 1, m)[k] = s[k]
  <2>1. \A k \in 1 .. m : 1 + k - 1 = k /\ k \in 1 .. m - 1 + 1
    BY <1>3
  <2> QED
    BY <1>5, <2>1
<1> QED
  BY <1>2, <1>3, <1>5, <1>6, <1>7 DEF m

\* A sequence of n equal elements: one more, and what is left after the first w.
LEMMA EqualElements ==
  ASSUME NEW n \in Nat, NEW w \in Nat, NEW S, NEW v \in S
  PROVE  LET s == [k \in 1 .. n |-> v]
         IN  /\ s \in Seq(S) /\ Len(s) = n
             /\ Append(s, v) = [k \in 1 .. n + 1 |-> v]
             /\ SubSeq(s, w + 1, n) = [k \in 1 .. n - w |-> v]
<1> DEFINE s == [k \in 1 .. n |-> v]
           t == [k \in 1 .. n + 1 |-> v]
           m == IF w <= n THEN n - w ELSE 0
           u == [k \in 1 .. m |-> v]
<1>1. s \in [1 .. n -> S] /\ t \in [1 .. n + 1 -> S] /\ u \in [1 .. m -> S] /\ m \in Nat
  OBVIOUS
<1>2. /\ s \in Seq(S) /\ Len(s) = n
      /\ t \in Seq(S) /\ Len(t) = n + 1
      /\ u \in Seq(S) /\ Len(u) = m
  <2> HIDE DEF s, t, u, m
  <2> QED
    BY <1>1, FunctionIsSequence
<1>3. /\ \A k \in 1 .. n : s[k] = v
      /\ \A k \in 1 .. n + 1 : t[k] = v
      /\ \A k \in 1 .. m : u[k] = v
  OBVIOUS
<1>4. u = [k \in 1 .. n - w |-> v]
  <2>1. 1 .. m = 1 .. n - w
    OBVIOUS
  <2> QED
    BY <2>1
<1> HIDE DEF s, t, u
<1>5. Append(s, v) = t
  <2>1. /\ Append(s, v) \in Seq(S) /\ Len(Append(s, v)) = n + 1
        /\ \A k \in 1 .. n : Append(s, v)[k] = v
        /\ Append(s, v)[n + 1] = v
    BY <1>2, <1>3, AppendProperties
  <2>2. \A k \in 1 .. n + 1 : Append(s, v)[k] = t[k]
    BY <1>3, <2>1
  <2> QED
    BY <1>2, <2>1, <2>2, SeqEqual
<1>6. SubSeq(s, w + 1, n) = u
  <2>1. \A k \in w + 1 .. n : s[k] = v /\ s[k] \in S
    BY <1>3
  <2>2. /\ SubSeq(s, w + 1, n) \in Seq(S)
        /\ Len(SubSeq(s, w + 1, n)) = IF w + 1 <= n THEN n - (w + 1) + 1 ELSE 0
        /\ \A k \in 1 .. n - (w + 1) + 1 : SubSeq(s, w + 1, n)[k] = s[w + 1 + k - 1]
    BY <2>1, SubSeqProperties
  <2>3. Len(SubSeq(s, w + 1, n)) = m
    BY <2>2
  <2>4. \A k \in 1 .. m : SubSeq(s, w + 1, n)[k] = u[k]
    <3>1. \A k \in 1 .. m : k \in 1 .. n - (w + 1) + 1 /\ w + 1 + k - 1 \in w + 1 .. n
      OBVIOUS
    <3> QED
      BY <1>3, <2>1, <2>2, <3>1
  <2> QED
    BY <1>2, <2>2, <2>3, <2>4, SeqEqual
<1> QED
  BY <1>2, <1>4, <1>5, <1>6 DEF s, t

\* How many numbers are in two intervals.
LEMMA TwoIntervals ==
  ASSUME NEW a \in Nat, NEW b \in Nat, NEW c \in Nat, a <= b, b <= c
  PROVE  /\ IsFiniteSet((0 .. a - 1) \cup (b .. c - 1))
         /\ Cardinality((0 .. a - 1) \cup (b .. c - 1)) = a + (c - b)
<1> DEFINE S == 0 .. a - 1
           T == b .. c - 1
<1>1. IsFiniteSet(S) /\ Cardinality(S) = a
  <2>1. IsFiniteSet(S) /\ Cardinality(S) = IF 0 > a - 1 THEN 0 ELSE a - 1 - 0 + 1
    BY FS_Interval
  <2> QED
    BY <2>1
<1>2. IsFiniteSet(T) /\ Cardinality(T) = c - b
  <2>1. IsFiniteSet(T) /\ Cardinality(T) = IF b > c - 1 THEN 0 ELSE c - 1 - b + 1
    BY FS_Interval
  <2> QED
    BY <2>1
<1>3. S \cap T = {}
  OBVIOUS
<1> HIDE DEF S, T
<1>4. IsFiniteSet(S \cup T) /\ Cardinality(S \cup T) = a + (c - b)
  BY <1>1, <1>2, <1>3, FS_Union, FS_EmptySet
<1> QED
  BY <1>4 DEF S, T

-----------------------------------------------------------------------------
(* Sums over finite sets: the recursion that a fold over a set stands for. *)

AnyOf(s) == CHOOSE x \in s : TRUE
SumStep(S, d, f) ==
    [s \in SUBSET S |-> IF s = {} THEN 0 ELSE d[AnyOf(s)] + f[s \ {AnyOf(s)}]]

\* One element less.
LEMMA OneTaken ==
  ASSUME NEW s, IsFiniteSet(s), s # {}
  PROVE  /\ AnyOf(s) \in s
         /\ IsFiniteSet(s \ {AnyOf(s)})
         /\ Cardinality(s \ {AnyOf(s)}) = Cardinality(s) - 1
         /\ Cardinality(s) \in Nat \ {0}
<1>1. AnyOf(s) \in s
  BY DEF AnyOf
<1>2. Cardinality(s) \in Nat /\ Cardinality(s) # 0
  BY FS_CardinalityType, FS_EmptySet
<1> QED
  BY <1>1, <1>2, FS_RemoveElement

\* The recursion has a solution: it ends, since the set is finite.
LEMMA SumExists ==
  ASSUME NEW S, IsFiniteSet(S), NEW d
  PROVE  \E f : f = SumStep(S, d, f)
<1> DEFINE Small(n) == {s \in SUBSET S : Cardinality(s) <= n}
           Solves(f, n) ==
             /\ f = [s \in Small(n) |-> f[s]]
             /\ \A s \in Small(n) :
                  f[s] = IF s = {} THEN 0 ELSE d[AnyOf(s)] + f[s \ {AnyOf(s)}]
           T == {n \in Nat : \E f : Solves(f, n)}
<1>1. \A s \in SUBSET S : IsFiniteSet(s) /\ Cardinality(s) \in Nat
  BY FS_Subset, FS_CardinalityType
<1>2. 0 \in T
  <2>1. \A s \in Small(0) : s = {}
    BY <1>1, FS_EmptySet
  <2> DEFINE f == [s \in Small(0) |-> 0]
  <2>2. f = [s \in Small(0) |-> f[s]] /\ \A s \in Small(0) : f[s] = 0
    OBVIOUS
  <2> HIDE DEF f, Small
  <2>3. Solves(f, 0)
    BY <2>1, <2>2
  <2> QED
    BY <2>3
<1>3. ASSUME NEW n \in Nat, n \in T PROVE n + 1 \in T
  <2>1. PICK f : Solves(f, n)
    BY <1>3
  <2> DEFINE Value(s) == IF s = {} THEN 0 ELSE d[AnyOf(s)] + f[s \ {AnyOf(s)}]
             g == [s \in Small(n + 1) |-> Value(s)]
  <2>2. ASSUME NEW s \in Small(n + 1), s # {} PROVE s \ {AnyOf(s)} \in Small(n)
    BY <1>1, <2>2, OneTaken
  <2>3. \A s \in Small(n) : f[s] = Value(s) /\ s \in Small(n + 1)
    BY <1>1, <2>1
  <2>4. g = [s \in Small(n + 1) |-> g[s]] /\ \A s \in Small(n + 1) : g[s] = Value(s)
    OBVIOUS
  <2> HIDE DEF g, Small
  <2>5. \A s \in Small(n) : g[s] = f[s]
    BY <2>3, <2>4
  <2>6. \A s \in Small(n + 1) : g[s] = IF s = {} THEN 0 ELSE d[AnyOf(s)] + g[s \ {AnyOf(s)}]
    BY <2>2, <2>4, <2>5
  <2>7. Solves(g, n + 1)
    BY <2>4, <2>6
  <2> HIDE DEF Solves
  <2> QED
    BY <2>7
<1> DEFINE n == Cardinality(S)
<1>4. n \in Nat /\ \A s \in SUBSET S : Cardinality(s) <= n
  BY FS_CardinalityType, FS_Subset
<1>5. n \in T
  <2> HIDE DEF T, n
  <2> QED
    BY <1>2, <1>3, <1>4, NumberInduction
<1>6. Small(n) = SUBSET S
  BY <1>4
<1>7. PICK f : Solves(f, n)
  BY <1>5
<1> HIDE DEF Small, n
<1>8. f = SumStep(S, d, f)
  BY <1>6, <1>7 DEF SumStep
<1> QED
  BY <1>8

\* However it is solved, the sum is at most as many times the greatest term as
\* there are terms.
LEMMA SumBounded ==
  ASSUME NEW S, IsFiniteSet(S), NEW d, NEW m \in Nat, \A x \in S : d[x] \in Nat /\ d[x] <= m,
         NEW f, f = SumStep(S, d, f)
  PROVE  f[S] \in Nat /\ f[S] <= m * Cardinality(S)
<1> DEFINE Bounded(s) == f[s] \in Nat /\ f[s] <= m * Cardinality(s)
           T == {n \in Nat : \A s \in SUBSET S : Cardinality(s) = n => Bounded(s)}
<1>1. \A s \in SUBSET S : IsFiniteSet(s) /\ Cardinality(s) \in Nat
  BY FS_Subset, FS_CardinalityType
<1>2. \A s \in SUBSET S : f[s] = IF s = {} THEN 0 ELSE d[AnyOf(s)] + f[s \ {AnyOf(s)}]
  BY DEF SumStep
<1>3. 0 \in T
  <2> SUFFICES ASSUME NEW s \in SUBSET S, Cardinality(s) = 0 PROVE Bounded(s)
    OBVIOUS
  <2>1. s = {}
    BY <1>1, FS_EmptySet
  <2>2. f[s] = 0
    BY <1>2, <2>1
  <2>3. m * Cardinality(s) = 0
    <3>1. m * 0 = 0
      OBVIOUS
    <3> QED
      BY <3>1
  <2> QED
    BY <2>2, <2>3
<1>4. ASSUME NEW n \in Nat, n \in T PROVE n + 1 \in T
  <2> SUFFICES ASSUME NEW s \in SUBSET S, Cardinality(s) = n + 1 PROVE Bounded(s)
    OBVIOUS
  <2> DEFINE x == AnyOf(s)
             r == s \ {x}
  <2>1. s # {} /\ IsFiniteSet(s)
    BY <1>1, FS_EmptySet
  <2>2. x \in S /\ r \in SUBSET S /\ Cardinality(r) = n
    BY <2>1, OneTaken
  <2>3. Bounded(r)
    BY <1>4, <2>2
  <2>4. f[s] = d[x] + f[r]
    BY <1>2, <2>1
  <2>5. d[x] \in Nat /\ d[x] <= m
    BY <2>2
  <2>6. m * (n + 1) = m * n + m /\ m * n \in Nat
    OBVIOUS
  <2> HIDE DEF x, r
  <2> QED
    BY <2>2, <2>3, <2>4, <2>5, <2>6
<1>5. Cardinality(S) \in T
  <2> HIDE DEF T
  <2> QED
    BY <1>1, <1>3, <1>4, NumberInduction
<1> QED
  BY <1>5

-----------------------------------------------------------------------------
(* The command lists.                                                      *)

\* A rounded-up quotient is a number.
LEMMA CeilDivNat ==
  ASSUME NEW a \in Nat, NEW b \in Nat \ {0}
  PROVE  CeilDiv(a, b) \in Nat
<1>1. a + b - 1 \in Nat
  OBVIOUS
<1> QED
  BY <1>1, DivisionShrinks DEF CeilDiv

\* A quotient rounded up is enough only if its product is.
LEMMA CeilDivAtMost ==
  ASSUME NEW a \in Nat, NEW b \in Nat \ {0}, NEW k \in Nat, k * b >= a
  PROVE  CeilDiv(a, b) <= k
<1> DEFINE q == (a + b - 1) \div b
<1>1. q \in Int /\ b * q <= a + b - 1
  OBVIOUS
<1> HIDE DEF q
<1>2. SUFFICES ASSUME q >= k + 1 PROVE FALSE
  BY <1>1 DEF CeilDiv, q
<1>3. b * q >= b * (k + 1)
  BY <1>1, <1>2
<1>4. b * (k + 1) = k * b + b
  OBVIOUS
<1> QED
  BY <1>1, <1>3, <1>4

\* The GPUs taking part.
LEMMA GpuNumbers ==
  ASSUME NEW in \in Inputs
  PROVE  /\ NodeCount(in) \in Nat \ {0}
         /\ Gpus(in) \in SUBSET Nat /\ IsFiniteSet(Gpus(in))
         /\ Cardinality(Gpus(in)) = NodeCount(in)
         /\ \A i \in Gpus(in) : Hw(in, i) \in ToSet(in.gpus) /\ Hw(in, i) \in Nat
<1>1. NodeCount(in) \in Nat \ {0} /\ in.gpus \in Seq(Nat)
  BY SessionAssumption
<1>2. Gpus(in) \in SUBSET Nat /\ IsFiniteSet(Gpus(in)) /\ Cardinality(Gpus(in)) = NodeCount(in)
  <2> DEFINE n == NodeCount(in)
  <2>1. n \in Nat \ {0}
    BY <1>1
  <2> HIDE DEF n
  <2>2. IsFiniteSet(0 .. n - 1) /\ Cardinality(0 .. n - 1) = IF 0 > n - 1 THEN 0 ELSE n - 1 - 0 + 1
    BY <2>1, FS_Interval
  <2>3. 0 .. n - 1 \in SUBSET Nat /\ Cardinality(0 .. n - 1) = n
    BY <2>1, <2>2
  <2> QED
    BY <2>2, <2>3 DEF Gpus, n
<1>3. DOMAIN in.gpus = 1 .. NodeCount(in)
  BY <1>1, LenProperties DEF NodeCount
<1>4. \A i \in Gpus(in) : i + 1 \in 1 .. NodeCount(in)
  BY <1>1 DEF Gpus
<1>5. \A i \in Gpus(in) : in.gpus[i + 1] \in Nat
  BY <1>1, <1>4, ElementOfSeq DEF NodeCount
<1> QED
  BY <1>1, <1>2, <1>3, <1>4, <1>5 DEF Hw, ToSet

\* The peers of GPU i, in the order each collective takes them.
LEMMA PeerNumbers ==
  ASSUME NEW in \in Inputs, NEW i \in Gpus(in), NEW n \in 1 .. NodeCount(in) - 1
  PROVE  /\ (i + n) % NodeCount(in) = (IF i + n < NodeCount(in) THEN i + n ELSE (i + n) - NodeCount(in))
         /\ (i + n) % NodeCount(in) \in Gpus(in) \ {i}
         /\ Peers(in, i)[n] = (IF n <= i THEN n - 1 ELSE n)
         /\ Peers(in, i)[n] \in Gpus(in) \ {i}
<1>1. NodeCount(in) \in Nat \ {0} /\ Gpus(in) = 0 .. NodeCount(in) - 1
  BY GpuNumbers DEF Gpus
<1> DEFINE c == NodeCount(in)
<1>2. i \in 0 .. c - 1 /\ n \in 1 .. c - 1 /\ c \in Nat \ {0}
  BY <1>1
<1>3. Peers(in, i)[n] = IF n <= i THEN n - 1 ELSE n
  BY DEF Peers
<1> HIDE DEF c
<1>4. (i + n) % c = IF i + n < c THEN i + n ELSE (i + n) - c
  <2> DEFINE a == i + n
  <2>1. a \in Nat /\ a < c + c
    BY <1>2
  <2> HIDE DEF a
  <2>2. a % c = IF a < c THEN a ELSE a - c
    BY <1>2, <2>1, OnceRound
  <2> QED
    BY <2>2 DEF a
<1>5. (i + n) % c \in (0 .. c - 1) \ {i}
  BY <1>2, <1>4
<1>6. Peers(in, i)[n] \in (0 .. c - 1) \ {i}
  BY <1>2, <1>3
<1> QED
  BY <1>1, <1>3, <1>4, <1>5, <1>6 DEF c

\* Swap takes peers of GPU i, no more than commands_per_node.
LEMMA SwapPeersShape ==
  ASSUME NEW in \in Inputs, NEW i \in Gpus(in), NEW taken
  PROVE  /\ CommandsPerNode(in) \in Nat
         /\ SwapPeers(in, i, taken) \in Seq(Gpus(in) \ {i})
         /\ Len(SwapPeers(in, i, taken)) <= CommandsPerNode(in)
<1> DEFINE n == NodeCount(in)
           free == Ascending[FreePeers(in, i, taken)]
<1>1. n \in Nat \ {0} /\ Gpus(in) \in SUBSET Nat /\ IsFiniteSet(Gpus(in))
  BY GpuNumbers
<1>2. CommandsPerNode(in) \in Nat
  <2>1. n - 1 \in Nat
    BY <1>1
  <2>2. n * (n - 1) \in Nat
    BY <1>1, <2>1
  <2> HIDE DEF n
  <2>3. (n * (n - 1)) \div 2 \in Nat
    BY <2>2
  <2> QED
    BY <1>1, <2>3, CeilDivNat DEF CommandsPerNode, TotalCommands, n
<1>3. FreePeers(in, i, taken) \in SUBSET (Gpus(in) \ {i})
  BY DEF FreePeers
<1>4. IsFiniteSet(FreePeers(in, i, taken)) /\ FreePeers(in, i, taken) \in SUBSET Nat
  BY <1>1, <1>3, FS_Subset
<1>5. free \in Seq(FreePeers(in, i, taken))
  BY <1>4, AscendingMembers
<1>6. free \in Seq(Gpus(in) \ {i})
  BY <1>3, <1>5, SeqMonotonic
<1> HIDE DEF free, n
<1> QED
  BY <1>2, <1>6, FirstOf DEF SwapPeers, free

\* One more list: what it is, and what it covers.
LEMMA ListShape ==
  ASSUME NEW in \in Inputs, NEW i \in Gpus(in), NEW taken,
         in.collective \notin {"unknown", "p2p_latency"}
  PROVE  /\ ~IsSwap(in) => GpuCmds(in, i, taken) = GpuCmds(in, i, {})
         /\ IsSwap(in) =>
              LET list == GpuCmds(in, i, taken)
              IN  /\ Len(list) \in 0 .. CommandsPerNode(in)
                  /\ DOMAIN list = 1 .. Len(list)
                  /\ \A n \in DOMAIN list : \E j \in Gpus(in) \ {i} :
                       list[n] = Command(EngineFor(in, i, j), <<j>>)
         /\ taken \subseteq SUBSET ToSet(in.gpus) =>
              taken \cup Taken(in, i, taken) \subseteq SUBSET ToSet(in.gpus)
<1>1. in.collective \in Variants
  BY SessionAssumption
<1>2. ASSUME ~IsSwap(in) PROVE GpuCmds(in, i, taken) = GpuCmds(in, i, {})
  BY <1>1, <1>2 DEF Variants, IsSwap, IsB2b, GpuCmds
<1> DEFINE peers == SwapPeers(in, i, taken)
           list == SwapCmds(in, i, taken)
<1>3. CommandsPerNode(in) \in Nat /\ peers \in Seq(Gpus(in) \ {i}) /\ Len(peers) <= CommandsPerNode(in)
  BY SwapPeersShape
<1>4. Len(peers) \in Nat /\ DOMAIN peers = 1 .. Len(peers)
      /\ \A n \in 1 .. Len(peers) : peers[n] \in Gpus(in) \ {i}
  BY <1>3, LenProperties, ElementOfSeq
<1>5. ASSUME IsSwap(in)
      PROVE  /\ GpuCmds(in, i, taken) = list
             /\ Len(list) \in 0 .. CommandsPerNode(in)
             /\ DOMAIN list = 1 .. Len(list)
             /\ \A n \in DOMAIN list : \E j \in Gpus(in) \ {i} :
                  list[n] = Command(EngineFor(in, i, j), <<j>>)
  <2>1. GpuCmds(in, i, taken) = list
    BY <1>5 DEF GpuCmds, IsSwap, IsB2b
  <2>2. list = [n \in 1 .. Len(peers) |-> Command(EngineFor(in, i, peers[n]), <<peers[n]>>)]
    BY <1>4 DEF SwapCmds
  <2> HIDE DEF list, peers
  <2>3. Len(list) = Len(peers) /\ DOMAIN list = 1 .. Len(peers)
    <3> DEFINE T == {list[n] : n \in 1 .. Len(peers)}
    <3>1. list \in [1 .. Len(peers) -> T]
      BY <2>2
    <3> HIDE DEF T
    <3> QED
      BY <1>4, <3>1, FunctionIsSequence
  <2>4. \A n \in 1 .. Len(peers) : list[n] = Command(EngineFor(in, i, peers[n]), <<peers[n]>>)
    BY <2>2
  <2> QED
    BY <1>3, <1>4, <2>1, <2>3, <2>4
<1>6. Taken(in, i, taken) \subseteq SUBSET ToSet(in.gpus)
  <2>1. ToSet(peers) \subseteq Gpus(in)
    BY <1>4 DEF ToSet
  <2>2. \A j \in Gpus(in) : Pair(in, i, j) \subseteq ToSet(in.gpus)
    BY GpuNumbers DEF Pair
  <2> HIDE DEF peers
  <2>3. \A j \in ToSet(peers) : Pair(in, i, j) \in SUBSET ToSet(in.gpus)
    BY <2>1, <2>2
  <2>4. Taken(in, i, taken) = IF IsSwap(in) THEN {Pair(in, i, j) : j \in ToSet(peers)} ELSE {}
    BY DEF Taken, peers
  <2> QED
    BY <2>3, <2>4
<1> QED
  BY <1>2, <1>5, <1>6

\* Broadcast's list: one command, pairs, and one that is left over.
LEMMA BcstShape ==
  ASSUME NEW in \in Inputs, NEW i, NEW T \in SUBSET Nat, IsFiniteSet(T), EnginesOf(in, i) \subseteq T,
         EnginesOf(in, i) # {}
  PROVE  LET list == AllgatherBcstCmds(in, i)
         IN  /\ Len(list) \in Nat
             /\ \A n \in 1 .. Len(list) : list[n].engine_id \in T /\ Len(list[n].dests) \in 1 .. 2
<1> DEFINE engines == Ascending[EnginesOf(in, i)]
           ed == EngineDests(in, i)
           h == (Len(ed) - 1) \div 2
           mid == [p \in 1 .. h |-> Command(ed[2 * p + 1].engine_id, ed[2 * p].dests \o ed[2 * p + 1].dests)]
           last == IF Len(ed) % 2 = 0 THEN <<ed[Len(ed)]>> ELSE <<>>
           C == {ed[n] : n \in DOMAIN ed} \cup {mid[p] : p \in 1 .. h}
<1>1. engines \in Seq(EnginesOf(in, i)) /\ Len(engines) = Cardinality(EnginesOf(in, i))
  <2>1. EnginesOf(in, i) \in SUBSET Nat /\ IsFiniteSet(EnginesOf(in, i))
    BY FS_Subset
  <2> QED
    BY <2>1, AscendingMembers
<1>2. Len(engines) \in Nat \ {0} /\ DOMAIN engines = 1 .. Len(engines)
      /\ \A n \in 1 .. Len(engines) : engines[n] \in T
  <2>1. IsFiniteSet(EnginesOf(in, i)) /\ Cardinality(EnginesOf(in, i)) \in Nat
    BY FS_Subset, FS_CardinalityType
  <2>2. Cardinality(EnginesOf(in, i)) # 0
    BY <2>1, FS_EmptySet
  <2> QED
    BY <1>1, <2>1, <2>2, LenProperties, ElementOfSeq
<1>3. /\ DOMAIN ed = 1 .. Len(engines)
      /\ \A n \in 1 .. Len(engines) : ed[n].engine_id = engines[n] /\ \E x : ed[n].dests = <<x>>
  <2>1. ed = [n \in DOMAIN engines |->
                Command(engines[n], <<HwToLocal(in, PreferredEngines(in)[<<Hw(in, i), engines[n]>>])>>)]
    BY DEF EngineDests
  <2> HIDE DEF ed, engines
  <2> QED
    BY <1>2, <2>1 DEF Command
<1>4. Len(ed) = Len(engines) /\ ed \in Seq({ed[n] : n \in DOMAIN ed})
  <2> DEFINE D == {ed[n] : n \in DOMAIN ed}
  <2>1. ed \in [1 .. Len(engines) -> D]
    <3>1. ed = [n \in DOMAIN ed |-> ed[n]]
      BY DEF EngineDests
    <3> HIDE DEF ed, engines
    <3> QED
      BY <1>3, <3>1
  <2> HIDE DEF D
  <2>2. Len(ed) = Len(engines) /\ ed \in Seq(D)
    BY <1>2, <2>1, FunctionIsSequence
  <2> QED
    BY <2>2 DEF D
<1> HIDE DEF engines, ed
<1>5. h \in Nat /\ 2 * h + 1 <= Len(ed)
  BY <1>2, <1>4
<1>6. \A p \in 1 .. h : /\ mid[p].engine_id = ed[2 * p + 1].engine_id
                        /\ mid[p].dests = ed[2 * p].dests \o ed[2 * p + 1].dests
                        /\ 2 * p + 1 \in 1 .. Len(engines) /\ 2 * p \in 1 .. Len(engines)
  <2> SUFFICES ASSUME NEW p \in 1 .. h
               PROVE  /\ mid[p].engine_id = ed[2 * p + 1].engine_id
                      /\ mid[p].dests = ed[2 * p].dests \o ed[2 * p + 1].dests
                      /\ 2 * p + 1 \in 1 .. Len(engines) /\ 2 * p \in 1 .. Len(engines)
    OBVIOUS
  <2>1. mid[p] = Command(ed[2 * p + 1].engine_id, ed[2 * p].dests \o ed[2 * p + 1].dests)
    OBVIOUS
  <2>2. 2 * p + 1 \in 1 .. Len(engines) /\ 2 * p \in 1 .. Len(engines)
    BY <1>2, <1>4, <1>5
  <2> DEFINE e == ed[2 * p + 1].engine_id
             d == ed[2 * p].dests \o ed[2 * p + 1].dests
  <2>3. mid[p] = Command(e, d)
    BY <2>1
  <2> HIDE DEF mid, h, e, d
  <2>4. mid[p].engine_id = e /\ mid[p].dests = d
    BY <2>3 DEF Command
  <2> QED
    BY <2>2, <2>4 DEF e, d
<1>7. \A c \in C : c.engine_id \in T /\ Len(c.dests) \in 1 .. 2
  <2>1. \A n \in DOMAIN ed : ed[n].engine_id \in T /\ Len(ed[n].dests) \in 1 .. 2
    <3> SUFFICES ASSUME NEW n \in DOMAIN ed
                 PROVE  ed[n].engine_id \in T /\ Len(ed[n].dests) \in 1 .. 2
      OBVIOUS
    <3>1. ed[n].engine_id \in T /\ \E x : ed[n].dests = <<x>>
      BY <1>2, <1>3
    <3>2. PICK x : ed[n].dests = <<x>>
      BY <3>1
    <3>3. Len(<<x>>) = 1
      OBVIOUS
    <3> QED
      BY <3>1, <3>2, <3>3
  <2>2. \A p \in 1 .. h : mid[p].engine_id \in T
    BY <1>2, <1>3, <1>6
  <2>3. ASSUME NEW p \in 1 .. h PROVE Len(mid[p].dests) \in 1 .. 2
    <3>1. PICK x, y : ed[2 * p].dests = <<x>> /\ ed[2 * p + 1].dests = <<y>>
      BY <1>3, <1>6
    <3>2. mid[p].dests = <<x>> \o <<y>>
      BY <1>6, <3>1
    <3>3. <<x>> \o <<y>> = <<x, y>> /\ Len(<<x, y>>) = 2
      BY JoinTwo
    <3>4. Len(mid[p].dests) = 2
      BY <3>2, <3>3
    <3> QED
      BY <3>4
  <2> HIDE DEF mid
  <2> QED
    BY <2>1, <2>2, <2>3
<1>8. mid \in Seq(C)
  <2>1. mid \in [1 .. h -> C]
    OBVIOUS
  <2> HIDE DEF mid, h, C
  <2> QED
    BY <1>5, <2>1, FunctionIsSequence
<1>9. <<ed[1]>> \in Seq(C) /\ last \in Seq(C)
  <2>1. 1 \in DOMAIN ed /\ Len(ed) \in DOMAIN ed
    BY <1>2, <1>3, <1>4
  <2>2. ed[1] \in C /\ ed[Len(ed)] \in C
    BY <2>1
  <2> HIDE DEF C
  <2> QED
    BY <2>2
<1>10. AllgatherBcstCmds(in, i) = <<ed[1]>> \o mid \o last
  BY DEF AllgatherBcstCmds, ed
<1> HIDE DEF mid, last, C
<1>11. AllgatherBcstCmds(in, i) \in Seq(C)
  BY <1>8, <1>9, <1>10, ConcatProperties
<1> QED
  BY <1>7, <1>11, LenProperties, ElementOfSeq

-----------------------------------------------------------------------------
(* Swap's pairing.  With half of the GPUs, rounded down, GPU i pairs with  *)
(* those at most that far behind it and, if there are any, with those more *)
(* than that far in front of it: whichever GPU of a pair is not the one,   *)
(* the other is.                                                           *)

Distinct(in) == \A i, j \in Gpus(in) : i # j => Hw(in, i) # Hw(in, j)
Half(in)     == NodeCount(in) \div 2
SwapTakes(in, i) == {j \in Gpus(in) : \/ i < j /\ j <= i + Half(in)
                                      \/ j + Half(in) < i}
SwapSeen(in, g)  == UNION {{Pair(in, i, j) : j \in SwapTakes(in, i)} : i \in 0 .. g - 1}

\* GPU i's peers in order, and how many they are.
SwapDest(in, i, n) == IF i <= Half(in) THEN i + n
                      ELSE IF n <= i - Half(in) THEN n - 1 ELSE n + Half(in)
SwapLen(in, i)     == IF 2 * Half(in) < NodeCount(in) \/ i < Half(in) THEN Half(in) ELSE Half(in) - 1

\* There are two GPUs per half, and one more if their number is odd; half of
\* the GPUs is what commands_per_node comes to.
LEMMA HalfOfGpus ==
  ASSUME NEW in \in Inputs
  PROVE  /\ Half(in) \in Nat
         /\ NodeCount(in) = 2 * Half(in) \/ NodeCount(in) = 2 * Half(in) + 1
         /\ TotalCommands(in) = (IF NodeCount(in) = 2 * Half(in) THEN Half(in) * (2 * Half(in) - 1)
                                 ELSE Half(in) * (2 * Half(in) + 1))
         /\ CommandsPerNode(in) = Half(in)
<1> DEFINE c == NodeCount(in)
           h == Half(in)
<1>1. c \in Nat \ {0}
  BY GpuNumbers
<1>2. h = c \div 2
  BY DEF Half
<1> HIDE DEF c, h
<1>3. h \in Nat /\ (c = 2 * h \/ c = 2 * h + 1)
  BY <1>1, <1>2
<1>4. TotalCommands(in) = (c * (c - 1)) \div 2 /\ CommandsPerNode(in) = (TotalCommands(in) + c - 1) \div c
  BY DEF TotalCommands, CommandsPerNode, CeilDiv, c
<1>5. CASE c = 2 * h
  <2> DEFINE t == h * (2 * h - 1)
  <2>1. h >= 1 /\ t \in Nat
    BY <1>1, <1>3, <1>5
  <2>2. c * (c - 1) = 2 * t
    BY <1>3, <1>5
  <2> HIDE DEF t
  <2>3. (2 * t) \div 2 = t
    BY <2>1
  <2>4. TotalCommands(in) = t
    BY <1>4, <2>2, <2>3
  <2>5. (t + c - 1) \div c = h
    <3> DEFINE a == t + c - 1
    <3>1. a \in Nat
      BY <1>1, <2>1
    <3>2. c * h = t + h
      BY <1>3, <1>5 DEF t
    <3>3. c * h <= a /\ a < c * h + c
      BY <1>3, <1>5, <2>1, <3>2
    <3> HIDE DEF a
    <3>4. a \div c = h
      BY <1>1, <1>3, <3>1, <3>3, QuotientIs
    <3> QED
      BY <3>4 DEF a
  <2> QED
    BY <1>3, <1>4, <1>5, <2>4, <2>5 DEF c, h, t
<1>6. CASE c = 2 * h + 1
  <2> DEFINE t == h * (2 * h + 1)
  <2>1. t \in Nat
    BY <1>3
  <2>2. c * (c - 1) = 2 * t
    BY <1>3, <1>6
  <2>3. c * h = t
    BY <1>3, <1>6
  <2> HIDE DEF t
  <2>4. (2 * t) \div 2 = t
    BY <2>1
  <2>5. TotalCommands(in) = t
    BY <1>4, <2>2, <2>4
  <2>6. (t + c - 1) \div c = h
    <3> DEFINE a == t + c - 1
    <3>1. a \in Nat /\ c * h <= a /\ a < c * h + c
      BY <1>1, <2>1, <2>3
    <3> HIDE DEF a
    <3>2. a \div c = h
      BY <1>1, <1>3, <3>1, QuotientIs
    <3> QED
      BY <3>2 DEF a
  <2>7. c # 2 * h
    BY <1>3, <1>6
  <2> QED
    BY <1>3, <1>4, <1>6, <2>5, <2>6, <2>7 DEF c, h, t
<1> QED
  BY <1>3, <1>5, <1>6

\* The peers of SwapDest are those that SwapTakes says, each once.
LEMMA SwapDestTakes ==
  ASSUME NEW in \in Inputs, NEW i \in Gpus(in)
  PROVE  /\ SwapLen(in, i) \in Nat
         /\ \A n \in 1 .. SwapLen(in, i) : SwapDest(in, i, n) \in SwapTakes(in, i)
         /\ \A j \in SwapTakes(in, i) : \E n \in 1 .. SwapLen(in, i) : SwapDest(in, i, n) = j
         /\ \A n, m \in 1 .. SwapLen(in, i) : SwapDest(in, i, n) = SwapDest(in, i, m) => n = m
<1> DEFINE c == NodeCount(in)
           h == Half(in)
           len == SwapLen(in, i)
           D(n) == SwapDest(in, i, n)
<1>1. c \in Nat \ {0} /\ h \in Nat /\ (c = 2 * h \/ c = 2 * h + 1) /\ i \in 0 .. c - 1 /\ i \in Nat
  BY GpuNumbers, HalfOfGpus DEF Gpus
<1>2. \A j : j \in SwapTakes(in, i) <=> j \in 0 .. c - 1 /\ ((i < j /\ j <= i + h) \/ j + h < i)
  BY DEF SwapTakes, Gpus
<1>3. len = IF 2 * h < c \/ i < h THEN h ELSE h - 1
  BY DEF SwapLen
<1>4. \A n : D(n) = IF i <= h THEN i + n ELSE IF n <= i - h THEN n - 1 ELSE n + h
  BY DEF SwapDest
<1> HIDE DEF c, h, len, D
<1>5. len \in Nat
  BY <1>1, <1>3
<1>6. ASSUME NEW n \in 1 .. len
      PROVE  D(n) \in 0 .. c - 1 /\ ((i < D(n) /\ D(n) <= i + h) \/ D(n) + h < i)
  <2>1. CASE i <= h
    BY <1>1, <1>3, <1>4, <1>5, <2>1
  <2>2. CASE i > h /\ n <= i - h
    BY <1>1, <1>3, <1>4, <1>5, <2>2
  <2>3. CASE i > h /\ ~ (n <= i - h)
    BY <1>1, <1>3, <1>4, <1>5, <2>3
  <2> QED
    BY <1>1, <2>1, <2>2, <2>3
<1>7. ASSUME NEW j \in 0 .. c - 1, (i < j /\ j <= i + h) \/ j + h < i
      PROVE  \E n \in 1 .. len : D(n) = j
  <2>1. CASE i <= h
    <3>1. j - i \in 1 .. len /\ D(j - i) = j
      BY <1>1, <1>3, <1>4, <1>7, <2>1
    <3> QED
      BY <3>1
  <2>2. CASE i > h /\ i < j
    <3>1. j - h \in 1 .. len /\ D(j - h) = j
      BY <1>1, <1>3, <1>4, <1>7, <2>2
    <3> QED
      BY <3>1
  <2>3. CASE i > h /\ j + h < i
    <3>1. j + 1 \in 1 .. len /\ D(j + 1) = j
      BY <1>1, <1>3, <1>4, <1>7, <2>3
    <3> QED
      BY <3>1
  <2> QED
    BY <1>1, <1>7, <2>1, <2>2, <2>3
<1>8. ASSUME NEW n \in 1 .. len, NEW m \in 1 .. len, D(n) = D(m)
      PROVE  n = m
  <2>1. n \in Nat /\ m \in Nat
    BY <1>5
  <2>2. CASE i <= h
    BY <1>1, <1>4, <1>8, <2>1, <2>2
  <2>3. CASE i > h
    <3>1. n <= i - h => D(n) < i /\ D(n) = n - 1
      BY <1>1, <1>4, <2>1, <2>3
    <3>2. ~ (n <= i - h) => D(n) > i /\ D(n) = n + h
      BY <1>1, <1>4, <2>1, <2>3
    <3>3. m <= i - h => D(m) < i /\ D(m) = m - 1
      BY <1>1, <1>4, <2>1, <2>3
    <3>4. ~ (m <= i - h) => D(m) > i /\ D(m) = m + h
      BY <1>1, <1>4, <2>1, <2>3
    <3> QED
      BY <1>1, <1>8, <2>1, <3>1, <3>2, <3>3, <3>4
  <2> QED
    BY <1>1, <2>2, <2>3
<1> QED
  BY <1>2, <1>5, <1>6, <1>7, <1>8 DEF len, D

\* GPU i's turn, after all GPUs before it have had theirs.
LEMMA SwapTurn ==
  ASSUME NEW in \in Inputs, Distinct(in), NEW i \in Gpus(in)
  PROVE  LET peers == SwapPeers(in, i, SwapSeen(in, i))
         IN  /\ Len(peers) = SwapLen(in, i)
             /\ DOMAIN peers = 1 .. SwapLen(in, i)
             /\ \A n \in 1 .. SwapLen(in, i) : peers[n] = SwapDest(in, i, n)
<1> DEFINE c == NodeCount(in)
           h == Half(in)
           a == IF i <= h THEN 0 ELSE i - h
           free == (0 .. a - 1) \cup (i + 1 .. c - 1)
           asc == Ascending[free]
           peers == SwapPeers(in, i, SwapSeen(in, i))
<1>1. c \in Nat \ {0} /\ h \in Nat /\ (c = 2 * h \/ c = 2 * h + 1) /\ i \in 0 .. c - 1 /\ i \in Nat
      /\ Gpus(in) = 0 .. c - 1 /\ CommandsPerNode(in) = h
  BY GpuNumbers, HalfOfGpus DEF Gpus
<1>2. a \in Nat /\ a <= i
  BY <1>1
<1> HIDE DEF a, c, h
<1>3. FreePeers(in, i, SwapSeen(in, i)) = free
  <2>1. ASSUME NEW j \in 0 .. c - 1, j # i
        PROVE  Pair(in, i, j) \in SwapSeen(in, i) <=> j < i /\ i <= j + h
    <3>1. ASSUME Pair(in, i, j) \in SwapSeen(in, i) PROVE j < i /\ i <= j + h
      <4>1. PICK k \in 0 .. i - 1 : \E l \in SwapTakes(in, k) : Pair(in, i, j) = Pair(in, k, l)
        BY <3>1 DEF SwapSeen
      <4>2. PICK l \in SwapTakes(in, k) : Pair(in, i, j) = Pair(in, k, l)
        BY <4>1
      <4>3. k \in Gpus(in) /\ l \in Gpus(in) /\ i \in Gpus(in) /\ j \in Gpus(in) /\ k # i /\ k < i
        BY <1>1, <2>1 DEF SwapTakes
      <4>4. Hw(in, k) \in {Hw(in, i), Hw(in, j)} /\ Hw(in, i) \in {Hw(in, k), Hw(in, l)}
        BY <4>2 DEF Pair
      <4>5. k = j /\ l = i
        BY <4>3, <4>4 DEF Distinct
      <4> QED
        BY <1>1, <4>2, <4>3, <4>5 DEF SwapTakes, h
    <3>2. ASSUME j < i, i <= j + h PROVE Pair(in, i, j) \in SwapSeen(in, i)
      <4>1. i \in SwapTakes(in, j)
        BY <1>1, <3>2 DEF SwapTakes, h
      <4>2. Pair(in, i, j) = Pair(in, j, i)
        BY DEF Pair
      <4>3. j \in 0 .. i - 1
        BY <1>1, <3>2
      <4> QED
        BY <4>1, <4>2, <4>3 DEF SwapSeen
    <3> QED
      BY <3>1, <3>2
  <2>2. \A j \in 0 .. c - 1 : j # i /\ ~ (j < i /\ i <= j + h) <=> j \in free
    <3>1. CASE i <= h
      <4>1. a = 0
        BY <3>1 DEF a
      <4> QED
        BY <1>1, <3>1, <4>1
    <3>2. CASE i > h
      <4>1. a = i - h
        BY <1>1, <3>2 DEF a
      <4> QED
        BY <1>1, <3>2, <4>1
    <3> QED
      BY <1>1, <3>1, <3>2
  <2>3. free \subseteq 0 .. c - 1
    BY <1>1, <1>2
  <2> HIDE DEF free
  <2>4. \A j : j \in FreePeers(in, i, SwapSeen(in, i)) <=>
                 j \in 0 .. c - 1 /\ j # i /\ Pair(in, i, j) \notin SwapSeen(in, i)
    BY <1>1 DEF FreePeers
  <2> QED
    BY <2>1, <2>2, <2>3, <2>4
<1>4. free \in SUBSET Nat /\ IsFiniteSet(free) /\ Cardinality(free) = a + (c - (i + 1))
  <2>1. free \in SUBSET Nat
    BY <1>1, <1>2
  <2> DEFINE b == i + 1
  <2>2. a <= b /\ b <= c /\ b \in Nat /\ c \in Nat
    BY <1>1, <1>2
  <2>3. free = (0 .. a - 1) \cup (b .. c - 1)
    OBVIOUS
  <2> HIDE DEF b, free
  <2>4. IsFiniteSet((0 .. a - 1) \cup (b .. c - 1)) /\ Cardinality((0 .. a - 1) \cup (b .. c - 1)) = a + (c - b)
    BY <1>2, <2>2, TwoIntervals
  <2>5. IsFiniteSet(free) /\ Cardinality(free) = a + (c - b)
    BY <2>3, <2>4
  <2> QED
    BY <2>1, <2>5 DEF b
<1>5. asc \in Seq(free) /\ Len(asc) = a + (c - (i + 1))
  <2> HIDE DEF free
  <2> QED
    BY <1>4, AscendingMembers
\* The rank of each free peer.
<1>6. ASSUME NEW n \in 1 .. a + (c - (i + 1))
      PROVE  asc[n] = IF n <= a THEN n - 1 ELSE i + (n - a)
  <2> DEFINE x == IF n <= a THEN n - 1 ELSE i + (n - a)
             below == {y \in free : y < x}
  <2>0. n \in Nat /\ n >= 1 /\ n <= a + (c - (i + 1))
    BY <1>1, <1>2
  <2>1. x \in free /\ Cardinality(below) + 1 = n
    <3>1. CASE n <= a
      <4>1. x = n - 1 /\ n - 1 \in Nat
        BY <2>0, <3>1
      <4>2. x \in free
        BY <1>2, <2>0, <3>1, <4>1
      <4>3. below = (0 .. (n - 1) - 1) \cup (n .. n - 1)
        <5>1. \A y : y \in below <=> y \in Nat /\ y < n - 1
          BY <1>1, <1>2, <2>0, <3>1, <4>1
        <5>2. \A y : y \in (0 .. (n - 1) - 1) \cup (n .. n - 1) <=> y \in Nat /\ y < n - 1
          BY <2>0
        <5> HIDE DEF below
        <5> QED
          BY <5>1, <5>2
      <4> HIDE DEF below, x, free
      <4> DEFINE m == n - 1
      <4>4. m \in Nat /\ n \in Nat /\ m <= n /\ n <= n
        BY <2>0
      <4> HIDE DEF m
      <4>5. Cardinality((0 .. m - 1) \cup (n .. n - 1)) = m + (n - n)
        BY <4>4, TwoIntervals
      <4>6. Cardinality(below) = m
        BY <2>0, <4>3, <4>4, <4>5 DEF m
      <4> QED
        BY <2>0, <4>2, <4>6 DEF m, x
    <3>2. CASE n > a
      <4>1. x = i + (n - a) /\ x \in Nat /\ x >= i + 1 /\ x <= c - 1
        BY <1>1, <1>2, <2>0, <3>2
      <4> HIDE DEF x
      <4>2. x \in free
        BY <1>1, <1>2, <4>1
      <4>3. below = (0 .. a - 1) \cup (i + 1 .. x - 1)
        <5>1. \A y : y \in below <=> y \in free /\ y < x
          OBVIOUS
        <5>2. \A y : y \in free /\ y < x <=> y \in (0 .. a - 1) \cup (i + 1 .. x - 1)
          BY <1>1, <1>2, <4>1
        <5> HIDE DEF below, free
        <5> QED
          BY <5>1, <5>2
      <4> HIDE DEF below, free
      <4>4. i + 1 \in Nat /\ a <= i + 1 /\ i + 1 <= x
        BY <1>1, <1>2, <4>1
      <4>5. Cardinality((0 .. a - 1) \cup (i + 1 .. x - 1)) = a + (x - (i + 1))
        BY <1>2, <4>1, <4>4, TwoIntervals
      <4>6. a + (x - (i + 1)) + 1 = n
        BY <1>1, <1>2, <2>0, <4>1
      <4> QED
        BY <4>2, <4>3, <4>5, <4>6
    <3> QED
      BY <1>2, <2>0, <3>1, <3>2
  <2> HIDE DEF free, x
  <2>2. asc[Cardinality(below) + 1] = x
    BY <1>4, <2>1, RankTells
  <2> QED
    BY <2>1, <2>2 DEF x
<1>7. /\ Len(peers) = IF Len(asc) <= h THEN Len(asc) ELSE h
      /\ DOMAIN peers = 1 .. Len(peers)
      /\ \A n \in 1 .. Len(peers) : peers[n] = asc[n]
  <2>1. peers = SubSeq(asc, 1, Min({Len(asc), h}))
    <3> HIDE DEF free
    <3> QED
      BY <1>1, <1>3 DEF SwapPeers
  <2> HIDE DEF asc, free, peers
  <2>2. /\ peers \in Seq(free)
        /\ Len(peers) = IF Len(asc) <= h THEN Len(asc) ELSE h
        /\ \A n \in 1 .. Len(peers) : peers[n] = asc[n]
    <3> HIDE DEF h
    <3>1. asc \in Seq(free) /\ h \in Nat
      BY <1>1, <1>5
    <3> QED
      BY <2>1, <3>1, FirstOf
  <2> QED
    BY <2>2, LenProperties
<1>8. SwapLen(in, i) = IF 2 * h < c \/ i < h THEN h ELSE h - 1
  BY DEF SwapLen, h, c
<1>9. \A n : SwapDest(in, i, n) = IF i <= h THEN i + n ELSE IF n <= i - h THEN n - 1 ELSE n + h
  BY DEF SwapDest, h
<1>10. a = IF i <= h THEN 0 ELSE i - h
  BY DEF a
<1> HIDE DEF asc, free, peers
<1>11. Len(peers) = SwapLen(in, i)
  <2>1. Len(asc) = a + c - (i + 1)
    BY <1>1, <1>2, <1>5
  <2>2. CASE i <= h
    BY <1>1, <1>7, <1>8, <1>10, <2>1, <2>2
  <2>3. CASE i > h
    BY <1>1, <1>7, <1>8, <1>10, <2>1, <2>3
  <2> QED
    BY <1>1, <2>2, <2>3
<1>12. \A n \in 1 .. SwapLen(in, i) : n \in 1 .. a + (c - (i + 1))
  BY <1>1, <1>5, <1>7, <1>11
<1>13. \A n \in 1 .. SwapLen(in, i) : SwapDest(in, i, n) = IF n <= a THEN n - 1 ELSE i + (n - a)
  BY <1>1, <1>9, <1>10
<1>14. \A n \in 1 .. SwapLen(in, i) : peers[n] = SwapDest(in, i, n)
  BY <1>6, <1>7, <1>11, <1>12, <1>13
<1> QED
  BY <1>7, <1>11, <1>14 DEF peers

-----------------------------------------------------------------------------
(* Which commands of a list, and which of their destinations, serve a peer *)
(* (EveryTransferOnce counts them).                                        *)

Serving(list, j) == {x \in UNION {{n} \X DOMAIN list[n].dests : n \in DOMAIN list} :
                       list[x[1]].dests[x[2]] = j}

\* A list of commands that each have destinations, all of them in D.
HasDests(command, D) ==
    /\ Len(command.dests) \in Nat \ {0}
    /\ DOMAIN command.dests = 1 .. Len(command.dests)
    /\ \A k \in DOMAIN command.dests : command.dests[k] \in D
Shaped(list, D) ==
    /\ Len(list) \in Nat /\ DOMAIN list = 1 .. Len(list)
    /\ \A n \in DOMAIN list : HasDests(list[n], D)

\* A set with one element, or none.
LEMMA OneOrNone ==
  ASSUME NEW S, NEW P \in BOOLEAN,
         P => \E x \in S : \A y \in S : y = x,
         ~P => S = {}
  PROVE  Cardinality(S) = IF P THEN 1 ELSE 0
<1>1. CASE P
  <2>1. PICK x \in S : \A y \in S : y = x
    BY <1>1
  <2>2. S = {x}
    BY <2>1
  <2>3. Cardinality({x}) = 1
    BY FS_Singleton
  <2> QED
    BY <1>1, <2>2, <2>3
<1>2. CASE ~P
  BY <1>2, FS_EmptySet
<1> QED
  BY <1>1, <1>2

\* Commands with one destination each, no two the same.
LEMMA SingleServes ==
  ASSUME NEW list, NEW len, NEW d, DOMAIN list = 1 .. len,
         \A n \in 1 .. len : list[n].dests = <<d[n]>>,
         \A n, m \in 1 .. len : d[n] = d[m] => n = m, NEW j
  PROVE  Cardinality(Serving(list, j)) = IF \E n \in 1 .. len : d[n] = j THEN 1 ELSE 0
<1>1. \A x : x \in Serving(list, j) <=> x \in (1 .. len) \X {1} /\ d[x[1]] = j
  <2>1. \A n \in 1 .. len : DOMAIN list[n].dests = {1} /\ list[n].dests[1] = d[n]
    OBVIOUS
  <2>2. ASSUME NEW x \in Serving(list, j) PROVE x \in (1 .. len) \X {1} /\ d[x[1]] = j
    <3>1. PICK n \in 1 .. len : x \in {n} \X DOMAIN list[n].dests
      BY DEF Serving
    <3>2. x = <<n, 1>>
      BY <2>1, <3>1
    <3>3. list[x[1]].dests[x[2]] = j
      BY DEF Serving
    <3> QED
      BY <2>1, <3>2, <3>3
  <2>3. ASSUME NEW x \in (1 .. len) \X {1}, d[x[1]] = j PROVE x \in Serving(list, j)
    <3>1. x[1] \in 1 .. len /\ x = <<x[1], 1>>
      OBVIOUS
    <3>2. x \in {x[1]} \X DOMAIN list[x[1]].dests
      BY <2>1, <3>1
    <3>3. list[x[1]].dests[x[2]] = j
      BY <2>1, <2>3, <3>1
    <3> QED
      BY <3>1, <3>2, <3>3 DEF Serving
  <2> QED
    BY <2>2, <2>3
<1> DEFINE P == \E n \in 1 .. len : d[n] = j
           S == Serving(list, j)
<1>2. P => \E x \in S : \A y \in S : y = x
  <2> SUFFICES ASSUME NEW n \in 1 .. len, d[n] = j PROVE \E x \in S : \A y \in S : y = x
    OBVIOUS
  <2>1. <<n, 1>> \in S
    BY <1>1
  <2>2. \A y \in S : y = <<n, 1>>
    BY <1>1
  <2> QED
    BY <2>1, <2>2
<1>3. ~P => S = {}
  BY <1>1
<1>4. P \in BOOLEAN
  OBVIOUS
<1> HIDE DEF P, S
<1>5. Cardinality(S) = IF P THEN 1 ELSE 0
  BY <1>2, <1>3, <1>4, OneOrNone
<1> QED
  BY <1>5 DEF P, S

\* The destinations of `list' are p, cut into batches of w.
Slice(p, w, b) == SubSeq(p, (b - 1) * w + 1, Min({b * w, Len(p)}))
CutInto(list, p, w) ==
    /\ DOMAIN list = 1 .. CeilDiv(Len(p), w)
    /\ \A b \in 1 .. CeilDiv(Len(p), w) : list[b].dests = Slice(p, w, b)

\* A batch of peers has at most B2B_WAYS of them.
LEMMA SliceLength ==
  ASSUME NEW p \in Seq(Nat), NEW w \in Nat \ {0}, NEW b \in Nat \ {0}
  PROVE  Len(Slice(p, w, b)) \in 0 .. w
<1> DEFINE lo == (b - 1) * w + 1
           hi == Min({b * w, Len(p)})
<1>1. lo \in Nat \ {0} /\ b * w \in Nat /\ b * w = lo + w - 1 /\ Len(p) \in Nat
  BY LenProperties
<1>2. hi \in Nat /\ hi <= b * w /\ hi <= Len(p)
  <2> DEFINE m == b * w
  <2>1. m \in Nat /\ Len(p) \in Nat
    BY <1>1
  <2> HIDE DEF m
  <2>2. Min({m, Len(p)}) = IF m <= Len(p) THEN m ELSE Len(p)
    BY <2>1, MinOfTwo
  <2> QED
    BY <2>1, <2>2 DEF m
<1>3. Slice(p, w, b) = SubSeq(p, lo, hi)
  BY DEF Slice
<1> HIDE DEF lo, hi
<1>4. \A k \in lo .. hi : p[k] \in Nat
  BY <1>1, <1>2, ElementOfSeq
<1>5. Len(SubSeq(p, lo, hi)) = IF lo <= hi THEN hi - lo + 1 ELSE 0
  BY <1>1, <1>2, <1>4, SubSeqProperties
<1> QED
  BY <1>1, <1>2, <1>3, <1>5

\* In a sequence cut into batches each element is in one batch, at one place.
LEMMA SliceServes ==
  ASSUME NEW p, p \in Seq(Nat), NEW w \in Nat \ {0}, NEW list, CutInto(list, p, w),
         \A n, m \in 1 .. Len(p) : p[n] = p[m] => n = m, NEW j
  PROVE  /\ Cardinality(Serving(list, j)) = IF \E n \in 1 .. Len(p) : p[n] = j THEN 1 ELSE 0
         /\ \A b \in DOMAIN list : HasDests(list[b], {p[n] : n \in 1 .. Len(p)})
<1> DEFINE t == Len(p)
           B == CeilDiv(t, w)
           Lo(b) == (b - 1) * w
           Hi(b) == Min({b * w, t})
           P == \E n \in 1 .. t : p[n] = j
           S == Serving(list, j)
<1>1. t \in Nat /\ B \in Nat /\ w \in Nat /\ w >= 1
  BY LenProperties, CeilDivNat
<1>2. B * w >= t /\ (B - 1) * w < t
  <2>1. B = (t + w - 1) \div w
    BY DEF CeilDiv
  <2> DEFINE a == t + w - 1
  <2>2. a \in Nat
    BY <1>1
  <2> HIDE DEF a
  <2>3. w * (a \div w) <= a /\ a < w * (a \div w) + w
    BY <1>1, <2>2
  <2> QED
    BY <1>1, <2>1, <2>3 DEF a
<1> HIDE DEF B
<1>3. ASSUME NEW b \in 1 .. B
      PROVE  /\ Lo(b) \in Nat /\ Lo(b) < t
             /\ Hi(b) = IF b * w <= t THEN b * w ELSE t
             /\ Hi(b) \in Nat /\ Hi(b) <= t /\ Hi(b) <= Lo(b) + w /\ Lo(b) < Hi(b)
  <2>1. b \in Nat /\ b * w \in Nat /\ Lo(b) \in Nat /\ Lo(b) + w = b * w
    BY <1>1
  <2>2. Lo(b) <= (B - 1) * w
    BY <1>1
  <2>3. (B - 1) * w \in Int
    BY <1>1
  <2>4. Lo(b) < t
    <3> DEFINE x == Lo(b)
               y == (B - 1) * w
    <3>1. x \in Nat /\ y \in Int /\ x <= y /\ y < t
      BY <1>2, <2>1, <2>2, <2>3
    <3> HIDE DEF x, y
    <3>2. x < t
      BY <1>1, <3>1
    <3> QED
      BY <3>2 DEF x
  <2>5. Hi(b) = IF b * w <= t THEN b * w ELSE t
    <3> DEFINE m == b * w
    <3>1. m \in Nat
      BY <2>1
    <3> HIDE DEF m
    <3>2. Min({m, t}) = IF m <= t THEN m ELSE t
      BY <1>1, <3>1, MinOfTwo
    <3> QED
      BY <3>2 DEF m
  <2> HIDE DEF Hi, Lo
  <2> QED
    BY <1>1, <2>1, <2>4, <2>5
\* Place k of batch b is place Lo(b) + k of the sequence.
<1>4. ASSUME NEW b \in 1 .. B
      PROVE  /\ Len(list[b].dests) = Hi(b) - Lo(b)
             /\ DOMAIN list[b].dests = 1 .. Hi(b) - Lo(b)
             /\ \A k \in 1 .. Hi(b) - Lo(b) : list[b].dests[k] = p[Lo(b) + k]
  <2> DEFINE lo == Lo(b) + 1
             hi == Hi(b)
  <2>1. lo \in 1 .. t /\ hi \in lo - 1 .. t /\ Lo(b) \in Nat /\ hi \in Nat
    <3> DEFINE x == Lo(b)
    <3>1. x \in Nat /\ hi \in Nat /\ hi <= t /\ x < hi
      BY <1>3
    <3> HIDE DEF x, hi
    <3>2. x + 1 \in 1 .. t /\ hi \in x .. t
      BY <1>1, <3>1
    <3>3. x + 1 - 1 = x
      BY <3>1
    <3> QED
      BY <3>1, <3>2, <3>3 DEF x
  <2>2. list[b].dests = SubSeq(p, lo, hi)
    BY DEF B, Slice, CutInto
  <2> HIDE DEF Hi, hi
  <2>3. /\ Len(SubSeq(p, lo, hi)) = hi - Lo(b)
        /\ SubSeq(p, lo, hi) \in Seq(Nat)
        /\ \A k \in 1 .. hi - Lo(b) : SubSeq(p, lo, hi)[k] = p[Lo(b) + k]
    <3>1. lo \in Int /\ hi \in Int /\ \A k \in lo .. hi : p[k] \in Nat
      BY <1>1, <2>1, ElementOfSeq
    <3> DEFINE s == SubSeq(p, lo, hi)
    <3>2. /\ s \in Seq(Nat)
          /\ Len(s) = IF lo <= hi THEN hi - lo + 1 ELSE 0
          /\ \A k \in 1 .. hi - lo + 1 : s[k] = p[lo + k - 1]
      BY <3>1, SubSeqProperties
    <3> HIDE DEF s
    <3>3. hi - lo + 1 = hi - Lo(b) /\ \A k \in 1 .. hi - Lo(b) : lo + k - 1 = Lo(b) + k
      BY <2>1
    <3>4. Len(s) = hi - Lo(b)
      BY <2>1, <3>2
    <3>5. \A k \in 1 .. hi - Lo(b) : s[k] = p[Lo(b) + k]
      BY <3>2, <3>3
    <3> QED
      BY <3>2, <3>4, <3>5 DEF s
  <2>4. DOMAIN SubSeq(p, lo, hi) = 1 .. hi - Lo(b)
    BY <2>3, LenProperties
  <2> QED
    BY <2>2, <2>3, <2>4 DEF hi
<1> HIDE DEF Lo, Hi
<1>12. \A b \in 1 .. B : /\ Lo(b) \in Nat /\ Hi(b) \in Nat /\ Hi(b) <= t
                          /\ Hi(b) - Lo(b) <= w /\ Lo(b) < Hi(b)
  BY <1>1, <1>3
<1>5. \A x : x \in S <=> /\ x[1] \in 1 .. B /\ x[2] \in 1 .. Hi(x[1]) - Lo(x[1])
                        /\ x = <<x[1], x[2]>> /\ p[Lo(x[1]) + x[2]] = j
  <2>1. DOMAIN list = 1 .. B
    BY DEF B, CutInto
  <2>2. ASSUME NEW x \in S
        PROVE  /\ x[1] \in 1 .. B /\ x[2] \in 1 .. Hi(x[1]) - Lo(x[1])
               /\ x = <<x[1], x[2]>> /\ p[Lo(x[1]) + x[2]] = j
    <3>1. PICK n \in 1 .. B : x \in {n} \X DOMAIN list[n].dests
      BY <2>1 DEF Serving
    <3> DEFINE D == 1 .. Hi(n) - Lo(n)
    <3>4. DOMAIN list[n].dests = D
      BY <1>4
    <3>5. x \in {n} \X D
      BY <3>1, <3>4
    <3> HIDE DEF D
    <3>6. x = <<n, x[2]>> /\ x[1] = n /\ x[2] \in D
      BY <3>5
    <3>2. x = <<n, x[2]>> /\ x[1] = n /\ x[2] \in 1 .. Hi(n) - Lo(n)
      BY <3>6 DEF D
    <3>3. list[x[1]].dests[x[2]] = j
      BY DEF Serving
    <3> QED
      BY <1>4, <3>2, <3>3
  <2>3. ASSUME NEW x, x[1] \in 1 .. B, x[2] \in 1 .. Hi(x[1]) - Lo(x[1]),
               x = <<x[1], x[2]>>, p[Lo(x[1]) + x[2]] = j
        PROVE  x \in S
    <3>1. x[2] \in DOMAIN list[x[1]].dests /\ list[x[1]].dests[x[2]] = j
      BY <1>4, <2>3
    <3>2. x \in {x[1]} \X DOMAIN list[x[1]].dests
      BY <2>3, <3>1
    <3> QED
      BY <2>1, <2>3, <3>1, <3>2 DEF Serving
  <2> QED
    BY <2>2, <2>3
<1> HIDE DEF S
\* One place only.
<1>6. ASSUME NEW a \in 1 .. B, NEW b \in 1 .. B,
             NEW k \in 1 .. Hi(a) - Lo(a), NEW l \in 1 .. Hi(b) - Lo(b), Lo(a) + k = Lo(b) + l
      PROVE  a = b /\ k = l
  <2>1. /\ Lo(a) \in Nat /\ Lo(b) \in Nat /\ Hi(a) \in Nat /\ Hi(b) \in Nat
        /\ Hi(a) - Lo(a) <= w /\ Hi(b) - Lo(b) <= w
    BY <1>12
  <2>2. k \in Nat /\ l \in Nat /\ k >= 1 /\ l >= 1 /\ k <= w /\ l <= w
    BY <1>1, <2>1
  <2> DEFINE z == Lo(a) + k - 1
  <2>3. z \in Nat /\ Lo(a) <= z /\ z < Lo(a) + w /\ Lo(b) <= z /\ z < Lo(b) + w
    <3> DEFINE x == Lo(a)
               y == Lo(b)
    <3>1. x \in Nat /\ y \in Nat /\ x + k = y + l
      BY <1>6, <2>1
    <3> HIDE DEF x, y
    <3>2. x + k - 1 \in Nat /\ x <= x + k - 1 /\ x + k - 1 < x + w
          /\ y <= x + k - 1 /\ x + k - 1 < y + w
      BY <1>1, <2>2, <3>1
    <3> QED
      BY <3>2 DEF x, y
  <2>4. Lo(a) = w * (a - 1) /\ Lo(b) = w * (b - 1) /\ a - 1 \in Nat /\ b - 1 \in Nat
    BY <1>1 DEF Lo
  <2> HIDE DEF z
  <2>5. z \div w = a - 1 /\ z \div w = b - 1
    <3> DEFINE c == a - 1
               d == b - 1
    <3>1. c \in Nat /\ d \in Nat /\ w * c <= z /\ z < w * c + w /\ w * d <= z /\ z < w * d + w
      BY <2>3, <2>4
    <3> HIDE DEF c, d
    <3>2. z \div w = c /\ z \div w = d
      BY <1>1, <2>3, <3>1, QuotientIs
    <3> QED
      BY <3>2 DEF c, d
  <2>6. a = b
    BY <1>1, <2>5
  <2> QED
    BY <1>6, <2>1, <2>2, <2>6
\* And one there is.
<1>7. ASSUME NEW n \in 1 .. t
      PROVE  \E b \in 1 .. B : \E k \in 1 .. Hi(b) - Lo(b) : Lo(b) + k = n
  <2> DEFINE z == n - 1
             q == z \div w
  <2>1. z \in Nat /\ q \in Nat
    BY <1>1
  <2>2. w * q <= z /\ z < w * q + w
    <3> HIDE DEF z
    <3>1. w \in Nat \ {0} /\ z \in Nat
      BY <2>1
    <3> QED
      BY <3>1
  <2> HIDE DEF q
  <2>3. w * q < B * w
    <3> DEFINE x == w * q
               y == B * w
    <3>1. x \in Nat /\ y \in Nat /\ x <= z /\ t <= y
      BY <1>1, <1>2, <2>1, <2>2
    <3> HIDE DEF x, y
    <3>2. x < y
      BY <1>1, <2>1, <3>1
    <3> QED
      BY <3>2 DEF x, y
  <2>4. q < B
    <3> SUFFICES ASSUME q >= B PROVE FALSE
      BY <1>1, <2>1
    <3>1. w * q >= w * B
      BY <1>1, <2>1
    <3> QED
      BY <1>1, <2>1, <2>3, <3>1
  <2> DEFINE b == q + 1
             k == n - Lo(b)
  <2>5. b \in 1 .. B
    BY <1>1, <2>1, <2>4
  <2>6. Lo(b) = w * q /\ b * w = w * q + w
    BY <1>1, <2>1 DEF Lo
  <2>7. w * q \in Nat
    BY <1>1, <2>1
  <2>8. k >= 1 /\ k <= w /\ k \in Nat /\ Lo(b) + k = n
    BY <1>1, <2>1, <2>2, <2>6, <2>7
  <2>9. Hi(b) = IF b * w <= t THEN b * w ELSE t
    BY <1>3, <2>5
  <2>10. k <= Hi(b) - Lo(b)
    BY <1>1, <2>6, <2>7, <2>8, <2>9
  <2>11. Hi(b) - Lo(b) \in Nat
    BY <1>3, <2>5
  <2> QED
    BY <2>5, <2>8, <2>10, <2>11
<1>8. P => \E x \in S : \A y \in S : y = x
  <2> SUFFICES ASSUME NEW n \in 1 .. t, p[n] = j PROVE \E x \in S : \A y \in S : y = x
    OBVIOUS
  <2>0. PICK b \in 1 .. B : \E k \in 1 .. Hi(b) - Lo(b) : Lo(b) + k = n
    BY <1>7
  <2>1. PICK k \in 1 .. Hi(b) - Lo(b) : Lo(b) + k = n
    BY <2>0
  <2>2. <<b, k>> \in S
    BY <1>5, <2>1
  <2>3. ASSUME NEW y \in S PROVE y = <<b, k>>
    <3>1. /\ y[1] \in 1 .. B /\ y[2] \in 1 .. Hi(y[1]) - Lo(y[1])
          /\ y = <<y[1], y[2]>> /\ p[Lo(y[1]) + y[2]] = j
      BY <1>5
    <3> DEFINE m == Lo(y[1]) + y[2]
    <3>2. m \in 1 .. t
      <4>1. Lo(y[1]) \in Nat /\ Hi(y[1]) \in Nat /\ Hi(y[1]) <= t
        BY <1>12, <3>1
      <4> DEFINE x == Lo(y[1])
                 h == Hi(y[1])
                 k2 == y[2]
      <4>2. x \in Nat /\ h \in Nat /\ h <= t /\ k2 \in 1 .. h - x
        BY <3>1, <4>1
      <4> HIDE DEF x, h, k2
      <4>3. x + k2 \in 1 .. t
        BY <1>1, <4>2
      <4> QED
        BY <4>3 DEF x, k2
    <3>3. p[m] = p[n]
      BY <3>1
    <3> HIDE DEF m
    <3>4. m = n
      BY <3>2, <3>3
    <3>5. y[1] = b /\ y[2] = k
      BY <1>6, <2>1, <3>1, <3>4 DEF m
    <3> QED
      BY <3>1, <3>5
  <2> QED
    BY <2>2, <2>3
<1>9. ~P => S = {}
  <2> SUFFICES ASSUME NEW y \in S PROVE P
    OBVIOUS
  <2>1. y[1] \in 1 .. B /\ y[2] \in 1 .. Hi(y[1]) - Lo(y[1]) /\ p[Lo(y[1]) + y[2]] = j
    BY <1>5
  <2>2. Lo(y[1]) \in Nat /\ Hi(y[1]) \in Nat /\ Hi(y[1]) <= t
    BY <1>3, <2>1
  <2>3. Lo(y[1]) + y[2] \in 1 .. t
    BY <1>1, <2>1, <2>2
  <2> QED
    BY <2>1, <2>3
<1>10. P \in BOOLEAN
  OBVIOUS
<1> HIDE DEF P
<1>11. Cardinality(S) = IF P THEN 1 ELSE 0
  BY <1>8, <1>9, <1>10, OneOrNone
<1>13. ASSUME NEW b \in DOMAIN list PROVE HasDests(list[b], {p[n] : n \in 1 .. t})
  <2>1. b \in 1 .. B
    BY DEF B, CutInto
  <2>2. /\ Lo(b) \in Nat /\ Hi(b) \in Nat /\ Hi(b) <= t /\ Lo(b) < Hi(b)
        /\ Len(list[b].dests) = Hi(b) - Lo(b)
        /\ DOMAIN list[b].dests = 1 .. Hi(b) - Lo(b)
        /\ \A k \in 1 .. Hi(b) - Lo(b) : list[b].dests[k] = p[Lo(b) + k]
    BY <1>4, <1>12, <2>1
  <2>3. Hi(b) - Lo(b) \in Nat \ {0} /\ \A k \in 1 .. Hi(b) - Lo(b) : Lo(b) + k \in 1 .. t
    BY <1>1, <2>2
  <2> DEFINE D == {p[n] : n \in 1 .. t}
             k1 == Hi(b) - Lo(b)
             command == list[b]
  <2>4. \A k \in 1 .. k1 : command.dests[k] \in D
    BY <2>2, <2>3
  <2>5. Len(command.dests) = k1 /\ k1 \in Nat \ {0} /\ DOMAIN command.dests = 1 .. k1
    BY <2>2, <2>3
  <2> HIDE DEF D, k1, command
  <2>6. HasDests(command, D)
    BY <2>4, <2>5 DEF HasDests
  <2> QED
    BY <2>6 DEF D, command
<1> QED
  BY <1>11, <1>13 DEF P, S, t

\* The ring order and the index order go over all peers, each once.
LEMMA PeersOnce ==
  ASSUME NEW in \in Inputs, NEW i \in Gpus(in)
  PROVE  LET c == NodeCount(in)
         IN  /\ \A j \in Gpus(in) : (\E n \in 1 .. c - 1 : (i + n) % c = j) <=> i # j
             /\ \A j \in Gpus(in) : (\E n \in 1 .. c - 1 : Peers(in, i)[n] = j) <=> i # j
             /\ \A n, m \in 1 .. c - 1 : (i + n) % c = (i + m) % c => n = m
             /\ \A n, m \in 1 .. c - 1 : Peers(in, i)[n] = Peers(in, i)[m] => n = m
             /\ Peers(in, i) \in Seq(Nat) /\ Len(Peers(in, i)) = c - 1
<1> DEFINE c == NodeCount(in)
           Ring(n) == (i + n) % c
           Peer(n) == Peers(in, i)[n]
<1>1. c \in Nat \ {0} /\ i \in 0 .. c - 1 /\ Gpus(in) = 0 .. c - 1
  BY GpuNumbers DEF Gpus
<1>2. \A n \in 1 .. c - 1 : /\ Ring(n) = IF i + n < c THEN i + n ELSE (i + n) - c
                            /\ Peer(n) = IF n <= i THEN n - 1 ELSE n
                            /\ Ring(n) \in (0 .. c - 1) \ {i} /\ Peer(n) \in (0 .. c - 1) \ {i}
  <2> SUFFICES ASSUME NEW n \in 1 .. c - 1
               PROVE  /\ Ring(n) = IF i + n < c THEN i + n ELSE (i + n) - c
                      /\ Peer(n) = IF n <= i THEN n - 1 ELSE n
                      /\ Ring(n) \in (0 .. c - 1) \ {i} /\ Peer(n) \in (0 .. c - 1) \ {i}
    OBVIOUS
  <2>1. /\ Ring(n) = IF i + n < c THEN i + n ELSE (i + n) - c
        /\ Peer(n) = IF n <= i THEN n - 1 ELSE n
        /\ Ring(n) \in Gpus(in) \ {i} /\ Peer(n) \in Gpus(in) \ {i}
    BY PeerNumbers
  <2> HIDE DEF Ring, Peer, c
  <2> QED
    BY <1>1, <2>1
<1>3. Peers(in, i) \in Seq(Nat) /\ Len(Peers(in, i)) = c - 1
  <2> DEFINE f == Peers(in, i)
             len == c - 1
  <2>1. f = [n \in 1 .. len |-> IF n <= i THEN n - 1 ELSE n]
    BY DEF Peers
  <2>2. len \in Nat /\ i \in Nat
    BY <1>1
  <2> HIDE DEF f, len
  <2>3. f \in [1 .. len -> Nat]
    BY <2>1, <2>2
  <2>4. f \in Seq(Nat) /\ Len(f) = len
    BY <2>2, <2>3, FunctionIsSequence
  <2> QED
    BY <2>4 DEF f, len
<1> HIDE DEF c, Ring, Peer
<1>4. ASSUME NEW j \in 0 .. c - 1, i # j
      PROVE  /\ \E n \in 1 .. c - 1 : Ring(n) = j
             /\ \E n \in 1 .. c - 1 : Peer(n) = j
  <2>1. CASE i < j
    <3>1. j - i \in 1 .. c - 1 /\ j \in 1 .. c - 1
      BY <1>1, <2>1
    <3>2. Ring(j - i) = j /\ Peer(j) = j
      BY <1>1, <1>2, <2>1, <3>1
    <3> QED
      BY <3>1, <3>2
  <2>2. CASE i > j
    <3>1. (j - i) + c \in 1 .. c - 1 /\ j + 1 \in 1 .. c - 1
      BY <1>1, <2>2
    <3>2. Ring((j - i) + c) = j /\ Peer(j + 1) = j
      BY <1>1, <1>2, <2>2, <3>1
    <3> QED
      BY <3>1, <3>2
  <2> QED
    BY <1>1, <1>4, <2>1, <2>2
<1>5. ASSUME NEW n \in 1 .. c - 1, NEW m \in 1 .. c - 1
      PROVE  (Ring(n) = Ring(m) => n = m) /\ (Peer(n) = Peer(m) => n = m)
  <2>1. n \in Nat /\ m \in Nat /\ i \in Nat /\ c \in Nat /\ n >= 1 /\ m >= 1 /\ n < c /\ m < c
    BY <1>1
  <2>2. (Ring(n) = IF i + n < c THEN i + n ELSE (i + n) - c)
        /\ (Ring(m) = IF i + m < c THEN i + m ELSE (i + m) - c)
    BY <1>2
  <2>3. (Peer(n) = IF n <= i THEN n - 1 ELSE n) /\ (Peer(m) = IF m <= i THEN m - 1 ELSE m)
    BY <1>2
  <2>4. Ring(n) = Ring(m) => n = m
    BY <2>1, <2>2
  <2>5. Peer(n) = Peer(m) => n = m
    BY <2>1, <2>3
  <2> QED
    BY <2>4, <2>5
<1> QED
  BY <1>1, <1>2, <1>3, <1>4, <1>5 DEF c, Ring, Peer

\* Every peer is served by one command of a list of direct copies or of
\* back-to-back batches, once, and the list's own GPU by none.
LEMMA CopiesServe ==
  ASSUME NEW in \in Inputs, NEW i \in Gpus(in),
         in.collective \in {"ag_pcpy", "aa_pcpy", "ag_b2b", "aa_b2b"}
  PROVE  LET list == GpuCmds(in, i, {})
         IN  /\ Len(list) \in 0 .. NodeCount(in) - 1
             /\ Len(list) = IF IsB2b(in) THEN Batches(in) ELSE NodeCount(in) - 1
             /\ Shaped(list, Gpus(in))
             /\ \A j \in Gpus(in) : Cardinality(Serving(list, j)) = IF i = j THEN 0 ELSE 1
<1> DEFINE c == NodeCount(in)
           list == GpuCmds(in, i, {})
<1>1. c \in Nat \ {0} /\ c - 1 \in Nat
  BY GpuNumbers
<1>2. CASE in.collective \in {"ag_pcpy", "aa_pcpy"}
  <2> DEFINE PeerAt(n) == IF in.collective = "ag_pcpy" THEN (i + n) % c ELSE Peers(in, i)[n]
             d == [n \in 1 .. c - 1 |-> PeerAt(n)]
  <2>1. list = [n \in 1 .. c - 1 |-> Command(EngineFor(in, i, PeerAt(n)), <<PeerAt(n)>>)]
    BY <1>2 DEF IsSwap, IsB2b, GpuCmds, AllgatherPcpyCmds, AlltoallPcpyCmds
  <2>2. /\ \A j \in Gpus(in) : (\E n \in 1 .. c - 1 : PeerAt(n) = j) <=> i # j
        /\ \A n, m \in 1 .. c - 1 : PeerAt(n) = PeerAt(m) => n = m
    <3>1. CASE in.collective = "ag_pcpy"
      BY <3>1, PeersOnce
    <3>2. CASE in.collective # "ag_pcpy"
      BY <3>2, PeersOnce
    <3> QED
      BY <3>1, <3>2
  <2> HIDE DEF PeerAt, list
  <2>3. DOMAIN list = 1 .. c - 1 /\ \A n \in 1 .. c - 1 : list[n].dests = <<d[n]>>
    BY <2>1 DEF Command
  <2>4. \A n, m \in 1 .. c - 1 : d[n] = d[m] => n = m
    BY <2>2
  <2>5. \A j \in Gpus(in) : (\E n \in 1 .. c - 1 : d[n] = j) <=> i # j
    BY <2>2
  <2> HIDE DEF d
  <2>6. \A j \in Gpus(in) : Cardinality(Serving(list, j)) = IF \E n \in 1 .. c - 1 : d[n] = j THEN 1 ELSE 0
    <3> SUFFICES ASSUME NEW j \in Gpus(in)
                 PROVE  Cardinality(Serving(list, j)) = IF \E n \in 1 .. c - 1 : d[n] = j THEN 1 ELSE 0
      OBVIOUS
    <3> DEFINE len == c - 1
    <3>1. /\ DOMAIN list = 1 .. len /\ \A n \in 1 .. len : list[n].dests = <<d[n]>>
          /\ \A n, m \in 1 .. len : d[n] = d[m] => n = m
      BY <2>3, <2>4
    <3> HIDE DEF len
    <3>2. Cardinality(Serving(list, j)) = IF \E n \in 1 .. len : d[n] = j THEN 1 ELSE 0
      BY <3>1, SingleServes
    <3> QED
      BY <3>2 DEF len
  <2>7. Len(list) = c - 1
    <3> DEFINE T == {list[n] : n \in 1 .. c - 1}
    <3>1. list \in [1 .. c - 1 -> T]
      BY <2>1
    <3> HIDE DEF T
    <3> QED
      BY <1>1, <3>1, FunctionIsSequence
  <2>8. ~IsB2b(in)
    BY <1>2 DEF IsB2b
  <2>9. \A n \in 1 .. c - 1 : d[n] \in Gpus(in)
    BY PeerNumbers DEF d, PeerAt
  <2>10. Shaped(list, Gpus(in))
    <3> SUFFICES ASSUME NEW n \in 1 .. c - 1 PROVE HasDests(list[n], Gpus(in))
      BY <1>1, <2>3, <2>7 DEF Shaped
    <3> DEFINE dest == d[n]
    <3>1. list[n].dests = <<dest>> /\ dest \in Gpus(in)
      BY <2>3, <2>9
    <3> HIDE DEF dest
    <3> QED
      BY <3>1 DEF HasDests
  <2> QED
    BY <1>1, <2>5, <2>6, <2>7, <2>8, <2>10 DEF list
<1>3. CASE in.collective \in {"ag_b2b", "aa_b2b"}
  <2> DEFINE p == Peers(in, i)
             w == in.ways
             B == Batches(in)
             Part(b) == SubSeq(p, (b - 1) * w + 1, Min({b * w, c - 1}))
  <2>1. list = [b \in 1 .. B |-> Command(in.dma[b], Part(b))]
    BY <1>3 DEF IsSwap, IsB2b, GpuCmds, NwayB2bCmds
  <2>2. w \in Nat \ {0}
    BY SessionAssumption
  <2>3. /\ p \in Seq(Nat) /\ Len(p) = c - 1
        /\ \A n, m \in 1 .. c - 1 : p[n] = p[m] => n = m
        /\ \A j \in Gpus(in) : (\E n \in 1 .. c - 1 : p[n] = j) <=> i # j
    BY PeersOnce
  <2>4. B = CeilDiv(c - 1, w) /\ B \in Nat /\ B <= c - 1
    <3>1. B = CeilDiv(c - 1, w)
      BY DEF Batches
    <3>2. (c - 1) * w >= c - 1
      BY <1>1, <2>2
    <3> DEFINE a == c - 1
    <3>3. a \in Nat /\ a * w >= a
      BY <1>1, <3>2
    <3> HIDE DEF a
    <3>4. CeilDiv(a, w) \in Nat /\ CeilDiv(a, w) <= a
      BY <2>2, <3>3, CeilDivNat, CeilDivAtMost
    <3> QED
      BY <3>1, <3>4 DEF a
  <2>5. \A b \in 1 .. B : list[b].dests = SubSeq(p, (b - 1) * w + 1, Min({b * w, Len(p)}))
    <3>1. \A b \in 1 .. B : Part(b) = SubSeq(p, (b - 1) * w + 1, Min({b * w, Len(p)}))
      BY <2>3
    <3> HIDE DEF list, p, w, B, Part
    <3>2. \A b \in 1 .. B : list[b].dests = Part(b)
      BY <2>1 DEF Command
    <3> QED
      BY <3>1, <3>2
  <2>6. DOMAIN list = 1 .. CeilDiv(Len(p), w)
    BY <2>1, <2>3, <2>4
  <2> HIDE DEF list, p, w, B, Part
  <2>7. \A j \in Gpus(in) :
          /\ Cardinality(Serving(list, j)) = IF \E n \in 1 .. Len(p) : p[n] = j THEN 1 ELSE 0
          /\ \A b \in DOMAIN list : HasDests(list[b], {p[n] : n \in 1 .. Len(p)})
    <3> SUFFICES ASSUME NEW j \in Gpus(in)
                 PROVE  /\ Cardinality(Serving(list, j)) = IF \E n \in 1 .. Len(p) : p[n] = j THEN 1 ELSE 0
                        /\ \A b \in DOMAIN list : HasDests(list[b], {p[n] : n \in 1 .. Len(p)})
      OBVIOUS
    <3>1. /\ p \in Seq(Nat) /\ \A n, m \in 1 .. Len(p) : p[n] = p[m] => n = m
          /\ CeilDiv(Len(p), w) = B
      BY <2>3, <2>4
    <3>2. CutInto(list, p, w)
      BY <2>5, <2>6, <3>1 DEF Slice, CutInto
    <3> QED
      BY <2>2, <3>1, <3>2, SliceServes
  <2>8. Len(list) = B
    <3> DEFINE T == {list[n] : n \in 1 .. B}
    <3>1. list \in [1 .. B -> T]
      BY <2>1
    <3> HIDE DEF T
    <3> QED
      BY <2>4, <3>1, FunctionIsSequence
  <2>9. IsB2b(in)
    BY <1>3 DEF IsB2b
  <2>10. \A n \in 1 .. Len(p) : p[n] \in Gpus(in)
    BY <2>3, PeerNumbers DEF p
  <2>11. Shaped(list, Gpus(in))
    <3>1. \A b \in DOMAIN list : HasDests(list[b], {p[n] : n \in 1 .. Len(p)})
      BY <2>7
    <3>2. DOMAIN list = 1 .. B
      BY <2>1
    <3> QED
      BY <2>4, <2>8, <2>10, <3>1, <3>2 DEF Shaped, HasDests
  <2> QED
    BY <1>1, <2>3, <2>4, <2>7, <2>8, <2>9, <2>11 DEF list, B
<1> QED
  BY <1>2, <1>3

\* In such a list, one that serves a GPU once does so with one command, at one
\* of its places, and one that does not with none.
LEMMA ServedByOne ==
  ASSUME NEW list, NEW D, Shaped(list, D), NEW j, NEW P,
         Cardinality(Serving(list, j)) = IF P THEN 1 ELSE 0
  PROVE  IF P THEN \E x : Serving(list, j) = {x} ELSE Serving(list, j) = {}
<1> DEFINE Places(n) == {n} \X DOMAIN list[n].dests
           Parts == {Places(n) : n \in DOMAIN list}
<1>1. IsFiniteSet(DOMAIN list)
  <2> DEFINE len == Len(list)
  <2>1. len \in Int /\ DOMAIN list = 1 .. len
    BY DEF Shaped
  <2> HIDE DEF len
  <2> QED
    BY <2>1, FS_Interval
<1>2. IsFiniteSet(Parts)
  <2> DEFINE T == DOMAIN list
  <2>1. IsFiniteSet(T)
    BY <1>1
  <2> HIDE DEF T, Places
  <2> DEFINE R == {Places(n) : n \in T}
             f == [n \in T |-> Places(n)]
  <2>2. f \in Surjection(T, R)
    BY DEF Surjection
  <2> HIDE DEF R, f
  <2>3. IsFiniteSet(R)
    BY <2>1, <2>2, FS_Surjection
  <2> QED
    BY <2>3 DEF R, T
<1>3. \A R \in Parts : IsFiniteSet(R)
  <2> SUFFICES ASSUME NEW n \in DOMAIN list PROVE IsFiniteSet(Places(n))
    OBVIOUS
  <2> DEFINE len == Len(list[n].dests)
             T == DOMAIN list[n].dests
  <2>1. len \in Int /\ T = 1 .. len
    BY DEF Shaped, HasDests
  <2> HIDE DEF len, T
  <2>2. IsFiniteSet({n}) /\ IsFiniteSet(T)
    <3>1. IsFiniteSet(1 .. len)
      BY <2>1, FS_Interval
    <3> QED
      BY <2>1, <3>1, FS_Singleton
  <2>3. IsFiniteSet({n} \X T)
    BY <2>2, FS_Product
  <2> QED
    BY <2>3 DEF T
<1>4. Serving(list, j) \in SUBSET UNION Parts
  BY DEF Serving
<1> DEFINE U == UNION Parts
<1>5. IsFiniteSet(U)
  <2> HIDE DEF Parts
  <2> QED
    BY <1>2, <1>3, FS_UNION
<1> DEFINE S == Serving(list, j)
<1>6. S \in SUBSET U
  BY <1>4
<1> HIDE DEF U, S
<1>7. IsFiniteSet(S)
  BY <1>5, <1>6, FS_Subset
<1>8. P => \E x : S = {x}
  BY <1>7, FS_Singleton DEF S
<1>9. ~P => S = {}
  BY <1>7, FS_EmptySet DEF S
<1> QED
  BY <1>8, <1>9 DEF S

\* A list that goes over the GPUs one is to swap with serves these, each once.
SwapsWith(in, i, list) ==
    /\ DOMAIN list = 1 .. SwapLen(in, i)
    /\ \A n \in 1 .. SwapLen(in, i) : list[n].dests = <<SwapDest(in, i, n)>>

LEMMA SwapServes ==
  ASSUME NEW in \in Inputs, NEW i \in Gpus(in), NEW list, SwapsWith(in, i, list), NEW j
  PROVE  Cardinality(Serving(list, j)) = IF j \in SwapTakes(in, i) THEN 1 ELSE 0
<1> DEFINE len == SwapLen(in, i)
           d == [n \in 1 .. len |-> SwapDest(in, i, n)]
<1>1. /\ len \in Nat
      /\ \A n \in 1 .. len : SwapDest(in, i, n) \in SwapTakes(in, i)
      /\ \A k \in SwapTakes(in, i) : \E n \in 1 .. len : SwapDest(in, i, n) = k
      /\ \A n, m \in 1 .. len : SwapDest(in, i, n) = SwapDest(in, i, m) => n = m
  BY SwapDestTakes
<1>2. /\ DOMAIN list = 1 .. len /\ \A n \in 1 .. len : list[n].dests = <<d[n]>>
      /\ \A n, m \in 1 .. len : d[n] = d[m] => n = m
  BY <1>1 DEF SwapsWith
<1>3. (\E n \in 1 .. len : d[n] = j) <=> j \in SwapTakes(in, i)
  BY <1>1
<1> HIDE DEF len, d
<1>4. Cardinality(Serving(list, j)) = IF \E n \in 1 .. len : d[n] = j THEN 1 ELSE 0
  BY <1>2, SingleServes
<1> QED
  BY <1>3, <1>4

\* Its commands have one destination each.
LEMMA SwapShaped ==
  ASSUME NEW in \in Inputs, NEW i \in Gpus(in), NEW list, SwapsWith(in, i, list),
         Len(list) = SwapLen(in, i)
  PROVE  Shaped(list, Gpus(in)) /\ \A n \in DOMAIN list : Len(list[n].dests) = 1
<1>1. /\ SwapLen(in, i) \in Nat
      /\ \A n \in 1 .. SwapLen(in, i) : SwapDest(in, i, n) \in Gpus(in)
  BY SwapDestTakes DEF SwapTakes
<1>2. ASSUME NEW n \in DOMAIN list PROVE HasDests(list[n], Gpus(in)) /\ Len(list[n].dests) = 1
  <2> DEFINE dest == SwapDest(in, i, n)
  <2>1. list[n].dests = <<dest>> /\ dest \in Gpus(in)
    BY <1>1 DEF SwapsWith
  <2> HIDE DEF dest
  <2> QED
    BY <2>1 DEF HasDests
<1> QED
  BY <1>1, <1>2 DEF Shaped, SwapsWith

\* Of two GPUs one is to swap with the other; none is with itself.
LEMMA SwapPairs ==
  ASSUME NEW in \in Inputs, NEW i \in Gpus(in), NEW j \in Gpus(in)
  PROVE  /\ i = j => j \notin SwapTakes(in, i)
         /\ i # j => (j \in SwapTakes(in, i) <=> i \notin SwapTakes(in, j))
<1> DEFINE h == Half(in)
<1>1. h \in Nat /\ i \in Nat /\ j \in Nat
  BY HalfOfGpus, GpuNumbers
<1>2. /\ j \in SwapTakes(in, i) <=> (i < j /\ j <= i + h) \/ j + h < i
      /\ i \in SwapTakes(in, j) <=> (j < i /\ i <= j + h) \/ i + h < j
  BY DEF SwapTakes
<1> HIDE DEF h
<1> QED
  BY <1>1, <1>2

\* The places of c rows of given lengths, none longer than c.
Cells(c, len) == {x \in (0 .. c - 1) \X (1 .. c) : x[2] <= len[x[1]]}

\* The rows before b have one length and the others another.
Stepped(b, c, k, l, len) ==
    /\ b \in Nat /\ c \in Nat /\ b <= c
    /\ k \in Nat /\ l \in Nat /\ k <= c /\ l <= c
    /\ \A i \in 0 .. b - 1 : len[i] = k
    /\ \A i \in b .. c - 1 : len[i] = l

\* How many places such rows have.
LEMMA CommandCount ==
  ASSUME NEW b, NEW c, NEW k, NEW l, NEW len, Stepped(b, c, k, l, len)
  PROVE  IsFiniteSet(Cells(c, len)) /\ Cardinality(Cells(c, len)) = b * k + (c - b) * l
<1> DEFINE S == {x \in (0 .. c - 1) \X (1 .. c) : x[2] <= len[x[1]]}
           A == (0 .. b - 1) \X (1 .. k)
           D == (b .. c - 1) \X (1 .. l)
<1> USE DEF Stepped
<1>1. S = A \cup D
  <2>1. ASSUME NEW x \in S PROVE x \in A \cup D
    <3>1. x \in (0 .. c - 1) \X (1 .. c) /\ x[2] <= len[x[1]] /\ x = <<x[1], x[2]>>
      OBVIOUS
    <3>2. CASE x[1] < b
      BY <3>1, <3>2
    <3>3. CASE x[1] >= b
      BY <3>1, <3>3
    <3> QED
      BY <3>1, <3>2, <3>3
  <2>2. ASSUME NEW x \in A \cup D PROVE x \in S
    <3>1. CASE x \in A
      BY <3>1
    <3>2. CASE x \in D
      BY <3>2
    <3> QED
      BY <3>1, <3>2
  <2> HIDE DEF S, A, D
  <2> QED
    BY <2>1, <2>2
<1>2. /\ IsFiniteSet(0 .. b - 1) /\ Cardinality(0 .. b - 1) = b
      /\ IsFiniteSet(b .. c - 1) /\ Cardinality(b .. c - 1) = c - b
      /\ IsFiniteSet(1 .. k) /\ Cardinality(1 .. k) = k
      /\ IsFiniteSet(1 .. l) /\ Cardinality(1 .. l) = l
  <2> DEFINE p == b - 1
             q == c - 1
  <2>1. p \in Int /\ q \in Int /\ 0 \in Int /\ 1 \in Int /\ b \in Int /\ k \in Int /\ l \in Int
    OBVIOUS
  <2>2. p - 0 + 1 = b /\ q - b + 1 = c - b /\ k - 1 + 1 = k /\ l - 1 + 1 = l
        /\ (0 > p => b = 0) /\ (b > q => c - b = 0) /\ (1 > k => k = 0) /\ (1 > l => l = 0)
    OBVIOUS
  <2> HIDE DEF p, q
  <2>3. /\ IsFiniteSet(0 .. p) /\ Cardinality(0 .. p) = IF 0 > p THEN 0 ELSE p - 0 + 1
        /\ IsFiniteSet(b .. q) /\ Cardinality(b .. q) = IF b > q THEN 0 ELSE q - b + 1
        /\ IsFiniteSet(1 .. k) /\ Cardinality(1 .. k) = IF 1 > k THEN 0 ELSE k - 1 + 1
        /\ IsFiniteSet(1 .. l) /\ Cardinality(1 .. l) = IF 1 > l THEN 0 ELSE l - 1 + 1
    BY <2>1, FS_Interval
  <2> QED
    BY <2>2, <2>3 DEF p, q
<1>3. IsFiniteSet(A) /\ Cardinality(A) = b * k /\ IsFiniteSet(D) /\ Cardinality(D) = (c - b) * l
  <2>1. IsFiniteSet(A) /\ Cardinality(A) = Cardinality(0 .. b - 1) * Cardinality(1 .. k)
    BY <1>2, FS_Product
  <2>2. IsFiniteSet(D) /\ Cardinality(D) = Cardinality(b .. c - 1) * Cardinality(1 .. l)
    BY <1>2, FS_Product
  <2> HIDE DEF A, D
  <2> QED
    BY <1>2, <2>1, <2>2
<1>4. A \cap D = {}
  <2> SUFFICES ASSUME NEW x \in A, x \in D PROVE FALSE
    OBVIOUS
  <2>1. x[1] \in 0 .. b - 1 /\ x[1] \in b .. c - 1
    OBVIOUS
  <2> QED
    BY <2>1
<1>5. IsFiniteSet(A \cup D) /\ Cardinality(A \cup D) = Cardinality(A) + Cardinality(D)
  <2> HIDE DEF A, D
  <2>1. IsFiniteSet(A \cup D)
        /\ Cardinality(A \cup D) = Cardinality(A) + Cardinality(D) - Cardinality(A \cap D)
    BY <1>3, FS_Union
  <2>2. Cardinality(A \cap D) = 0
    BY <1>4, FS_EmptySet
  <2>3. Cardinality(A) \in Nat /\ Cardinality(D) \in Nat
    BY <1>3, FS_CardinalityType
  <2> QED
    BY <2>1, <2>2, <2>3
<1> HIDE DEF S, A, D
<1> QED
  BY <1>1, <1>3, <1>5 DEF S, Cells

\* Building GPU i's list after those of the GPUs before it.
LEMMA SwapBuild ==
  ASSUME NEW in \in Inputs, IsSwap(in), Distinct(in), NEW i \in Gpus(in)
  PROVE  LET list == GpuCmds(in, i, SwapSeen(in, i))
         IN  /\ SwapsWith(in, i, list) /\ Len(list) = SwapLen(in, i)
             /\ SwapSeen(in, i) \cup Taken(in, i, SwapSeen(in, i)) = SwapSeen(in, i + 1)
<1> DEFINE len == SwapLen(in, i)
           peers == SwapPeers(in, i, SwapSeen(in, i))
           list == GpuCmds(in, i, SwapSeen(in, i))
<1>1. /\ DOMAIN peers = 1 .. len /\ len \in Nat
      /\ \A n \in 1 .. len : peers[n] = SwapDest(in, i, n)
  BY SwapTurn, SwapDestTakes
<1>2. list = [n \in DOMAIN peers |-> Command(EngineFor(in, i, peers[n]), <<peers[n]>>)]
  BY DEF GpuCmds, IsSwap, IsB2b, SwapCmds
<1>3. ToSet(peers) = SwapTakes(in, i)
  <2>1. ToSet(peers) = {peers[n] : n \in 1 .. len}
    BY <1>1 DEF ToSet
  <2>2. /\ \A n \in 1 .. len : peers[n] \in SwapTakes(in, i)
        /\ \A j \in SwapTakes(in, i) : \E n \in 1 .. len : peers[n] = j
    BY <1>1, SwapDestTakes
  <2> HIDE DEF peers, len
  <2> QED
    BY <2>1, <2>2
<1>4. Taken(in, i, SwapSeen(in, i)) = {Pair(in, i, j) : j \in SwapTakes(in, i)}
  BY <1>3 DEF Taken
<1>5. SwapSeen(in, i + 1) = SwapSeen(in, i) \cup {Pair(in, i, j) : j \in SwapTakes(in, i)}
  <2>1. i \in Nat
    BY GpuNumbers
  <2> DEFINE F(k) == {Pair(in, k, j) : j \in SwapTakes(in, k)}
  <2>2. 0 .. (i + 1) - 1 = (0 .. i - 1) \cup {i}
    BY <2>1
  <2>3. SwapSeen(in, i + 1) = UNION {F(k) : k \in 0 .. (i + 1) - 1}
        /\ SwapSeen(in, i) = UNION {F(k) : k \in 0 .. i - 1}
    BY DEF SwapSeen
  <2> DEFINE K == 0 .. i - 1
  <2> HIDE DEF F, K
  <2>4. UNION {F(k) : k \in K \cup {i}} = (UNION {F(k) : k \in K}) \cup F(i)
    OBVIOUS
  <2> QED
    BY <2>2, <2>3, <2>4 DEF F, K
<1> HIDE DEF list, peers, len
<1>6. DOMAIN list = 1 .. len /\ \A n \in 1 .. len : list[n].dests = <<SwapDest(in, i, n)>>
  BY <1>1, <1>2 DEF Command
<1>7. Len(list) = len
  <2> DEFINE T == {list[n] : n \in 1 .. len}
  <2>1. list \in [1 .. len -> T]
    BY <1>1, <1>2
  <2> HIDE DEF T
  <2> QED
    BY <1>1, <2>1, FunctionIsSequence
<1> QED
  BY <1>4, <1>5, <1>6, <1>7 DEF SwapsWith, list, len

-----------------------------------------------------------------------------
(* Broadcast.  Where each GPU has an engine of its own for every other GPU *)
(* taking part, its engines in order lead to all of them; the first        *)
(* command takes the first engine, the others two at a time.               *)

\* The GPU that an engine of GPU i leads to, by the affinity map.
LeadsTo(in, i, e) == HwToLocal(in, PreferredEngines(in)[<<Hw(in, i), e>>])

\* The affinity map has one engine for each link between GPUs taking part, and
\* none that leads elsewhere.
Wired(in) ==
    \A i \in Gpus(in) :
      /\ EnginesOf(in, i) \subseteq Nat
      /\ {LeadsTo(in, i, e) : e \in EnginesOf(in, i)} = Gpus(in) \ {i}
      /\ \A e, f \in EnginesOf(in, i) : LeadsTo(in, i, e) = LeadsTo(in, i, f) => e = f

\* A GPU's local index is where the list of GPUs has it.
LEMMA LocalOf ==
  ASSUME NEW in \in Inputs, Distinct(in), NEW n \in Gpus(in)
  PROVE  HwToLocal(in, Hw(in, n)) = n
<1> DEFINE T == {m \in Gpus(in) : Hw(in, m) = Hw(in, n)}
<1>1. T = {n}
  BY DEF Distinct
<1>2. Max({n}) = n
  <2>1. n \in Nat
    BY GpuNumbers
  <2> QED
    BY <2>1 DEF Max
<1> QED
  BY <1>1, <1>2 DEF HwToLocal

\* An SDMA_MAP that wires the GPUs taking part: from each of them one line to
\* each other one, no two with the same engine, and no line to another GPU.
LinesFrom(in, i) == {n \in DOMAIN in.engineMap : in.engineMap[n][1] = Hw(in, i)}
Mapped(in) ==
    /\ in.engineMap # <<>> /\ Distinct(in)
    /\ \A i \in Gpus(in) :
         /\ {in.engineMap[n][3] : n \in LinesFrom(in, i)} = {Hw(in, j) : j \in Gpus(in) \ {i}}
         /\ \A n, k \in LinesFrom(in, i) : n # k => /\ in.engineMap[n][2] # in.engineMap[k][2]
                                                    /\ in.engineMap[n][3] # in.engineMap[k][3]

LEMMA MapWires ==
  ASSUME NEW in \in Inputs, in.collective = "ag_bcst", Mapped(in)
  PROVE  Wired(in)
<1> SUFFICES ASSUME NEW i \in Gpus(in)
             PROVE  /\ EnginesOf(in, i) \subseteq Nat
                    /\ {LeadsTo(in, i, e) : e \in EnginesOf(in, i)} = Gpus(in) \ {i}
                    /\ \A e, f \in EnginesOf(in, i) : LeadsTo(in, i, e) = LeadsTo(in, i, f) => e = f
  BY DEF Wired
<1> DEFINE lines == in.engineMap
           hw == Hw(in, i)
           L == LinesFrom(in, i)
           Key(n) == <<lines[n][1], lines[n][2]>>
           keys == {Key(n) : n \in DOMAIN lines}
           map == [k \in keys |-> lines[Max({n \in DOMAIN lines : Key(n) = k})][3]]
           S == EnginesOf(in, i)
<1>1. /\ \A n \in DOMAIN lines : n \in Nat /\ lines[n] \in Nat \X Nat \X Nat
      /\ L = {n \in DOMAIN lines : lines[n][1] = hw}
      /\ {lines[n][3] : n \in L} = {Hw(in, j) : j \in Gpus(in) \ {i}}
      /\ \A n, k \in L : n # k => lines[n][2] # lines[k][2] /\ lines[n][3] # lines[k][3]
      /\ Distinct(in)
  <2>1. lines \in Seq(Nat \X Nat \X Nat)
    BY SessionAssumption
  <2>2. \A n \in DOMAIN lines : n \in Nat /\ lines[n] \in Nat \X Nat \X Nat
    <3> HIDE DEF lines
    <3> QED
      BY <2>1, LenProperties, ElementOfSeq
  <2> QED
    BY <2>2 DEF Mapped, LinesFrom
<1>2. PreferredEngines(in) = map
  BY DEF PreferredEngines, FromFile, SdmaToDest, Mapped
<1>3. S = {k[2] : k \in {k \in keys : k[1] = hw}}
  BY <1>2 DEF EnginesOf
<1> HIDE DEF lines, hw, L, S
<1>4. S = {lines[n][2] : n \in L}
  <2>1. ASSUME NEW e \in S PROVE \E n \in L : e = lines[n][2]
    <3>1. PICK k \in keys : k[1] = hw /\ e = k[2]
      BY <1>3, <2>1
    <3>2. PICK n \in DOMAIN lines : k = Key(n)
      BY <3>1
    <3> QED
      BY <1>1, <3>1, <3>2
  <2>2. ASSUME NEW n \in L PROVE lines[n][2] \in S
    <3>1. Key(n) \in keys /\ Key(n)[1] = hw /\ Key(n)[2] = lines[n][2]
      BY <1>1, <2>2
    <3> HIDE DEF keys, Key
    <3> QED
      BY <1>3, <3>1
  <2> QED
    BY <2>1, <2>2
\* An engine of this GPU leads where its one line says.
<1>5. ASSUME NEW n \in L PROVE map[<<hw, lines[n][2]>>] = lines[n][3]
  <2> DEFINE k == Key(n)
             T == {l \in DOMAIN lines : Key(l) = k}
  <2>1. k = <<hw, lines[n][2]>> /\ n \in DOMAIN lines /\ n \in Nat
    BY <1>1, <1>5
  <2>2. T = {n}
    BY <1>1, <1>5
  <2>3. Max({n}) = n
    BY <2>1 DEF Max
  <2>4. k \in keys
    BY <2>1
  <2> HIDE DEF T, keys
  <2>5. map[k] = lines[Max(T)][3]
    <3> HIDE DEF k, Key
    <3> QED
      BY <2>4 DEF T
  <2> HIDE DEF map, k
  <2> QED
    BY <2>1, <2>2, <2>3, <2>5
<1>6. ASSUME NEW n \in L PROVE LeadsTo(in, i, lines[n][2]) = HwToLocal(in, lines[n][3])
  <2> HIDE DEF map
  <2> QED
    BY <1>2, <1>5 DEF LeadsTo, hw
<1> HIDE DEF map, keys, Key
<1>7. ASSUME NEW n \in L
      PROVE  /\ LeadsTo(in, i, lines[n][2]) \in Gpus(in) \ {i}
             /\ Hw(in, LeadsTo(in, i, lines[n][2])) = lines[n][3]
  <2>1. PICK j \in Gpus(in) \ {i} : lines[n][3] = Hw(in, j)
    BY <1>1
  <2>2. HwToLocal(in, Hw(in, j)) = j
    BY <1>1, LocalOf
  <2> QED
    BY <1>6, <2>1, <2>2
<1>8. ASSUME NEW j \in Gpus(in) \ {i} PROVE \E n \in L : LeadsTo(in, i, lines[n][2]) = j
  <2>1. PICK n \in L : lines[n][3] = Hw(in, j)
    BY <1>1
  <2>2. HwToLocal(in, Hw(in, j)) = j
    BY <1>1, LocalOf
  <2> QED
    BY <1>6, <2>1, <2>2
<1>9. S \subseteq Nat
  BY <1>1, <1>4
<1>10. {LeadsTo(in, i, e) : e \in S} = Gpus(in) \ {i}
  BY <1>4, <1>7, <1>8
<1>11. ASSUME NEW e \in S, NEW f \in S, LeadsTo(in, i, e) = LeadsTo(in, i, f) PROVE e = f
  <2>1. PICK n \in L : e = lines[n][2]
    BY <1>4
  <2>2. PICK k \in L : f = lines[k][2]
    BY <1>4
  <2>3. lines[n][3] = lines[k][3]
    BY <1>7, <1>11, <2>1, <2>2
  <2> QED
    BY <1>1, <2>1, <2>2, <2>3
<1> QED
  BY <1>9, <1>10, <1>11 DEF S

\* A whole machine without SDMA_MAP, with an engine for every peer.
Whole(in) ==
    /\ in.engineMap = <<>> /\ Distinct(in)
    /\ NodeCount(in) = in.numTotalNodes
    /\ {Hw(in, i) : i \in Gpus(in)} = 0 .. in.numTotalNodes - 1
    /\ in.numTotalNodes - 1 <= EvenEngines(in)

\* Its n-th engine, and the hardware index of the n-th other GPU.
Engine(in, n)   == in.numCpuSdma + 2 * (n - 1)
Other(in, i, n) == IF n <= Hw(in, i) THEN n - 1 ELSE n

\* The engines of a GPU on a whole machine, and where the affinity map sends
\* from each of them.
LEMMA WholeMap ==
  ASSUME NEW in \in Inputs, in.collective = "ag_bcst", Whole(in), NEW i \in Gpus(in)
  PROVE  LET m == NodeCount(in) - 1
         IN  /\ EnginesOf(in, i) = {Engine(in, n) : n \in 1 .. m}
             /\ \A n \in 1 .. m : PreferredEngines(in)[<<Hw(in, i), Engine(in, n)>>] = Other(in, i, n)
<1> DEFINE c == NodeCount(in)
           hw == Hw(in, i)
           links == {l \in (0 .. c - 1) \X (0 .. c - 1) : l[1] # l[2]}
           Rr(a, b) == RoundRobinEngine(in, a, b)
           From(k) == {j \in 0 .. c - 1 : j # k[1] /\ Rr(k[1], j) = k[2]}
           keys == {<<l[1], Rr(l[1], l[2])>> : l \in links}
           map == [k \in keys |-> Max(From(k))]
<1>1. /\ c \in Nat \ {0} /\ in.numTotalNodes = c
      /\ hw \in 0 .. c - 1 /\ hw \in Nat
      /\ in.numCpuSdma \in Nat /\ in.numTotalSdma \in Nat /\ c - 1 <= EvenEngines(in)
  BY GpuNumbers, SessionAssumption DEF Whole
<1>2. EvenEngines(in) \in Int
  BY <1>1 DEF EvenEngines
<1>3. PreferredEngines(in) = map
  BY <1>1 DEF PreferredEngines, RoundRobin, Whole, SdmaToDest
\* Every link of this GPU has an engine of its own.
<1>4. ASSUME NEW a \in 0 .. c - 1, NEW b \in 0 .. c - 1, a # b
      PROVE  Rr(a, b) = in.numCpuSdma + 2 * (IF b < a THEN b ELSE b - 1)
  <2> DEFINE d == IF b < a THEN b ELSE b - 1
             e == EvenEngines(in)
  <2>1. Rr(a, b) = in.numCpuSdma + 2 * (d % e)
    BY DEF RoundRobinEngine
  <2>2. d \in Nat /\ d <= c - 2
    BY <1>1, <1>4
  <2> HIDE DEF d, e, Rr
  <2>3. e \in Nat \ {0} /\ d < e
    BY <1>1, <1>2, <2>2 DEF e
  <2>4. d % e = d
    BY <2>2, <2>3
  <2> QED
    BY <2>1, <2>4 DEF d
<1> HIDE DEF c, hw, links, Rr
<1>5. \A n \in 1 .. c - 1 :
        /\ Other(in, i, n) \in 0 .. c - 1 /\ Other(in, i, n) # hw
        /\ Rr(hw, Other(in, i, n)) = Engine(in, n)
        /\ \A j \in 0 .. c - 1 : j # hw /\ Rr(hw, j) = Engine(in, n) => j = Other(in, i, n)
  <2> SUFFICES ASSUME NEW n \in 1 .. c - 1
               PROVE  /\ Other(in, i, n) \in 0 .. c - 1 /\ Other(in, i, n) # hw
                      /\ Rr(hw, Other(in, i, n)) = Engine(in, n)
                      /\ \A j \in 0 .. c - 1 : j # hw /\ Rr(hw, j) = Engine(in, n) => j = Other(in, i, n)
    OBVIOUS
  <2> DEFINE o == Other(in, i, n)
  <2>1. o = IF n <= hw THEN n - 1 ELSE n
    BY DEF Other, hw
  <2>2. Engine(in, n) = in.numCpuSdma + 2 * (n - 1)
    BY DEF Engine
  <2> HIDE DEF o
  <2>3. o \in 0 .. c - 1 /\ o # hw
    BY <1>1, <2>1
  <2>4. Rr(hw, o) = Engine(in, n)
    <3>1. Rr(hw, o) = in.numCpuSdma + 2 * (IF o < hw THEN o ELSE o - 1)
      BY <1>1, <1>4, <2>3
    <3> QED
      BY <1>1, <2>1, <2>2, <3>1
  <2>5. ASSUME NEW j \in 0 .. c - 1, j # hw, Rr(hw, j) = Engine(in, n) PROVE j = o
    <3>1. Rr(hw, j) = in.numCpuSdma + 2 * (IF j < hw THEN j ELSE j - 1)
      BY <1>1, <1>4, <2>5
    <3> QED
      BY <1>1, <2>1, <2>2, <2>5, <3>1
  <2> QED
    BY <2>3, <2>4, <2>5 DEF o
<1>6. ASSUME NEW j \in 0 .. c - 1, j # hw
      PROVE  \E n \in 1 .. c - 1 : Rr(hw, j) = Engine(in, n)
  <2> DEFINE n == IF j < hw THEN j + 1 ELSE j
  <2>1. n \in 1 .. c - 1
    BY <1>1, <1>6
  <2>2. Rr(hw, j) = in.numCpuSdma + 2 * (IF j < hw THEN j ELSE j - 1)
    BY <1>1, <1>4, <1>6
  <2>3. Rr(hw, j) = Engine(in, n)
    BY <1>1, <1>6, <2>2 DEF Engine
  <2> QED
    BY <2>1, <2>3
<1>7. EnginesOf(in, i) = {Engine(in, n) : n \in 1 .. c - 1}
  <2>1. EnginesOf(in, i) = {k[2] : k \in {k \in keys : k[1] = hw}}
    BY <1>3 DEF EnginesOf, hw
  <2>2. ASSUME NEW e \in EnginesOf(in, i) PROVE e \in {Engine(in, n) : n \in 1 .. c - 1}
    <3>1. PICK k \in keys : k[1] = hw /\ e = k[2]
      BY <2>1
    <3>2. PICK l \in links : k = <<l[1], Rr(l[1], l[2])>>
      BY <3>1
    <3>3. l[2] \in 0 .. c - 1 /\ l[2] # hw /\ e = Rr(hw, l[2])
      BY <3>1, <3>2 DEF links
    <3>4. PICK n \in 1 .. c - 1 : Rr(hw, l[2]) = Engine(in, n)
      BY <1>6, <3>3
    <3> QED
      BY <3>3, <3>4
  <2>3. ASSUME NEW n \in 1 .. c - 1 PROVE Engine(in, n) \in EnginesOf(in, i)
    <3> DEFINE o == Other(in, i, n)
    <3>1. o \in 0 .. c - 1 /\ o # hw /\ Rr(hw, o) = Engine(in, n)
      BY <1>5
    <3>2. <<hw, o>> \in links
      BY <1>1, <3>1 DEF links
    <3> HIDE DEF o
    <3>3. <<hw, Engine(in, n)>> \in keys
      BY <3>1, <3>2
    <3> HIDE DEF keys
    <3> QED
      BY <2>1, <3>3
  <2> QED
    BY <2>2, <2>3
<1>8. ASSUME NEW n \in 1 .. c - 1
      PROVE  PreferredEngines(in)[<<hw, Engine(in, n)>>] = Other(in, i, n)
  <2> DEFINE o == Other(in, i, n)
             k == <<hw, Engine(in, n)>>
  <2>1. /\ o \in 0 .. c - 1 /\ o # hw /\ Rr(hw, o) = Engine(in, n)
        /\ \A j \in 0 .. c - 1 : j # hw /\ Rr(hw, j) = Engine(in, n) => j = o
    BY <1>5
  <2> HIDE DEF o
  <2>2. From(k) = {o}
    BY <2>1
  <2>3. k \in keys
    <3>1. <<hw, o>> \in links
      BY <1>1, <2>1 DEF links
    <3> QED
      BY <2>1, <3>1
  <2>4. Max({o}) = o
    <3>1. o \in Nat
      BY <2>1
    <3> QED
      BY <3>1 DEF Max
  <2> HIDE DEF k, keys
  <2>5. map[k] = Max(From(k))
    BY <2>3
  <2> HIDE DEF map, From
  <2>6. map[k] = o
    BY <2>2, <2>4, <2>5
  <2> QED
    BY <1>3, <2>6 DEF k, o
<1> QED
  BY <1>7, <1>8 DEF c, hw

\* It is wired, too: engine number n leads to the n-th other GPU.
LEMMA WholeWires ==
  ASSUME NEW in \in Inputs, in.collective = "ag_bcst", Whole(in)
  PROVE  Wired(in)
<1> SUFFICES ASSUME NEW i \in Gpus(in)
             PROVE  /\ EnginesOf(in, i) \subseteq Nat
                    /\ {LeadsTo(in, i, e) : e \in EnginesOf(in, i)} = Gpus(in) \ {i}
                    /\ \A e, f \in EnginesOf(in, i) : LeadsTo(in, i, e) = LeadsTo(in, i, f) => e = f
  BY DEF Wired
<1> DEFINE c == NodeCount(in)
           hw == Hw(in, i)
           o(n) == Other(in, i, n)
           D(n) == LeadsTo(in, i, Engine(in, n))
           S == EnginesOf(in, i)
<1>1. /\ c \in Nat \ {0} /\ {Hw(in, k) : k \in Gpus(in)} = 0 .. c - 1
      /\ hw \in 0 .. c - 1 /\ Distinct(in) /\ in.numCpuSdma \in Nat
  BY GpuNumbers, SessionAssumption DEF Whole
<1>2. \A n : o(n) = IF n <= hw THEN n - 1 ELSE n
  BY DEF Other
<1>3. /\ S = {Engine(in, n) : n \in 1 .. c - 1}
      /\ \A n \in 1 .. c - 1 : D(n) = HwToLocal(in, o(n))
  BY WholeMap DEF LeadsTo
<1> HIDE DEF c, o, hw, D, S
<1>4. \A n \in 1 .. c - 1 : o(n) \in 0 .. c - 1 /\ o(n) # hw
  BY <1>1, <1>2
<1>5. ASSUME NEW n \in 1 .. c - 1 PROVE D(n) \in Gpus(in) \ {i} /\ Hw(in, D(n)) = o(n)
  <2>1. PICK k \in Gpus(in) : Hw(in, k) = o(n)
    BY <1>1, <1>4
  <2>2. D(n) = k
    BY <1>1, <1>3, <2>1, LocalOf
  <2>3. k # i
    BY <1>4, <2>1 DEF hw
  <2> QED
    BY <2>1, <2>2, <2>3
<1>6. ASSUME NEW j \in Gpus(in) \ {i} PROVE \E n \in 1 .. c - 1 : D(n) = j
  <2> DEFINE h == Hw(in, j)
             n == IF h < hw THEN h + 1 ELSE h
  <2>1. h \in 0 .. c - 1 /\ h # hw
    BY <1>1 DEF Distinct, hw
  <2>2. HwToLocal(in, h) = j
    BY <1>1, LocalOf
  <2> HIDE DEF h
  <2>3. n \in 1 .. c - 1 /\ o(n) = h
    BY <1>1, <1>2, <2>1
  <2>4. D(n) = j
    BY <1>3, <2>2, <2>3
  <2> QED
    BY <2>3, <2>4
<1>7. ASSUME NEW n \in 1 .. c - 1, NEW l \in 1 .. c - 1, D(n) = D(l) PROVE n = l
  <2>1. o(n) = o(l)
    BY <1>5, <1>7
  <2> QED
    BY <1>1, <1>2, <2>1
<1>8. S \subseteq Nat
  BY <1>1, <1>3 DEF Engine
<1>9. {LeadsTo(in, i, e) : e \in S} = Gpus(in) \ {i}
  BY <1>3, <1>5, <1>6 DEF D
<1>10. ASSUME NEW e \in S, NEW f \in S, LeadsTo(in, i, e) = LeadsTo(in, i, f) PROVE e = f
  <2>1. PICK n \in 1 .. c - 1 : e = Engine(in, n)
    BY <1>3
  <2>2. PICK l \in 1 .. c - 1 : f = Engine(in, l)
    BY <1>3
  <2>3. n = l
    BY <1>7, <1>10, <2>1, <2>2 DEF D
  <2> QED
    BY <2>1, <2>2, <2>3
<1> QED
  BY <1>8, <1>9, <1>10 DEF S

\* The destination of a GPU's n-th engine, and its place in the list.
BcstDest(in, i, n) == LeadsTo(in, i, Ascending[EnginesOf(in, i)][n])
Row(n) == (n \div 2) + 1
Col(n) == IF n = 1 THEN 1 ELSE (n % 2) + 1

\* A wired GPU has as many engines as there are other GPUs.
LEMMA WiredEngines ==
  ASSUME NEW in \in Inputs, Wired(in), NEW i \in Gpus(in)
  PROVE  /\ EnginesOf(in, i) \in SUBSET Nat /\ IsFiniteSet(EnginesOf(in, i))
         /\ Cardinality(EnginesOf(in, i)) = NodeCount(in) - 1
<1> DEFINE S == EnginesOf(in, i)
           T == Gpus(in) \ {i}
           F(e) == LeadsTo(in, i, e)
           g == [j \in T |-> CHOOSE e \in S : F(e) = j]
<1>1. S \in SUBSET Nat /\ {F(e) : e \in S} = T /\ \A e, f \in S : F(e) = F(f) => e = f
  BY DEF Wired
<1>2. IsFiniteSet(T) /\ Cardinality(T) = NodeCount(in) - 1
  BY GpuNumbers, FS_RemoveElement
<1> HIDE DEF S, T, F
<1>3. \A j \in T : g[j] \in S /\ F(g[j]) = j
  <2> SUFFICES ASSUME NEW j \in T PROVE g[j] \in S /\ F(g[j]) = j
    OBVIOUS
  <2>1. \E e \in S : F(e) = j
    BY <1>1
  <2> QED
    BY <2>1
<1>4. g \in [T -> S] /\ (\A j, k \in T : g[j] = g[k] => j = k) /\ \A e \in S : \E j \in T : g[j] = e
  <2>1. g \in [T -> S]
    <3>1. g = [j \in T |-> g[j]]
      OBVIOUS
    <3> HIDE DEF g
    <3> QED
      BY <1>3, <3>1
  <2>2. ASSUME NEW e \in S PROVE g[F(e)] = e /\ F(e) \in T
    BY <1>1, <1>3
  <2> HIDE DEF g
  <2> QED
    BY <1>3, <2>1, <2>2
<1> HIDE DEF g
<1>5. ExistsBijection(T, S)
  <2>1. g \in Injection(T, S)
    BY <1>4 DEF Injection, IsInjective
  <2>2. g \in Surjection(T, S)
    BY <1>4 DEF Surjection
  <2> QED
    BY <2>1, <2>2 DEF ExistsBijection, Bijection
<1>6. IsFiniteSet(S) /\ Cardinality(S) = Cardinality(T)
  BY <1>2, <1>5, FS_Bijection
<1> QED
  BY <1>1, <1>2, <1>6 DEF S

\* Broadcast's destinations are the other GPUs, each once.
LEMMA BcstDests ==
  ASSUME NEW in \in Inputs, Wired(in), NEW i \in Gpus(in)
  PROVE  LET m == NodeCount(in) - 1
         IN  /\ \A n \in 1 .. m : BcstDest(in, i, n) \in Gpus(in) \ {i}
             /\ \A j \in Gpus(in) \ {i} : \E n \in 1 .. m : BcstDest(in, i, n) = j
             /\ \A n, l \in 1 .. m : BcstDest(in, i, n) = BcstDest(in, i, l) => n = l
<1> DEFINE m == NodeCount(in) - 1
           S == EnginesOf(in, i)
           F(e) == LeadsTo(in, i, e)
           t == Ascending[S]
           Rank(e) == Cardinality({f \in S : f < e})
<1>1. S \in SUBSET Nat /\ IsFiniteSet(S) /\ Cardinality(S) = m /\ m \in Int
  BY WiredEngines, GpuNumbers
<1>2. {F(e) : e \in S} = Gpus(in) \ {i} /\ \A e, f \in S : F(e) = F(f) => e = f
  BY DEF Wired
<1>3. \A n : BcstDest(in, i, n) = F(t[n])
  BY DEF BcstDest
<1> HIDE DEF m, S, F, t
<1>4. ASSUME NEW n \in 1 .. m PROVE t[n] \in S /\ Rank(t[n]) = n - 1
  BY <1>1, RankOfPlace DEF t
<1>5. ASSUME NEW e \in S PROVE \E n \in 1 .. m : t[n] = e
  BY <1>1, RankTells DEF t
<1> HIDE DEF Rank
<1>6. \A n \in 1 .. m : F(t[n]) \in Gpus(in) \ {i}
  BY <1>2, <1>4
<1>7. ASSUME NEW j \in Gpus(in) \ {i} PROVE \E n \in 1 .. m : F(t[n]) = j
  BY <1>2, <1>5
<1>8. ASSUME NEW n \in 1 .. m, NEW l \in 1 .. m, F(t[n]) = F(t[l]) PROVE n = l
  <2>1. t[n] = t[l]
    BY <1>2, <1>4, <1>8
  <2>2. n - 1 = l - 1
    BY <1>4, <2>1
  <2> QED
    BY <1>1, <2>2
<1> QED
  BY <1>3, <1>6, <1>7, <1>8 DEF m

\* What broadcast's list comes to: each destination in its place, and no other.
PairsUp(in, i, list) ==
    LET m == NodeCount(in) - 1
    IN  /\ DOMAIN list = 1 .. Row(m) /\ Len(list) = Row(m)
        /\ \A r \in 1 .. Row(m) : /\ Len(list[r].dests) \in Nat
                                  /\ DOMAIN list[r].dests = 1 .. Len(list[r].dests)
        /\ \A n \in 1 .. m : /\ Col(n) \in DOMAIN list[Row(n)].dests
                             /\ list[Row(n)].dests[Col(n)] = BcstDest(in, i, n)
        /\ \A r \in 1 .. Row(m) : \A k \in DOMAIN list[r].dests :
             \E n \in 1 .. m : r = Row(n) /\ k = Col(n)

\* The engines of a GPU, each with its destination.
LEMMA WiredDests ==
  ASSUME NEW in \in Inputs, Wired(in), NEW i \in Gpus(in)
  PROVE  LET ed == EngineDests(in, i)
             m == NodeCount(in) - 1
         IN  /\ DOMAIN ed = 1 .. m /\ Len(ed) = m
             /\ \A n \in 1 .. m : ed[n].dests = <<BcstDest(in, i, n)>>
<1> DEFINE m == NodeCount(in) - 1
           S == EnginesOf(in, i)
           engines == Ascending[S]
           ed == EngineDests(in, i)
<1>1. m \in Nat /\ S \in SUBSET Nat /\ IsFiniteSet(S) /\ Cardinality(S) = m
  BY WiredEngines, GpuNumbers
<1>2. ed = [n \in DOMAIN engines |-> Command(engines[n], <<LeadsTo(in, i, engines[n])>>)]
  BY DEF EngineDests, LeadsTo
<1>3. \A n : BcstDest(in, i, n) = LeadsTo(in, i, engines[n])
  BY DEF BcstDest
<1> HIDE DEF m, S, ed
<1>4. DOMAIN engines = 1 .. m
  BY <1>1, AscendingMembers, LenProperties
<1> HIDE DEF engines
<1>5. DOMAIN ed = 1 .. m /\ \A n \in 1 .. m : ed[n].dests = <<BcstDest(in, i, n)>>
  BY <1>2, <1>3, <1>4 DEF Command
<1>6. Len(ed) = m
  <2> DEFINE T == {ed[n] : n \in 1 .. m}
  <2>1. ed \in [1 .. m -> T]
    BY <1>2, <1>4
  <2> HIDE DEF T
  <2> QED
    BY <1>1, <2>1, FunctionIsSequence
<1> QED
  BY <1>5, <1>6 DEF ed, m

\* Broadcast's list.
LEMMA BcstPairsUp ==
  ASSUME NEW in \in Inputs, Wired(in), NodeCount(in) > 1, NEW i \in Gpus(in)
  PROVE  PairsUp(in, i, AllgatherBcstCmds(in, i))
<1> DEFINE m == NodeCount(in) - 1
           ed == EngineDests(in, i)
           D(n) == BcstDest(in, i, n)
           h == (m - 1) \div 2
           mid == [p \in 1 .. h |-> Command(ed[2 * p + 1].engine_id, ed[2 * p].dests \o ed[2 * p + 1].dests)]
           last == IF m % 2 = 0 THEN <<ed[m]>> ELSE <<>>
           list == AllgatherBcstCmds(in, i)
<1>1. m \in Nat \ {0}
  BY GpuNumbers
<1>2. /\ DOMAIN ed = 1 .. m /\ Len(ed) = m
      /\ \A n \in 1 .. m : ed[n].dests = <<D(n)>>
  BY WiredDests
<1>3. list = <<ed[1]>> \o mid \o last
  BY <1>2 DEF AllgatherBcstCmds
<1> HIDE DEF m, D, ed, list
<1>4. h \in Nat /\ (m = 2 * h + 1 \/ m = 2 * h + 2)
      /\ (m % 2 = 0 <=> m = 2 * h + 2)
      /\ Row(m) = IF m = 2 * h + 1 THEN h + 1 ELSE h + 2
  BY <1>1 DEF Row
<1>5. \A p \in 1 .. h : mid[p].dests = <<D(2 * p), D(2 * p + 1)>>
  <2> SUFFICES ASSUME NEW p \in 1 .. h PROVE mid[p].dests = <<D(2 * p), D(2 * p + 1)>>
    OBVIOUS
  <2>1. 2 * p \in 1 .. m /\ 2 * p + 1 \in 1 .. m
    BY <1>1, <1>4
  <2>2. mid[p].dests = ed[2 * p].dests \o ed[2 * p + 1].dests
    BY DEF Command
  <2>3. ed[2 * p].dests = <<D(2 * p)>> /\ ed[2 * p + 1].dests = <<D(2 * p + 1)>>
    BY <1>2, <2>1
  <2> DEFINE x == D(2 * p)
             y == D(2 * p + 1)
  <2> HIDE DEF x, y
  <2>4. <<x>> \o <<y>> = <<x, y>>
    <3> DEFINE S == {x, y}
               t == <<x>> \o <<y>>
    <3>1. <<x>> \in Seq(S) /\ <<y>> \in Seq(S) /\ Len(<<x>>) = 1 /\ Len(<<y>>) = 1
      OBVIOUS
    <3>2. /\ t \in Seq(S) /\ Len(t) = 1 + 1
          /\ \A k \in 1 .. 1 + 1 : t[k] = IF k <= 1 THEN <<x>>[k] ELSE <<y>>[k - 1]
      BY <3>1, ConcatProperties
    <3> HIDE DEF t
    <3>3. t[1] = x /\ t[2] = y /\ Len(t) = 2
      BY <3>2
    <3>4. <<x, y>> \in Seq(S) /\ Len(<<x, y>>) = 2 /\ <<x, y>>[1] = x /\ <<x, y>>[2] = y
      OBVIOUS
    <3> DEFINE u == <<x, y>>
    <3> HIDE DEF u, S
    <3>5. \A k \in 1 .. Len(t) : t[k] = u[k]
      BY <3>3, <3>4 DEF u
    <3>6. t = u
      BY <3>2, <3>3, <3>4, <3>5, SeqEqual DEF u
    <3> QED
      BY <3>6 DEF t, u
  <2> QED
    BY <2>2, <2>3, <2>4 DEF x, y
\* The parts put together.
<1>6. /\ Len(list) = Row(m) /\ DOMAIN list = 1 .. Row(m)
      /\ list[1].dests = <<D(1)>>
      /\ \A p \in 1 .. h : list[p + 1].dests = <<D(2 * p), D(2 * p + 1)>>
      /\ m = 2 * h + 2 => list[h + 2].dests = <<D(m)>>
  <2> DEFINE C == {ed[n] : n \in 1 .. m} \cup {mid[p] : p \in 1 .. h}
             fore == <<ed[1]>> \o mid
  <2>1. mid \in Seq(C) /\ Len(mid) = h
    <3>1. mid \in [1 .. h -> C]
      OBVIOUS
    <3> HIDE DEF mid, h, C
    <3> QED
      BY <1>4, <3>1, FunctionIsSequence
  <2>2. <<ed[1]>> \in Seq(C) /\ Len(<<ed[1]>>) = 1 /\ <<ed[1]>>[1] = ed[1]
    <3>1. ed[1] \in C
      BY <1>1
    <3> HIDE DEF C
    <3> QED
      BY <3>1
  <2>3. last \in Seq(C) /\ Len(last) = (IF m = 2 * h + 2 THEN 1 ELSE 0)
        /\ (m = 2 * h + 2 => last[1] = ed[m])
    <3>1. ed[m] \in C
      BY <1>1
    <3>2. last = IF m = 2 * h + 2 THEN <<ed[m]>> ELSE <<>>
      BY <1>4
    <3> HIDE DEF C, last
    <3> QED
      BY <3>1, <3>2
  <2> HIDE DEF C, mid, last, h
  <2>4. /\ fore \in Seq(C) /\ Len(fore) = h + 1
        /\ fore[1] = ed[1]
        /\ \A p \in 1 .. h : fore[p + 1] = mid[p]
    <3>1. /\ fore \in Seq(C) /\ Len(fore) = 1 + h
          /\ \A k \in 1 .. 1 + h : fore[k] = IF k <= 1 THEN <<ed[1]>>[k] ELSE mid[k - 1]
      BY <2>1, <2>2, ConcatProperties
    <3> HIDE DEF fore
    <3>2. 1 \in 1 .. 1 + h /\ \A p \in 1 .. h : p + 1 \in 1 .. 1 + h /\ ~ (p + 1 <= 1) /\ (p + 1) - 1 = p
      BY <1>4
    <3> QED
      BY <1>4, <2>2, <3>1, <3>2
  <2> DEFINE tail == IF m = 2 * h + 2 THEN 1 ELSE 0
  <2>5. list = fore \o last
    BY <1>3
  <2> HIDE DEF fore
  <2>6. /\ list \in Seq(C) /\ Len(list) = (h + 1) + tail
        /\ \A k \in 1 .. (h + 1) + tail : list[k] = IF k <= h + 1 THEN fore[k] ELSE last[k - (h + 1)]
    <3>1. fore \in Seq(C) /\ last \in Seq(C) /\ Len(fore) = h + 1 /\ Len(last) = tail
      BY <2>3, <2>4
    <3> HIDE DEF tail
    <3>2. /\ fore \o last \in Seq(C) /\ Len(fore \o last) = Len(fore) + Len(last)
          /\ \A k \in 1 .. Len(fore) + Len(last) :
               (fore \o last)[k] = IF k <= Len(fore) THEN fore[k] ELSE last[k - Len(fore)]
      BY <3>1, ConcatProperties
    <3> QED
      BY <2>5, <3>1, <3>2
  <2>7. (h + 1) + tail = Row(m)
    BY <1>4
  <2>8. Len(list) = Row(m) /\ DOMAIN list = 1 .. Row(m)
    BY <2>6, <2>7, LenProperties
  <2>9. list[1] = ed[1] /\ \A p \in 1 .. h : list[p + 1] = mid[p]
    <3>1. 1 \in 1 .. (h + 1) + tail /\ 1 <= h + 1
      BY <1>4
    <3>2. \A p \in 1 .. h : p + 1 \in 1 .. (h + 1) + tail /\ p + 1 <= h + 1
      BY <1>4
    <3> HIDE DEF tail
    <3> QED
      BY <2>4, <2>6, <3>1, <3>2
  <2>10. ASSUME m = 2 * h + 2 PROVE list[h + 2] = ed[m]
    <3>1. h + 2 \in 1 .. (h + 1) + tail /\ ~ (h + 2 <= h + 1) /\ (h + 2) - (h + 1) = 1
      BY <1>4, <2>10
    <3> HIDE DEF tail
    <3> QED
      BY <2>3, <2>6, <2>10, <3>1
  <2>11. 1 \in 1 .. m /\ m \in 1 .. m
    BY <1>1
  <2> QED
    BY <1>2, <1>5, <2>8, <2>9, <2>10, <2>11
<1> HIDE DEF mid, last, h
<1>7. \A n \in 1 .. m :
        /\ Col(n) \in DOMAIN list[Row(n)].dests
        /\ list[Row(n)].dests[Col(n)] = D(n)
  <2> SUFFICES ASSUME NEW n \in 1 .. m
               PROVE  Col(n) \in DOMAIN list[Row(n)].dests /\ list[Row(n)].dests[Col(n)] = D(n)
    OBVIOUS
  <2>1. CASE n = 1
    BY <1>6, <2>1 DEF Row, Col
  <2>2. CASE n # 1 /\ n % 2 = 0 /\ n \div 2 <= h
    <3> DEFINE p == n \div 2
    <3>1. p \in 1 .. h /\ n = 2 * p /\ Row(n) = p + 1 /\ Col(n) = 1
      BY <1>1, <1>4, <2>2 DEF Row, Col
    <3> HIDE DEF p
    <3>2. list[p + 1].dests = <<D(2 * p), D(2 * p + 1)>>
      BY <1>6, <3>1
    <3> QED
      BY <3>1, <3>2
  <2>3. CASE n # 1 /\ n % 2 = 0 /\ n \div 2 > h
    <3>1. n = m /\ m = 2 * h + 2 /\ Row(n) = h + 2 /\ Col(n) = 1
      BY <1>1, <1>4, <2>3 DEF Row, Col
    <3> QED
      BY <1>6, <3>1
  <2>4. CASE n # 1 /\ n % 2 = 1
    <3> DEFINE p == n \div 2
    <3>1. p \in 1 .. h /\ n = 2 * p + 1 /\ Row(n) = p + 1 /\ Col(n) = 2
      BY <1>1, <1>4, <2>4 DEF Row, Col
    <3> HIDE DEF p
    <3>2. list[p + 1].dests = <<D(2 * p), D(2 * p + 1)>>
      BY <1>6, <3>1
    <3> QED
      BY <3>1, <3>2
  <2>5. n % 2 = 0 \/ n % 2 = 1
    OBVIOUS
  <2>6. n \div 2 \in Int
    OBVIOUS
  <2> QED
    BY <1>4, <2>1, <2>2, <2>3, <2>4, <2>5, <2>6
<1>8. ASSUME NEW r \in 1 .. Row(m)
      PROVE  /\ Len(list[r].dests) \in Nat /\ DOMAIN list[r].dests = 1 .. Len(list[r].dests)
             /\ \A k \in DOMAIN list[r].dests : \E n \in 1 .. m : r = Row(n) /\ k = Col(n)
  <2>1. CASE r = 1
    <3>0. list[r].dests = <<D(1)>>
      BY <1>6, <2>1
    <3>1. DOMAIN list[r].dests = {1} /\ Len(list[r].dests) = 1 /\ 1 .. 1 = {1}
      BY <3>0
    <3>2. 1 \in 1 .. m /\ Row(1) = 1 /\ Col(1) = 1
      BY <1>1 DEF Row, Col
    <3> QED
      BY <2>1, <3>1, <3>2
  <2>2. CASE r # 1 /\ r <= h + 1
    <3> DEFINE p == r - 1
    <3>1. p \in 1 .. h /\ r = p + 1
      BY <1>4, <2>2
    <3> HIDE DEF p
    <3>0. list[r].dests = <<D(2 * p), D(2 * p + 1)>>
      BY <1>6, <3>1
    <3>2. DOMAIN list[r].dests = {1, 2} /\ Len(list[r].dests) = 2 /\ 1 .. 2 = {1, 2}
      BY <3>0
    <3>3. /\ 2 * p \in 1 .. m /\ Row(2 * p) = r /\ Col(2 * p) = 1
          /\ 2 * p + 1 \in 1 .. m /\ Row(2 * p + 1) = r /\ Col(2 * p + 1) = 2
      BY <1>1, <1>4, <3>1 DEF Row, Col
    <3> QED
      BY <3>2, <3>3
  <2>3. CASE r > h + 1
    <3>1. r = h + 2 /\ m = 2 * h + 2
      BY <1>4, <2>3
    <3>0. list[r].dests = <<D(m)>>
      BY <1>6, <3>1
    <3>2. DOMAIN list[r].dests = {1} /\ Len(list[r].dests) = 1 /\ 1 .. 1 = {1}
      BY <3>0
    <3>3. m \in 1 .. m /\ Row(m) = r /\ Col(m) = 1
      BY <1>1, <1>4, <3>1 DEF Row, Col
    <3> QED
      BY <3>2, <3>3
  <2> QED
    BY <1>4, <2>1, <2>2, <2>3
<1> QED
  BY <1>6, <1>7, <1>8 DEF PairsUp, list, m, D

\* A place in the list is that of one destination only.
LEMMA OnePlace ==
  ASSUME NEW n \in Nat \ {0}, NEW l \in Nat \ {0}, Row(n) = Row(l), Col(n) = Col(l)
  PROVE  n = l
<1>1. (n % 2 = 0 /\ n = 2 * (n \div 2)) \/ (n % 2 = 1 /\ n = 2 * (n \div 2) + 1)
  OBVIOUS
<1>2. (l % 2 = 0 /\ l = 2 * (l \div 2)) \/ (l % 2 = 1 /\ l = 2 * (l \div 2) + 1)
  OBVIOUS
<1>3. n \div 2 \in Int /\ l \div 2 \in Int
  OBVIOUS
<1> DEFINE p == n \div 2
           q == l \div 2
<1>4. p = q
  BY <1>3 DEF Row
\* Within a command, the even place is the first.
<1>5. n = 1 \/ Col(n) = (n % 2) + 1
  BY DEF Col
<1>6. l = 1 \/ Col(l) = (l % 2) + 1
  BY DEF Col
<1>7. (n = 1 => Col(n) = 1) /\ (l = 1 => Col(l) = 1)
  BY DEF Col
<1> HIDE DEF p, q
<1>8. (n % 2 = 0 \/ n % 2 = 1) /\ (l % 2 = 0 \/ l % 2 = 1)
  BY <1>1, <1>2
<1>9. (n % 2 = 0 /\ n = 2 * p) \/ (n % 2 = 1 /\ n = 2 * p + 1)
  BY <1>1 DEF p
<1>10. (l % 2 = 0 /\ l = 2 * p) \/ (l % 2 = 1 /\ l = 2 * p + 1)
  BY <1>2, <1>4 DEF q
<1>11. p \in Int
  BY <1>3 DEF p
<1>12. CASE n = 1 \/ l = 1
  BY <1>5, <1>6, <1>7, <1>9, <1>10, <1>11, <1>12
<1>13. CASE n # 1 /\ l # 1
  BY <1>5, <1>6, <1>9, <1>10, <1>13
<1> QED
  BY <1>12, <1>13

\* Broadcast serves every other GPU once.
Broadcasts(in, i, j, list) ==
    in \in Inputs /\ Wired(in) /\ i \in Gpus(in) /\ j \in Gpus(in) /\ PairsUp(in, i, list)

LEMMA BcstServes ==
  ASSUME NEW in, NEW i, NEW j, NEW list, Broadcasts(in, i, j, list)
  PROVE  Cardinality(Serving(list, j)) = IF i = j THEN 0 ELSE 1
<1>0. in \in Inputs /\ Wired(in) /\ i \in Gpus(in) /\ j \in Gpus(in) /\ PairsUp(in, i, list)
  BY DEF Broadcasts
<1> DEFINE m == NodeCount(in) - 1
           d(n) == BcstDest(in, i, n)
           S == Serving(list, j)
           P == i # j
<1>1. m \in Nat
  BY <1>0, GpuNumbers
<1>2. /\ \A n \in 1 .. m : d(n) \in Gpus(in) \ {i}
      /\ \A k \in Gpus(in) \ {i} : \E n \in 1 .. m : d(n) = k
      /\ \A n, l \in 1 .. m : d(n) = d(l) => n = l
  BY <1>0, BcstDests
<1>3. /\ DOMAIN list = 1 .. Row(m)
      /\ \A n \in 1 .. m : Col(n) \in DOMAIN list[Row(n)].dests /\ list[Row(n)].dests[Col(n)] = d(n)
      /\ \A r \in 1 .. Row(m) : \A k \in DOMAIN list[r].dests : \E n \in 1 .. m : r = Row(n) /\ k = Col(n)
  BY <1>0 DEF PairsUp
<1>4. \A n \in 1 .. m : Row(n) \in 1 .. Row(m)
  BY <1>1 DEF Row
<1> HIDE DEF m, d
<1>5. ASSUME NEW x \in S PROVE \E n \in 1 .. m : x = <<Row(n), Col(n)>> /\ d(n) = j
  <2>1. PICK r \in DOMAIN list : x \in {r} \X DOMAIN list[r].dests
    BY DEF Serving
  <2>2. x = <<r, x[2]>> /\ x[2] \in DOMAIN list[r].dests /\ list[x[1]].dests[x[2]] = j
    BY <2>1 DEF Serving
  <2>3. PICK n \in 1 .. m : r = Row(n) /\ x[2] = Col(n)
    BY <1>3, <2>2
  <2>4. d(n) = j
    BY <1>3, <2>2, <2>3
  <2> QED
    BY <2>2, <2>3, <2>4
<1>6. ASSUME NEW n \in 1 .. m, d(n) = j PROVE <<Row(n), Col(n)>> \in S
  <2>1. /\ Row(n) \in DOMAIN list /\ Col(n) \in DOMAIN list[Row(n)].dests
        /\ list[Row(n)].dests[Col(n)] = j
    BY <1>3, <1>4, <1>6
  <2>2. <<Row(n), Col(n)>> \in {Row(n)} \X DOMAIN list[Row(n)].dests
    BY <2>1
  <2> QED
    BY <2>1, <2>2 DEF Serving
<1> HIDE DEF S
<1>7. P => \E x \in S : \A y \in S : y = x
  <2> SUFFICES ASSUME i # j PROVE \E x \in S : \A y \in S : y = x
    OBVIOUS
  <2>1. PICK n \in 1 .. m : d(n) = j
    BY <1>0, <1>2
  <2>2. \A y \in S : y = <<Row(n), Col(n)>>
    BY <1>2, <1>5, <2>1
  <2> QED
    BY <1>6, <2>1, <2>2
<1>8. ~P => S = {}
  BY <1>0, <1>2, <1>5
<1>9. P \in BOOLEAN
  OBVIOUS
<1> HIDE DEF P
<1>10. Cardinality(S) = IF P THEN 1 ELSE 0
  BY <1>7, <1>8, <1>9, OneOrNone
<1> QED
  BY <1>10 DEF S, P

\* Each of its commands has a destination.
LEMMA BcstShaped ==
  ASSUME NEW in, NEW i, NEW list, Broadcasts(in, i, i, list), NodeCount(in) > 1
  PROVE  Shaped(list, Gpus(in))
<1>0. in \in Inputs /\ Wired(in) /\ i \in Gpus(in) /\ PairsUp(in, i, list)
  BY DEF Broadcasts
<1> DEFINE m == NodeCount(in) - 1
<1>1. m \in Nat \ {0}
  BY <1>0, GpuNumbers
<1>2. /\ DOMAIN list = 1 .. Row(m) /\ Len(list) = Row(m)
      /\ \A r \in 1 .. Row(m) : /\ Len(list[r].dests) \in Nat
                                /\ DOMAIN list[r].dests = 1 .. Len(list[r].dests)
      /\ \A n \in 1 .. m : /\ Col(n) \in DOMAIN list[Row(n)].dests
                           /\ list[Row(n)].dests[Col(n)] \in Gpus(in)
      /\ \A r \in 1 .. Row(m) : \A k \in DOMAIN list[r].dests :
           \E n \in 1 .. m : r = Row(n) /\ k = Col(n)
  BY <1>0, BcstDests DEF PairsUp
<1> HIDE DEF m
<1>3. Row(m) \in Nat
  BY <1>1 DEF Row
<1>4. ASSUME NEW r \in 1 .. Row(m) PROVE \E n \in 1 .. m : Row(n) = r
  <2> DEFINE n == IF r = 1 THEN 1 ELSE 2 * (r - 1)
  <2>1. r <= (m \div 2) + 1 /\ 2 * (m \div 2) <= m
    BY <1>1, <1>3 DEF Row
  <2>2. n \in 1 .. m /\ n \div 2 = r - 1
    BY <1>1, <1>3, <1>4, <2>1
  <2> QED
    BY <1>3, <2>2 DEF Row
<1>5. ASSUME NEW r \in 1 .. Row(m) PROVE HasDests(list[r], Gpus(in))
  <2>1. PICK n \in 1 .. m : Row(n) = r
    BY <1>4
  <2> DEFINE len == Len(list[r].dests)
  <2>2. len \in Nat /\ DOMAIN list[r].dests = 1 .. len /\ Col(n) \in 1 .. len
    BY <1>2, <2>1
  <2> HIDE DEF len
  <2>3. len \in Nat \ {0}
    BY <2>2
  <2>4. \A k \in DOMAIN list[r].dests : list[r].dests[k] \in Gpus(in)
    BY <1>2
  <2> QED
    BY <2>2, <2>3, <2>4 DEF HasDests, len
<1> QED
  BY <1>2, <1>3, <1>5 DEF Shaped

\* All destinations of all lists of a broadcast: every ordered pair of GPUs.
Destinations(in, lists) ==
    UNION {{x} \X (1 .. Len(lists[x[1]][x[2]].dests)) : x \in Cells(NodeCount(in), [i \in Gpus(in) |-> Len(lists[i])])}

LEMMA BcstCount ==
  ASSUME NEW in \in Inputs, NEW lists, \A i \in Gpus(in) : PairsUp(in, i, lists[i])
  PROVE  Cardinality(Destinations(in, lists)) = NodeCount(in) * (NodeCount(in) - 1)
<1> DEFINE c == NodeCount(in)
           m == c - 1
           len == [i \in Gpus(in) |-> Len(lists[i])]
           W == Destinations(in, lists)
           A == (0 .. c - 1) \X (1 .. m)
           f == [y \in A |-> <<<<y[1], Row(y[2])>>, Col(y[2])>>]
<1>1. c \in Nat \ {0} /\ m \in Nat /\ Gpus(in) = 0 .. c - 1
  BY GpuNumbers DEF Gpus
<1>2. \A i \in 0 .. c - 1 :
        /\ Len(lists[i]) = Row(m)
        /\ \A r \in 1 .. Row(m) : DOMAIN lists[i][r].dests = 1 .. Len(lists[i][r].dests)
        /\ \A n \in 1 .. m : Col(n) \in DOMAIN lists[i][Row(n)].dests
        /\ \A r \in 1 .. Row(m) : \A k \in DOMAIN lists[i][r].dests :
             \E n \in 1 .. m : r = Row(n) /\ k = Col(n)
  BY <1>1 DEF PairsUp
<1>3. Row(m) <= c /\ Row(m) \in Nat /\ \A n \in 1 .. m : Row(n) \in 1 .. Row(m)
  BY <1>1 DEF Row
<1>4. W = UNION {{x} \X (1 .. Len(lists[x[1]][x[2]].dests)) : x \in Cells(c, len)}
  BY DEF Destinations
<1>5. \A x : x \in Cells(c, len) <=> x \in (0 .. c - 1) \X (1 .. Row(m))
  BY <1>1, <1>2, <1>3 DEF Cells
<1> HIDE DEF c, m, len, W
<1>6. \A y \in A : f[y] \in W
  <2> SUFFICES ASSUME NEW i \in 0 .. c - 1, NEW n \in 1 .. m PROVE <<<<i, Row(n)>>, Col(n)>> \in W
    OBVIOUS
  <2> DEFINE x == <<i, Row(n)>>
  <2>1. x \in Cells(c, len)
    BY <1>3, <1>5
  <2>2. Col(n) \in 1 .. Len(lists[x[1]][x[2]].dests)
    BY <1>2, <1>3
  <2> HIDE DEF x
  <2>3. <<x, Col(n)>> \in {x} \X (1 .. Len(lists[x[1]][x[2]].dests))
    BY <2>2
  <2> QED
    BY <1>4, <2>1, <2>3 DEF x
<1>7. \A w \in W : \E y \in A : f[y] = w
  <2> SUFFICES ASSUME NEW w \in W PROVE \E y \in A : f[y] = w
    OBVIOUS
  <2>1. PICK x \in Cells(c, len) : w \in {x} \X (1 .. Len(lists[x[1]][x[2]].dests))
    BY <1>4
  <2>2. x \in (0 .. c - 1) \X (1 .. Row(m))
    BY <1>5, <2>1
  <2>3. w = <<x, w[2]>> /\ w[2] \in 1 .. Len(lists[x[1]][x[2]].dests)
    BY <2>1
  <2>4. x = <<x[1], x[2]>> /\ x[1] \in 0 .. c - 1 /\ x[2] \in 1 .. Row(m)
    BY <2>2
  <2> DEFINE i == x[1]
             r == x[2]
  <2>a. w[2] \in DOMAIN lists[i][r].dests
    BY <1>2, <2>3, <2>4
  <2>b. \A k \in DOMAIN lists[i][r].dests : \E n \in 1 .. m : r = Row(n) /\ k = Col(n)
    BY <1>2, <2>4
  <2>5. PICK n \in 1 .. m : x[2] = Row(n) /\ w[2] = Col(n)
    BY <2>a, <2>b
  <2>6. <<x[1], n>> \in A /\ f[<<x[1], n>>] = <<<<x[1], Row(n)>>, Col(n)>>
    BY <2>4
  <2>7. <<<<x[1], Row(n)>>, Col(n)>> = w
    BY <2>3, <2>4, <2>5
  <2> QED
    BY <2>6, <2>7
<1>8. ASSUME NEW y \in A, NEW z \in A, f[y] = f[z] PROVE y = z
  <2>1. /\ y = <<y[1], y[2]>> /\ z = <<z[1], z[2]>>
        /\ y[2] \in Nat \ {0} /\ z[2] \in Nat \ {0}
    BY <1>1
  <2>2. y[1] = z[1] /\ Row(y[2]) = Row(z[2]) /\ Col(y[2]) = Col(z[2])
    BY <1>8
  <2>3. y[2] = z[2]
    BY <2>1, <2>2, OnePlace
  <2> QED
    BY <2>1, <2>2, <2>3
<1>9. ExistsBijection(A, W)
  <2>1. f \in [A -> W]
    BY <1>6
  <2>2. \A y, z \in A : f[y] = f[z] => y = z
    BY <1>8
  <2> HIDE DEF f, A
  <2>3. f \in Injection(A, W)
    BY <2>1, <2>2 DEF Injection, IsInjective
  <2>4. f \in Surjection(A, W)
    BY <1>7, <2>1 DEF Surjection
  <2> QED
    BY <2>3, <2>4 DEF ExistsBijection, Bijection
<1>10. IsFiniteSet(A) /\ Cardinality(A) = c * m
  <2> DEFINE e == c - 1
  <2>1. e \in Int /\ e - 0 + 1 = c /\ ~ (0 > e)
    BY <1>1
  <2> HIDE DEF e
  <2>2. IsFiniteSet(0 .. e) /\ Cardinality(0 .. e) = c
    BY <2>1, FS_Interval
  <2>3. IsFiniteSet(1 .. m) /\ Cardinality(1 .. m) = m
    <3>1. IsFiniteSet(1 .. m) /\ Cardinality(1 .. m) = IF 1 > m THEN 0 ELSE m - 1 + 1
      BY <1>1, FS_Interval
    <3>2. (1 > m => m = 0) /\ m - 1 + 1 = m
      BY <1>1
    <3> QED
      BY <3>1, <3>2
  <2>4. IsFiniteSet((0 .. e) \X (1 .. m)) /\ Cardinality((0 .. e) \X (1 .. m)) = c * m
    BY <2>2, <2>3, FS_Product
  <2> QED
    BY <2>4 DEF e
<1> HIDE DEF A
<1>11. Cardinality(W) = c * m
  BY <1>9, <1>10, FS_Bijection
<1> QED
  BY <1>11 DEF W, c, m

=============================================================================
