-------------------------- MODULE P2pLatency_proofs --------------------------
(***************************************************************************)
(* For any number of iterations and sizes: the benchmark reads back what   *)
(* it copied, times what it means to time, and frees nothing in use.       *)
(*                                                                         *)
(* The argument.  At most one batch is under way on each queue, and its    *)
(* last packet but a timestamp clears the signal the CPU waits for.  While *)
(* the signal is set nothing has been taken for granted; once it is clear, *)
(* its packet has been executed, hence all packets before it (Queued).     *)
(* DataInv, StampInv and GateInv say what each packet under way is there   *)
(* for: it is either still in its queue or has had its effect.             *)
(***************************************************************************)
EXTENDS P2pLatency, QueueFacts

-----------------------------------------------------------------------------
(* The inductive invariant.                                                *)

\* How the position of the CPU thread and the pass go together.
Control ==
    /\ allocated <=> pc \notin {"allocate", "end"}
    /\ pc # "end" => size < NumSizes
    /\ pc # "exited"
    /\ pc \in {"fill_src", "fill_dest", "fill_wait"} => pass = "fill"
    /\ pass = "fill" => pc \in {"allocate", "fill_src", "fill_dest", "fill_wait", "end"}
    /\ pc = "allocate" => pass \in {"cal_fill", "fill"}
    /\ pc \in {"release", "check", "check_wait"} => pass \in Measuring
    /\ pc = "release" => prelaunch
    /\ pc = "read" => pass # "cal_fill"
    /\ pc = "free" => pass \in {"cal_copy", "gpu"}
    /\ pass \in {"cal_fill", "cal_copy"} => iter = 0

\* The packet that ends what is under way on a queue, apart from a timestamp.
Completion(q) ==
    CASE q = "src" /\ pass = "fill" -> Sync(NumIter - 1, 2)
      [] q = "src" /\ pass # "fill" -> Sync(iter, 0)
      [] q = "dest"                 -> Sync(NumIter - 1, 3)
      [] q = "check"                -> Sync(iter, CheckSlot(pass))

\* What may be under way on a queue, and when it is.
TimedCopy == Copy(<<"src", iter>>, <<"dest", iter>>)
Readback  == Copy(<<"dest", iter>>, Sys)
Work(q) ==
    CASE q = "src" /\ pass = "fill" -> {Fill(<<q, it>>, it) : it \in Iters}
      [] q = "src" /\ pass # "fill" -> {Fill(<<q, 0>>, 0), TimedCopy, Poll(iter)}
      [] q = "dest"                 -> {Fill(<<q, it>>, 0) : it \in Iters}
      [] q = "check"                -> {Readback}
Placed(q) ==
    pc \in CASE q = "src"   -> {"fill_dest", "fill_wait", "release", "wait"}
             [] q = "dest"  -> {"fill_wait"}
             [] q = "check" -> {"check_wait"}

\* Only the batch and timestamps wait on a queue; the batch's packets come
\* before its completion, and the signal is set as long as that one waits.
QueuedOn(q) ==
    /\ \A p \in Packet :
         Has(queue[q], p) => \/ p.op = "time"
                             \/ Placed(q) /\ p \in Work(q) \cup {Completion(q)}
    /\ \A p \in Work(q) : Followed(queue[q], p, Completion(q))
    /\ Once(queue[q], Completion(q))
    /\ Has(queue[q], Completion(q)) => signal[Completion(q).it][Completion(q).s] = 1
Queued == \A q \in Queues : QueuedOn(q)

\* Signals are set before the packet that clears them is placed.
ArmedInv ==
    /\ pc = "fill_src" => signal[NumIter - 1][2] = 1
    /\ pc \in {"fill_src", "fill_dest"} => signal[NumIter - 1][3] = 1
    /\ pc \in {"release", "wait", "check"} /\ pass \in Measuring
         => signal[iter][CheckSlot(pass)] = 1
    /\ pc = "release" => signal[iter][4] = 1

\* A fill, the copy and the readback are under way or have been done.
DataInv ==
    /\ pc \in {"fill_dest", "fill_wait"}
         => \A it \in Iters : \/ buf[<<"src", it>>] = it
                              \/ Has(queue["src"], Fill(<<"src", it>>, it))
    /\ allocated /\ pass \in {"ts", "cpu", "gpu"}
         => \A it \in Iters : buf[<<"src", it>>] = it
    /\ pc \in {"release", "wait"} /\ pass \in Measuring
         => buf[<<"dest", iter>>] = iter \/ Has(queue["src"], TimedCopy)
    /\ pc \in {"check", "check_wait"} => buf[<<"dest", iter>>] = iter
    /\ pc = "check_wait" => buf[Sys] = iter \/ Has(queue["check"], Readback)

\* The timestamps read, the last one of the "gpu" pass apart, have been
\* written or come before the completion.
Needed == 1 .. LastStamp(pass) - (IF pass = "gpu" THEN 1 ELSE 0)
StampInv ==
    /\ pc \in {"release", "wait"}
         => \A k \in Needed :
              \/ <<pass, iter, k>> \in stamps
              \/ /\ Has(queue["src"], Time(pass, iter, k))
                 /\ Followed(queue["src"], Time(pass, iter, k), Sync(iter, 0))
    /\ pc \in {"check", "check_wait", "read"} => \A k \in Needed : <<pass, iter, k>> \in stamps

\* The poll stands in front of the copy until the release.
GateInv ==
    pc = "release" => /\ Has(queue["src"], Poll(iter))
                      /\ Followed(queue["src"], Poll(iter), TimedCopy)

P2pInv == TypeOK /\ Control /\ Queued /\ ArmedInv /\ DataInv /\ StampInv /\ GateInv

-----------------------------------------------------------------------------
(* The batches.                                                            *)

\* Packets differ by what they do, and by where they do it.
LEMMA PacketTypes ==
  ASSUME pass \in Passes, iter \in Iters
  PROVE  /\ \A q \in {"src", "dest"}, it \in Iters, v \in Iters :
              Fill(<<q, it>>, v) \in Packet /\ Fill(<<q, it>>, v).op = "fill"
         /\ TimedCopy \in Packet /\ TimedCopy.op = "copy"
         /\ Readback \in Packet /\ Readback.op = "copy"
         /\ \A it \in Iters, s \in Signals : /\ Sync(it, s) \in Packet
                                             /\ Sync(it, s).op = "atomic"
                                             /\ Sync(it, s).it = it /\ Sync(it, s).s = s
         /\ \A it \in Iters : Poll(it) \in Packet /\ Poll(it).op = "poll"
         /\ \A p \in Passes, it \in Iters, k \in 1 .. 4 :
              Time(p, it, k) \in Packet /\ Time(p, it, k).op = "time"
BY P2pAssumption DEF Packet, Fill, Copy, Sync, Poll, Time, TimedCopy, Readback, Buffers, Signals, Stamp, Sys

\* The fills of a GPU, then their signal.
LEMMA FillBatch ==
  ASSUME pass = "fill", NEW q \in {"src", "dest"}
  PROVE  LET d == FillPackets(q) IN
         /\ d \in Seq(Packet)
         /\ \A p : Has(d, p) => p \in Work(q) \cup {Completion(q)}
         /\ \A p \in Work(q) : Followed(d, p, Completion(q))
         /\ Once(d, Completion(q)) /\ Has(d, Completion(q))
         /\ \A p \in Work(q) : Has(d, p)
<1> DEFINE f == [k \in 1 .. NumIter |-> Fill(<<q, k - 1>>, IF q = "src" THEN k - 1 ELSE 0)]
           z == Completion(q)
<1>1. NumIter \in Nat \ {0} /\ NumIter - 1 \in Iters /\ 0 \in Iters
  BY P2pAssumption DEF Iters
<1>2. z = Sync(NumIter - 1, IF q = "src" THEN 2 ELSE 3)
  BY DEF Completion
<1>3. z \in Packet /\ z.op = "atomic"
  BY <1>1, <1>2, PacketTypes DEF Packet, Sync, Signals
<1>4. f \in Seq(Packet) /\ Len(f) = NumIter /\ \A k \in 1 .. NumIter : f[k].op = "fill"
  <2>1. \A k \in 1 .. NumIter : k - 1 \in Iters
    BY <1>1 DEF Iters
  <2>2. \A k \in 1 .. NumIter : f[k] \in Packet /\ f[k].op = "fill"
    BY <1>1, <2>1 DEF Fill, Packet, Buffers
  <2> QED
    BY <1>1, <2>2
<1>5. \A p : Has(f, p) <=> p \in Work(q)
  <2>1. Work(q) = {Fill(<<q, it>>, IF q = "src" THEN it ELSE 0) : it \in Iters}
    BY DEF Work
  <2>2. ASSUME NEW p, Has(f, p) PROVE p \in Work(q)
    <3>1. PICK k \in 1 .. NumIter : f[k] = p
      BY <1>4, <2>2 DEF Has
    <3>2. k - 1 \in Iters
      BY <1>1 DEF Iters
    <3> QED
      BY <2>1, <3>1, <3>2
  <2>3. ASSUME NEW it \in Iters PROVE Has(f, Fill(<<q, it>>, IF q = "src" THEN it ELSE 0))
    <3>1. it + 1 \in 1 .. NumIter /\ (it + 1) - 1 = it
      BY <1>1 DEF Iters
    <3>2. f[it + 1] = Fill(<<q, it>>, IF q = "src" THEN it ELSE 0)
      BY <3>1
    <3> QED
      BY <1>4, <3>1, <3>2 DEF Has
  <2> QED
    BY <2>1, <2>2, <2>3
<1>6. ~Has(f, z) /\ \A p \in Work(q) : p # z
  <2>1. ~Has(f, z)
    BY <1>3, <1>4 DEF Has
  <2> QED
    BY <1>5, <2>1
<1>7. FillPackets(q) = f \o <<z>>
  <2>1. [src |-> 2, dest |-> 3][q] = IF q = "src" THEN 2 ELSE 3
    OBVIOUS
  <2> QED
    BY <1>2, <2>1 DEF FillPackets
<1> HIDE DEF f, z
<1>8. /\ f \o <<z>> \in Seq(Packet)
      /\ \A p : Has(f \o <<z>>, p) <=> Has(f, p) \/ p = z
      /\ \A p : p # z => Followed(f \o <<z>>, p, z)
      /\ Once(f \o <<z>>, z)
  BY <1>3, <1>4, <1>6, LastFollows
<1> QED
  BY <1>5, <1>6, <1>7, <1>8 DEF z

\* Any other batch of the source GPU: what it copies, when it is timed, how
\* it is gated, and that its completion comes last but for a timestamp.
WellOrdered(d) ==
    /\ d \in Seq(Packet)
    /\ \A p : Has(d, p) => p.op = "time" \/ p \in Work("src") \cup {Sync(iter, 0)}
    /\ \A p \in Work("src") : Followed(d, p, Sync(iter, 0))
    /\ Once(d, Sync(iter, 0)) /\ Has(d, Sync(iter, 0))
    /\ pass \in Measuring => Has(d, TimedCopy)
    /\ pass \in Measuring /\ prelaunch => /\ Has(d, Poll(iter))
                                          /\ Followed(d, Poll(iter), TimedCopy)
    /\ \A k \in Needed : /\ Has(d, Time(pass, iter, k))
                         /\ Followed(d, Time(pass, iter, k), Sync(iter, 0))

LEMMA TimedBatch ==
  ASSUME pass \in Passes \ {"fill"}, iter \in Iters, prelaunch \in BOOLEAN,
         pass \in {"cal_fill", "cal_copy"} => iter = 0
  PROVE  WellOrdered(Packets(pass, iter))
<1> SUFFICES ASSUME NEW d, d = Packets(pass, iter) PROVE WellOrdered(d)
  OBVIOUS
<1> DEFINE z == Sync(iter, 0)
           T(k) == Time(pass, iter, k)
           fill == Fill(<<"src", 0>>, 0)
<1>1. Work("src") = {fill, TimedCopy, Poll(iter)}
  BY DEF Work
<1>2. /\ \A k \in 1 .. 4 : T(k) \in Packet /\ T(k).op = "time"
      /\ \A k, l \in 1 .. 4 : T(k) = T(l) => k = l
  BY DEF Time, Packet, Stamp
<1>3. /\ z \in Packet /\ z.op = "atomic"
      /\ TimedCopy \in Packet /\ TimedCopy.op = "copy"
      /\ Poll(iter) \in Packet /\ Poll(iter).op = "poll"
      /\ fill \in Packet /\ fill.op = "fill"
  BY P2pAssumption DEF Sync, TimedCopy, Copy, Poll, Fill, Packet, Signals, Buffers, Iters
<1>4. CASE pass = "cal_fill"
  <2>1. d = <<fill, z>> /\ Needed = {}
    BY <1>4 DEF Packets, Gate, Stamped, Phases, Needed, LastStamp, TimedCopy
  <2> HIDE DEF z, T, fill
  <2>2. d \in Seq(Packet)
    BY <1>2, <1>3, <2>1
  <2>3. \A p : Has(d, p) <=> p \in {fill, z}
    BY <2>1 DEF Has
  <2>4. \A p \in {fill, TimedCopy, Poll(iter)} : Followed(d, p, z)
    BY <1>2, <1>3, <2>1 DEF Followed
  <2>5. Once(d, z)
    BY <1>2, <1>3, <2>1 DEF Once
  <2> QED
    BY <1>1, <1>2, <1>3, <1>4, <2>1, <2>2, <2>3, <2>4, <2>5 DEF WellOrdered, Measuring, z, T, fill
<1>5. CASE pass = "cal_copy"
  <2>1. d = <<T(1), TimedCopy, T(2), z>> /\ Needed = 1 .. 2
    BY <1>5 DEF Packets, Gate, Stamped, Phases, Needed, LastStamp, TimedCopy
  <2> HIDE DEF z, T, fill
  <2>2. d \in Seq(Packet)
    BY <1>2, <1>3, <2>1
  <2>3. \A p : Has(d, p) <=> p \in {T(1), TimedCopy, T(2), z}
    BY <2>1 DEF Has
  <2>4. \A p \in {fill, TimedCopy, Poll(iter)} : Followed(d, p, z)
    BY <1>2, <1>3, <2>1 DEF Followed
  <2>5. Once(d, z)
    BY <1>2, <1>3, <2>1 DEF Once
  <2>6. \A k \in Needed : Has(d, T(k)) /\ Followed(d, T(k), z)
    BY <1>2, <1>3, <2>1, <2>3 DEF Followed
  <2> QED
    BY <1>1, <1>2, <1>3, <1>5, <2>1, <2>2, <2>3, <2>4, <2>5, <2>6 DEF WellOrdered, Measuring, z, T, fill
<1>6. CASE pass = "ts"
  <2>1. d = <<T(1), T(2), T(3), z>> /\ Needed = 1 .. 3
    BY <1>6 DEF Packets, Gate, Stamped, Phases, Needed, LastStamp, TimedCopy
  <2> HIDE DEF z, T, fill
  <2>2. d \in Seq(Packet)
    BY <1>2, <1>3, <2>1
  <2>3. \A p : Has(d, p) <=> p \in {T(1), T(2), T(3), z}
    BY <2>1 DEF Has
  <2>4. \A p \in {fill, TimedCopy, Poll(iter)} : Followed(d, p, z)
    BY <1>2, <1>3, <2>1 DEF Followed
  <2>5. Once(d, z)
    BY <1>2, <1>3, <2>1 DEF Once
  <2>6. \A k \in Needed : Has(d, T(k)) /\ Followed(d, T(k), z)
    BY <1>2, <1>3, <2>1, <2>3 DEF Followed
  <2> QED
    BY <1>1, <1>2, <1>3, <1>6, <2>1, <2>2, <2>3, <2>4, <2>5, <2>6 DEF WellOrdered, Measuring, z, T, fill
<1>7. CASE pass = "cpu" /\ ~prelaunch
  <2>1. d = <<TimedCopy, z>> /\ Needed = {}
    BY <1>7 DEF Packets, Gate, Stamped, Phases, Needed, LastStamp, TimedCopy
  <2> HIDE DEF z, T, fill
  <2>2. d \in Seq(Packet)
    BY <1>2, <1>3, <2>1
  <2>3. \A p : Has(d, p) <=> p \in {TimedCopy, z}
    BY <2>1 DEF Has
  <2>4. \A p \in {fill, TimedCopy, Poll(iter)} : Followed(d, p, z)
    BY <1>2, <1>3, <2>1 DEF Followed
  <2>5. Once(d, z)
    BY <1>2, <1>3, <2>1 DEF Once
  <2> QED
    BY <1>1, <1>2, <1>3, <1>7, <2>1, <2>2, <2>3, <2>4, <2>5 DEF WellOrdered, Measuring, z, T, fill
<1>8. CASE pass = "cpu" /\ prelaunch
  <2>1. d = <<Poll(iter), TimedCopy, z>> /\ Needed = {}
    <3>1. d = <<Poll(iter)>> \o <<TimedCopy, z>> /\ Needed = {}
      BY <1>8 DEF Packets, Gate, Stamped, Phases, Needed, LastStamp, TimedCopy
    <3> HIDE DEF z, T
    <3>2. <<Poll(iter)>> \o <<TimedCopy, z>> = <<Poll(iter), TimedCopy, z>>
      BY JoinThree
    <3> QED
      BY <3>1, <3>2
  <2> HIDE DEF z, T, fill
  <2>2. d \in Seq(Packet)
    BY <1>2, <1>3, <2>1
  <2>3. \A p : Has(d, p) <=> p \in {Poll(iter), TimedCopy, z}
    BY <2>1 DEF Has
  <2>4. \A p \in {fill, TimedCopy, Poll(iter)} : Followed(d, p, z)
    BY <1>2, <1>3, <2>1 DEF Followed
  <2>5. Once(d, z)
    BY <1>2, <1>3, <2>1 DEF Once
  <2>6. Followed(d, Poll(iter), TimedCopy)
    BY <1>2, <1>3, <2>1 DEF Followed
  <2> QED
    BY <1>1, <1>2, <1>3, <1>8, <2>1, <2>2, <2>3, <2>4, <2>5, <2>6 DEF WellOrdered, Measuring, z, T, fill
<1>9. CASE pass = "gpu" /\ ~prelaunch
  <2>1. d = <<T(1), TimedCopy, T(2), z, T(3)>> /\ Needed = 1 .. 2
    BY <1>9 DEF Packets, Gate, Stamped, Phases, Needed, LastStamp, TimedCopy
  <2> HIDE DEF z, T, fill
  <2>2. d \in Seq(Packet)
    BY <1>2, <1>3, <2>1
  <2>3. \A p : Has(d, p) <=> p \in {T(1), TimedCopy, T(2), z, T(3)}
    BY <2>1 DEF Has
  <2>4. \A p \in {fill, TimedCopy, Poll(iter)} : Followed(d, p, z)
    BY <1>2, <1>3, <2>1 DEF Followed
  <2>5. Once(d, z)
    BY <1>2, <1>3, <2>1 DEF Once
  <2>6. \A k \in Needed : Has(d, T(k)) /\ Followed(d, T(k), z)
    BY <1>2, <1>3, <2>1, <2>3 DEF Followed
  <2> QED
    BY <1>1, <1>2, <1>3, <1>9, <2>1, <2>2, <2>3, <2>4, <2>5, <2>6 DEF WellOrdered, Measuring, z, T, fill
<1>10. CASE pass = "gpu" /\ prelaunch
  <2>1. d = <<T(1), Poll(iter), T(2), TimedCopy, T(3), z, T(4)>> /\ Needed = 1 .. 3
    <3>1. d = <<T(1), Poll(iter)>> \o <<T(2), TimedCopy, T(3), z, T(4)>> /\ Needed = 1 .. 3
      BY <1>10 DEF Packets, Gate, Stamped, Phases, Needed, LastStamp, TimedCopy
    <3> HIDE DEF z, T
    <3>2. <<T(1), Poll(iter)>> \o <<T(2), TimedCopy, T(3), z, T(4)>> = <<T(1), Poll(iter), T(2), TimedCopy, T(3), z, T(4)>>
      BY JoinSeven
    <3> QED
      BY <3>1, <3>2
  <2> HIDE DEF z, T, fill
  <2>2. d \in Seq(Packet)
    BY <1>2, <1>3, <2>1
  <2>3. \A p : Has(d, p) <=> p \in {T(1), Poll(iter), T(2), TimedCopy, T(3), z, T(4)}
    BY <2>1 DEF Has
  <2>4. \A p \in {fill, TimedCopy, Poll(iter)} : Followed(d, p, z)
    BY <1>2, <1>3, <2>1 DEF Followed
  <2>5. Once(d, z)
    BY <1>2, <1>3, <2>1 DEF Once
  <2>6. \A k \in Needed : Has(d, T(k)) /\ Followed(d, T(k), z)
    BY <1>2, <1>3, <2>1, <2>3 DEF Followed
  <2>7. Followed(d, Poll(iter), TimedCopy)
    BY <1>2, <1>3, <2>1 DEF Followed
  <2> QED
    BY <1>1, <1>2, <1>3, <1>10, <2>1, <2>2, <2>3, <2>4, <2>5, <2>6, <2>7 DEF WellOrdered, Measuring, z, T, fill
<1> QED
  BY <1>4, <1>5, <1>6, <1>7, <1>8, <1>9, <1>10 DEF Passes
-----------------------------------------------------------------------------
(* Queues with nothing but timestamps.                                     *)

Idle(q) == \A p \in Packet : Has(queue[q], p) => p.op = "time"
AllIdle == \A q \in Queues : Idle(q)

\* What may be under way is no timestamp.
LEMMA WorkTypes ==
  ASSUME TypeOK, NEW q \in Queues
  PROVE  /\ Completion(q) \in Packet /\ Completion(q).op = "atomic"
         /\ Completion(q).it \in Iters /\ Completion(q).s \in Signals
         /\ \A p \in Work(q) : p \in Packet /\ p.op \in {"fill", "copy", "poll"}
<1>1. 0 \in Iters /\ NumIter - 1 \in Iters
  BY P2pAssumption DEF Iters
<1>2. CheckSlot(pass) \in Signals /\ 2 \in Signals /\ 3 \in Signals /\ 0 \in Signals
  BY DEF CheckSlot, Signals
<1>3. pass \in Passes /\ iter \in Iters
  BY DEF TypeOK
<1>4. /\ \A g \in {"src", "dest"}, it \in Iters, v \in Iters :
           Fill(<<g, it>>, v) \in Packet /\ Fill(<<g, it>>, v).op = "fill"
      /\ TimedCopy \in Packet /\ TimedCopy.op = "copy"
      /\ Readback \in Packet /\ Readback.op = "copy"
      /\ Poll(iter) \in Packet /\ Poll(iter).op = "poll"
  BY <1>3, PacketTypes
<1>5. \A it \in Iters, s \in Signals : /\ Sync(it, s) \in Packet
                                       /\ Sync(it, s).op = "atomic"
                                       /\ Sync(it, s).it = it /\ Sync(it, s).s = s
  BY <1>3, PacketTypes
<1>6. \E it \in Iters, s \in Signals : Completion(q) = Sync(it, s)
  BY <1>1, <1>2, <1>3 DEF Completion, Queues
<1>7. \A p \in Work(q) : p \in Packet /\ p.op \in {"fill", "copy", "poll"}
  <2>1. CASE q = "src" /\ pass = "fill"
    <3>1. Work(q) = {Fill(<<"src", it>>, it) : it \in Iters}
      BY <2>1 DEF Work
    <3> QED
      BY <1>4, <3>1
  <2>2. CASE q = "src" /\ pass # "fill"
    BY <1>1, <1>4, <2>2 DEF Work
  <2>3. CASE q = "dest"
    <3>1. Work(q) = {Fill(<<"dest", it>>, 0) : it \in Iters}
      BY <2>3 DEF Work
    <3> QED
      BY <1>1, <1>4, <3>1
  <2>4. CASE q = "check"
    BY <1>4, <2>4 DEF Work
  <2> QED
    BY <2>1, <2>2, <2>3, <2>4 DEF Queues
<1> QED
  BY <1>5, <1>6, <1>7

\* Before a batch is placed, and after its completion has been seen, its queue
\* is idle.
LEMMA IdleUnlessPlaced ==
  ASSUME TypeOK, Queued, NEW q \in Queues,
         \/ ~Placed(q)
         \/ signal[Completion(q).it][Completion(q).s] = 0
  PROVE  Idle(q)
<1> SUFFICES ASSUME NEW p \in Packet, Has(queue[q], p), p.op # "time"
             PROVE  FALSE
  BY DEF Idle
<1>1. p \in Work(q) \cup {Completion(q)} /\ Placed(q)
  BY DEF Queued, QueuedOn
<1>2. ~Has(queue[q], Completion(q))
  BY <1>1 DEF Queued, QueuedOn
<1>3. p \in Work(q) /\ Followed(queue[q], p, Completion(q))
  BY <1>1, <1>2 DEF Queued, QueuedOn
<1> QED
  BY <1>2, <1>3, FollowerWaits DEF TypeOK

\* Idle queues are as the invariant wants them, whatever comes next.
IdleSuffices == \A q \in Queues : Idle(q) => QueuedOn(q)
LEMMA IdleQueued == TypeOK => IdleSuffices
<1> SUFFICES ASSUME TypeOK, NEW q \in Queues, Idle(q) PROVE QueuedOn(q)
  BY DEF IdleSuffices
<1>1. ~Has(queue[q], Completion(q)) /\ \A p \in Work(q) : ~Has(queue[q], p)
  BY WorkTypes DEF Idle
<1> QED
  BY <1>1, AbsentPacket DEF Idle, QueuedOn

LEMMA AllIdleQueued == TypeOK /\ AllIdle => Queued
BY IdleQueued DEF IdleSuffices, AllIdle, Queued

\* What may be under way is the same as long as pass and iteration are.
LEMMA BatchKept ==
  ASSUME UNCHANGED <<prelaunch, pass, iter>>
  PROVE  /\ \A q : Work(q)' = Work(q) /\ Completion(q)' = Completion(q)
         /\ TimedCopy' = TimedCopy /\ Readback' = Readback /\ Needed' = Needed
         /\ CheckSlot(pass)' = CheckSlot(pass)
BY DEF Work, Completion, TimedCopy, Readback, Needed, LastStamp, Phases, CheckSlot, Sync, Copy, Poll, Fill

\* A batch put on an idle queue.
LEMMA PutOnIdle ==
  ASSUME TypeOK, NEW q \in Queues, Idle(q), NEW d \in Seq(Packet), Put(q, d)
  PROVE  /\ queue' \in [Queues -> Seq(Packet)]
         /\ \A g \in Queues \ {q} : queue'[g] = queue[g]
         /\ \A p \in Packet : Has(queue'[q], p) => p.op = "time" \/ Has(d, p)
         /\ \A p : Has(d, p) => Has(queue'[q], p)
         /\ \A p, r : Has(d, r) /\ Followed(d, p, r) => Followed(queue'[q], p, r)
         /\ \A p \in Packet : p.op # "time" /\ Once(d, p) => Once(queue'[q], p)
<1> DEFINE c == queue[q]
<1>1. c \in Seq(Packet) /\ queue \in [Queues -> Seq(Packet)] /\ queue' = [queue EXCEPT ![q] = c \o d]
  BY DEF TypeOK, Put
<1>2. \A p \in Packet : Has(c, p) => p.op = "time"
  BY DEF Idle
<1> HIDE DEF c
<1>3. c \o d \in Seq(Packet) /\ \A p : Has(c \o d, p) <=> Has(c, p) \/ Has(d, p)
  BY <1>1, HasBoth
<1>4. \A p, r : Has(d, r) /\ Followed(d, p, r) => Followed(c \o d, p, r)
  BY <1>1, BothFollowed
<1>5. \A p : ~Has(c, p) /\ Once(d, p) => Once(c \o d, p)
  BY <1>1, BothOnce
<1>6. /\ queue' \in [Queues -> Seq(Packet)] /\ queue'[q] = c \o d
      /\ \A g \in Queues \ {q} : queue'[g] = queue[g]
  BY <1>1, <1>3
<1>7. \A p \in Packet : Has(c \o d, p) => p.op = "time" \/ Has(d, p)
  BY <1>2, <1>3
<1>8. \A p \in Packet : p.op # "time" /\ Once(d, p) => Once(c \o d, p)
  BY <1>2, <1>5
<1> QED
  BY <1>3, <1>4, <1>6, <1>7, <1>8

\* A batch that ends in the completion may be placed on an idle queue, with
\* the signal set.
LEMMA PutQueued ==
  ASSUME TypeOK, NEW q \in Queues, Idle(q), NEW d \in Seq(Packet), Put(q, d),
         UNCHANGED <<prelaunch, pass, iter>>,
         \A p : Has(d, p) => p.op = "time" \/ p \in Work(q) \cup {Completion(q)},
         \A p \in Work(q) : Followed(d, p, Completion(q)),
         Once(d, Completion(q)), Has(d, Completion(q)),
         Placed(q)', signal'[Completion(q).it][Completion(q).s] = 1
  PROVE  QueuedOn(q)'
<1>1. Work(q)' = Work(q) /\ Completion(q)' = Completion(q)
  BY BatchKept
<1>2. Completion(q) \in Packet /\ Completion(q).op = "atomic"
  BY WorkTypes
<1>3. /\ \A p \in Packet : Has(queue'[q], p) => p.op = "time" \/ Has(d, p)
      /\ \A p, r : Has(d, r) /\ Followed(d, p, r) => Followed(queue'[q], p, r)
      /\ \A p \in Packet : p.op # "time" /\ Once(d, p) => Once(queue'[q], p)
  BY PutOnIdle
<1> QED
  BY <1>1, <1>2, <1>3 DEF QueuedOn

\* A queue that was idle and is left alone is as the invariant wants it.
IdleSame == \A q \in Queues : Idle(q) /\ queue'[q] = queue[q] => QueuedOn(q)'
LEMMA IdleKept == TypeOK' => IdleSame
<1> SUFFICES ASSUME TypeOK' PROVE IdleSame
  OBVIOUS
<1>1. IdleSuffices'
  BY IdleQueued, PTL
<1>2. \A q \in Queues : Idle(q)' => QueuedOn(q)'
  BY <1>1 DEF IdleSuffices
<1> QED
  BY <1>2 DEF IdleSame, Idle

\* A batch under way that is left alone goes on as it was.
LEMMA UnderWay ==
  ASSUME TypeOK, NEW q \in Queues, QueuedOn(q), queue'[q] = queue[q],
         UNCHANGED <<prelaunch, pass, iter>>, Placed(q)',
         signal'[Completion(q).it][Completion(q).s] = signal[Completion(q).it][Completion(q).s]
  PROVE  QueuedOn(q)'
<1>1. Work(q)' = Work(q) /\ Completion(q)' = Completion(q)
  BY BatchKept
<1> QED
  BY <1>1 DEF QueuedOn

-----------------------------------------------------------------------------
(* The steps of the CPU thread.                                            *)

LEMMA InitInv == Init => P2pInv
<1> SUFFICES ASSUME Init PROVE P2pInv
  OBVIOUS
<1>1. 0 \in Iters /\ NumIter - 1 \in Iters /\ 0 \in 0 .. NumSizes /\ 0 < NumSizes
  BY P2pAssumption DEF Iters
<1>2. TypeOK
  <2>1. prelaunch \in BOOLEAN
    BY P2pAssumption DEF Init
  <2>2. queue \in [Queues -> Seq(Packet)]
    BY DEF Init
  <2> QED
    BY <1>1, <2>1, <2>2 DEF Init, TypeOK, Passes
<1>3. Queued
  BY <1>2, IdleQueued, EmptyQueue DEF IdleSuffices, Idle, Queued, Init
<1> QED
  BY <1>1, <1>2, <1>3
  DEF P2pInv, Init, Control, ArmedInv, DataInv, StampInv, GateInv, Measuring

\* allocateMemP2p.
LEMMA AllocateKeepsInv == P2pInv /\ Allocate => P2pInv'
<1> SUFFICES ASSUME P2pInv, Allocate PROVE P2pInv'
  OBVIOUS
<1> USE DEF P2pInv
<1>1. 0 \in Iters /\ NumIter - 1 \in Iters
  BY P2pAssumption DEF Iters
<1>2. AllIdle
  BY IdleUnlessPlaced DEF AllIdle, Allocate, Placed, Queues
<1>3. TypeOK'
  BY <1>1 DEF Allocate, TypeOK, Signals
<1>4. Queued'
  <2>1. AllIdle'
    BY <1>2 DEF AllIdle, Idle, Allocate
  <2> QED
    BY <1>3, <2>1, AllIdleQueued, PTL
<1>5. Control'
  BY DEF Control, Allocate, Measuring
<1>6. ArmedInv'
  BY <1>1 DEF Control, Allocate, ArmedInv, Signals
<1> QED
  BY <1>3, <1>4, <1>5, <1>6 DEF Control, Allocate, DataInv, StampInv, GateInv

\* The fills of the source GPU are placed.
LEMMA FillSrcKeepsInv == P2pInv /\ FillSrc => P2pInv'
<1> SUFFICES ASSUME P2pInv, FillSrc PROVE P2pInv'
  OBVIOUS
<1> USE DEF P2pInv
<1> DEFINE d == FillPackets("src")
<1>1. /\ pc = "fill_src" /\ pc' = "fill_dest" /\ Put("src", d)
      /\ UNCHANGED <<prelaunch, pass, size, iter, ts_calibrated, buf, signal, stamps, allocated>>
  BY DEF FillSrc, SubmitFills
<1>2. pass = "fill"
  BY <1>1 DEF Control
<1>3. AllIdle
  BY <1>1, IdleUnlessPlaced DEF AllIdle, Placed, Queues
<1>4. /\ d \in Seq(Packet)
      /\ \A p : Has(d, p) => p \in Work("src") \cup {Completion("src")}
      /\ \A p \in Work("src") : Followed(d, p, Completion("src"))
      /\ Once(d, Completion("src")) /\ Has(d, Completion("src"))
      /\ \A p \in Work("src") : Has(d, p)
  BY <1>2, FillBatch
<1> HIDE DEF d
<1>5. /\ queue' \in [Queues -> Seq(Packet)]
      /\ \A g \in Queues \ {"src"} : queue'[g] = queue[g]
      /\ \A p \in Packet : Has(queue'["src"], p) => p.op = "time" \/ Has(d, p)
      /\ \A p : Has(d, p) => Has(queue'["src"], p)
      /\ \A p, r : Has(d, r) /\ Followed(d, p, r) => Followed(queue'["src"], p, r)
      /\ \A p \in Packet : p.op # "time" /\ Once(d, p) => Once(queue'["src"], p)
  BY <1>1, <1>3, <1>4, PutOnIdle DEF AllIdle, Queues
<1>6. TypeOK'
  BY <1>1, <1>5 DEF TypeOK
<1>8. Queued'
  <2>1. signal[Completion("src").it][Completion("src").s] = 1 /\ Placed("src")'
    BY <1>1, <1>2 DEF ArmedInv, Completion, Sync, Placed
  <2>2. QueuedOn("src")'
    BY <1>1, <1>3, <1>4, <2>1, PutQueued DEF AllIdle, Queues
  <2>3. ASSUME NEW q \in Queues \ {"src"} PROVE QueuedOn(q)'
    BY <1>3, <1>5, <1>6, <2>3, IdleKept DEF AllIdle, IdleSame
  <2> QED
    BY <2>2, <2>3 DEF Queued
<1>9. Control' /\ ArmedInv'
  BY <1>1, <1>2 DEF Control, ArmedInv, Measuring
<1>10. DataInv'
  <2>1. \A it \in Iters : Fill(<<"src", it>>, it) \in Work("src")
    BY <1>2 DEF Work
  <2> QED
    BY <1>1, <1>2, <1>4, <1>5, <2>1 DEF DataInv, Control
<1> QED
  BY <1>1, <1>6, <1>8, <1>9, <1>10 DEF StampInv, GateInv

\* The fills of the destination GPU are placed.
LEMMA FillDestKeepsInv == P2pInv /\ FillDest => P2pInv'
<1> SUFFICES ASSUME P2pInv, FillDest PROVE P2pInv'
  OBVIOUS
<1> USE DEF P2pInv
<1> DEFINE d == FillPackets("dest")
<1>1. /\ pc = "fill_dest" /\ pc' = "fill_wait" /\ Put("dest", d)
      /\ UNCHANGED <<prelaunch, pass, size, iter, ts_calibrated, buf, signal, stamps, allocated>>
  BY DEF FillDest, SubmitFills
<1>2. pass = "fill"
  BY <1>1 DEF Control
<1>3. Idle("dest") /\ Idle("check")
  BY <1>1, IdleUnlessPlaced DEF Placed, Queues
<1>4. /\ d \in Seq(Packet)
      /\ \A p : Has(d, p) => p \in Work("dest") \cup {Completion("dest")}
      /\ \A p \in Work("dest") : Followed(d, p, Completion("dest"))
      /\ Once(d, Completion("dest")) /\ Has(d, Completion("dest"))
  BY <1>2, FillBatch
<1> HIDE DEF d
<1>5. /\ queue' \in [Queues -> Seq(Packet)]
      /\ queue'["src"] = queue["src"] /\ queue'["check"] = queue["check"]
  BY <1>1, <1>3, <1>4, PutOnIdle DEF Queues
<1>6. TypeOK'
  BY <1>1, <1>5 DEF TypeOK
<1>7. Queued'
  <2>1. signal[Completion("dest").it][Completion("dest").s] = 1 /\ Placed("dest")'
    BY <1>1, <1>2 DEF ArmedInv, Completion, Sync, Placed
  <2>2. QueuedOn("dest")'
    BY <1>1, <1>3, <1>4, <2>1, PutQueued DEF Queues
  <2>3. QueuedOn("check")'
    BY <1>3, <1>5, <1>6, IdleKept DEF IdleSame, Queues
  <2>4. QueuedOn("src")'
    <3>1. Placed("src")' /\ QueuedOn("src")
      BY <1>1 DEF Placed, Queued, Queues
    <3> QED
      BY <1>1, <1>5, <3>1, UnderWay DEF Queues
  <2> QED
    BY <2>2, <2>3, <2>4 DEF Queued, Queues
<1>8. Control' /\ ArmedInv'
  BY <1>1, <1>2 DEF Control, ArmedInv, Measuring
<1>9. DataInv'
  BY <1>1, <1>2, <1>5 DEF DataInv
<1> QED
  BY <1>1, <1>6, <1>7, <1>8, <1>9 DEF StampInv, GateInv

\* Both signals of the fills are seen: every source buffer has its value.
LEMMA FillWaitKeepsInv == P2pInv /\ FillWait => P2pInv'
<1> SUFFICES ASSUME P2pInv, FillWait PROVE P2pInv'
  OBVIOUS
<1> USE DEF P2pInv
<1>1. pc = "fill_wait" /\ pass = "fill" /\ allocated
  BY DEF FillWait, Control
<1>2. Completion("src") = Sync(NumIter - 1, 2) /\ Completion("dest") = Sync(NumIter - 1, 3)
  BY <1>1 DEF Completion
<1>3. AllIdle
  <2>1. Idle("src") /\ Idle("dest")
    BY <1>2, IdleUnlessPlaced DEF FillWait, FillSignals, Sync, Queues
  <2>2. Idle("check")
    BY <1>1, IdleUnlessPlaced DEF Placed, Queues
  <2> QED
    BY <2>1, <2>2 DEF AllIdle, Queues
<1>4. TypeOK'
  BY DEF FillWait, TypeOK, Passes
<1>5. Queued'
  <2>1. AllIdle'
    BY <1>3 DEF AllIdle, Idle, FillWait
  <2> QED
    BY <1>4, <2>1, AllIdleQueued, PTL
<1>6. \A it \in Iters : buf[<<"src", it>>] = it
  <2>1. \A it \in Iters : Fill(<<"src", it>>, it) \in Packet /\ Fill(<<"src", it>>, it).op = "fill"
    BY <1>1, PacketTypes DEF TypeOK
  <2> QED
    BY <1>1, <1>3, <2>1 DEF DataInv, AllIdle, Idle, Queues
<1>7. Control' /\ ArmedInv' /\ DataInv' /\ StampInv' /\ GateInv'
  BY <1>1, <1>6 DEF FillWait, Control, ArmedInv, DataInv, StampInv, GateInv, Measuring
<1> QED
  BY <1>4, <1>5, <1>7

\* A pass arms its signals and places its packets.
LEMMA SubmitKeepsInv == P2pInv /\ Submit => P2pInv'
<1> SUFFICES ASSUME P2pInv, Submit PROVE P2pInv'
  OBVIOUS
<1> USE DEF P2pInv
<1> DEFINE d == Packets(pass, iter)
<1>1. /\ pc = "submit" /\ Arm(iter, Armed(pass)) /\ Put("src", d)
      /\ pc' = IF pass \in Measuring /\ prelaunch THEN "release" ELSE "wait"
      /\ UNCHANGED <<prelaunch, pass, size, iter, ts_calibrated, buf, stamps, allocated>>
  BY DEF Submit
<1>2. pass \in Passes \ {"fill"} /\ iter \in Iters /\ prelaunch \in BOOLEAN /\ allocated
  BY <1>1 DEF Control, TypeOK
<1>3. AllIdle
  BY <1>1, IdleUnlessPlaced DEF AllIdle, Placed, Queues
<1>4. WellOrdered(d)
  BY <1>2, TimedBatch DEF Control
<1>5. Completion("src") = Sync(iter, 0)
  BY <1>2 DEF Completion
<1> HIDE DEF d
<1>6. d \in Seq(Packet) /\ Has(d, Sync(iter, 0))
  BY <1>4 DEF WellOrdered
<1>7. /\ queue' \in [Queues -> Seq(Packet)]
      /\ \A g \in Queues \ {"src"} : queue'[g] = queue[g]
      /\ \A p : Has(d, p) => Has(queue'["src"], p)
      /\ \A p, r : Has(d, r) /\ Followed(d, p, r) => Followed(queue'["src"], p, r)
  BY <1>1, <1>3, <1>6, PutOnIdle DEF AllIdle, Queues
<1>8. /\ signal' \in [Iters -> [Signals -> {0, 1}]]
      /\ \A s \in Armed(pass) \cap Signals : signal'[iter][s] = 1
  BY <1>1, <1>2 DEF Arm, TypeOK
<1>9. /\ {0} \subseteq Armed(pass) \cap Signals
      /\ pass \in Measuring => CheckSlot(pass) \in Armed(pass) \cap Signals
      /\ pass \in Measuring /\ prelaunch => 4 \in Armed(pass) \cap Signals
  BY DEF Armed, Signals, CheckSlot
<1>10. TypeOK'
  BY <1>1, <1>7, <1>8 DEF TypeOK
<1>11. Queued'
  <2>1. signal'[Completion("src").it][Completion("src").s] = 1 /\ Placed("src")'
    BY <1>1, <1>5, <1>8, <1>9 DEF Sync, Placed
  <2>2. QueuedOn("src")'
    BY <1>1, <1>3, <1>4, <1>5, <2>1, PutQueued DEF AllIdle, Queues, WellOrdered
  <2>3. ASSUME NEW q \in Queues \ {"src"} PROVE QueuedOn(q)'
    BY <1>3, <1>7, <1>10, <2>3, IdleKept DEF AllIdle, IdleSame
  <2> QED
    BY <2>2, <2>3 DEF Queued
<1>12. UNCHANGED <<TimedCopy, Readback, Needed>>
  BY <1>1, BatchKept
<1>13. Control'
  BY <1>1, <1>2 DEF Control, Measuring
<1>14. ArmedInv'
  BY <1>1, <1>2, <1>8, <1>9 DEF ArmedInv, CheckSlot
<1>15. DataInv'
  BY <1>1, <1>2, <1>4, <1>7, <1>12 DEF DataInv, WellOrdered
<1>16. StampInv'
  BY <1>1, <1>4, <1>6, <1>7, <1>12 DEF StampInv, WellOrdered
<1>17. GateInv'
  BY <1>1, <1>4, <1>7, <1>12 DEF GateInv, WellOrdered
<1> QED
  BY <1>10, <1>11, <1>13, <1>14, <1>15, <1>16, <1>17

\* The poll is released.
LEMMA ReleaseKeepsInv == P2pInv /\ Release => P2pInv'
<1> SUFFICES ASSUME P2pInv, Release PROVE P2pInv'
  OBVIOUS
<1> USE DEF P2pInv
<1>1. pass \in Measuring /\ iter \in Iters
  BY DEF Release, Control, TypeOK
<1>2. /\ signal' \in [Iters -> [Signals -> {0, 1}]]
      /\ signal'[iter][4] = 0
      /\ \A s \in Signals \ {4} : signal'[iter][s] = signal[iter][s]
  BY DEF Release, TypeOK, Signals
<1>3. TypeOK'
  BY <1>2 DEF Release, TypeOK
<1>4. Queued'
  <2>1. QueuedOn("src")'
    <3>1. Completion("src") = Sync(iter, 0) /\ Placed("src")' /\ QueuedOn("src")
      BY <1>1 DEF Completion, Release, Placed, Queued, Queues, Measuring
    <3>2. signal'[iter][0] = signal[iter][0]
      BY <1>2 DEF Signals
    <3> QED
      BY <3>1, <3>2, UnderWay DEF Release, Queues, Sync
  <2>2. Idle("dest") /\ Idle("check")
    BY IdleUnlessPlaced DEF Release, Placed, Queues
  <2>3. QueuedOn("dest")' /\ QueuedOn("check")'
    BY <1>3, <2>2, IdleKept DEF IdleSame, Queues, Release
  <2> QED
    BY <2>1, <2>3 DEF Queued, Queues
<1>5. UNCHANGED <<TimedCopy, Readback, Needed>>
  BY BatchKept DEF Release
<1>6. ArmedInv'
  BY <1>1, <1>2 DEF ArmedInv, Release, CheckSlot, Signals, Measuring
<1> QED
  BY <1>1, <1>3, <1>4, <1>5, <1>6
  DEF Release, Control, DataInv, StampInv, GateInv, Measuring

\* The completion signal is seen: the copy and the timestamps before it are
\* done.
LEMMA WaitKeepsInv == P2pInv /\ Wait => P2pInv'
<1> SUFFICES ASSUME P2pInv, Wait PROVE P2pInv'
  OBVIOUS
<1> USE DEF P2pInv
<1>1. pc = "wait" /\ pass \in Passes \ {"fill"} /\ iter \in Iters /\ allocated
  BY DEF Wait, Control, TypeOK
<1>2. Completion("src") = Sync(iter, 0)
  BY <1>1 DEF Completion
<1>3. AllIdle
  <2>1. Idle("src")
    BY <1>2, IdleUnlessPlaced DEF Wait, Sync, Queues
  <2>2. Idle("dest") /\ Idle("check")
    BY <1>1, IdleUnlessPlaced DEF Placed, Queues
  <2> QED
    BY <2>1, <2>2 DEF AllIdle, Queues
<1>4. TypeOK'
  BY <1>1 DEF Wait, TypeOK, Passes
<1>5. Queued'
  <2>1. AllIdle'
    BY <1>3 DEF AllIdle, Idle, Wait
  <2> QED
    BY <1>4, <2>1, AllIdleQueued, PTL
<1>6. pass \in Measuring => buf[<<"dest", iter>>] = iter
  <2>1. TimedCopy \in Packet /\ TimedCopy.op = "copy"
    BY <1>1, PacketTypes
  <2> QED
    BY <1>1, <1>3, <2>1 DEF DataInv, AllIdle, Idle, Queues
<1>7. \A k \in Needed : <<pass, iter, k>> \in stamps
  <2> SUFFICES ASSUME NEW k \in Needed, Has(queue["src"], Time(pass, iter, k)),
                      Followed(queue["src"], Time(pass, iter, k), Sync(iter, 0))
               PROVE  FALSE
    BY <1>1 DEF StampInv
  <2>1. Has(queue["src"], Sync(iter, 0))
    BY FollowerWaits DEF TypeOK, Queues
  <2>2. 0 \in Signals
    BY DEF Signals
  <2>3. Sync(iter, 0) \in Packet /\ Sync(iter, 0).op = "atomic"
    BY <1>1, <2>2, PacketTypes
  <2> QED
    BY <1>3, <2>1, <2>3 DEF AllIdle, Idle, Queues
<1>8. Control'
  BY <1>1 DEF Control, Wait, Measuring, Passes
<1>9. ArmedInv'
  BY <1>1 DEF ArmedInv, Wait, Measuring
<1>10. DataInv' /\ GateInv'
  BY <1>1, <1>6 DEF DataInv, GateInv, Wait, Control, Measuring
<1>11. StampInv'
  <2>1. CASE pass = "cal_fill"
    BY <1>1, <2>1 DEF StampInv, Wait
  <2>2. CASE pass # "cal_fill"
    <3>1. Needed' = Needed
      BY <2>2, BatchKept DEF Wait
    <3> QED
      BY <1>1, <1>7, <2>2, <3>1 DEF StampInv, Wait
  <2> QED
    BY <2>1, <2>2
<1> QED
  BY <1>4, <1>5, <1>8, <1>9, <1>10, <1>11

\* The readback is placed.
LEMMA CheckKeepsInv == P2pInv /\ Check => P2pInv'
<1> SUFFICES ASSUME P2pInv, Check PROVE P2pInv'
  OBVIOUS
<1> USE DEF P2pInv
<1> DEFINE z == Sync(iter, CheckSlot(pass))
           d == <<Readback, z>>
<1>1. /\ pc = "check" /\ pc' = "check_wait" /\ Put("check", d)
      /\ UNCHANGED <<prelaunch, pass, size, iter, ts_calibrated, buf, signal, stamps, allocated>>
  BY DEF Check, Readback
<1>2. pass \in Measuring /\ iter \in Iters /\ CheckSlot(pass) \in Signals /\ pass \in Passes
  BY <1>1 DEF Control, TypeOK, CheckSlot, Signals
<1>3. AllIdle
  BY <1>1, IdleUnlessPlaced DEF AllIdle, Placed, Queues
<1>4. Completion("check") = z /\ Work("check") = {Readback}
  BY DEF Completion, Work
<1>5. /\ z \in Packet /\ z.op = "atomic" /\ z.it = iter /\ z.s = CheckSlot(pass)
      /\ Readback \in Packet /\ Readback.op = "copy"
  BY <1>2, PacketTypes
<1> HIDE DEF z
<1>6. /\ d \in Seq(Packet)
      /\ \A p : Has(d, p) <=> p \in {Readback, z}
      /\ Followed(d, Readback, z) /\ Once(d, z)
  BY <1>5 DEF Has, Followed, Once
<1> HIDE DEF d
<1>7. /\ queue' \in [Queues -> Seq(Packet)]
      /\ \A g \in Queues \ {"check"} : queue'[g] = queue[g]
      /\ \A p : Has(d, p) => Has(queue'["check"], p)
  BY <1>1, <1>3, <1>6, PutOnIdle DEF AllIdle, Queues
<1>8. TypeOK'
  BY <1>1, <1>7 DEF TypeOK
<1>9. Queued'
  <2>1. signal[Completion("check").it][Completion("check").s] = 1 /\ Placed("check")'
    BY <1>1, <1>2, <1>4, <1>5 DEF ArmedInv, Placed
  <2>2. QueuedOn("check")'
    BY <1>1, <1>3, <1>4, <1>6, <2>1, PutQueued DEF AllIdle, Queues
  <2>3. ASSUME NEW q \in Queues \ {"check"} PROVE QueuedOn(q)'
    BY <1>3, <1>7, <1>8, <2>3, IdleKept DEF AllIdle, IdleSame
  <2> QED
    BY <2>2, <2>3 DEF Queued
<1>10. UNCHANGED <<TimedCopy, Readback, Needed>>
  BY <1>1, BatchKept
<1>11. DataInv'
  BY <1>1, <1>6, <1>7, <1>10 DEF DataInv, Control
<1> QED
  BY <1>1, <1>2, <1>8, <1>9, <1>10, <1>11 DEF Control, ArmedInv, StampInv, GateInv, Measuring

\* The readback is seen, and holds the iteration's value.
LEMMA CheckWaitKeepsInv == P2pInv /\ CheckWait => P2pInv'
<1> SUFFICES ASSUME P2pInv, CheckWait PROVE P2pInv'
  OBVIOUS
<1> USE DEF P2pInv
<1>1. pc = "check_wait" /\ pass \in Measuring /\ pass \in Passes /\ iter \in Iters /\ allocated
  BY DEF CheckWait, Control, TypeOK
<1>2. AllIdle
  <2>1. Idle("check")
    BY IdleUnlessPlaced DEF CheckWait, Completion, Sync, Queues
  <2>2. Idle("src") /\ Idle("dest")
    BY <1>1, IdleUnlessPlaced DEF Placed, Queues
  <2> QED
    BY <2>1, <2>2 DEF AllIdle, Queues
<1>3. buf[Sys] = iter
  <2>1. Readback \in Packet /\ Readback.op = "copy"
    BY <1>1, PacketTypes
  <2> QED
    BY <1>1, <1>2, <2>1 DEF DataInv, AllIdle, Idle, Queues
<1>4. pc' = "read"
  BY <1>3 DEF CheckWait
<1>5. TypeOK'
  BY <1>4 DEF CheckWait, TypeOK
<1>6. Queued'
  <2>1. AllIdle'
    BY <1>2 DEF AllIdle, Idle, CheckWait
  <2> QED
    BY <1>5, <2>1, AllIdleQueued, PTL
<1>7. Needed' = Needed
  BY BatchKept DEF CheckWait
<1> QED
  BY <1>1, <1>4, <1>5, <1>6, <1>7
  DEF CheckWait, Control, ArmedInv, DataInv, StampInv, GateInv, Measuring

\* The times are taken; on to the next iteration, pass or the end.
LEMMA ReadKeepsInv == P2pInv /\ Read => P2pInv'
<1> SUFFICES ASSUME P2pInv, Read PROVE P2pInv'
  OBVIOUS
<1> USE DEF P2pInv
<1>1. pc = "read" /\ pass \in Passes \ {"fill", "cal_fill"} /\ iter \in Iters /\ allocated
  BY DEF Read, Control, TypeOK
<1>2. AllIdle
  BY <1>1, IdleUnlessPlaced DEF AllIdle, Placed, Queues
<1>3. \/ pc' = "submit" /\ pass' \in {"ts", "cpu", "gpu"} /\ pass \in {"ts", "cpu", "gpu"}
      \/ pc' = "free" /\ pass' = pass /\ pass \in {"cal_copy", "gpu"}
  <2> DEFINE after == [ts |-> "cpu", cpu |-> "gpu"]
             more == pass \in Measuring \cup {"ts"} /\ iter + 1 < NumIter
  <2>1. DOMAIN after = {"ts", "cpu"} /\ after["ts"] = "cpu" /\ after["cpu"] = "gpu"
    OBVIOUS
  <2>2. IF more THEN pc' = "submit" /\ pass' = pass
        ELSE IF pass \in DOMAIN after THEN pc' = "submit" /\ pass' = after[pass]
        ELSE pc' = "free" /\ pass' = pass
    BY DEF Read
  <2>3. more => pass \in {"ts", "cpu", "gpu"}
    BY DEF Measuring
  <2> HIDE DEF after, more
  <2> QED
    <3>1. CASE more
      BY <2>2, <2>3, <3>1
    <3>2. CASE ~more /\ pass \in {"ts", "cpu"}
      BY <2>1, <2>2, <3>2
    <3>3. CASE ~more /\ pass \notin {"ts", "cpu"}
      BY <1>1, <2>1, <2>2, <3>3 DEF Passes
    <3> QED
      BY <3>1, <3>2, <3>3
<1>4. iter' \in Iters /\ (pass = "cal_copy" => iter' = 0)
  BY <1>1, P2pAssumption DEF Read, Measuring, Iters
<1>5. TypeOK'
  BY <1>1, <1>3, <1>4 DEF Read, TypeOK, Passes
<1>6. Queued'
  <2>1. AllIdle'
    BY <1>2 DEF AllIdle, Idle, Read
  <2> QED
    BY <1>5, <2>1, AllIdleQueued, PTL
<1>7. UNCHANGED <<size, buf, signal, allocated, queue>>
  BY DEF Read
<1>8. Control'
  BY <1>1, <1>3, <1>4, <1>7 DEF Control, Measuring
<1>9. DataInv'
  BY <1>1, <1>3, <1>7 DEF DataInv
<1> QED
  BY <1>1, <1>3, <1>5, <1>6, <1>8, <1>9 DEF ArmedInv, StampInv, GateInv

\* The buffers are freed.
LEMMA FreeKeepsInv == P2pInv /\ Free => P2pInv'
<1> SUFFICES ASSUME P2pInv, Free PROVE P2pInv'
  OBVIOUS
<1> USE DEF P2pInv
<1>1. pc = "free" /\ pass \in {"cal_copy", "gpu"} /\ size < NumSizes
  BY DEF Free, Control
<1>2. AllIdle
  BY <1>1, IdleUnlessPlaced DEF AllIdle, Placed, Queues
<1>3. size' \in 0 .. NumSizes /\ pc' \in {"allocate", "end"} /\ (pc' # "end" => size' < NumSizes)
  BY <1>1, P2pAssumption DEF Free, TypeOK
<1>4. TypeOK'
  BY <1>3 DEF Free, TypeOK, Passes
<1>5. Queued'
  <2>1. AllIdle'
    BY <1>2 DEF AllIdle, Idle, Free
  <2> QED
    BY <1>4, <2>1, AllIdleQueued, PTL
<1> QED
  BY <1>1, <1>3, <1>4, <1>5
  DEF Free, Control, ArmedInv, DataInv, StampInv, GateInv, Measuring

-----------------------------------------------------------------------------
(* A step of an engine.                                                    *)

\* The head leaves its queue; all else stays, in its order.
Popped(q) ==
    LET h == Head(queue[q]) IN
    /\ h \in Packet /\ Has(queue[q], h)
    /\ queue' \in [Queues -> Seq(Packet)]
    /\ \A g \in Queues \ {q} : queue'[g] = queue[g]
    /\ \A p : Has(queue[q], p) <=> p = h \/ Has(queue'[q], p)
    /\ \A g \in Queues : \A p, r : Followed(queue[g], p, r) => Followed(queue'[g], p, r)
    /\ \A g \in Queues : \A p : Once(queue[g], p) => Once(queue'[g], p)
    /\ Once(queue[q], h) => ~Has(queue'[q], h)
LEMMA EnginePops ==
  ASSUME TypeOK, NEW q \in Queues, Engine(q)
  PROVE  Popped(q)
<1> DEFINE c == queue[q]
<1>1. c \in Seq(Packet) /\ c # <<>> /\ queue \in [Queues -> Seq(Packet)] /\ queue' = [queue EXCEPT ![q] = Tail(c)]
  BY DEF TypeOK, Engine
<1> HIDE DEF c
<1>2. /\ Head(c) \in Packet /\ Tail(c) \in Seq(Packet) /\ Has(c, Head(c))
      /\ \A p : Has(c, p) <=> p = Head(c) \/ Has(Tail(c), p)
  BY <1>1, HasHead
<1>3. /\ \A p, r : Followed(c, p, r) => Followed(Tail(c), p, r)
      /\ \A p : Once(c, p) => Once(Tail(c), p)
      /\ Once(c, Head(c)) => ~Has(Tail(c), Head(c))
  BY <1>1, TailOrder
<1>4. /\ queue' \in [Queues -> Seq(Packet)] /\ queue'[q] = Tail(c)
      /\ \A g \in Queues \ {q} : queue'[g] = queue[g]
  BY <1>1, <1>2
<1>5. \A g \in Queues : \A p, r : Followed(queue[g], p, r) => Followed(queue'[g], p, r)
  BY <1>3, <1>4 DEF c
<1>6. \A g \in Queues : \A p : Once(queue[g], p) => Once(queue'[g], p)
  BY <1>3, <1>4 DEF c
<1> QED
  BY <1>2, <1>3, <1>4, <1>5, <1>6 DEF Popped, c

\* What an engine can find at the head, and what it does with it.
Effect(q) ==
    LET h == Head(queue[q]) IN
    \/ /\ h.op = "time" /\ stamps' = stamps \cup {h.at}
       /\ UNCHANGED <<buf, signal>>
    \/ /\ q = "src" /\ h = Poll(iter) /\ signal[iter][4] = 0
       /\ UNCHANGED <<buf, signal, stamps>>
    \/ /\ q = "src" /\ pass = "fill" /\ UNCHANGED <<signal, stamps>>
       /\ \E it \in Iters : /\ h = Fill(<<"src", it>>, it)
                            /\ buf' = [buf EXCEPT ![<<"src", it>>] = it]
    \/ /\ q = "src" /\ pass # "fill" /\ UNCHANGED <<signal, stamps>>
       /\ h = Fill(<<"src", 0>>, 0)
       /\ buf' = [buf EXCEPT ![<<"src", 0>>] = 0]
    \/ /\ q = "dest" /\ Placed(q) /\ UNCHANGED <<signal, stamps>>
       /\ \E it \in Iters : /\ h = Fill(<<"dest", it>>, 0)
                            /\ buf' = [buf EXCEPT ![<<"dest", it>>] = 0]
    \/ /\ q = "src" /\ pass # "fill" /\ Placed(q) /\ UNCHANGED <<signal, stamps>>
       /\ h = TimedCopy
       /\ buf' = [buf EXCEPT ![<<"dest", iter>>] = buf[<<"src", iter>>]]
    \/ /\ q = "check" /\ Placed(q) /\ UNCHANGED <<signal, stamps>>
       /\ h = Readback
       /\ buf' = [buf EXCEPT ![Sys] = buf[<<"dest", iter>>]]
    \/ /\ h = Completion(q) /\ Placed(q) /\ UNCHANGED <<buf, stamps>>
       /\ signal' = [signal EXCEPT ![h.it][h.s] = @ - 1]
LEMMA EngineEffect ==
  ASSUME P2pInv, NEW q \in Queues, Engine(q)
  PROVE  Effect(q)
<1> USE DEF P2pInv
<1> DEFINE h == Head(queue[q])
<1>1. h \in Packet /\ Has(queue[q], h) /\ Execute(h)
  BY EnginePops DEF Popped, Engine
<1> HIDE DEF h
<1>2. h.op = "time" \/ (Placed(q) /\ h \in Work(q) \cup {Completion(q)})
  <2>1. QueuedOn(q)
    BY DEF Queued
  <2> QED
    BY <1>1, <2>1 DEF QueuedOn
<1>3. CASE h.op = "time"
  BY <1>1, <1>3 DEF Execute, Effect, h
<1>4. CASE Placed(q) /\ h = Completion(q)
  <2>1. h.op = "atomic"
    BY <1>4, WorkTypes
  <2> QED
    BY <1>1, <1>4, <2>1 DEF Execute, Effect, h
<1>5. CASE Placed(q) /\ h \in Work(q)
  <2>1. CASE q = "src" /\ pass = "fill"
    <3>1. PICK it \in Iters : h = Fill(<<"src", it>>, it)
      BY <1>5, <2>1 DEF Work
    <3>2. h.op = "fill" /\ h.to = <<"src", it>> /\ h.value = it
      BY <3>1 DEF Fill
    <3>3. buf' = [buf EXCEPT ![<<"src", it>>] = it] /\ UNCHANGED <<signal, stamps>>
      BY <1>1, <3>2 DEF Execute
    <3> QED
      BY <2>1, <3>1, <3>3 DEF Effect, h
  <2>2. CASE q = "src" /\ pass # "fill"
    <3>1. h \in {Fill(<<"src", 0>>, 0), TimedCopy, Poll(iter)}
      BY <1>5, <2>2 DEF Work
    <3>2. CASE h = Fill(<<"src", 0>>, 0)
      BY <1>1, <2>2, <3>2 DEF Effect, Execute, h, Fill
    <3>3. CASE h = TimedCopy
      BY <1>1, <1>5, <2>2, <3>3 DEF Effect, Execute, h, TimedCopy, Copy
    <3>4. CASE h = Poll(iter)
      BY <1>1, <2>2, <3>4 DEF Effect, Execute, h, Poll
    <3> QED
      BY <3>1, <3>2, <3>3, <3>4
  <2>3. CASE q = "dest"
    <3>1. PICK it \in Iters : h = Fill(<<"dest", it>>, 0)
      BY <1>5, <2>3 DEF Work
    <3>2. h.op = "fill" /\ h.to = <<"dest", it>> /\ h.value = 0
      BY <3>1 DEF Fill
    <3>3. buf' = [buf EXCEPT ![<<"dest", it>>] = 0] /\ UNCHANGED <<signal, stamps>>
      BY <1>1, <3>2 DEF Execute
    <3> QED
      BY <1>5, <2>3, <3>1, <3>3 DEF Effect, h
  <2>4. CASE q = "check"
    <3>1. h = Readback
      BY <1>5, <2>4 DEF Work
    <3> QED
      BY <1>1, <1>5, <2>4, <3>1 DEF Effect, Execute, h, Readback, Copy
  <2> QED
    BY <2>1, <2>2, <2>3, <2>4 DEF Queues
<1> QED
  BY <1>2, <1>3, <1>4, <1>5 DEF Effect

\* A signal changes only from 1 to 0, and by the completion it is for.
LEMMA EngineSignals ==
  ASSUME P2pInv, NEW q \in Queues, Engine(q)
  PROVE  /\ signal' \in [Iters -> [Signals -> {0, 1}]]
         /\ \A it \in Iters, s \in Signals :
              signal'[it][s] # signal[it][s]
                => /\ Head(queue[q]) = Completion(q) /\ Placed(q)
                   /\ it = Completion(q).it /\ s = Completion(q).s
<1> USE DEF P2pInv
<1> DEFINE z == Completion(q)
<1>1. signal \in [Iters -> [Signals -> {0, 1}]] /\ Effect(q)
  BY EngineEffect DEF TypeOK
<1>2. CASE UNCHANGED signal
  BY <1>1, <1>2
<1>3. CASE /\ Head(queue[q]) = z /\ Placed(q)
           /\ signal' = [signal EXCEPT ![z.it][z.s] = @ - 1]
  <2>1. z.it \in Iters /\ z.s \in Signals
    BY WorkTypes
  <2>2. Has(queue[q], z)
    BY <1>3, EnginePops DEF Popped
  <2>3. signal[z.it][z.s] = 1
    BY <2>2 DEF Queued, QueuedOn
  <2> HIDE DEF z
  <2>4. /\ signal' \in [Iters -> [Signals -> {0, 1}]]
        /\ \A it \in Iters, s \in Signals :
             signal'[it][s] # signal[it][s] => it = z.it /\ s = z.s
    BY <1>1, <1>3, <2>1, <2>3
  <2> QED
    BY <1>3, <2>4 DEF z
<1> QED
  BY <1>1, <1>2, <1>3 DEF Effect

\* A buffer that holds what it should keeps it; a fill, the copy and the
\* readback put it there.
LEMMA EngineBuffers ==
  ASSUME P2pInv, NEW q \in Queues, Engine(q)
  PROVE  LET h == Head(queue[q]) IN
         /\ buf' \in [Buffers \cup {Sys} -> {Junk} \cup Iters]
         /\ \A it \in Iters :
              \/ buf[<<"src", it>>] = it
              \/ pass = "fill" /\ q = "src" /\ h = Fill(<<"src", it>>, it)
              => buf'[<<"src", it>>] = it
         /\ \/ buf[<<"dest", iter>>] = iter
            \/ q = "src" /\ h = TimedCopy
            => (pass \in Measuring => buf'[<<"dest", iter>>] = iter)
         /\ \/ buf[Sys] = iter
            \/ q = "check" /\ h = Readback
            => (pc = "check_wait" => buf'[Sys] = iter)
<1> USE DEF P2pInv
<1> DEFINE h == Head(queue[q])
<1>1. /\ buf \in [Buffers \cup {Sys} -> {Junk} \cup Iters]
      /\ iter \in Iters /\ 0 \in Iters /\ pass \in Passes /\ Effect(q)
      /\ \A it \in Iters : <<"src", it>> \in Buffers /\ <<"dest", it>> \in Buffers
      /\ Sys \notin Buffers
  BY EngineEffect, P2pAssumption DEF TypeOK, Iters, Buffers, Sys
<1>2. /\ \A g \in {"src", "dest"}, it \in Iters, v \in Iters : Fill(<<g, it>>, v).op = "fill"
      /\ \A it \in Iters : Fill(<<"src", it>>, it).value = it
      /\ TimedCopy.op = "copy" /\ Readback.op = "copy" /\ Poll(iter).op = "poll"
      /\ Completion(q).op = "atomic"
  BY <1>1, PacketTypes, WorkTypes DEF Fill
<1> HIDE DEF h
<1>3. CASE UNCHANGED buf /\ h.op \in {"time", "poll", "atomic"}
  BY <1>1, <1>2, <1>3 DEF h
<1>4. ASSUME pass = "fill", NEW it \in Iters, h = Fill(<<"src", it>>, it),
             buf' = [buf EXCEPT ![<<"src", it>>] = it]
      PROVE  /\ buf' \in [Buffers \cup {Sys} -> {Junk} \cup Iters]
             /\ \A i \in Iters : buf[<<"src", i>>] = i \/ h = Fill(<<"src", i>>, i)
                                   => buf'[<<"src", i>>] = i
             /\ buf'[Sys] = buf[Sys] /\ pass \notin Measuring
             /\ h # TimedCopy /\ h # Readback
  <2>1. \A i \in Iters : h = Fill(<<"src", i>>, i) => i = it
    BY <1>2, <1>4
  <2> QED
    BY <1>1, <1>2, <1>4, <2>1 DEF Measuring
<1>5. ASSUME pass # "fill", h = Fill(<<"src", 0>>, 0), buf' = [buf EXCEPT ![<<"src", 0>>] = 0]
      PROVE  /\ buf' \in [Buffers \cup {Sys} -> {Junk} \cup Iters]
             /\ \A i \in Iters : buf[<<"src", i>>] = i => buf'[<<"src", i>>] = i
             /\ buf'[Sys] = buf[Sys] /\ buf'[<<"dest", iter>>] = buf[<<"dest", iter>>]
             /\ h # TimedCopy /\ h # Readback
  BY <1>1, <1>2, <1>5
<1>6. ASSUME q = "dest", Placed(q), NEW it \in Iters, buf' = [buf EXCEPT ![<<"dest", it>>] = 0]
      PROVE  /\ buf' \in [Buffers \cup {Sys} -> {Junk} \cup Iters]
             /\ \A i \in Iters : buf'[<<"src", i>>] = buf[<<"src", i>>]
             /\ pass \notin Measuring /\ pc # "check_wait"
  BY <1>1, <1>6 DEF Placed, Control, Measuring
<1>7. ASSUME q = "src", pass # "fill", Placed(q),
             buf' = [buf EXCEPT ![<<"dest", iter>>] = buf[<<"src", iter>>]]
      PROVE  /\ buf' \in [Buffers \cup {Sys} -> {Junk} \cup Iters]
             /\ \A i \in Iters : buf'[<<"src", i>>] = buf[<<"src", i>>]
             /\ pass \in Measuring => buf'[<<"dest", iter>>] = iter
             /\ pc # "check_wait"
  <2>1. pass \in Measuring => buf[<<"src", iter>>] = iter
    BY <1>1, <1>7 DEF Placed, Control, DataInv, Measuring
  <2> QED
    BY <1>1, <1>7, <2>1 DEF Placed
<1>8. ASSUME q = "check", Placed(q), buf' = [buf EXCEPT ![Sys] = buf[<<"dest", iter>>]]
      PROVE  /\ buf' \in [Buffers \cup {Sys} -> {Junk} \cup Iters]
             /\ \A i \in Iters : buf'[<<"src", i>>] = buf[<<"src", i>>]
             /\ buf'[<<"dest", iter>>] = buf[<<"dest", iter>>]
             /\ buf'[Sys] = iter
  <2>1. buf[<<"dest", iter>>] = iter
    BY <1>8 DEF Placed, DataInv
  <2> QED
    BY <1>1, <1>8, <2>1
<1>9. \/ UNCHANGED buf /\ h.op \in {"time", "poll", "atomic"}
      \/ pass = "fill" /\ \E it \in Iters : /\ h = Fill(<<"src", it>>, it)
                                            /\ buf' = [buf EXCEPT ![<<"src", it>>] = it]
      \/ /\ pass # "fill" /\ h = Fill(<<"src", 0>>, 0)
         /\ buf' = [buf EXCEPT ![<<"src", 0>>] = 0]
      \/ q = "dest" /\ Placed(q) /\ \E it \in Iters : buf' = [buf EXCEPT ![<<"dest", it>>] = 0]
      \/ /\ q = "src" /\ pass # "fill" /\ Placed(q)
         /\ buf' = [buf EXCEPT ![<<"dest", iter>>] = buf[<<"src", iter>>]]
      \/ q = "check" /\ Placed(q) /\ buf' = [buf EXCEPT ![Sys] = buf[<<"dest", iter>>]]
  BY <1>1, <1>2 DEF Effect, h
<1> QED
  BY <1>3, <1>4, <1>5, <1>6, <1>7, <1>8, <1>9 DEF h

\* What an engine executes is what the invariant says it does.
LEMMA EngineKeepsInv ==
  ASSUME P2pInv, NEW q \in Queues, Engine(q)
  PROVE  P2pInv'
<1> USE DEF P2pInv
<1> DEFINE h == Head(queue[q])
<1>1. /\ UNCHANGED <<prelaunch, pass, pc, iter, size, ts_calibrated, allocated>>
      /\ pass \in Passes /\ iter \in Iters
  BY DEF Engine, cpuVars, TypeOK
<1>2. /\ h \in Packet /\ Has(queue[q], h)
      /\ queue' \in [Queues -> Seq(Packet)]
      /\ \A g \in Queues \ {q} : queue'[g] = queue[g]
      /\ \A p : Has(queue[q], p) <=> p = h \/ Has(queue'[q], p)
      /\ \A g \in Queues : \A p, r : Followed(queue[g], p, r) => Followed(queue'[g], p, r)
      /\ \A g \in Queues : \A p : Once(queue[g], p) => Once(queue'[g], p)
      /\ Once(queue[q], h) => ~Has(queue'[q], h)
  BY EnginePops DEF Popped
<1>3. /\ signal' \in [Iters -> [Signals -> {0, 1}]]
      /\ \A it \in Iters, s \in Signals :
           signal'[it][s] # signal[it][s]
             => /\ h = Completion(q) /\ Placed(q)
                /\ it = Completion(q).it /\ s = Completion(q).s
  BY EngineSignals
<1>4. /\ buf' \in [Buffers \cup {Sys} -> {Junk} \cup Iters]
      /\ \A it \in Iters :
           \/ buf[<<"src", it>>] = it
           \/ pass = "fill" /\ q = "src" /\ h = Fill(<<"src", it>>, it)
           => buf'[<<"src", it>>] = it
      /\ \/ buf[<<"dest", iter>>] = iter
         \/ q = "src" /\ h = TimedCopy
         => (pass \in Measuring => buf'[<<"dest", iter>>] = iter)
      /\ \/ buf[Sys] = iter
         \/ q = "check" /\ h = Readback
         => (pc = "check_wait" => buf'[Sys] = iter)
  BY EngineBuffers
<1>5. /\ stamps' \in SUBSET Stamp /\ stamps \subseteq stamps'
      /\ \A k : h = Time(pass, iter, k) => <<pass, iter, k>> \in stamps'
      /\ h = Poll(iter) => signal[iter][4] = 0
  <2>1. Effect(q) /\ stamps \subseteq Stamp
    BY EngineEffect DEF TypeOK
  <2>2. /\ \A g \in {"src", "dest"}, it \in Iters, v \in Iters : Fill(<<g, it>>, v).op = "fill"
        /\ TimedCopy.op = "copy" /\ Readback.op = "copy" /\ Poll(iter).op = "poll"
        /\ Completion(q).op = "atomic" /\ 0 \in Iters
    BY <1>1, PacketTypes, WorkTypes, P2pAssumption DEF Iters
  <2>3. \A k : Time(pass, iter, k).op = "time" /\ Time(pass, iter, k).at = <<pass, iter, k>>
    BY DEF Time
  <2> HIDE DEF h
  <2>4. h.op = "time" => h.at \in Stamp
    BY <1>2 DEF Packet
  <2>5. \/ h.op = "time" /\ stamps' = stamps \cup {h.at}
        \/ h.op # "time" /\ h = Poll(iter) /\ signal[iter][4] = 0 /\ stamps' = stamps
        \/ h.op # "time" /\ h # Poll(iter) /\ stamps' = stamps
    BY <2>1, <2>2 DEF Effect, h
  <2> QED
    BY <2>1, <2>2, <2>3, <2>4, <2>5
<1> HIDE DEF h
<1>6. /\ \A g : Work(g)' = Work(g) /\ Completion(g)' = Completion(g)
      /\ UNCHANGED <<TimedCopy, Readback, Needed>>
  BY <1>1, BatchKept
<1>7. 0 \in Iters /\ NumIter - 1 \in Iters
  BY P2pAssumption DEF Iters
<1>8. TypeOK'
  BY <1>1, <1>2, <1>3, <1>4, <1>5 DEF TypeOK
<1>9. Control'
  BY <1>1 DEF Control
<1>10. \A g \in Queues : Placed(g)' <=> Placed(g)
  BY <1>1 DEF Placed
<1>11. Queued'
  <2> SUFFICES ASSUME NEW g \in Queues PROVE QueuedOn(g)'
    BY DEF Queued
  <2> DEFINE z == Completion(g)
  <2>1. /\ QueuedOn(g) /\ z.it \in Iters /\ z.s \in Signals
        /\ z.op = "atomic" /\ z \in Packet
    BY WorkTypes DEF Queued
  <2>2. \A p : Has(queue'[g], p) => Has(queue[g], p)
    BY <1>2
  <2>3. ASSUME Has(queue'[g], z) PROVE signal'[z.it][z.s] = 1
    <3>1. signal[z.it][z.s] = 1 /\ Placed(g)
      BY <2>1, <2>2, <2>3 DEF QueuedOn
    <3> SUFFICES ASSUME signal'[z.it][z.s] # signal[z.it][z.s] PROVE FALSE
      BY <3>1
    <3>2. h = Completion(q) /\ Placed(q) /\ z.it = Completion(q).it /\ z.s = Completion(q).s
      BY <1>3, <2>1
    <3>3. CASE g = q
      BY <1>2, <2>1, <2>3, <3>2, <3>3 DEF QueuedOn
    <3>4. CASE g # q
      BY <3>1, <3>2, <3>4 DEF Placed, Control, Completion, Sync, Queues
    <3> QED
      BY <3>3, <3>4
  <2> QED
    BY <1>2, <1>6, <1>10, <2>1, <2>2, <2>3 DEF QueuedOn
<1>12. ArmedInv'
  <2>1. \A it \in Iters, s \in Signals :
          signal'[it][s] # signal[it][s] => /\ Placed(q)
                                            /\ it = Completion(q).it /\ s = Completion(q).s
    BY <1>3
  <2>2. \A s \in {2, 3, 4, CheckSlot(pass)} : s \in Signals
    BY DEF Signals, CheckSlot
  <2>3. pc = "fill_src" => ~Placed(q)
    BY DEF Placed, Queues
  <2>4. pc = "fill_dest" /\ Placed(q) => Completion(q).s = 2
    BY DEF Placed, Queues, Completion, Control, Sync
  <2>5. pc \in {"release", "wait", "check"} /\ Placed(q) => Completion(q).s = 0
    BY DEF Placed, Queues, Completion, Control, Sync
  <2>6. CheckSlot(pass) # 0 /\ CheckSlot(pass)' = CheckSlot(pass)
    BY <1>1 DEF CheckSlot
  <2>7. pc \in {"fill_src", "fill_dest"} => signal'[NumIter - 1][3] = signal[NumIter - 1][3]
    BY <1>7, <2>1, <2>2, <2>3, <2>4
  <2>8. pc = "fill_src" => signal'[NumIter - 1][2] = signal[NumIter - 1][2]
    BY <1>7, <2>1, <2>2, <2>3
  <2>9. pc \in {"release", "wait", "check"} =>
          /\ signal'[iter][CheckSlot(pass)] = signal[iter][CheckSlot(pass)]
          /\ signal'[iter][4] = signal[iter][4]
    BY <1>1, <2>1, <2>2, <2>5, <2>6
  <2> QED
    BY <1>1, <2>6, <2>7, <2>8, <2>9 DEF ArmedInv
<1>13. DataInv'
  BY <1>1, <1>2, <1>4, <1>6 DEF DataInv, Control, Queues
<1>14. StampInv'
  BY <1>1, <1>2, <1>5, <1>6 DEF StampInv, Queues
<1>15. GateInv'
  <2>1. pc = "release" => h # Poll(iter)
    BY <1>5 DEF ArmedInv
  <2> QED
    BY <1>1, <1>2, <1>6, <2>1 DEF GateInv, Queues
<1> QED
  BY <1>8, <1>9, <1>11, <1>12, <1>13, <1>14, <1>15

-----------------------------------------------------------------------------
(* The theorems.                                                           *)

\* Nothing changes, nothing breaks.
LEMMA StutterKeepsInv == P2pInv /\ UNCHANGED vars => P2pInv'
<1> SUFFICES ASSUME P2pInv, UNCHANGED vars PROVE P2pInv'
  OBVIOUS
<1>1. /\ UNCHANGED <<prelaunch, pass, pc, size, iter, ts_calibrated, queue, buf>>
      /\ UNCHANGED <<signal, stamps, allocated>>
  BY DEF vars
<1>2. (\A q : Work(q)' = Work(q) /\ Completion(q)' = Completion(q)) /\ UNCHANGED <<TimedCopy, Readback, Needed>>
  BY <1>1, BatchKept
<1>3. TypeOK' /\ Control' /\ ArmedInv'
  BY <1>1 DEF P2pInv, TypeOK, Control, ArmedInv, CheckSlot
<1>4. Queued'
  BY <1>1, <1>2 DEF P2pInv, Queued, QueuedOn, Placed
<1>5. DataInv' /\ StampInv' /\ GateInv'
  BY <1>1, <1>2 DEF P2pInv, DataInv, StampInv, GateInv
<1> QED
  BY <1>3, <1>4, <1>5 DEF P2pInv

\* The invariant holds in every state of the benchmark: one batch at most is
\* under way on each queue, and what the CPU thread has seen complete is done.
THEOREM P2pInvariant == Spec => []P2pInv
<1>1. Init => P2pInv
  BY InitInv
<1>2. P2pInv /\ [Next]_vars => P2pInv'
  <2> SUFFICES ASSUME P2pInv, [Next]_vars PROVE P2pInv'
    OBVIOUS
  <2>1. CASE Cpu
    BY <2>1, AllocateKeepsInv, FillSrcKeepsInv, FillDestKeepsInv, FillWaitKeepsInv,
       SubmitKeepsInv, ReleaseKeepsInv, WaitKeepsInv, CheckKeepsInv, CheckWaitKeepsInv,
       ReadKeepsInv, FreeKeepsInv DEF Cpu
  <2>2. CASE \E q \in Queues : Engine(q)
    BY <2>2, EngineKeepsInv
  <2>3. CASE UNCHANGED vars
    BY <2>3, StutterKeepsInv
  <2> QED
    BY <2>1, <2>2, <2>3 DEF Next
<1> QED
  BY <1>1, <1>2, PTL DEF Spec

\* Every variable keeps its type: a signal is decremented only while it is 1,
\* so no completion arrives that nobody armed.
THEOREM P2pTypeCorrect == Spec => []TypeOK
<1>1. P2pInv => TypeOK
  BY DEF P2pInv
<1> QED
  BY <1>1, P2pInvariant, PTL

\* The check of the data read back never ends the program, whatever the order
\* in which the three engines execute their packets.
THEOREM P2pValidates == Spec => []ValidationPasses
<1>1. P2pInv => ValidationPasses
  BY DEF P2pInv, Control, ValidationPasses
<1> QED
  BY <1>1, P2pInvariant, PTL

\* Under prelaunch the copy is still waiting when the CPU takes the time at
\* which it releases the poll.
THEOREM P2pCopyGated == Spec => []CopyAwaitsRelease
<1>1. P2pInv => CopyAwaitsRelease
  <2> SUFFICES ASSUME P2pInv, pc = "release"
               PROVE  \E k \in DOMAIN queue["src"] : queue["src"][k] = TimedCopy
    BY DEF CopyAwaitsRelease, TimedCopy
  <2>1. queue["src"] \in Seq(Packet)
    BY DEF P2pInv, TypeOK, Queues
  <2>2. Has(queue["src"], TimedCopy)
    BY <2>1, FollowerWaits DEF P2pInv, GateInv
  <2> QED
    BY <2>1, <2>2 DEF Has
<1> QED
  BY <1>1, P2pInvariant, PTL

\* When the CPU computes a phase, the GPU has written both its timestamps (the
\* last one of the GPU-timed pass apart, which comes after the completion).
THEOREM P2pStampsWritten == Spec => []StampsBeforeSync
<1>1. P2pInv => StampsBeforeSync
  BY DEF P2pInv, StampInv, StampsBeforeSync, Needed
<1> QED
  BY <1>1, P2pInvariant, PTL

\* When the data and the signals are freed no engine has a packet left that
\* touches them.
THEOREM P2pFreedQuiescent == Spec => []FreedIsQuiescent
<1>1. P2pInv => FreedIsQuiescent
  <2> SUFFICES ASSUME P2pInv, ~allocated, NEW q \in Queues, NEW k \in DOMAIN queue[q]
               PROVE  queue[q][k].op = "time"
    BY DEF FreedIsQuiescent
  <2>1. queue[q] \in Seq(Packet) /\ k \in 1 .. Len(queue[q]) /\ queue[q][k] \in Packet
    BY DEF P2pInv, TypeOK
  <2>2. Idle(q)
    BY IdleUnlessPlaced DEF P2pInv, Control, Placed, Queues
  <2> QED
    BY <2>1, <2>2 DEF Idle, Has
<1> QED
  BY <1>1, P2pInvariant, PTL

=============================================================================
