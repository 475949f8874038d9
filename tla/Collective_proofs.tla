-------------------------- MODULE Collective_proofs --------------------------
(***************************************************************************)
(* For every number of GPUs, iterations and sizes, every way of signalling *)
(* and every plan that serves each pair once: the collective leaves the    *)
(* result it promises, and implements CollectiveSpec as far as safety goes.*)
(*                                                                         *)
(* CollectiveInv!Inv is inductive.  Steps that stay in a phase keep its    *)
(* jobs (SameJobs): the CPU thread adds a job behind what its engine has   *)
(* (Submitted) or only looks (Kept), an engine takes the head of its queue *)
(* (Popped), which has its effect and undoes no other (the ...Effect       *)
(* lemmas).  A phase ends when all its slots are clear, and then nothing   *)
(* is queued and all data has arrived (Drained).                           *)
(***************************************************************************)
EXTENDS CollectiveInv

-----------------------------------------------------------------------------
(* Steps that leave the phase as it is.                                    *)

SamePhase == Phase' = Phase /\ iter' = iter /\ env' = env

\* What a job is does not depend on how far it has got.
LEMMA SameJobs ==
  ASSUME SamePhase
  PROVE  /\ Plan' = Plan /\ NumCmds' = NumCmds /\ Commands' = Commands
         /\ Reserved' = Reserved /\ Jobs' = Jobs
         /\ \A j : /\ On(j)' = On(j) /\ Slot(j)' = Slot(j) /\ Done(j)' = Done(j)
                   /\ Data(j)' = Data(j) /\ Gates(j)' = Gates(j)
                   /\ HighFences(j)' = HighFences(j) /\ Parts(j)' = Parts(j)
                   /\ SwapOf(j)' = SwapOf(j)
<1>1. Plan' = Plan /\ env' = env /\ iter' = iter /\ Phase' = Phase
  BY DEF SamePhase, Plan
<1>2. NumCmds' = NumCmds /\ Commands' = Commands /\ \A i : List(i)' = List(i)
  BY <1>1 DEF NumCmds, Commands, List
<1>3. /\ \A i, n : SignalId(i, n)' = SignalId(i, n) /\ PollId(i, n)' = PollId(i, n)
      /\ \A it, i, k : Result(it, i, k)' = Result(it, i, k)
  BY <1>1, <1>2 DEF SignalId, PollId, Result, InPlace
<1>4. Reserved' = Reserved /\ Jobs' = Jobs
  BY <1>1, <1>2 DEF Reserved, Jobs
<1>5. \A j : On(j)' = On(j) /\ Slot(j)' = Slot(j)
  BY <1>1, <1>2, <1>3 DEF On, Slot
<1>6. \A j : /\ Done(j)' = Done(j) /\ Gates(j)' = Gates(j) /\ HighFences(j)' = HighFences(j)
  BY <1>1, <1>3, <1>5 DEF Done, Gates, HighFences
<1>7. \A i, n : DataPackets(iter, i, n)' = DataPackets(iter, i, n)
  BY <1>1, <1>2 DEF DataPackets
<1>8. /\ \A i, n : MoveData(i, n)' = MoveData(i, n)
      /\ \A i : FillData(i)' = FillData(i) /\ CheckData(i)' = CheckData(i)
  BY <1>1, <1>3, <1>7 DEF MoveData, FillData, CheckData
<1>9. \A j : Data(j)' = Data(j)
  BY <1>1, <1>8 DEF Data
<1>10. \A j : SwapOf(j)' = SwapOf(j)
  BY <1>1 DEF SwapOf
<1> QED
  BY <1>1, <1>2, <1>4, <1>5, <1>6, <1>9, <1>10 DEF Parts

\* Completions and swaps of different jobs are different, and no others.
LEMMA PartsApart ==
  ASSUME TypeOK, Serves(Plan), Control, NEW j \in Jobs, NEW k \in Jobs, j # k
  PROVE  Done(j) \notin Parts(k)
<1>1. j \in Reserved /\ k \in Reserved /\ Slot(j) # Slot(k)
  BY JobSlots
<1>2. /\ Done(j).op \in {"fence_lo", "atomic"} /\ Done(j).slot = Slot(j)
      /\ Done(k).slot = Slot(k)
  BY <1>1, DoneTypes
<1>3. \A p \in Data(k) \cup Gates(k) \cup HighFences(k) : p.op \notin {"fence_lo", "atomic"}
  BY DataTypes
<1> QED
  BY <1>1, <1>2, <1>3 DEF Parts

\* Two commands that swap exchange different chunks.
LEMMA SwapsApart ==
  ASSUME TypeOK, Serves(Plan), Plan.op = "swap", NEW c \in Commands, NEW d \in Commands, c # d
  PROVE  /\ SwapOf(c).a \notin {SwapOf(d).a, SwapOf(d).b}
         /\ SwapOf(c).b \notin {SwapOf(d).a, SwapOf(d).b}
         /\ SwapOf(c) # SwapOf(d)
<1>1. /\ c[1] \in Gpus /\ d[1] \in Gpus /\ 1 \in DOMAIN DestsOf(Plan, c) /\ 1 \in DOMAIN DestsOf(Plan, d)
  <2>1. DestsOf(Plan, c) \in Seq(Gpus) /\ DestsOf(Plan, d) \in Seq(Gpus) /\ c[1] \in Gpus /\ d[1] \in Gpus
    BY PlanTypes
  <2>2. Len(DestsOf(Plan, c)) = 1 /\ Len(DestsOf(Plan, d)) = 1
    BY DEF Serves, Commands
  <2> QED
    BY <2>1, <2>2, LenProperties
<1> DEFINE x == DestsOf(Plan, c)[1]
           y == DestsOf(Plan, d)[1]
<1>2. Covers(Plan, c, 1) \cap Covers(Plan, d, 1) = {}
  BY <1>1 DEF Serves, Commands
<1>3. /\ Covers(Plan, c, 1) = {<<c[1], x>>, <<x, c[1]>>}
      /\ Covers(Plan, d, 1) = {<<d[1], y>>, <<y, d[1]>>}
  BY DEF Covers
<1>4. /\ SwapOf(c).a = In(iter, x, c[1]) /\ SwapOf(c).b = In(iter, c[1], x)
      /\ SwapOf(d).a = In(iter, y, d[1]) /\ SwapOf(d).b = In(iter, d[1], y)
  BY DEF SwapOf, SwapPacket
<1> HIDE DEF x, y
<1>5. ~(c[1] = d[1] /\ x = y) /\ ~(c[1] = y /\ x = d[1])
  BY <1>2, <1>3
<1>6. \A g, h, k, l : In(iter, g, h) = In(iter, k, l) => g = k /\ h = l
  BY DEF In
<1>7. SwapOf(c) = SwapOf(d) => SwapOf(c).a = SwapOf(d).a
  OBVIOUS
<1> QED
  BY <1>4, <1>5, <1>6, <1>7

-----------------------------------------------------------------------------
(* Queues and signals.                                                     *)

\* When every slot is clear every job has been done.
LEMMA Drained ==
  ASSUME Inv, \A j \in Placed : signal[iter][Slot(j)] = 0
  PROVE  /\ \A e \in Engines : queue[e] = <<>>
         /\ \A j \in Placed : \A p \in Data(j) : Arrived(p)
<1>1. \A j \in Placed : ~Has(queue[On(j)], Done(j))
  BY JobSlots DEF Inv, Armed
<1>2. ASSUME NEW e \in Engines PROVE queue[e] = <<>>
  <2>1. queue[e] \in Seq(Packet) /\ EndsIn(queue[e], {Done(j) : j \in {k \in Placed : On(k) = e}})
    BY DEF Inv, TypeOK, Queued
  <2>2. \A r \in {Done(j) : j \in {k \in Placed : On(k) = e}} : ~Has(queue[e], r)
    BY <1>1
  <2> QED
    BY <2>1, <2>2, EndWaits
<1>3. ASSUME NEW j \in Placed, NEW p \in Data(j) PROVE Arrived(p)
  BY <1>1, BeforeWaits DEF Inv, DataInv
<1> QED
  BY <1>2, <1>3

\* Between two phases every queue is empty.
LEMMA NothingQueued ==
  ASSUME Inv, Phase = "none"
  PROVE  \A e \in Engines : queue[e] = <<>>
<1>1. Placed = {}
  BY PhaseJobs
<1> QED
  BY <1>1, Drained

\* A phase begins with empty queues.
LEMMA Begun ==
  ASSUME \A e \in Engines : queue[e] = <<>>, queue' = queue, Placed' = {}
  PROVE  Queued' /\ DataInv'
<1>1. Queued'
  BY EmptySeq DEF Queued, EndsIn
<1>2. DataInv'
  BY DEF DataInv
<1> QED
  BY <1>1, <1>2

\* Nothing changes when neither jobs, queues nor their slots do.
LEMMA Kept ==
  ASSUME Inv, SamePhase, Placed' = Placed, UNCHANGED <<queue, mem>>, SignalsNeverWrap',
         \A j \in Reserved : signal'[iter][Slot(j)] = signal[iter][Slot(j)]
  PROVE  Queued' /\ Armed' /\ DataInv' /\ (Sources /\ (Plan.op = "swap" => Swaps) =>
                                             Sources' /\ (Plan'.op = "swap" => Swaps'))
<1>1. /\ Plan' = Plan /\ Commands' = Commands /\ Reserved' = Reserved /\ iter' = iter
      /\ \A j : /\ On(j)' = On(j) /\ Slot(j)' = Slot(j) /\ Done(j)' = Done(j)
                /\ Data(j)' = Data(j) /\ Parts(j)' = Parts(j) /\ SwapOf(j)' = SwapOf(j)
  BY SameJobs DEF SamePhase
<1>2. Queued'
  <2>1. Queued
    BY DEF Inv
  <2> QED
    BY <1>1, <2>1 DEF Queued
<1>3. Armed'
  BY <1>1 DEF Inv, Armed
<1>4. DataInv'
  <2>1. DataInv
    BY DEF Inv
  <2>2. \A p : Arrived(p)' = Arrived(p)
    BY DEF Arrived
  <2> QED
    BY <1>1, <2>1, <2>2 DEF DataInv
<1>5. Sources' = Sources
  BY <1>1 DEF Sources, Inputs
<1>6. Swaps => Swaps'
  <2>1. \A i, d : Untouched(i, d)' = Untouched(i, d)
    BY <1>1 DEF Untouched
  <2> QED
    BY <1>1, <2>1 DEF Swaps
<1> QED
  BY <1>1, <1>2, <1>3, <1>4, <1>5, <1>6

\* A job's packets go behind the others on its engine.
LEMMA Submitted ==
  ASSUME Inv, SamePhase, NEW j \in Jobs \ Placed, NEW d, WellMade(j, d),
         Placed' = Placed \cup {j}, queue' = [queue EXCEPT ![On(j)] = @ \o d],
         UNCHANGED <<mem, signal>>
  PROVE  /\ queue' \in [Engines -> Seq(Packet)] /\ Queued' /\ Armed' /\ DataInv'
         /\ Phase = "move" /\ env.poll
              /\ (\A e \in Engines : queue[e] # <<>> => Head(queue[e]).op = "poll")
              => \A e \in Engines : queue'[e] # <<>> => Head(queue'[e]).op = "poll"
         /\ Phase = "move" /\ Sources /\ (Plan.op = "swap" => Swaps) =>
              Sources' /\ (Plan'.op = "swap" => Swaps')
<1> DEFINE c == queue[On(j)]
           z == Done(j)
<1>1. /\ TypeOK /\ Serves(Plan) /\ Control /\ Queued /\ Armed /\ DataInv
      /\ Placed \subseteq Jobs /\ Jobs \subseteq Reserved /\ On(j) \in Engines
      /\ \A k \in Placed : On(k) \in Engines
  BY JobSlots, JobEngine DEF Inv
<1>2. /\ Plan' = Plan /\ Commands' = Commands /\ Reserved' = Reserved /\ iter' = iter
      /\ \A k : /\ On(k)' = On(k) /\ Slot(k)' = Slot(k) /\ Done(k)' = Done(k)
                /\ Data(k)' = Data(k) /\ Parts(k)' = Parts(k) /\ SwapOf(k)' = SwapOf(k)
  BY SameJobs DEF SamePhase
<1>3. /\ c \in Seq(Packet) /\ d \in Seq(Packet) /\ d # <<>> /\ c \o d \in Seq(Packet)
      /\ \A p : Has(d, p) => p \in Parts(j)
      /\ \A p : Has(c \o d, p) <=> Has(c, p) \/ Has(d, p)
      /\ \A p, r : Before(c, p, r) \/ Before(d, p, r) => Before(c \o d, p, r)
      /\ \A R : EndsIn(d, R) => EndsIn(c \o d, R)
      /\ c # <<>> => Head(c \o d) = Head(c)
  BY <1>1, HasBoth, BothBefore DEF TypeOK, WellMade
<1>4. /\ queue' \in [Engines -> Seq(Packet)] /\ queue'[On(j)] = c \o d
      /\ \A e \in Engines : e # On(j) => queue'[e] = queue[e]
  BY <1>1, <1>3 DEF TypeOK
<1>5. \A k \in Placed : ~Has(d, Done(k)) /\ k # j
  BY <1>1, <1>3, PartsApart
<1>6. \A e \in Engines : \A p : Has(queue[e], p) => \E k \in Placed : On(k) = e /\ p \in Parts(k)
  BY <1>1 DEF Queued, Has
<1>7. ~Has(c, z)
  BY <1>1, <1>6, PartsApart
<1> HIDE DEF c, z
<1>8. Queued'
  <2>1. ASSUME NEW e \in Engines, NEW p, Has(queue'[e], p)
        PROVE  \E k \in Placed \cup {j} : On(k) = e /\ p \in Parts(k)
    <3>1. CASE e = On(j)
      BY <1>1, <1>3, <1>4, <1>6, <2>1, <3>1 DEF c
    <3>2. CASE e # On(j)
      BY <1>4, <1>6, <2>1, <3>2
    <3> QED
      BY <3>1, <3>2
  <2>2. ASSUME NEW e \in Engines
        PROVE  EndsIn(queue'[e], {Done(k) : k \in {l \in Placed \cup {j} : On(l) = e}})
    <3> DEFINE R == {Done(k) : k \in {l \in Placed \cup {j} : On(l) = e}}
    <3>1. CASE e = On(j)
      <4>1. {z} \subseteq R /\ EndsIn(d, {z})
        BY <3>1 DEF z, WellMade
      <4>2. EndsIn(d, R)
        BY <4>1 DEF EndsIn
      <4> QED
        BY <1>3, <1>4, <3>1, <4>2
    <3>2. CASE e # On(j)
      <4>1. EndsIn(queue[e], {Done(k) : k \in {l \in Placed : On(l) = e}})
        BY <1>1 DEF Queued
      <4>2. {Done(k) : k \in {l \in Placed : On(l) = e}} \subseteq R
        OBVIOUS
      <4> QED
        BY <1>4, <3>2, <4>1, <4>2 DEF EndsIn
    <3> QED
      BY <3>1, <3>2
  <2>3. ASSUME NEW k \in Placed \cup {j} PROVE Once(queue'[On(k)], Done(k))
    <3>1. CASE k = j
      <4>1. Once(d, z)
        BY DEF WellMade, z
      <4>2. Once(c \o d, z)
        BY <1>3, <1>7, <4>1, BothOnce
      <4> QED
        BY <1>4, <3>1, <4>2 DEF z
    <3>2. CASE k \in Placed /\ On(k) = On(j)
      <4>1. Once(c, Done(k)) /\ ~Has(d, Done(k))
        BY <1>1, <1>5, <3>2 DEF Queued, c
      <4>2. Once(c \o d, Done(k))
        BY <1>3, <4>1, BothOnce
      <4> QED
        BY <1>4, <3>2, <4>2
    <3>3. CASE k \in Placed /\ On(k) # On(j)
      <4>1. Once(queue[On(k)], Done(k)) /\ On(k) \in Engines
        BY <1>1, <3>3 DEF Queued
      <4> QED
        BY <1>4, <3>3, <4>1
    <3> QED
      BY <3>1, <3>2, <3>3
  <2>4. \A e \in Engines : \A k \in 1 .. Len(queue'[e]) :
          \E l \in Placed \cup {j} : On(l) = e /\ queue'[e][k] \in Parts(l)
    BY <2>1 DEF Has
  <2> QED
    <3>1. \A e \in Engines : EndsIn(queue'[e], {Done(k)' : k \in {l \in Placed' : On(l)' = e}})
      BY <1>2, <2>2
    <3>2. \A k \in Placed' : Once(queue'[On(k)'], Done(k)')
      BY <1>2, <2>3
    <3>3. \A e \in Engines : \A k \in 1 .. Len(queue'[e]) :
            \E l \in Placed' : On(l)' = e /\ queue'[e][k] \in Parts(l)'
      BY <1>2, <2>4
    <3> QED
      BY <3>1, <3>2, <3>3 DEF Queued
<1>9. Armed'
  <2>1. ASSUME NEW k \in Reserved
        PROVE  \/ signal[iter][Slot(k)] = 1
               \/ k \in Placed \cup {j} /\ ~Has(queue'[On(k)], Done(k))
    <3>1. CASE k \in Placed /\ ~Has(queue[On(k)], Done(k))
      <4>1. CASE On(k) = On(j)
        BY <1>3, <1>4, <1>5, <3>1, <4>1 DEF c
      <4>2. CASE On(k) # On(j)
        BY <1>1, <1>4, <3>1, <4>2
      <4> QED
        BY <3>1, <4>1, <4>2
    <3> QED
      BY <1>1, <3>1 DEF Armed
  <2>2. SignalsNeverWrap'
    BY <1>1 DEF Armed, SignalsNeverWrap
  <2> QED
    BY <1>2, <2>1, <2>2 DEF Armed
<1>10. DataInv'
  <2>1. ASSUME NEW k \in Placed \cup {j}, NEW p \in Data(k)
        PROVE  Arrived(p) \/ Before(queue'[On(k)], p, Done(k))
    <3>1. CASE k = j
      <4>1. Before(d, p, z)
        BY <2>1, <3>1 DEF WellMade, z
      <4>2. Before(c \o d, p, z)
        BY <1>3, <4>1
      <4> QED
        BY <1>4, <3>1, <4>2 DEF z
    <3>2. CASE k \in Placed /\ Before(queue[On(k)], p, Done(k))
      <4>1. CASE On(k) = On(j)
        BY <1>3, <1>4, <3>2, <4>1 DEF c
      <4>2. CASE On(k) # On(j)
        BY <1>1, <1>4, <3>2, <4>2
      <4> QED
        BY <4>1, <4>2
    <3> QED
      BY <1>1, <2>1, <3>1, <3>2 DEF DataInv
  <2>2. \A p : Arrived(p)' = Arrived(p)
    BY DEF Arrived
  <2> QED
    BY <1>2, <2>1, <2>2 DEF DataInv
<1>11. ASSUME Phase = "move", env.poll,
              \A e \in Engines : queue[e] # <<>> => Head(queue[e]).op = "poll",
              NEW e \in Engines, queue'[e] # <<>>
       PROVE  Head(queue'[e]).op = "poll"
  <2>1. CASE e = On(j) /\ c # <<>>
    BY <1>1, <1>3, <1>4, <1>11, <2>1 DEF c
  <2>2. CASE e = On(j) /\ c = <<>>
    <3>1. c \o d = d
      BY <1>3, <2>2, ConcatEmptySeq
    <3> QED
      BY <1>4, <1>11, <2>2, <3>1 DEF WellMade
  <2>3. CASE e # On(j)
    BY <1>4, <1>11, <2>3
  <2> QED
    BY <2>1, <2>2, <2>3
<1>12. Sources' = Sources
  BY <1>2 DEF Sources, Inputs
<1>13. ASSUME Phase = "move", Plan.op = "swap", Swaps PROVE Swaps'
  <2>1. /\ Jobs = Commands /\ \A k \in Commands : SwapOf(k) \in Data(k) /\ SwapOf(k).op = "swap"
    BY <1>1, <1>13, PhaseJobs, MoveShape DEF SwapOf, SwapPacket
  <2>2. \A k \in Commands, l \in Commands : SwapOf(k) \in Parts(l) => k = l
    <3> SUFFICES ASSUME NEW k \in Commands, NEW l \in Commands, SwapOf(k) \in Parts(l), k # l
                 PROVE  FALSE
      OBVIOUS
    <3>1. l \in Jobs /\ l \in Reserved
      BY <1>1, <2>1
    <3>2. SwapOf(k) \in Data(l)
      BY <1>1, <2>1, <3>1, DataTypes, DoneTypes DEF Parts
    <3>3. SwapOf(k) = SwapOf(l)
      <4>1. Data(l) = {SwapOf(l)}
        BY <1>1, <1>13, PhaseJobs, MoveShape
      <4> QED
        BY <3>2, <4>1
    <3> QED
      BY <1>1, <1>13, <3>3, SwapsApart
  <2>3. \A i, e : Untouched(i, e)' = Untouched(i, e)
    BY <1>2 DEF Untouched
  <2>4. ASSUME NEW k \in Commands, k \notin Placed \cup {j} \/ Has(queue'[On(k)], SwapOf(k))
        PROVE  Untouched(k[1], DestsOf(Plan, k)[1])
    <3>1. CASE k \notin Placed
      BY <1>13, <3>1 DEF Swaps
    <3>2. CASE k \in Placed /\ On(k) = On(j)
      <4>1. Has(c, SwapOf(k))
        BY <1>1, <1>3, <1>4, <1>5, <2>1, <2>2, <2>4, <3>2
      <4> QED
        BY <1>13, <3>2, <4>1 DEF Swaps, c
    <3>3. CASE k \in Placed /\ On(k) # On(j)
      BY <1>1, <1>4, <1>13, <2>4, <3>3 DEF Swaps
    <3> QED
      BY <3>1, <3>2, <3>3
  <2>5. ASSUME NEW k \in Placed \cup {j} PROVE Once(queue'[On(k)], SwapOf(k))
    <3>1. CASE k = j
      <4>1. Once(d, SwapOf(j))
        BY <1>13 DEF WellMade
      <4>2. ~Has(c, SwapOf(j))
        <5> SUFFICES ASSUME Has(c, SwapOf(j)) PROVE FALSE
          OBVIOUS
        <5>1. PICK l \in Placed : SwapOf(j) \in Parts(l)
          BY <1>1, <1>6 DEF c
        <5> QED
          BY <1>1, <2>1, <2>2, <5>1
      <4>3. Once(c \o d, SwapOf(j))
        BY <1>3, <4>1, <4>2, BothOnce
      <4> QED
        BY <1>4, <3>1, <4>3
    <3>2. CASE k \in Placed /\ On(k) = On(j)
      <4>1. Once(c, SwapOf(k))
        BY <1>13, <3>2 DEF Swaps, c
      <4>2. ~Has(d, SwapOf(k))
        BY <1>1, <1>3, <1>5, <2>1, <2>2, <3>2
      <4>3. Once(c \o d, SwapOf(k))
        BY <1>3, <4>1, <4>2, BothOnce
      <4> QED
        BY <1>4, <3>2, <4>3
    <3>3. CASE k \in Placed /\ On(k) # On(j)
      BY <1>1, <1>4, <1>13, <3>3 DEF Swaps
    <3> QED
      BY <3>1, <3>2, <3>3
  <2> QED
    BY <1>2, <1>13, <2>3, <2>4, <2>5 DEF Swaps
<1> QED
  BY <1>2, <1>4, <1>8, <1>9, <1>10, <1>11, <1>12, <1>13

-----------------------------------------------------------------------------
(* An engine executes a packet.                                            *)

\* What fences and atomics do to a slot that is set or clear.
LEMMA SignalArith ==
  /\ 0 \in 0 .. Half * Half - 1 /\ 1 \in 0 .. Half * Half - 1
  /\ \A v \in {0, 1} : LowHalf(v) = v /\ ClearLow(v) = 0 /\ ClearHigh(v) = v
  /\ Decrement(1) = 0
<1>1. Half \in Nat /\ Half > 1
  BY CollectiveAssumption
<1>2. Half * Half \in Nat /\ Half * Half > 1
  <2>1. (Half - 1) * Half >= 0 /\ Half * Half = (Half - 1) * Half + Half
    BY <1>1
  <2> QED
    BY <1>1, <2>1
<1>3. \A v \in {0, 1} : v % Half = v
  BY <1>1
<1>4. \A n \in Nat : n > 1 => (1 + n - 1) % n = 0
  BY Z3
<1>5. Decrement(1) = 0
  BY <1>2, <1>4 DEF Decrement
<1> QED
  BY <1>2, <1>3, <1>5 DEF LowHalf, ClearLow, ClearHigh

\* The head of a queue belongs to a job, and so does what an engine does.
LEMMA HeadJob ==
  ASSUME Inv, NEW e \in Engines, queue[e] # <<>>
  PROVE  /\ Head(queue[e]) \in Packet /\ Has(queue[e], Head(queue[e]))
         /\ \E j \in Placed : On(j) = e /\ Head(queue[e]) \in Parts(j)
<1>1. queue[e] \in Seq(Packet)
  BY DEF Inv, TypeOK
<1>2. Head(queue[e]) \in Packet /\ Has(queue[e], Head(queue[e]))
  BY <1>1, HasHead
<1>3. PICK k \in 1 .. Len(queue[e]) : queue[e][k] = Head(queue[e])
  BY <1>2 DEF Has
<1> QED
  BY <1>2, <1>3 DEF Inv, Queued

\* Its effect on the signals: a completion clears its job's slot, a poll and
\* the fence of the high half change nothing.
Clears(j) ==
    \A it \in Iters, s \in Slots :
      signal'[it][s] = IF it = iter /\ s = Slot(j) THEN 0 ELSE signal[it][s]
LEMMA ExecEffect ==
  ASSUME Inv, NEW e \in Engines, Engine(e), NEW j \in Placed, On(j) = e, Head(queue[e]) \in Parts(j)
  PROVE  /\ signal' \in [Iters -> [Slots -> 0 .. Half * Half - 1]]
         /\ \/ /\ Head(queue[e]) \in Data(j) /\ ExecData(e)
            \/ /\ Head(queue[e]) \in Gates(j) /\ UNCHANGED <<mem, signal>>
               /\ signal[iter][PollId(j[1], j[2])] = 0
            \/ /\ Head(queue[e]) \in HighFences(j) /\ UNCHANGED mem
               /\ \A it \in Iters, s \in Slots : signal'[it][s] = signal[it][s]
            \/ /\ Head(queue[e]) = Done(j) /\ UNCHANGED mem /\ Clears(j)
<1> DEFINE p == Head(queue[e])
<1>1. /\ TypeOK /\ Serves(Plan) /\ Control /\ Armed
      /\ j \in Jobs /\ j \in Reserved /\ Slot(j) \in Slots /\ iter \in Iters
      /\ signal \in [Iters -> [Slots -> 0 .. Half * Half - 1]]
      /\ \A it \in Iters, s \in Slots : signal[it][s] \in {0, 1}
  BY JobSlots DEF Inv, TypeOK, Armed, SignalsNeverWrap
<1>2. /\ ExecPoll(e) \/ ExecData(e) \/ ExecSync(e)
      /\ p \in Data(j) \/ p \in Gates(j) \/ p \in HighFences(j) \/ p = Done(j)
  BY DEF Engine, Parts
<1>3. CASE p \in Data(j)
  <2>1. p.op \in {"fill", "copy", "swap"}
    BY <1>1, <1>3, DataTypes
  <2>2. ExecData(e)
    BY <1>2, <2>1 DEF ExecPoll, ExecSync
  <2> QED
    BY <1>1, <1>3, <2>2 DEF ExecData
<1>4. CASE p \in Gates(j)
  <2>1. /\ p = PollPacket(iter, PollId(j[1], j[2])) /\ p.op = "poll"
        /\ j[1] \in Gpus /\ j[2] \in 1 .. NumCmds
    BY <1>1, <1>4, DataTypes
  <2>2. ExecPoll(e)
    BY <1>2, <2>1 DEF ExecData, ExecSync
  <2>3. PollId(j[1], j[2]) \in Slots /\ p.it = iter /\ p.slot = PollId(j[1], j[2])
    BY <1>1, <2>1, SlotTypes DEF PollPacket
  <2>4. LowHalf(signal[iter][PollId(j[1], j[2])]) = 0 /\ UNCHANGED <<mem, signal>>
    BY <2>2, <2>3 DEF ExecPoll
  <2>5. signal[iter][PollId(j[1], j[2])] = 0
    BY <1>1, <2>3, <2>4, SignalArith
  <2> QED
    BY <1>1, <1>4, <2>4, <2>5
<1>5. CASE p \in HighFences(j)
  <2>1. p = SyncPacket("fence_hi", iter, Slot(j))
    BY <1>5 DEF HighFences
  <2>2. p.op = "fence_hi" /\ p.it = iter /\ p.slot = Slot(j)
    BY <2>1 DEF SyncPacket
  <2>3. signal' = [signal EXCEPT ![iter][Slot(j)] = ClearHigh(@)] /\ UNCHANGED mem
    <3>1. ExecSync(e)
      BY <1>2, <2>2 DEF ExecPoll, ExecData
    <3> QED
      BY <2>2, <3>1 DEF ExecSync
  <2>4. ClearHigh(signal[iter][Slot(j)]) = signal[iter][Slot(j)]
    BY <1>1, SignalArith
  <2>5. signal' \in [Iters -> [Slots -> 0 .. Half * Half - 1]]
    BY <1>1, <2>3, <2>4
  <2>6. \A it \in Iters, s \in Slots : signal'[it][s] = signal[it][s]
    BY <1>1, <2>3, <2>4
  <2> QED
    BY <1>5, <2>3, <2>5, <2>6
<1>6. CASE p = Done(j)
  <2>1. p.op \in {"fence_lo", "atomic"} /\ p.it = iter /\ p.slot = Slot(j)
    BY <1>1, <1>6, DoneTypes
  <2>2. signal[iter][Slot(j)] = 1
    <3>1. Has(queue[On(j)], Done(j))
      BY <1>6, HeadJob DEF Engine
    <3> QED
      BY <1>1, <3>1 DEF Armed
  <2>3. UNCHANGED mem /\ signal' = [signal EXCEPT ![iter][Slot(j)] = 0]
    <3>0. ExecSync(e)
      BY <1>2, <2>1 DEF ExecPoll, ExecData
    <3>1. CASE p.op = "fence_lo"
      <4>1. UNCHANGED mem /\ signal' = [signal EXCEPT ![iter][Slot(j)] = ClearLow(@)]
        BY <2>1, <3>0, <3>1 DEF ExecSync
      <4>2. ClearLow(signal[iter][Slot(j)]) = 0
        BY <2>2, SignalArith
      <4> QED
        BY <1>1, <4>1, <4>2
    <3>2. CASE p.op = "atomic"
      <4>1. UNCHANGED mem /\ signal' = [signal EXCEPT ![iter][Slot(j)] = Decrement(@)]
        BY <2>1, <3>0, <3>2 DEF ExecSync
      <4>2. Decrement(signal[iter][Slot(j)]) = 0
        BY <2>2, SignalArith
      <4> QED
        BY <1>1, <4>1, <4>2
    <3> QED
      BY <2>1, <3>1, <3>2
  <2>4. signal' \in [Iters -> [Slots -> 0 .. Half * Half - 1]]
    BY <1>1, <2>3, SignalArith
  <2>5. Clears(j)
    BY <1>1, <2>3 DEF Clears
  <2> QED
    BY <1>6, <2>3, <2>4, <2>5
<1> QED
  BY <1>2, <1>3, <1>4, <1>5, <1>6

-----------------------------------------------------------------------------
(* What a packet does to memory.                                           *)

\* It has its effect and undoes no other one; it writes where its phase does,
\* never to a source, and a swap exchanges one pair only.
Effect(j, p) ==
    /\ mem' \in [Address -> Value]
    /\ Arrived(p)'
    /\ \A k \in Placed : \A q \in Data(k) : Arrived(q) => Arrived(q)'
    /\ \A a \in Address : mem'[a] # mem[a] =>
         IF Phase = "check" THEN a[1] = "sys" ELSE a[1] # "sys" /\ a[2] = iter
    /\ Phase = "move" =>
         /\ \A i \in Gpus : mem'[In(iter, i, i)] = mem[In(iter, i, i)]
         /\ Plan.op = "aa" => \A a \in Address : mem'[a] # mem[a] => a[1] = "out" /\ a[3] # a[4]
         /\ Plan.op = "swap" => \A c \in Commands \ {j} :
              Untouched(c[1], DestsOf(Plan, c)[1]) => Untouched(c[1], DestsOf(Plan, c)[1])'

\* Addresses are different when anything about them is.
LEMMA AddressParts ==
  /\ \A it, i, k : /\ In(it, i, k)[1] = "in" /\ In(it, i, k)[2] = it
                   /\ In(it, i, k)[3] = i /\ In(it, i, k)[4] = k
                   /\ Out(it, i, k)[1] = "out" /\ Out(it, i, k)[2] = it
                   /\ Out(it, i, k)[3] = i /\ Out(it, i, k)[4] = k
  /\ \A i, k : Sys(i, k)[1] = "sys" /\ Sys(i, k)[3] = i /\ Sys(i, k)[4] = k
BY DEF In, Out, Sys

\* A fill writes a chunk of its own.
LEMMA FillEffect ==
  ASSUME Inv, SamePhase, Phase = "fill", NEW e \in Engines, ExecData(e), NEW j \in Placed,
         NEW p \in Data(j), p = Head(queue[e])
  PROVE  Effect(j, p)
<1> DEFINE Want(i, g) == IF i = g THEN Pattern(i, g) ELSE 0
<1>1. /\ \A k \in Placed : k[1] \in Gpus /\ Data(k) = FillData(k[1])
      /\ iter \in Iters /\ mem \in [Address -> Value] /\ Phase # "check" /\ Phase # "move"
  BY JobSlots, PhaseJobs DEF Inv, TypeOK
<1>2. \A k \in Placed : \A q \in Data(k) : \E i, g \in Gpus :
        \/ q = FillPacket(In(iter, i, g), Pattern(i, g))
        \/ q = FillPacket(Out(iter, i, g), Want(i, g))
  BY <1>1 DEF FillData
<1>3. \A a, v : /\ FillPacket(a, v).op = "fill" /\ FillPacket(a, v).to = a
                /\ FillPacket(a, v).value = v
  BY DEF FillPacket
<1>4. \A i, g \in Gpus : Want(i, g) \in Value /\ Pattern(i, g) \in Value
  BY ValueTypes
<1> HIDE DEF Want
<1>5. \A k \in Placed : \A q \in Data(k) :
        /\ q.op = "fill" /\ q.to \in Address /\ q.value \in Value
        /\ q.to[1] # "sys" /\ q.to[2] = iter
  BY <1>1, <1>2, <1>3, <1>4, ValueTypes, AddressParts
<1>6. ASSUME NEW k \in Placed, NEW q \in Data(k), q.to = p.to PROVE q.value = p.value
  <2>1. PICK i \in Gpus, g \in Gpus : \/ q = FillPacket(In(iter, i, g), Pattern(i, g))
                                      \/ q = FillPacket(Out(iter, i, g), Want(i, g))
    BY <1>2
  <2>2. PICK i2 \in Gpus, g2 \in Gpus : \/ p = FillPacket(In(iter, i2, g2), Pattern(i2, g2))
                                        \/ p = FillPacket(Out(iter, i2, g2), Want(i2, g2))
    BY <1>2
  <2>3. i = i2 /\ g = g2
    BY <1>3, <1>6, <2>1, <2>2, AddressParts
  <2>4. In(iter, i, g) # Out(iter, i, g)
    BY DEF In, Out
  <2> QED
    BY <1>3, <1>6, <2>1, <2>2, <2>3, <2>4
<1>7. p.op = "fill" /\ p.to \in Address /\ p.value \in Value /\ p.to[1] # "sys" /\ p.to[2] = iter
  BY <1>5
<1>8. mem' = [mem EXCEPT ![p.to] = p.value]
  BY <1>7 DEF ExecData
<1>9. mem' \in [Address -> Value] /\ \A a \in Address : mem'[a] = IF a = p.to THEN p.value ELSE mem[a]
  BY <1>1, <1>7, <1>8
<1>10. \A q : q.op = "fill" => (Arrived(q) <=> mem[q.to] = q.value) /\ (Arrived(q)' <=> mem'[q.to] = q.value)
  BY DEF Arrived
<1>11. \A k \in Placed : \A q \in Data(k) : Arrived(q) => Arrived(q)'
  BY <1>5, <1>6, <1>9, <1>10
<1>12. Arrived(p)'
  BY <1>7, <1>9, <1>10
<1>13. \A a \in Address : mem'[a] # mem[a] => a[1] # "sys" /\ a[2] = iter
  BY <1>7, <1>9
<1> QED
  BY <1>1, <1>9, <1>11, <1>12, <1>13 DEF Effect

\* A readback copies a result to system memory, which no packet reads.
LEMMA CheckEffect ==
  ASSUME Inv, SamePhase, Phase = "check", NEW e \in Engines, ExecData(e), NEW j \in Placed,
         NEW p \in Data(j), p = Head(queue[e])
  PROVE  Effect(j, p)
<1>1. /\ \A k \in Placed : k[1] \in Gpus /\ Data(k) = CheckData(k[1])
      /\ iter \in Iters /\ mem \in [Address -> Value] /\ Phase # "move"
  BY JobSlots, PhaseJobs DEF Inv, TypeOK
<1>2. \A k \in Placed : \A q \in Data(k) : \E i, g \in Gpus :
        q.op = "copy" /\ q.from = Result(iter, i, g) /\ q.to = {Sys(i, g)}
  BY <1>1 DEF CheckData, CopyPacket
<1>3. \A i, g : Result(iter, i, g)[1] # "sys" /\ Result(iter, i, g) \in {In(iter, i, g), Out(iter, i, g)}
  BY AddressParts DEF Result
<1>4. \A i, g \in Gpus : Result(iter, i, g) \in Address /\ Sys(i, g) \in Address
  BY <1>1, <1>3, ValueTypes
<1>5. PICK i \in Gpus, g \in Gpus : p.op = "copy" /\ p.from = Result(iter, i, g) /\ p.to = {Sys(i, g)}
  BY <1>2
<1>6. mem' = [a \in Address |-> IF a \in p.to THEN mem[p.from] ELSE mem[a]]
  BY <1>5 DEF ExecData
<1>7. /\ mem' \in [Address -> Value]
      /\ \A a \in Address : mem'[a] = IF a = Sys(i, g) THEN mem[Result(iter, i, g)] ELSE mem[a]
  BY <1>1, <1>4, <1>5, <1>6
<1>8. \A q : q.op = "copy" => /\ Arrived(q) <=> \A a \in q.to : mem[a] = mem[q.from]
                              /\ Arrived(q)' <=> \A a \in q.to : mem'[a] = mem'[q.from]
  BY DEF Arrived
<1>9. \A h, k \in Gpus : mem'[Result(iter, h, k)] = mem[Result(iter, h, k)]
  BY <1>3, <1>4, <1>7, AddressParts
<1>10. ASSUME NEW k \in Placed, NEW q \in Data(k), Arrived(q) PROVE Arrived(q)'
  <2>1. PICK h \in Gpus, l \in Gpus : q.op = "copy" /\ q.from = Result(iter, h, l) /\ q.to = {Sys(h, l)}
    BY <1>2
  <2>2. mem[Sys(h, l)] = mem[Result(iter, h, l)]
    BY <1>8, <1>10, <2>1
  <2>3. mem'[Sys(h, l)] = mem'[Result(iter, h, l)]
    <3>1. CASE Sys(h, l) = Sys(i, g)
      <4>1. h = i /\ l = g
        BY <3>1, AddressParts
      <4> QED
        BY <1>4, <1>7, <1>9, <4>1
    <3>2. CASE Sys(h, l) # Sys(i, g)
      BY <1>4, <1>7, <1>9, <2>2, <3>2
    <3> QED
      BY <3>1, <3>2
  <2> QED
    BY <1>8, <2>1, <2>3
<1>11. Arrived(p)'
  BY <1>4, <1>5, <1>7, <1>8, <1>9
<1>12. \A a \in Address : mem'[a] # mem[a] => a[1] = "sys"
  BY <1>7, AddressParts
<1> QED
  BY <1>1, <1>7, <1>10, <1>11, <1>12 DEF Effect

\* An all-gather copy pushes an own chunk, which nobody overwrites.
LEMMA AllgatherEffect ==
  ASSUME Inv, SamePhase, Phase = "move", Plan.op = "ag", NEW e \in Engines, ExecData(e),
         NEW j \in Placed, NEW p \in Data(j), p = Head(queue[e])
  PROVE  Effect(j, p)
<1>1. /\ TypeOK /\ Serves(Plan) /\ iter \in Iters /\ mem \in [Address -> Value]
      /\ \A k \in Placed : k \in Commands /\ k[1] \in Gpus /\ Data(k) = MoveData(k[1], k[2])
  BY JobSlots, PhaseJobs, PlanTypes DEF Inv, TypeOK
<1>2. ASSUME NEW k \in Placed, NEW q \in Data(k)
      PROVE  /\ q.op = "copy" /\ q.from = In(iter, k[1], k[1])
             /\ \A a \in q.to : \E d \in Gpus : d # k[1] /\ a = In(iter, d, k[1])
  <2>1. AgShape(k, q)
    BY <1>1, MoveShape
  <2>2. \A n \in DOMAIN DestsOf(Plan, k) : DestsOf(Plan, k)[n] \in Gpus /\ DestsOf(Plan, k)[n] # k[1]
    <3>1. DestsOf(Plan, k) \in Seq(Gpus)
      BY <1>1, PlanTypes
    <3> QED
      BY <1>1, <3>1, LenProperties DEF Serves, Commands
  <2> QED
    BY <2>1, <2>2 DEF AgShape
<1>3. \A i, d \in Gpus : In(iter, d, i) \in Address
  BY <1>1, ValueTypes
<1>4. p.op = "copy" /\ p.from = In(iter, j[1], j[1]) /\ p.from \in Address
  BY <1>1, <1>2, <1>3
<1>5. mem' = [a \in Address |-> IF a \in p.to THEN mem[p.from] ELSE mem[a]]
  BY <1>4 DEF ExecData
<1>6. /\ mem' \in [Address -> Value]
      /\ \A a \in Address : mem'[a] = IF a \in p.to THEN mem[In(iter, j[1], j[1])] ELSE mem[a]
  BY <1>1, <1>4, <1>5
<1>7. \A a \in p.to : a[1] # "sys" /\ a[2] = iter /\ a[3] # a[4] /\ a[4] = j[1]
  BY <1>2, AddressParts
<1>8. \A i \in Gpus : mem'[In(iter, i, i)] = mem[In(iter, i, i)]
  BY <1>3, <1>6, <1>7, AddressParts
<1>9. \A q : q.op = "copy" => /\ Arrived(q) <=> \A a \in q.to : mem[a] = mem[q.from]
                              /\ Arrived(q)' <=> \A a \in q.to : mem'[a] = mem'[q.from]
  BY DEF Arrived
<1>10. ASSUME NEW k \in Placed, NEW q \in Data(k), Arrived(q) PROVE Arrived(q)'
  <2>1. q.op = "copy" /\ q.from = In(iter, k[1], k[1]) /\ k[1] \in Gpus
    BY <1>1, <1>2
  <2>2. ASSUME NEW a \in q.to PROVE mem'[a] = mem'[q.from]
    <3>1. a \in Address /\ a[4] = k[1] /\ mem[a] = mem[q.from]
      BY <1>1, <1>2, <1>3, <1>9, <1>10, <2>1, AddressParts
    <3>2. a \in p.to => k[1] = j[1]
      BY <1>7, <3>1
    <3> QED
      BY <1>6, <1>8, <2>1, <3>1, <3>2
  <2> QED
    BY <1>9, <2>1, <2>2
<1>11. Arrived(p)'
  <2>1. \A a \in p.to : a \in Address
    BY <1>1, <1>2, <1>3
  <2>2. mem'[In(iter, j[1], j[1])] = mem[In(iter, j[1], j[1])]
    BY <1>1, <1>8
  <2> QED
    BY <1>4, <1>6, <1>9, <2>1, <2>2
<1>12. \A a \in Address : mem'[a] # mem[a] => a[1] # "sys" /\ a[2] = iter
  BY <1>6, <1>7
<1> QED
  BY <1>6, <1>8, <1>10, <1>11, <1>12 DEF Effect

\* An all-to-all copy goes from an input to an output buffer, each chunk once.
LEMMA AlltoallEffect ==
  ASSUME Inv, SamePhase, Phase = "move", Plan.op = "aa", NEW e \in Engines, ExecData(e),
         NEW j \in Placed, NEW p \in Data(j), p = Head(queue[e])
  PROVE  Effect(j, p)
<1>1. /\ TypeOK /\ Serves(Plan) /\ iter \in Iters /\ mem \in [Address -> Value]
      /\ \A k \in Placed : k \in Commands /\ k[1] \in Gpus /\ Data(k) = MoveData(k[1], k[2])
  BY JobSlots, PhaseJobs, PlanTypes DEF Inv, TypeOK
<1>2. ASSUME NEW k \in Placed, NEW q \in Data(k)
      PROVE  /\ q.op = "copy"
             /\ \E i, d \in Gpus : i # d /\ q.from = In(iter, i, d) /\ q.to = {Out(iter, d, i)}
  <2>1. AaShape(k, q)
    BY <1>1, MoveShape
  <2>2. \A n \in DOMAIN DestsOf(Plan, k) : DestsOf(Plan, k)[n] \in Gpus /\ DestsOf(Plan, k)[n] # k[1]
    <3>1. DestsOf(Plan, k) \in Seq(Gpus)
      BY <1>1, PlanTypes
    <3> QED
      BY <1>1, <3>1, LenProperties DEF Serves, Commands
  <2>3. PICK n \in DOMAIN DestsOf(Plan, k) :
          q = CopyPacket(In(iter, k[1], DestsOf(Plan, k)[n]), {Out(iter, DestsOf(Plan, k)[n], k[1])})
    BY <2>1 DEF AaShape
  <2>4. \A a, t : CopyPacket(a, t).op = "copy" /\ CopyPacket(a, t).from = a /\ CopyPacket(a, t).to = t
    BY DEF CopyPacket
  <2> QED
    BY <1>1, <2>2, <2>3, <2>4
<1>3. \A i, d \in Gpus : In(iter, d, i) \in Address /\ Out(iter, d, i) \in Address
  BY <1>1, ValueTypes
<1>4. PICK i \in Gpus, d \in Gpus : i # d /\ p.from = In(iter, i, d) /\ p.to = {Out(iter, d, i)}
  BY <1>2
<1>5. mem' = [a \in Address |-> IF a \in p.to THEN mem[p.from] ELSE mem[a]]
  BY <1>2 DEF ExecData
<1>6. /\ mem' \in [Address -> Value]
      /\ \A a \in Address : mem'[a] = IF a = Out(iter, d, i) THEN mem[In(iter, i, d)] ELSE mem[a]
  BY <1>1, <1>3, <1>4, <1>5
<1>7. \A h, k \in Gpus : mem'[In(iter, h, k)] = mem[In(iter, h, k)]
  BY <1>3, <1>6, AddressParts
<1>8. \A q : q.op = "copy" => /\ Arrived(q) <=> \A a \in q.to : mem[a] = mem[q.from]
                              /\ Arrived(q)' <=> \A a \in q.to : mem'[a] = mem'[q.from]
  BY DEF Arrived
<1>9. ASSUME NEW k \in Placed, NEW q \in Data(k), Arrived(q) PROVE Arrived(q)'
  <2>1. PICK h \in Gpus, l \in Gpus : q.from = In(iter, h, l) /\ q.to = {Out(iter, l, h)}
    BY <1>2
  <2>2. mem[Out(iter, l, h)] = mem[In(iter, h, l)]
    BY <1>2, <1>8, <1>9, <2>1
  <2>3. mem'[Out(iter, l, h)] = mem'[In(iter, h, l)]
    <3>1. CASE Out(iter, l, h) = Out(iter, d, i)
      <4>1. h = i /\ l = d
        BY <3>1, AddressParts
      <4> QED
        BY <1>3, <1>6, <1>7, <4>1
    <3>2. CASE Out(iter, l, h) # Out(iter, d, i)
      BY <1>3, <1>6, <1>7, <2>2, <3>2
    <3> QED
      BY <3>1, <3>2
  <2> QED
    BY <1>2, <1>8, <2>1, <2>3
<1>10. Arrived(p)'
  BY <1>2, <1>3, <1>4, <1>6, <1>7, <1>8
<1>11. \A a \in Address : mem'[a] # mem[a] => a[1] = "out" /\ a[1] # "sys" /\ a[2] = iter /\ a[3] # a[4]
  <2>1. \A a \in Address : mem'[a] # mem[a] => a = Out(iter, d, i)
    BY <1>6
  <2>2. LET a == Out(iter, d, i) IN a[1] = "out" /\ a[1] # "sys" /\ a[2] = iter /\ a[3] # a[4]
    BY <1>4, AddressParts
  <2> QED
    BY <2>1, <2>2
<1> QED
  BY <1>6, <1>7, <1>9, <1>10, <1>11 DEF Effect

\* A swap exchanges the chunks of a pair that no other command touches.
LEMMA SwapEffect ==
  ASSUME Inv, SamePhase, Phase = "move", Plan.op = "swap", NEW e \in Engines, ExecData(e),
         queue[e] # <<>>, NEW j \in Placed, On(j) = e, NEW p \in Data(j), p = Head(queue[e])
  PROVE  Effect(j, p)
<1>1. /\ TypeOK /\ Serves(Plan) /\ iter \in Iters /\ mem \in [Address -> Value] /\ Swaps
      /\ \A k \in Placed : k \in Commands /\ Data(k) = MoveData(k[1], k[2])
  BY JobSlots, PhaseJobs DEF Inv, TypeOK, MemInv
<1>2. \A k \in Placed : Data(k) = {SwapOf(k)}
  BY <1>1, MoveShape
<1>3. /\ \A k \in Commands : 1 \in DOMAIN DestsOf(Plan, k) /\ k[1] \in Gpus
      /\ \A k \in Commands : DestsOf(Plan, k)[1] \in Gpus /\ DestsOf(Plan, k)[1] # k[1]
  <2>1. \A k \in Commands : DestsOf(Plan, k) \in Seq(Gpus) /\ k[1] \in Gpus
    BY <1>1, PlanTypes
  <2>2. \A k \in Commands : Len(DestsOf(Plan, k)) = 1
    BY <1>1 DEF Serves, Commands
  <2>3. \A k \in Commands : 1 \in DOMAIN DestsOf(Plan, k)
    BY <2>1, <2>2, LenProperties
  <2>4. \A k \in Commands : DestsOf(Plan, k)[1] \in Gpus
    BY <2>1, <2>2, ElementOfSeq
  <2> QED
    BY <1>1, <2>1, <2>3, <2>4 DEF Serves, Commands
<1> DEFINE D(k) == DestsOf(Plan, k)[1]
<1>4. \A k : /\ SwapOf(k).op = "swap"
             /\ SwapOf(k).a = In(iter, D(k), k[1]) /\ SwapOf(k).b = In(iter, k[1], D(k))
  BY DEF SwapOf, SwapPacket
<1>5. /\ \A k \in Commands : D(k) \in Gpus /\ k[1] \in Gpus /\ D(k) # k[1]
      /\ \A k : Untouched(k[1], D(k)) <=> /\ mem[SwapOf(k).a] = Pattern(D(k), k[1])
                                          /\ mem[SwapOf(k).b] = Pattern(k[1], D(k))
  BY <1>3, <1>4 DEF Untouched
<1>6. \A k : Untouched(k[1], DestsOf(Plan, k)[1])' <=>
                /\ mem'[SwapOf(k).a] = Pattern(D(k), k[1])
                /\ mem'[SwapOf(k).b] = Pattern(k[1], D(k))
  <2>1. iter' = iter /\ Plan' = Plan
    BY DEF SamePhase, Plan
  <2> QED
    BY <1>4, <2>1 DEF Untouched
<1>7. \A k : \A q : q = SwapOf(k) =>
        /\ Arrived(q) <=> /\ mem[SwapOf(k).a] = Pattern(k[1], D(k))
                          /\ mem[SwapOf(k).b] = Pattern(D(k), k[1])
        /\ Arrived(q)' <=> /\ mem'[SwapOf(k).a] = Pattern(k[1], D(k))
                           /\ mem'[SwapOf(k).b] = Pattern(D(k), k[1])
  <2> SUFFICES ASSUME NEW k, NEW q, q = SwapOf(k)
               PROVE  /\ Arrived(q) <=> /\ mem[SwapOf(k).a] = Pattern(k[1], D(k))
                                        /\ mem[SwapOf(k).b] = Pattern(D(k), k[1])
                      /\ Arrived(q)' <=> /\ mem'[SwapOf(k).a] = Pattern(k[1], D(k))
                                         /\ mem'[SwapOf(k).b] = Pattern(D(k), k[1])
    OBVIOUS
  <2>1. /\ q.op = "swap" /\ q.a = SwapOf(k).a /\ q.b = SwapOf(k).b
        /\ q.a = In(iter, D(k), k[1]) /\ q.b = In(iter, k[1], D(k))
    BY <1>4
  <2> HIDE DEF D
  <2>2. q.a[4] = k[1] /\ q.a[3] = D(k) /\ q.b[4] = D(k) /\ q.b[3] = k[1]
    BY <2>1, AddressParts
  <2>3. /\ Arrived(q) <=> mem[q.a] = Pattern(q.a[4], q.a[3]) /\ mem[q.b] = Pattern(q.b[4], q.b[3])
        /\ Arrived(q)' <=> mem'[q.a] = Pattern(q.a[4], q.a[3]) /\ mem'[q.b] = Pattern(q.b[4], q.b[3])
    BY <2>1 DEF Arrived
  <2> QED
    BY <2>1, <2>2, <2>3
<1>8. \A k \in Commands : SwapOf(k).a \in Address /\ SwapOf(k).b \in Address /\ SwapOf(k).a # SwapOf(k).b
  BY <1>1, <1>4, <1>5, ValueTypes, AddressParts
<1>9. j \in Commands /\ p = SwapOf(j)
  BY <1>1, <1>2
<1>10. /\ mem[SwapOf(j).a] = Pattern(D(j), j[1])
       /\ mem[SwapOf(j).b] = Pattern(j[1], D(j))
  <2>1. Has(queue[On(j)], SwapOf(j))
    BY <1>9, HeadJob
  <2> QED
    BY <1>1, <1>5, <1>9, <2>1 DEF Swaps
<1>11. mem' = [mem EXCEPT ![SwapOf(j).a] = mem[SwapOf(j).b], ![SwapOf(j).b] = mem[SwapOf(j).a]]
  BY <1>4, <1>9 DEF ExecData
<1> HIDE DEF D
<1>12. /\ mem' \in [Address -> Value]
       /\ mem'[SwapOf(j).a] = mem[SwapOf(j).b] /\ mem'[SwapOf(j).b] = mem[SwapOf(j).a]
       /\ \A a \in Address : a \notin {SwapOf(j).a, SwapOf(j).b} => mem'[a] = mem[a]
  BY <1>1, <1>8, <1>9, <1>11
<1>13. \A k \in Commands \ {j} : /\ mem'[SwapOf(k).a] = mem[SwapOf(k).a]
                                 /\ mem'[SwapOf(k).b] = mem[SwapOf(k).b]
  BY <1>1, <1>8, <1>9, <1>12, SwapsApart
<1>14. Arrived(p)'
  BY <1>7, <1>9, <1>10, <1>12
<1>15. ASSUME NEW k \in Placed, NEW q \in Data(k), Arrived(q) PROVE Arrived(q)'
  <2>1. q = SwapOf(k) /\ k \in Commands
    BY <1>1, <1>2
  <2>2. CASE k = j
    BY <1>9, <1>14, <2>1, <2>2
  <2>3. CASE k # j
    BY <1>7, <1>13, <1>15, <2>1, <2>3
  <2> QED
    BY <2>2, <2>3
<1>16. /\ SwapOf(j).a[1] # "sys" /\ SwapOf(j).a[2] = iter /\ SwapOf(j).a[3] # SwapOf(j).a[4]
       /\ SwapOf(j).b[1] # "sys" /\ SwapOf(j).b[2] = iter /\ SwapOf(j).b[3] # SwapOf(j).b[4]
  <2>1. \A h, k : h # k => LET a == In(iter, h, k) IN a[1] # "sys" /\ a[2] = iter /\ a[3] # a[4]
    BY AddressParts
  <2>2. D(j) # j[1]
    BY <1>5, <1>9
  <2> QED
    BY <1>4, <2>1, <2>2
<1>17. \A a \in Address : mem'[a] # mem[a] => a[1] # "sys" /\ a[2] = iter
  BY <1>12, <1>16
<1>18. \A i \in Gpus : mem'[In(iter, i, i)] = mem[In(iter, i, i)]
  BY <1>1, <1>12, <1>16, ValueTypes, AddressParts
<1>19. \A c \in Commands \ {j} :
         Untouched(c[1], DestsOf(Plan, c)[1]) => Untouched(c[1], DestsOf(Plan, c)[1])'
  BY <1>5, <1>6, <1>13 DEF D
<1> QED
  BY <1>12, <1>14, <1>15, <1>17, <1>18, <1>19 DEF Effect

-----------------------------------------------------------------------------
(* The step of an engine.                                                  *)

\* The head leaves its queue and the order of the rest is as it was.
LEMMA Popped ==
  ASSUME Inv, NEW e \in Engines, Engine(e)
  PROVE  /\ SamePhase /\ Placed' = Placed /\ queue[e] # <<>>
         /\ queue' \in [Engines -> Seq(Packet)]
         /\ \A f \in Engines : f # e => queue'[f] = queue[f]
         /\ \A f \in Engines : \A p : /\ Has(queue'[f], p) => Has(queue[f], p)
                                      /\ Once(queue[f], p) => Once(queue'[f], p)
         /\ \A p, r : Before(queue[e], p, r) => p = Head(queue[e]) \/ Before(queue'[e], p, r)
         /\ Once(queue[e], Head(queue[e])) => ~Has(queue'[e], Head(queue[e]))
         /\ Queued'
<1> DEFINE c == queue[e]
<1>1. TypeOK /\ Queued /\ c \in Seq(Packet) /\ c # <<>> /\ queue' = [queue EXCEPT ![e] = Tail(@)]
  BY DEF Inv, TypeOK, Engine, Pop
<1>2. SamePhase /\ Placed' = Placed
  <2>1. UNCHANGED cpuVars
    BY DEF Engine
  <2>2. env' = env /\ pc' = pc /\ iter' = iter /\ gpu' = gpu /\ cmd' = cmd
    BY <2>1 DEF cpuVars
  <2>3. Phase' = Phase /\ Commands' = Commands
    BY <2>2 DEF Phase, Commands, Plan
  <2> QED
    BY <2>2, <2>3 DEF SamePhase, Placed
<1>3. /\ queue \in [Engines -> Seq(Packet)] /\ Tail(c) \in Seq(Packet)
      /\ \A p : Has(c, p) <=> p = Head(c) \/ Has(Tail(c), p)
  BY <1>1, HasHead DEF TypeOK
<1> HIDE DEF c
<1>4. /\ queue' \in [Engines -> Seq(Packet)] /\ queue'[e] = Tail(c)
      /\ \A f \in Engines : f # e => queue'[f] = queue[f]
  BY <1>1, <1>3 DEF c
<1>5. /\ \A p : Once(c, p) => Once(Tail(c), p)
      /\ Once(c, Head(c)) => ~Has(Tail(c), Head(c))
  BY <1>1, TailOrder
<1>6. /\ \A p, r : Before(c, p, r) => p = Head(c) \/ Before(Tail(c), p, r)
      /\ \A R : EndsIn(c, R) => EndsIn(Tail(c), R)
  BY <1>1, TailBefore
<1>7. \A f \in Engines : \A p : /\ Has(queue'[f], p) => Has(queue[f], p)
                                /\ Once(queue[f], p) => Once(queue'[f], p)
  BY <1>3, <1>4, <1>5 DEF c
<1>8. \A f \in Engines : \A R : EndsIn(queue[f], R) => EndsIn(queue'[f], R)
  BY <1>4, <1>6 DEF c
<1>9. Queued'
  <2>1. \A j : On(j)' = On(j) /\ Done(j)' = Done(j) /\ Parts(j)' = Parts(j)
    BY <1>2, SameJobs
  <2>2. ASSUME NEW f \in Engines, NEW k \in 1 .. Len(queue'[f])
        PROVE  \E j \in Placed : On(j) = f /\ queue'[f][k] \in Parts(j)
    <3>1. Has(queue'[f], queue'[f][k])
      BY <2>2 DEF Has
    <3>2. Has(queue[f], queue'[f][k])
      BY <1>7, <3>1
    <3> QED
      BY <1>1, <3>2 DEF Has, Queued
  <2>3. \A f \in Engines : EndsIn(queue'[f], {Done(j) : j \in {k \in Placed : On(k) = f}})
    BY <1>1, <1>8 DEF Queued
  <2>4. \A j \in Placed : Once(queue'[On(j)], Done(j))
    <3>1. \A j \in Placed : On(j) \in Engines
      BY JobSlots, JobEngine DEF Inv
    <3> QED
      BY <1>1, <1>7, <3>1 DEF Queued
  <2>5. \A f \in Engines : \A k \in 1 .. Len(queue'[f]) :
          \E j \in Placed' : On(j)' = f /\ queue'[f][k] \in Parts(j)'
    BY <1>2, <2>1, <2>2
  <2>6. \A f \in Engines : EndsIn(queue'[f], {Done(j)' : j \in {k \in Placed' : On(k)' = f}})
    BY <1>2, <2>1, <2>3
  <2>7. \A j \in Placed' : Once(queue'[On(j)'], Done(j)')
    BY <1>2, <2>1, <2>4
  <2> QED
    BY <2>5, <2>6, <2>7 DEF Queued
<1> QED
  BY <1>1, <1>2, <1>4, <1>5, <1>6, <1>7, <1>9 DEF c

\* Under PRELAUNCH no engine can execute anything while commands are placed.
LEMMA HeldBack ==
  ASSUME Inv, NEW e \in Engines, Engine(e)
  PROVE  ~(pc = "submit" /\ env.poll)
<1> SUFFICES ASSUME pc = "submit", env.poll PROVE FALSE
  OBVIOUS
<1>1. PICK j \in Placed : On(j) = e /\ Head(queue[e]) \in Parts(j)
  BY HeadJob DEF Engine
<1>2. /\ Head(queue[e]).op = "poll" /\ j \in Jobs /\ j \in Reserved /\ Phase = "move"
      /\ \A i \in Gpus, n \in 1 .. NumCmds : signal[iter][PollId(i, n)] = 1
  BY JobSlots, PhaseCases DEF Inv, Gated, Engine
<1>3. Head(queue[e]) \in Gates(j)
  BY <1>1, <1>2, DataTypes, DoneTypes DEF Inv, Parts
<1>4. /\ Head(queue[e]) \notin Data(j) /\ Head(queue[e]) \notin HighFences(j)
      /\ Head(queue[e]) # Done(j)
  BY <1>1, <1>2, DataTypes, DoneTypes DEF Inv
<1>5. signal[iter][PollId(j[1], j[2])] = 0
  BY <1>1, <1>4, ExecEffect
<1>6. j[1] \in Gpus /\ j[2] \in 1 .. NumCmds
  BY <1>2, <1>3, DataTypes DEF Inv
<1> QED
  BY <1>2, <1>5, <1>6

\* A completion clears the slot of its own job, once.
LEMMA EngineSignals ==
  ASSUME Inv, NEW e \in Engines, Engine(e)
  PROVE  /\ signal' \in [Iters -> [Slots -> 0 .. Half * Half - 1]]
         /\ Armed'
         /\ \A s \in Slots : signal[iter][s] = 0 => signal'[iter][s] = 0
<1>1. PICK j \in Placed : On(j) = e /\ Head(queue[e]) \in Parts(j)
  BY HeadJob DEF Engine
<1>2. /\ TypeOK /\ Control /\ Armed /\ Queued /\ iter \in Iters
      /\ Placed \subseteq Jobs /\ Jobs \subseteq Reserved
      /\ \A k \in Reserved : Slot(k) \in Slots
      /\ \A k, l \in Reserved : Slot(k) = Slot(l) => k = l
      /\ \A k \in Placed : On(k) \in Engines
  BY JobSlots, JobEngine DEF Inv, TypeOK
<1>3. SamePhase /\ Placed' = Placed /\ queue[e] # <<>>
  BY Popped
<1>4. /\ Reserved' = Reserved /\ iter' = iter
      /\ \A k : On(k)' = On(k) /\ Slot(k)' = Slot(k) /\ Done(k)' = Done(k)
  BY <1>3, SameJobs DEF SamePhase
<1>5. \A k \in Placed : ~Has(queue[On(k)], Done(k)) => ~Has(queue'[On(k)], Done(k))
  BY <1>2, Popped
<1>6. signal' \in [Iters -> [Slots -> 0 .. Half * Half - 1]]
  BY <1>1, ExecEffect
<1>7. CASE \A it \in Iters, s \in Slots : signal'[it][s] = signal[it][s]
  <2>1. SignalsNeverWrap'
    BY <1>2, <1>7 DEF Armed, SignalsNeverWrap
  <2>2. \A k \in Reserved : \/ signal'[iter][Slot(k)] = 1
                            \/ k \in Placed /\ ~Has(queue'[On(k)], Done(k))
    BY <1>2, <1>5, <1>7 DEF Armed
  <2>3. Armed'
    BY <1>3, <1>4, <2>1, <2>2 DEF Armed
  <2> QED
    BY <1>2, <1>6, <1>7, <2>3
<1>8. CASE Head(queue[e]) = Done(j) /\ Clears(j)
  <2>1. SignalsNeverWrap'
    BY <1>2, <1>8 DEF Armed, SignalsNeverWrap, Clears
  <2>2. ASSUME NEW k \in Reserved
        PROVE  \/ signal'[iter][Slot(k)] = 1
               \/ k \in Placed /\ ~Has(queue'[On(k)], Done(k))
    <3>1. CASE k = j
      <4>1. Once(queue[e], Head(queue[e]))
        BY <1>1, <1>2, <1>8 DEF Queued
      <4>2. ~Has(queue'[e], Head(queue[e]))
        BY <4>1, Popped
      <4> QED
        BY <1>1, <1>8, <3>1, <4>2
    <3>2. CASE k # j
      <4>1. signal'[iter][Slot(k)] = signal[iter][Slot(k)]
        BY <1>1, <1>2, <1>8, <3>2 DEF Clears
      <4> QED
        BY <1>2, <1>5, <4>1 DEF Armed
    <3> QED
      BY <3>1, <3>2
  <2>3. Armed'
    BY <1>3, <1>4, <2>1, <2>2 DEF Armed
  <2>4. \A s \in Slots : signal[iter][s] = 0 => signal'[iter][s] = 0
    BY <1>2, <1>8 DEF Clears
  <2> QED
    BY <1>6, <2>3, <2>4
<1>9. \/ \A it \in Iters, s \in Slots : signal'[it][s] = signal[it][s]
      \/ Head(queue[e]) = Done(j) /\ Clears(j)
  BY <1>1, ExecEffect DEF ExecData
<1> QED
  BY <1>7, <1>8, <1>9

\* The buffers of an iteration are what they were if no chunk of it changes.
LEMMA IterationKept ==
  ASSUME TypeOK, NEW it \in Iters, env' = env,
         \A a \in Address : a[1] # "sys" /\ a[2] = it => mem'[a] = mem[a]
  PROVE  (Filled(it) => Filled(it)') /\ (Finished(it) => Finished(it)')
<1>1. /\ \A i, k \in Gpus : In(it, i, k) \in Address /\ Out(it, i, k) \in Address
      /\ \A i, k : /\ In(it, i, k)[1] # "sys" /\ In(it, i, k)[2] = it
                   /\ Out(it, i, k)[1] # "sys" /\ Out(it, i, k)[2] = it
  BY ValueTypes, AddressParts
<1>2. \A i, k \in Gpus : mem'[In(it, i, k)] = mem[In(it, i, k)] /\ mem'[Out(it, i, k)] = mem[Out(it, i, k)]
  BY <1>1
<1>3. Filled(it) => Filled(it)'
  BY <1>2 DEF Filled
<1>4. Plan' = Plan
  BY DEF Plan
<1>5. \A i, k \in Gpus : Moved(it, i, k) => Moved(it, i, k)'
  BY <1>2, <1>4 DEF Moved, Result, InPlace, Expected
<1>6. Finished(it) => Finished(it)'
  BY <1>5 DEF Finished
<1> QED
  BY <1>3, <1>6

\* A packet executed has had its effect, and the effects of the others last.
LEMMA EngineMemory ==
  ASSUME Inv, NEW e \in Engines, Engine(e)
  PROVE  mem' \in [Address -> Value] /\ DataInv' /\ MemInv'
<1>1. PICK j \in Placed : On(j) = e /\ Head(queue[e]) \in Parts(j)
  BY HeadJob DEF Engine
<1>2. /\ TypeOK /\ Serves(Plan) /\ Control /\ DataInv /\ MemInv
      /\ iter \in Iters /\ mem \in [Address -> Value]
      /\ Placed \subseteq Jobs /\ Jobs \subseteq Reserved
      /\ \A k \in Placed : On(k) \in Engines
  BY JobSlots, JobEngine DEF Inv, TypeOK
<1>3. /\ SamePhase /\ Placed' = Placed /\ queue[e] # <<>>
      /\ env' = env /\ iter' = iter /\ Phase' = Phase
      /\ \A f \in Engines : f # e => queue'[f] = queue[f]
      /\ \A f \in Engines : \A p : /\ Has(queue'[f], p) => Has(queue[f], p)
                                   /\ Once(queue[f], p) => Once(queue'[f], p)
      /\ \A p, r : Before(queue[e], p, r) => p = Head(queue[e]) \/ Before(queue'[e], p, r)
      /\ Once(queue[e], Head(queue[e])) => ~Has(queue'[e], Head(queue[e]))
  BY Popped DEF SamePhase
<1>4. /\ Plan' = Plan /\ Commands' = Commands /\ pc' = pc
      /\ \A k : /\ On(k)' = On(k) /\ Done(k)' = Done(k) /\ Data(k)' = Data(k)
                /\ SwapOf(k)' = SwapOf(k)
  BY <1>3, SameJobs DEF Engine, cpuVars
<1>5. /\ Phase \in {"fill", "move", "check"}
      /\ Phase = "fill"  => pc \in {"fill", "fill_wait"}
      /\ Phase = "move"  => pc \in {"submit", "trigger", "spin"}
      /\ Phase = "check" => pc \in {"check", "check_wait"}
  BY <1>1, PhaseCases, PhaseJobs
<1>6. PICK p : p = Head(queue[e])
  OBVIOUS
<1>7. (p \in Data(j) /\ Effect(j, p)) \/ (p \notin Data(j) /\ mem' = mem)
  <2>1. CASE p \in Data(j) /\ ExecData(e)
    <3>1. CASE Phase = "fill"
      BY <1>1, <1>3, <1>6, <2>1, <3>1, FillEffect
    <3>2. CASE Phase = "check"
      BY <1>1, <1>3, <1>6, <2>1, <3>2, CheckEffect
    <3>3. CASE Phase = "move" /\ Plan.op = "ag"
      BY <1>1, <1>3, <1>6, <2>1, <3>3, AllgatherEffect
    <3>4. CASE Phase = "move" /\ Plan.op = "aa"
      BY <1>1, <1>3, <1>6, <2>1, <3>4, AlltoallEffect
    <3>5. CASE Phase = "move" /\ Plan.op = "swap"
      BY <1>1, <1>3, <1>6, <2>1, <3>5, SwapEffect
    <3>6. Plan.op \in {"ag", "aa", "swap"}
      BY <1>2, PlanTypes DEF IsPlan
    <3> QED
      BY <1>5, <2>1, <3>1, <3>2, <3>3, <3>4, <3>5, <3>6
  <2>2. CASE p \in Gates(j) \cup HighFences(j) \cup {Done(j)} /\ mem' = mem
    BY <1>1, <1>2, <2>2, DataTypes, DoneTypes
  <2> QED
    BY <1>1, <1>6, <2>1, <2>2, ExecEffect
<1>8. \A k \in Placed : \A q \in Data(k) : q = p => p \in Data(j)
  BY <1>1, <1>2, <1>6, DataTypes, DoneTypes DEF Parts
<1>9. mem' \in [Address -> Value]
  BY <1>2, <1>7 DEF Effect
<1>10. \A k \in Placed : \A q \in Data(k) : Arrived(q) => Arrived(q)'
  <2>1. mem' = mem => \A q : Arrived(q)' = Arrived(q)
    BY DEF Arrived
  <2> QED
    BY <1>7, <2>1 DEF Effect
<1>11. DataInv'
  <2>1. ASSUME NEW k \in Placed, NEW q \in Data(k)
        PROVE  Arrived(q)' \/ Before(queue'[On(k)], q, Done(k))
    <3>1. CASE Arrived(q)
      BY <1>10, <3>1
    <3>2. CASE Before(queue[On(k)], q, Done(k)) /\ On(k) # e
      BY <1>2, <1>3, <3>2
    <3>3. CASE Before(queue[On(k)], q, Done(k)) /\ On(k) = e /\ q # p
      BY <1>3, <1>6, <3>3
    <3>4. CASE q = p
      BY <1>7, <1>8, <3>4 DEF Effect
    <3> QED
      BY <1>2, <3>1, <3>2, <3>3, <3>4 DEF DataInv
  <2> QED
    BY <1>3, <1>4, <2>1 DEF DataInv
<1>12. \A a \in Address : mem'[a] # mem[a] =>
         IF Phase = "check" THEN a[1] = "sys" ELSE a[1] # "sys" /\ a[2] = iter
  BY <1>7 DEF Effect
<1>13. \A it \in Iters : it # iter => (Filled(it) => Filled(it)') /\ (Finished(it) => Finished(it)')
  BY <1>2, <1>3, <1>12, IterationKept
<1>14. Phase = "check" => \A it \in Iters : Finished(it) => Finished(it)'
  BY <1>2, <1>3, <1>12, IterationKept
<1>15. ASSUME Phase = "move" PROVE Sources'
  <2>1. \A i \in Gpus : mem'[In(iter, i, i)] = mem[In(iter, i, i)]
    BY <1>7, <1>15 DEF Effect
  <2>2. ASSUME Plan.op = "aa", Inputs(iter) PROVE Inputs(iter)'
    <3>1. \A a \in Address : mem'[a] # mem[a] => a[1] = "out" /\ a[3] # a[4]
      BY <1>7, <1>15, <2>2 DEF Effect
    <3>2. \A i, k \in Gpus : mem'[In(iter, i, k)] = mem[In(iter, i, k)] /\ mem'[Out(iter, i, i)] = mem[Out(iter, i, i)]
      BY <1>2, <3>1, ValueTypes, AddressParts
    <3> QED
      BY <1>3, <2>2, <3>2 DEF Inputs
  <2>3. Sources
    BY <1>2, <1>15 DEF MemInv
  <2> QED
    BY <1>3, <1>4, <2>1, <2>2, <2>3 DEF Sources
<1>16. ASSUME Phase = "move", Plan.op = "swap" PROVE Swaps'
  <2>1. Swaps /\ Jobs = Commands
    BY <1>2, <1>16, PhaseJobs DEF MemInv
  <2>2. \A i \in Gpus : mem'[In(iter, i, i)] = mem[In(iter, i, i)]
    BY <1>7, <1>16 DEF Effect
  <2>3. \A c \in Commands \ {j} :
          Untouched(c[1], DestsOf(Plan, c)[1]) => Untouched(c[1], DestsOf(Plan, c)[1])'
    <3>1. CASE Effect(j, p)
      BY <1>16, <3>1 DEF Effect
    <3>2. CASE mem' = mem
      BY <1>3, <1>4, <3>2 DEF Untouched
    <3> QED
      BY <1>7, <3>1, <3>2
  <2>4. p \in Data(j) => ~Has(queue'[e], SwapOf(j))
    <3> SUFFICES ASSUME p \in Data(j) PROVE ~Has(queue'[e], SwapOf(j))
      OBVIOUS
    <3>1. Data(j) = {SwapOf(j)}
      BY <1>1, <1>2, <1>16, <2>1, PhaseJobs, MoveShape
    <3>2. Once(queue[e], SwapOf(j))
      BY <1>1, <2>1 DEF Swaps
    <3> QED
      BY <1>3, <1>6, <3>1, <3>2
  <2>5. ASSUME NEW c \in Commands, c \notin Placed \/ Has(queue'[On(c)], SwapOf(c))
        PROVE  Untouched(c[1], DestsOf(Plan, c)[1])'
    <3>1. Untouched(c[1], DestsOf(Plan, c)[1])
      BY <1>2, <1>3, <2>1, <2>5 DEF Swaps
    <3>2. CASE c # j
      BY <2>3, <3>1, <3>2
    <3>3. CASE c = j
      <4>1. mem' = mem
        BY <1>1, <1>7, <2>4, <2>5, <3>3
      <4> QED
        BY <1>3, <1>4, <3>1, <4>1 DEF Untouched
    <3> QED
      BY <3>2, <3>3
  <2>6. \A c \in Placed : Once(queue'[On(c)], SwapOf(c))
    BY <1>2, <1>3, <2>1 DEF Swaps
  <2> QED
    BY <1>3, <1>4, <2>1, <2>2, <2>5, <2>6 DEF Swaps
<1>17. MemInv'
  <2>1. FinishedIters' = FinishedIters
    BY <1>3, <1>4 DEF FinishedIters
  <2>2. FinishedIters \subseteq Iters /\ (Phase # "check" => iter \notin FinishedIters)
    BY <1>2, <1>5, CollectiveAssumption DEF FinishedIters, Iters, IterationPcs, CheckPcs
  <2>3. \A it \in FinishedIters : Finished(it)'
    BY <1>2, <1>13, <1>14, <2>2 DEF MemInv
  <2>4. pc \in {"fill_arm", "fill", "fill_wait"} => \A it \in 0 .. iter - 1 : Filled(it)'
    <3>1. \A it \in 0 .. iter - 1 : it \in Iters /\ it # iter
      BY <1>2, CollectiveAssumption DEF Iters
    <3> QED
      BY <1>2, <1>13, <3>1 DEF MemInv
  <2>5. pc \in IterationPcs => \A it \in iter + 1 .. NumIter - 1 : Filled(it)'
    <3>1. \A it \in iter + 1 .. NumIter - 1 : it \in Iters /\ it # iter
      BY <1>2, CollectiveAssumption DEF Iters
    <3> QED
      BY <1>2, <1>13, <3>1 DEF MemInv
  <2>6. pc # "init_signals"
    BY <1>5
  <2> QED
    BY <1>3, <1>4, <1>15, <1>16, <2>1, <2>3, <2>4, <2>5, <2>6 DEF MemInv
<1> QED
  BY <1>9, <1>11, <1>17

\* The invariant survives every engine.
LEMMA EngineStep ==
  ASSUME Inv, NEW e \in Engines, Engine(e)
  PROVE  Inv'
<1>1. /\ env' = env /\ pc' = pc /\ size' = size /\ iter' = iter /\ gpu' = gpu /\ cmd' = cmd
      /\ scan' = scan /\ dest_done' = dest_done /\ done' = done /\ t_index' = t_index /\ live' = live
  BY DEF Engine, cpuVars
<1>2. /\ queue' \in [Engines -> Seq(Packet)] /\ Queued'
      /\ mem' \in [Address -> Value] /\ DataInv' /\ MemInv'
      /\ signal' \in [Iters -> [Slots -> 0 .. Half * Half - 1]] /\ Armed'
      /\ \A s \in Slots : signal[iter][s] = 0 => signal'[iter][s] = 0
      /\ ~(pc = "submit" /\ env.poll)
  BY Popped, EngineMemory, EngineSignals, HeldBack
<1>3. TypeOK'
  BY <1>1, <1>2 DEF Inv, TypeOK
<1>4. Serves(Plan)' /\ Control'
  <2>1. Plan' = Plan /\ NumCmds' = NumCmds /\ TriggerSlots' = TriggerSlots /\ \A i : List(i)' = List(i)
    BY <1>1 DEF Plan, NumCmds, List, TriggerSlots
  <2> QED
    BY <1>1, <2>1 DEF Inv, Control, Serves, CommandsOf, Shares
<1>5. CountInv'
  <2>1. /\ SeenCmds' = SeenCmds /\ Counted' = Counted /\ Commands' = Commands
        /\ \A i, n : SignalId(i, n)' = SignalId(i, n)
    BY <1>1 DEF SeenCmds, Counted, Commands, SignalId, NumCmds, Plan
  <2>2. CountInv /\ dest_done \subseteq Slots
    BY DEF Inv, TypeOK
  <2>3. pc = "spin" => \A s \in dest_done : \E c \in Commands : s = SignalId(c[1], c[2]) /\ signal'[iter][s] = 0
    BY <1>2, <2>2 DEF CountInv
  <2> QED
    BY <1>1, <2>1, <2>2, <2>3 DEF CountInv
<1>6. Gated'
  BY <1>1, <1>2 DEF Gated
<1> QED
  BY <1>2, <1>3, <1>4, <1>5, <1>6 DEF Inv

-----------------------------------------------------------------------------
(* The steps of the CPU thread.                                            *)

\* The next phase follows from the next position.
LEMMA NextPhase ==
  /\ Phase' = "fill"  <=> pc' \in {"fill", "fill_wait"}
  /\ Phase' = "move"  <=> pc' \in {"submit", "trigger", "spin"}
  /\ Phase' = "check" <=> pc' \in {"check", "check_wait"}
  /\ pc' \notin {"fill", "fill_wait", "submit", "trigger", "spin", "check", "check_wait"}
       => Phase' = "none" /\ Placed' = {} /\ Reserved' = {}
BY DEF Phase, Placed, Reserved

\* Between phases there is nothing to say of jobs.
LEMMA Resting ==
  ASSUME \A e \in Engines : queue[e] = <<>>, queue' = queue, SignalsNeverWrap',
         pc' \notin {"fill", "fill_wait", "submit", "trigger", "spin", "check", "check_wait"}
  PROVE  Queued' /\ DataInv' /\ Armed' /\ Gated' /\ CountInv'
<1>1. Placed' = {} /\ Reserved' = {}
  BY NextPhase
<1>2. Queued' /\ DataInv'
  BY <1>1, Begun
<1> QED
  BY <1>1, <1>2 DEF Armed, Gated, CountInv

\* The plan stays.
LEMMA PlanKept ==
  ASSUME env' = env
  PROVE  /\ Plan' = Plan /\ NumCmds' = NumCmds /\ Commands' = Commands
         /\ TriggerSlots' = TriggerSlots
         /\ \A i : List(i)' = List(i)
         /\ \A i, n : SignalId(i, n)' = SignalId(i, n) /\ PollId(i, n)' = PollId(i, n)
         /\ Serves(Plan)' = Serves(Plan)
         /\ InPlace' = InPlace
<1>1. Plan' = Plan
  BY DEF Plan
<1>2. NumCmds' = NumCmds /\ Commands' = Commands /\ (\A i : List(i)' = List(i)) /\ InPlace' = InPlace
  BY <1>1 DEF NumCmds, List, Commands, InPlace
<1>3. Serves(Plan)' = Serves(Plan)
  BY <1>1
<1> QED
  BY <1>1, <1>2, <1>3 DEF TriggerSlots, SignalId, PollId

\* Buffers as filled or finished stay so while memory does.
LEMMA MemoryKept ==
  ASSUME mem' = mem, env' = env
  PROVE  \A it : Filled(it)' = Filled(it) /\ Finished(it)' = Finished(it)
BY PlanKept DEF Filled, Finished, Moved, Result, Expected

\* AllocateMem keeps the invariant: it writes fresh, equal contents and no queue holds a
\* packet yet.
LEMMA AllocateMemStep ==
  ASSUME Inv, AllocateMem
  PROVE  Inv'
<1>1. /\ TypeOK /\ Serves(Plan) /\ Control /\ pc = "allocate" /\ pc' = "fill_arm" /\ iter' = 0
      /\ env' = env /\ size' = size /\ gpu' = gpu /\ cmd' = cmd /\ scan' = scan
      /\ dest_done' = dest_done /\ done' = done /\ t_index' = t_index /\ queue' = queue
      /\ live' = [b \in BufferKinds |-> live[b] + 1]
      /\ mem' = [a \in Address |-> IF a[1] = "sys" THEN 0 ELSE Junk]
      /\ signal' = [it \in Iters |-> [s \in Slots |-> 0]]
  BY DEF Inv, AllocateMem
<1>2. 0 \in Iters
  BY CollectiveAssumption DEF Iters
<1>3. TypeOK'
  <2>1. mem' \in [Address -> Value]
    BY <1>1, ValueTypes
  <2>2. signal' \in [Iters -> [Slots -> 0 .. Half * Half - 1]]
    BY <1>1, SignalArith
  <2>3. live' \in [BufferKinds -> Nat] /\ pc' \in PcValues
    BY <1>1 DEF TypeOK, PcValues
  <2> QED
    BY <1>1, <1>2, <2>1, <2>2, <2>3 DEF TypeOK
<1>4. Control'
  <2>1. live["in"] = 0 /\ \A b \in {"in", "sys", "signal"} : live[b] = 0
    BY <1>1 DEF Control
  <2>2. \A b \in {"in", "sys", "signal"} : live'[b] = 1
    BY <1>1, <2>1 DEF BufferKinds
  <2> QED
    BY <1>1, <2>2 DEF Control, CheckPcs
<1>5. Queued' /\ DataInv' /\ Armed' /\ Gated' /\ CountInv'
  <2>1. SignalsNeverWrap'
    BY <1>1 DEF SignalsNeverWrap
  <2>2. Phase = "none"
    BY <1>1 DEF Phase
  <2> QED
    BY <1>1, <2>1, <2>2, NothingQueued, Resting
<1>6. MemInv'
  <2>1. Phase' = "none"
    BY <1>1, NextPhase
  <2> QED
    BY <1>1, <2>1 DEF MemInv, FinishedIters, IterationPcs, CheckPcs
<1> QED
  BY <1>1, <1>3, <1>4, <1>5, <1>6, PlanKept DEF Inv

\* Slots are set while nothing waits.
LEMMA ArmStep ==
  ASSUME Inv, NEW slots, Arm(slots), Phase = "none", queue' = queue, Placed' = {}
  PROVE  /\ Queued' /\ DataInv' /\ SignalsNeverWrap'
         /\ signal' \in [Iters -> [Slots -> 0 .. Half * Half - 1]]
         /\ \A s \in Slots \cap slots : signal'[iter][s] = 1
<1>1. Queued' /\ DataInv'
  BY NothingQueued, Begun
<1>2. /\ signal \in [Iters -> [Slots -> 0 .. Half * Half - 1]] /\ iter \in Iters
      /\ \A it \in Iters, s \in Slots : signal[it][s] \in {0, 1}
  BY DEF Inv, TypeOK, Armed, SignalsNeverWrap
<1>3. signal' = [signal EXCEPT ![iter] = [s \in Slots |-> IF s \in slots THEN 1 ELSE signal[iter][s]]]
  BY DEF Arm
<1>4. /\ \A it \in Iters, s \in Slots :
           signal'[it][s] = IF it = iter /\ s \in slots THEN 1 ELSE signal[it][s]
      /\ signal' \in [Iters -> [Slots -> 0 .. Half * Half - 1]]
  BY <1>2, <1>3, SignalArith
<1>5. SignalsNeverWrap'
  BY <1>2, <1>4 DEF SignalsNeverWrap
<1> QED
  BY <1>1, <1>2, <1>4, <1>5

\* Arming the fill's signal (fillMem) keeps the invariant.
LEMMA FillArmStep ==
  ASSUME Inv, FillArm
  PROVE  Inv'
<1>1. /\ TypeOK /\ Serves(Plan) /\ Control /\ MemInv
      /\ pc = "fill_arm" /\ pc' = "fill" /\ iter' = iter /\ gpu' = 0 /\ Arm(PhaseSlots(0))
      /\ env' = env /\ size' = size /\ cmd' = cmd /\ scan' = scan /\ live' = live /\ mem' = mem
      /\ dest_done' = dest_done /\ done' = done /\ t_index' = t_index /\ queue' = queue
  BY DEF Inv, FillArm
<1>2. Phase = "none" /\ Phase' = "fill"
  BY <1>1, NextPhase DEF Phase
<1>3. NumNodes \in Nat \ {0}
  BY CollectiveAssumption
<1>4. /\ Placed' = {} /\ Reserved' = Gpus \X {1} /\ \A j : Slot(j)' = j[1] * NumNodes
  BY <1>1, <1>2 DEF Placed, Reserved, Slot
<1>5. /\ Queued' /\ DataInv' /\ SignalsNeverWrap'
      /\ signal' \in [Iters -> [Slots -> 0 .. Half * Half - 1]]
      /\ \A s \in Slots \cap PhaseSlots(0) : signal'[iter][s] = 1
  BY <1>1, <1>2, <1>4, ArmStep
<1>6. TypeOK'
  BY <1>1, <1>3, <1>5 DEF TypeOK, PcValues
<1>7. Control'
  BY <1>1, <1>3, PlanKept DEF Control, CheckPcs
<1>8. Armed'
  <2>1. \A i \in Gpus : i * NumNodes \in Slots \cap PhaseSlots(0)
    BY <1>1, <1>3, SlotTypes DEF PhaseSlots, Gpus
  <2> QED
    BY <1>1, <1>4, <1>5, <2>1 DEF Armed
<1>9. Gated' /\ CountInv'
  BY <1>1 DEF Gated, CountInv
<1>10. MemInv'
  BY <1>1, <1>2, MemoryKept DEF MemInv, FinishedIters, IterationPcs, CheckPcs
<1> QED
  BY <1>1, <1>5, <1>6, <1>7, <1>8, <1>9, <1>10, PlanKept DEF Inv

\* Submitting the fill's packets (fillMem) keeps the invariant: their queue is empty.
LEMMA FillSubmitStep ==
  ASSUME Inv, FillSubmit
  PROVE  Inv'
<1> DEFINE j == <<gpu, 1>>
<1>1. /\ TypeOK /\ Serves(Plan) /\ Control /\ MemInv
      /\ pc = "fill" /\ gpu' = gpu + 1
      /\ pc' = IF gpu + 1 = NumNodes THEN "fill_wait" ELSE "fill"
      /\ queue' = [queue EXCEPT ![<<gpu, FillEngine>>] = @ \o FillPackets(iter, gpu)]
      /\ env' = env /\ size' = size /\ iter' = iter /\ cmd' = cmd /\ scan' = scan /\ live' = live
      /\ mem' = mem /\ signal' = signal
      /\ dest_done' = dest_done /\ done' = done /\ t_index' = t_index
  BY DEF Inv, FillSubmit, Submit
<1>2. /\ NumNodes \in Nat \ {0} /\ gpu \in Gpus
      /\ pc' \in {"fill", "fill_wait"}
  BY <1>1, CollectiveAssumption DEF Control, TypeOK, Gpus
<1>3. Phase = "fill" /\ SamePhase
  BY <1>1, <1>2, NextPhase DEF Phase, SamePhase
<1>4. /\ j \in Jobs \ Placed /\ Placed' = Placed \cup {j} /\ On(j) = <<gpu, FillEngine>>
  <2>1. Jobs = Gpus \X {1} /\ Placed = (0 .. gpu - 1) \X {1} /\ On(j) = <<gpu, FillEngine>>
    BY <1>3, PhaseJobs
  <2>2. Placed' = (0 .. (gpu + 1) - 1) \X {1}
    BY <1>1, <1>3 DEF Placed, SamePhase
  <2>3. 0 .. (gpu + 1) - 1 = (0 .. gpu - 1) \cup {gpu} /\ gpu \notin 0 .. gpu - 1
    BY <1>2 DEF Gpus
  <2> QED
    BY <1>2, <2>1, <2>2, <2>3
<1>5. PICK d : d = FillPackets(iter, gpu)
  OBVIOUS
<1>6. WellMade(j, d)
  <2>1. WellMade(j, FillPackets(iter, j[1]))
    BY <1>1, <1>3, <1>4, FillMade
  <2> QED
    BY <1>5, <2>1
<1>7. queue' \in [Engines -> Seq(Packet)] /\ Queued' /\ Armed' /\ DataInv'
  BY <1>1, <1>3, <1>4, <1>5, <1>6, Submitted
<1>8. TypeOK'
  BY <1>1, <1>2, <1>7 DEF TypeOK, PcValues, Gpus
<1>9. Control'
  BY <1>1, <1>2, PlanKept DEF Control, CheckPcs, Gpus
<1>10. Gated' /\ CountInv'
  BY <1>2 DEF Gated, CountInv
<1>11. MemInv'
  BY <1>1, <1>2, <1>3, MemoryKept DEF MemInv, FinishedIters, IterationPcs, CheckPcs, SamePhase
<1> QED
  BY <1>1, <1>7, <1>8, <1>9, <1>10, <1>11, PlanKept DEF Inv

\* When the fills have been seen to complete, the iteration's buffers are full.
LEMMA FillsDone ==
  ASSUME Inv, pc = "fill_wait", Cleared(PhaseSlots(0))
  PROVE  Filled(iter) /\ \A e \in Engines : queue[e] = <<>>
<1>1. /\ TypeOK /\ Control /\ Phase = "fill" /\ gpu = NumNodes /\ NumNodes \in Nat \ {0}
  BY CollectiveAssumption DEF Inv, Control, Phase
<1>2. /\ Placed = Gpus \X {1}
      /\ \A j : Slot(j) = j[1] * NumNodes /\ Data(j) = FillData(j[1])
  BY <1>1, PhaseJobs DEF Gpus
<1>3. \A j \in Placed : signal[iter][Slot(j)] = 0
  BY <1>1, <1>2 DEF Cleared, PhaseSlots, Gpus
<1>4. /\ \A e \in Engines : queue[e] = <<>>
      /\ \A j \in Placed : \A p \in Data(j) : Arrived(p)
  BY <1>3, Drained
<1>5. \A a, v : FillPacket(a, v).op = "fill" /\ FillPacket(a, v).to = a /\ FillPacket(a, v).value = v
  BY DEF FillPacket
<1>6. ASSUME NEW i \in Gpus, NEW p \in FillData(i) PROVE Arrived(p)
  <2>1. <<i, 1>> \in Placed /\ p \in Data(<<i, 1>>)
    BY <1>2, <1>6
  <2> QED
    BY <1>4, <2>1
<1>7. \A a, v : Arrived(FillPacket(a, v)) => mem[a] = v
  BY <1>5 DEF Arrived
<1>8. ASSUME NEW i \in Gpus, NEW k \in Gpus
      PROVE  /\ mem[In(iter, i, k)] = Pattern(i, k)
             /\ mem[Out(iter, i, k)] = IF i = k THEN Pattern(i, k) ELSE 0
  <2>1. FillPacket(In(iter, i, k), Pattern(i, k)) \in FillData(i)
    BY DEF FillData
  <2>2. FillPacket(Out(iter, i, k), IF i = k THEN Pattern(i, k) ELSE 0) \in FillData(i)
    BY DEF FillData
  <2> QED
    BY <1>6, <1>7, <2>1, <2>2
<1> QED
  BY <1>4, <1>8 DEF Filled

\* The end of the fill's wait keeps the invariant: its signal is cleared, so it is written.
LEMMA FillWaitStep ==
  ASSUME Inv, FillWait
  PROVE  Inv'
<1>1. /\ TypeOK /\ Serves(Plan) /\ Control /\ MemInv /\ SignalsNeverWrap
      /\ pc = "fill_wait" /\ Cleared(PhaseSlots(0))
      /\ \/ iter + 1 = NumIter /\ pc' = "init_signals" /\ iter' = 0
         \/ iter + 1 # NumIter /\ pc' = "fill_arm" /\ iter' = iter + 1
      /\ env' = env /\ size' = size /\ gpu' = gpu /\ cmd' = cmd /\ scan' = scan /\ live' = live
      /\ queue' = queue /\ mem' = mem /\ signal' = signal
      /\ dest_done' = dest_done /\ done' = done /\ t_index' = t_index
  BY DEF Inv, Armed, FillWait
<1>2. NumIter \in Nat \ {0} /\ iter \in 0 .. NumIter - 1
  BY <1>1, CollectiveAssumption DEF TypeOK, Iters
<1>3. Filled(iter) /\ \A e \in Engines : queue[e] = <<>>
  BY <1>1, FillsDone
<1>4. /\ pc' \in {"init_signals", "fill_arm"} /\ iter' \in Iters
      /\ Phase' = "none" /\ SignalsNeverWrap'
  BY <1>1, <1>2, NextPhase DEF SignalsNeverWrap, Iters
<1>5. Queued' /\ DataInv' /\ Armed' /\ Gated' /\ CountInv'
  BY <1>1, <1>3, <1>4, Resting
<1>6. TypeOK'
  BY <1>1, <1>4 DEF TypeOK, PcValues
<1>7. Control'
  BY <1>1, <1>4, PlanKept DEF Control, CheckPcs
<1>8. MemInv'
  <2>1. \A it \in 0 .. iter : Filled(it)'
    BY <1>1, <1>2, <1>3, MemoryKept DEF MemInv
  <2>2. FinishedIters' = {}
    <3>1. CASE pc' = "fill_arm"
      BY <3>1 DEF FinishedIters, IterationPcs, CheckPcs
    <3>2. CASE pc' = "init_signals" /\ iter' = 0
      BY <3>2 DEF FinishedIters, IterationPcs
    <3> QED
      BY <1>1, <3>1, <3>2
  <2>3. pc' \in {"fill_arm", "fill", "fill_wait"} => \A it \in 0 .. iter' - 1 : Filled(it)'
    BY <1>1, <1>2, <2>1
  <2>4. pc' = "init_signals" => Filled(iter)'
    BY <1>1, <1>2, <2>1 DEF Filled
  <2>5. pc' \in IterationPcs => \A it \in iter' + 1 .. NumIter - 1 : Filled(it)'
    BY <1>1, <1>2, <2>1 DEF IterationPcs
  <2> QED
    BY <1>4, <2>2, <2>3, <2>4, <2>5 DEF MemInv
<1> QED
  BY <1>1, <1>5, <1>6, <1>7, <1>8, PlanKept DEF Inv

\* initSignals keeps the invariant: every queue is empty when the signals are armed.
LEMMA InitSignalsStep ==
  ASSUME Inv, InitSignals
  PROVE  Inv'
<1> DEFINE slots == {i * NumCmds + c : i \in Gpus, c \in 0 .. NumCmds - 1}
                      \cup IF env.poll THEN {PollId(i, n) : i \in Gpus, n \in 1 .. NumCmds}
                                              \cup (IF env.multi THEN {} ELSE {PollId(0, 1)})
                                       ELSE {}
<1>1. /\ TypeOK /\ Serves(Plan) /\ Control /\ MemInv
      /\ pc = "init_signals" /\ Arm(slots)
      /\ pc' = "submit" /\ gpu' = 0 /\ cmd' = 1 /\ dest_done' = {} /\ done' = 0 /\ t_index' = 2
      /\ env' = env /\ size' = size /\ iter' = iter /\ scan' = scan /\ live' = live
      /\ queue' = queue /\ mem' = mem
  BY DEF Inv, InitSignals
<1>2. Phase = "none" /\ Phase' = "move"
  BY <1>1, NextPhase DEF Phase
<1>3. NumNodes \in Nat \ {0} /\ NumCmds \in Nat /\ 0 \in Gpus /\ iter \in Iters
  <2>1. NumNodes \in Nat \ {0} /\ NumCmds \in Nat
    BY <1>1, PlanTypes
  <2> QED
    BY <1>1, <2>1 DEF Gpus, TypeOK
<1>4. /\ Plan' = Plan /\ NumCmds' = NumCmds /\ Commands' = Commands /\ TriggerSlots' = TriggerSlots
      /\ \A i : List(i)' = List(i)
      /\ \A i, n : SignalId(i, n)' = SignalId(i, n) /\ PollId(i, n)' = PollId(i, n)
      /\ Serves(Plan)'
  BY <1>1, PlanKept
<1>5. /\ Placed' = {} /\ Reserved' = Gpus \X (1 .. NumCmds)
      /\ \A j : Slot(j)' = SignalId(j[1], j[2])
  <2>1. Placed' = {j \in Commands : j[1] < 0 \/ (j[1] = 0 /\ j[2] < 1)}
    BY <1>1, <1>2, <1>4 DEF Placed
  <2>2. \A j \in Commands : j[1] \in Nat /\ j[2] \in Nat \ {0}
    BY <1>1, <1>3, PlanTypes DEF Gpus
  <2>3. Placed' = {}
    BY <2>1, <2>2
  <2> QED
    BY <1>2, <1>4, <2>3 DEF Reserved, Slot
<1>6. /\ Queued' /\ DataInv' /\ SignalsNeverWrap'
      /\ signal' \in [Iters -> [Slots -> 0 .. Half * Half - 1]]
      /\ \A s \in Slots \cap slots : signal'[iter][s] = 1
  BY <1>1, <1>2, <1>5, ArmStep
<1>7. TypeOK'
  BY <1>1, <1>3, <1>6 DEF TypeOK, PcValues, Gpus
<1>8. Control'
  <2>1. Len(List(0)) \in Nat
    BY <1>1, <1>3, PlanTypes
  <2> QED
    BY <1>1, <1>3, <1>4, <2>1 DEF Control, CheckPcs
<1>9. /\ \A i \in Gpus, n \in 1 .. NumCmds :
           /\ signal'[iter][SignalId(i, n)] = 1
           /\ env.poll => signal'[iter][PollId(i, n)] = 1
  <2> SUFFICES ASSUME NEW i \in Gpus, NEW n \in 1 .. NumCmds
               PROVE  /\ signal'[iter][SignalId(i, n)] = 1
                      /\ env.poll => signal'[iter][PollId(i, n)] = 1
    OBVIOUS
  <2>1. SignalId(i, n) \in Slots /\ PollId(i, n) \in Slots
    BY <1>1, SlotTypes
  <2>2. SignalId(i, n) = i * NumCmds + (n - 1) /\ n - 1 \in 0 .. NumCmds - 1
    BY <1>3 DEF SignalId, Gpus
  <2>3. SignalId(i, n) \in slots
    BY <2>2
  <2>4. env.poll => PollId(i, n) \in slots
    OBVIOUS
  <2> HIDE DEF slots
  <2> QED
    BY <1>6, <2>1, <2>3, <2>4
<1>10. Armed'
  BY <1>1, <1>5, <1>6, <1>9 DEF Armed
<1>11. Gated'
  <2>1. \A e \in Engines : queue[e] = <<>>
    BY <1>2, NothingQueued
  <2> QED
    BY <1>1, <1>4, <1>9, <2>1 DEF Gated
<1>12. CountInv'
  BY <1>1 DEF CountInv
<1>13. MemInv'
  <2>1. Filled(iter)
    BY <1>1 DEF MemInv
  <2>2. FinishedIters' = FinishedIters
    BY <1>1 DEF FinishedIters, IterationPcs
  <2>3. Sources'
    BY <1>1, <1>4, <2>1 DEF Sources, Filled, Inputs
  <2>4. Plan.op = "swap" => Swaps'
    <3> SUFFICES ASSUME Plan.op = "swap" PROVE Swaps'
      OBVIOUS
    <3>1. \A c \in Commands : c[1] \in Gpus /\ DestsOf(Plan, c)[1] \in Gpus
      <4>1. \A c \in Commands : Len(DestsOf(Plan, c)) = 1 /\ DestsOf(Plan, c) \in Seq(Gpus) /\ c[1] \in Gpus
        BY <1>1, PlanTypes DEF Serves, Commands
      <4> QED
        BY <4>1, ElementOfSeq
    <3>2. \A c \in Commands : Untouched(c[1], DestsOf(Plan, c)[1])'
      BY <1>1, <1>4, <2>1, <3>1 DEF Untouched, Filled
    <3>3. \A i \in Gpus : mem'[In(iter, i, i)] = Pattern(i, i)
      BY <1>1, <2>1 DEF Filled
    <3> QED
      BY <1>1, <1>4, <1>5, <3>2, <3>3 DEF Swaps
  <2> QED
    BY <1>1, <1>2, <1>4, <2>2, <2>3, <2>4, MemoryKept DEF MemInv, IterationPcs
<1> QED
  BY <1>4, <1>6, <1>7, <1>8, <1>10, <1>11, <1>12, <1>13 DEF Inv

\* Submitting one command of the submission loops keeps the invariant.
LEMMA SubmitCommandStep ==
  ASSUME Inv, SubmitCommand
  PROVE  Inv'
<1> DEFINE j == <<gpu, cmd>>
<1>1. /\ TypeOK /\ Serves(Plan) /\ Control /\ MemInv /\ CountInv /\ Gated
      /\ pc = "submit" /\ pc' = "submit" /\ cmd <= Len(List(gpu)) /\ cmd' = cmd + 1
      /\ queue' = [queue EXCEPT ![<<gpu, List(gpu)[cmd].engine_id>>] = @ \o CommandPackets(iter, gpu, cmd)]
      /\ env' = env /\ size' = size /\ iter' = iter /\ gpu' = gpu /\ scan' = scan /\ live' = live
      /\ mem' = mem /\ signal' = signal
      /\ dest_done' = dest_done /\ done' = done /\ t_index' = t_index
  BY DEF Inv, SubmitCommand, Submit
<1>2. /\ NumNodes \in Nat \ {0} /\ gpu \in Gpus /\ NumCmds \in Nat
      /\ Len(List(gpu)) \in 0 .. NumCmds /\ cmd \in 1 .. Len(List(gpu))
  <2>1. gpu \in Gpus /\ NumNodes \in Nat \ {0}
    BY <1>1, CollectiveAssumption DEF Control, TypeOK, Gpus
  <2>2. Len(List(gpu)) \in 0 .. NumCmds /\ NumCmds \in Nat
    BY <1>1, <2>1, PlanTypes
  <2> QED
    BY <1>1, <2>1, <2>2 DEF Control
<1>3. Phase = "move" /\ SamePhase
  BY <1>1, NextPhase DEF Phase, SamePhase
<1>4. /\ Plan' = Plan /\ NumCmds' = NumCmds /\ Commands' = Commands /\ TriggerSlots' = TriggerSlots
      /\ \A i : List(i)' = List(i)
      /\ \A i, n : SignalId(i, n)' = SignalId(i, n) /\ PollId(i, n)' = PollId(i, n)
      /\ Serves(Plan)'
  BY <1>1, PlanKept
<1>5. /\ j \in Jobs \ Placed /\ Placed' = Placed \cup {j} /\ On(j) = <<gpu, List(gpu)[cmd].engine_id>>
  <2>1. /\ Jobs = Commands /\ On(j) = <<gpu, List(gpu)[cmd].engine_id>>
        /\ Placed = {k \in Commands : k[1] < gpu \/ (k[1] = gpu /\ k[2] < cmd)}
    BY <1>3 DEF Jobs, On, Placed
  <2>2. j \in Commands
    BY <1>1, <1>2, PlanTypes DEF Commands, CommandsOf, List, NumCmds
  <2>3. Placed' = {k \in Commands : k[1] < gpu \/ (k[1] = gpu /\ k[2] < cmd + 1)}
    BY <1>1, <1>3, <1>4 DEF Placed, SamePhase
  <2>4. \A k \in Commands : k[1] \in Int /\ k[2] \in Int /\ k = <<k[1], k[2]>>
    BY <1>1, <1>2, PlanTypes DEF Gpus
  <2>5. \A k \in Commands : (k[1] < gpu \/ (k[1] = gpu /\ k[2] < cmd + 1)) <=>
                              (k[1] < gpu \/ (k[1] = gpu /\ k[2] < cmd)) \/ k = j
    BY <1>2, <2>4 DEF Gpus
  <2>6. gpu \in Int /\ cmd \in Int
    BY <1>2 DEF Gpus
  <2>7. j \notin Placed
    BY <2>1, <2>6
  <2>8. Placed' = Placed \cup {j}
    BY <2>1, <2>2, <2>3, <2>5
  <2> QED
    BY <2>1, <2>2, <2>7, <2>8
<1>6. PICK d : d = CommandPackets(iter, gpu, cmd)
  OBVIOUS
<1>7. WellMade(j, d)
  <2>1. WellMade(j, CommandPackets(iter, j[1], j[2]))
    BY <1>1, <1>3, <1>5, CommandMade
  <2> QED
    BY <1>6, <2>1
<1>8. /\ queue' \in [Engines -> Seq(Packet)] /\ Queued' /\ Armed' /\ DataInv'
      /\ env.poll /\ (\A e \in Engines : queue[e] # <<>> => Head(queue[e]).op = "poll")
           => \A e \in Engines : queue'[e] # <<>> => Head(queue'[e]).op = "poll"
      /\ Sources /\ (Plan.op = "swap" => Swaps) => Sources' /\ (Plan'.op = "swap" => Swaps')
  BY <1>1, <1>3, <1>5, <1>6, <1>7, Submitted
<1>9. TypeOK'
  BY <1>1, <1>2, <1>8 DEF TypeOK, PcValues
<1>10. Control'
  BY <1>1, <1>2, <1>4 DEF Control, CheckPcs, Gpus
<1>11. CountInv'
  BY <1>1 DEF CountInv
<1>12. Gated'
  BY <1>1, <1>4, <1>8 DEF Gated
<1>13. MemInv'
  <2>1. Sources' /\ (Plan'.op = "swap" => Swaps')
    BY <1>1, <1>3, <1>8 DEF MemInv
  <2>2. FinishedIters' = FinishedIters
    BY <1>1 DEF FinishedIters, IterationPcs
  <2> QED
    BY <1>1, <2>1, <2>2, MemoryKept DEF MemInv, IterationPcs
<1> QED
  BY <1>4, <1>8, <1>9, <1>10, <1>11, <1>12, <1>13 DEF Inv

\* Going on to the next queue of the submission loops keeps the invariant.
LEMMA NextGpuStep ==
  ASSUME Inv, NextGpu
  PROVE  Inv'
<1>1. /\ TypeOK /\ Serves(Plan) /\ Control /\ MemInv /\ CountInv /\ Gated /\ Armed
      /\ pc = "submit" /\ cmd > Len(List(gpu)) /\ gpu' = gpu + 1 /\ cmd' = 1 /\ scan' = 0
      /\ pc' = IF gpu + 1 < NumNodes THEN "submit" ELSE IF env.poll THEN "trigger" ELSE "spin"
      /\ t_index' = IF pc' = "trigger" THEN t_index + 1 ELSE t_index
      /\ env' = env /\ size' = size /\ iter' = iter /\ live' = live
      /\ queue' = queue /\ mem' = mem /\ signal' = signal
      /\ dest_done' = dest_done /\ done' = done
  BY DEF Inv, NextGpu, TriggerTimes
<1>2. /\ NumNodes \in Nat \ {0} /\ gpu \in Gpus /\ NumCmds \in Nat
      /\ pc' \in {"submit", "trigger", "spin"}
  <2>1. NumNodes \in Nat \ {0} /\ NumCmds \in Nat
    BY <1>1, PlanTypes
  <2> QED
    BY <1>1, <2>1 DEF Control, TypeOK, Gpus
<1>3. Phase = "move" /\ SamePhase
  BY <1>1, <1>2, NextPhase DEF Phase, SamePhase
<1>4. /\ Plan' = Plan /\ NumCmds' = NumCmds /\ Commands' = Commands /\ TriggerSlots' = TriggerSlots
      /\ \A i : List(i)' = List(i)
      /\ \A i, n : SignalId(i, n)' = SignalId(i, n) /\ PollId(i, n)' = PollId(i, n)
      /\ Serves(Plan)'
  BY <1>1, PlanKept
<1>5. Placed' = Placed
  <2>1. Placed = {k \in Commands : k[1] < gpu \/ (k[1] = gpu /\ k[2] < cmd)}
    BY <1>3 DEF Placed
  <2>2. Placed' = {k \in Commands : k[1] < gpu + 1 \/ (k[1] = gpu + 1 /\ k[2] < 1)}
    BY <1>1, <1>3, <1>4 DEF Placed, SamePhase
  <2>3. \A k \in Commands : k[1] \in Gpus /\ Len(List(k[1])) \in Nat /\ k[2] \in 1 .. Len(List(k[1]))
    BY <1>1, PlanTypes
  <2>4. cmd \in Nat /\ gpu \in Int
    BY <1>1, <1>2 DEF TypeOK, Gpus
  <2>5. ASSUME NEW k \in Commands
        PROVE  (k[1] < gpu + 1 \/ (k[1] = gpu + 1 /\ k[2] < 1)) <=>
                 (k[1] < gpu \/ (k[1] = gpu /\ k[2] < cmd))
    <3>1. k[1] \in Int /\ k[2] \in Int /\ k[2] >= 1 /\ (k[1] = gpu => k[2] < cmd)
      BY <1>1, <2>3, <2>4 DEF Gpus
    <3> QED
      BY <2>4, <3>1
  <2> QED
    BY <2>1, <2>2, <2>5
<1>6. SignalsNeverWrap'
  BY <1>1 DEF Armed, SignalsNeverWrap
<1>7. Queued' /\ Armed' /\ DataInv' /\ (Sources /\ (Plan.op = "swap" => Swaps) =>
                                          Sources' /\ (Plan'.op = "swap" => Swaps'))
  BY <1>1, <1>3, <1>5, <1>6, Kept
<1>8. TypeOK'
  BY <1>1, <1>2 DEF TypeOK, PcValues, Gpus
<1>9. Control'
  <2>1. NumNodes * NumCmds \in Nat /\ TriggerSlots \in Nat
    BY <1>2 DEF TriggerSlots
  <2>2. gpu + 1 < NumNodes => 1 \in 1 .. Len(List(gpu + 1)) + 1
    <3>1. gpu + 1 < NumNodes => gpu + 1 \in Gpus
      BY <1>2 DEF Gpus
    <3>2. gpu + 1 < NumNodes => Len(List(gpu + 1)) \in Nat
      BY <1>1, <3>1, PlanTypes
    <3> QED
      BY <3>2
  <2>3. gpu + 1 < NumNodes \/ gpu + 1 = NumNodes
    BY <1>2 DEF Gpus
  <2>4. env.poll \in BOOLEAN
    BY <1>1 DEF TypeOK
  <2> QED
    BY <1>1, <1>2, <1>4, <2>1, <2>2, <2>3, <2>4 DEF Control, CheckPcs
<1>10. CountInv'
  <2>1. dest_done' = {} /\ done' = 0 /\ t_index = 2
    BY <1>1 DEF CountInv
  <2>2. Cardinality(Counted)' = 0 /\ Cardinality(SeenCmds)' = 0
    <3>1. Counted' = {} /\ SeenCmds' = {}
      BY <2>1 DEF Counted, SeenCmds
    <3> QED
      BY <3>1, FS_EmptySet
  <2>3. pc' = "spin" => ~env.poll
    BY <1>1
  <2> QED
    BY <1>1, <2>1, <2>2, <2>3 DEF CountInv
<1>11. Gated'
  BY <1>1, <1>4 DEF Gated
<1>12. MemInv'
  <2>1. Sources' /\ (Plan'.op = "swap" => Swaps')
    BY <1>1, <1>3, <1>7 DEF MemInv
  <2>2. FinishedIters' = FinishedIters
    BY <1>1, <1>2 DEF FinishedIters, IterationPcs
  <2> QED
    BY <1>1, <1>2, <2>1, <2>2, MemoryKept DEF MemInv, IterationPcs
<1> QED
  BY <1>4, <1>7, <1>8, <1>9, <1>10, <1>11, <1>12 DEF Inv

\* Releasing the prelaunched queues (triggerPoll) keeps the invariant.
LEMMA TriggerStep ==
  ASSUME Inv, Trigger
  PROVE  Inv'
<1> DEFINE x == NumNodes * NumCmds + scan
<1>1. /\ TypeOK /\ Serves(Plan) /\ Control /\ MemInv /\ CountInv /\ Armed
      /\ pc = "trigger"
      /\ \/ /\ scan < TriggerSlots /\ signal' = [signal EXCEPT ![iter][x] = 0]
            /\ scan' = scan + 1 /\ pc' = "trigger"
         \/ scan' = 0 /\ pc' = "spin" /\ signal' = signal
      /\ env' = env /\ size' = size /\ iter' = iter /\ gpu' = gpu /\ cmd' = cmd /\ live' = live
      /\ queue' = queue /\ mem' = mem
      /\ dest_done' = dest_done /\ done' = done /\ t_index' = t_index
  BY DEF Inv, Trigger
<1>2. NumNodes \in Nat \ {0} /\ NumCmds \in Nat /\ NumNodes * NumCmds \in Nat /\ scan \in Nat
  <2>1. NumNodes \in Nat \ {0} /\ NumCmds \in Nat
    BY <1>1, PlanTypes
  <2> QED
    BY <1>1, <2>1 DEF TypeOK
<1>3. Phase = "move" /\ SamePhase /\ pc' \in {"trigger", "spin"}
  BY <1>1, NextPhase DEF Phase, SamePhase
<1>4. /\ Plan' = Plan /\ NumCmds' = NumCmds /\ Commands' = Commands /\ TriggerSlots' = TriggerSlots
      /\ \A i : List(i)' = List(i)
      /\ \A i, n : SignalId(i, n)' = SignalId(i, n) /\ PollId(i, n)' = PollId(i, n)
      /\ Serves(Plan)'
  BY <1>1, PlanKept
<1>5. Placed' = Placed
  BY <1>1, <1>3, <1>4 DEF Placed, SamePhase
<1>6. /\ signal' \in [Iters -> [Slots -> 0 .. Half * Half - 1]]
      /\ \A it \in Iters, s \in Slots : signal'[it][s] \in {signal[it][s], 0}
      /\ \A s \in Slots : s # x => signal'[iter][s] = signal[iter][s]
  <2>1. signal \in [Iters -> [Slots -> 0 .. Half * Half - 1]] /\ 0 \in 0 .. Half * Half - 1 /\ iter \in Iters
    BY <1>1, SignalArith DEF TypeOK
  <2>2. CASE signal' = signal
    BY <2>1, <2>2
  <2>3. CASE signal' = [signal EXCEPT ![iter][x] = 0]
    <3> HIDE DEF x
    <3> QED
      BY <2>1, <2>3
  <2> QED
    BY <1>1, <2>2, <2>3
<1>7. SignalsNeverWrap'
  BY <1>1, <1>6 DEF Armed, SignalsNeverWrap
<1>8. \A j \in Reserved : signal'[iter][Slot(j)] = signal[iter][Slot(j)]
  <2>1. \A j \in Reserved : Slot(j) \in Slots /\ Slot(j) < NumNodes * NumCmds
    BY <1>1, <1>3, JobSlots
  <2>2. \A j \in Reserved : Slot(j) # x
    BY <1>2, <2>1 DEF Slots
  <2> HIDE DEF x
  <2> QED
    BY <1>6, <2>1, <2>2
<1>9. Queued' /\ Armed' /\ DataInv' /\ (Sources /\ (Plan.op = "swap" => Swaps) =>
                                          Sources' /\ (Plan'.op = "swap" => Swaps'))
  BY <1>1, <1>3, <1>5, <1>7, <1>8, Kept
<1>10. TypeOK'
  BY <1>1, <1>2, <1>3, <1>6 DEF TypeOK, PcValues
<1>11. Control'
  <2>1. TriggerSlots \in Nat
    BY <1>2 DEF TriggerSlots
  <2> QED
    BY <1>1, <1>2, <1>4, <2>1 DEF Control, CheckPcs
<1>12. CountInv'
  <2>1. dest_done' = {} /\ done' = 0 /\ t_index' = 2 + 1
    BY <1>1 DEF CountInv
  <2>2. Cardinality(Counted)' = 0 /\ Cardinality(SeenCmds)' = 0
    <3>1. Counted' = {} /\ SeenCmds' = {}
      BY <2>1 DEF Counted, SeenCmds
    <3> QED
      BY <3>1, FS_EmptySet
  <2>3. env.poll
    BY <1>1 DEF Control
  <2> QED
    BY <1>1, <1>3, <2>1, <2>2, <2>3 DEF CountInv
<1>13. Gated'
  BY <1>3 DEF Gated
<1>14. MemInv'
  <2>1. Sources' /\ (Plan'.op = "swap" => Swaps')
    BY <1>1, <1>3, <1>9 DEF MemInv
  <2>2. FinishedIters' = FinishedIters
    BY <1>1, <1>3 DEF FinishedIters, IterationPcs
  <2> QED
    BY <1>1, <1>3, <2>1, <2>2, MemoryKept DEF MemInv, IterationPcs
<1> QED
  BY <1>4, <1>9, <1>10, <1>11, <1>12, <1>13, <1>14 DEF Inv

-----------------------------------------------------------------------------
(* Counting completions.                                                   *)

WeightOf(c) == IF Plan.weighted THEN Len(DestsOf(Plan, c)) ELSE 1
SharesOf(C) == {s \in Shares(Plan) : s[1] \in C}

\* One thing counted n times.
LEMMA Tagged ==
  ASSUME NEW c, NEW n \in Nat
  PROVE  IsFiniteSet({c} \X (1 .. n)) /\ Cardinality({c} \X (1 .. n)) = n
<1>1. 1 \in Int /\ n \in Int
  OBVIOUS
<1>2. IsFiniteSet(1 .. n) /\ Cardinality(1 .. n) = IF 1 > n THEN 0 ELSE n - 1 + 1
  BY <1>1, FS_Interval, Zenon
<1>3. Cardinality(1 .. n) = n
  BY <1>2
<1>4. IsFiniteSet({c}) /\ Cardinality({c}) = 1
  BY FS_Singleton
<1>5. /\ IsFiniteSet({c} \X (1 .. n))
      /\ Cardinality({c} \X (1 .. n)) = Cardinality({c}) * Cardinality(1 .. n)
  BY <1>2, <1>4, FS_Product, Zenon
<1> QED
  BY <1>3, <1>4, <1>5

\* There are finitely many commands, and finitely many shares to count.
LEMMA SharesFinite ==
  ASSUME TypeOK
  PROVE  /\ IsFiniteSet(Commands) /\ IsFiniteSet(Shares(Plan))
         /\ \A c \in Commands : WeightOf(c) \in Nat
         /\ \A c \in Commands : \A s : s \in Shares(Plan) /\ s[1] = c <=> s \in {c} \X (1 .. WeightOf(c))
         /\ \A s \in Shares(Plan) : s[1] \in Commands
<1>1. \A c \in Commands : WeightOf(c) \in Nat
  BY PlanTypes, LenProperties DEF WeightOf
<1>2. IsFiniteSet(Commands)
  <2>1. NumNodes \in Nat /\ NumCmds \in Nat
    BY PlanTypes
  <2>2. IsFiniteSet(Gpus) /\ IsFiniteSet(1 .. NumCmds)
    BY <2>1, FS_Interval DEF Gpus
  <2>3. IsFiniteSet(Gpus \X (1 .. NumCmds)) /\ Commands \subseteq Gpus \X (1 .. NumCmds)
    BY <2>2, PlanTypes, FS_Product DEF Commands, CommandsOf, NumCmds
  <2> QED
    BY <2>3, FS_Subset
<1> DEFINE W(c) == {c} \X (1 .. WeightOf(c))
           T == {W(c) : c \in Commands}
           f == [c \in Commands |-> W(c)]
<1>3. Shares(Plan) = UNION T
  BY DEF Shares, WeightOf, Commands
<1>4. \A c \in Commands : IsFiniteSet(W(c))
  BY <1>1, Tagged
<1>5. \A c \in Commands : \A s : s \in W(c) => s[1] = c
  OBVIOUS
<1> HIDE DEF W
<1>6. f \in Surjection(Commands, T)
  BY DEF Surjection
<1>7. IsFiniteSet(T)
  BY <1>2, <1>6, FS_Surjection
<1>8. IsFiniteSet(Shares(Plan))
  BY <1>3, <1>4, <1>7, FS_UNION
<1>9. \A c \in Commands : \A s : s \in Shares(Plan) /\ s[1] = c <=> s \in W(c)
  BY <1>3, <1>5
<1>10. \A s \in Shares(Plan) : s[1] \in Commands
  BY <1>3, <1>5
<1> QED
  BY <1>1, <1>2, <1>8, <1>9, <1>10 DEF W

\* A command more counts for as much as it weighs.
LEMMA OneMore ==
  ASSUME TypeOK, NEW C \in SUBSET Commands, NEW c \in Commands \ C
  PROVE  /\ Cardinality(C) \in Nat /\ Cardinality(C \cup {c}) = Cardinality(C) + 1
         /\ Cardinality(SharesOf(C)) \in Nat
         /\ Cardinality(SharesOf(C \cup {c})) = Cardinality(SharesOf(C)) + WeightOf(c)
<1> DEFINE W == {c} \X (1 .. WeightOf(c))
<1>1. /\ IsFiniteSet(C) /\ Cardinality(C) \in Nat
      /\ Cardinality(C \cup {c}) = Cardinality(C) + 1
  BY SharesFinite, FS_Subset, FS_CardinalityType, FS_AddElement
<1>2. IsFiniteSet(SharesOf(C)) /\ Cardinality(SharesOf(C)) \in Nat
  BY SharesFinite, FS_Subset, FS_CardinalityType DEF SharesOf
<1>3. IsFiniteSet(W) /\ Cardinality(W) = WeightOf(c)
  BY SharesFinite, Tagged
<1>4. \A s : s \in Shares(Plan) /\ s[1] = c <=> s \in W
  BY SharesFinite
<1> HIDE DEF W
<1>5. SharesOf(C \cup {c}) = SharesOf(C) \cup W /\ SharesOf(C) \cap W = {}
  BY <1>4 DEF SharesOf
<1>6. Cardinality(SharesOf(C) \cup W) = Cardinality(SharesOf(C)) + Cardinality(W) - Cardinality(SharesOf(C) \cap W)
  BY <1>2, <1>3, FS_Union
<1>7. Cardinality(SharesOf(C) \cap W) = 0
  BY <1>5, FS_EmptySet
<1>8. WeightOf(c) \in Nat
  BY SharesFinite
<1>9. Cardinality(SharesOf(C \cup {c})) = Cardinality(SharesOf(C)) + WeightOf(c) - 0
  BY <1>3, <1>5, <1>6, <1>7
<1> QED
  BY <1>1, <1>2, <1>8, <1>9

\* When the count meets its target every command has been seen to complete.
LEMMA AllSeen ==
  ASSUME Inv, pc = "spin", done = Plan.done_target
  PROVE  SeenCmds = Commands /\ Cardinality(SeenCmds) = Plan.total_transfers
<1>1. TypeOK /\ Serves(Plan) /\ done = Cardinality(Counted)
  BY DEF Inv, CountInv
<1>2. Cardinality(Counted) = Cardinality(Shares(Plan)) /\ Plan.total_transfers = Cardinality(Commands)
  BY <1>1 DEF Serves, Commands
<1>3. Counted = Shares(Plan)
  BY <1>1, <1>2, SharesFinite, FS_Subset DEF Counted
<1>4. ASSUME NEW c \in Commands PROVE c \in SeenCmds
  <2>1. WeightOf(c) \in Nat \ {0}
    <3>1. DestsOf(Plan, c) \in Seq(Gpus) /\ DestsOf(Plan, c) # <<>>
      BY <1>1, PlanTypes DEF Serves, Commands
    <3>2. Len(DestsOf(Plan, c)) \in Nat \ {0}
      BY <3>1, EmptySeq
    <3> QED
      BY <3>2 DEF WeightOf
  <2>2. <<c, 1>> \in {c} \X (1 .. WeightOf(c))
    BY <2>1
  <2>3. <<c, 1>> \in Shares(Plan)
    BY <1>1, <2>2, SharesFinite
  <2>4. <<c, 1>>[1] \in SeenCmds
    BY <1>3, <2>3 DEF Counted
  <2> QED
    BY <2>4
<1> QED
  BY <1>2, <1>4 DEF SeenCmds

\* A slot found clear is the one of a command.
LEMMA SlotOwner ==
  ASSUME Inv, pc = "spin", scan < NumNodes * NumCmds, signal[iter][scan] = 0
  PROVE  /\ scan \in Slots
         /\ \E c \in Commands : scan = SignalId(c[1], c[2]) /\ Weight(scan) = WeightOf(c)
<1>1. /\ TypeOK /\ Control /\ Armed /\ Phase = "move"
      /\ NumNodes \in Nat \ {0} /\ NumCmds \in Nat /\ scan \in Nat
  BY PlanTypes DEF Inv, TypeOK, Phase
<1>2. NumCmds > 0
  <2>1. NumCmds = 0 => NumNodes * NumCmds = 0
    BY <1>1
  <2> QED
    BY <1>1, <2>1
<1> DEFINE x == scan
           m == NumCmds
<1>3. /\ x \div m \in Nat /\ x % m \in 0 .. m - 1
      /\ x = m * (x \div m) + (x % m)
  <2>0. x \in Nat /\ m \in Nat \ {0}
    BY <1>1, <1>2
  <2> HIDE DEF x, m
  <2>1. x \div m \in Int /\ x % m \in 0 .. m - 1 /\ x = m * (x \div m) + (x % m)
    BY <2>0
  <2>2. x \div m >= 0
    BY <2>0, <2>1
  <2> QED
    BY <2>0, <2>1, <2>2
<1> DEFINE i == scan \div NumCmds
           r == scan % NumCmds
           j == <<i, r + 1>>
<1> HIDE DEF i, r
<1>4. i < NumNodes
  <2>1. i \in Nat /\ r \in Nat /\ scan = NumCmds * i + r
    BY <1>1, <1>3 DEF i, r
  <2> SUFFICES ASSUME i >= NumNodes PROVE FALSE
    BY <1>1, <2>1
  <2>2. (i - NumNodes) * NumCmds >= 0 /\ (i - NumNodes) * NumCmds = NumCmds * i - NumNodes * NumCmds
    BY <1>1, <2>1
  <2>3. NumCmds * i \in Int /\ NumNodes * NumCmds \in Int
    BY <1>1, <2>1
  <2> QED
    BY <1>1, <2>1, <2>2, <2>3
<1>5. i \in Gpus /\ r + 1 \in 1 .. NumCmds
  BY <1>1, <1>3, <1>4 DEF i, r, Gpus
<1>6. j \in Reserved /\ Slot(j) = SignalId(i, r + 1)
  BY <1>1, <1>5 DEF Reserved, Slot
<1>7. SignalId(i, r + 1) = scan
  BY <1>1, <1>3 DEF SignalId, i, r
<1>8. j \in Placed
  BY <1>1, <1>6, <1>7 DEF Armed
<1>9. j \in Commands
  BY <1>1, <1>8, PhaseJobs
<1>10. Weight(scan) = WeightOf(j)
  <2>1. (scan % NumCmds) + 1 = r + 1 /\ scan \div NumCmds = i
    BY DEF i, r
  <2>2. List(i)[r + 1].dests = DestsOf(Plan, j)
    BY <1>1, <1>9, PlanTypes
  <2> QED
    BY <2>1, <2>2 DEF Weight, WeightOf
<1>11. scan \in Slots
  BY <1>1, <1>6, <1>7, JobSlots
<1> QED
  BY <1>7, <1>9, <1>10, <1>11

\* One signal seen cleared by spinWait, or by broadcast's own loop, keeps the invariant:
\* its command has been executed.
LEMMA SpinReadStep ==
  ASSUME Inv, SpinRead
  PROVE  Inv'
<1>1. /\ TypeOK /\ Serves(Plan) /\ Control /\ MemInv /\ CountInv /\ Armed
      /\ pc = "spin" /\ scan < NumNodes * NumCmds /\ scan' = scan + 1
      /\ env' = env /\ pc' = pc /\ size' = size /\ iter' = iter /\ gpu' = gpu /\ cmd' = cmd
      /\ live' = live /\ queue' = queue /\ mem' = mem /\ signal' = signal
  BY DEF Inv, SpinRead
<1>2. NumNodes \in Nat \ {0} /\ NumCmds \in Nat /\ NumNodes * NumCmds \in Nat /\ scan \in Nat
  <2>1. NumNodes \in Nat \ {0} /\ NumCmds \in Nat
    BY <1>1, PlanTypes
  <2> QED
    BY <1>1, <2>1 DEF TypeOK
<1>3. Phase = "move" /\ SamePhase
  BY <1>1, NextPhase DEF Phase, SamePhase
<1>4. /\ Plan' = Plan /\ NumCmds' = NumCmds /\ Commands' = Commands /\ TriggerSlots' = TriggerSlots
      /\ \A i : List(i)' = List(i)
      /\ \A i, n : SignalId(i, n)' = SignalId(i, n) /\ PollId(i, n)' = PollId(i, n)
      /\ Serves(Plan)'
  BY <1>1, PlanKept
<1>5. Placed' = Placed
  BY <1>1, <1>3, <1>4 DEF Placed, SamePhase
<1>6. SignalsNeverWrap'
  BY <1>1 DEF Armed, SignalsNeverWrap
<1>7. Queued' /\ Armed' /\ DataInv' /\ (Sources /\ (Plan.op = "swap" => Swaps) =>
                                          Sources' /\ (Plan'.op = "swap" => Swaps'))
  BY <1>1, <1>3, <1>5, <1>6, Kept
<1>8. /\ dest_done' \subseteq Slots /\ done' \in Nat /\ t_index' \in Nat /\ CountInv'
  <2>1. CASE dest_done' = dest_done /\ done' = done /\ t_index' = t_index
    <3>1. SeenCmds' = SeenCmds /\ Counted' = Counted
      BY <1>4, <2>1 DEF SeenCmds, Counted
    <3> QED
      BY <1>1, <1>4, <2>1, <3>1 DEF TypeOK, CountInv
  <2>2. CASE /\ signal[iter][scan] = 0 /\ scan \notin dest_done
             /\ dest_done' = dest_done \cup {scan} /\ done' = done + Weight(scan)
             /\ t_index' = t_index + 1
    <3>1. PICK c \in Commands : scan = SignalId(c[1], c[2]) /\ Weight(scan) = WeightOf(c)
      BY <1>1, <2>2, SlotOwner
    <3>2. scan \in Slots
      BY <1>1, <2>2, SlotOwner
    <3>3. \A d \in Commands : SignalId(d[1], d[2]) = scan <=> d = c
      <4>1. Commands \subseteq Reserved /\ \A d \in Commands : Slot(d) = SignalId(d[1], d[2])
        BY <1>1, <1>3, PhaseJobs, JobSlots
      <4> QED
        BY <1>1, <3>1, <4>1, JobSlots
    <3>4. SeenCmds' = SeenCmds \cup {c} /\ c \notin SeenCmds /\ SeenCmds \subseteq Commands
      BY <1>4, <2>2, <3>1, <3>3 DEF SeenCmds
    <3>5. Counted = SharesOf(SeenCmds) /\ Counted' = SharesOf(SeenCmds \cup {c})
      BY <1>4, <3>4 DEF Counted, SharesOf
    <3>6. /\ Cardinality(SeenCmds) \in Nat /\ Cardinality(SeenCmds') = Cardinality(SeenCmds) + 1
          /\ Cardinality(Counted) \in Nat
          /\ Cardinality(Counted') = Cardinality(Counted) + WeightOf(c)
      BY <1>1, <3>4, <3>5, OneMore
    <3>7. WeightOf(c) \in Nat
      BY <1>1, SharesFinite
    <3>8. done' = Cardinality(Counted') /\ done' \in Nat
      BY <1>1, <2>2, <3>1, <3>6, <3>7 DEF CountInv
    <3>9. /\ t_index' = 2 + (IF env.poll THEN 1 ELSE 0) + Cardinality(SeenCmds')
          /\ t_index' \in Nat
      <4>1. t_index = 2 + (IF env.poll THEN 1 ELSE 0) + Cardinality(SeenCmds)
        BY <1>1 DEF CountInv
      <4>2. t_index \in Nat
        BY <1>1 DEF TypeOK
      <4> QED
        BY <2>2, <3>6, <4>1, <4>2
    <3>10. \A s \in dest_done' : \E d \in Commands : s = SignalId(d[1], d[2]) /\ signal[iter][s] = 0
      BY <1>1, <2>2, <3>1 DEF CountInv
    <3>11. dest_done' \subseteq Slots
      BY <1>1, <2>2, <3>2 DEF TypeOK
    <3> QED
      BY <1>1, <1>4, <3>8, <3>9, <3>10, <3>11 DEF CountInv
  <2> QED
    BY <2>1, <2>2 DEF SpinRead
<1>9. TypeOK'
  BY <1>1, <1>2, <1>8 DEF TypeOK
<1>10. Control'
  BY <1>1, <1>2, <1>4 DEF Control, CheckPcs
<1>11. Gated'
  BY <1>1 DEF Gated
<1>12. MemInv'
  <2>1. Sources' /\ (Plan'.op = "swap" => Swaps')
    BY <1>1, <1>3, <1>7 DEF MemInv
  <2>2. FinishedIters' = FinishedIters
    BY <1>1 DEF FinishedIters, IterationPcs
  <2> QED
    BY <1>1, <1>3, <2>1, <2>2, MemoryKept DEF MemInv, IterationPcs
<1> QED
  BY <1>4, <1>7, <1>8, <1>9, <1>10, <1>11, <1>12 DEF Inv

-----------------------------------------------------------------------------
(* The data of completed commands.                                         *)

\* A command whose packets have had their effect has brought its chunks.
LEMMA Delivered ==
  ASSUME Inv, Phase = "move", NEW c \in Commands, \A p \in Data(c) : Arrived(p),
         NEW k \in DOMAIN DestsOf(Plan, c)
  PROVE  /\ Moved(iter, c[1], DestsOf(Plan, c)[k])
         /\ Plan.op = "swap" => Moved(iter, DestsOf(Plan, c)[k], c[1])
<1> DEFINE d == DestsOf(Plan, c)[k]
<1>1. TypeOK /\ Serves(Plan) /\ Sources
  BY DEF Inv, MemInv
<1>2. c[1] \in Gpus /\ d \in Gpus /\ d # c[1]
  <2>1. DestsOf(Plan, c) \in Seq(Gpus) /\ c[1] \in Gpus
    BY <1>1, PlanTypes
  <2>2. d \in Gpus
    BY <2>1, ElementOfSeq
  <2>3. d # c[1]
    BY <1>1 DEF Serves, Commands
  <2> QED
    BY <2>1, <2>2, <2>3
<1>3. \A p \in MoveData(c[1], c[2]) : Arrived(p)
  BY PhaseJobs
<1>4. Plan.op \in {"ag", "aa", "swap"}
  BY <1>1, MoveShape
<1>5. CASE Plan.op = "ag"
  <2>1. PICK p \in MoveData(c[1], c[2]) : In(iter, d, c[1]) \in p.to
    BY <1>1, <1>5, MoveShape
  <2>2. p.op = "copy" /\ p.from = In(iter, c[1], c[1])
    BY <1>1, <1>5, MoveShape DEF AgShape
  <2>3. mem[In(iter, d, c[1])] = mem[In(iter, c[1], c[1])]
    <3>1. Arrived(p)
      BY <1>3, <2>1
    <3>2. \A a \in p.to : mem[a] = mem[p.from]
      BY <2>2, <3>1 DEF Arrived
    <3> HIDE DEF d
    <3> QED
      BY <2>1, <2>2, <3>2
  <2>4. mem[In(iter, d, c[1])] = Pattern(c[1], c[1])
    BY <1>1, <1>2, <1>5, <2>3 DEF Sources
  <2> QED
    BY <1>5, <2>4 DEF Moved, Result, Expected, InPlace
<1>6. CASE Plan.op = "aa"
  <2> DEFINE p == CopyPacket(In(iter, c[1], d), {Out(iter, d, c[1])})
  <2>1. p \in MoveData(c[1], c[2])
    BY <1>1, <1>6, MoveShape
  <2>2. p.op = "copy" /\ p.from = In(iter, c[1], d) /\ p.to = {Out(iter, d, c[1])}
    BY DEF CopyPacket
  <2>3. mem[Out(iter, d, c[1])] = mem[In(iter, c[1], d)]
    <3>1. Arrived(p)
      BY <1>3, <2>1
    <3> HIDE DEF p
    <3> QED
      BY <2>2, <3>1 DEF Arrived
  <2>4. mem[Out(iter, d, c[1])] = Pattern(c[1], d)
    BY <1>1, <1>2, <1>6, <2>3 DEF Sources, Inputs
  <2> QED
    BY <1>6, <2>4 DEF Moved, Result, Expected, InPlace
<1>7. CASE Plan.op = "swap"
  <2>1. SwapOf(c) \in MoveData(c[1], c[2])
    BY <1>1, <1>7, MoveShape
  <2>2. k = 1
    <3>1. Len(DestsOf(Plan, c)) = 1 /\ DestsOf(Plan, c) \in Seq(Gpus)
      BY <1>1, <1>7, PlanTypes DEF Serves, Commands
    <3> QED
      BY <3>1
  <2>3. /\ SwapOf(c).op = "swap"
        /\ SwapOf(c).a = In(iter, d, c[1]) /\ SwapOf(c).b = In(iter, c[1], d)
    BY <2>2 DEF SwapOf, SwapPacket
  <2>4. /\ In(iter, d, c[1])[3] = d /\ In(iter, d, c[1])[4] = c[1]
        /\ In(iter, c[1], d)[3] = c[1] /\ In(iter, c[1], d)[4] = d
    BY AddressParts
  <2>5. /\ mem[In(iter, d, c[1])] = Pattern(c[1], d)
        /\ mem[In(iter, c[1], d)] = Pattern(d, c[1])
    BY <1>3, <2>1, <2>3, <2>4 DEF Arrived
  <2> QED
    BY <1>7, <2>5 DEF Moved, Result, Expected, InPlace
<1> QED
  BY <1>4, <1>5, <1>6, <1>7

\* A GPU has its own chunk all along.
LEMMA OwnChunk ==
  ASSUME Inv, Phase = "move", NEW i \in Gpus
  PROVE  Moved(iter, i, i)
<1>1. TypeOK /\ Sources /\ (Plan.op = "swap" => Swaps)
  BY DEF Inv, MemInv
<1>2. Plan.op \in {"ag", "aa", "swap"}
  BY <1>1, PlanTypes DEF IsPlan
<1>3. CASE Plan.op = "ag"
  BY <1>1, <1>3 DEF Sources, Moved, Result, Expected, InPlace
<1>4. CASE Plan.op = "aa"
  BY <1>1, <1>4 DEF Sources, Inputs, Moved, Result, Expected, InPlace
<1>5. CASE Plan.op = "swap"
  BY <1>1, <1>5 DEF Swaps, Moved, Result, Expected, InPlace
<1> QED
  BY <1>2, <1>3, <1>4, <1>5

\* A command counted has had its effect.
LEMMA SeenArrived ==
  ASSUME Inv, pc = "spin", NEW c \in SeenCmds
  PROVE  signal[iter][Slot(c)] = 0 /\ \A p \in Data(c) : Arrived(p)
<1>1. TypeOK /\ Control /\ CountInv /\ Armed /\ DataInv /\ Phase = "move" /\ gpu = NumNodes
  BY DEF Inv, Control, Phase
<1>2. c \in Commands /\ SignalId(c[1], c[2]) \in dest_done
  BY DEF SeenCmds
<1>3. c \in Reserved /\ Slot(c) = SignalId(c[1], c[2])
  BY <1>1, <1>2, PhaseJobs, JobSlots
<1>4. signal[iter][Slot(c)] = 0
  BY <1>1, <1>2, <1>3 DEF CountInv
<1>5. c \in Placed /\ ~Has(queue[On(c)], Done(c))
  BY <1>1, <1>3, <1>4 DEF Armed
<1> QED
  BY <1>1, <1>4, <1>5, BeforeWaits DEF DataInv

\* When the count meets its target, the iteration is finished and the engines idle.
LEMMA MoveDone ==
  ASSUME Inv, pc = "spin", done = Plan.done_target
  PROVE  Finished(iter) /\ \A e \in Engines : queue[e] = <<>>
<1>1. TypeOK /\ Serves(Plan) /\ Control /\ Phase = "move"
  BY DEF Inv, Phase
<1>2. SeenCmds = Commands
  BY AllSeen
<1>3. \A c \in Commands : signal[iter][Slot(c)] = 0 /\ \A p \in Data(c) : Arrived(p)
  BY <1>2, SeenArrived
<1>4. \A e \in Engines : queue[e] = <<>>
  <2>1. Placed \subseteq Commands
    BY <1>1, JobSlots, PhaseJobs
  <2> QED
    BY <1>3, <2>1, Drained
<1>5. ASSUME NEW src \in Gpus, NEW dst \in Gpus PROVE Moved(iter, src, dst)
  <2>1. CASE src = dst
    BY <1>1, <2>1, OwnChunk
  <2>2. CASE src # dst
    <3>1. PICK c \in Commands : \E k \in DOMAIN DestsOf(Plan, c) : <<src, dst>> \in Covers(Plan, c, k)
      BY <1>1, <2>2, PlanTypes DEF Serves, Commands
    <3>2. PICK k \in DOMAIN DestsOf(Plan, c) : <<src, dst>> \in Covers(Plan, c, k)
      BY <3>1
    <3>3. \/ src = c[1] /\ dst = DestsOf(Plan, c)[k]
          \/ Plan.op = "swap" /\ src = DestsOf(Plan, c)[k] /\ dst = c[1]
      BY <3>2 DEF Covers
    <3> QED
      BY <1>1, <1>3, <3>3, Delivered
  <2> QED
    BY <2>1, <2>2
<1> QED
  BY <1>4, <1>5 DEF Finished

\* The end of the wait keeps the invariant: all signals of the iteration are seen.
LEMMA SpinEndStep ==
  ASSUME Inv, SpinEnd
  PROVE  Inv'
<1>1. /\ TypeOK /\ Serves(Plan) /\ Control /\ MemInv /\ CountInv /\ Armed
      /\ pc = "spin" /\ scan' = 0
      /\ \/ done # Plan.done_target /\ pc' = pc /\ iter' = iter
         \/ done = Plan.done_target /\ iter + 1 < NumIter /\ pc' = "init_signals" /\ iter' = iter + 1
         \/ done = Plan.done_target /\ ~(iter + 1 < NumIter) /\ pc' = "check_arm" /\ iter' = 0
      /\ env' = env /\ size' = size /\ gpu' = gpu /\ cmd' = cmd /\ live' = live
      /\ queue' = queue /\ mem' = mem /\ signal' = signal
      /\ dest_done' = dest_done /\ done' = done /\ t_index' = t_index
  BY DEF Inv, SpinEnd
<1>2. /\ NumNodes \in Nat \ {0} /\ NumCmds \in Nat /\ NumNodes * NumCmds \in Nat
      /\ NumIter \in Nat \ {0} /\ iter \in 0 .. NumIter - 1 /\ gpu \in 0 .. NumNodes
  <2>1. NumNodes \in Nat \ {0} /\ NumCmds \in Nat /\ NumIter \in Nat \ {0}
    BY <1>1, PlanTypes
  <2> QED
    BY <1>1, <2>1 DEF TypeOK, Iters
<1>3. /\ Plan' = Plan /\ NumCmds' = NumCmds /\ Commands' = Commands /\ TriggerSlots' = TriggerSlots
      /\ \A i : List(i)' = List(i)
      /\ \A i, n : SignalId(i, n)' = SignalId(i, n) /\ PollId(i, n)' = PollId(i, n)
      /\ Serves(Plan)'
  BY <1>1, PlanKept
<1>4. SignalsNeverWrap'
  BY <1>1 DEF Armed, SignalsNeverWrap
<1>5. TypeOK'
  BY <1>1, <1>2 DEF TypeOK, PcValues, Iters
<1>6. Control'
  BY <1>1, <1>2, <1>3 DEF Control, CheckPcs
<1>7. CASE pc' = pc /\ iter' = iter
  <2>1. Phase = "move" /\ SamePhase
    BY <1>1, <1>7, NextPhase DEF Phase, SamePhase
  <2>2. Placed' = Placed
    BY <1>1, <1>3, <2>1 DEF Placed, SamePhase
  <2>3. Queued' /\ Armed' /\ DataInv' /\ (Sources /\ (Plan.op = "swap" => Swaps) =>
                                            Sources' /\ (Plan'.op = "swap" => Swaps'))
    BY <1>1, <1>4, <2>1, <2>2, Kept
  <2>4. CountInv'
    <3>1. SeenCmds' = SeenCmds /\ Counted' = Counted
      BY <1>1, <1>3 DEF SeenCmds, Counted
    <3> QED
      BY <1>1, <1>3, <1>7, <3>1 DEF CountInv
  <2>5. Gated'
    BY <1>1, <1>7 DEF Gated
  <2>6. MemInv'
    <3>1. Sources' /\ (Plan'.op = "swap" => Swaps')
      BY <1>1, <2>1, <2>3 DEF MemInv
    <3>2. FinishedIters' = FinishedIters
      BY <1>1, <1>7 DEF FinishedIters, IterationPcs
    <3> QED
      BY <1>1, <1>7, <3>1, <3>2, MemoryKept DEF MemInv, IterationPcs
  <2> QED
    BY <1>3, <1>5, <1>6, <2>3, <2>4, <2>5, <2>6 DEF Inv
<1>8. CASE done = Plan.done_target /\ pc' # pc
  <2>1. Finished(iter) /\ \A e \in Engines : queue[e] = <<>>
    BY <1>1, <1>8, MoveDone
  <2>2. pc' \in {"init_signals", "check_arm"}
    BY <1>1, <1>8
  <2>3. Queued' /\ DataInv' /\ Armed' /\ Gated' /\ CountInv'
    BY <1>1, <1>4, <2>1, <2>2, Resting
  <2>4. Phase' = "none"
    BY <2>2, NextPhase
  <2>5. \A it \in 0 .. iter : Finished(it)'
    <3>1. FinishedIters = 0 .. iter - 1
      BY <1>1 DEF FinishedIters, IterationPcs
    <3>2. \A it \in 0 .. iter : it \in FinishedIters \/ it = iter
      BY <1>2, <3>1
    <3>3. \A it \in FinishedIters : Finished(it)
      BY <1>1 DEF MemInv
    <3>4. \A it : Finished(it)' = Finished(it)
      BY <1>1, MemoryKept
    <3> QED
      BY <1>1, <2>1, <3>2, <3>3, <3>4
  <2>6. \A it \in iter + 1 .. NumIter - 1 : Filled(it)'
    <3>1. \A it \in iter + 1 .. NumIter - 1 : Filled(it)
      BY <1>1 DEF MemInv, IterationPcs
    <3> QED
      BY <1>1, <3>1, MemoryKept
  <2>7. \A it \in FinishedIters' : Finished(it)'
    <3>1. CASE pc' = "init_signals"
      <4>1. FinishedIters' = 0 .. iter' - 1 /\ iter' = iter + 1
        BY <1>1, <3>1 DEF FinishedIters, IterationPcs
      <4>2. 0 .. iter' - 1 = 0 .. iter
        BY <1>2, <4>1
      <4> QED
        BY <2>5, <4>1, <4>2
    <3>2. CASE pc' = "check_arm"
      <4>1. FinishedIters' = Iters /\ ~(iter + 1 < NumIter)
        BY <1>1, <3>2 DEF FinishedIters, IterationPcs, CheckPcs
      <4>2. Iters = 0 .. iter
        BY <1>2, <4>1 DEF Iters
      <4> QED
        BY <2>5, <4>1, <4>2
    <3> QED
      BY <2>2, <3>1, <3>2
  <2>8. CASE pc' = "init_signals"
    <3>1. iter' = iter + 1 /\ iter' \in iter + 1 .. NumIter - 1
      BY <1>1, <1>2, <2>8
    <3>2. \A it \in iter' + 1 .. NumIter - 1 : it \in iter + 1 .. NumIter - 1
      BY <1>2, <3>1
    <3>3. Filled(iter)'
      BY <2>6, <3>1 DEF Filled
    <3> QED
      BY <1>3, <1>5, <1>6, <2>3, <2>4, <2>6, <2>7, <2>8, <3>2, <3>3 DEF Inv, MemInv
  <2>9. CASE pc' = "check_arm"
    BY <1>3, <1>5, <1>6, <2>3, <2>4, <2>7, <2>9 DEF Inv, MemInv, IterationPcs
  <2> QED
    BY <2>2, <2>8, <2>9
<1> QED
  BY <1>1, <1>7, <1>8

\* Arming the signal of validateMem's read-back keeps the invariant.
LEMMA CheckArmStep ==
  ASSUME Inv, CheckArm
  PROVE  Inv'
<1>1. /\ TypeOK /\ Serves(Plan) /\ Control /\ MemInv
      /\ pc = "check_arm" /\ pc' = IF NumNodes = 1 THEN "check_wait" ELSE "check"
      /\ iter' = iter /\ gpu' = 1 /\ Arm(PhaseSlots(1))
      /\ env' = env /\ size' = size /\ cmd' = cmd /\ scan' = scan /\ live' = live /\ mem' = mem
      /\ dest_done' = dest_done /\ done' = done /\ t_index' = t_index /\ queue' = queue
  BY DEF Inv, CheckArm
<1>2. Phase = "none" /\ Phase' = "check" /\ pc' \in {"check", "check_wait"}
  BY <1>1, NextPhase DEF Phase
<1>3. NumNodes \in Nat \ {0}
  BY CollectiveAssumption
<1>4. /\ Placed' = {} /\ Reserved' = (1 .. NumNodes - 1) \X {1} /\ \A j : Slot(j)' = j[1] * NumNodes
  <2>1. Placed' = (1 .. 1 - 1) \X {1}
    BY <1>1, <1>2 DEF Placed
  <2> QED
    BY <1>1, <1>2, <2>1 DEF Reserved, Slot
<1>5. /\ Queued' /\ DataInv' /\ SignalsNeverWrap'
      /\ signal' \in [Iters -> [Slots -> 0 .. Half * Half - 1]]
      /\ \A s \in Slots \cap PhaseSlots(1) : signal'[iter][s] = 1
  BY <1>1, <1>2, <1>4, ArmStep
<1>6. TypeOK'
  BY <1>1, <1>2, <1>3, <1>5 DEF TypeOK, PcValues
<1>7. Control'
  BY <1>1, <1>2, <1>3, PlanKept DEF Control, CheckPcs
<1>8. Armed'
  <2>1. \A i \in 1 .. NumNodes - 1 : i * NumNodes \in Slots \cap PhaseSlots(1)
    BY <1>1, <1>3, SlotTypes DEF PhaseSlots, Gpus
  <2> QED
    BY <1>1, <1>4, <1>5, <2>1 DEF Armed
<1>9. Gated' /\ CountInv'
  BY <1>2 DEF Gated, CountInv
<1>10. MemInv'
  <2>1. FinishedIters' = FinishedIters
    BY <1>1, <1>2 DEF FinishedIters, IterationPcs, CheckPcs
  <2> QED
    BY <1>1, <1>2, <2>1, MemoryKept DEF MemInv, IterationPcs
<1> QED
  BY <1>1, <1>5, <1>6, <1>7, <1>8, <1>9, <1>10, PlanKept DEF Inv

\* Submitting validateMem's read-back keeps the invariant: all queues are empty.
LEMMA CheckSubmitStep ==
  ASSUME Inv, CheckSubmit
  PROVE  Inv'
<1> DEFINE j == <<gpu, 1>>
<1>1. /\ TypeOK /\ Serves(Plan) /\ Control /\ MemInv
      /\ pc = "check" /\ gpu' = gpu + 1
      /\ pc' = IF gpu + 1 = NumNodes THEN "check_wait" ELSE "check"
      /\ queue' = [queue EXCEPT ![<<gpu, CpuEngine>>] = @ \o ReadbackPackets(iter, gpu)]
      /\ env' = env /\ size' = size /\ iter' = iter /\ cmd' = cmd /\ scan' = scan /\ live' = live
      /\ mem' = mem /\ signal' = signal
      /\ dest_done' = dest_done /\ done' = done /\ t_index' = t_index
  BY DEF Inv, CheckSubmit, Submit
<1>2. /\ NumNodes \in Nat \ {0} /\ gpu \in 1 .. NumNodes - 1
      /\ pc' \in {"check", "check_wait"}
  BY <1>1, CollectiveAssumption DEF Control, TypeOK, CheckPcs
<1>3. Phase = "check" /\ SamePhase
  BY <1>1, <1>2, NextPhase DEF Phase, SamePhase
<1>4. /\ j \in Jobs \ Placed /\ Placed' = Placed \cup {j} /\ On(j) = <<gpu, CpuEngine>>
  <2>1. Jobs = (1 .. NumNodes - 1) \X {1} /\ Placed = (1 .. gpu - 1) \X {1} /\ On(j) = <<gpu, CpuEngine>>
    BY <1>3, PhaseJobs
  <2>2. Placed' = (1 .. (gpu + 1) - 1) \X {1}
    BY <1>1, <1>3 DEF Placed, SamePhase
  <2>3. 1 .. (gpu + 1) - 1 = (1 .. gpu - 1) \cup {gpu} /\ gpu \notin 1 .. gpu - 1
    BY <1>2
  <2> QED
    BY <1>2, <2>1, <2>2, <2>3
<1>5. PICK d : d = ReadbackPackets(iter, gpu)
  OBVIOUS
<1>6. WellMade(j, d)
  <2>1. WellMade(j, ReadbackPackets(iter, j[1]))
    BY <1>1, <1>3, <1>4, CheckMade
  <2> QED
    BY <1>5, <2>1
<1>7. queue' \in [Engines -> Seq(Packet)] /\ Queued' /\ Armed' /\ DataInv'
  BY <1>1, <1>3, <1>4, <1>5, <1>6, Submitted
<1>8. TypeOK'
  BY <1>1, <1>2, <1>7 DEF TypeOK, PcValues
<1>9. Control'
  BY <1>1, <1>2, PlanKept DEF Control, CheckPcs
<1>10. Gated' /\ CountInv'
  BY <1>2 DEF Gated, CountInv
<1>11. MemInv'
  <2>1. FinishedIters' = FinishedIters
    BY <1>1, <1>2 DEF FinishedIters, IterationPcs, CheckPcs
  <2> QED
    BY <1>1, <1>2, <1>3, <2>1, MemoryKept DEF MemInv, IterationPcs, SamePhase
<1> QED
  BY <1>1, <1>7, <1>8, <1>9, <1>10, <1>11, PlanKept DEF Inv

\* When the readbacks have been seen to complete they match.
LEMMA ChecksDone ==
  ASSUME Inv, pc = "check_wait", Cleared(PhaseSlots(1))
  PROVE  ReadbackMatches /\ \A e \in Engines : queue[e] = <<>>
<1>1. /\ TypeOK /\ Control /\ Phase = "check" /\ gpu = NumNodes /\ NumNodes \in Nat \ {0}
      /\ Finished(iter)
  <2>1. TypeOK /\ Control /\ Phase = "check" /\ gpu = NumNodes /\ NumNodes \in Nat \ {0}
    BY CollectiveAssumption DEF Inv, Control, Phase
  <2>2. iter \in FinishedIters
    BY <2>1 DEF FinishedIters, IterationPcs, CheckPcs, TypeOK
  <2> QED
    BY <2>1, <2>2 DEF Inv, MemInv
<1>2. /\ Placed = (1 .. NumNodes - 1) \X {1}
      /\ \A j : Slot(j) = j[1] * NumNodes /\ Data(j) = CheckData(j[1])
  BY <1>1, PhaseJobs
<1>3. \A j \in Placed : signal[iter][Slot(j)] = 0
  BY <1>1, <1>2 DEF Cleared, PhaseSlots
<1>4. /\ \A e \in Engines : queue[e] = <<>>
      /\ \A j \in Placed : \A p \in Data(j) : Arrived(p)
  BY <1>3, Drained
<1>5. ASSUME NEW i \in 1 .. NumNodes - 1, NEW k \in Gpus
      PROVE  mem[Sys(i, k)] = Expected(i, k)
  <2>1. PICK p : p = CopyPacket(Result(iter, i, k), {Sys(i, k)})
    OBVIOUS
  <2>2. p.op = "copy" /\ p.from = Result(iter, i, k) /\ p.to = {Sys(i, k)}
    BY <2>1 DEF CopyPacket
  <2>3. <<i, 1>> \in Placed /\ p \in Data(<<i, 1>>)
    BY <1>2, <2>1 DEF CheckData
  <2>4. Arrived(p)
    BY <1>4, <2>3
  <2>5. mem[Sys(i, k)] = mem[Result(iter, i, k)]
    BY <2>2, <2>4 DEF Arrived
  <2>6. i \in Gpus
    BY <1>1 DEF Gpus
  <2> QED
    BY <1>1, <2>5, <2>6 DEF Finished, Moved
<1> QED
  BY <1>4, <1>5 DEF ReadbackMatches

\* The end of validateMem's wait keeps the invariant: what it compares is the result.
LEMMA CheckWaitStep ==
  ASSUME Inv, CheckWait
  PROVE  Inv'
<1>1. /\ TypeOK /\ Serves(Plan) /\ Control /\ MemInv /\ SignalsNeverWrap
      /\ pc = "check_wait" /\ Cleared(PhaseSlots(1))
      /\ env' = env /\ size' = size /\ gpu' = gpu /\ cmd' = cmd /\ scan' = scan /\ live' = live
      /\ queue' = queue /\ mem' = mem /\ signal' = signal
      /\ dest_done' = dest_done /\ done' = done /\ t_index' = t_index
  BY DEF Inv, Armed, CheckWait
<1>2. NumIter \in Nat \ {0} /\ iter \in 0 .. NumIter - 1
  BY <1>1, CollectiveAssumption DEF TypeOK, Iters
<1>3. ReadbackMatches /\ \A e \in Engines : queue[e] = <<>>
  BY <1>1, ChecksDone
<1>4. /\ \/ pc' = "check_arm" /\ iter' = iter + 1 /\ iter + 1 < NumIter
         \/ pc' = "free" /\ iter' = iter
      /\ iter' \in Iters
  BY <1>2, <1>3 DEF CheckWait, Iters
<1>5. pc' \in {"check_arm", "free"} /\ Phase' = "none" /\ SignalsNeverWrap'
  BY <1>1, <1>4, NextPhase DEF SignalsNeverWrap
<1>6. Queued' /\ DataInv' /\ Armed' /\ Gated' /\ CountInv'
  BY <1>1, <1>3, <1>5, Resting
<1>7. TypeOK'
  BY <1>1, <1>4 DEF TypeOK, PcValues
<1>8. Control'
  <2>1. gpu \in 0 .. NumNodes /\ NumNodes \in Nat
    BY <1>1, CollectiveAssumption DEF TypeOK
  <2> QED
    BY <1>1, <1>5, <2>1, PlanKept DEF Control, CheckPcs
<1>9. MemInv'
  <2>1. FinishedIters' = FinishedIters
    BY <1>1, <1>5 DEF FinishedIters, IterationPcs, CheckPcs
  <2> QED
    BY <1>1, <1>5, <2>1, MemoryKept DEF MemInv, IterationPcs
<1> QED
  BY <1>1, <1>6, <1>7, <1>8, <1>9, PlanKept DEF Inv

\* freeMem keeps the invariant: it changes no data that a packet still touches.
LEMMA FreeMemStep ==
  ASSUME Inv, FreeMem
  PROVE  Inv'
<1>1. /\ TypeOK /\ Serves(Plan) /\ Control /\ SignalsNeverWrap
      /\ pc = "free" /\ size' = size + 1
      /\ pc' = IF size + 1 < NumSizes THEN "allocate" ELSE "end"
      /\ live' = [b \in BufferKinds |-> IF b = "out" THEN live[b] ELSE live[b] - 1]
      /\ env' = env /\ iter' = iter /\ gpu' = gpu /\ cmd' = cmd /\ scan' = scan
      /\ queue' = queue /\ mem' = mem /\ signal' = signal
      /\ dest_done' = dest_done /\ done' = done /\ t_index' = t_index
  BY DEF Inv, Armed, FreeMem
<1>2. /\ NumSizes \in Nat \ {0} /\ size \in 0 .. NumSizes - 1
      /\ pc' \in {"allocate", "end"} /\ Phase = "none" /\ Phase' = "none"
      /\ SignalsNeverWrap'
  BY <1>1, CollectiveAssumption, NextPhase DEF TypeOK, Control, Phase, SignalsNeverWrap
<1>3. \A b \in {"in", "sys", "signal"} : live[b] = 1 /\ live'[b] = 0
  BY <1>1 DEF Control, BufferKinds
<1>4. Queued' /\ DataInv' /\ Armed' /\ Gated' /\ CountInv'
  BY <1>1, <1>2, NothingQueued, Resting
<1>5. TypeOK'
  <2>1. live' \in [BufferKinds -> Nat]
    <3>1. live'["out"] = live["out"] /\ live["out"] \in Nat
      BY <1>1 DEF TypeOK, BufferKinds
    <3> QED
      BY <1>1, <1>3, <3>1 DEF BufferKinds
  <2> QED
    BY <1>1, <1>2, <2>1 DEF TypeOK, PcValues
<1>6. Control'
  BY <1>1, <1>2, <1>3, PlanKept DEF Control, CheckPcs
<1>7. MemInv'
  BY <1>2 DEF MemInv, FinishedIters, IterationPcs, CheckPcs
<1> QED
  BY <1>1, <1>4, <1>5, <1>6, <1>7, PlanKept DEF Inv

-----------------------------------------------------------------------------
(* The invariant holds from the start and at every step.                   *)

\* The invariant holds when the collective starts.
LEMMA InvInit ==
  ASSUME \A p \in Plans : Serves(p), Init
  PROVE  Inv
<1>1. /\ env \in [plan : Plans, sync : SyncTypes, poll : BOOLEAN, multi : BOOLEAN]
      /\ pc = "allocate" /\ size = 0 /\ iter = 0 /\ gpu = 0 /\ cmd = 1 /\ scan = 0
      /\ dest_done = {} /\ done = 0 /\ t_index = 2
      /\ queue = [e \in Engines |-> <<>>]
      /\ mem = [a \in Address |-> Junk]
      /\ signal = [it \in Iters |-> [s \in Slots |-> 0]]
      /\ live = [b \in BufferKinds |-> 0]
  BY DEF Init
<1>2. NumNodes \in Nat \ {0} /\ NumIter \in Nat \ {0} /\ NumSizes \in Nat \ {0}
  BY CollectiveAssumption
<1>3. Phase = "none" /\ Placed = {} /\ Reserved = {}
  BY <1>1 DEF Phase, Placed, Reserved
<1>4. TypeOK
  <2>1. mem \in [Address -> Value]
    BY <1>1, ValueTypes
  <2>2. signal \in [Iters -> [Slots -> 0 .. Half * Half - 1]]
    BY <1>1, SignalArith
  <2>3. queue \in [Engines -> Seq(Packet)]
    BY <1>1
  <2> QED
    BY <1>1, <1>2, <2>1, <2>2, <2>3 DEF TypeOK, PcValues, Iters
<1>5. Serves(Plan)
  BY <1>1 DEF Plan
<1>6. Control
  BY <1>1, <1>2 DEF Control, CheckPcs, BufferKinds
<1>7. Queued
  <2>1. \A e \in Engines : queue[e] = <<>>
    BY <1>1
  <2> QED
    BY <1>3, <2>1 DEF Queued, EndsIn
<1>8. Armed
  BY <1>1, <1>3 DEF Armed, SignalsNeverWrap
<1>9. DataInv
  BY <1>3 DEF DataInv
<1>10. CountInv /\ Gated
  BY <1>1 DEF CountInv, Gated
<1>11. MemInv
  BY <1>1, <1>3 DEF MemInv, FinishedIters, IterationPcs, CheckPcs
<1> QED
  BY <1>4, <1>5, <1>6, <1>7, <1>8, <1>9, <1>10, <1>11 DEF Inv

\* A step that changes nothing keeps the invariant.
LEMMA InvStutter ==
  ASSUME Inv, UNCHANGED vars
  PROVE  Inv'
<1>1. /\ env' = env /\ pc' = pc /\ size' = size /\ iter' = iter /\ gpu' = gpu /\ cmd' = cmd
      /\ scan' = scan /\ dest_done' = dest_done /\ done' = done /\ t_index' = t_index
      /\ queue' = queue /\ mem' = mem /\ signal' = signal /\ live' = live
  BY DEF vars
<1>2. TypeOK /\ Serves(Plan) /\ Control /\ CountInv /\ Armed /\ Gated /\ MemInv
  BY DEF Inv
<1>3. /\ Plan' = Plan /\ NumCmds' = NumCmds /\ Commands' = Commands /\ TriggerSlots' = TriggerSlots
      /\ \A i : List(i)' = List(i)
      /\ \A i, n : SignalId(i, n)' = SignalId(i, n) /\ PollId(i, n)' = PollId(i, n)
      /\ Serves(Plan)'
  BY <1>1, <1>2, PlanKept
<1>4. SamePhase /\ Phase' = Phase
  BY <1>1 DEF SamePhase, Phase
<1>5. Placed' = Placed /\ SignalsNeverWrap'
  BY <1>1, <1>2, <1>3, <1>4 DEF Placed, Armed, SignalsNeverWrap
<1>6. Queued' /\ Armed' /\ DataInv' /\ (Sources /\ (Plan.op = "swap" => Swaps) =>
                                          Sources' /\ (Plan'.op = "swap" => Swaps'))
  BY <1>1, <1>4, <1>5, Kept
<1>7. TypeOK' /\ Control' /\ Gated'
  BY <1>1, <1>2, <1>3 DEF TypeOK, Control, Gated
<1>8. CountInv'
  <2>1. SeenCmds' = SeenCmds /\ Counted' = Counted
    BY <1>1, <1>3 DEF SeenCmds, Counted
  <2> QED
    BY <1>1, <1>2, <1>3, <2>1 DEF CountInv
<1>9. MemInv'
  <2>1. FinishedIters' = FinishedIters
    BY <1>1 DEF FinishedIters
  <2> QED
    BY <1>1, <1>2, <1>4, <1>6, <2>1, MemoryKept DEF MemInv
<1> QED
  BY <1>3, <1>6, <1>7, <1>8, <1>9 DEF Inv

\* Every step of the CPU or of an engine keeps the invariant.
LEMMA InvNext ==
  ASSUME Inv, [Next]_vars
  PROVE  Inv'
<1>1. ASSUME Cpu PROVE Inv'
  BY <1>1, AllocateMemStep, FillArmStep, FillSubmitStep, FillWaitStep, InitSignalsStep,
     SubmitCommandStep, NextGpuStep, TriggerStep, SpinReadStep, SpinEndStep,
     CheckArmStep, CheckSubmitStep, CheckWaitStep, FreeMemStep DEF Cpu
<1>2. ASSUME NEW e \in Engines, Engine(e) PROVE Inv'
  BY <1>2, EngineStep
<1> QED
  BY <1>1, <1>2, InvStutter DEF Next

-----------------------------------------------------------------------------
(* What follows from the invariant.                                        *)

\* What a packet of one job writes, no packet of another job touches.
LEMMA JobsApart ==
  ASSUME Inv, NEW j \in Placed, NEW k \in Placed, j # k, NEW p \in Data(j), NEW q \in Data(k)
  PROVE  Writes(p) \cap (Reads(q) \cup Writes(q)) = {}
<1>1. /\ TypeOK /\ Serves(Plan) /\ Control /\ j \in Jobs /\ k \in Jobs
      /\ Phase \in {"fill", "move", "check", "none"}
  BY JobSlots, PhaseCases DEF Inv
<1>2. \A r : /\ r.op = "fill" => Reads(r) = {} /\ Writes(r) = {r.to}
             /\ r.op = "copy" => Reads(r) = {r.from} /\ Writes(r) = r.to
             /\ r.op = "swap" => Reads(r) = {r.a, r.b} /\ Writes(r) = {r.a, r.b}
  BY DEF Reads, Writes
<1>3. CASE Phase = "fill"
  <2>1. j[1] # k[1] /\ p \in FillData(j[1]) /\ q \in FillData(k[1])
    BY <1>1, <1>3, PhaseJobs
  <2>2. \A i : \A r \in FillData(i) : r.op = "fill" /\ r.to[3] = i
    <3>1. \A a, v : FillPacket(a, v).op = "fill" /\ FillPacket(a, v).to = a
      BY DEF FillPacket
    <3> QED
      BY <3>1, AddressParts DEF FillData
  <2>3. Writes(p) = {p.to} /\ Writes(q) = {q.to} /\ Reads(q) = {} /\ p.to[3] # q.to[3]
    BY <1>2, <2>1, <2>2
  <2> QED
    BY <2>3
<1>4. CASE Phase = "check"
  <2>1. j[1] # k[1] /\ p \in CheckData(j[1]) /\ q \in CheckData(k[1])
    BY <1>1, <1>4, PhaseJobs
  <2>2. ASSUME NEW i, NEW r \in CheckData(i)
        PROVE  /\ r.op = "copy" /\ r.from[1] # "sys"
               /\ \A a \in r.to : a[1] = "sys" /\ a[3] = i
    <3>1. PICK l \in Gpus : r = CopyPacket(Result(iter, i, l), {Sys(i, l)})
      BY DEF CheckData
    <3>2. r.op = "copy" /\ r.from = Result(iter, i, l) /\ r.to = {Sys(i, l)}
      BY <3>1 DEF CopyPacket
    <3> QED
      BY <3>2, AddressParts DEF Result
  <2>3. Writes(p) = p.to /\ Writes(q) = q.to /\ Reads(q) = {q.from}
    BY <1>2, <2>1, <2>2
  <2> QED
    BY <2>1, <2>2, <2>3
<1>5. CASE Phase = "move"
  <2>1. /\ j \in Commands /\ k \in Commands
        /\ p \in MoveData(j[1], j[2]) /\ q \in MoveData(k[1], k[2])
        /\ Plan.op \in {"ag", "aa", "swap"}
    BY <1>1, <1>5, PhaseJobs, MoveShape
  <2>2. ASSUME NEW l \in DOMAIN DestsOf(Plan, j), NEW m \in DOMAIN DestsOf(Plan, k), j[1] = k[1]
        PROVE  DestsOf(Plan, j)[l] # DestsOf(Plan, k)[m]
    <3> SUFFICES ASSUME DestsOf(Plan, j)[l] = DestsOf(Plan, k)[m] PROVE FALSE
      OBVIOUS
    <3>1. <<j[1], DestsOf(Plan, j)[l]>> \in Covers(Plan, j, l) \cap Covers(Plan, k, m)
      BY <2>2 DEF Covers
    <3> QED
      BY <1>1, <2>1, <3>1 DEF Serves, Commands
  <2>3. \A c \in Commands : \A l \in DOMAIN DestsOf(Plan, c) : DestsOf(Plan, c)[l] # c[1]
    BY <1>1 DEF Serves, Commands
  <2>4. CASE Plan.op = "ag"
    <3>1. AgShape(j, p) /\ AgShape(k, q)
      BY <1>1, <2>1, <2>4, MoveShape
    <3>2. /\ Writes(p) = p.to /\ Writes(q) = q.to /\ Reads(q) = {In(iter, k[1], k[1])}
          /\ p.to \subseteq {In(iter, DestsOf(Plan, j)[l], j[1]) : l \in DOMAIN DestsOf(Plan, j)}
          /\ q.to \subseteq {In(iter, DestsOf(Plan, k)[l], k[1]) : l \in DOMAIN DestsOf(Plan, k)}
      BY <1>2, <3>1 DEF AgShape
    <3>3. ASSUME NEW a \in p.to PROVE a \notin Reads(q) \cup Writes(q)
      <4>1. PICK l \in DOMAIN DestsOf(Plan, j) : a = In(iter, DestsOf(Plan, j)[l], j[1])
        BY <3>2
      <4>2. a[3] = DestsOf(Plan, j)[l] /\ a[4] = j[1] /\ a[3] # a[4]
        BY <2>1, <2>3, <4>1, AddressParts
      <4>3. a # In(iter, k[1], k[1])
        BY <4>2, AddressParts
      <4>4. ASSUME NEW m \in DOMAIN DestsOf(Plan, k) PROVE a # In(iter, DestsOf(Plan, k)[m], k[1])
        BY <2>2, <4>2, AddressParts
      <4> QED
        BY <3>2, <4>3, <4>4
    <3> QED
      BY <3>2, <3>3
  <2>5. CASE Plan.op = "aa"
    <3>0. \A a, t : CopyPacket(a, t).op = "copy" /\ CopyPacket(a, t).from = a /\ CopyPacket(a, t).to = t
      BY DEF CopyPacket
    <3>1. PICK l \in DOMAIN DestsOf(Plan, j) :
            p = CopyPacket(In(iter, j[1], DestsOf(Plan, j)[l]), {Out(iter, DestsOf(Plan, j)[l], j[1])})
      BY <1>1, <2>1, <2>5, MoveShape DEF AaShape
    <3>2. PICK m \in DOMAIN DestsOf(Plan, k) :
            q = CopyPacket(In(iter, k[1], DestsOf(Plan, k)[m]), {Out(iter, DestsOf(Plan, k)[m], k[1])})
      BY <1>1, <2>1, <2>5, MoveShape DEF AaShape
    <3>3. /\ Writes(p) = {Out(iter, DestsOf(Plan, j)[l], j[1])}
          /\ Writes(q) = {Out(iter, DestsOf(Plan, k)[m], k[1])}
          /\ Reads(q) = {In(iter, k[1], DestsOf(Plan, k)[m])}
      BY <1>2, <3>0, <3>1, <3>2
    <3>4. \A i, d, h, b : Out(iter, d, i) # In(iter, h, b) /\ (Out(iter, d, i) = Out(iter, h, b) => d = h /\ i = b)
      BY AddressParts
    <3> QED
      BY <2>2, <3>3, <3>4
  <2>6. CASE Plan.op = "swap"
    <3>1. p = SwapOf(j) /\ q = SwapOf(k)
      BY <1>1, <2>1, <2>6, MoveShape
    <3>2. SwapOf(j).op = "swap" /\ SwapOf(k).op = "swap"
      BY DEF SwapOf, SwapPacket
    <3>3. Writes(p) = {p.a, p.b} /\ Writes(q) = {q.a, q.b} /\ Reads(q) = {q.a, q.b}
      BY <1>2, <3>1, <3>2
    <3>4. p.a \notin {q.a, q.b} /\ p.b \notin {q.a, q.b}
      BY <1>1, <2>1, <2>6, <3>1, SwapsApart
    <3> QED
      BY <3>3, <3>4
  <2> QED
    BY <2>1, <2>4, <2>5, <2>6
<1>6. CASE Phase = "none"
  BY <1>1, <1>6, PhaseJobs
<1> QED
  BY <1>1, <1>3, <1>4, <1>5, <1>6

\* The plans run are plans that serve every pair (module CommandPlan checks the
\* code's lists for it).
PlansServe == \A p \in Plans : Serves(p)

\* In every reachable state the queues hold what the jobs under way consist of,
\* in order, and memory what the completed ones have made of it.
THEOREM CollectiveInvariant ==
  ASSUME PlansServe PROVE Spec => []Inv
<1>1. Init => Inv
  BY InvInit DEF PlansServe
<1>2. Inv /\ [Next]_vars => Inv'
  BY InvNext
<1> QED
  BY <1>1, <1>2, PTL DEF Spec

\* Every variable keeps its type; signals and chunk contents in particular stay
\* in range whatever the engines do.
THEOREM CollectiveTypeCorrect ==
  ASSUME PlansServe PROVE Spec => []TypeOK
<1>1. Inv => TypeOK
  BY DEF Inv
<1> QED
  BY <1>1, CollectiveInvariant, PTL

\* A completion signal is cleared once: the atomic that would wrap it around to
\* 2^64 - 1 finds it set.
THEOREM CollectiveSignals ==
  ASSUME PlansServe PROVE Spec => []SignalsNeverWrap
<1>1. Inv => SignalsNeverWrap
  BY DEF Inv, Armed
<1> QED
  BY <1>1, CollectiveInvariant, PTL

\* When the spin loop lets the CPU go on, every GPU holds every chunk, in the
\* buffers of that iteration and of all before it.
THEOREM CollectiveCorrect ==
  ASSUME PlansServe PROVE Spec => []ResultCorrect
<1>1. Inv => ResultCorrect
  BY DEF Inv, MemInv, Finished, ResultCorrect
<1> QED
  BY <1>1, CollectiveInvariant, PTL

\* CHECK_EQ on the data read back never ends the program.
THEOREM CollectiveValidates ==
  ASSUME PlansServe PROVE Spec => []ValidationPasses
<1>1. Inv => ValidationPasses
  BY DEF Inv, Control, ValidationPasses
<1> QED
  BY <1>1, CollectiveInvariant, PTL

\* What is freed no engine has a packet left to execute for.
THEOREM CollectiveFreedQuiescent ==
  ASSUME PlansServe PROVE Spec => []FreedIsQuiescent
<1>1. Inv => FreedIsQuiescent
  <2> SUFFICES ASSUME Inv, live["in"] = 0 PROVE \A e \in Engines : queue[e] = <<>>
    BY DEF FreedIsQuiescent
  <2>1. Phase = "none"
    BY DEF Inv, Control, Phase
  <2> QED
    BY <2>1, NothingQueued
<1> QED
  BY <1>1, CollectiveInvariant, PTL

\* A completion is counted only after its command's data has arrived at all its
\* destinations, for a swap on both sides.
THEOREM CollectiveSeenMoved ==
  ASSUME PlansServe PROVE Spec => []SeenIsMoved
<1>1. Inv => SeenIsMoved
  <2> SUFFICES ASSUME Inv, pc = "spin", NEW slot \in dest_done,
                      NEW k \in DOMAIN List(slot \div NumCmds)[(slot % NumCmds) + 1].dests
               PROVE  LET dests == List(slot \div NumCmds)[(slot % NumCmds) + 1].dests
                      IN  /\ Moved(iter, slot \div NumCmds, dests[k])
                          /\ Plan.op = "swap" => Moved(iter, dests[k], slot \div NumCmds)
    BY DEF SeenIsMoved
  <2>1. TypeOK /\ CountInv /\ Phase = "move"
    BY DEF Inv, Phase
  <2>2. PICK c \in Commands : slot = SignalId(c[1], c[2])
    BY <2>1 DEF CountInv
  <2>3. c \in SeenCmds
    BY <2>2 DEF SeenCmds
  <2>4. /\ c[1] \in Gpus /\ c[2] \in 1 .. NumCmds /\ NumCmds \in Nat
        /\ List(c[1])[c[2]].dests = DestsOf(Plan, c)
    BY <2>1, PlanTypes
  <2>5. slot \div NumCmds = c[1] /\ (slot % NumCmds) + 1 = c[2]
    <3>1. slot \div NumCmds = c[1] /\ slot % NumCmds = c[2] - 1
      BY <2>1, <2>2, <2>4, SlotTypes
    <3> QED
      BY <2>4, <3>1
  <2>6. \A p \in Data(c) : Arrived(p)
    BY <2>3, SeenArrived
  <2>7. k \in DOMAIN DestsOf(Plan, c)
    BY <2>4, <2>5
  <2>8. /\ Moved(iter, c[1], DestsOf(Plan, c)[k])
        /\ Plan.op = "swap" => Moved(iter, DestsOf(Plan, c)[k], c[1])
    BY <2>1, <2>6, <2>7, Delivered
  <2> QED
    BY <2>4, <2>5, <2>8
<1> QED
  BY <1>1, CollectiveInvariant, PTL

\* No two engines have packets at hand of which one writes what the other
\* touches, so the order in which they run cannot change the result.
THEOREM CollectiveRaceFree ==
  ASSUME PlansServe PROVE Spec => []RaceFree
<1>1. Inv => RaceFree
  <2> SUFFICES ASSUME Inv, NEW e \in Engines, NEW f \in Engines, e # f,
                      queue[e] # <<>>, queue[f] # <<>>
               PROVE  Writes(Head(queue[e])) \cap
                        (Reads(Head(queue[f])) \cup Writes(Head(queue[f]))) = {}
    BY DEF RaceFree
  <2>1. PICK p, q : p = Head(queue[e]) /\ q = Head(queue[f])
    OBVIOUS
  <2>2. PICK j \in Placed : On(j) = e /\ p \in Parts(j)
    BY <2>1, HeadJob
  <2>3. PICK k \in Placed : On(k) = f /\ q \in Parts(k)
    BY <2>1, HeadJob
  <2>4. ASSUME NEW i \in Placed, NEW r \in Parts(i) \ Data(i)
        PROVE  Reads(r) = {} /\ Writes(r) = {}
    <3>1. TypeOK /\ Serves(Plan) /\ Control /\ i \in Jobs /\ i \in Reserved
      BY JobSlots DEF Inv
    <3>2. r.op \in {"poll", "fence_hi", "fence_lo", "atomic"}
      BY <2>4, <3>1, DataTypes, DoneTypes DEF Parts
    <3> QED
      BY <3>2 DEF Reads, Writes
  <2>5. CASE p \in Data(j) /\ q \in Data(k)
    BY <2>1, <2>2, <2>3, <2>5, JobsApart
  <2>6. CASE p \notin Data(j)
    BY <2>1, <2>2, <2>4, <2>6
  <2>7. CASE q \notin Data(k)
    BY <2>1, <2>3, <2>4, <2>7
  <2> QED
    BY <2>5, <2>6, <2>7
<1> QED
  BY <1>1, CollectiveInvariant, PTL

\* Under PRELAUNCH no engine moves anything until all commands are placed.
THEOREM CollectiveGated ==
  ASSUME PlansServe PROVE Spec => PrelaunchGated
<1>1. Inv /\ [Next]_vars => [env.poll /\ pc = "submit" => mem' = mem]_vars
  <2> SUFFICES ASSUME Inv, Next, env.poll, pc = "submit" PROVE mem' = mem
    BY DEF vars
  <2>1. CASE Cpu
    BY <2>1 DEF Cpu, AllocateMem, FillArm, FillSubmit, FillWait, InitSignals, SubmitCommand,
       NextGpu, Trigger, SpinRead, SpinEnd, CheckArm, CheckSubmit, CheckWait, FreeMem
  <2>2. ASSUME NEW e \in Engines, Engine(e) PROVE FALSE
    BY <2>2, HeldBack
  <2> QED
    BY <2>1, <2>2 DEF Next
<1> QED
  BY <1>1, CollectiveInvariant, PTL DEF Spec, PrelaunchGated

\* logTimes reads as many time points as the iteration has recorded.
THEOREM CollectiveLogComplete ==
  ASSUME PlansServe PROVE Spec => LogComplete
<1>1. Inv /\ [Next]_vars =>
        [pc = "spin" /\ pc' # "spin" => t_index = Plan.total_transfers + (IF env.poll THEN 3 ELSE 2)]_vars
  <2> SUFFICES ASSUME Inv, Next, pc = "spin", pc' # "spin"
               PROVE  t_index = Plan.total_transfers + (IF env.poll THEN 3 ELSE 2)
    BY DEF vars
  <2>1. done = Plan.done_target
    <3>1. ASSUME NEW e \in Engines, Engine(e) PROVE pc' = pc
      BY <3>1 DEF Engine, cpuVars
    <3>2. ASSUME Cpu PROVE done = Plan.done_target
      BY <3>2 DEF Cpu, AllocateMem, FillArm, FillSubmit, FillWait, InitSignals, SubmitCommand,
         NextGpu, Trigger, SpinRead, SpinEnd, CheckArm, CheckSubmit, CheckWait, FreeMem
    <3> QED
      BY <3>1, <3>2 DEF Next
  <2>2. SeenCmds = Commands /\ Cardinality(SeenCmds) = Plan.total_transfers
    BY <2>1, AllSeen
  <2>3. t_index = 2 + (IF env.poll THEN 1 ELSE 0) + Cardinality(SeenCmds)
    BY DEF Inv, CountInv
  <2>4. Plan.total_transfers \in Nat
    BY PlanTypes DEF Inv, IsPlan
  <2> QED
    BY <2>2, <2>3, <2>4
<1> QED
  BY <1>1, CollectiveInvariant, PTL DEF Spec, LogComplete

-----------------------------------------------------------------------------
(* The collective implements CollectiveSpec, as far as safety goes.        *)

\* No pattern is filled in twice.
LEMMA PatternOnce ==
  ASSUME NEW i \in Gpus, NEW j \in Gpus, NEW k \in Gpus, NEW l \in Gpus, Pattern(i, j) = Pattern(k, l)
  PROVE  i = k /\ j = l
<1>1. NumNodes \in Nat
  BY CollectiveAssumption
<1>2. i \in Nat /\ k \in Nat /\ j \in 0 .. NumNodes - 1 /\ l \in 0 .. NumNodes - 1
  BY <1>1 DEF Gpus
<1>3. i * NumNodes + j = k * NumNodes + l
  BY DEF Pattern
<1> QED
  BY <1>1, <1>2, <1>3, GridOnce

\* In buffers just filled nothing has been moved.
LEMMA NothingMoved ==
  ASSUME TypeOK, NEW it, Filled(it), NEW t \in Transfers
  PROVE  ~Moved(it, t[1], t[2])
<1> DEFINE src == t[1]
           dst == t[2]
<1>1. src \in Gpus /\ dst \in Gpus /\ src # dst
  BY DEF Transfers
<1> HIDE DEF src, dst
<1>2. mem[In(it, dst, src)] = Pattern(dst, src) /\ mem[Out(it, dst, src)] = 0
  BY <1>1 DEF Filled
<1>3. Pattern(dst, src) # Pattern(src, src) /\ Pattern(dst, src) # Pattern(src, dst)
  BY <1>1, PatternOnce
<1>4. Pattern(src, dst) # 0
  <2>1. 0 \in Gpus /\ Pattern(0, 0) = 0
    BY CollectiveAssumption DEF Gpus, Pattern
  <2> QED
    BY <1>1, <2>1, PatternOnce
<1>5. Plan.op \in {"ag", "aa", "swap"}
  BY PlanTypes DEF IsPlan
<1>6. CASE Plan.op = "ag"
  BY <1>2, <1>3, <1>6 DEF Moved, Result, Expected, InPlace, src, dst
<1>7. CASE Plan.op = "aa"
  BY <1>2, <1>4, <1>7 DEF Moved, Result, Expected, InPlace, src, dst
<1>8. CASE Plan.op = "swap"
  BY <1>2, <1>3, <1>8 DEF Moved, Result, Expected, InPlace, src, dst
<1> QED
  BY <1>5, <1>6, <1>7, <1>8

\* Whatever an engine writes while commands move chunks is what belongs there.
LEMMA WrittenRight ==
  ASSUME Inv, NEW e \in Engines, Engine(e), Phase = "move", NEW a \in Address, mem'[a] # mem[a]
  PROVE  \E src, dst \in Gpus : a = Result(iter, dst, src) /\ mem'[a] = Expected(dst, src)
<1>1. /\ TypeOK /\ Serves(Plan) /\ Sources /\ (Plan.op = "swap" => Swaps)
      /\ queue[e] # <<>> /\ mem \in [Address -> Value] /\ iter \in Iters
  BY DEF Inv, MemInv, Engine, TypeOK
<1>2. PICK p : p = Head(queue[e])
  OBVIOUS
<1>3. Has(queue[e], p)
  BY <1>1, <1>2, HeadJob
<1>4. PICK j \in Placed : On(j) = e /\ p \in Parts(j)
  BY <1>1, <1>2, HeadJob
<1>5. p \in Data(j) /\ ExecData(e)
  <2>1. Head(queue[e]) \in Parts(j)
    BY <1>2, <1>4
  <2> QED
    BY <1>2, <1>4, <2>1, ExecEffect
<1>6. /\ j \in Commands /\ j[1] \in Gpus /\ p \in MoveData(j[1], j[2])
      /\ DestsOf(Plan, j) \in Seq(Gpus) /\ Plan.op \in {"ag", "aa", "swap"}
  <2>1. j \in Commands /\ Data(j) = MoveData(j[1], j[2])
    BY <1>1, JobSlots, PhaseJobs DEF Inv
  <2> QED
    BY <1>1, <1>5, <2>1, PlanTypes, MoveShape
<1>7. \A k \in DOMAIN DestsOf(Plan, j) : DestsOf(Plan, j)[k] \in Gpus
  BY <1>6, LenProperties
<1>8. \A i, d \in Gpus : In(iter, d, i) \in Address /\ Out(iter, d, i) \in Address
  BY <1>1, ValueTypes
<1>9. CASE Plan.op = "ag"
  <2>1. AgShape(j, p)
    BY <1>1, <1>6, <1>9, MoveShape
  <2>2. p.op = "copy" /\ p.from = In(iter, j[1], j[1])
    BY <2>1 DEF AgShape
  <2>3. mem' = [b \in Address |-> IF b \in p.to THEN mem[p.from] ELSE mem[b]]
    BY <1>2, <1>5, <2>2 DEF ExecData
  <2>4. a \in p.to /\ mem'[a] = Pattern(j[1], j[1])
    BY <1>1, <1>6, <1>9, <2>2, <2>3 DEF Sources
  <2>5. PICK k \in DOMAIN DestsOf(Plan, j) : a = In(iter, DestsOf(Plan, j)[k], j[1])
    BY <2>1, <2>4 DEF AgShape
  <2> QED
    BY <1>6, <1>7, <1>9, <2>4, <2>5 DEF Result, Expected, InPlace
<1>10. CASE Plan.op = "aa"
  <2>1. PICK k \in DOMAIN DestsOf(Plan, j) :
          p = CopyPacket(In(iter, j[1], DestsOf(Plan, j)[k]), {Out(iter, DestsOf(Plan, j)[k], j[1])})
    BY <1>1, <1>6, <1>10, MoveShape DEF AaShape
  <2>2. PICK d \in Gpus : d = DestsOf(Plan, j)[k]
    BY <1>7
  <2>3. p.op = "copy" /\ p.from = In(iter, j[1], d) /\ p.to = {Out(iter, d, j[1])}
    BY <2>1, <2>2 DEF CopyPacket
  <2>4. mem' = [b \in Address |-> IF b \in p.to THEN mem[p.from] ELSE mem[b]]
    BY <1>2, <1>5, <2>3 DEF ExecData
  <2>5. a = Out(iter, d, j[1]) /\ mem'[a] = mem[In(iter, j[1], d)]
    BY <1>1, <2>3, <2>4
  <2>6. mem'[a] = Pattern(j[1], d)
    BY <1>1, <1>6, <1>10, <2>2, <2>5 DEF Sources, Inputs
  <2> QED
    BY <1>6, <1>10, <2>2, <2>5, <2>6 DEF Result, Expected, InPlace
<1>11. CASE Plan.op = "swap"
  <2>1. p = SwapOf(j)
    BY <1>1, <1>6, <1>11, MoveShape
  <2>2. PICK d \in Gpus : d = DestsOf(Plan, j)[1]
    <3>1. Len(DestsOf(Plan, j)) = 1
      BY <1>1, <1>6, <1>11 DEF Serves, Commands
    <3>2. 1 \in DOMAIN DestsOf(Plan, j)
      BY <1>6, <3>1
    <3> QED
      BY <1>7, <3>2
  <2>3. p.op = "swap" /\ p.a = In(iter, d, j[1]) /\ p.b = In(iter, j[1], d)
    BY <2>1, <2>2 DEF SwapOf, SwapPacket
  <2>4. mem' = [mem EXCEPT ![p.a] = mem[p.b], ![p.b] = mem[p.a]]
    BY <1>2, <1>5, <2>3 DEF ExecData
  <2>5. Untouched(j[1], d)
    BY <1>1, <1>3, <1>4, <1>6, <1>11, <2>1, <2>2 DEF Swaps
  <2>6. p.a \in Address /\ p.b \in Address
    BY <1>6, <1>8, <2>2, <2>3
  <2>7. \/ a = p.a /\ mem'[a] = mem[p.b]
        \/ a = p.b /\ mem'[a] = mem[p.a]
    BY <1>1, <2>4, <2>6
  <2> QED
    BY <1>6, <1>11, <2>2, <2>3, <2>5, <2>7 DEF Untouched, Result, Expected, InPlace
<1> QED
  BY <1>6, <1>9, <1>10, <1>11

\* So what has been moved stays.
LEMMA MovedStays ==
  ASSUME Inv, NEW e \in Engines, Engine(e), Phase = "move",
         NEW src \in Gpus, NEW dst \in Gpus, Moved(iter, src, dst)
  PROVE  Moved(iter, src, dst)'
<1> DEFINE a == Result(iter, dst, src)
<1>1. iter' = iter /\ env' = env /\ iter \in Iters
  BY Popped DEF SamePhase, Inv, TypeOK
<1>2. Result(iter, dst, src)' = Result(iter, dst, src) /\ Expected(dst, src)' = Expected(dst, src)
  BY <1>1, PlanKept DEF Result, Expected
<1>3. a \in Address
  BY <1>1, ValueTypes DEF Result
<1>4. CASE mem'[a] = mem[a]
  BY <1>2, <1>4 DEF Moved
<1>5. CASE mem'[a] # mem[a]
  <2>1. PICK s \in Gpus, d \in Gpus : a = Result(iter, d, s) /\ mem'[a] = Expected(d, s)
    BY <1>3, <1>5, WrittenRight
  <2>2. s = src /\ d = dst
    BY <2>1, AddressParts DEF Result
  <2> QED
    BY <1>2, <2>1, <2>2 DEF Moved
<1> QED
  BY <1>4, <1>5

\* The variables of CollectiveSpec, as the refinement mapping takes them.
Stage     == IF pc \in IterationPcs \cup CheckPcs \cup {"free", "exited"} THEN "running" ELSE "setup"
Completed == IF pc \in IterationPcs THEN iter
             ELSE IF pc \in CheckPcs \cup {"free", "exited"} THEN NumIter ELSE 0
ArrivedAt == IF pc \in IterationPcs THEN {t \in Transfers : Moved(iter, t[1], t[2])} ELSE {}

\* What its actions say of them.
LEMMA AbstractSteps ==
  /\ Stage = "setup" /\ Completed = 0 /\ ArrivedAt = {} => Abstract!Init
  /\ Stage' = Stage /\ Completed' = Completed /\ ArrivedAt' = ArrivedAt
       => UNCHANGED Abstract!specVars
  /\ Stage = "setup" /\ Stage' = "running" /\ Completed' = Completed /\ ArrivedAt' = ArrivedAt
       => Abstract!Prepare
  /\ (/\ Stage = "running" /\ Completed < NumIter /\ Stage' = Stage /\ Completed' = Completed
      /\ ArrivedAt \subseteq ArrivedAt' /\ ArrivedAt' \subseteq Transfers)
       => [Abstract!Move]_(Abstract!specVars)
  /\ (/\ Stage = "running" /\ Completed < NumIter /\ ArrivedAt = Transfers
      /\ Stage' = Stage /\ Completed' = Completed + 1 /\ ArrivedAt' = {})
       => Abstract!Complete
  /\ (/\ Stage = "running" /\ Completed = NumIter /\ Stage' = "setup" /\ Completed' = 0
      /\ ArrivedAt' = ArrivedAt)
       => Abstract!Release
<1>1. /\ Abstract!Init <=> Stage = "setup" /\ Completed = 0 /\ ArrivedAt = {}
      /\ Abstract!Transfers = Transfers
  BY DEF Stage, Completed, ArrivedAt, Abstract!Init, Abstract!Transfers, Transfers
<1>2. Stage' = Stage /\ Completed' = Completed /\ ArrivedAt' = ArrivedAt
        => UNCHANGED Abstract!specVars
  BY DEF Stage, Completed, ArrivedAt, Abstract!specVars
<1>3. Abstract!Prepare <=> /\ Stage = "setup" /\ Stage' = "running"
                           /\ Completed' = Completed /\ ArrivedAt' = ArrivedAt
  BY DEF Stage, Completed, ArrivedAt, Abstract!Prepare
<1>4. Abstract!Move <=> /\ Stage = "running" /\ Completed < NumIter
                        /\ ArrivedAt' \in SUBSET Transfers
                        /\ ArrivedAt \subseteq ArrivedAt' /\ ArrivedAt' # ArrivedAt
                        /\ Stage' = Stage /\ Completed' = Completed
  BY <1>1 DEF Stage, Completed, ArrivedAt, Abstract!Move
<1>5. Abstract!Complete <=> /\ Stage = "running" /\ Completed < NumIter
                            /\ ArrivedAt = Transfers /\ ArrivedAt' = {}
                            /\ Stage' = Stage /\ Completed' = Completed + 1
  BY <1>1 DEF Stage, Completed, ArrivedAt, Abstract!Complete
<1>6. Abstract!Release <=> /\ Stage = "running" /\ Completed = NumIter /\ Stage' = "setup"
                           /\ Completed' = 0 /\ ArrivedAt' = ArrivedAt
  BY DEF Stage, Completed, ArrivedAt, Abstract!Release
<1>7. ASSUME Stage = "running", Completed < NumIter, Stage' = Stage, Completed' = Completed,
             ArrivedAt \subseteq ArrivedAt', ArrivedAt' \subseteq Transfers
      PROVE  [Abstract!Move]_(Abstract!specVars)
  <2>1. CASE ArrivedAt' = ArrivedAt
    BY <1>2, <1>7, <2>1
  <2>2. CASE ArrivedAt' # ArrivedAt
    BY <1>4, <1>7, <2>2
  <2> QED
    BY <2>1, <2>2
<1> QED
  BY <1>1, <1>2, <1>3, <1>5, <1>6, <1>7

\* Steps of an engine move chunks or change nothing that shows.
LEMMA EngineImplements ==
  ASSUME Inv, NEW e \in Engines, Engine(e)
  PROVE  [Abstract!Next]_(Abstract!specVars)
<1>1. pc' = pc /\ iter' = iter /\ iter \in 0 .. NumIter - 1 /\ NumIter \in Nat
  BY CollectiveAssumption DEF Engine, cpuVars, Inv, TypeOK, Iters
<1>2. Stage' = Stage /\ Completed' = Completed
  BY <1>1 DEF Stage, Completed
<1>3. CASE pc \notin {"submit", "trigger", "spin"}
  <2>1. ArrivedAt' = ArrivedAt
    <3>1. CASE pc = "init_signals"
      <4>1. Phase = "none"
        BY <3>1 DEF Phase
      <4> QED
        BY <4>1, NothingQueued DEF Engine
    <3>2. CASE pc # "init_signals"
      BY <1>1, <1>3, <3>2 DEF ArrivedAt, IterationPcs
    <3> QED
      BY <3>1, <3>2
  <2> QED
    BY <1>2, <2>1, AbstractSteps
<1>4. CASE pc \in {"submit", "trigger", "spin"}
  <2>1. Phase = "move" /\ Stage = "running" /\ Completed = iter /\ Completed < NumIter
    BY <1>1, <1>4 DEF Phase, Stage, Completed, IterationPcs
  <2>2. ArrivedAt \subseteq ArrivedAt'
    <3>1. \A t \in Transfers : t[1] \in Gpus /\ t[2] \in Gpus
      BY DEF Transfers
    <3>2. \A t \in Transfers : Moved(iter, t[1], t[2]) => Moved(iter, t[1], t[2])'
      BY <2>1, <3>1, MovedStays
    <3>3. /\ ArrivedAt = {t \in Transfers : Moved(iter, t[1], t[2])}
          /\ ArrivedAt' = {t \in Transfers : Moved(iter, t[1], t[2])'}
      BY <1>1, <1>4 DEF ArrivedAt, IterationPcs
    <3> QED
      BY <3>2, <3>3
  <2>3. ArrivedAt' \subseteq Transfers
    BY DEF ArrivedAt
  <2>4. [Abstract!Move]_(Abstract!specVars)
    BY <1>2, <2>1, <2>2, <2>3, AbstractSteps
  <2> QED
    BY <2>4 DEF Abstract!Next
<1> QED
  BY <1>3, <1>4

\* A step of the CPU thread begins with buffers, completes an iteration, gives
\* the buffers up, or changes nothing that shows.
LEMMA CpuImplements ==
  ASSUME Inv, Cpu
  PROVE  [Abstract!Next]_(Abstract!specVars)
<1>1. /\ TypeOK /\ MemInv /\ env' = env /\ iter \in 0 .. NumIter - 1 /\ NumIter \in Nat \ {0}
  BY CollectiveAssumption DEF Inv, TypeOK, Iters, Cpu, AllocateMem, FillArm, FillSubmit, FillWait,
     InitSignals, SubmitCommand, NextGpu, Trigger, SpinRead, SpinEnd, CheckArm, CheckSubmit,
     CheckWait, FreeMem
<1>2. \A it, t : mem' = mem => Moved(it, t[1], t[2])' = Moved(it, t[1], t[2])
  BY <1>1, PlanKept DEF Moved, Result, Expected
<1>3. ASSUME pc' = "init_signals", mem' = mem, Filled(iter') PROVE ArrivedAt' = {}
  <2>1. PICK it : it = iter'
    OBVIOUS
  <2>2. \A t \in Transfers : ~Moved(it, t[1], t[2])'
    BY <1>1, <1>2, <1>3, <2>1, NothingMoved
  <2>3. \A t : Moved(iter, t[1], t[2])' = Moved(it, t[1], t[2])'
    BY <2>1 DEF Moved, Result
  <2> QED
    BY <1>3, <2>2, <2>3 DEF ArrivedAt, IterationPcs
<1>4. CASE AllocateMem \/ FillArm \/ FillSubmit
  <2>1. /\ pc \in {"allocate", "fill_arm", "fill"}
        /\ pc' \in {"fill_arm", "fill", "fill_wait"}
    BY <1>4 DEF AllocateMem, FillArm, FillSubmit
  <2>2. Stage' = Stage /\ Completed' = Completed /\ ArrivedAt' = ArrivedAt
    BY <2>1 DEF Stage, Completed, ArrivedAt, IterationPcs, CheckPcs
  <2> QED
    BY <2>2, AbstractSteps
<1>5. CASE FillWait
  <2>1. /\ pc = "fill_wait"
        /\ \/ iter + 1 = NumIter /\ pc' = "init_signals" /\ iter' = 0
           \/ iter + 1 # NumIter /\ pc' = "fill_arm" /\ iter' = iter + 1
    BY <1>5 DEF FillWait
  <2>2. Stage = "setup" /\ Completed = 0 /\ ArrivedAt = {}
    BY <2>1 DEF Stage, Completed, ArrivedAt, IterationPcs, CheckPcs
  <2>3. CASE pc' = "fill_arm"
    <3>1. Stage' = "setup" /\ Completed' = 0 /\ ArrivedAt' = {}
      BY <2>3 DEF Stage, Completed, ArrivedAt, IterationPcs, CheckPcs
    <3> QED
      BY <2>2, <3>1, AbstractSteps
  <2>4. CASE pc' = "init_signals" /\ iter' = 0
    <3>1. mem' = mem /\ Filled(iter')
      <4>1. \A it \in 0 .. iter - 1 : Filled(it)
        BY <1>1, <2>1 DEF MemInv
      <4>2. Filled(iter)
        BY <1>5, FillsDone DEF FillWait
      <4>3. 0 \in 0 .. iter - 1 \/ 0 = iter
        BY <1>1
      <4> QED
        BY <1>5, <2>4, <4>1, <4>2, <4>3 DEF FillWait
    <3>2. Stage' = "running" /\ Completed' = 0 /\ ArrivedAt' = {}
      BY <1>3, <2>4, <3>1 DEF Stage, Completed, IterationPcs
    <3> QED
      BY <2>2, <3>2, AbstractSteps DEF Abstract!Next
  <2> QED
    BY <2>1, <2>3, <2>4
<1>6. CASE InitSignals \/ SubmitCommand \/ NextGpu \/ Trigger \/ SpinRead
  <2>1. pc \in IterationPcs /\ pc' \in IterationPcs /\ iter' = iter /\ mem' = mem
    BY <1>6 DEF InitSignals, SubmitCommand, NextGpu, Trigger, SpinRead, IterationPcs
  <2>2. Stage' = Stage /\ Completed' = Completed /\ ArrivedAt' = ArrivedAt
    BY <1>2, <2>1 DEF Stage, Completed, ArrivedAt
  <2> QED
    BY <2>2, AbstractSteps
<1>7. CASE SpinEnd
  <2>1. /\ pc = "spin" /\ mem' = mem
        /\ \/ pc' = pc /\ iter' = iter
           \/ done = Plan.done_target /\ iter + 1 < NumIter /\ pc' = "init_signals" /\ iter' = iter + 1
           \/ done = Plan.done_target /\ ~(iter + 1 < NumIter) /\ pc' = "check_arm" /\ iter' = 0
    BY <1>7 DEF SpinEnd
  <2>2. CASE pc' = pc /\ iter' = iter
    <3>1. Stage' = Stage /\ Completed' = Completed /\ ArrivedAt' = ArrivedAt
      BY <1>2, <2>1, <2>2 DEF Stage, Completed, ArrivedAt
    <3> QED
      BY <3>1, AbstractSteps
  <2>3. CASE done = Plan.done_target /\ pc' # pc
    <3>1. Stage = "running" /\ Completed = iter /\ Completed < NumIter
      BY <1>1, <2>1 DEF Stage, Completed, IterationPcs
    <3>2. ArrivedAt = Transfers
      <4>1. \A t \in Transfers : Moved(iter, t[1], t[2])
        BY <2>1, <2>3, MoveDone DEF Finished, Transfers
      <4> QED
        BY <2>1, <4>1 DEF ArrivedAt, IterationPcs
    <3>3. Stage' = "running" /\ Completed' = Completed + 1 /\ ArrivedAt' = {}
      <4>1. CASE pc' = "init_signals"
        <5>1. iter' = iter + 1 /\ iter' \in iter + 1 .. NumIter - 1
          BY <1>1, <2>1, <4>1
        <5>2. Filled(iter')
          BY <1>1, <2>1, <5>1 DEF MemInv, IterationPcs
        <5> QED
          BY <1>3, <2>1, <3>1, <4>1, <5>1, <5>2 DEF Stage, Completed, IterationPcs
      <4>2. CASE pc' = "check_arm"
        BY <1>1, <2>1, <3>1, <4>2 DEF Stage, Completed, ArrivedAt, IterationPcs, CheckPcs
      <4> QED
        BY <2>1, <2>3, <4>1, <4>2
    <3> QED
      BY <3>1, <3>2, <3>3, AbstractSteps DEF Abstract!Next
  <2> QED
    BY <2>1, <2>2, <2>3
<1>8. CASE CheckArm \/ CheckSubmit \/ CheckWait
  <2>1. pc \in CheckPcs /\ pc' \in CheckPcs \cup {"free", "exited"}
    BY <1>8 DEF CheckArm, CheckSubmit, CheckWait, CheckPcs
  <2>2. Stage' = Stage /\ Completed' = Completed /\ ArrivedAt' = ArrivedAt
    BY <2>1 DEF Stage, Completed, ArrivedAt, IterationPcs, CheckPcs
  <2> QED
    BY <2>2, AbstractSteps
<1>9. CASE FreeMem
  <2>1. pc = "free" /\ pc' \in {"allocate", "end"}
    BY <1>9 DEF FreeMem
  <2>2. /\ Stage = "running" /\ Completed = NumIter /\ ArrivedAt = {}
        /\ Stage' = "setup" /\ Completed' = 0 /\ ArrivedAt' = {}
    BY <2>1 DEF Stage, Completed, ArrivedAt, IterationPcs, CheckPcs
  <2> QED
    BY <2>2, AbstractSteps DEF Abstract!Next
<1> QED
  BY <1>4, <1>5, <1>6, <1>7, <1>8, <1>9 DEF Cpu

\* Commands, signals and queues amount to what CollectiveSpec says: chunks
\* arrive and stay, an iteration completes with all of them, the buffers go
\* after the last (its liveness is model-checked only).
THEOREM CollectiveImplements ==
  ASSUME PlansServe
  PROVE  Spec => Abstract!Init /\ [][Abstract!Next]_(Abstract!specVars)
<1>1. Init => Abstract!Init
  <2> SUFFICES ASSUME Init PROVE Abstract!Init
    OBVIOUS
  <2>1. Stage = "setup" /\ Completed = 0 /\ ArrivedAt = {}
    BY DEF Init, Stage, Completed, ArrivedAt, IterationPcs, CheckPcs
  <2> QED
    BY <2>1, AbstractSteps
<1>2. Inv /\ [Next]_vars => [Abstract!Next]_(Abstract!specVars)
  <2> SUFFICES ASSUME Inv, [Next]_vars PROVE [Abstract!Next]_(Abstract!specVars)
    OBVIOUS
  <2>1. CASE Cpu
    BY <2>1, CpuImplements
  <2>2. ASSUME NEW e \in Engines, Engine(e) PROVE [Abstract!Next]_(Abstract!specVars)
    BY <2>2, EngineImplements
  <2>3. CASE UNCHANGED vars
    <3>1. pc' = pc /\ iter' = iter /\ mem' = mem /\ env' = env
      BY <2>3 DEF vars
    <3>2. \A it, t : Moved(it, t[1], t[2])' = Moved(it, t[1], t[2])
      BY <3>1, PlanKept DEF Moved, Result, Expected
    <3>3. Stage' = Stage /\ Completed' = Completed /\ ArrivedAt' = ArrivedAt
      BY <3>1, <3>2 DEF Stage, Completed, ArrivedAt
    <3> QED
      BY <3>3, AbstractSteps
  <2> QED
    BY <2>1, <2>2, <2>3 DEF Next
<1> QED
  BY <1>1, <1>2, CollectiveInvariant, PTL DEF Spec

=============================================================================
