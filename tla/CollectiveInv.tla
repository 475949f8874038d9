--------------------------- MODULE CollectiveInv ---------------------------
(***************************************************************************)
(* The inductive invariant of module Collective.                           *)
(*                                                                         *)
(* Filling, moving and checking are the same protocol: the CPU thread puts *)
(* one batch of packets per GPU or command on an engine, each batch ends   *)
(* in the packet that clears a slot set before, and the CPU goes on when   *)
(* all slots are clear.  A job <<i, n>> stands for such a batch; the first *)
(* part says what the job of each phase consists of, the second that jobs  *)
(* pass through the queues in order, the third what memory holds.          *)
(***************************************************************************)
EXTENDS Collective, QueueFacts, FiniteSetTheorems

Phase == CASE pc \in {"fill", "fill_wait"}         -> "fill"
           [] pc \in {"submit", "trigger", "spin"} -> "move"
           [] pc \in {"check", "check_wait"}       -> "check"
           [] OTHER                                -> "none"

-----------------------------------------------------------------------------
(* Jobs.                                                                   *)

\* The jobs with a slot set for them, those on a queue already, and all there are
\* to do.
Commands == CommandsOf(Plan)
Reserved == CASE Phase = "fill"  -> Gpus \X {1}
              [] Phase = "move"  -> Gpus \X (1 .. NumCmds)
              [] Phase = "check" -> (1 .. NumNodes - 1) \X {1}
              [] Phase = "none"  -> {}
Placed == CASE Phase = "fill"  -> (0 .. gpu - 1) \X {1}
            [] Phase = "move"  -> {j \in Commands : j[1] < gpu \/ (j[1] = gpu /\ j[2] < cmd)}
            [] Phase = "check" -> (1 .. gpu - 1) \X {1}
            [] Phase = "none"  -> {}
Jobs == IF Phase = "move" THEN Commands ELSE Reserved

\* Where a job is put, which slot it clears and with what.
On(j) == <<j[1], CASE Phase = "fill"  -> FillEngine
                   [] Phase = "check" -> CpuEngine
                   [] OTHER           -> List(j[1])[j[2]].engine_id>>
Slot(j) == IF Phase = "move" THEN SignalId(j[1], j[2]) ELSE j[1] * NumNodes
Done(j) == SyncPacket(IF Phase = "move" /\ env.sync = 2 THEN "atomic" ELSE "fence_lo",
                      iter, Slot(j))

\* The packets before that one: those that touch memory, and the others.
FillData(i)  == {FillPacket(In(iter, i, k), Pattern(i, k)) : k \in Gpus}
                  \cup {FillPacket(Out(iter, i, k), IF i = k THEN Pattern(i, k) ELSE 0) : k \in Gpus}
CheckData(i) == {CopyPacket(Result(iter, i, k), {Sys(i, k)}) : k \in Gpus}
MoveData(i, n) == {DataPackets(iter, i, n)[k] : k \in DOMAIN DataPackets(iter, i, n)}
Data(j) == CASE Phase = "fill"  -> FillData(j[1])
             [] Phase = "check" -> CheckData(j[1])
             [] OTHER           -> MoveData(j[1], j[2])
Gates(j) == IF Phase = "move" /\ env.poll THEN {PollPacket(iter, PollId(j[1], j[2]))} ELSE {}
HighFences(j) == IF Phase = "move" /\ env.sync = 1
                 THEN {SyncPacket("fence_hi", iter, Slot(j))} ELSE {}
Parts(j) == Data(j) \cup Gates(j) \cup HighFences(j) \cup {Done(j)}

-----------------------------------------------------------------------------
(* The CPU thread's counters.                                              *)

\* Counters are in range; the buffers exist exactly while they are used.
Control ==
    /\ pc # "exited"
    /\ pc # "end" => size < NumSizes
    /\ pc \in {"fill", "submit", "check"} => gpu < NumNodes
    /\ pc \in {"fill_wait", "trigger", "spin", "check_wait"} => gpu = NumNodes
    /\ pc \in CheckPcs => gpu >= (IF pc = "check_arm" THEN 0 ELSE 1)
    /\ pc = "submit" => cmd \in 1 .. Len(List(gpu)) + 1
    /\ pc = "trigger" => scan <= TriggerSlots /\ env.poll
    /\ pc = "spin" => scan <= NumNodes * NumCmds
    /\ pc \in {"allocate", "end"} <=> live["in"] = 0
    /\ \A b \in {"in", "sys", "signal"} : live[b] = live["in"] /\ live[b] \in {0, 1}

\* The commands counted, and what they count for.
SeenCmds == {c \in Commands : SignalId(c[1], c[2]) \in dest_done}
Counted  == {s \in Shares(Plan) : s[1] \in SeenCmds}
CountInv ==
    /\ pc \in {"submit", "trigger"} => /\ dest_done = {} /\ done = 0
                                       /\ t_index = 2 + IF pc = "trigger" THEN 1 ELSE 0
    /\ pc = "spin" => /\ \A s \in dest_done :
                           \E c \in Commands : s = SignalId(c[1], c[2]) /\ signal[iter][s] = 0
                      /\ done = Cardinality(Counted)
                      /\ t_index = 2 + (IF env.poll THEN 1 ELSE 0) + Cardinality(SeenCmds)

-----------------------------------------------------------------------------
(* Queues and signals.                                                     *)

\* What waits on an engine belongs to its jobs and ends with a completion.
Queued ==
    /\ \A e \in Engines : \A k \in 1 .. Len(queue[e]) :
         \E j \in Placed : On(j) = e /\ queue[e][k] \in Parts(j)
    /\ \A e \in Engines : EndsIn(queue[e], {Done(j) : j \in {k \in Placed : On(k) = e}})
    /\ \A j \in Placed : Once(queue[On(j)], Done(j))

\* A slot stays set until its job's completion has been executed.
Armed ==
    /\ SignalsNeverWrap
    /\ \A j \in Reserved : \/ signal[iter][Slot(j)] = 1
                           \/ j \in Placed /\ ~Has(queue[On(j)], Done(j))

\* While commands are placed under PRELAUNCH every queue stands at a poll.
Gated ==
    pc = "submit" /\ env.poll =>
      /\ \A e \in Engines : queue[e] # <<>> => Head(queue[e]).op = "poll"
      /\ \A i \in Gpus, n \in 1 .. NumCmds : signal[iter][PollId(i, n)] = 1

-----------------------------------------------------------------------------
(* Memory.                                                                 *)

\* A packet has had its effect.
Arrived(p) ==
    CASE p.op = "fill" -> mem[p.to] = p.value
      [] p.op = "copy" -> \A a \in p.to : mem[a] = mem[p.from]
      [] p.op = "swap" -> /\ mem[p.a] = Pattern(p.a[4], p.a[3])
                          /\ mem[p.b] = Pattern(p.b[4], p.b[3])

\* It has, or it waits in front of its job's completion.
DataInv == \A j \in Placed : \A p \in Data(j) : Arrived(p) \/ Before(queue[On(j)], p, Done(j))

\* An iteration's buffers as filled, what an all-to-all leaves alone of them, and
\* the buffers as the collective leaves them.
Filled(it) ==
    \A i, j \in Gpus : /\ mem[In(it, i, j)] = Pattern(i, j)
                       /\ mem[Out(it, i, j)] = IF i = j THEN Pattern(i, j) ELSE 0
Inputs(it) ==
    \A i, j \in Gpus : mem[In(it, i, j)] = Pattern(i, j) /\ mem[Out(it, i, i)] = Pattern(i, i)
Finished(it) == \A src, dst \in Gpus : Moved(it, src, dst)

\* What is moved from one buffer to another comes from untouched chunks.
Sources ==
    /\ Plan.op = "ag" => \A i \in Gpus : mem[In(iter, i, i)] = Pattern(i, i)
    /\ Plan.op = "aa" => Inputs(iter)

\* What is swapped is untouched, or swapped once.
Untouched(i, d) == mem[In(iter, d, i)] = Pattern(d, i) /\ mem[In(iter, i, d)] = Pattern(i, d)
SwapOf(c) == LET d == DestsOf(Plan, c)[1] IN SwapPacket(In(iter, d, c[1]), In(iter, c[1], d))
Swaps ==
    /\ \A i \in Gpus : mem[In(iter, i, i)] = Pattern(i, i)
    /\ \A c \in Commands :
         c \notin Placed \/ Has(queue[On(c)], SwapOf(c)) => Untouched(c[1], DestsOf(Plan, c)[1])
    /\ \A c \in Placed : Once(queue[On(c)], SwapOf(c))

MemInv ==
    /\ pc \in {"fill_arm", "fill", "fill_wait"} => \A it \in 0 .. iter - 1 : Filled(it)
    /\ pc = "init_signals" => Filled(iter)
    /\ pc \in IterationPcs => \A it \in iter + 1 .. NumIter - 1 : Filled(it)
    /\ \A it \in FinishedIters : Finished(it)
    /\ Phase = "move" => Sources /\ (Plan.op = "swap" => Swaps)

Inv == /\ TypeOK /\ Serves(Plan) /\ Control /\ CountInv
       /\ Queued /\ Armed /\ Gated /\ DataInv /\ MemInv

-----------------------------------------------------------------------------
(* Slots and values.                                                       *)

\* Row i of a grid of a rows of c, cell r, in one number.
LEMMA Grid ==
  ASSUME NEW a \in Nat, NEW c \in Nat, NEW i \in 0 .. a - 1, NEW r \in 0 .. c - 1
  PROVE  i * c + r \in 0 .. a * c - 1
<1>1. i * c >= 0 /\ i * c \in Int /\ a * c \in Int
  OBVIOUS
<1>2. (a - 1 - i) * c >= 0
  OBVIOUS
<1>3. (a - 1 - i) * c = a * c - c - i * c
  OBVIOUS
<1> QED
  BY <1>1, <1>2, <1>3

\* The number determines row and cell.
LEMMA GridOnce ==
  ASSUME NEW c \in Nat, NEW i \in Nat, NEW j \in Nat, NEW r \in 0 .. c - 1, NEW s \in 0 .. c - 1,
         i * c + r = j * c + s
  PROVE  i = j /\ r = s
<1>1. (i - j) * c = s - r /\ (j - i) * c = r - s
  OBVIOUS
<1>2. CASE i > j
  <2>1. (i - j - 1) * c >= 0 /\ (i - j - 1) * c = (i - j) * c - c
    BY <1>2
  <2> QED
    BY <1>1, <2>1
<1>3. CASE j > i
  <2>1. (j - i - 1) * c >= 0 /\ (j - i - 1) * c = (j - i) * c - c
    BY <1>3
  <2> QED
    BY <1>1, <2>1
<1> QED
  BY <1>2, <1>3

\* Division and remainder give them back.
LEMMA GridParts ==
  ASSUME NEW c \in Nat, NEW i \in Nat, NEW r \in 0 .. c - 1
  PROVE  (i * c + r) \div c = i /\ (i * c + r) % c = r
<1> DEFINE x == i * c + r
<1>1. c \in Nat \ {0} /\ x \in Nat
  <2>1. i * c >= 0 /\ i * c \in Int
    OBVIOUS
  <2> QED
    BY <2>1
<1> HIDE DEF x
<1>2. x \div c \in Nat /\ x % c \in 0 .. c - 1 /\ x = c * (x \div c) + (x % c)
  <2>1. x \div c \in Int /\ x % c \in 0 .. c - 1 /\ x = c * (x \div c) + (x % c)
    BY <1>1
  <2>2. x \div c >= 0
    BY <1>1, <2>1
  <2> QED
    BY <2>1, <2>2
<1>3. i * c + r = (x \div c) * c + (x % c)
  BY <1>1, <1>2 DEF x
<1> QED
  BY <1>2, <1>3, GridOnce DEF x

\* A plan's numbers and lists.
LEMMA PlanTypes ==
  ASSUME TypeOK
  PROVE  /\ IsPlan(Plan) /\ Plan \in Plans
         /\ NumCmds \in Nat /\ NumNodes \in Nat \ {0} /\ NumIter \in Nat \ {0}
         /\ DOMAIN Plan.cmds = Gpus
         /\ \A i \in Gpus : /\ Len(List(i)) \in 0 .. NumCmds
                            /\ List(i) \in Seq([engine_id : EngineIds \ {CpuEngine}, dests : Seq(Gpus)])
         /\ \A j \in Commands : /\ j[1] \in Gpus /\ j[2] \in 1 .. Len(List(j[1]))
                                /\ j[2] \in 1 .. NumCmds /\ j = <<j[1], j[2]>>
                                /\ List(j[1])[j[2]].engine_id \in EngineIds \ {CpuEngine}
                                /\ List(j[1])[j[2]].dests = DestsOf(Plan, j)
                                /\ DestsOf(Plan, j) \in Seq(Gpus)
<1>1. env \in [plan : Plans, sync : SyncTypes, poll : BOOLEAN, multi : BOOLEAN]
  BY DEF TypeOK
<1>2. Plan \in Plans /\ IsPlan(Plan)
  BY <1>1, CollectiveAssumption DEF Plan
<1>3. /\ NumCmds \in Nat /\ NumNodes \in Nat \ {0} /\ NumIter \in Nat \ {0}
      /\ Plan.cmds \in [Gpus -> Seq([engine_id : EngineIds \ {CpuEngine}, dests : Seq(Gpus)])]
      /\ DOMAIN Plan.cmds = Gpus
      /\ \A i \in Gpus : Len(Plan.cmds[i]) <= Plan.num_cmds
  BY <1>2, CollectiveAssumption DEF IsPlan, NumCmds
<1>4. ASSUME NEW i \in Gpus
      PROVE  /\ Len(List(i)) \in 0 .. NumCmds
             /\ List(i) \in Seq([engine_id : EngineIds \ {CpuEngine}, dests : Seq(Gpus)])
  <2>1. /\ List(i) \in Seq([engine_id : EngineIds \ {CpuEngine}, dests : Seq(Gpus)])
        /\ Len(List(i)) <= NumCmds
    BY <1>3 DEF List, NumCmds
  <2>2. Len(List(i)) \in Nat
    BY <2>1, LenProperties
  <2> QED
    BY <1>3, <2>1, <2>2
<1>5. ASSUME NEW j \in Commands
      PROVE  /\ j[1] \in Gpus /\ j[2] \in 1 .. Len(List(j[1]))
             /\ j[2] \in 1 .. NumCmds /\ j = <<j[1], j[2]>>
  BY <1>3, <1>4 DEF Commands, CommandsOf, List, NumCmds
<1>6. ASSUME NEW j \in Commands
      PROVE  List(j[1])[j[2]] \in [engine_id : EngineIds \ {CpuEngine}, dests : Seq(Gpus)]
  BY <1>4, <1>5, <1>6, ElementOfSeq
<1> QED
  BY <1>2, <1>3, <1>4, <1>5, <1>6 DEF DestsOf, List

\* The slots of completions and polls lie apart and inside the buffer.
LEMMA SlotTypes ==
  ASSUME TypeOK
  PROVE  /\ \A i \in Gpus : i * NumNodes \in Slots
         /\ \A i \in Gpus, n \in 1 .. NumCmds :
              /\ SignalId(i, n) \in Slots /\ SignalId(i, n) < NumNodes * NumCmds
              /\ SignalId(i, n) \div NumCmds = i /\ SignalId(i, n) % NumCmds = n - 1
              /\ PollId(i, n) \in Slots /\ PollId(i, n) >= NumNodes * NumCmds
         /\ NumNodes * NumCmds \in Nat
<1>1. /\ NumCmds \in Nat /\ NumNodes \in Nat \ {0}
      /\ 2 * NumNodes * NumCmds < SignalSlots /\ NumNodes * NumNodes <= SignalSlots
      /\ SignalSlots \in Nat
  BY PlanTypes, CollectiveAssumption DEF IsPlan, NumCmds
<1>2. NumNodes * NumCmds \in Nat
  BY <1>1
<1>3. ASSUME NEW i \in Gpus PROVE i * NumNodes \in Slots
  <2>1. i * NumNodes + 0 \in 0 .. NumNodes * NumNodes - 1
    BY <1>1, Grid DEF Gpus
  <2> QED
    BY <1>1, <2>1 DEF Slots, Gpus
<1>4. ASSUME NEW i \in Gpus, NEW n \in 1 .. NumCmds
      PROVE  /\ SignalId(i, n) = i * NumCmds + (n - 1) /\ n - 1 \in 0 .. NumCmds - 1
             /\ SignalId(i, n) \in 0 .. NumNodes * NumCmds - 1
  <2>1. n - 1 \in 0 .. NumCmds - 1 /\ i \in 0 .. NumNodes - 1
    BY <1>1 DEF Gpus
  <2>2. i * NumCmds + (n - 1) \in 0 .. NumNodes * NumCmds - 1
    BY <1>1, <2>1, Grid
  <2>3. SignalId(i, n) = i * NumCmds + (n - 1)
    BY <1>1, <2>1 DEF SignalId
  <2> QED
    BY <2>1, <2>2, <2>3
<1>5. ASSUME NEW i \in Gpus, NEW n \in 1 .. NumCmds
      PROVE  SignalId(i, n) \div NumCmds = i /\ SignalId(i, n) % NumCmds = n - 1
  <2> DEFINE r == n - 1
  <2>1. i \in Nat /\ r \in 0 .. NumCmds - 1 /\ SignalId(i, n) = i * NumCmds + r
    BY <1>1, <1>4 DEF Gpus
  <2> HIDE DEF r
  <2>2. (i * NumCmds + r) \div NumCmds = i /\ (i * NumCmds + r) % NumCmds = r
    BY <1>1, <2>1, GridParts
  <2> QED
    BY <2>1, <2>2 DEF r
<1>6. 2 * NumNodes * NumCmds = NumNodes * NumCmds + NumNodes * NumCmds
  BY <1>1
<1>7. \A i \in Gpus, n \in 1 .. NumCmds : SignalId(i, n) \in Slots /\ SignalId(i, n) < NumNodes * NumCmds
  BY <1>1, <1>2, <1>4, <1>6 DEF Slots
<1>8. ASSUME NEW i \in Gpus, NEW n \in 1 .. NumCmds
      PROVE  PollId(i, n) \in Slots /\ PollId(i, n) >= NumNodes * NumCmds
  <2>1. PollId(i, n) \in {NumNodes * NumCmds, NumNodes * NumCmds + SignalId(i, n)}
    BY <1>1, <1>2 DEF PollId, SignalId, Gpus
  <2> QED
    BY <1>1, <1>2, <1>4, <1>6, <2>1 DEF Slots
<1> QED
  BY <1>2, <1>3, <1>5, <1>7, <1>8

\* Patterns are values, and the buffers addresses.
LEMMA ValueTypes ==
  /\ \A i, j \in Gpus : Pattern(i, j) \in Value
  /\ 0 \in Value /\ Junk \in Value
  /\ \A it \in Iters, i, j \in Gpus : In(it, i, j) \in Address /\ Out(it, i, j) \in Address
  /\ \A i, j \in Gpus : Sys(i, j) \in Address
<1>1. NumNodes \in Nat \ {0}
  BY CollectiveAssumption
<1>2. \A i, j \in Gpus : Pattern(i, j) \in 0 .. NumNodes * NumNodes - 1
  BY <1>1, Grid DEF Pattern, Gpus
<1>3. 0 \in 0 .. NumNodes * NumNodes - 1
  BY <1>1
<1> QED
  BY <1>2, <1>3 DEF Value, In, Out, Sys, Address

-----------------------------------------------------------------------------
(* What jobs consist of.                                                   *)

\* The packets of a command, by what the collective does.
AgShape(j, p) ==
    /\ p.op = "copy" /\ p.from = In(iter, j[1], j[1])
    /\ p.to \subseteq {In(iter, DestsOf(Plan, j)[k], j[1]) : k \in DOMAIN DestsOf(Plan, j)}
AaShape(j, p) ==
    \E k \in DOMAIN DestsOf(Plan, j) :
      p = CopyPacket(In(iter, j[1], DestsOf(Plan, j)[k]), {Out(iter, DestsOf(Plan, j)[k], j[1])})
LEMMA MoveShape ==
  ASSUME TypeOK, Serves(Plan), NEW j \in Commands
  PROVE  /\ Plan.op = "ag" =>
              /\ \A p \in MoveData(j[1], j[2]) : p \in Packet /\ AgShape(j, p)
              /\ \A k \in DOMAIN DestsOf(Plan, j) :
                   \E p \in MoveData(j[1], j[2]) : In(iter, DestsOf(Plan, j)[k], j[1]) \in p.to
         /\ Plan.op = "aa" =>
              /\ \A p \in MoveData(j[1], j[2]) : p \in Packet /\ AaShape(j, p)
              /\ \A k \in DOMAIN DestsOf(Plan, j) :
                   CopyPacket(In(iter, j[1], DestsOf(Plan, j)[k]), {Out(iter, DestsOf(Plan, j)[k], j[1])})
                     \in MoveData(j[1], j[2])
         /\ Plan.op = "swap" => MoveData(j[1], j[2]) = {SwapOf(j)} /\ SwapOf(j) \in Packet
         /\ DataPackets(iter, j[1], j[2]) \in Seq(MoveData(j[1], j[2]))
         /\ Plan.op \in {"ag", "aa", "swap"}
<1> DEFINE i == j[1]
           dests == DestsOf(Plan, j)
           f == DataPackets(iter, i, j[2])
<1>1. /\ i \in Gpus /\ dests \in Seq(Gpus) /\ dests = List(i)[j[2]].dests
      /\ iter \in Iters /\ Plan.op \in {"ag", "aa", "swap"} /\ Plan.weighted \in BOOLEAN
  BY PlanTypes DEF TypeOK, IsPlan
<1>2. /\ Len(dests) \in Nat /\ DOMAIN dests = 1 .. Len(dests) /\ dests # <<>>
      /\ \A k \in DOMAIN dests : dests[k] \in Gpus
      /\ Plan.op = "swap" => Len(dests) = 1
  BY <1>1, LenProperties DEF Serves, Commands
<1>3. Len(dests) >= 1
  BY <1>1, <1>2, EmptySeq
<1> HIDE DEF dests, i
<1>4. \A it \in Iters, g, h \in Gpus : In(it, g, h) \in Address /\ Out(it, g, h) \in Address
  BY ValueTypes
<1>5. \A a \in Address, t \in SUBSET Address :
        /\ CopyPacket(a, t) \in Packet /\ CopyPacket(a, t).op = "copy"
        /\ CopyPacket(a, t).from = a /\ CopyPacket(a, t).to = t
  BY DEF CopyPacket, Packet
<1>6. CASE Plan.op = "ag" /\ ~Plan.weighted
  <2> DEFINE P(k) == CopyPacket(In(iter, i, i), {In(iter, dests[k], i)})
  <2>1. f = [k \in 1 .. Len(dests) |-> P(k)]
    BY <1>1, <1>2, <1>6 DEF DataPackets, AllgatherCopies
  <2>2. ASSUME NEW k \in DOMAIN dests
        PROVE  /\ P(k) \in Packet /\ P(k).op = "copy" /\ P(k).from = In(iter, i, i)
               /\ P(k).to = {In(iter, dests[k], i)}
    BY <1>1, <1>2, <1>4, <1>5
  <2> HIDE DEF P, f
  <2>3. MoveData(i, j[2]) = {P(k) : k \in DOMAIN dests}
    <3>1. DOMAIN f = DOMAIN dests /\ \A k \in DOMAIN dests : f[k] = P(k)
      BY <1>2, <2>1
    <3> QED
      BY <3>1 DEF MoveData, f
  <2>4. f \in Seq(MoveData(i, j[2]))
    BY <1>2, <2>1, <2>3
  <2>5. ASSUME NEW k \in DOMAIN dests
        PROVE  P(k) \in Packet /\ AgShape(j, P(k)) /\ In(iter, dests[k], i) \in P(k).to
    BY <2>2 DEF AgShape, dests, i
  <2>6. \A p \in MoveData(i, j[2]) : p \in Packet /\ AgShape(j, p)
    BY <2>3, <2>5
  <2>7. \A k \in DOMAIN dests : \E p \in MoveData(i, j[2]) : In(iter, dests[k], i) \in p.to
    BY <2>3, <2>5
  <2> QED
    BY <1>6, <2>4, <2>6, <2>7 DEF dests, i, f
<1>7. CASE Plan.op = "ag" /\ Plan.weighted
  <2> DEFINE p == CopyPacket(In(iter, i, i), {In(iter, dests[k], i) : k \in DOMAIN dests})
  <2>1. f = <<p>>
    BY <1>1, <1>7 DEF DataPackets, BroadcastCopies
  <2>2. p \in Packet /\ p.op = "copy" /\ p.from = In(iter, i, i) /\ p.to = {In(iter, dests[k], i) : k \in DOMAIN dests}
    BY <1>1, <1>2, <1>4, <1>5
  <2> HIDE DEF p, f
  <2>3. MoveData(i, j[2]) = {p} /\ f \in Seq({p})
    BY <2>1 DEF MoveData, f
  <2>4. AgShape(j, p)
    BY <2>2 DEF AgShape, dests, i
  <2> QED
    BY <1>7, <2>2, <2>3, <2>4 DEF dests, i, f
<1>8. CASE Plan.op = "aa"
  <2> DEFINE P(k) == CopyPacket(In(iter, i, dests[k]), {Out(iter, dests[k], i)})
  <2>1. f = [k \in 1 .. Len(dests) |-> P(k)]
    BY <1>1, <1>2, <1>8 DEF DataPackets, AlltoallCopies
  <2>2. \A k \in DOMAIN dests : P(k) \in Packet
    BY <1>1, <1>2, <1>4, <1>5
  <2>3. \A k \in DOMAIN dests : AaShape(j, P(k))
    BY DEF AaShape, dests, i
  <2> HIDE DEF f
  <2>4. DOMAIN f = DOMAIN dests /\ \A k \in DOMAIN dests : f[k] = P(k)
    BY <1>2, <2>1
  <2>5. MoveData(i, j[2]) = {P(k) : k \in DOMAIN dests}
    <3> HIDE DEF P
    <3> QED
      BY <2>4 DEF MoveData, f
  <2>6. f \in Seq(MoveData(i, j[2]))
    <3> HIDE DEF P
    <3> QED
      BY <1>2, <2>1, <2>5
  <2>7. \A p \in MoveData(i, j[2]) : p \in Packet /\ AaShape(j, p)
    <3> HIDE DEF P
    <3> QED
      BY <2>2, <2>3, <2>5
  <2>8. \A k \in DOMAIN dests :
          CopyPacket(In(iter, i, dests[k]), {Out(iter, dests[k], i)}) \in MoveData(i, j[2])
    BY <2>5
  <2> QED
    BY <1>8, <2>6, <2>7, <2>8 DEF dests, i, f
<1>9. CASE Plan.op = "swap"
  <2>1. f = <<SwapOf(j)>>
    BY <1>1, <1>9 DEF DataPackets, SwapCopies, SwapOf, dests, i
  <2>2. SwapOf(j) \in Packet
    BY <1>1, <1>2, <1>4, <1>9 DEF SwapOf, SwapPacket, Packet, dests, i
  <2> HIDE DEF f
  <2>3. MoveData(i, j[2]) = {SwapOf(j)} /\ f \in Seq({SwapOf(j)})
    BY <2>1 DEF MoveData, f
  <2> QED
    BY <1>9, <2>2, <2>3 DEF i, f
<1> QED
  BY <1>1, <1>6, <1>7, <1>8, <1>9

\* A phase and the positions of the CPU thread in it.
LEMMA PhaseCases ==
  /\ Phase \in {"fill", "move", "check", "none"}
  /\ Phase = "fill"  <=> pc \in {"fill", "fill_wait"}
  /\ Phase = "move"  <=> pc \in {"submit", "trigger", "spin"}
  /\ Phase = "check" <=> pc \in {"check", "check_wait"}
BY DEF Phase

\* Its jobs, where they are put, and what they do.
LEMMA PhaseJobs ==
  /\ Phase = "fill" => /\ Reserved = Gpus \X {1} /\ Jobs = Gpus \X {1}
                       /\ Placed = (0 .. gpu - 1) \X {1}
                       /\ \A j : /\ On(j) = <<j[1], FillEngine>> /\ Slot(j) = j[1] * NumNodes
                                 /\ Data(j) = FillData(j[1])
  /\ Phase = "move" => /\ Reserved = Gpus \X (1 .. NumCmds) /\ Jobs = Commands
                       /\ Placed = {j \in Commands : j[1] < gpu \/ (j[1] = gpu /\ j[2] < cmd)}
                       /\ \A j : /\ On(j) = <<j[1], List(j[1])[j[2]].engine_id>>
                                 /\ Slot(j) = SignalId(j[1], j[2])
                                 /\ Data(j) = MoveData(j[1], j[2])
  /\ Phase = "check" => /\ Reserved = (1 .. NumNodes - 1) \X {1} /\ Jobs = (1 .. NumNodes - 1) \X {1}
                        /\ Placed = (1 .. gpu - 1) \X {1}
                        /\ \A j : /\ On(j) = <<j[1], CpuEngine>> /\ Slot(j) = j[1] * NumNodes
                                  /\ Data(j) = CheckData(j[1])
  /\ Phase = "none" => Reserved = {} /\ Placed = {} /\ Jobs = {}
<1>1. ASSUME Phase = "fill"
      PROVE  /\ Reserved = Gpus \X {1} /\ Jobs = Gpus \X {1}
             /\ Placed = (0 .. gpu - 1) \X {1}
             /\ \A j : /\ On(j) = <<j[1], FillEngine>> /\ Slot(j) = j[1] * NumNodes
                       /\ Data(j) = FillData(j[1])
  BY <1>1 DEF Reserved, Jobs, Placed, On, Slot, Data
<1>2. ASSUME Phase = "move"
      PROVE  /\ Reserved = Gpus \X (1 .. NumCmds) /\ Jobs = Commands
             /\ Placed = {j \in Commands : j[1] < gpu \/ (j[1] = gpu /\ j[2] < cmd)}
             /\ \A j : /\ On(j) = <<j[1], List(j[1])[j[2]].engine_id>>
                       /\ Slot(j) = SignalId(j[1], j[2])
                       /\ Data(j) = MoveData(j[1], j[2])
  BY <1>2 DEF Reserved, Jobs, Placed, On, Slot, Data
<1>3. ASSUME Phase = "check"
      PROVE  /\ Reserved = (1 .. NumNodes - 1) \X {1} /\ Jobs = (1 .. NumNodes - 1) \X {1}
             /\ Placed = (1 .. gpu - 1) \X {1}
             /\ \A j : /\ On(j) = <<j[1], CpuEngine>> /\ Slot(j) = j[1] * NumNodes
                       /\ Data(j) = CheckData(j[1])
  BY <1>3 DEF Reserved, Jobs, Placed, On, Slot, Data
<1>4. ASSUME Phase = "none" PROVE Reserved = {} /\ Placed = {} /\ Jobs = {}
  BY <1>4 DEF Reserved, Jobs, Placed
<1> QED
  BY <1>1, <1>2, <1>3, <1>4

\* A job to do has a slot of its own; what has been placed was to do.
LEMMA JobSlots ==
  ASSUME TypeOK, Control
  PROVE  /\ Placed \subseteq Jobs /\ Jobs \subseteq Reserved
         /\ \A j \in Reserved : /\ j = <<j[1], j[2]>> /\ j[1] \in Gpus /\ Slot(j) \in Slots
                                /\ Phase = "move" => Slot(j) < NumNodes * NumCmds
         /\ \A j, k \in Reserved : Slot(j) = Slot(k) => j = k
<1>1. NumNodes \in Nat \ {0} /\ NumCmds \in Nat /\ gpu \in 0 .. NumNodes
  BY PlanTypes DEF TypeOK
<1>2. \A g, h \in Gpus : g * NumNodes = h * NumNodes => g = h
  <2> SUFFICES ASSUME NEW g \in Gpus, NEW h \in Gpus, g * NumNodes = h * NumNodes PROVE g = h
    OBVIOUS
  <2>1. g \in Nat /\ h \in Nat /\ 0 \in 0 .. NumNodes - 1 /\ g * NumNodes + 0 = h * NumNodes + 0
    BY <1>1 DEF Gpus
  <2> QED
    BY <1>1, <2>1, GridOnce
<1>3. /\ \A i \in Gpus : i * NumNodes \in Slots
      /\ \A i \in Gpus, n \in 1 .. NumCmds :
           /\ SignalId(i, n) \in Slots /\ SignalId(i, n) < NumNodes * NumCmds
           /\ SignalId(i, n) \div NumCmds = i /\ SignalId(i, n) % NumCmds = n - 1
  BY SlotTypes
<1>4. CASE Phase = "fill"
  <2>1. Reserved = Gpus \X {1} /\ Jobs = Reserved /\ Placed = (0 .. gpu - 1) \X {1}
    BY <1>4, PhaseJobs
  <2>2. \A j : Slot(j) = j[1] * NumNodes
    BY <1>4, PhaseJobs
  <2>3. Placed \subseteq Jobs /\ \A j \in Reserved : j[1] \in Gpus /\ j = <<j[1], j[2]>> /\ j[2] = 1
    BY <1>1, <2>1 DEF Gpus
  <2>4. \A j, k \in Reserved : Slot(j) = Slot(k) => j = k
    BY <1>2, <2>2, <2>3
  <2> QED
    BY <1>3, <1>4, <2>1, <2>2, <2>3, <2>4
<1>5. CASE Phase = "check"
  <2>1. Reserved = (1 .. NumNodes - 1) \X {1} /\ Jobs = Reserved /\ Placed = (1 .. gpu - 1) \X {1}
    BY <1>5, PhaseJobs
  <2>2. \A j : Slot(j) = j[1] * NumNodes
    BY <1>5, PhaseJobs
  <2>3. Placed \subseteq Jobs /\ \A j \in Reserved : j[1] \in Gpus
    BY <1>1, <2>1 DEF Gpus
  <2> QED
    BY <1>2, <1>3, <1>5, <2>1, <2>2, <2>3
<1>6. CASE Phase = "move"
  <2>1. Reserved = Gpus \X (1 .. NumCmds) /\ Jobs = Commands /\ Placed \subseteq Commands
    BY <1>6, PhaseJobs
  <2>2. \A j : Slot(j) = SignalId(j[1], j[2])
    BY <1>6, PhaseJobs
  <2>3. Commands \subseteq Reserved
    BY <2>1, PlanTypes DEF Commands, CommandsOf, NumCmds
  <2>4. ASSUME NEW j \in Reserved, NEW k \in Reserved, Slot(j) = Slot(k) PROVE j = k
    <3>1. j[1] = k[1] /\ j[2] - 1 = k[2] - 1 /\ j[2] \in 1 .. NumCmds /\ k[2] \in 1 .. NumCmds
      BY <1>3, <2>1, <2>2, <2>4
    <3>2. j[2] = k[2]
      BY <1>1, <3>1
    <3> QED
      BY <2>1, <3>1, <3>2
  <2> QED
    BY <1>3, <1>6, <2>1, <2>2, <2>3, <2>4
<1>7. CASE Phase = "none"
  BY <1>7, PhaseJobs
<1> QED
  BY <1>4, <1>5, <1>6, <1>7, PhaseCases

\* A completion clears the slot of its job, in the iteration under way.
LEMMA DoneTypes ==
  ASSUME TypeOK, Control, NEW j \in Reserved
  PROVE  /\ Done(j) \in Packet /\ Done(j).op \in {"fence_lo", "atomic"}
         /\ Done(j).it = iter /\ Done(j).slot = Slot(j)
BY JobSlots DEF Done, SyncPacket, Packet, TypeOK

\* A job goes to an engine of its own GPU.
LEMMA JobEngine ==
  ASSUME TypeOK, Control, NEW j \in Jobs
  PROVE  On(j) \in Engines /\ On(j)[1] = j[1]
<1>1. j \in Reserved /\ j[1] \in Gpus
  BY JobSlots
<1>2. CASE Phase = "move"
  <2>1. j \in Commands /\ On(j) = <<j[1], List(j[1])[j[2]].engine_id>>
    BY <1>2, PhaseJobs
  <2>2. List(j[1])[j[2]].engine_id \in EngineIds
    BY <2>1, PlanTypes
  <2> QED
    BY <1>1, <2>1, <2>2 DEF Engines
<1>3. CASE Phase \in {"fill", "check"}
  BY <1>1, <1>3, PhaseJobs, CollectiveAssumption DEF Engines
<1> QED
  BY <1>1, <1>2, <1>3, PhaseCases, PhaseJobs

\* What a job does to memory, its polls and its other fence.
LEMMA DataTypes ==
  ASSUME TypeOK, Serves(Plan), Control, NEW j \in Jobs
  PROVE  /\ \A p \in Data(j) : p \in Packet /\ p.op \in {"fill", "copy", "swap"}
         /\ \A p \in Gates(j) : p \in Packet /\ p.op = "poll"
         /\ \A p \in HighFences(j) : p \in Packet /\ p.op = "fence_hi"
         /\ Gates(j) # {} => /\ Gates(j) = {PollPacket(iter, PollId(j[1], j[2]))}
                             /\ j[1] \in Gpus /\ j[2] \in 1 .. NumCmds
         /\ Phase = "move" /\ env.poll => Gates(j) = {PollPacket(iter, PollId(j[1], j[2]))}
<1>1. j \in Reserved /\ j[1] \in Gpus /\ Slot(j) \in Slots /\ iter \in Iters
  BY JobSlots DEF TypeOK
<1>2. \A p \in Data(j) : p \in Packet /\ p.op \in {"fill", "copy", "swap"}
  <2>1. CASE Phase = "fill"
    <3>1. Data(j) = FillData(j[1])
      BY <2>1, PhaseJobs
    <3>2. \A a \in Address, v \in Value : FillPacket(a, v) \in Packet /\ FillPacket(a, v).op = "fill"
      BY DEF FillPacket, Packet
    <3> QED
      BY <1>1, <3>1, <3>2, ValueTypes DEF FillData
  <2>2. CASE Phase = "check"
    <3>1. Data(j) = CheckData(j[1])
      BY <2>2, PhaseJobs
    <3>2. \A a \in Address, b \in Address : CopyPacket(a, {b}) \in Packet /\ CopyPacket(a, {b}).op = "copy"
      BY DEF CopyPacket, Packet
    <3>3. \A k \in Gpus : Result(iter, j[1], k) \in Address /\ Sys(j[1], k) \in Address
      BY <1>1, ValueTypes DEF Result
    <3> QED
      BY <3>1, <3>2, <3>3 DEF CheckData
  <2>3. CASE Phase = "move"
    <3>1. Data(j) = MoveData(j[1], j[2]) /\ j \in Commands
      BY <2>3, PhaseJobs
    <3>2. \A p \in MoveData(j[1], j[2]) : p \in Packet
      BY <3>1, MoveShape
    <3>3. \A p \in MoveData(j[1], j[2]) : p.op \in {"copy", "swap"}
      <4>1. CASE Plan.op = "ag"
        BY <3>1, <4>1, MoveShape DEF AgShape
      <4>2. CASE Plan.op = "aa"
        BY <3>1, <4>2, MoveShape DEF AaShape, CopyPacket
      <4>3. CASE Plan.op = "swap"
        <5>1. SwapOf(j).op = "swap"
          BY DEF SwapOf, SwapPacket
        <5> QED
          BY <3>1, <4>3, <5>1, MoveShape
      <4> QED
        BY <3>1, <4>1, <4>2, <4>3, MoveShape
    <3> QED
      BY <3>1, <3>2, <3>3
  <2> QED
    BY <2>1, <2>2, <2>3, PhaseCases, PhaseJobs
<1>3. ASSUME Phase = "move" /\ env.poll
      PROVE  /\ Gates(j) = {PollPacket(iter, PollId(j[1], j[2]))}
             /\ j[1] \in Gpus /\ j[2] \in 1 .. NumCmds
             /\ PollPacket(iter, PollId(j[1], j[2])) \in Packet
  <2>1. j[2] \in 1 .. NumCmds
    BY <1>1, <1>3, PhaseJobs
  <2>2. PollId(j[1], j[2]) \in Slots
    BY <1>1, <2>1, SlotTypes
  <2> QED
    BY <1>1, <1>3, <2>1, <2>2 DEF Gates, PollPacket, Packet
<1>4. \A p \in Gates(j) : p \in Packet /\ p.op = "poll"
  BY <1>3 DEF Gates, PollPacket
<1>5. \A p \in HighFences(j) : p \in Packet /\ p.op = "fence_hi"
  BY <1>1 DEF HighFences, SyncPacket, Packet
<1> QED
  BY <1>2, <1>3, <1>4, <1>5 DEF Gates

-----------------------------------------------------------------------------
(* What is submitted for a job.                                            *)

\* Its own packets, the completion once and behind the others, under PRELAUNCH
\* a poll in front, and one swap at most.
WellMade(j, d) ==
    /\ d \in Seq(Packet) /\ d # <<>>
    /\ \A p : Has(d, p) => p \in Parts(j)
    /\ \A p \in Data(j) : Before(d, p, Done(j))
    /\ Once(d, Done(j)) /\ EndsIn(d, {Done(j)})
    /\ Phase = "move" /\ env.poll => Head(d).op = "poll"
    /\ Phase = "move" /\ Plan.op = "swap" => Once(d, SwapOf(j))

\* It is enough that the packets in front of the completion are right.
LEMMA MadeOf ==
  ASSUME TypeOK, Serves(Plan), Control, NEW j \in Jobs, NEW f \in Seq(Packet),
         \A p : Has(f, p) <=> p \in Data(j) \cup Gates(j) \cup HighFences(j),
         Phase = "move" /\ env.poll => Head(f).op = "poll",
         Phase = "move" /\ Plan.op = "swap" => Once(f, SwapOf(j))
  PROVE  WellMade(j, f \o <<Done(j)>>)
<1> DEFINE z == Done(j)
<1>1. j \in Reserved /\ z \in Packet /\ z.op \in {"fence_lo", "atomic"}
  BY JobSlots, DoneTypes
<1>2. \A p : Has(f, p) => p.op \notin {"fence_lo", "atomic"}
  BY DataTypes
<1>3. ~Has(f, z)
  BY <1>1, <1>2
<1> HIDE DEF z
<1>4. /\ f \o <<z>> \in Seq(Packet)
      /\ \A p : Has(f \o <<z>>, p) <=> Has(f, p) \/ p = z
      /\ Once(f \o <<z>>, z)
      /\ \A p : Has(f, p) => Before(f \o <<z>>, p, z)
      /\ EndsIn(f \o <<z>>, {z}) /\ f \o <<z>> # <<>>
  BY <1>1, <1>3, LastFollows, LastBehind
<1>5. ASSUME Phase = "move", env.poll PROVE Head(f \o <<z>>).op = "poll"
  <2>1. Gates(j) # {}
    BY <1>5, DataTypes
  <2>2. f # <<>>
    BY <2>1, EmptyQueue
  <2>3. <<z>> \in Seq(Packet)
    BY <1>1
  <2>4. Head(f \o <<z>>) = Head(f)
    BY <2>2, <2>3, BothBefore
  <2> QED
    BY <1>5, <2>4
<1>6. ASSUME Phase = "move", Plan.op = "swap" PROVE Once(f \o <<z>>, SwapOf(j))
  <2>1. j \in Commands /\ Data(j) = MoveData(j[1], j[2])
    BY <1>6, PhaseJobs
  <2>2. SwapOf(j) \in Data(j)
    BY <1>6, <2>1, MoveShape
  <2>3. SwapOf(j).op \in {"fill", "copy", "swap"}
    BY <2>2, DataTypes
  <2>4. <<z>> \in Seq(Packet) /\ ~Has(<<z>>, SwapOf(j))
    BY <1>1, <2>3 DEF Has
  <2> QED
    BY <1>6, <2>4, BothOnce
<1> QED
  BY <1>4, <1>5, <1>6 DEF WellMade, Parts, z

\* fillMem's packets for a GPU.
LEMMA FillMade ==
  ASSUME TypeOK, Serves(Plan), Control, NEW j \in Jobs, Phase = "fill"
  PROVE  WellMade(j, FillPackets(iter, j[1]))
<1> DEFINE i == j[1]
           P(k) == LET g == (k - 1) \div 2 IN
                   IF k % 2 = 1 THEN FillPacket(In(iter, i, g), Pattern(i, g))
                   ELSE FillPacket(Out(iter, i, g), IF i = g THEN Pattern(i, g) ELSE 0)
           f == [k \in 1 .. 2 * NumNodes |-> P(k)]
<1>1. Data(j) = FillData(i) /\ Gates(j) = {} /\ HighFences(j) = {}
  BY PhaseJobs DEF Gates, HighFences
<1>2. Done(j) = SyncPacket("fence_lo", iter, i * NumNodes)
  BY PhaseJobs DEF Done
<1>3. NumNodes \in Nat \ {0} /\ 2 * NumNodes \in Nat
  BY CollectiveAssumption
<1>4. ASSUME NEW k \in 1 .. 2 * NumNodes PROVE P(k) \in FillData(i)
  <2>1. (k - 1) \div 2 \in Gpus
    BY <1>3 DEF Gpus
  <2> QED
    BY <2>1 DEF FillData
<1>5. ASSUME NEW g \in Gpus
      PROVE  /\ 2 * g + 1 \in 1 .. 2 * NumNodes /\ P(2 * g + 1) = FillPacket(In(iter, i, g), Pattern(i, g))
             /\ 2 * g + 2 \in 1 .. 2 * NumNodes
             /\ P(2 * g + 2) = FillPacket(Out(iter, i, g), IF i = g THEN Pattern(i, g) ELSE 0)
  <2>1. /\ (2 * g + 1 - 1) \div 2 = g /\ (2 * g + 1) % 2 = 1
        /\ (2 * g + 2 - 1) \div 2 = g /\ (2 * g + 2) % 2 = 0
        /\ 2 * g + 1 \in 1 .. 2 * NumNodes /\ 2 * g + 2 \in 1 .. 2 * NumNodes
    BY <1>3 DEF Gpus
  <2> QED
    BY <2>1
<1>6. FillPackets(iter, i) = f \o <<Done(j)>>
  BY <1>2 DEF FillPackets
<1> HIDE DEF P
<1>7. FillData(i) \subseteq Packet
  BY <1>1, DataTypes
<1>8. f \in Seq(Packet) /\ Len(f) = 2 * NumNodes /\ \A k \in 1 .. 2 * NumNodes : f[k] = P(k)
  BY <1>3, <1>4, <1>7
<1> HIDE DEF f
<1>9. ASSUME NEW p, Has(f, p) PROVE p \in FillData(i)
  BY <1>4, <1>8, <1>9 DEF Has
<1>10. ASSUME NEW p \in FillData(i) PROVE Has(f, p)
  <2>1. PICK g \in Gpus : \/ p = FillPacket(In(iter, i, g), Pattern(i, g))
                          \/ p = FillPacket(Out(iter, i, g), IF i = g THEN Pattern(i, g) ELSE 0)
    BY DEF FillData
  <2> QED
    BY <1>5, <1>8, <2>1 DEF Has
<1>11. \A p : Has(f, p) <=> p \in Data(j) \cup Gates(j) \cup HighFences(j)
  BY <1>1, <1>9, <1>10
<1> QED
  BY <1>6, <1>8, <1>11, MadeOf

\* validateMem's packets for a GPU.
LEMMA CheckMade ==
  ASSUME TypeOK, Serves(Plan), Control, NEW j \in Jobs, Phase = "check"
  PROVE  WellMade(j, ReadbackPackets(iter, j[1]))
<1> DEFINE i == j[1]
           P(k) == CopyPacket(Result(iter, i, k - 1), {Sys(i, k - 1)})
           f == [k \in 1 .. NumNodes |-> P(k)]
<1>1. Data(j) = CheckData(i) /\ Gates(j) = {} /\ HighFences(j) = {}
  BY PhaseJobs DEF Gates, HighFences
<1>2. Done(j) = SyncPacket("fence_lo", iter, i * NumNodes)
  BY PhaseJobs DEF Done
<1>3. NumNodes \in Nat \ {0}
  BY CollectiveAssumption
<1>4. \A k \in 1 .. NumNodes : k - 1 \in Gpus
  BY <1>3 DEF Gpus
<1>5. \A k \in 1 .. NumNodes : P(k) \in CheckData(i)
  BY <1>4 DEF CheckData
<1>6. \A g \in Gpus : g + 1 \in 1 .. NumNodes /\ (g + 1) - 1 = g
  BY <1>3 DEF Gpus
<1>7. \A g \in Gpus : P(g + 1) = CopyPacket(Result(iter, i, g), {Sys(i, g)})
  BY <1>6
<1>8. ReadbackPackets(iter, i) = f \o <<Done(j)>>
  BY <1>2 DEF ReadbackPackets
<1> HIDE DEF P
<1>9. CheckData(i) \subseteq Packet
  BY <1>1, DataTypes
<1>10. f \in Seq(Packet) /\ Len(f) = NumNodes /\ \A k \in 1 .. NumNodes : f[k] = P(k)
  BY <1>3, <1>5, <1>9
<1> HIDE DEF f
<1>11. ASSUME NEW p, Has(f, p) PROVE p \in CheckData(i)
  BY <1>5, <1>10, <1>11 DEF Has
<1>12. ASSUME NEW p \in CheckData(i) PROVE Has(f, p)
  <2>1. PICK g \in Gpus : p = CopyPacket(Result(iter, i, g), {Sys(i, g)})
    BY DEF CheckData
  <2> QED
    BY <1>6, <1>7, <1>10, <2>1 DEF Has
<1>13. \A p : Has(f, p) <=> p \in Data(j) \cup Gates(j) \cup HighFences(j)
  BY <1>1, <1>11, <1>12
<1> QED
  BY <1>8, <1>10, <1>13, MadeOf

\* A command's packets: poll, copies, fences.
LEMMA CommandMade ==
  ASSUME TypeOK, Serves(Plan), Control, NEW j \in Jobs, Phase = "move"
  PROVE  WellMade(j, CommandPackets(iter, j[1], j[2]))
<1> DEFINE g == PollPackets(iter, j[1], j[2])
           d == DataPackets(iter, j[1], j[2])
           hi == SyncPacket("fence_hi", iter, Slot(j))
           z == Done(j)
<1>1. /\ j \in Commands /\ j \in Reserved /\ Slot(j) = SignalId(j[1], j[2])
      /\ Data(j) = MoveData(j[1], j[2]) /\ env.sync \in 0 .. 2 /\ env.poll \in BOOLEAN
  BY PhaseJobs, JobSlots, CollectiveAssumption DEF TypeOK
<1>2. z \in Packet /\ z.op \in {"fence_lo", "atomic"}
  BY <1>1, DoneTypes
<1>3. hi \in Packet /\ hi.op = "fence_hi"
  BY <1>1, JobSlots DEF SyncPacket, Packet, TypeOK
<1>4. /\ \A p \in Data(j) : p \in Packet /\ p.op \in {"fill", "copy", "swap"}
      /\ \A p \in Gates(j) : p \in Packet /\ p.op = "poll"
  BY DataTypes
<1>5. d \in Seq(Packet) /\ \A p : Has(d, p) <=> p \in Data(j)
  <2>1. d \in Seq(MoveData(j[1], j[2]))
    BY <1>1, MoveShape
  <2>2. DOMAIN d = 1 .. Len(d)
    BY <2>1, LenProperties
  <2>3. \A p : Has(d, p) <=> p \in MoveData(j[1], j[2])
    BY <2>2 DEF Has, MoveData
  <2>4. MoveData(j[1], j[2]) \subseteq Packet
    BY <1>1, <1>4
  <2>5. d \in Seq(Packet)
    BY <2>1, <2>4
  <2> QED
    BY <1>1, <2>3, <2>5
<1>6. g \in Seq(Packet) /\ \A p : Has(g, p) <=> p \in Gates(j)
  <2>1. CASE env.poll
    <3> DEFINE q == PollPacket(iter, PollId(j[1], j[2]))
    <3>1. g = <<q>> /\ Gates(j) = {q}
      BY <2>1 DEF PollPackets, Gates
    <3>2. q \in Packet
      BY <1>4, <3>1
    <3> HIDE DEF q
    <3> QED
      BY <3>1, <3>2 DEF Has
  <2>2. CASE ~env.poll
    <3>1. g = <<>> /\ Gates(j) = {}
      BY <2>2 DEF PollPackets, Gates
    <3> QED
      BY <3>1, EmptyQueue
  <2> QED
    BY <2>1, <2>2
<1>7. env.poll => g # <<>> /\ Head(g).op = "poll"
  BY <1>1 DEF PollPackets, PollPacket
<1>8. Plan.op = "swap" => Once(d, SwapOf(j))
  <2> SUFFICES ASSUME Plan.op = "swap" PROVE Once(d, SwapOf(j))
    OBVIOUS
  <2>1. List(j[1])[j[2]].dests = DestsOf(Plan, j)
    BY <1>1, PlanTypes
  <2>2. d = <<SwapOf(j)>>
    BY <2>1 DEF DataPackets, SwapCopies, SwapOf
  <2> QED
    BY <2>2 DEF Once
<1>9. /\ env.sync = 1 => SyncPackets(iter, j[1], j[2]) = <<hi, z>> /\ HighFences(j) = {hi}
      /\ env.sync # 1 => SyncPackets(iter, j[1], j[2]) = <<z>> /\ HighFences(j) = {}
  BY <1>1 DEF SyncPackets, Done, HighFences
<1>10. CommandPackets(iter, j[1], j[2]) = (g \o d) \o SyncPackets(iter, j[1], j[2])
  BY DEF CommandPackets
<1> HIDE DEF g, d, hi, z
<1>11. /\ g \o d \in Seq(Packet)
       /\ \A p : Has(g \o d, p) <=> p \in Data(j) \cup Gates(j)
  BY <1>5, <1>6, HasBoth
<1>12. env.poll => g \o d # <<>> /\ Head(g \o d).op = "poll"
  <2>1. env.poll => Head(g \o d) = Head(g)
    BY <1>5, <1>6, <1>7, BothBefore
  <2>2. env.poll => g \o d # <<>>
    BY <1>5, <1>6, <1>7, ConcatEqualIffEmpty
  <2> QED
    BY <1>7, <2>1, <2>2
<1>13. Plan.op = "swap" => SwapOf(j) \in Data(j) /\ Once(g \o d, SwapOf(j))
  <2> SUFFICES ASSUME Plan.op = "swap" PROVE SwapOf(j) \in Data(j) /\ Once(g \o d, SwapOf(j))
    OBVIOUS
  <2>1. SwapOf(j) \in Data(j)
    BY <1>1, MoveShape
  <2>2. ~Has(g, SwapOf(j))
    BY <1>4, <1>6, <2>1
  <2> QED
    BY <1>5, <1>6, <1>8, <2>1, <2>2, BothOnce
<1>14. CASE env.sync # 1
  <2>1. \A p : Has(g \o d, p) <=> p \in Data(j) \cup Gates(j) \cup HighFences(j)
    BY <1>9, <1>11, <1>14
  <2> QED
    BY <1>9, <1>10, <1>11, <1>12, <1>13, <1>14, <2>1, MadeOf DEF z
<1>15. CASE env.sync = 1
  <2> DEFINE f == (g \o d) \o <<hi>>
  <2>1. /\ f \in Seq(Packet)
        /\ \A p : Has(f, p) <=> Has(g \o d, p) \/ p = hi
    BY <1>3, <1>11, LastFollows
  <2>2. \A p : Has(f, p) <=> p \in Data(j) \cup Gates(j) \cup HighFences(j)
    BY <1>9, <1>11, <1>15, <2>1
  <2>3. <<hi>> \in Seq(Packet) /\ <<z>> \in Seq(Packet) /\ <<hi, z>> = <<hi>> \o <<z>>
    BY <1>2, <1>3, JoinTwo
  <2>4. CommandPackets(iter, j[1], j[2]) = f \o <<z>>
    <3>1. ((g \o d) \o <<hi>>) \o <<z>> = (g \o d) \o (<<hi>> \o <<z>>)
      BY <1>11, <2>3, ConcatAssociative
    <3> QED
      BY <1>9, <1>10, <1>15, <2>3, <3>1
  <2>5. env.poll => Head(f).op = "poll"
    BY <1>11, <1>12, <2>3, BothBefore
  <2>6. Plan.op = "swap" => Once(f, SwapOf(j))
    <3>1. Plan.op = "swap" => ~Has(<<hi>>, SwapOf(j))
      BY <1>3, <1>4, <1>13 DEF Has
    <3> QED
      BY <1>11, <1>13, <2>3, <3>1, BothOnce
  <2> HIDE DEF f
  <2> QED
    BY <2>1, <2>2, <2>4, <2>5, <2>6, MadeOf DEF z
<1> QED
  BY <1>14, <1>15

=============================================================================
