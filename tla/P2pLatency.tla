----------------------------- MODULE P2pLatency -----------------------------
(***************************************************************************)
(* sdmaCollective::P2pCopyLatencyMap: the latency breakdown of one copy    *)
(* from src_gpu to dest_gpu.  The CPU thread times the same copy in two    *)
(* passes, by its own clock ("cpu") and by timestamp packets around each   *)
(* phase ("gpu"), after calibrating the GPU clock ("cal_fill", "cal_copy") *)
(* and the cost of a timestamp packet ("ts").  Each pass arms signals,     *)
(* submits packets, waits for the completion signal; the two measuring     *)
(* passes then read the destination back through a CPU engine and compare. *)
(*                                                                         *)
(* A timestamp counts only through whether it has been written yet.        *)
(* A definition marked `variant' is not part of the model: it is the next  *)
(* one with a plausible slip, and some property below rejects it.          *)
(***************************************************************************)
EXTENDS Integers, Sequences

CONSTANTS NumIter,      \* num_iter
          NumSizes,     \* sizes from p2p_minSize to p2p_maxSize
          PrelaunchModes \* the values of prelaunch considered

ASSUME P2pAssumption ==
    /\ NumIter \in Nat \ {0}
    /\ NumSizes \in Nat \ {0}
    /\ PrelaunchModes \subseteq BOOLEAN

VARIABLES prelaunch,    \* chosen at the start, never changed
          pass,         \* what is being measured
          pc,           \* where the CPU thread is in that pass
          size, iter,   \* loop counters
          ts_calibrated, \* the "ts" pass has been made
          queue,        \* xgmi queue of src and dest_gpu, CPU queue of dest_gpu
          buf,          \* gpuBufs of src and dest_gpu per iteration, sysBufs
          signal,       \* signalMem[iter][0..6]
          stamps,       \* timestamps written to the current buffer
          allocated     \* the data, signal and timestamp buffers exist

cpuVars == <<prelaunch, pass, pc, size, iter, ts_calibrated, allocated>>
vars == <<prelaunch, pass, pc, size, iter, ts_calibrated, queue, buf, signal, stamps, allocated>>

Iters  == 0 .. NumIter - 1
Queues == {"src", "dest", "check"}
Passes == {"cal_fill", "cal_copy", "fill", "ts", "cpu", "gpu"}
Measuring == {"cpu", "gpu"}
Signals == 0 .. 6
Buffers == {"src", "dest"} \X Iters
Junk == -1
Sys  == <<"sys", 0>>

-----------------------------------------------------------------------------
(* Packets.                                                                *)

Fill(to, value) == [op |-> "fill", to |-> to, value |-> value]
Copy(from, to)  == [op |-> "copy", from |-> from, to |-> to]
Sync(it, s)     == [op |-> "atomic", it |-> it, s |-> s]
Poll(it)        == [op |-> "poll", it |-> it, s |-> 4]
Time(p, it, k)  == [op |-> "time", at |-> <<p, it, k>>]

\* All iterations are filled, then one signal per GPU vouches for all of them.
FillPackets(q) ==
    LET last == [src |-> 2, dest |-> 3] IN
    [k \in 1 .. NumIter |-> Fill(<<q, k - 1>>, IF q = "src" THEN k - 1 ELSE 0)]
      \o <<Sync(NumIter - 1, last[q])>>

\* The CPU-timed pass: the copy alone, gated by the poll under prelaunch.
GateLate(it) == <<Copy(<<"src", it>>, <<"dest", it>>)>>      \* variant
                  \o (IF prelaunch THEN <<Poll(it)>> ELSE <<>>) \o <<Sync(it, 0)>>
Gate(it)     == (IF prelaunch THEN <<Poll(it)>> ELSE <<>>)
                  \o <<Copy(<<"src", it>>, <<"dest", it>>), Sync(it, 0)>>

\* The GPU-timed pass: a timestamp before, between and after the same packets.
Phases == IF prelaunch THEN 4 ELSE 3             \* num_phases
StampedSyncFirst(it) ==                          \* variant
    <<Sync(it, 0)>>
      \o (IF prelaunch THEN <<Time("gpu", it, 1), Poll(it)>> ELSE <<>>)
      \o <<Time("gpu", it, Phases - 2), Copy(<<"src", it>>, <<"dest", it>>),
           Time("gpu", it, Phases - 1), Time("gpu", it, Phases)>>
Stamped(it) ==
    (IF prelaunch THEN <<Time("gpu", it, 1), Poll(it)>> ELSE <<>>)
      \o <<Time("gpu", it, Phases - 2), Copy(<<"src", it>>, <<"dest", it>>),
           Time("gpu", it, Phases - 1), Sync(it, 0), Time("gpu", it, Phases)>>

Packets(p, it) ==
    CASE p = "cal_fill" -> <<Fill(<<"src", 0>>, 0), Sync(0, 0)>>
      [] p = "cal_copy" -> <<Time(p, 0, 1), Copy(<<"src", 0>>, <<"dest", 0>>), Time(p, 0, 2), Sync(0, 0)>>
      [] p = "ts"       -> <<Time(p, it, 1), Time(p, it, 2), Time(p, it, 3), Sync(it, 0)>>
      [] p = "cpu"      -> Gate(it)
      [] p = "gpu"      -> Stamped(it)

\* The stamps a pass reads are 1 .. LastStamp; ts[0] is the CPU's own (in
\* "cal_copy", 1 and 2 stand for tsCal[0] and tsCal[1]).
LastStamp(p) == CASE p = "cal_copy" -> 2 [] p = "ts" -> 3 [] p = "gpu" -> Phases [] OTHER -> 0

\* The signals a pass sets to 1 before it submits.
CheckSlot(p) == IF p = "cpu" THEN 1 ELSE 6
ArmedNotAgain(p) == (IF p = "cal_copy" THEN {} ELSE {0})     \* variant
                      \cup (IF p \in Measuring THEN {CheckSlot(p)} ELSE {})
                      \cup (IF p \in Measuring /\ prelaunch THEN {4} ELSE {})
ArmedSyncForgotten(p) == IF p \in Measuring      \* variant
                         THEN {CheckSlot(p)} \cup (IF prelaunch THEN {4} ELSE {})
                         ELSE {0}
Armed(p) == {0} \cup (IF p \in Measuring THEN {CheckSlot(p)} ELSE {})
                \cup (IF p \in Measuring /\ prelaunch THEN {4} ELSE {})
Arm(it, slots) == signal' = [signal EXCEPT ![it] = [s \in Signals |-> IF s \in slots THEN 1 ELSE @[s]]]
Put(q, packets) == queue' = [queue EXCEPT ![q] = @ \o packets]

-----------------------------------------------------------------------------
(* The CPU thread.                                                         *)

\* allocateMemP2p; the signals of the fills are set for every iteration.
Allocate ==
    /\ pc = "allocate"
    /\ ~allocated
    /\ allocated' = TRUE
    /\ buf' = [b \in Buffers \cup {Sys} |-> IF b = Sys THEN 0 ELSE Junk]
    /\ signal' = [it \in Iters |-> [s \in Signals |->
                    IF pass = "fill" /\ s \in {2, 3} THEN 1 ELSE 0]]
    /\ pc' = IF pass = "fill" THEN "fill_src" ELSE "submit"
    /\ iter' = 0
    /\ UNCHANGED <<prelaunch, pass, size, ts_calibrated, queue, stamps>>

SubmitFills(q, here, next) ==
    /\ pc = here
    /\ Put(q, FillPackets(q))
    /\ pc' = next
    /\ UNCHANGED <<prelaunch, pass, size, iter, ts_calibrated, buf, signal, stamps, allocated>>

FillSrc  == SubmitFills("src", "fill_src", "fill_dest")
FillDest == SubmitFills("dest", "fill_dest", "fill_wait")

FillSignalsSrcOnly == {2}                        \* variant
FillSignals == {2, 3}

\* A timestamp buffer is allocated once the fills are done.
FillWait ==
    /\ pc = "fill_wait"
    /\ \A s \in FillSignals : signal[NumIter - 1][s] = 0
    /\ pass' = IF ts_calibrated THEN "cpu" ELSE "ts"
    /\ stamps' = {}
    /\ pc' = "submit"
    /\ UNCHANGED <<prelaunch, size, iter, ts_calibrated, queue, buf, signal, allocated>>

Submit ==
    /\ pc = "submit"
    /\ Arm(iter, Armed(pass))
    /\ Put("src", Packets(pass, iter))
    /\ pc' = IF pass \in Measuring /\ prelaunch THEN "release" ELSE "wait"
    /\ UNCHANGED <<prelaunch, pass, size, iter, ts_calibrated, buf, stamps, allocated>>

Release ==
    /\ pc = "release"
    /\ signal' = [signal EXCEPT ![iter][4] = 0]
    /\ pc' = "wait"
    /\ UNCHANGED <<prelaunch, pass, size, iter, ts_calibrated, queue, buf, stamps, allocated>>

\* The completion signal; a measuring pass goes on to read the data back.
Wait ==
    /\ pc = "wait"
    /\ signal[iter][0] = 0
    /\ pc' = IF pass = "cal_fill" THEN "submit" ELSE IF pass \in Measuring THEN "check" ELSE "read"
    /\ pass' = IF pass = "cal_fill" THEN "cal_copy" ELSE pass
    /\ UNCHANGED <<prelaunch, size, iter, ts_calibrated, queue, buf, signal, stamps, allocated>>

Check ==
    /\ pc = "check"
    /\ Put("check", <<Copy(<<"dest", iter>>, Sys), Sync(iter, CheckSlot(pass))>>)
    /\ pc' = "check_wait"
    /\ UNCHANGED <<prelaunch, pass, size, iter, ts_calibrated, buf, signal, stamps, allocated>>

CheckWait ==
    /\ pc = "check_wait"
    /\ signal[iter][CheckSlot(pass)] = 0
    /\ pc' = IF buf[Sys] = iter THEN "read" ELSE "exited"
    /\ UNCHANGED <<prelaunch, pass, size, iter, ts_calibrated, queue, buf, signal, stamps, allocated>>

\* The times of the iteration are taken; the next iteration or pass begins.
Read ==
    LET more == pass \in Measuring \cup {"ts"} /\ iter + 1 < NumIter
        after == [ts |-> "cpu", cpu |-> "gpu"]
    IN
    /\ pc = "read"
    /\ iter' = IF more THEN iter + 1 ELSE 0
    /\ ts_calibrated' = (ts_calibrated \/ (pass = "ts" /\ ~more))
    /\ IF more THEN pc' = "submit" /\ UNCHANGED pass
       ELSE IF pass \in DOMAIN after THEN pc' = "submit" /\ pass' = after[pass]
       ELSE pc' = "free" /\ UNCHANGED pass
    /\ UNCHANGED <<prelaunch, size, queue, buf, signal, stamps, allocated>>

\* freeMemP2p, and the timestamp buffer goes out of scope.
Free ==
    /\ pc = "free"
    /\ allocated' = FALSE
    /\ size' = IF pass = "gpu" THEN size + 1 ELSE size
    /\ pc' = IF size' < NumSizes THEN "allocate" ELSE "end"
    /\ pass' = "fill"
    /\ UNCHANGED <<prelaunch, iter, ts_calibrated, queue, buf, signal, stamps>>

Cpu == \/ Allocate \/ FillSrc \/ FillDest \/ FillWait \/ Submit \/ Release
       \/ Wait \/ Check \/ CheckWait \/ Read \/ Free

-----------------------------------------------------------------------------
(* The engines (hardware, external).                                       *)

Execute(p) ==
    \/ /\ p.op = "poll" /\ signal[p.it][p.s] = 0
       /\ UNCHANGED <<buf, signal, stamps>>
    \/ /\ p.op = "fill" /\ buf' = [buf EXCEPT ![p.to] = p.value]
       /\ UNCHANGED <<signal, stamps>>
    \/ /\ p.op = "copy" /\ buf' = [buf EXCEPT ![p.to] = buf[p.from]]
       /\ UNCHANGED <<signal, stamps>>
    \/ /\ p.op = "atomic" /\ signal' = [signal EXCEPT ![p.it][p.s] = @ - 1]
       /\ UNCHANGED <<buf, stamps>>
    \/ /\ p.op = "time" /\ stamps' = stamps \cup {p.at}
       /\ UNCHANGED <<buf, signal>>

Engine(q) ==
    /\ queue[q] # <<>>
    /\ Execute(Head(queue[q]))
    /\ queue' = [queue EXCEPT ![q] = Tail(@)]
    /\ UNCHANGED cpuVars

-----------------------------------------------------------------------------
Init == /\ prelaunch \in PrelaunchModes
        /\ pass = "cal_fill" /\ pc = "allocate"
        /\ size = 0 /\ iter = 0
        /\ ts_calibrated = FALSE
        /\ queue = [q \in Queues |-> <<>>]
        /\ buf = [b \in Buffers \cup {Sys} |-> Junk]
        /\ signal = [it \in Iters |-> [s \in Signals |-> 0]]
        /\ stamps = {}
        /\ allocated = FALSE

Next == Cpu \/ \E q \in Queues : Engine(q)

\* The thread keeps running and every engine executes what it can.
Spec == Init /\ [][Next]_vars /\ WF_vars(Cpu) /\ \A q \in Queues : WF_vars(Engine(q))

-----------------------------------------------------------------------------
(* Properties.                                                             *)

Stamp == Passes \X Iters \X (1 .. 4)
Packet == [op : {"fill"}, to : Buffers, value : Iters]
            \cup [op : {"copy"}, from : Buffers, to : Buffers \cup {Sys}]
            \cup [op : {"atomic", "poll"}, it : Iters, s : Signals]
            \cup [op : {"time"}, at : Stamp]

\* Every variable has its type; a signal is decremented once per arming.
TypeOK ==
    /\ prelaunch \in BOOLEAN
    /\ pass \in Passes
    /\ pc \in {"allocate", "fill_src", "fill_dest", "fill_wait", "submit", "release",
               "wait", "check", "check_wait", "read", "free", "end", "exited"}
    /\ size \in 0 .. NumSizes
    /\ iter \in Iters
    /\ ts_calibrated \in BOOLEAN
    /\ queue \in [Queues -> Seq(Packet)]
    /\ buf \in [Buffers \cup {Sys} -> {Junk} \cup Iters]
    /\ signal \in [Iters -> [Signals -> {0, 1}]]
    /\ stamps \subseteq Stamp
    /\ allocated \in BOOLEAN

\* The data read back is the iteration's: no late fill of the destination
\* undoes the copy, in either pass (CHECK_EQ "p2p validation failed").
ValidationPasses == pc # "exited"

\* Under prelaunch the copy waits for the release: what the CPU-timed pass
\* measures from t_exec_start includes all of it.
CopyAwaitsRelease ==
    pc = "release" => \E k \in DOMAIN queue["src"] :
                        queue["src"][k] = Copy(<<"src", iter>>, <<"dest", iter>>)

\* A phase is computed from timestamps the GPU has written: all of them where
\* the completion signal follows the last one.
StampsBeforeSync ==
    pc = "read" => \A k \in 1 .. LastStamp(pass) - (IF pass = "gpu" THEN 1 ELSE 0) :
                     <<pass, iter, k>> \in stamps

\* "phases: ... sync(ts3-ts2)": the last phase, too, is computed from
\* timestamps already written.
EveryPhaseStamped == pc = "read" => \A k \in 1 .. LastStamp(pass) : <<pass, iter, k>> \in stamps

\* Nothing that uses the data or the signals is pending when they are freed.
FreedIsQuiescent ==
    ~allocated => \A q \in Queues : \A k \in DOMAIN queue[q] : queue[q][k].op = "time"

\* The measurement comes to its end.
Terminates == <>(pc = "end")
=============================================================================
