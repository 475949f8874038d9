--------------------------- MODULE CollectivePlans --------------------------
(***************************************************************************)
(* What a collective executes, once its command lists are finished: a plan *)
(* is a record of the lists (cmds, by GPU), the slots reserved per GPU     *)
(* (num_cmds), what a command does (op: "ag" and "aa" copy, "swap"         *)
(* exchanges), whether the spin loop counts destinations instead of        *)
(* commands (weighted), its target (done_target), and the completions that *)
(* logTimes reads (total_transfers).                                       *)
(***************************************************************************)
EXTENDS Integers, Sequences, FiniteSets

\* A command is known by its GPU and its place in that GPU's list.
CommandsOf(p) == {c \in (DOMAIN p.cmds) \X (1 .. p.num_cmds) : c[2] <= Len(p.cmds[c[1]])}
DestsOf(p, c) == p.cmds[c[1]][c[2]].dests

\* The ordered pairs of GPUs that destination k of a command serves, and what
\* the completions of all commands count for.
Covers(p, c, k) ==
    {<<c[1], DestsOf(p, c)[k]>>}
      \cup IF p.op = "swap" THEN {<<DestsOf(p, c)[k], c[1]>>} ELSE {}
Shares(p) == UNION {{c} \X (1 .. (IF p.weighted THEN Len(DestsOf(p, c)) ELSE 1)) :
                      c \in CommandsOf(p)}

\* The plans that do what a collective is for: every ordered pair of GPUs is
\* served by one command, once (a swap serves both directions), and the counts
\* are those of the lists.
Serves(p) ==
    /\ \A i, j \in DOMAIN p.cmds : i # j =>
         \E c \in CommandsOf(p) : \E k \in DOMAIN DestsOf(p, c) : <<i, j>> \in Covers(p, c, k)
    /\ \A c, d \in CommandsOf(p) : \A k \in DOMAIN DestsOf(p, c), l \in DOMAIN DestsOf(p, d) :
         Covers(p, c, k) \cap Covers(p, d, l) # {} => c = d /\ k = l
    /\ \A c \in CommandsOf(p) :
         /\ DestsOf(p, c) # <<>> /\ \A k \in DOMAIN DestsOf(p, c) : DestsOf(p, c)[k] # c[1]
         /\ p.op = "swap" => Len(DestsOf(p, c)) = 1
    /\ p.done_target = Cardinality(Shares(p))
    /\ p.total_transfers = Cardinality(CommandsOf(p))
=============================================================================
