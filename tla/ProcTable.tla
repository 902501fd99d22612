----------------------------- MODULE ProcTable -----------------------------
(***************************************************************************)
(* From the deltas of ProcShares to the rows of the process table: the     *)
(* shares, the two lists get_top_processes returns (src/actop/utils.py),   *)
(* the pool _processes_to_samples makes of them (src/actop/api.py), and    *)
(* what sort_processes and the table's height leave of it                  *)
(* (src/actop/tui/app.py).                                                 *)
(*                                                                         *)
(* A list cut to n rows is the set of those rows; any set that no row left *)
(* out outranks may come of ties.  CPU% is not rounded, and memory percent *)
(* ranks as the bytes do.                                                  *)
(***************************************************************************)
EXTENDS ProcShares

CONSTANTS
  MemSizes,     \* rss_bytes a process may have
  Limit         \* the process_limit of the Monitor

ASSUME TableAssumption == MemSizes \subseteq Nat /\ Limit \in Nat /\ IsFiniteSet(Pids)

\* Pass 2 drops what the filter does not match; the shares are taken before.
Entries(matching) == Rows \cap matching

\* None is 0.0 here: a process without a delta ranks as idle.
cpu_percent(p) == IF rows[p].cpu = None THEN 0 ELSE rows[p].cpu

ByCpu(rss) ==
  {pair \in Rows \X Rows :
     \/ cpu_percent(pair[1]) > cpu_percent(pair[2])
     \/ cpu_percent(pair[1]) = cpu_percent(pair[2]) /\ rss[pair[1]] > rss[pair[2]]}

ByMemory(rss) == {pair \in Rows \X Rows : rss[pair[1]] > rss[pair[2]]}

\* sorted(S, reverse=True)[:n] under an order, a set of pairs <<above, below>>.
Tops(S, n, order) ==
  {T \in SUBSET S :
     /\ Cardinality(T) = IF n < Cardinality(S) THEN n ELSE Cardinality(S)
     /\ \A a \in T, b \in S \ T : <<b, a>> \notin order}

\* Mutant: the pool is the CPU list alone.
PoolsCpuOnly(rss, matching) == Tops(Entries(matching), Limit, ByCpu(rss))

\* The union of top_cpu and top_memory, one row for each PID.
Pools(rss, matching) ==
  {top_cpu \cup top_memory :
     top_cpu \in Tops(Entries(matching), Limit, ByCpu(rss)),
     top_memory \in Tops(Entries(matching), Limit, ByMemory(rss))}

\* The CPU and the memory mode; the snapshot's list is in CPU order.
sort_processes(pool, mode, rss, limit) ==
  Tops(pool, limit, IF mode = "memory" THEN ByMemory(rss) ELSE ByCpu(rss))

\* cpu_watts or gpu_watts, in units of the share of one nanosecond: a share is a part of
\* the total, and 0.0 of the power when the total is 0.
Whole(t) == IF t > 0 THEN t ELSE 1

\* The parts of cpu_watts and gpu_watts a row is attributed, in these units; attributed_w
\* is None, and both are nothing, while the CPU delta is pending.
attributed_w(p) ==
  [cpu |-> IF rows[p].cpu = None THEN 0 ELSE rows[p].cpu,
   gpu |-> IF rows[p].cpu = None \/ rows[p].gpu = None THEN 0 ELSE rows[p].gpu]

shown_pwr(shown) ==
  [cpu |-> SumOver([p \in shown |-> attributed_w(p).cpu], shown),
   gpu |-> SumOver([p \in shown |-> attributed_w(p).gpu], shown)]

-----------------------------------------------------------------------------
(* What must hold of every result.                                        *)

\* Whatever filter, pool, order and height leave of the rows, what they are attributed is
\* no more than the package's CPU and GPU power (app.py line 663: "the shown subset is a
\* lower bound").  If the clock has moved on, all rows together are attributed exactly the
\* power of each kind that any of them used: no GPU time of a process without a row
\* dilutes the shares, and no pending row withholds any.  Power of a kind that no row has
\* a delta of is attributed to nobody, whatever lines 662-663 say, and is left out here.
SumReconciles ==
  rows # None =>
    /\ \A shown \in SUBSET Rows : /\ shown_pwr(shown).cpu <= Whole(total)
                                  /\ shown_pwr(shown).gpu <= Whole(totalGpu)
    /\ (\A p \in Rows : truth[p].later) =>
         /\ total > 0 => shown_pwr(Rows).cpu = Whole(total)
         /\ totalGpu > 0 => shown_pwr(Rows).gpu = Whole(totalGpu)

\* The rows shown by CPU or by memory are the top rows of all that match, not just of the
\* pool, as long as the table is no higher than the pool's limit (api.py lines 24-27: "a
\* high-memory but idle process still appears even though it is not CPU-top").
TableFaithful ==
  rows # None =>
    \A rss \in [Pids -> MemSizes], matching \in SUBSET Pids, height \in 1..Limit :
      \A pool \in Pools(rss, matching) :
        /\ sort_processes(pool, "memory", rss, height)
             \subseteq Tops(Entries(matching), height, ByMemory(rss))
        /\ sort_processes(pool, "cpu", rss, height)
             \subseteq Tops(Entries(matching), height, ByCpu(rss))
=============================================================================
