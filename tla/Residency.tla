----------------------------- MODULE Residency -----------------------------
(***************************************************************************)
(* How _convert (src/actop/sampler.py) turns the state residencies of one  *)
(* CPU cluster into a utilization, a clock and a distribution over the     *)
(* buckets idle, low, mid and high.  The GPU is a cluster of one channel.  *)
(*                                                                         *)
(* A state name is what resolving it tells apart: an inactive state, a     *)
(* name nobody knows, a plain frequency, or an index into the frequency    *)
(* table.  Durations and frequencies are whole numbers and the quotients   *)
(* are exact.  A name that is missing from a channel has residency 0.      *)
(*                                                                         *)
(* A channel belongs to the cluster when its name contains the prefix; its *)
(* index is what _parse_core_index reads, which wants the prefix at the    *)
(* start and digits behind it, and drops the last of several digits.  So a *)
(* channel may have no index, or that of another one.                      *)
(***************************************************************************)
EXTENDS Sequences, Sums, Percent

CONSTANTS
  Names,        \* records [kind, n]: kind "off", "odd", "mhz" or "index"
  Channels,     \* CPU channels of a delta: a core index or Null, and the time in each name
  Tables,       \* frequency tables that may be found at startup, in any order
  Null,         \* None
  MaxCores      \* bound: channels of a cluster in one delta

ASSUME NamesAssumption ==
  IsFiniteSet(Names) /\ Names \subseteq [kind : {"off", "odd", "mhz", "index"}, n : Nat]
ASSUME ChannelsAssumption == Channels \subseteq [index : Nat \cup {Null}, ns : [Names -> Nat]]
ASSUME TablesAssumption == Tables \subseteq Seq(Nat)

VARIABLES
  table,        \* the frequencies of the cluster in self._dvfs
  coreData,     \* e_core_data / p_core_data: freq and active of each core by its index
  clusterNs,    \* e_cluster_residency_ns / p_cluster_residency_ns
  items,        \* ghost: the channels so far
  even,         \* ghost: their total time, if they all report the same one, each under
                \* an index of its own, or Null
  result        \* the cluster's entries in cpu_metrics, Null while items arrive

Silent == [name \in Names |-> 0]

ClusterInit ==
  /\ table \in Tables
  /\ coreData = <<>> /\ clusterNs = Silent /\ items = 0 /\ even = Null
  /\ result = Null

-----------------------------------------------------------------------------

\* An index past the end of the table is as unresolvable as an unknown name.
_resolve_state_freq(name) ==
  CASE name.kind = "mhz" -> name.n
    [] name.kind = "index" /\ name.n < Len(table) -> table[name.n + 1]
    [] OTHER -> Null

max_freq == IF table = <<>> THEN 0 ELSE Max({table[i] : i \in DOMAIN table})

\* Mutant: a state that resolves to 0 MHz is active.
ActiveAtZero(name) == name.kind # "off" /\ _resolve_state_freq(name) # Null

Active(name) ==
  /\ name.kind # "off"
  /\ _resolve_state_freq(name) # Null /\ _resolve_state_freq(name) > 0

_compute_residency_metrics(ns) ==
  LET active == {name \in Names : Active(name)}
      activeNs == SumOver(ns, active)
      weighted == SumOver([name \in active |-> _resolve_state_freq(name) * ns[name]], active)
  IN  IF activeNs = 0 THEN [freq |-> 0, active |-> 0]
      ELSE [freq   |-> RoundHalfEven(weighted, activeNs),
            active |-> RoundHalfEven(100 * activeNs, SumOver(ns, Names))]

Buckets == <<"idle", "low", "mid", "high">>   \* _RESIDENCY_BUCKETS
BucketSet == {Buckets[i] : i \in DOMAIN Buckets}

_bucket_for_freq_ratio(freq) ==
  CASE 4 * freq >= 3 * max_freq -> "high"
    [] 4 * freq < 3 * max_freq /\ 5 * freq >= 2 * max_freq -> "mid"
    [] 5 * freq < 2 * max_freq -> "low"

\* What does not resolve to a frequency is idle, and so is all under an unknown ceiling.
BucketOf(name) ==
  LET freq == _resolve_state_freq(name)
  IN  IF name.kind = "off" \/ freq = Null \/ freq = 0 \/ max_freq = 0 THEN "idle"
      ELSE _bucket_for_freq_ratio(freq)

BucketNs(ns) == [b \in BucketSet |-> SumOver(ns, {name \in Names : BucketOf(name) = b})]

\* Mutant: the points left over go to the first buckets.
AheadByOrder(fraction, i) == {j \in DOMAIN Buckets : j < i}

\* The buckets that get one of the points left over before Buckets[i] does, by the
\* fraction the floor has cut off; the sort is stable.
Ahead(fraction, i) ==
  {j \in DOMAIN Buckets : \/ fraction[Buckets[j]] > fraction[Buckets[i]]
                          \/ fraction[Buckets[j]] = fraction[Buckets[i]] /\ j < i}

\* Hamilton's apportionment of some points over weights that add up to total.
Apportion(points, weights, total) ==
  LET floors == [b \in BucketSet |-> (points * weights[b]) \div total]
      fraction == [b \in BucketSet |-> (points * weights[b]) % total]
      remainder == points - SumOver(floors, BucketSet)
      Gets(b) == \E i \in DOMAIN Buckets : b = Buckets[i] /\ Cardinality(Ahead(fraction, i)) < remainder
  IN  [b \in BucketSet |-> IF Gets(b) THEN floors[b] + 1 ELSE floors[b]]

\* Mutant: every share is rounded by itself.
Rounded(ns, total) == [b \in BucketSet |-> RoundHalfEven(100 * ns[b], total)]

_largest_remainder_percentages(ns, total) == Apportion(100, ns, total)

_compute_residency_distribution(ns) ==
  IF SumOver(ns, Names) = 0 THEN [b \in BucketSet |-> 0]
  ELSE _largest_remainder_percentages(BucketNs(ns), SumOver(ns, Names))

-----------------------------------------------------------------------------

\* A later channel of an index replaces the earlier one.
Keyed(index, metrics) ==
  [i \in DOMAIN coreData \cup {index} |-> IF i = index THEN metrics ELSE coreData[i]]

\* One CPU channel of the delta.  Its time counts whether or not it has an index.
Item(ch) ==
  LET total == SumOver(ch.ns, Names)
      own == ch.index # Null /\ ch.index \notin DOMAIN coreData
  IN  /\ result = Null /\ items < MaxCores
      /\ coreData' = IF ch.index = Null THEN coreData
                     ELSE Keyed(ch.index, _compute_residency_metrics(ch.ns))
      /\ clusterNs' = [name \in Names |-> clusterNs[name] + ch.ns[name]]
      /\ items' = items + 1
      /\ even' = IF own /\ (items = 0 \/ even = total) THEN total ELSE Null
      /\ UNCHANGED <<table, result>>

\* The cluster's clock is that of its fastest core, its utilization the mean of its
\* cores, cut off.
cpu_metrics ==
  LET cores == DOMAIN coreData
  IN  [active    |-> IF cores = {} THEN 0
                     ELSE SumOver([i \in cores |-> coreData[i].active], cores) \div Cardinality(cores),
       freq      |-> IF cores = {} THEN 0 ELSE Max({coreData[i].freq : i \in cores}),
       max       |-> max_freq,
       residency |-> _compute_residency_distribution(clusterNs)]

\* All items are in.
_convert ==
  /\ result = Null
  /\ result' = cpu_metrics
  /\ UNCHANGED <<table, coreData, clusterNs, items, even>>

NextSample ==
  /\ result # Null
  /\ coreData' = <<>> /\ clusterNs' = Silent /\ items' = 0 /\ even' = Null
  /\ result' = Null
  /\ UNCHANGED table

-----------------------------------------------------------------------------
(* What must hold of every result.                                        *)

Distance(x) == IF x < 0 THEN -x ELSE x

\* Whole numbers that add up to 100 and to which moving a point from one bucket to another
\* brings no smaller sum of errors.
Closest(shares, weights, total) ==
  LET off == [b \in BucketSet |-> shares[b] * total - 100 * weights[b]]
  IN  /\ SumOver(shares, BucketSet) = 100
      /\ \A a, b \in BucketSet :
           a # b => Distance(off[a] - total) + Distance(off[b] + total) >= Distance(off[a]) + Distance(off[b])

\* The four shares add up to exactly 100, or to 0 when there is no residency at all,
\* and no other four whole numbers with that sum are closer to the exact shares
\* (_largest_remainder_percentages, line 643).
SharesClosest ==
  result # Null =>
    LET total == SumOver(clusterNs, Names)
    IN  IF total = 0 THEN SumOver(result.residency, BucketSet) = 0
        ELSE Closest(result.residency, BucketNs(clusterNs), total)

\* Utilization and distribution are "two views of the same residency data and must not
\* disagree" (lines 578-580): what is not active is idle, up to the rounding, when every
\* channel has an index of its own, all report the same time, and the ceiling is known or
\* no state names its frequency.  In the other cases the code's two views do disagree.
ViewsAgree ==
  result # Null /\ even \notin {Null, 0}
    /\ (max_freq > 0 \/ \A name \in Names : name.kind = "mhz" => clusterNs[name] = 0) =>
    LET total == result.active + result.residency["idle"]
    IN  IF Cardinality(DOMAIN coreData) = 1 THEN total \in 99..101 ELSE total \in 98..101
=============================================================================
