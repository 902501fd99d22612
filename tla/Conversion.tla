----------------------------- MODULE Conversion -----------------------------
(***************************************************************************)
(* From the items of a delta to the snapshot: _convert's energy and DRAM   *)
(* bandwidth beside the cluster of Residency, _average_samples over the    *)
(* sub-samples of one call (src/actop/sampler.py), _sample_to_snapshot     *)
(* (src/actop/api.py) and the residency row the dashboard makes of it      *)
(* (src/actop/tui/widgets.py).                                             *)
(*                                                                         *)
(* The cluster stands for each of E, P and GPU.  Energies, histograms and  *)
(* durations are chosen so that the quotients of the code's floats are     *)
(* whole; what the code cuts off or rounds is cut off or rounded here.     *)
(***************************************************************************)
EXTENDS Residency, SequencesExt

CONSTANTS
  Interval,     \* self._interval: seconds between calls, which a snapshot divides by
  Counts,       \* self._subsamples that are tried
  Few,          \* bound: channels of a call of several sub-samples
  Readings      \* what else a delta holds, of the set Reading

\* One item of energy, and one histogram of bandwidths for each memory controller; an edge
\* that cannot be read is Null.
Sources == {"cpu", "gpu", "ane"}
Reading ==
  [elapsed : Nat \ {0},
   energy  : Seq([of : Sources, unit : STRING, value : Nat]),
   dram    : Seq(Seq([edge : Nat \cup {Null}, ns : Nat]))]

\* Buckets come in the order of their upper edges.
Rising(hist) ==
  LET known == {i \in DOMAIN hist : hist[i].edge # Null}
  IN  /\ \A i \in known : hist[i].edge > 0
      /\ \A i, j \in known : i < j => hist[i].edge < hist[j].edge

ASSUME IntervalAssumption == Interval \in Nat \ {0}

VARIABLES
  wanted,       \* self._subsamples
  left,         \* turns of sample()'s loop that are still to come
  parts,        \* the SampleResults of this call
  drawn,        \* ghost: the readings parts were made of
  frame         \* the snapshot get_snapshot returns, Null before it does

sampleVars == <<wanted, left, parts, drawn, frame>>
convVars == <<table, coreData, clusterNs, items, even, result, wanted, left, parts, drawn, frame>>

ConvInit ==
  /\ ClusterInit
  /\ wanted \in Counts /\ left = wanted
  /\ parts = <<>> /\ drawn = <<>> /\ frame = Null

SumSeq(f(_), s) == SumOver([i \in DOMAIN s |-> f(s[i])], DOMAIN s)

-----------------------------------------------------------------------------
(* _convert: energy and bandwidth.                                         *)

\* Nanojoules; a unit nobody knows is taken for nJ.
_energy_to_joules(item) ==
  CASE item.unit = "j" -> item.value * 1000000000
    [] item.unit = "mj" -> item.value * 1000000
    [] item.unit = "uj" -> item.value * 1000
    [] OTHER -> item.value

ASSUME ReadingsAssumption ==
  \A r \in Readings :
    /\ r \in Reading
    /\ \A i \in DOMAIN r.energy : _energy_to_joules(r.energy[i]) % r.elapsed = 0
    /\ \A c \in DOMAIN r.dram : Rising(r.dram[c])

\* The energy of one source, scaled so that dividing by the interval gives its power.
Items(r, source) == {i \in DOMAIN r.energy : r.energy[i].of = source}
energy_j(r, source) ==
  SumOver([i \in Items(r, source) |-> _energy_to_joules(r.energy[i])], Items(r, source))
Scaled(r, source) == (Interval * energy_j(r, source)) \div r.elapsed

package(r) == Scaled(r, "cpu") + Scaled(r, "gpu") + Scaled(r, "ane")

\* Mutants: a bucket is its upper edge; a bucket without residency is no neighbour.
UpperEdge(hist, i) == hist[i].edge
MidpointOfVisited(hist, i) ==
  LET before == {j \in 1..(i - 1) : hist[j].edge # Null /\ hist[j].ns > 0}
  IN  (hist[i].edge + IF before = {} THEN 0 ELSE hist[Max(before)].edge) \div 2

\* The mean of a bucket's edge and the one before it that could be read.
Midpoint(hist, i) ==
  LET before == {j \in 1..(i - 1) : hist[j].edge # Null}
  IN  (hist[i].edge + IF before = {} THEN 0 ELSE hist[Max(before)].edge) \div 2

_channel_bandwidth_gbps(hist) ==
  LET known == {i \in DOMAIN hist : hist[i].edge # Null}
      total == SumOver([i \in known |-> hist[i].ns], known)
  IN  IF total = 0 THEN 0
      ELSE SumOver([i \in known |-> Midpoint(hist, i) * hist[i].ns], known) \div total

_compute_bandwidth_gbps(dram) == SumSeq(_channel_bandwidth_gbps, dram)

\* A channel exists and one of them carried residency.
bandwidth_available(dram) == \E c \in DOMAIN dram : \E i \in DOMAIN dram[c] : dram[c][i].ns > 0

-----------------------------------------------------------------------------
(* sample(): the sub-samples of one call.                                  *)

TakeItem(ch) ==
  /\ left > 0
  /\ wanted > 1 => ch \in Few
  /\ Item(ch)
  /\ UNCHANGED sampleVars

ConvertPart(r) ==
  /\ left > 0
  /\ _convert
  /\ parts' = Append(parts,
       [cores |-> coreData, cluster |-> result', package_W |-> package(r),
        total_gbps |-> _compute_bandwidth_gbps(r.dram),
        _available |-> bandwidth_available(r.dram)])
  /\ drawn' = Append(drawn, r)
  /\ left' = left - 1
  /\ UNCHANGED <<wanted, frame>>

\* The turn's _sample_once returned None: it is not among the parts.
MissPart ==
  /\ wanted > 1 /\ left > 0 /\ result = Null /\ items = 0
  /\ left' = left - 1
  /\ UNCHANGED <<table, coreData, clusterNs, items, even, result, wanted, parts, drawn, frame>>

NextPart == left > 0 /\ NextSample /\ UNCHANGED sampleVars

-----------------------------------------------------------------------------
(* _average_samples and _sample_to_snapshot.                               *)

\* Mutant: the sub-samples asked for.
countWanted(samples) == wanted

count(samples) == Len(samples)

\* int(sum / count) for whole numbers; for the others the quotient is exact.
Mean(f(_), samples) == SumSeq(f, samples) \div count(samples)

\* A core the sub-sample does not have counts as 0.
CoreActive(part, i) == IF i \in DOMAIN part.cores THEN part.cores[i].active ELSE 0
CoreFreq(part, i) == IF i \in DOMAIN part.cores THEN part.cores[i].freq ELSE 0

\* Numbers are averaged; the list of cores, the distribution and the ceiling are the
\* last sub-sample's; bandwidth is available if any sub-sample had it.
_average_samples(samples) ==
  LET base == Last(samples)
  IN  [cores      |-> [i \in DOMAIN base.cores |->
                        LET Active_(part) == CoreActive(part, i)
                            Freq_(part) == CoreFreq(part, i)
                        IN  [freq |-> Mean(Freq_, samples), active |-> Mean(Active_, samples)]],
       cluster    |-> [base.cluster EXCEPT !.active = Mean(LAMBDA part : part.cluster.active, samples),
                                           !.freq = Mean(LAMBDA part : part.cluster.freq, samples)],
       package_W  |-> Mean(LAMBDA part : part.package_W, samples),
       total_gbps |-> Mean(LAMBDA part : part.total_gbps, samples),
       _available |-> \E k \in DOMAIN samples : samples[k]._available]

\* perf: the driver's utilization could be read.  It replaces that of a GPU whose
\* frequency table was not found.
_sample_to_snapshot(sample, perf) ==
  [package_watts       |-> sample.package_W \div Interval,
   cores               |-> sample.cores,
   util_pct            |-> sample.cluster.active,
   util_source         |-> IF sample.cluster.max <= 0 /\ perf THEN "ioaccelerator" ELSE "residency",
   freq_mhz            |-> sample.cluster.freq,
   residency_pct       |-> sample.cluster.residency,
   bandwidth_gbps      |-> IF sample._available THEN sample.total_gbps ELSE 0,
   bandwidth_available |-> sample._available]

Deliver(perf) ==
  /\ left = 0 /\ frame = Null /\ parts # <<>>
  /\ frame' = _sample_to_snapshot(IF wanted = 1 THEN parts[1] ELSE _average_samples(parts), perf)
  /\ UNCHANGED <<table, coreData, clusterNs, items, even, result, wanted, left, parts, drawn>>

\* The next call of sample(): after a snapshot, or at once when there is no part.
NextCall ==
  /\ left = 0 /\ (frame # Null \/ parts = <<>>)
  /\ coreData' = <<>> /\ clusterNs' = Silent /\ items' = 0 /\ even' = Null /\ result' = Null
  /\ left' = wanted /\ parts' = <<>> /\ drawn' = <<>> /\ frame' = Null
  /\ UNCHANGED <<table, wanted>>

ConvNext ==
  \/ \E ch \in Channels : TakeItem(ch)
  \/ \E r \in Readings : ConvertPart(r)
  \/ MissPart
  \/ NextPart
  \/ \E perf \in BOOLEAN : Deliver(perf)
  \/ NextCall

ConvSpec == ConvInit /\ [][ConvNext]_convVars

-----------------------------------------------------------------------------
(* The residency row of the dashboard.                                     *)

BAR_WIDTH == 16   \* _RESIDENCY_BAR_WIDTH
BAR_MIN == 8      \* _RESIDENCY_BAR_MIN

\* Mutant: every bucket is rounded by itself.
BarRounded(shares, bar_width) == [b \in BucketSet |-> RoundHalfEven(shares[b] * bar_width, 100)]

\* The columns of the bar are handed out as the points of the shares are.
_residency_bar_widths(shares, bar_width) == Apportion(bar_width, shares, 100)

\* Columns: the label and a space; "idle25 low25 mid25 high25"; the brackets and spaces.
Prefix == 7
BREAKDOWN_MAX == 25
Digits(n) == CASE n < 10 -> 1 [] 10 <= n /\ n < 100 -> 2 [] OTHER -> 3
breakdown(shares) == 17 + SumOver([b \in BucketSet |-> Digits(shares[b])], BucketSet)

\* The bar's columns, 0 when it is dropped; a width of 0 means not laid out yet.
BarColumns(width) ==
  LET room == IF width > 0 THEN width - Prefix - BREAKDOWN_MAX - 4 ELSE BAR_WIDTH
      bar == IF room < BAR_WIDTH THEN room ELSE BAR_WIDTH
  IN  IF bar < BAR_MIN THEN 0 ELSE bar

_format_residency_row(shares, width) ==
  LET bar == BarColumns(width)
  IN  IF bar = 0 THEN Prefix + breakdown(shares)
      ELSE Prefix + SumOver(_residency_bar_widths(shares, bar), BucketSet) + 4 + breakdown(shares)

-----------------------------------------------------------------------------
(* What must hold of every frame.                                          *)

\* Joules per second of one reading, whatever unit its items came in.
Power(r) == SumSeq(_energy_to_joules, r.energy) \div r.elapsed

\* The lowest and highest rate a reading's histograms allow.
Touched(hist) == {i \in DOMAIN hist : hist[i].edge # Null /\ hist[i].ns > 0}
Floor(hist) == IF Touched(hist) = {} THEN 0
               ELSE LET below == {j \in 1..(Min(Touched(hist)) - 1) : hist[j].edge # Null}
                    IN  IF below = {} THEN 0 ELSE hist[Max(below)].edge
Ceiling(hist) == IF Touched(hist) = {} THEN 0 ELSE hist[Max(Touched(hist))].edge

Within(x, S) == \E lo, hi \in S : lo <= x /\ x <= hi

\* The four parts of FrameIsMean: the power, the cores, the cluster and the bandwidth of a
\* frame over some samples, made of these readings.
PowerIsMean(fr, readings) ==
  Within(fr.package_watts, {Power(readings[k]) : k \in DOMAIN readings})

CoresAreMeans(fr, samples) ==
  \A i \in DOMAIN fr.cores :
    Within(fr.cores[i].active, {CoreActive(samples[k], i) : k \in DOMAIN samples})

ClusterIsMean(fr, samples) ==
  LET ids == DOMAIN fr.cores
      n == Cardinality(ids)
      cores == SumOver([i \in ids |-> fr.cores[i].active], ids)
  IN  ids # {} /\ (\A k \in DOMAIN samples : DOMAIN samples[k].cores \in {{}, ids}) =>
        cores - 2 * n < n * fr.util_pct /\ n * fr.util_pct < cores + n

BandwidthInBuckets(fr, readings) ==
  LET low == {SumSeq(Floor, readings[k].dram) : k \in DOMAIN readings}
      high == {SumSeq(Ceiling, readings[k].dram) : k \in DOMAIN readings}
  IN  /\ Min(low) <= fr.bandwidth_gbps
      /\ fr.bandwidth_gbps < Max(high) \/ Max(high) = 0
      /\ Max(high) > 0 => fr.bandwidth_available

\* A frame over several sub-samples is a mean of those that came: its power lies
\* between the least and the greatest of theirs, a core's utilization too; the
\* cluster's utilization is that of its cores up to the two cuts, where every sub-sample
\* had all cores or none; and its bandwidth lies strictly inside the buckets the
\* controllers were in, and is withheld only when no controller was in any
\* (_average_samples, lines 184-260; _channel_bandwidth_gbps, lines 711-739).
FrameIsMean ==
  frame # Null =>
    /\ PowerIsMean(frame, drawn) /\ CoresAreMeans(frame, parts)
    /\ ClusterIsMean(frame, parts) /\ BandwidthInBuckets(frame, drawn)

\* When the shares add up to 100 the bar fills its columns exactly and the row with its
\* four percentages fits every width that holds them at all: two digits each is the
\* widest they get (widgets.py 561-570 and 572-577).
Widths == 32..53
BarFits ==
  frame # Null /\ SumOver(frame.residency_pct, BucketSet) > 0 =>
    /\ \A bar \in BAR_MIN..BAR_WIDTH :
         SumOver(_residency_bar_widths(frame.residency_pct, bar), BucketSet) = bar
    /\ \A width \in Widths : _format_residency_row(frame.residency_pct, width) <= width
=============================================================================
