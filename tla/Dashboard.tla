----------------------------- MODULE Dashboard -----------------------------
(***************************************************************************)
(* The data path of HardwareDashboard (src/actop/tui/widgets.py): one call *)
(* of update_metrics feeds the alert engine and appends the frame to the   *)
(* histories the charts and the avg/max labels are drawn from.  Where and  *)
(* when they are drawn is module Screen.                                   *)
(*                                                                         *)
(* A snapshot has, beside the fields of AlertEngine, cpuW (cpu_watts) and  *)
(* the network rates rx and tx with net (net_available).  The histories of *)
(* the other gauges, of the GPU's power and of the disk go through the     *)
(* same expressions as those of the P-CPU, the CPU's power and the network.*)
(***************************************************************************)
EXTENDS AlertEngine, FiniteSetsExt, SequencesExt

CONSTANTS
  HistMaxLen,       \* _CHART_HIST_MAXLEN
  AvgWindow,        \* avg_window
  PowerScale,       \* power_scale: "profile" or "auto"
  CpuRef,           \* cpu_chart_ref_w
  CpuPowerFloor,    \* DEFAULT_CPU_FLOOR_W
  NetRateFloor      \* NET_RATE_FLOOR_BPS

ASSUME HistoryAssumption == HistMaxLen \in Nat \ {0} /\ AvgWindow \in Nat \ {0}
ASSUME ScaleAssumption ==
  /\ PowerScale \in {"profile", "auto"}
  /\ CpuRef \in Nat /\ CpuPowerFloor \in Nat \ {0} /\ NetRateFloor \in Nat \ {0}
ASSUME ReadingsAssumption ==
  \A s \in Snapshots : s.cpuW \in Nat /\ s.rx \in Nat /\ s.tx \in Nat /\ s.cpu.util \in Nat

VARIABLES
  chartHist,        \* the deques, by name; a deque is always HistMaxLen long
  sampleCount       \* _sample_count

dashVars == <<vars, chartHist, sampleCount>>

\* The rows with an avg/max context and their native-unit histories.
Rows == {"pcpu", "cpuW", "pkgW", "bw", "rx", "tx"}
\* The histories in percent of a reference.
Percents == {"cpuPct", "pkgPct", "bwPct", "rxPct", "txPct"}

DashInit ==
  /\ Init
  /\ chartHist = [m \in Rows \cup Percents |-> [i \in 1..HistMaxLen |-> 0]]
  /\ sampleCount = 0

-----------------------------------------------------------------------------

\* What a frame appends to the history of a row; what is not available counts as 0.
Reading(m, s) ==
  CASE m = "pcpu" -> clamp_percent(s.cpu.util, 1)
    [] m = "cpuW" -> s.cpuW
    [] m = "pkgW" -> s.pkg
    [] m = "bw"   -> IF s.bwAvailable THEN s.bw ELSE 0
    [] m = "rx"   -> IF s.net THEN s.rx ELSE 0
    [] m = "tx"   -> IF s.net THEN s.tx ELSE 0

\* append() to a full deque.
Push(h, v) == Append(Tail(h), v)

\* Mutant: a rate that is not available is not appended.
PushAvailable(m, s) ==
  IF m \in {"rx", "tx"} /\ ~s.net THEN chartHist[m] ELSE Push(chartHist[m], Reading(m, s))

RowHist(m, s) == Push(chartHist[m], Reading(m, s))

Peak(h) == Max({h[i] : i \in DOMAIN h})

\* A value against a peak with headroom (DEFAULT_AUTO_MULTIPLIER, 5/4) or a floor.
AutoPercent(v, peak, floor) == clamp_percent(400 * v, AtLeast(4 * floor, 5 * peak))

power_to_percent(w, peak) ==
  IF PowerScale = "profile" THEN clamp_percent(100 * w, AtLeast(CpuPowerFloor, CpuRef))
  ELSE AutoPercent(w, peak, CpuPowerFloor)

\* A draw that is small but there is kept off the floor of its chart.
OffTheFloor(v, pct) == IF v > 0 /\ pct = 0 THEN 1 ELSE pct

\* Mutant: each direction is scaled to its own peak.
OwnPeak(s, m) == Peak(RowHist(m, s))

\* _append_io_percents: both directions of a box share one denominator.
NetPeak(s, m) == AtLeast(Peak(RowHist("rx", s)), Peak(RowHist("tx", s)))

\* Mutant: the chart is drawn against the calibrated reference, the alert against the ratchet.
PkgPercentFixed(s) == OffTheFloor(s.pkg, ceiling_percent(s.pkg, PkgFloor))

\* Package power against the ceiling this frame's alerts were judged with.
PkgPercent(s) == OffTheFloor(s.pkg, ceiling_percent(s.pkg, frame'.maxPkg))

BwPercent(s) ==
  LET gbps == Reading("bw", s) IN OffTheFloor(gbps, ceiling_percent(gbps, frame'.maxBw))

CpuPowerPercent(s) ==
  OffTheFloor(s.cpuW, power_to_percent(s.cpuW, Peak(RowHist("cpuW", s))))

RatePercent(s, m) == AutoPercent(Reading(m, s), NetPeak(s, m), NetRateFloor)

\* What a frame appends to the history of a percentage.
Percentage(m, s) ==
  CASE m = "cpuPct" -> CpuPowerPercent(s)
    [] m = "pkgPct" -> PkgPercent(s)
    [] m = "bwPct"  -> BwPercent(s)
    [] m = "rxPct"  -> RatePercent(s, "rx")
    [] m = "txPct"  -> RatePercent(s, "tx")

update_metrics(s) ==
  /\ Len(hist) < MaxFrames
  /\ feed(s)
  /\ chartHist' = [m \in Rows \cup Percents |->
                     IF m \in Rows THEN RowHist(m, s) ELSE Push(chartHist[m], Percentage(m, s))]
  /\ sampleCount' = sampleCount + 1

DashNext == \E s \in Snapshots : update_metrics(s)

DashSpec == DashInit /\ [][DashNext]_dashVars

-----------------------------------------------------------------------------
(* What is drawn from the histories.                                      *)

LastOf(h, n) == SubSeq(h, Len(h) - n + 1, Len(h))

\* Mutant: the peak is taken over the averaged readings only.
PeakValsShort(h) == LastOf(h, AtMost(AtMost(sampleCount, Len(h)), AvgWindow))

\* The readings of a history that are real and not padding.
PeakVals(h) == LastOf(h, AtMost(sampleCount, Len(h)))

\* _avg_max: the average as a sum and a number, and the peak.
_avg_max(h) ==
  IF sampleCount = 0 THEN [sum |-> 0, n |-> 1, max |-> 0]
  ELSE LET avgVals == LastOf(h, AtMost(AtMost(sampleCount, Len(h)), AvgWindow))
       IN  [sum |-> FoldLeft(LAMBDA a, b : a + b, 0, avgVals), n |-> Len(avgVals),
            max |-> Peak(PeakVals(h))]

\* How many of a column's dots a value fills; a value that is there fills one.
_clamped_value_and_level(v, total) ==
  LET level == AtMost(total, RoundHalfEven(AtMost(100, v) * total, 100))
  IN  IF v > 0 /\ level = 0 THEN 1 ELSE level

\* Mutant: a full cell's worth of dots lies one row further from the edge.
PeakRowHigh(level, height, down) == IF down THEN level \div 4 ELSE height - 1 - level \div 4

\* The row of a bar's end; rows are counted from the top, and a bar that goes down
\* hangs from the top.
PeakRow(level, height, down) ==
  IF down THEN (level - 1) \div 4 ELSE height - 1 - (level - 1) \div 4

\* _braille_column_bits: how many of the four dots of the cell at `row` are set,
\* counted from the edge the bar stands on.
_braille_column_bits(level, row, height, down) ==
  LET end == PeakRow(level, height, down)
  IN  CASE level <= 0 -> 0
        [] level > 0 /\ row = end -> ((level - 1) % 4) + 1
        [] level > 0 /\ row # end -> IF (row < end) = down THEN 4 ELSE 0

\* _render_dots and _render_block: the newest value in the last column, zeros where
\* the history does not reach.
RenderedColumn(h, columns, col, height, down) ==
  LET i == Len(h) - columns + col
      level == IF i >= 1 THEN _clamped_value_and_level(h[i], 4 * height) ELSE 0
  IN  [row \in 0..(height - 1) |-> _braille_column_bits(level, row, height, down)]

-----------------------------------------------------------------------------
(* What must hold.                                                         *)

\* Every row shows the average and the peak that the whole session calls for
\* (_avg_max, lines 1433-1455): no padding is averaged, no old reading stays, and the
\* label is that of the frame fed last.
Context == INSTANCE RollingContext WITH
  Frames   <- {[m \in Rows |-> Reading(m, s)] : s \in Snapshots},
  readings <- [m \in Rows |-> [i \in DOMAIN hist |-> Reading(m, hist[i])]],
  shown    <- [m \in Rows |-> _avg_max(chartHist[m])]
ShowsContext == Context!Spec

\* In each column of the two charts of a box, whatever has left the window since, the
\* smaller rate is not drawn higher (_append_io_percents, lines 1562-1571), and in
\* each column of a power or bandwidth chart there is something exactly when there
\* was a draw.
TrickleSmaller ==
  \A i \in 1..HistMaxLen :
    /\ chartHist["rx"][i] <= chartHist["tx"][i] => chartHist["rxPct"][i] <= chartHist["txPct"][i]
    /\ chartHist["tx"][i] <= chartHist["rx"][i] => chartHist["txPct"][i] <= chartHist["rxPct"][i]
    /\ chartHist["cpuW"][i] > 0 <=> chartHist["cpuPct"][i] > 0
    /\ chartHist["pkgW"][i] > 0 <=> chartHist["pkgPct"][i] > 0
    /\ chartHist["bw"][i] > 0 <=> chartHist["bwPct"][i] > 0

\* A sustained bandwidth or package alert is on exactly when the reader of the chart
\* sees it: the last SustainSamples columns are all at or above the threshold (lines
\* 1177-1182: chart and alert stay normalised against the same reference).  At a
\* threshold of 1 % the chart also shows draws that do not count, kept off its floor.
AlertSeenInChart ==
  LET Above(m, threshold) ==
        /\ sampleCount >= SustainSamples
        /\ \A i \in (HistMaxLen - SustainSamples + 1)..HistMaxLen : chartHist[m][i] >= threshold
      Seen(a, m, threshold) ==
        /\ frame.alert[a] => Above(m, threshold)
        /\ Above(m, threshold) /\ threshold > 1 => frame.alert[a]
  IN  hist # <<>> /\ SustainSamples <= HistMaxLen =>
        /\ Seen("pkg", "pkgPct", PkgPowerPercent)
        /\ Seen("bw", "bwPct", BwSatPercent)

\* Both together: what the percentages of one chart say of another, and of the alerts.
PercentsAgree == TrickleSmaller /\ AlertSeenInChart

\* A chart of any size, standing or hanging, shows the percentages of the latest
\* frames as bars without gaps: the cell that is d cells from the edge holds what
\* the bar still has left there (_render_dots, lines 420-452, and _render_block).
ChartTrue ==
  hist # <<>> =>
    \A m \in {"rxPct"}, columns \in {1, HistMaxLen + 1}, height \in 1..2, down \in BOOLEAN :
      \A col \in 1..columns :
        LET age == columns - col      \* in frames
            v == IF age < HistMaxLen THEN chartHist[m][HistMaxLen - age] ELSE 0
            cells == RenderedColumn(chartHist[m], columns, col, height, down)
            Depth(row) == IF down THEN row ELSE height - 1 - row
        IN  \A row \in 0..(height - 1) :
              cells[row] = AtMost(4, AtLeast(0, _clamped_value_and_level(v, 4 * height) - 4 * Depth(row)))
=============================================================================
