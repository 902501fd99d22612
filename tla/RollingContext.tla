--------------------------- MODULE RollingContext ---------------------------
(***************************************************************************)
(* What the metric rows of the dashboard (src/actop/tui/widgets.py) show   *)
(* beside a reading, stated on all readings of the session and without     *)
(* a deque, its padding or a count of what in it is real: the average over *)
(* the configured window and the peak of the readings that are retained.   *)
(***************************************************************************)
EXTENDS Integers, Sequences, SequencesExt, FiniteSetsExt, Percent

CONSTANTS
  Rows,         \* the metric rows
  Frames,       \* what a frame may read: a value for every row
  AvgWindow,    \* avg_window
  HistMaxLen    \* _CHART_HIST_MAXLEN: readings retained

VARIABLES
  readings,     \* of each row, every reading of the session, oldest first
  shown         \* of each row, the sum and number of the averaged readings, and the peak

\* The last n readings, or all of them while there are fewer.
Recent(rs, n) == SubSeq(rs, AtLeast(1, Len(rs) - n + 1), Len(rs))

Total(rs) == FoldLeft(LAMBDA sum, r : sum + r, 0, rs)

ContextOf(rs) ==
  LET averaged == Recent(rs, AtMost(HistMaxLen, AvgWindow))
      retained == Recent(rs, HistMaxLen)
  IN  [sum |-> Total(averaged), n |-> Len(averaged),
       max |-> Max({retained[i] : i \in DOMAIN retained})]

Init ==
  /\ readings = [m \in Rows |-> <<>>]
  /\ shown = [m \in Rows |-> [sum |-> 0, n |-> 1, max |-> 0]]

Read(f) ==
  /\ readings' = [m \in Rows |-> Append(readings[m], f[m])]
  /\ shown' = [m \in Rows |-> ContextOf(readings'[m])]

Next == \E f \in Frames : Read(f)

Spec == Init /\ [][Next]_<<readings, shown>>
=============================================================================
