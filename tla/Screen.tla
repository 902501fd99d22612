------------------------------- MODULE Screen -------------------------------
(***************************************************************************)
(* When and at what width the dashboard (HardwareDashboard in src/actop/   *)
(* tui/widgets.py, ActopApp in src/actop/tui/app.py) paints.  A new frame, *)
(* a key and a resize all repaint, and what they repaint depends on widths *)
(* that are known only after the next layout: paints that must wait for it *)
(* are handed to call_after_refresh.                                       *)
(*                                                                         *)
(* Layout, its events and its callbacks belong to Textual and are modelled *)
(* from their use.  Three rows stand for all: "power" spans the panel and  *)
(* is painted again when the width changes, "summary" sits in one cell of  *)
(* the grid and "net" in a section that is hidden until there are rates.   *)
(* A row's text is its lengths; charts render themselves at any width.     *)
(***************************************************************************)
EXTENDS Integers, Sequences, FiniteSets, Percent

CONSTANTS
  Terminals,        \* widths the terminal may have
  TableWidth,       \* #process-table's width
  GridMinWidth,     \* _GRID_MIN_WIDTH
  Frame,            \* border and padding of a section
  SparkMin, SparkMax,   \* _POWER_SPARK_MIN, _POWER_SPARK_MAX
  Shapes,           \* of a row: length of its head, and of its context's tiers, widest first
  FirstShape,       \* of the readings before the first sample
  MaxFrames,        \* bound: frames painted
  MaxEvents         \* bound: keys and resizes

ASSUME WidthsAssumption ==
  /\ Terminals \subseteq Nat /\ {TableWidth, GridMinWidth, Frame, SparkMin, SparkMax} \subseteq Nat
ASSUME ShapesAssumption ==
  \A s \in Shapes \cup {FirstShape} : s.head \in Nat /\ s.tiers \in [1..3 -> Nat]

Rows == {"power", "summary", "net"}

VARIABLES
  showProcesses,    \* ActopApp._show_processes
  terminal,
  ready,            \* _sampler_ready: the main section is displayed
  requested, effective,     \* _requested_preset, _effective_preset
  chartGlyph,       \* _chart_glyph
  showCores,        \* _show_cores
  netDisplay,       \* display of #section-net
  laid,             \* the last layout: panel width, preset, and what it displayed
  dirty,            \* a layout is due
  resized,          \* a Resize event waits for the dashboard
  callbacks,        \* what call_after_refresh holds
  frames, reading,  \* frames painted, and the shape of the latest
  lastCores,        \* _last_p_cores and _last_e_cores, by their frame
  coreHist,         \* a core's history, by frame
  rowWidths,        \* _row_widths
  painted,          \* of each row, its last paint
  paintedCores,     \* of the core grids
  events

inputs == <<terminal, events>>
rowVars == <<frames, reading, rowWidths, painted>>
coreVars == <<lastCores, coreHist, paintedCores>>
screenVars == <<terminal, ready, requested, effective, chartGlyph, showCores, netDisplay, laid,
                dirty, resized, callbacks, frames, reading, lastCores, coreHist, rowWidths,
                painted, paintedCores, events>>

ScreenInit ==
  /\ terminal \in Terminals
  /\ ready = FALSE
  /\ requested \in {"grid", "stack"} /\ effective = requested
  /\ chartGlyph = "dots"
  /\ showCores \in BOOLEAN
  /\ netDisplay = FALSE
  /\ laid = [panel |-> 0, preset |-> requested, cores |-> FALSE, net |-> FALSE]
  /\ dirty = FALSE /\ resized = FALSE /\ callbacks = {}
  /\ frames = 0 /\ reading = FirstShape
  /\ lastCores = 0 /\ coreHist = <<>>
  /\ rowWidths = [r \in Rows |-> [head |-> 0, tiers |-> <<0, 0, 0>>]]
  /\ painted = [r \in Rows |-> [frame |-> 0, width |-> 0, glyph |-> "dots", tier |-> 3,
                                head |-> 0, len |-> 0]]
  /\ paintedCores = [frame |-> 0, width |-> 0, glyph |-> "dots"]
  /\ events = 0

-----------------------------------------------------------------------------
(* Widths.                                                                 *)

PanelWidth ==
  IF ~ready THEN 0 ELSE IF showProcesses THEN AtLeast(0, terminal - TableWidth) ELSE terminal

\* Of a row in one of the grid's two columns.
CellWidth(l) == AtLeast(0, (IF l.preset = "grid" THEN l.panel \div 2 ELSE l.panel) - Frame)

RowWidth(r, l) ==
  CASE r = "power"   -> AtLeast(0, l.panel - Frame)
    [] r = "summary" -> CellWidth(l)
    [] r = "net"     -> IF l.net THEN CellWidth(l) ELSE 0

CoreWidth(l) == IF l.cores THEN CellWidth(l) ELSE 0

\* Mutant: the row is fitted against the lengths of this frame.
JustTheseWidths(r, shape) == shape

\* _stable_widths: the widest the row has been.
_stable_widths(r, shape) ==
  [head  |-> AtLeast(rowWidths[r].head, shape.head),
   tiers |-> [t \in 1..3 |-> AtLeast(rowWidths[r].tiers[t], shape.tiers[t])]]

\* Mutant: the head is forgotten.
FitTierOnly(measured, width) ==
  IF width <= 0 THEN 3
  ELSE CHOOSE t \in 1..4 :
    /\ t = 4 \/ measured.tiers[t] <= width
    /\ \A u \in 1..(t - 1) : measured.tiers[u] > width

\* _fit_suffix: the widest tier that fits beside the head, 4 for none; the narrowest
\* where there is no width yet.
_fit_suffix(measured, width) ==
  IF width <= 0 THEN 3
  ELSE CHOOSE t \in 1..4 :
    /\ t = 4 \/ measured.head + measured.tiers[t] <= width
    /\ \A u \in 1..(t - 1) : measured.head + measured.tiers[u] > width

\* A row painted with a shape.  The line is cut at the row's width.
Paint(r, shape, frame, glyph) ==
  LET width  == RowWidth(r, laid)
      tier   == _fit_suffix(_stable_widths(r, shape), width)
      suffix == IF tier = 4 THEN 0 ELSE shape.tiers[tier]
      room   == AtMost(SparkMax, width - shape.head - 1 - suffix)
      spark  == IF r = "power" /\ room >= SparkMin THEN room + 1 ELSE 0
  IN  [frame |-> frame, width |-> width, glyph |-> glyph, tier |-> tier,
       head |-> shape.head, len |-> shape.head + spark + suffix]

PaintRows(rs, shape, frame, glyph) ==
  /\ painted' = [r \in Rows |-> IF r \in rs THEN Paint(r, shape, frame, glyph) ELSE painted[r]]
  /\ rowWidths' = [r \in Rows |-> IF r \in rs THEN _stable_widths(r, shape) ELSE rowWidths[r]]

\* _render_power_rows, from what the histories hold.
_render_power_rows(glyph) ==
  /\ PaintRows({"power"}, reading, frames, glyph)
  /\ UNCHANGED <<frames, reading>>

\* _update_core_two_col: both columns of every core's row.
CorePaint(frame, glyph) == [frame |-> frame, width |-> CoreWidth(laid), glyph |-> glyph]

\* Mutant: every repaint appends what it paints.
RepaintAppends(glyph) ==
  /\ paintedCores' = IF showCores THEN CorePaint(lastCores, glyph) ELSE paintedCores
  /\ coreHist' = IF showCores /\ lastCores > 0 THEN Append(coreHist, lastCores) ELSE coreHist
  /\ UNCHANGED lastCores

\* _repaint_core_grids
_repaint_core_grids(glyph) ==
  /\ paintedCores' = IF showCores THEN CorePaint(lastCores, glyph) ELSE paintedCores
  /\ UNCHANGED <<lastCores, coreHist>>

-----------------------------------------------------------------------------
(* Frames.                                                                 *)

\* _update_io_section: what is not available is hidden and not painted.
RowsOf(net) == IF net THEN Rows ELSE Rows \ {"net"}

\* The frame's rows, and its cores when they are shown.
update_metrics(shape, net) ==
  /\ frames < MaxFrames
  /\ frames' = frames + 1
  /\ reading' = shape
  /\ netDisplay' = net
  /\ PaintRows(RowsOf(net), shape, frames', chartGlyph)
  /\ lastCores' = frames'
  /\ IF showCores
       THEN /\ coreHist' = Append(coreHist, frames')
            /\ paintedCores' = CorePaint(frames', chartGlyph)
       ELSE UNCHANGED <<coreHist, paintedCores>>
  /\ dirty' = (dirty \/ net # netDisplay)

\* The first frame only takes the splash away; the next comes an interval later.
on_metrics_updated ==
  \/ /\ ~ready
     /\ ready' = TRUE
     /\ dirty' = TRUE
     /\ callbacks' = callbacks \cup {"paint"}
     /\ UNCHANGED <<rowVars, coreVars, netDisplay>>
  \/ /\ ready /\ "paint" \notin callbacks
     /\ \E shape \in Shapes, net \in BOOLEAN : update_metrics(shape, net)
     /\ UNCHANGED <<ready, callbacks>>

FrameArrives ==
  /\ on_metrics_updated
  /\ UNCHANGED <<inputs, showProcesses, requested, effective, chartGlyph, showCores, laid, resized>>

-----------------------------------------------------------------------------
(* Layout, and what waits for it.                                          *)

\* _reconcile_layout: a grid on a panel too narrow for it is a stack.
_reconcile_layout(preset) ==
  LET narrow == 0 < laid.panel /\ laid.panel < GridMinWidth
  IN  /\ effective' = IF narrow THEN "stack" ELSE preset
      /\ dirty' = (dirty \/ effective' # effective)

Layout ==
  /\ dirty /\ dirty' = FALSE
  /\ laid' = [panel |-> PanelWidth, preset |-> effective, cores |-> showCores, net |-> netDisplay]
  /\ resized' = (resized \/ laid'.panel # laid.panel)
  /\ UNCHANGED <<inputs, showProcesses, ready, requested, effective, chartGlyph, showCores,
                 netDisplay, callbacks, rowVars, coreVars>>

\* Mutant: the rows keep the width they had.
ResizeReconciles ==
  /\ resized /\ resized' = FALSE
  /\ _reconcile_layout(requested)
  /\ UNCHANGED <<inputs, showProcesses, ready, requested, chartGlyph, showCores, netDisplay,
                 laid, callbacks, rowVars, coreVars>>

on_resize ==
  /\ resized /\ resized' = FALSE
  /\ _reconcile_layout(requested)
  /\ callbacks' = callbacks \cup {"rows"}
  /\ UNCHANGED <<inputs, showProcesses, ready, requested, chartGlyph, showCores, netDisplay,
                 laid, rowVars, coreVars>>

\* A callback runs when no layout is due.
RunCallback(c) ==
  /\ c \in callbacks /\ ~dirty
  /\ callbacks' = callbacks \ {c}
  /\ \/ /\ c = "rows"       \* _refresh_width_adaptive_rows
        /\ _render_power_rows(chartGlyph) /\ _repaint_core_grids(chartGlyph)
        /\ UNCHANGED <<dirty, netDisplay>>
     \/ /\ c = "cores"
        /\ _repaint_core_grids(chartGlyph)
        /\ UNCHANGED <<dirty, netDisplay, rowVars>>
     \/ /\ c = "paint"      \* _paint_metrics with the first frame
        /\ \E shape \in Shapes, net \in BOOLEAN : update_metrics(shape, net)
  /\ UNCHANGED <<inputs, showProcesses, ready, requested, effective, chartGlyph, showCores, laid,
                 resized>>

-----------------------------------------------------------------------------
(* Keys and the terminal.                                                  *)

Event == events < MaxEvents /\ events' = events + 1

set_layout_preset(name) ==
  /\ requested' = name
  /\ _reconcile_layout(name)
  /\ callbacks' = callbacks \cup {"rows"}
  /\ UNCHANGED <<chartGlyph, showCores, resized, rowVars, coreVars>>

\* The sparks of the power and core rows are painted at once, at the widths they have.
set_chart_glyph(mode) ==
  /\ chartGlyph' = mode
  /\ _render_power_rows(mode)
  /\ _repaint_core_grids(mode)
  /\ UNCHANGED <<requested, effective, showCores, dirty, resized, callbacks>>

\* A core grid just displayed has no width yet: its paint waits for the layout.
set_show_cores(show) ==
  /\ showCores' = show
  /\ dirty' = TRUE
  /\ callbacks' = callbacks \cup {"cores"}
  /\ UNCHANGED <<requested, effective, chartGlyph, resized, rowVars, coreVars>>

action_cycle_layout == set_layout_preset(IF requested = "grid" THEN "stack" ELSE "grid")
action_toggle_chart_glyph == set_chart_glyph(IF chartGlyph = "dots" THEN "block" ELSE "dots")
action_toggle_cores == set_show_cores(~showCores)

DashboardKey ==
  /\ Event
  /\ action_cycle_layout \/ action_toggle_chart_glyph \/ action_toggle_cores
  /\ UNCHANGED <<terminal, showProcesses, ready, netDisplay, laid>>

action_toggle_processes ==
  /\ Event
  /\ showProcesses' = ~showProcesses
  /\ dirty' = TRUE
  /\ UNCHANGED <<terminal, ready, requested, effective, chartGlyph, showCores, netDisplay,
                 laid, resized, callbacks, rowVars, coreVars>>

TerminalResizes ==
  /\ Event
  /\ \E t \in Terminals \ {terminal} : terminal' = t
  /\ dirty' = TRUE
  /\ UNCHANGED <<showProcesses, ready, requested, effective, chartGlyph, showCores, netDisplay,
                 laid, resized, callbacks, rowVars, coreVars>>

ScreenNext ==
  \/ FrameArrives \/ Layout \/ on_resize
  \/ \E c \in {"rows", "cores", "paint"} : RunCallback(c)
  \/ DashboardKey \/ action_toggle_processes \/ TerminalResizes

ScreenSpec ==
  ScreenInit /\ showProcesses \in BOOLEAN /\ [][ScreenNext]_<<showProcesses, screenVars>>

-----------------------------------------------------------------------------
(* What must hold.                                                         *)

Settled == ready /\ ~dirty /\ ~resized /\ callbacks = {}

\* On a settled screen the layout, the power rows and the core grids are those that the
\* newest frame, the last key and the present width call for: none of these stays at a
\* width, in a glyph or in a preset of before (set_layout_preset to set_show_cores, lines
\* 1075-1170).  Of the summary and network rows this says nothing.
SettledIsCurrent ==
  Settled =>
    /\ effective = IF 0 < laid.panel /\ laid.panel < GridMinWidth THEN "stack" ELSE requested
    /\ laid = [panel |-> PanelWidth, preset |-> effective, cores |-> showCores, net |-> netDisplay]
    /\ LET p == painted["power"]
       IN  <<p.frame, p.width, p.glyph>> = <<frames, RowWidth("power", laid), chartGlyph>>
    /\ showCores => paintedCores = [frame |-> frames, width |-> CellWidth(laid), glyph |-> chartGlyph]

\* However often it is painted, a frame is in the cores' histories at most once, and in
\* order (_repaint_core_grids, lines 1121-1135).
SparksInOrder == \A i \in 1..(Len(coreHist) - 1) : coreHist[i] < coreHist[i + 1]

\* The annotation gives way before the reading: a line whose head fits is not cut.
NotCut(p) == p.width > 0 /\ p.head <= p.width => p.len <= p.width

\* A row painted again at the width it has keeps its form or takes a narrower one
\* (_stable_widths, lines 1536-1555), and its reading is never cut for the sake of the
\* annotation (_fit_suffix, lines 528-552).
FormHolds ==
  [][\A r \in Rows :
        /\ painted'[r].width = painted[r].width /\ painted[r].width > 0
             => painted'[r].tier >= painted[r].tier
        /\ NotCut(painted'[r])]_painted
=============================================================================
