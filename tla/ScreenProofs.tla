---------------------------- MODULE ScreenProofs ----------------------------
(***************************************************************************)
(* The dashboard's screen and the filter editor beside it, for all widths, *)
(* shapes and texts: a settled screen is current, no frame is in a history *)
(* twice, the rows keep their form, and the filter is the one the field    *)
(* asks for.  The editor is proved about as the instance the run has of it.*)
(***************************************************************************)
EXTENDS MCScreen, TLAPS, SequenceTheorems

(* What waits for a layout, and what is current.                           *)

svars == <<showProcesses, screenVars>>

Flags ==
  /\ ready \in BOOLEAN /\ dirty \in BOOLEAN /\ resized \in BOOLEAN
  /\ showCores \in BOOLEAN /\ netDisplay \in BOOLEAN

Narrowed(preset, panel) == IF 0 < panel /\ panel < GridMinWidth THEN "stack" ELSE preset

PresetFits == resized = FALSE => effective = Narrowed(requested, laid.panel)

LayoutNow ==
  [panel |-> PanelWidth, preset |-> effective, cores |-> showCores, net |-> netDisplay]

LaidIsNow == ready = TRUE /\ dirty = FALSE => laid = LayoutNow

PresetLaid == dirty = FALSE \/ "rows" \notin callbacks => laid.preset = effective

CoresLaid ==
  ready = TRUE /\ "cores" \notin callbacks /\ "paint" \notin callbacks => laid.cores = showCores

RowsCurrent ==
  /\ lastCores = frames
  /\ painted["power"].frame = frames
  /\ painted["power"].glyph = chartGlyph

PowerWide ==
  resized = FALSE /\ "rows" \notin callbacks => painted["power"].width = RowWidth("power", laid)

CoresCurrent ==
  ready = TRUE /\ resized = FALSE /\ callbacks = {} /\ showCores = TRUE
    => paintedCores = [frame |-> frames, width |-> CoreWidth(laid), glyph |-> chartGlyph]

CInv ==
  /\ Flags /\ PresetFits /\ LaidIsNow /\ PresetLaid /\ CoresLaid /\ RowsCurrent
  /\ PowerWide /\ CoresCurrent

\* The power row after it is painted.
LEMMA PaintedPower ==
  ASSUME NEW rs, "power" \in rs, NEW shape, NEW frame, NEW glyph, PaintRows(rs, shape, frame, glyph)
  PROVE  /\ painted'["power"].frame = frame
         /\ painted'["power"].glyph = glyph
         /\ painted'["power"].width = RowWidth("power", laid)
<1>1. painted'["power"] = Paint("power", shape, frame, glyph)
  BY DEF PaintRows, Rows
<1>2. QED
  BY <1>1 DEF Paint

\* Widths depend on the layout and on nothing else.
LEMMA SameWidths ==
  ASSUME NEW l, NEW m, l.panel = m.panel
  PROVE  /\ RowWidth("power", l) = RowWidth("power", m)
         /\ l.preset = m.preset /\ l.cores = m.cores => CoreWidth(l) = CoreWidth(m)
<1>1. RowWidth("power", l) = RowWidth("power", m)
  BY DEF RowWidth
<1>2. ASSUME l.preset = m.preset, l.cores = m.cores
      PROVE  CoreWidth(l) = CoreWidth(m)
  <2>1. CellWidth(l) = CellWidth(m)
    BY <1>2 DEF CellWidth
  <2>2. QED
    BY <1>2, <2>1 DEF CoreWidth
<1>3. QED
  BY <1>1, <1>2

\* A frame paints the power row, and the cores when they are shown.
LEMMA FramePaints ==
  ASSUME NEW shape, NEW net, update_metrics(shape, net), UNCHANGED <<laid, chartGlyph, showCores>>
  PROVE  /\ RowsCurrent'
         /\ painted'["power"].width = RowWidth("power", laid')
         /\ showCores' = TRUE
              => paintedCores' = [frame |-> frames', width |-> CoreWidth(laid'), glyph |-> chartGlyph']
<1>1. "power" \in RowsOf(net)
  BY DEF RowsOf, Rows
<1>2. PaintRows(RowsOf(net), shape, frames', chartGlyph)
  BY DEF update_metrics
<1>3. /\ painted'["power"].frame = frames'
      /\ painted'["power"].glyph = chartGlyph
      /\ painted'["power"].width = RowWidth("power", laid)
  BY <1>1, <1>2, PaintedPower
<1>4. RowsCurrent'
  BY <1>3 DEF update_metrics, RowsCurrent
<1>5. showCores = TRUE => paintedCores' = [frame |-> frames', width |-> CoreWidth(laid), glyph |-> chartGlyph]
  BY DEF update_metrics, CorePaint
<1>6. QED
  BY <1>3, <1>4, <1>5

\* A repaint of the cores paints the last frame at the present width.
LEMMA RepaintPaints ==
  ASSUME RowsCurrent, NEW glyph, _repaint_core_grids(glyph), UNCHANGED <<laid, showCores, frames>>
  PROVE  showCores' = TRUE
              => paintedCores' = [frame |-> frames', width |-> CoreWidth(laid'), glyph |-> glyph]
  BY DEF RowsCurrent, _repaint_core_grids, CorePaint

\* At the start nothing is displayed, and all is as it should be.
LEMMA InitCurrent == ScreenInit => CInv
<1> SUFFICES ASSUME ScreenInit
             PROVE  CInv
  OBVIOUS
<1> USE DEF ScreenInit
<1>1. Flags
  BY DEF Flags
<1>2. PresetFits
  BY DEF PresetFits, Narrowed
<1>3. LaidIsNow /\ PresetLaid /\ CoresLaid /\ CoresCurrent
  BY DEF LaidIsNow, PresetLaid, CoresLaid, CoresCurrent
<1>4. RowsCurrent
  BY DEF RowsCurrent, Rows
<1>5. RowWidth("power", laid) = 0
  BY WidthsAssumption DEF RowWidth, AtLeast
<1>6. PowerWide
  BY <1>5 DEF PowerWide, Rows
<1>7. QED
  BY <1>1, <1>2, <1>3, <1>4, <1>6 DEF CInv

\* A step that leaves the layout, and what it was of.
LEMMA FrameStep == CInv /\ FrameArrives => CInv'
<1> SUFFICES ASSUME CInv, FrameArrives
             PROVE  CInv'
  OBVIOUS
<1> USE DEF CInv
<1>1. UNCHANGED <<showProcesses, terminal, requested, effective, chartGlyph, showCores, laid, resized>>
  BY DEF FrameArrives, inputs
<1>2. PresetFits'
  BY <1>1 DEF PresetFits
<1>3. CASE /\ ~ready
           /\ ready' = TRUE
           /\ dirty' = TRUE
           /\ callbacks' = callbacks \cup {"paint"}
           /\ UNCHANGED <<rowVars, coreVars, netDisplay>>
  <2> USE <1>1, <1>3 DEF rowVars, coreVars
  <2>1. Flags'
    BY DEF Flags
  <2>2. LaidIsNow' /\ PresetLaid' /\ CoresLaid' /\ RowsCurrent' /\ CoresCurrent'
    BY DEF LaidIsNow, PresetLaid, CoresLaid, RowsCurrent, CoresCurrent
  <2>3. PowerWide'
    BY DEF PowerWide
  <2>4. QED
    BY <1>2, <2>1, <2>2, <2>3
<1>4. CASE /\ ready /\ "paint" \notin callbacks
           /\ \E shape \in Shapes, net \in BOOLEAN : update_metrics(shape, net)
           /\ UNCHANGED <<ready, callbacks>>
  <2>1. PICK shape \in Shapes, net \in BOOLEAN : update_metrics(shape, net)
    BY <1>4
  <2>2. /\ RowsCurrent'
        /\ painted'["power"].width = RowWidth("power", laid')
        /\ showCores' = TRUE
             => paintedCores' = [frame |-> frames', width |-> CoreWidth(laid'), glyph |-> chartGlyph']
    BY <1>1, <2>1, FramePaints
  <2>3. netDisplay' = net /\ dirty' = (dirty \/ net # netDisplay) /\ UNCHANGED <<ready, callbacks>>
    BY <1>4, <2>1 DEF update_metrics
  <2>4. Flags'
    BY <1>1, <2>3 DEF Flags
  <2>5. dirty' = FALSE => dirty = FALSE /\ netDisplay' = netDisplay
    BY <2>3 DEF Flags
  <2>6. LaidIsNow'
    BY <1>1, <2>3, <2>5 DEF LaidIsNow, LayoutNow, PanelWidth
  <2>7. PresetLaid' /\ CoresLaid'
    BY <1>1, <2>3, <2>5 DEF PresetLaid, CoresLaid
  <2>8. PowerWide' /\ CoresCurrent'
    BY <1>1, <2>2, <2>3 DEF PowerWide, CoresCurrent
  <2>9. QED
    BY <1>2, <2>2, <2>4, <2>6, <2>7, <2>8
<1>5. QED
  BY <1>3, <1>4 DEF FrameArrives, on_metrics_updated

\* A layout that changes a width leaves a Resize event, and one that changes anything else
\* finds its callback waiting.
LEMMA LayoutStep == CInv /\ Layout => CInv'
<1> SUFFICES ASSUME CInv, Layout
             PROVE  CInv'
  OBVIOUS
<1> USE DEF CInv
<1>1. /\ UNCHANGED <<showProcesses, terminal, ready, requested, effective, chartGlyph, showCores,
                     netDisplay, callbacks, frames, lastCores, painted, paintedCores>>
      /\ dirty = TRUE /\ dirty' = FALSE
      /\ laid' = LayoutNow
  BY DEF Layout, inputs, rowVars, coreVars, LayoutNow, Flags
<1>2. LayoutNow' = LayoutNow
  BY <1>1 DEF LayoutNow, PanelWidth
<1>3. resized' = FALSE => resized = FALSE /\ laid'.panel = laid.panel
  BY DEF Layout, Flags
<1>4. laid'.preset = effective /\ laid'.cores = showCores
  BY <1>1 DEF LayoutNow
<1>5. Flags'
  BY <1>1 DEF Layout, Flags
<1>6. PresetFits'
  BY <1>1, <1>3 DEF PresetFits
<1>7. LaidIsNow' /\ PresetLaid' /\ CoresLaid' /\ RowsCurrent'
  BY <1>1, <1>2, <1>4 DEF LaidIsNow, PresetLaid, CoresLaid, RowsCurrent
<1>8. PowerWide'
  <2> SUFFICES ASSUME resized' = FALSE, "rows" \notin callbacks'
               PROVE  painted'["power"].width = RowWidth("power", laid')
    BY DEF PowerWide
  <2>1. RowWidth("power", laid') = RowWidth("power", laid)
    BY <1>3, SameWidths
  <2>2. QED
    BY <1>1, <1>3, <2>1 DEF PowerWide
<1>9. CoresCurrent'
  <2> SUFFICES ASSUME ready' = TRUE, resized' = FALSE, callbacks' = {}, showCores' = TRUE
               PROVE  paintedCores' = [frame |-> frames', width |-> CoreWidth(laid'),
                                       glyph |-> chartGlyph']
    BY DEF CoresCurrent
  <2>1. laid.preset = effective /\ laid.cores = showCores
    BY <1>1 DEF PresetLaid, CoresLaid
  <2>2. CoreWidth(laid') = CoreWidth(laid)
    BY <1>3, <1>4, <2>1, SameWidths
  <2>3. QED
    BY <1>1, <1>3, <2>2 DEF CoresCurrent
<1>10. QED
  BY <1>5, <1>6, <1>7, <1>8, <1>9

\* What _reconcile_layout leaves: the preset the panel allows, and a layout due if it changed.
LEMMA Reconciled ==
  ASSUME CInv, NEW preset, _reconcile_layout(preset), UNCHANGED <<showProcesses, terminal, ready,
         showCores, netDisplay, laid>>
  PROVE  /\ effective' = Narrowed(preset, laid'.panel)
         /\ dirty' \in BOOLEAN
         /\ dirty' = FALSE => dirty = FALSE /\ effective' = effective
         /\ LaidIsNow'
<1>1. effective' = Narrowed(preset, laid'.panel)
  BY DEF _reconcile_layout, Narrowed
<1>2. dirty' = (dirty \/ effective' # effective)
  BY DEF _reconcile_layout
<1>3. dirty' \in BOOLEAN /\ (dirty' = FALSE => dirty = FALSE /\ effective' = effective)
  BY <1>2 DEF CInv, Flags
<1>4. LaidIsNow'
  BY <1>3 DEF CInv, LaidIsNow, LayoutNow, PanelWidth
<1>5. QED
  BY <1>1, <1>3, <1>4

\* A Resize event corrects the preset and leaves the rows to its callback.
LEMMA ResizeStep == CInv /\ on_resize => CInv'
<1> SUFFICES ASSUME CInv, on_resize
             PROVE  CInv'
  OBVIOUS
<1> USE DEF CInv
<1>1. /\ UNCHANGED <<showProcesses, terminal, ready, requested, chartGlyph, showCores,
                     netDisplay, laid, frames, lastCores, painted, paintedCores>>
      /\ resized' = FALSE
      /\ callbacks' = callbacks \cup {"rows"}
      /\ _reconcile_layout(requested)
  BY DEF on_resize, inputs, rowVars, coreVars
<1>2. /\ effective' = Narrowed(requested, laid'.panel)
      /\ dirty' \in BOOLEAN
      /\ dirty' = FALSE => dirty = FALSE /\ effective' = effective
      /\ LaidIsNow'
  BY <1>1, Reconciled
<1>3. Flags' /\ PresetFits'
  BY <1>1, <1>2 DEF Flags, PresetFits
<1>4. PresetLaid' /\ CoresLaid' /\ RowsCurrent'
  BY <1>1, <1>2 DEF PresetLaid, CoresLaid, RowsCurrent
<1>5. PowerWide' /\ CoresCurrent'
  BY <1>1 DEF PowerWide, CoresCurrent
<1>6. QED
  BY <1>2, <1>3, <1>4, <1>5

\* What a callback paints is current, as it runs when no layout is due.
LEMMA CallbackStep == ASSUME NEW c, CInv, RunCallback(c) PROVE CInv'
<1> USE DEF CInv
<1>1. /\ UNCHANGED <<showProcesses, terminal, ready, requested, effective, chartGlyph, showCores,
                     laid, resized>>
      /\ dirty = FALSE
      /\ callbacks' = callbacks \ {c}
  BY DEF RunCallback, inputs, Flags
<1>2. PresetFits'
  BY <1>1 DEF PresetFits
<1>3. PresetLaid'
  BY <1>1 DEF PresetLaid
<1>4. CoresLaid'
  BY <1>1 DEF CoresLaid, LaidIsNow, LayoutNow
<1>5. CASE /\ c = "rows"
           /\ _render_power_rows(chartGlyph) /\ _repaint_core_grids(chartGlyph)
           /\ UNCHANGED <<dirty, netDisplay>>
  <2>1. Flags' /\ LaidIsNow'
    BY <1>1, <1>5 DEF Flags, LaidIsNow, LayoutNow, PanelWidth
  <2>2. PaintRows({"power"}, reading, frames, chartGlyph) /\ frames' = frames
    BY <1>5 DEF _render_power_rows
  <2>3. /\ painted'["power"].frame = frames
        /\ painted'["power"].glyph = chartGlyph
        /\ painted'["power"].width = RowWidth("power", laid)
    BY <2>2, PaintedPower
  <2>4. RowsCurrent' /\ PowerWide'
    BY <1>1, <1>5, <2>2, <2>3 DEF RowsCurrent, PowerWide, _repaint_core_grids
  <2>5. CoresCurrent'
    BY <1>1, <1>5, <2>2, RepaintPaints DEF CoresCurrent
  <2>6. QED
    BY <1>2, <1>3, <1>4, <2>1, <2>4, <2>5
<1>6. CASE /\ c = "cores"
           /\ _repaint_core_grids(chartGlyph)
           /\ UNCHANGED <<dirty, netDisplay, rowVars>>
  <2>1. Flags' /\ LaidIsNow'
    BY <1>1, <1>6 DEF Flags, LaidIsNow, LayoutNow, PanelWidth
  <2>2. RowsCurrent' /\ PowerWide'
    BY <1>1, <1>6 DEF RowsCurrent, PowerWide, _repaint_core_grids, rowVars
  <2>3. frames' = frames
    BY <1>6 DEF rowVars
  <2>4. CoresCurrent'
    BY <1>1, <1>6, <2>3, RepaintPaints DEF CoresCurrent
  <2>5. QED
    BY <1>2, <1>3, <1>4, <2>1, <2>2, <2>4
<1>7. CASE /\ c = "paint"
           /\ \E shape \in Shapes, net \in BOOLEAN : update_metrics(shape, net)
  <2>1. PICK shape \in Shapes, net \in BOOLEAN : update_metrics(shape, net)
    BY <1>7
  <2>2. /\ RowsCurrent'
        /\ painted'["power"].width = RowWidth("power", laid')
        /\ showCores' = TRUE
             => paintedCores' = [frame |-> frames', width |-> CoreWidth(laid'), glyph |-> chartGlyph']
    BY <1>1, <2>1, FramePaints
  <2>3. netDisplay' = net /\ dirty' = (dirty \/ net # netDisplay)
    BY <2>1 DEF update_metrics
  <2>4. Flags'
    BY <1>1, <2>3 DEF Flags
  <2>5. dirty' = FALSE => netDisplay' = netDisplay
    BY <2>3 DEF Flags
  <2>6. LaidIsNow'
    BY <1>1, <2>5 DEF LaidIsNow, LayoutNow, PanelWidth
  <2>7. PowerWide' /\ CoresCurrent'
    BY <2>2 DEF PowerWide, CoresCurrent
  <2>8. QED
    BY <1>2, <1>3, <1>4, <2>2, <2>4, <2>6, <2>7
<1>8. QED
  BY <1>5, <1>6, <1>7 DEF RunCallback

\* Every key paints at once or leaves a callback.
LEMMA KeyStep == CInv /\ DashboardKey => CInv'
<1> SUFFICES ASSUME CInv, DashboardKey
             PROVE  CInv'
  OBVIOUS
<1> USE DEF CInv
<1>1. UNCHANGED <<terminal, showProcesses, ready, netDisplay, laid>>
  BY DEF DashboardKey
<1>2. CASE action_cycle_layout
  <2>1. PICK name : set_layout_preset(name)
    BY <1>2 DEF action_cycle_layout
  <2>2. /\ UNCHANGED <<chartGlyph, showCores, resized, frames, painted, lastCores, paintedCores>>
        /\ requested' = name
        /\ callbacks' = callbacks \cup {"rows"}
        /\ _reconcile_layout(name)
    BY <2>1 DEF set_layout_preset, rowVars, coreVars
  <2>3. /\ effective' = Narrowed(name, laid'.panel)
        /\ dirty' \in BOOLEAN
        /\ dirty' = FALSE => dirty = FALSE /\ effective' = effective
        /\ LaidIsNow'
    BY <1>1, <2>2, Reconciled
  <2>4. Flags' /\ PresetFits'
    BY <1>1, <2>2, <2>3 DEF Flags, PresetFits
  <2>5. PresetLaid' /\ CoresLaid' /\ RowsCurrent'
    BY <1>1, <2>2, <2>3 DEF PresetLaid, CoresLaid, RowsCurrent
  <2>6. PowerWide' /\ CoresCurrent'
    BY <1>1, <2>2 DEF PowerWide, CoresCurrent
  <2>7. QED
    BY <2>3, <2>4, <2>5, <2>6
<1>3. CASE action_toggle_chart_glyph
  <2>1. PICK mode : set_chart_glyph(mode)
    BY <1>3 DEF action_toggle_chart_glyph
  <2>2. /\ UNCHANGED <<requested, effective, showCores, dirty, resized, callbacks, frames, lastCores>>
        /\ chartGlyph' = mode
        /\ PaintRows({"power"}, reading, frames, mode)
        /\ _repaint_core_grids(mode)
    BY <2>1 DEF set_chart_glyph, _render_power_rows, _repaint_core_grids
  <2>3. /\ painted'["power"].frame = frames
        /\ painted'["power"].glyph = mode
        /\ painted'["power"].width = RowWidth("power", laid)
    BY <2>2, PaintedPower
  <2>4. Flags' /\ PresetFits'
    BY <1>1, <2>2 DEF Flags, PresetFits
  <2>5. LaidIsNow'
    BY <1>1, <2>2 DEF LaidIsNow, LayoutNow, PanelWidth
  <2>6. PresetLaid' /\ CoresLaid'
    BY <1>1, <2>2 DEF PresetLaid, CoresLaid
  <2>7. RowsCurrent' /\ PowerWide'
    BY <1>1, <2>2, <2>3 DEF RowsCurrent, PowerWide
  <2>8. CoresCurrent'
    BY <1>1, <2>2, RepaintPaints DEF CoresCurrent
  <2>9. QED
    BY <2>4, <2>5, <2>6, <2>7, <2>8
<1>4. CASE action_toggle_cores
  <2>1. /\ UNCHANGED <<requested, effective, chartGlyph, resized, frames, painted, lastCores, paintedCores>>
        /\ showCores' = ~showCores
        /\ dirty' = TRUE
        /\ callbacks' = callbacks \cup {"cores"}
    BY <1>4 DEF action_toggle_cores, set_show_cores, rowVars, coreVars
  <2>2. Flags'
    BY <1>1, <2>1 DEF Flags
  <2>3. PresetFits' /\ LaidIsNow' /\ CoresLaid' /\ RowsCurrent' /\ CoresCurrent'
    BY <1>1, <2>1 DEF PresetFits, LaidIsNow, CoresLaid, RowsCurrent, CoresCurrent
  <2>4. PresetLaid' /\ PowerWide'
    BY <1>1, <2>1 DEF PresetLaid, PowerWide
  <2>5. QED
    BY <2>2, <2>3, <2>4
<1>5. QED
  BY <1>2, <1>3, <1>4 DEF DashboardKey

\* Whatever asks for a layout and changes nothing but what the layout reads.
LEMMA DirtyStep == CInv /\ (action_toggle_processes \/ TerminalResizes) => CInv'
<1> SUFFICES ASSUME CInv, action_toggle_processes \/ TerminalResizes
             PROVE  CInv'
  OBVIOUS
<1> USE DEF CInv
<1>1. /\ UNCHANGED <<ready, requested, effective, chartGlyph, showCores, netDisplay, laid, resized,
                     callbacks, frames, lastCores, painted, paintedCores>>
      /\ dirty' = TRUE
  BY DEF action_toggle_processes, TerminalResizes, rowVars, coreVars
<1>2. Flags' /\ PresetFits' /\ LaidIsNow'
  BY <1>1 DEF Flags, PresetFits, LaidIsNow
<1>3. PresetLaid' /\ CoresLaid'
  BY <1>1 DEF PresetLaid, CoresLaid
<1>4. RowsCurrent' /\ PowerWide' /\ CoresCurrent'
  BY <1>1 DEF RowsCurrent, PowerWide, CoresCurrent
<1>5. QED
  BY <1>2, <1>3, <1>4

\* Every step of the dashboard keeps the screen current, or leaves what will make it so.
LEMMA CurrentStep == CInv /\ [ScreenNext]_<<showProcesses, screenVars>> => CInv'
<1> SUFFICES ASSUME CInv, [ScreenNext]_<<showProcesses, screenVars>>
             PROVE  CInv'
  OBVIOUS
<1>1. CASE UNCHANGED <<showProcesses, screenVars>>
  <2> USE <1>1 DEF screenVars, CInv
  <2>1. Flags' /\ PresetFits'
    BY DEF Flags, PresetFits
  <2>2. LaidIsNow'
    BY DEF LaidIsNow, LayoutNow, PanelWidth
  <2>3. PresetLaid' /\ CoresLaid'
    BY DEF PresetLaid, CoresLaid
  <2>4. RowsCurrent' /\ PowerWide' /\ CoresCurrent'
    BY DEF RowsCurrent, PowerWide, CoresCurrent
  <2>5. QED
    BY <2>1, <2>2, <2>3, <2>4
<1>2. QED
  BY <1>1, FrameStep, LayoutStep, ResizeStep, CallbackStep, KeyStep, DirtyStep DEF ScreenNext

\* Where nothing is due and nothing waits, the screen is current.
LEMMA CurrentSettled == CInv => SettledIsCurrent
<1> SUFFICES ASSUME CInv, Settled
             PROVE  /\ effective = IF 0 < laid.panel /\ laid.panel < GridMinWidth
                                     THEN "stack" ELSE requested
                    /\ laid = [panel |-> PanelWidth, preset |-> effective, cores |-> showCores,
                               net |-> netDisplay]
                    /\ <<painted["power"].frame, painted["power"].width, painted["power"].glyph>>
                         = <<frames, RowWidth("power", laid), chartGlyph>>
                    /\ showCores => paintedCores = [frame |-> frames, width |-> CellWidth(laid),
                                                    glyph |-> chartGlyph]
  BY DEF SettledIsCurrent
<1> USE DEF CInv
<1>1. ready = TRUE /\ dirty = FALSE /\ resized = FALSE /\ callbacks = {}
  BY DEF Settled, Flags
<1>2. effective = Narrowed(requested, laid.panel)
  BY <1>1 DEF PresetFits
<1>3. laid = LayoutNow
  BY <1>1 DEF LaidIsNow
<1>4. /\ painted["power"].frame = frames
      /\ painted["power"].width = RowWidth("power", laid)
      /\ painted["power"].glyph = chartGlyph
  BY <1>1 DEF RowsCurrent, PowerWide
<1>5. ASSUME showCores = TRUE
      PROVE  paintedCores = [frame |-> frames, width |-> CellWidth(laid), glyph |-> chartGlyph]
  <2>1. laid.cores = TRUE
    BY <1>1, <1>5 DEF CoresLaid
  <2>2. CoreWidth(laid) = CellWidth(laid)
    BY <2>1 DEF CoreWidth
  <2>3. QED
    BY <1>1, <1>5, <2>2 DEF CoresCurrent
<1>6. showCores => paintedCores = [frame |-> frames, width |-> CellWidth(laid), glyph |-> chartGlyph]
  BY <1>5 DEF Flags
<1>7. QED
  BY <1>2, <1>3, <1>4, <1>6 DEF Narrowed, LayoutNow

\* A settled screen is the one the newest frame, the last key and the present width call for,
\* at every width and after any order of frames, keys, layouts and callbacks
\* (set_layout_preset to set_show_cores, widgets.py:1075-1170).
THEOREM SettledAlwaysCurrent == ScreenSpec => []SettledIsCurrent
<1>1. ScreenInit => CInv
  BY InitCurrent
<1>2. CInv /\ [ScreenNext]_<<showProcesses, screenVars>> => CInv'
  BY CurrentStep
<1>3. CInv => SettledIsCurrent
  BY CurrentSettled
<1>4. QED
  BY <1>1, <1>2, <1>3, PTL DEF ScreenSpec

-----------------------------------------------------------------------------
(* Histories and the form of the rows.                                     *)

InOrder ==
  /\ frames \in Nat
  /\ coreHist \in Seq(Nat)
  /\ \A i \in 1..Len(coreHist) : coreHist[i] <= frames
  /\ SparksInOrder

\* A frame is appended once, behind the earlier ones.
LEMMA FrameInOrder ==
  ASSUME InOrder, NEW shape, NEW net, update_metrics(shape, net)
  PROVE  InOrder'
<1> USE DEF InOrder
<1>1. frames' = frames + 1
  BY DEF update_metrics
<1>2. CASE coreHist' = Append(coreHist, frames')
  <2>1. coreHist' \in Seq(Nat) /\ Len(coreHist') = Len(coreHist) + 1
    BY <1>1, <1>2
  <2>2. \A i \in 1..Len(coreHist) : coreHist'[i] = coreHist[i] /\ coreHist[i] \in Nat
    BY <1>2
  <2>3. coreHist'[Len(coreHist) + 1] = frames'
    BY <1>1, <1>2
  <2>4. ASSUME NEW i \in 1..Len(coreHist')
        PROVE  coreHist'[i] <= frames'
    <3>1. CASE i \in 1..Len(coreHist)
      <4>1. coreHist'[i] = coreHist[i] /\ coreHist[i] \in Nat /\ coreHist[i] <= frames
        BY <2>2, <3>1
      <4>2. QED
        BY <1>1, <4>1
    <3>2. CASE i = Len(coreHist) + 1
      BY <1>1, <2>3, <3>2
    <3>3. QED
      BY <2>1, <3>1, <3>2
  <2>5. ASSUME NEW i \in 1..(Len(coreHist') - 1)
        PROVE  coreHist'[i] < coreHist'[i + 1]
    <3>0. i \in Nat /\ i \in 1..Len(coreHist) /\ Len(coreHist) \in Nat
      BY <2>1
    <3>1. CASE i = Len(coreHist)
      <4>1. coreHist'[i] = coreHist[i] /\ coreHist[i] \in Nat /\ coreHist[i] <= frames
        BY <2>2, <3>0
      <4>2. coreHist'[i + 1] = frames + 1
        BY <1>1, <2>3, <3>1
      <4>3. QED
        BY <4>1, <4>2
    <3>2. CASE i < Len(coreHist)
      <4>1. i \in 1..(Len(coreHist) - 1) /\ i + 1 \in 1..Len(coreHist)
        BY <3>0, <3>2
      <4>2. coreHist[i] < coreHist[i + 1]
        BY <4>1 DEF SparksInOrder
      <4>3. QED
        BY <2>2, <3>0, <4>1, <4>2
    <3>3. QED
      BY <3>0, <3>1, <3>2
  <2>6. QED
    BY <1>1, <2>1, <2>4, <2>5 DEF SparksInOrder
<1>3. CASE coreHist' = coreHist
  <2>1. \A i \in 1..Len(coreHist) : coreHist[i] \in Nat
    OBVIOUS
  <2>2. \A i \in 1..Len(coreHist') : coreHist'[i] <= frames'
    BY <1>1, <1>3, <2>1
  <2>3. QED
    BY <1>1, <1>3, <2>2 DEF SparksInOrder
<1>4. QED
  BY <1>2, <1>3 DEF update_metrics

\* No step other than a frame touches the histories.
LEMMA OrderStep == InOrder /\ [ScreenNext]_<<showProcesses, screenVars>> => InOrder'
<1> SUFFICES ASSUME InOrder, [ScreenNext]_<<showProcesses, screenVars>>
             PROVE  InOrder'
  OBVIOUS
<1>1. UNCHANGED <<frames, coreHist>> => InOrder'
  BY DEF InOrder, SparksInOrder
<1>2. CASE FrameArrives
  BY <1>1, <1>2, FrameInOrder DEF FrameArrives, on_metrics_updated, rowVars, coreVars
<1>3. CASE \E c \in {"rows", "cores", "paint"} : RunCallback(c)
  BY <1>1, <1>3, FrameInOrder DEF RunCallback, _render_power_rows, _repaint_core_grids, rowVars
<1>4. CASE Layout \/ on_resize \/ action_toggle_processes \/ TerminalResizes
           \/ UNCHANGED <<showProcesses, screenVars>>
  BY <1>1, <1>4
     DEF Layout, on_resize, action_toggle_processes, TerminalResizes, screenVars, rowVars, coreVars
<1>5. CASE DashboardKey
  BY <1>1, <1>5
     DEF DashboardKey, action_cycle_layout, action_toggle_chart_glyph, action_toggle_cores,
         set_layout_preset, set_chart_glyph, set_show_cores, _render_power_rows,
         _repaint_core_grids, rowVars, coreVars
<1>6. QED
  BY <1>2, <1>3, <1>4, <1>5 DEF ScreenNext

\* However often it is painted, a frame is in the cores' histories at most once and in order
\* (_repaint_core_grids, widgets.py:1121-1135).
THEOREM SparksAlwaysInOrder == ScreenSpec => []SparksInOrder
<1>1. ScreenInit => InOrder
  BY DEF ScreenInit, InOrder, SparksInOrder
<1>2. InOrder /\ [ScreenNext]_<<showProcesses, screenVars>> => InOrder'
  BY OrderStep
<1>3. InOrder => SparksInOrder
  BY DEF InOrder
<1>4. QED
  BY <1>1, <1>2, <1>3, PTL DEF ScreenSpec

-----------------------------------------------------------------------------

Lengths(m) == m.head \in Nat /\ \A t \in 1..3 : m.tiers[t] \in Nat

\* _fit_suffix finds the widest tier that fits.
LEMMA FitFound ==
  ASSUME NEW m, Lengths(m), NEW w \in Nat, w > 0
  PROVE  /\ _fit_suffix(m, w) \in 1..4
         /\ _fit_suffix(m, w) # 4 => m.head + m.tiers[_fit_suffix(m, w)] <= w
         /\ \A u \in 1..(_fit_suffix(m, w) - 1) : m.head + m.tiers[u] > w
<1> DEFINE P(t) == /\ t = 4 \/ m.head + m.tiers[t] <= w
                   /\ \A u \in 1..(t - 1) : m.head + m.tiers[u] > w
<1>1. \E t \in 1..4 : P(t)
  <2>1. CASE m.head + m.tiers[1] <= w
    <3>1. P(1)
      BY <2>1
    <3>2. QED
      BY <3>1
  <2>2. CASE m.head + m.tiers[1] > w /\ m.head + m.tiers[2] <= w
    <3>1. \A u \in 1..(2 - 1) : u = 1
      OBVIOUS
    <3>2. P(2)
      BY <2>2, <3>1
    <3>3. QED
      BY <3>2
  <2>3. CASE m.head + m.tiers[1] > w /\ m.head + m.tiers[2] > w /\ m.head + m.tiers[3] <= w
    <3>1. \A u \in 1..(3 - 1) : u = 1 \/ u = 2
      OBVIOUS
    <3>2. P(3)
      BY <2>3, <3>1
    <3>3. QED
      BY <3>2
  <2>4. CASE m.head + m.tiers[1] > w /\ m.head + m.tiers[2] > w /\ m.head + m.tiers[3] > w
    <3>1. \A u \in 1..(4 - 1) : u = 1 \/ u = 2 \/ u = 3
      OBVIOUS
    <3>2. P(4)
      BY <2>4, <3>1
    <3>3. QED
      BY <3>2
  <2>5. m.head \in Nat /\ m.tiers[1] \in Nat /\ m.tiers[2] \in Nat /\ m.tiers[3] \in Nat
    BY DEF Lengths
  <2>6. QED
    BY <2>1, <2>2, <2>3, <2>4, <2>5
<1>2. _fit_suffix(m, w) = CHOOSE t \in 1..4 : P(t)
  BY DEF _fit_suffix
<1>3. _fit_suffix(m, w) \in 1..4 /\ P(_fit_suffix(m, w))
  BY <1>1, <1>2
<1>4. QED
  BY <1>3

\* A longer row is given no wider a tier.
LEMMA FitNarrows ==
  ASSUME NEW m, Lengths(m), NEW n, Lengths(n), NEW w \in Nat, w > 0,
         m.head <= n.head, \A t \in 1..3 : m.tiers[t] <= n.tiers[t]
  PROVE  _fit_suffix(n, w) >= _fit_suffix(m, w)
<1> DEFINE s == _fit_suffix(m, w)
           t == _fit_suffix(n, w)
<1>1. s \in 1..4 /\ \A u \in 1..(s - 1) : m.head + m.tiers[u] > w
  BY FitFound
<1>2. t \in 1..4 /\ (t # 4 => n.head + n.tiers[t] <= w)
  BY FitFound
<1> HIDE DEF s, t
<1>3. SUFFICES ASSUME t < s
               PROVE  FALSE
  BY <1>1, <1>2 DEF s, t
<1>4. t \in 1..3 /\ t \in 1..(s - 1)
  BY <1>1, <1>2, <1>3
<1>5. /\ m.head + m.tiers[t] > w
      /\ n.head + n.tiers[t] <= w
      /\ m.tiers[t] <= n.tiers[t]
  BY <1>1, <1>2, <1>4
<1>6. m.tiers[t] \in Nat /\ n.tiers[t] \in Nat /\ m.head \in Nat /\ n.head \in Nat
  BY <1>4 DEF Lengths
<1>7. QED
  BY <1>5, <1>6

\* _stable_widths is the widest the row has been, this time included.
LEMMA Widest ==
  ASSUME NEW r, Lengths(rowWidths[r]), NEW shape, Lengths(shape)
  PROVE  LET n == _stable_widths(r, shape)
         IN  /\ Lengths(n)
             /\ rowWidths[r].head <= n.head /\ shape.head <= n.head
             /\ \A t \in 1..3 : rowWidths[r].tiers[t] <= n.tiers[t] /\ shape.tiers[t] <= n.tiers[t]
<1> DEFINE n == _stable_widths(r, shape)
<1>1. n.head = AtLeast(rowWidths[r].head, shape.head)
  BY DEF _stable_widths
<1>2. \A t \in 1..3 : n.tiers[t] = AtLeast(rowWidths[r].tiers[t], shape.tiers[t])
  BY DEF _stable_widths
<1> HIDE DEF n
<1>3. n.head \in Nat /\ rowWidths[r].head <= n.head /\ shape.head <= n.head
  BY <1>1 DEF AtLeast, Lengths
<1>4. ASSUME NEW t \in 1..3
      PROVE  n.tiers[t] \in Nat /\ rowWidths[r].tiers[t] <= n.tiers[t] /\ shape.tiers[t] <= n.tiers[t]
  BY <1>2 DEF AtLeast, Lengths
<1>5. QED
  BY <1>3, <1>4 DEF n, Lengths

RowKept(m, p) ==
  /\ Lengths(m)
  /\ p.width \in Nat
  /\ p.width > 0 => p.tier = _fit_suffix(m, p.width)
  /\ NotCut(p)

\* A row's width is never negative.
LEMMA WidthNat ==
  ASSUME NEW r \in Rows, laid.panel \in Nat
  PROVE  RowWidth(r, laid) \in Nat
<1>1. Frame \in Nat
  BY WidthsAssumption
<1>2. CellWidth(laid) \in Nat
  BY <1>1 DEF CellWidth, AtLeast
<1>3. AtLeast(0, laid.panel - Frame) \in Nat
  BY <1>1 DEF AtLeast
<1>4. QED
  BY <1>2, <1>3 DEF RowWidth, Rows

\* A painted row has the tier its widest lengths allow, and is not cut.
LEMMA PaintKept ==
  ASSUME NEW r \in Rows, laid.panel \in Nat, Lengths(rowWidths[r]), NEW shape, Lengths(shape),
         NEW frame, NEW glyph
  PROVE  RowKept(_stable_widths(r, shape), Paint(r, shape, frame, glyph))
<1> DEFINE n == _stable_widths(r, shape)
           w == RowWidth(r, laid)
           tier == _fit_suffix(n, w)
           suffix == IF tier = 4 THEN 0 ELSE shape.tiers[tier]
           room == AtMost(SparkMax, w - shape.head - 1 - suffix)
           spark == IF r = "power" /\ room >= SparkMin THEN room + 1 ELSE 0
           p == Paint(r, shape, frame, glyph)
<1>1. p = [frame |-> frame, width |-> w, glyph |-> glyph, tier |-> tier,
           head |-> shape.head, len |-> shape.head + spark + suffix]
  BY DEF Paint
<1>2. p.width = w /\ p.tier = tier /\ p.head = shape.head /\ p.len = shape.head + spark + suffix
  BY <1>1
<1>3. w \in Nat
  BY WidthNat
<1>4. /\ Lengths(n)
      /\ shape.head <= n.head
      /\ \A t \in 1..3 : shape.tiers[t] <= n.tiers[t]
  BY Widest
<1>5. ASSUME w > 0, shape.head <= w
      PROVE  shape.head + spark + suffix <= w
  <2>1. tier \in 1..4 /\ (tier # 4 => n.head + n.tiers[tier] <= w)
    BY <1>3, <1>4, <1>5, FitFound
  <2>2. shape.head \in Nat /\ n.head \in Nat
    BY <1>4 DEF Lengths
  <2> HIDE DEF n, w, tier
  <2>3. suffix \in Nat /\ shape.head + suffix <= w
    <3>1. CASE tier = 4
      BY <1>5, <2>2, <3>1
    <3>2. CASE tier # 4
      <4>1. tier \in 1..3
        BY <2>1, <3>2
      <4>2. shape.tiers[tier] \in Nat /\ n.tiers[tier] \in Nat /\ shape.tiers[tier] <= n.tiers[tier]
        BY <1>4, <4>1 DEF Lengths
      <4>3. QED
        BY <1>3, <1>4, <2>1, <2>2, <3>2, <4>2
    <3>3. QED
      BY <3>1, <3>2
  <2> HIDE DEF suffix
  <2>4. SparkMin \in Nat /\ SparkMax \in Nat
    BY WidthsAssumption
  <2>5. room \in Int /\ room <= w - shape.head - 1 - suffix
    BY <1>3, <2>2, <2>3, <2>4 DEF AtMost
  <2> HIDE DEF room
  <2>6. CASE spark = 0
    BY <1>3, <2>2, <2>3, <2>6
  <2>7. CASE spark = room + 1
    BY <1>3, <2>2, <2>3, <2>5, <2>7
  <2>8. QED
    BY <2>6, <2>7
<1> HIDE DEF n, w, tier, suffix, spark, p
<1>6. NotCut(p)
  BY <1>2, <1>5 DEF NotCut
<1>7. QED
  BY <1>2, <1>3, <1>4, <1>6 DEF RowKept, n, p, tier

Shaped(s) == s \in Shapes \cup {FirstShape}

\* What a row says has lengths.
LEMMA ShapedLengths == ASSUME NEW s, Shaped(s) PROVE Lengths(s)
  BY ShapesAssumption DEF Shaped, Lengths

RowsKept ==
  /\ terminal \in Nat
  /\ laid.panel \in Nat
  /\ Shaped(reading)
  /\ \A r \in Rows : RowKept(rowWidths[r], painted[r])

KeepsForm(p, q) == q.width = p.width /\ p.width > 0 => q.tier >= p.tier

\* Rows that are painted keep their form, and the others are left.
LEMMA RowsPainted ==
  ASSUME RowsKept, NEW rs, NEW shape, Shaped(shape), NEW frame, NEW glyph,
         PaintRows(rs, shape, frame, glyph)
  PROVE  \A r \in Rows : RowKept(rowWidths'[r], painted'[r]) /\ KeepsForm(painted[r], painted'[r])
<1> SUFFICES ASSUME NEW r \in Rows
             PROVE  RowKept(rowWidths'[r], painted'[r]) /\ KeepsForm(painted[r], painted'[r])
  OBVIOUS
<1>1. RowKept(rowWidths[r], painted[r]) /\ laid.panel \in Nat
  BY DEF RowsKept
<1>2. Lengths(rowWidths[r]) /\ Lengths(shape)
  BY <1>1, ShapedLengths DEF RowKept
<1>3. CASE r \in rs
  <2>1. painted'[r] = Paint(r, shape, frame, glyph) /\ rowWidths'[r] = _stable_widths(r, shape)
    BY <1>3 DEF PaintRows
  <2>2. RowKept(rowWidths'[r], painted'[r])
    BY <1>1, <1>2, <2>1, PaintKept
  <2>3. /\ Lengths(rowWidths'[r])
        /\ rowWidths[r].head <= rowWidths'[r].head
        /\ \A t \in 1..3 : rowWidths[r].tiers[t] <= rowWidths'[r].tiers[t]
    BY <1>2, <2>1, Widest
  <2>4. ASSUME painted'[r].width = painted[r].width, painted[r].width > 0
        PROVE  painted'[r].tier >= painted[r].tier
    <3>1. /\ painted[r].width \in Nat
          /\ painted[r].tier = _fit_suffix(rowWidths[r], painted[r].width)
          /\ painted'[r].tier = _fit_suffix(rowWidths'[r], painted[r].width)
      BY <1>1, <2>2, <2>4 DEF RowKept
    <3>2. _fit_suffix(rowWidths'[r], painted[r].width) >= _fit_suffix(rowWidths[r], painted[r].width)
      BY <1>2, <2>3, <2>4, <3>1, FitNarrows
    <3>3. QED
      BY <3>1, <3>2
  <2>5. QED
    BY <2>2, <2>4 DEF KeepsForm
<1>4. CASE r \notin rs
  <2>1. painted'[r] = painted[r] /\ rowWidths'[r] = rowWidths[r]
    BY <1>4 DEF PaintRows
  <2>2. ASSUME painted[r].width > 0
        PROVE  painted[r].tier \in 1..4
    BY <1>1, <2>2, FitFound DEF RowKept
  <2>3. QED
    BY <1>1, <2>1, <2>2 DEF KeepsForm
<1>5. QED
  BY <1>3, <1>4

\* A frame keeps the form of its rows.
LEMMA FrameForm ==
  ASSUME RowsKept, NEW shape \in Shapes, NEW net, update_metrics(shape, net),
         UNCHANGED <<terminal, laid>>
  PROVE  RowsKept' /\ \A r \in Rows : KeepsForm(painted[r], painted'[r])
<1>1. Shaped(shape) /\ reading' = shape /\ PaintRows(RowsOf(net), shape, frames', chartGlyph)
  BY DEF update_metrics, Shaped
<1>2. \A r \in Rows : RowKept(rowWidths'[r], painted'[r]) /\ KeepsForm(painted[r], painted'[r])
  BY <1>1, RowsPainted
<1>3. QED
  BY <1>1, <1>2 DEF RowsKept

\* A repaint of the power row keeps its form.
LEMMA PowerForm ==
  ASSUME RowsKept, NEW glyph, _render_power_rows(glyph), UNCHANGED <<terminal, laid>>
  PROVE  RowsKept' /\ \A r \in Rows : KeepsForm(painted[r], painted'[r])
<1>1. Shaped(reading) /\ reading' = reading /\ PaintRows({"power"}, reading, frames, glyph)
  BY DEF _render_power_rows, RowsKept
<1>2. \A r \in Rows : RowKept(rowWidths'[r], painted'[r]) /\ KeepsForm(painted[r], painted'[r])
  BY <1>1, RowsPainted
<1>3. QED
  BY <1>1, <1>2 DEF RowsKept

\* A step that paints no row keeps their form.
LEMMA RestForm ==
  ASSUME RowsKept, UNCHANGED rowVars, terminal' \in Nat, laid'.panel \in Nat
  PROVE  RowsKept' /\ \A r \in Rows : KeepsForm(painted[r], painted'[r])
<1>1. ASSUME NEW r \in Rows
      PROVE  KeepsForm(painted[r], painted[r])
  <2>1. RowKept(rowWidths[r], painted[r])
    BY DEF RowsKept
  <2>2. ASSUME painted[r].width > 0
        PROVE  painted[r].tier \in 1..4
    BY <2>1, <2>2, FitFound DEF RowKept
  <2>3. QED
    BY <2>2 DEF KeepsForm
<1>2. QED
  BY <1>1 DEF RowsKept, rowVars

\* Every step of the dashboard keeps the form of the rows.
LEMMA FormStep ==
  RowsKept /\ [ScreenNext]_<<showProcesses, screenVars>>
    => RowsKept' /\ \A r \in Rows : KeepsForm(painted[r], painted'[r])
<1> SUFFICES ASSUME RowsKept, [ScreenNext]_<<showProcesses, screenVars>>
             PROVE  RowsKept' /\ \A r \in Rows : KeepsForm(painted[r], painted'[r])
  OBVIOUS
<1>1. terminal \in Nat /\ laid.panel \in Nat
  BY DEF RowsKept
<1>2. CASE FrameArrives
  <2>1. UNCHANGED <<terminal, laid>>
    BY <1>2 DEF FrameArrives, inputs
  <2>2. QED
    BY <1>1, <1>2, <2>1, FrameForm, RestForm DEF FrameArrives, on_metrics_updated
<1>3. CASE Layout
  <2>1. PanelWidth \in Nat
    BY <1>1, WidthsAssumption DEF PanelWidth, AtLeast
  <2>2. laid'.panel \in Nat /\ UNCHANGED <<terminal, rowVars>>
    BY <1>3, <2>1 DEF Layout, inputs
  <2>3. QED
    BY <1>1, <2>2, RestForm
<1>4. CASE on_resize \/ action_toggle_processes \/ UNCHANGED <<showProcesses, screenVars>>
  BY <1>1, <1>4, RestForm DEF on_resize, action_toggle_processes, inputs, screenVars, rowVars
<1>5. CASE TerminalResizes
  BY <1>1, <1>5, WidthsAssumption, RestForm DEF TerminalResizes
<1>6. CASE \E c \in {"rows", "cores", "paint"} : RunCallback(c)
  <2>1. UNCHANGED <<terminal, laid>>
    BY <1>6 DEF RunCallback, inputs
  <2>2. QED
    BY <1>1, <1>6, <2>1, FrameForm, PowerForm, RestForm DEF RunCallback
<1>7. CASE DashboardKey
  <2>1. UNCHANGED <<terminal, laid>>
    BY <1>7 DEF DashboardKey
  <2>2. CASE action_cycle_layout \/ action_toggle_cores
    BY <1>1, <2>1, <2>2, RestForm
       DEF action_cycle_layout, action_toggle_cores, set_layout_preset, set_show_cores
  <2>3. CASE action_toggle_chart_glyph
    BY <2>1, <2>3, PowerForm DEF action_toggle_chart_glyph, set_chart_glyph
  <2>4. QED
    BY <1>7, <2>2, <2>3 DEF DashboardKey
<1>8. QED
  BY <1>2, <1>3, <1>4, <1>5, <1>6, <1>7 DEF ScreenNext

\* Before the first layout no row has a width.
LEMMA InitForm == ScreenInit => RowsKept
<1> SUFFICES ASSUME ScreenInit
             PROVE  RowsKept
  OBVIOUS
<1>1. ASSUME NEW r \in Rows
      PROVE  RowKept(rowWidths[r], painted[r])
  <2>1. rowWidths[r] = [head |-> 0, tiers |-> <<0, 0, 0>>]
    BY DEF ScreenInit
  <2>2. Lengths(rowWidths[r])
    BY <2>1 DEF Lengths
  <2>3. painted[r].width = 0
    BY DEF ScreenInit
  <2>4. QED
    BY <2>2, <2>3 DEF RowKept, NotCut
<1>2. QED
  BY <1>1, WidthsAssumption DEF ScreenInit, RowsKept, Shaped

\* A row painted again at the width it has keeps its form or takes a narrower one, and its
\* reading is never cut for the sake of the annotation (_stable_widths, widgets.py:1536-1555;
\* _fit_suffix, lines 528-552).
THEOREM FormAlwaysHolds == ScreenSpec => FormHolds
<1>1. ScreenInit => RowsKept
  BY InitForm
<1>2. RowsKept /\ [ScreenNext]_<<showProcesses, screenVars>> => RowsKept'
  BY FormStep
<1>3. RowsKept /\ [ScreenNext]_<<showProcesses, screenVars>>
        => [\A r \in Rows :
              /\ painted'[r].width = painted[r].width /\ painted[r].width > 0
                   => painted'[r].tier >= painted[r].tier
              /\ NotCut(painted'[r])]_painted
  <2> SUFFICES ASSUME RowsKept, [ScreenNext]_<<showProcesses, screenVars>>, NEW r \in Rows
               PROVE  /\ painted'[r].width = painted[r].width /\ painted[r].width > 0
                           => painted'[r].tier >= painted[r].tier
                      /\ NotCut(painted'[r])
    OBVIOUS
  <2>1. RowKept(rowWidths'[r], painted'[r]) /\ KeepsForm(painted[r], painted'[r])
    BY FormStep DEF RowsKept
  <2>2. QED
    BY <2>1 DEF RowKept, KeepsForm
<1>4. QED
  BY <1>1, <1>2, <1>3, PTL DEF ScreenSpec, FormHolds

-----------------------------------------------------------------------------
(* The filter editor.                                                      *)

Fields == Texts \cup {Blank}

Pressed == {"edit", "enter", "escape", "tab", "/", "p"}

Messages ==
  {Editor!Key(k) : k \in Pressed} \cup {Editor!Returned(k) : k \in {"escape", "tab"}}
    \cup {Editor!Changed(v) : v \in Fields} \cup {Editor!Submitted(v) : v \in Fields}

\* A message that carries the text of the field.
Tells(m) == m.kind \in {"changed", "submitted"}

Told(q) == \E i \in 1..Len(q) : Tells(q[i])

\* The last of those in a queue carries text v.
LastIs(q, v) ==
  \A i \in 1..Len(q) : Tells(q[i]) /\ (\A j \in (i + 1)..Len(q) : ~Tells(q[j])) => q[i].text = v

\* A filter that is the one a text asks for.
Agrees(text, regex) == text \notin Invalid => regex = Editor!Asked(text)

\* The kinds of the messages tell them apart.
LEMMA MessageKinds ==
  /\ \A k \in Pressed : Editor!Key(k) \in Messages /\ Editor!Key(k).kind = k /\ ~Tells(Editor!Key(k))
  /\ \A k \in {"escape", "tab"} : /\ Editor!Returned(k) \in Messages /\ ~Tells(Editor!Returned(k))
                                  /\ Editor!Returned(k).kind = "returned"
  /\ \A v \in Fields : /\ Editor!Changed(v) \in Messages /\ Tells(Editor!Changed(v)) /\ Editor!Changed(v).text = v
                       /\ Editor!Changed(v).kind = "changed"
                       /\ Editor!Submitted(v) \in Messages /\ Tells(Editor!Submitted(v)) /\ Editor!Submitted(v).text = v
                       /\ Editor!Submitted(v).kind = "submitted"
  BY DEF Messages, Pressed, Editor!Key, Editor!Returned, Editor!Changed, Editor!Submitted, Tells

\* The text of a message that tells one is a text of the field.
LEMMA ToldText == \A m \in Messages : Tells(m) => m.text \in Fields
  BY DEF Messages, Pressed, Editor!Key, Editor!Returned, Editor!Changed, Editor!Submitted, Tells

\* What a queue says after one more message.
LEMMA Appended ==
  ASSUME NEW q \in Seq(Messages), NEW m \in Messages
  PROVE  /\ Append(q, m) \in Seq(Messages)
         /\ ~Tells(m) => /\ Told(Append(q, m)) <=> Told(q)
                         /\ \A v : LastIs(q, v) => LastIs(Append(q, m), v)
         /\ Tells(m) => Told(Append(q, m)) /\ LastIs(Append(q, m), m.text)
<1> DEFINE p == Append(q, m)
<1>1. /\ p \in Seq(Messages) /\ Len(p) = Len(q) + 1 /\ Len(q) \in Nat
      /\ \A i \in 1..Len(q) : p[i] = q[i]
      /\ p[Len(q) + 1] = m
  BY AppendProperties
<1> HIDE DEF p
<1>2. \A i \in 1..Len(p) : i \in 1..Len(q) \/ i = Len(q) + 1
  BY <1>1
<1>3. ASSUME ~Tells(m)
      PROVE  (Told(p) <=> Told(q)) /\ \A v : LastIs(q, v) => LastIs(p, v)
  <2>1. Told(p) <=> Told(q)
    BY <1>1, <1>2, <1>3 DEF Told
  <2>2. ASSUME NEW v, LastIs(q, v), NEW i \in 1..Len(p), Tells(p[i]),
               \A j \in (i + 1)..Len(p) : ~Tells(p[j])
        PROVE  p[i].text = v
    <3>1. i \in 1..Len(q) /\ p[i] = q[i]
      BY <1>1, <1>2, <1>3, <2>2
    <3>2. ASSUME NEW j \in (i + 1)..Len(q) PROVE ~Tells(q[j])
      <4>1. j \in (i + 1)..Len(p) /\ j \in 1..Len(q)
        BY <1>1, <3>1
      <4>2. QED
        BY <1>1, <2>2, <4>1
    <3>3. QED
      BY <2>2, <3>1, <3>2 DEF LastIs
  <2>3. QED
    BY <2>1, <2>2 DEF LastIs
<1>4. ASSUME Tells(m)
      PROVE  Told(p) /\ LastIs(p, m.text)
  <2>1. Len(q) + 1 \in 1..Len(p)
    BY <1>1
  <2>2. Told(p)
    BY <1>1, <1>4, <2>1 DEF Told
  <2>3. ASSUME NEW i \in 1..Len(p), \A j \in (i + 1)..Len(p) : ~Tells(p[j])
        PROVE  p[i].text = m.text
    <3>1. i = Len(q) + 1
      <4>1. SUFFICES ASSUME i # Len(q) + 1 PROVE FALSE
        OBVIOUS
      <4>2. Len(q) + 1 \in (i + 1)..Len(p)
        BY <1>1, <4>1
      <4>3. QED
        BY <1>1, <1>4, <2>3, <4>2
    <3>2. QED
      BY <1>1, <3>1
  <2>4. QED
    BY <2>2, <2>3 DEF LastIs
<1>5. QED
  BY <1>1, <1>3, <1>4 DEF p

\* What a queue says without its first message.
LEMMA Taken ==
  ASSUME NEW q \in Seq(Messages), q # <<>>
  PROVE  /\ Head(q) \in Messages /\ Tail(q) \in Seq(Messages)
         /\ \A v : LastIs(q, v) => LastIs(Tail(q), v)
         /\ Told(Tail(q)) => Told(q)
         /\ ~Tells(Head(q)) /\ Told(q) => Told(Tail(q))
         /\ Tells(Head(q)) => Told(q)
         /\ Tells(Head(q)) /\ ~Told(Tail(q)) => \A v : LastIs(q, v) => Head(q).text = v
<1> DEFINE t == Tail(q)
<1>1. /\ Len(q) \in Nat /\ Len(q) > 0 /\ Head(q) = q[1] /\ Head(q) \in Messages
      /\ t \in Seq(Messages) /\ Len(t) = Len(q) - 1
      /\ \A i \in 1..Len(t) : t[i] = q[i + 1]
  <2>1. Len(q) \in Nat /\ Len(q) > 0 /\ Head(q) = q[1]
    BY EmptySeq
  <2>2. /\ Head(q) \in Messages /\ t \in Seq(Messages) /\ Len(t) = Len(q) - 1
        /\ \A i \in 1..Len(t) : t[i] = q[i + 1]
    BY HeadTailProperties
  <2>3. QED
    BY <2>1, <2>2
<1> HIDE DEF t
<1>2. /\ \A i \in 1..Len(t) : i + 1 \in 1..Len(q)
      /\ \A i \in 1..Len(q) : i = 1 \/ (i - 1 \in 1..Len(t) /\ t[i - 1] = q[i])
      /\ 1 \in 1..Len(q)
  BY <1>1
<1>3. ASSUME NEW v, LastIs(q, v), NEW i \in 1..Len(t), Tells(t[i]),
             \A j \in (i + 1)..Len(t) : ~Tells(t[j])
      PROVE  t[i].text = v
  <2>1. i + 1 \in 1..Len(q) /\ t[i] = q[i + 1]
    BY <1>1, <1>2
  <2>2. ASSUME NEW j \in ((i + 1) + 1)..Len(q) PROVE ~Tells(q[j])
    <3>1. j - 1 \in (i + 1)..Len(t) /\ j \in 1..Len(q) /\ j # 1
      BY <1>1
    <3>2. QED
      BY <1>2, <1>3, <3>1
  <2>3. QED
    BY <1>3, <2>1, <2>2 DEF LastIs
<1>4. ASSUME Tells(Head(q)), ~Told(t), NEW v, LastIs(q, v)
      PROVE  Head(q).text = v
  <2>1. ASSUME NEW j \in (1 + 1)..Len(q) PROVE ~Tells(q[j])
    <3>1. j \in 1..Len(q) /\ j # 1
      BY <1>1
    <3>2. QED
      BY <1>2, <1>4, <3>1 DEF Told
  <2>2. QED
    BY <1>1, <1>2, <1>4, <2>1 DEF LastIs
<1>5. /\ Told(t) => Told(q)
      /\ ~Tells(Head(q)) /\ Told(q) => Told(t)
      /\ Tells(Head(q)) => Told(q)
  BY <1>1, <1>2 DEF Told
<1>6. QED
  BY <1>1, <1>3, <1>4, <1>5 DEF t, LastIs

\* What the proofs of single steps use of the two queues: the last message that tells a
\* text tells the field's, and when none does, ok holds.
Pending(aq, iq, text, ok) ==
  /\ aq \in Seq(Messages) /\ iq \in Seq(Messages)
  /\ LastIs(iq, text)
  /\ ~Told(iq) => LastIs(aq, text)
  /\ ~Told(iq) /\ ~Told(aq) => ok

\* A key that goes out of the application's queue leaves what is pending as it was.
LEMMA KeyTaken ==
  ASSUME NEW aq, NEW iq, NEW text, NEW ok, Pending(aq, iq, text, ok),
         aq # <<>>, ~Tells(Head(aq))
  PROVE  Pending(Tail(aq), iq, text, ok) /\ Head(aq) \in Messages
<1>1. /\ Tail(aq) \in Seq(Messages) /\ (Told(Tail(aq)) <=> Told(aq)) /\ Head(aq) \in Messages
      /\ LastIs(aq, text) => LastIs(Tail(aq), text)
  BY Taken DEF Pending
<1>2. QED
  BY <1>1 DEF Pending

\* A key behind the others in the application's queue.
LEMMA KeyPressed ==
  ASSUME NEW aq, NEW iq, NEW text, NEW ok, Pending(aq, iq, text, ok),
         NEW m \in Messages, ~Tells(m)
  PROVE  Pending(Append(aq, m), iq, text, ok)
<1>1. /\ Append(aq, m) \in Seq(Messages) /\ (Told(Append(aq, m)) <=> Told(aq))
      /\ LastIs(aq, text) => LastIs(Append(aq, m), text)
  BY Appended DEF Pending
<1>2. QED
  BY <1>1 DEF Pending

\* A key behind the others in the Input's queue.
LEMMA KeyForwarded ==
  ASSUME NEW aq, NEW iq, NEW text, NEW ok, Pending(aq, iq, text, ok),
         NEW m \in Messages, ~Tells(m)
  PROVE  Pending(aq, Append(iq, m), text, ok)
<1>1. /\ Append(iq, m) \in Seq(Messages) /\ (Told(Append(iq, m)) <=> Told(iq))
      /\ LastIs(iq, text) => LastIs(Append(iq, m), text)
  BY Appended DEF Pending
<1>2. QED
  BY <1>1 DEF Pending

\* The Input tells of its text: whatever holds now, the message decides.
LEMMA TextTold ==
  ASSUME NEW aq, NEW iq, aq \in Seq(Messages), iq \in Seq(Messages),
         NEW m \in Messages, Tells(m), NEW ok
  PROVE  Pending(aq, Append(iq, m), m.text, ok)
<1>1. /\ Append(iq, m) \in Seq(Messages) /\ Told(Append(iq, m)) /\ LastIs(Append(iq, m), m.text)
  BY Appended
<1>2. QED
  BY <1>1 DEF Pending

\* What the Input is done with goes out of its queue, be it on to the application.
LEMMA InputTaken ==
  ASSUME NEW aq, NEW iq, NEW text, NEW ok, Pending(aq, iq, text, ok),
         iq # <<>>, ~Tells(Head(iq))
  PROVE  Pending(aq, Tail(iq), text, ok) /\ Tail(iq) \in Seq(Messages)
<1>1. /\ Tail(iq) \in Seq(Messages) /\ (Told(Tail(iq)) <=> Told(iq))
      /\ LastIs(Tail(iq), text)
  BY Taken DEF Pending
<1>2. QED
  BY <1>1 DEF Pending

\* The Input hands a text on to the application.
LEMMA TextBubbles ==
  ASSUME NEW aq, NEW iq, NEW text, NEW ok, Pending(aq, iq, text, ok),
         iq # <<>>, Tells(Head(iq))
  PROVE  Pending(Append(aq, Head(iq)), Tail(iq), text, ok)
<1>1. /\ Tail(iq) \in Seq(Messages) /\ Head(iq) \in Messages
      /\ LastIs(Tail(iq), text)
      /\ ~Told(Tail(iq)) => Head(iq).text = text
  BY Taken DEF Pending
<1>2. /\ Append(aq, Head(iq)) \in Seq(Messages) /\ Told(Append(aq, Head(iq)))
      /\ LastIs(Append(aq, Head(iq)), Head(iq).text)
  BY <1>1, Appended DEF Pending
<1>3. QED
  BY <1>1, <1>2 DEF Pending

\* The application takes a message with a text: either another one is on its way, or
\* it is the text of the field.
LEMMA TextTaken ==
  ASSUME NEW aq, NEW iq, NEW text, NEW ok, Pending(aq, iq, text, ok),
         aq # <<>>, Tells(Head(aq)), NEW then, Head(aq).text = text => then
  PROVE  Pending(Tail(aq), iq, text, then)
<1>1. /\ Tail(aq) \in Seq(Messages) /\ Told(aq)
      /\ LastIs(aq, text) => LastIs(Tail(aq), text)
      /\ ~Told(Tail(aq)) /\ LastIs(aq, text) => Head(aq).text = text
  BY Taken DEF Pending
<1>2. QED
  BY <1>1 DEF Pending

\* A filter that is compiled is the one its text asks for.
LEMMA CompiledAgrees == \A text : Agrees(text, Editor!Compiled(text))
  BY DEF Agrees, Editor!Compiled

-----------------------------------------------------------------------------
\* The filter is the one the field's text asks for, unless a hasty edit was cancelled.
Follows == cancelled # "hasty" => Agrees(value, filter)

\* Until it is handled, what waits in the queues says what the field says; the filter an
\* edit goes back to is the one its text asks for, unless the field was opened in haste.
EInv ==
  /\ Pending(appQueue, inputQueue, value, Follows)
  /\ value \in Fields /\ before.text \in Fields
  /\ ~hasty => Agrees(before.text, before.filter)

\* The application takes a key.
LEMMA AppTakesKey ==
  ASSUME EInv, NEW k \in Pressed, Editor!AppKey(k)
  PROVE  /\ Pending(appQueue', inputQueue, value, Follows)
         /\ Told(appQueue') <=> Told(appQueue)
<1>1. /\ appQueue # <<>> /\ appQueue' = Tail(appQueue)
      /\ Head(appQueue) = Editor!Key(k) \/ Head(appQueue) = Editor!Returned(k)
  BY DEF Editor!AppKey
<1>2. ~Tells(Head(appQueue))
  BY <1>1 DEF Tells, Editor!Key, Editor!Returned, Pressed
<1>3. Pending(Tail(appQueue), inputQueue, value, Follows)
  BY <1>1, <1>2, KeyTaken DEF EInv
<1>4. Told(Tail(appQueue)) <=> Told(appQueue)
  BY <1>1, <1>2, Taken DEF EInv, Pending
<1>5. QED
  BY <1>1, <1>3, <1>4

\* Empty queues tell nothing.
LEMMA NothingPending == ~Told(<<>>) /\ \A v : LastIs(<<>>, v)
  BY EmptySeq DEF Told, LastIs

\* A key the user presses.
LEMMA PressStep == ASSUME EInv, Editor!Press PROVE EInv'
<1>1. PICK k \in Pressed : appQueue' = Append(appQueue, Editor!Key(k))
  BY DEF Editor!Press, Pressed
<1>2. /\ value' = value /\ filter' = filter /\ before' = before /\ inputQueue' = inputQueue
      /\ hasty' = hasty /\ cancelled' = cancelled
  BY DEF Editor!Press, Editor!ghosts
<1>3. Editor!Key(k) \in Messages /\ ~Tells(Editor!Key(k))
  BY MessageKinds
<1>4. Pending(appQueue', inputQueue, value, Follows)
  BY <1>1, <1>3, KeyPressed DEF EInv
<1>5. QED
  BY <1>2, <1>4 DEF EInv, Follows

\* The application gives a key to the focused Input.
LEMMA ForwardStep == ASSUME EInv, Editor!Forward PROVE EInv'
<1>1. /\ appQueue # <<>> /\ Head(appQueue).kind \in Pressed
      /\ appQueue' = Tail(appQueue) /\ inputQueue' = Append(inputQueue, Head(appQueue))
      /\ value' = value /\ filter' = filter /\ before' = before
      /\ hasty' = hasty /\ cancelled' = cancelled
  BY DEF Editor!Forward, Pressed, Editor!ghosts
<1>2. ~Tells(Head(appQueue))
  BY <1>1 DEF Tells, Pressed
<1>3. Pending(appQueue', inputQueue, value, Follows) /\ Head(appQueue) \in Messages
  BY <1>1, <1>2, KeyTaken DEF EInv
<1>4. Pending(appQueue', inputQueue', value, Follows)
  BY <1>1, <1>2, <1>3, KeyForwarded
<1>5. QED
  BY <1>1, <1>4 DEF EInv, Follows

\* What the Input does with a key.
LEMMA InputSteps == ASSUME EInv, Editor!InputTypes \/ Editor!InputSubmits \/ Editor!Bubble PROVE EInv'
<1>1. /\ inputQueue # <<>> /\ filter' = filter /\ before' = before /\ hasty' = hasty
      /\ appQueue \in Seq(Messages) /\ inputQueue \in Seq(Messages)
      /\ Head(inputQueue) \in Messages /\ Tail(inputQueue) \in Seq(Messages)
  BY Taken DEF Editor!InputTypes, Editor!InputSubmits, Editor!Bubble, EInv, Pending, Editor!ghosts
<1>2. CASE Editor!InputTypes
  <2>1. PICK w \in Texts : value' = w /\ inputQueue' = Append(Tail(inputQueue), Editor!Changed(w))
    BY <1>2 DEF Editor!InputTypes
  <2>2. w \in Fields /\ appQueue' = appQueue
    BY <1>2 DEF Editor!InputTypes, Fields
  <2>3. Editor!Changed(w) \in Messages /\ Tells(Editor!Changed(w)) /\ Editor!Changed(w).text = w
    BY <2>2, MessageKinds
  <2>4. Pending(appQueue, inputQueue', Editor!Changed(w).text, Follows')
    BY <1>1, <2>1, <2>3, TextTold
  <2>5. QED
    BY <1>1, <2>1, <2>2, <2>3, <2>4 DEF EInv
<1>3. CASE Editor!InputSubmits
  <2>1. /\ value' = value /\ appQueue' = appQueue
        /\ inputQueue' = Append(Tail(inputQueue), Editor!Submitted(value))
    BY <1>3 DEF Editor!InputSubmits
  <2>2. Editor!Submitted(value) \in Messages /\ Tells(Editor!Submitted(value)) /\ Editor!Submitted(value).text = value
    BY MessageKinds DEF EInv
  <2>3. Pending(appQueue, inputQueue', Editor!Submitted(value).text, Follows')
    BY <1>1, <2>1, <2>2, TextTold
  <2>4. QED
    BY <1>1, <2>1, <2>2, <2>3 DEF EInv
<1>4. CASE Editor!Bubble
  <2> DEFINE m == Head(inputQueue)
             up == IF m.kind \in {"escape", "tab"} THEN Editor!Returned(m.kind) ELSE m
  <2>1. /\ value' = value /\ inputQueue' = Tail(inputQueue) /\ appQueue' = Append(appQueue, up)
        /\ m.kind \in {"escape", "tab", "changed", "submitted"}
        /\ cancelled' = cancelled
    BY <1>4 DEF Editor!Bubble, Editor!ghosts
  <2>2. CASE m.kind \in {"escape", "tab"}
    <3>1. up \in Messages /\ ~Tells(up) /\ ~Tells(m)
      BY <2>2, MessageKinds DEF Tells
    <3>2. Pending(appQueue, Tail(inputQueue), value, Follows)
      BY <1>1, <3>1, InputTaken DEF EInv
    <3> HIDE DEF up
    <3>3. Pending(Append(appQueue, up), Tail(inputQueue), value, Follows)
      BY <3>1, <3>2, KeyPressed
    <3>4. QED
      BY <1>1, <2>1, <3>3 DEF EInv, Follows
  <2>3. CASE m.kind \in {"changed", "submitted"}
    <3>1. up = m /\ Tells(m)
      BY <2>3 DEF Tells
    <3>2. Pending(Append(appQueue, m), Tail(inputQueue), value, Follows)
      BY <1>1, <3>1, TextBubbles DEF EInv
    <3>3. QED
      BY <1>1, <2>1, <3>1, <3>2 DEF EInv, Follows
  <2>4. QED
    BY <2>1, <2>2, <2>3
<1>5. QED
  BY <1>2, <1>3, <1>4

\* Escape takes the edit back.
LEMMA CancelStep == ASSUME EInv, Editor!action_cancel_filter PROVE EInv'
<1>1. /\ before' = before /\ hasty' = hasty
      /\ Pending(appQueue', inputQueue, value, Follows)
  <2>1. Editor!AppKey("escape") /\ before' = before /\ hasty' = hasty /\ "escape" \in Pressed
    BY DEF Editor!action_cancel_filter, Pressed
  <2>2. QED
    BY <2>1, AppTakesKey
<1>2. CASE UNCHANGED <<value, filter, inputQueue, cancelled>>
  BY <1>1, <1>2 DEF EInv, Follows
<1>3. CASE display /\ value # before.text
  <2>1. value' = before.text /\ inputQueue' = Append(inputQueue, Editor!Changed(before.text))
    BY <1>3 DEF Editor!action_cancel_filter
  <2>2. /\ Editor!Changed(before.text) \in Messages /\ Tells(Editor!Changed(before.text))
        /\ Editor!Changed(before.text).text = before.text
    BY MessageKinds DEF EInv
  <2>3. appQueue' \in Seq(Messages) /\ inputQueue \in Seq(Messages)
    BY <1>1 DEF Pending
  <2>4. Pending(appQueue', inputQueue', Editor!Changed(before.text).text, Follows')
    BY <2>1, <2>2, <2>3, TextTold
  <2>5. QED
    BY <1>1, <2>1, <2>2, <2>4 DEF EInv
<1>4. CASE display /\ value = before.text
  <2>1. /\ value' = value /\ filter' = before.filter /\ inputQueue' = inputQueue
        /\ cancelled' = IF hasty THEN "hasty" ELSE "calm"
    BY <1>4 DEF Editor!action_cancel_filter
  <2>2. Follows'
    BY <1>4, <2>1 DEF EInv, Follows
  <2>3. Pending(appQueue', inputQueue, value, Follows')
    BY <1>1, <2>2 DEF Pending
  <2>4. QED
    BY <1>1, <2>1, <2>3 DEF EInv
<1>5. QED
  BY <1>2, <1>3, <1>4 DEF Editor!action_cancel_filter

\* The key that opens or closes the field: with nothing waiting, the filter saved is the
\* one the text asks for.
LEMMA ToggleStep == ASSUME EInv, Editor!action_toggle_filter PROVE EInv'
<1>1. Editor!AppKey("/") /\ "/" \in Pressed
  BY DEF Editor!action_toggle_filter, Pressed
<1>2. Pending(appQueue', inputQueue, value, Follows)
  BY <1>1, AppTakesKey
<1>3. value' = value /\ filter' = filter /\ inputQueue' = inputQueue /\ cancelled' = cancelled
  BY DEF Editor!action_toggle_filter
<1>4. before'.text \in Fields /\ (~hasty' => Agrees(before'.text, before'.filter))
  <2>1. CASE UNCHANGED <<before, hasty>>
    BY <2>1 DEF EInv
  <2>2. CASE /\ before' = [filter |-> filter, text |-> value]
             /\ hasty' = (\/ Editor!Telling(appQueue) \/ Editor!Telling(inputQueue)
                          \/ cancelled = "hasty")
    <3>1. ~hasty' => ~Told(appQueue) /\ ~Told(inputQueue) /\ cancelled # "hasty"
      BY <2>2 DEF Editor!Telling, Told, Tells
    <3>2. ~hasty' => Agrees(value, filter)
      BY <3>1 DEF EInv, Pending, Follows
    <3>3. QED
      BY <2>2, <3>2 DEF EInv
  <2>3. QED
    BY <2>1, <2>2 DEF Editor!action_toggle_filter
<1>5. QED
  BY <1>2, <1>3, <1>4 DEF EInv, Follows, Agrees

\* The other keys of the application.
LEMMA AppSteps ==
  ASSUME EInv, Editor!action_toggle_processes \/ Editor!FocusNext \/ Editor!OtherKey
  PROVE  EInv'
<1>1. PICK k \in Pressed : Editor!AppKey(k)
  BY DEF Editor!action_toggle_processes, Editor!FocusNext, Editor!OtherKey, Pressed
<1>2. Pending(appQueue', inputQueue, value, Follows)
  BY <1>1, AppTakesKey
<1>3. /\ value' = value /\ filter' = filter /\ inputQueue' = inputQueue /\ before' = before
      /\ hasty' = hasty /\ cancelled' = cancelled
  BY DEF Editor!action_toggle_processes, Editor!FocusNext, Editor!OtherKey, Editor!ghosts
<1>4. QED
  BY <1>2, <1>3 DEF EInv, Follows

\* What the Input told arrives.
LEMMA TextSteps == ASSUME EInv, Editor!on_input_submitted \/ Editor!on_input_changed PROVE EInv'
<1>1. /\ appQueue # <<>> /\ Tells(Head(appQueue)) /\ appQueue' = Tail(appQueue)
      /\ filter' = Editor!Compiled(Head(appQueue).text)
      /\ value' = value /\ before' = before /\ inputQueue' = inputQueue
      /\ hasty' = hasty /\ cancelled' = cancelled
  BY DEF Editor!on_input_submitted, Editor!on_input_changed, Tells, Editor!ghosts
<1>2. Head(appQueue).text = value => Follows'
  BY <1>1, CompiledAgrees DEF Follows
<1>3. Pending(Tail(appQueue), inputQueue, value, Follows')
  BY <1>1, <1>2, TextTaken DEF EInv
<1>4. QED
  BY <1>1, <1>3 DEF EInv

\* Every step of the editor keeps what is pending in agreement with the field.
LEMMA EditorStep == EInv /\ [Editor!EditorNext]_<<showProcesses, Editor!editorVars>> => EInv'
<1> SUFFICES ASSUME EInv, [Editor!EditorNext]_<<showProcesses, Editor!editorVars>> PROVE EInv'
  OBVIOUS
<1>1. CASE Editor!EditorNext
  BY <1>1, PressStep, ForwardStep, InputSteps, CancelStep, ToggleStep, AppSteps, TextSteps
     DEF Editor!EditorNext
<1>2. CASE UNCHANGED <<showProcesses, Editor!editorVars>>
  <2>1. /\ appQueue' = appQueue /\ inputQueue' = inputQueue /\ value' = value
        /\ filter' = filter /\ before' = before /\ hasty' = hasty /\ cancelled' = cancelled
    BY <1>2 DEF Editor!editorVars, Editor!ghosts
  <2>2. QED
    BY <2>1 DEF EInv, Follows
<1>3. QED
  BY <1>1, <1>2

\* Once the queues are empty, the filter of the pollers is the one the text of the field
\* asks for, in every order of the keys and of the two queues, unless that text does not
\* compile or an edit was taken back in a field that was opened while a message waited
\* (action_toggle_filter to on_input_changed, app.py:533-580).
THEOREM FilterAlwaysAgrees == Editor!EditorSpec => []FilterAgrees
<1>1. Editor!EditorInit => EInv
  <2> SUFFICES ASSUME Editor!EditorInit PROVE EInv
    OBVIOUS
  <2>1. /\ value = Blank /\ filter = ConfigPattern
        /\ before = [filter |-> ConfigPattern, text |-> Blank]
        /\ appQueue = <<>> /\ inputQueue = <<>>
    BY DEF Editor!EditorInit
  <2>2. appQueue \in Seq(Messages) /\ inputQueue \in Seq(Messages)
    BY <2>1, EmptySeq
  <2>3. Agrees(value, filter) /\ Agrees(before.text, before.filter)
    BY <2>1 DEF Agrees, Editor!Asked
  <2>4. QED
    BY <2>1, <2>2, <2>3, NothingPending DEF EInv, Pending, Follows, Fields
<1>2. EInv => FilterAgrees
  BY NothingPending DEF EInv, Pending, Follows, FilterAgrees, Editor!FilterAgrees, Editor!Quiet, Agrees
<1>3. QED
  BY <1>1, <1>2, EditorStep, PTL DEF Editor!EditorSpec
=============================================================================
