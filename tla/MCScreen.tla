------------------------------ MODULE MCScreen ------------------------------
(***************************************************************************)
(* The screen and the filter editor for TLC.  They share nothing but the   *)
(* switch of the process table, so each is explored from every start while *)
(* the other rests, and the product of the two is left out.                *)
(***************************************************************************)
EXTENDS Screen

CONSTANTS Texts, Blank, Edits, Invalid, ConfigPattern, MaxKeys
VARIABLES display, value, focused, filter, before, appQueue, inputQueue, keys, hasty, cancelled

editorVars == <<display, value, focused, filter, before, appQueue, inputQueue, keys, hasty, cancelled>>

Editor == INSTANCE FilterEditor

\* "(" does not compile; what it takes to make it compile is one key.
TheEdits ==
  LET longer == {<<"", "z">>, <<"", "(">>, <<"(", "()">>}
  IN  longer \cup {<<e[2], e[1]>> : e \in longer}

\* A small draw, one with a digit more, and a small one again once the peak has the digit.
TheShapes ==
  {[head |-> 9, tiers |-> <<21, 12, 7>>], [head |-> 10, tiers |-> <<23, 14, 8>>],
   [head |-> 9, tiers |-> <<22, 13, 8>>]}

ZeroShape == [head |-> 9, tiers |-> <<21, 12, 7>>]

ScreenRests == ~ready /\ events = 0 /\ UNCHANGED screenVars
EditorRests == keys = 0 /\ UNCHANGED editorVars

BothNext ==
  \/ FrameArrives /\ EditorRests
  \/ Layout /\ EditorRests
  \/ on_resize /\ EditorRests
  \/ RunCallback("rows") /\ EditorRests
  \/ RunCallback("cores") /\ EditorRests
  \/ RunCallback("paint") /\ EditorRests
  \/ DashboardKey /\ EditorRests
  \/ action_toggle_processes /\ EditorRests
  \/ TerminalResizes /\ EditorRests
  \/ Editor!Press /\ ScreenRests
  \/ Editor!Forward /\ ScreenRests
  \/ Editor!InputTypes /\ ScreenRests
  \/ Editor!InputSubmits /\ ScreenRests
  \/ Editor!Bubble /\ ScreenRests
  \/ Editor!action_toggle_filter /\ ScreenRests
  \/ Editor!action_cancel_filter /\ ScreenRests
  \/ Editor!action_toggle_processes /\ ScreenRests
  \/ Editor!FocusNext /\ ScreenRests
  \/ Editor!OtherKey /\ ScreenRests
  \/ Editor!on_input_submitted /\ ScreenRests
  \/ Editor!on_input_changed /\ ScreenRests

BothInit == ScreenInit /\ Editor!EditorInit /\ showProcesses \in BOOLEAN

BothSpec == BothInit /\ [][BothNext]_<<showProcesses, screenVars, editorVars>>

FilterAgrees == Editor!FilterAgrees
=============================================================================
