--------------------------- MODULE MCFilterEditor ---------------------------
(***************************************************************************)
(* The filter editor for TLC.                                              *)
(***************************************************************************)
EXTENDS FilterEditor

\* "(" does not compile; what it takes to make it compile is one key.
TheEdits ==
  LET longer == {<<"", "z">>, <<"", "(">>, <<"(", "()">>}
  IN  longer \cup {<<e[2], e[1]>> : e \in longer}
=============================================================================
