--------------------------- MODULE MCCellStorage ---------------------------
(***************************************************************************)
(* CellStorage for TLC: one cell of three rows, a registry of four slots   *)
(* whose generations run out at 3.                                         *)
(***************************************************************************)
EXTENDS CellRefinement, TLC

CONSTANTS c1, v0, v1

MCCells  == {c1}
MCValues == {v0, v1}

==============================================================================
