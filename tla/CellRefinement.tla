--------------------------- MODULE CellRefinement ---------------------------
(***************************************************************************)
(* CellStorage implements HandleMap.  The status of a handle is read off   *)
(* the registry: a generation below the slot's current one has been issued *)
(* and ended; the current one is issued exactly while the slot has a row.  *)
(***************************************************************************)
EXTENDS CellStorage

CONSTANT NoValue   \* what a handle that does not resolve reads

ASSUME NoValueAssumption == NoValue \notin Values

\* Generation 0 is never valid and GenMax is the tombstone of a spent slot.
CellHandle == [cell : Cells, slot : Slots, gen : 1 .. GenMax - 1]

Current(h) ==
  /\ generations[h.cell][h.slot] = h.gen
  /\ slotToRow[h.cell][h.slot] # NullRow

HandleStatus(h) ==
  IF h.gen < generations[h.cell][h.slot] THEN "dead"
  ELSE IF ~Current(h) THEN "unissued"
  ELSE IF RowOf(h.cell, h) \in pins[h.cell] THEN "retiring"
  ELSE "live"

HandleValue(h) ==
  IF Current(h) THEN data[h.cell][RowOf(h.cell, h)] ELSE NoValue

HM == INSTANCE HandleMap WITH
        Handles <- CellHandle,
        status  <- [h \in CellHandle |-> HandleStatus(h)],
        value   <- [h \in CellHandle |-> HandleValue(h)]

\* Every operation of a cell, each swap of a compaction included, is one step
\* of the handle map or none: a stale handle never resolves again, a handle
\* never comes to name another element, and a value changes only by a write.
ImplementsHandleMap == HM!Spec

==============================================================================
