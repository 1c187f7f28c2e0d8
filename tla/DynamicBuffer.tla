--------------------------- MODULE DynamicBuffer ---------------------------
(***************************************************************************)
(* DynamicGpuBuffer (gpu/dynamic_buffer.rs) and the dirty-tracked buffer   *)
(* that defers its writes (gpu/dirty_tracked_scene_buffer.rs).  A buffer   *)
(* is a record                                                             *)
(*   rows   what the GPU holds, from row 0                                 *)
(*   epoch  the number of its allocations so far, but for the first        *)
(* and a dirty-tracked one has besides                                     *)
(*   shadow the rows' values on the CPU, those not uploaded yet included   *)
(*   dirty  the rows to upload                                             *)
(* A replaced allocation is copied by the GPU before any later write to    *)
(* it.  Each operation holds the buffer's lock, or sees under its read     *)
(* lock that the row exists, so each is one operator.                      *)
(***************************************************************************)
EXTENDS Naturals, FiniteSets, FiniteSetsExt

CONSTANTS
  PoolCeiling,   \* the device's limit on the buffer, in elements
  Blank          \* what a fresh or padded row of the buffer holds

ASSUME BufferAssumption == PoolCeiling \in Nat \ {0}

---------------------------------------------------------------------------
(* ensure_capacity doubles from the current capacity and keeps the old     *)
(* rows; past the ceiling it changes nothing.                              *)

CanHold(min) == min <= PoolCeiling

Doubled(cap, min) ==
  LET sizes == {(IF cap = 0 THEN 1 ELSE cap) * 2 ^ k : k \in 0 .. min}
      enough == {n \in sizes : n >= min}
  IN CHOOSE n \in enough : \A m \in enough : n <= m

GrownCapacity(cap, min) ==
  IF min <= cap THEN cap
  ELSE IF Doubled(cap, min) > PoolCeiling THEN PoolCeiling ELSE Doubled(cap, min)

CapacityOf(rows) == Cardinality(DOMAIN rows)

\* The first n rows, blank where there were none.
FirstRows(rows, n) == [i \in 0 .. n - 1 |-> IF i \in DOMAIN rows THEN rows[i] ELSE Blank]

\* A new allocation of n rows that takes over the old one's.
Reallocated(b, n) == [b EXCEPT !.rows = FirstRows(b.rows, n), !.epoch = @ + 1]

EnsureCapacity(b, min) ==
  IF min <= CapacityOf(b.rows) THEN b
  ELSE Reallocated(b, GrownCapacity(CapacityOf(b.rows), min))

\* shrink_to_fit: the live rows and a slack of so many rows.
Shrunk(b, highestLive, slack) ==
  LET target == highestLive + 1 + slack
  IN IF target >= CapacityOf(b.rows) THEN b ELSE Reallocated(b, target)

---------------------------------------------------------------------------
(* DirtyTrackedSceneBuffer.                                                *)

NewTracked(capacity) ==
  LET blank == [i \in 0 .. capacity - 1 |-> Blank]
  IN [rows |-> blank, epoch |-> 0, shadow |-> blank, dirty |-> {}]

\* grow_shadow_to keeps the values and the marks.
ShadowGrown(b, n) ==
  IF n <= CapacityOf(b.shadow) THEN b ELSE [b EXCEPT !.shadow = FirstRows(b.shadow, n)]

\* mark_dirty doubles the shadow until it has the row; the GPU is not told.
MarkDirty(b, row, value) ==
  LET wide == ShadowGrown(b, Doubled(CapacityOf(b.shadow), row + 1))
  IN [wide EXCEPT !.shadow[row] = value, !.dirty = @ \cup {row}]

\* The marks of several rows, of which the order does not matter: marks[row] is
\* the row's value.
MarkDirtyAll(b, marks) ==
  LET rows == DOMAIN marks
      wide == ShadowGrown(b, Doubled(CapacityOf(b.shadow), Max(rows) + 1))
  IN IF rows = {} THEN b
     ELSE [wide EXCEPT !.shadow = [i \in DOMAIN @ |-> IF i \in rows THEN marks[i] ELSE @[i]],
                       !.dirty = @ \cup rows]

TrackedReserve(b, n) == ShadowGrown(EnsureCapacity(b, n), n)

\* shrink_to_fit: rows past the target go, their marks with them.
TrackedShrunk(b, highestLive, slack) ==
  LET target == highestLive + 1 + slack
      kept == [b EXCEPT !.shadow = FirstRows(b.shadow, target),
                        !.dirty = @ \cap 0 .. target - 1]
  IN IF target >= CapacityOf(b.shadow) THEN b ELSE Shrunk(kept, highestLive, slack)

\* flush: the GPU buffer grows to the shadow, then takes every dirty row.
Flushed(b) ==
  LET wide == EnsureCapacity(b, CapacityOf(b.shadow))
  IN [wide EXCEPT !.rows = [i \in DOMAIN @ |-> IF i \in b.dirty THEN b.shadow[i] ELSE @[i]],
                  !.dirty = {}]

\* What the GPU reads at a row the buffer may not have.
GpuRow(b, row) == IF row \in DOMAIN b.rows THEN b.rows[row] ELSE Blank

=============================================================================
