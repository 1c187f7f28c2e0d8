---------------------------- MODULE WorldMirror ----------------------------
(***************************************************************************)
(* A world's GPU mirror (gpu/world_mirror.rs and the calls into it from    *)
(* world.rs and mut_guard.rs): every write of a component with a #[gpu]    *)
(* field marks the row of its entity's index in a dirty-tracked column,    *)
(* the first one of an occupant marks its generation too, and a flush      *)
(* uploads what was marked.  One component with one field, whose mode is   *)
(* chosen at the start; a store whose buffers grow and shrink; one mirror  *)
(* handle, which the world may be populated before or after it gets, and   *)
(* which may be detached and attached again.                               *)
(*                                                                         *)
(* Field values are never Blank, so a blank row is a cleared one.  Growth  *)
(* and contents of the archetypes are World's; a variable-length field is  *)
(* VarLenPool's and a shared one InternedPool's.                           *)
(***************************************************************************)
EXTENDS DynamicBuffer, Sequences

CONSTANTS
  MirrorRows,       \* entity indices, from 0
  FieldValues,      \* values of the component's field
  NoField,          \* where an entity has not the component
  GenerationRows,   \* initial rows of the generation buffer
  ColumnRows,       \* initial rows of the column's buffer
  ShrinkSlack,      \* shrink_to_fit's slack_factor, in rows
  MaxGeneration,    \* bound on a slot's generation
  MaxMarked         \* bound on the rows marked when an operation starts

ASSUME MirrorAssumption ==
  /\ IsFiniteSet(MirrorRows) /\ MirrorRows = 0 .. Cardinality(MirrorRows) - 1
  /\ GenerationRows \in Nat /\ ColumnRows \in Nat /\ ShrinkSlack \in Nat
  /\ Blank \in Nat \ FieldValues /\ NoField \notin FieldValues

VARIABLES
  mode,            \* MirrorMode of the field
  generation,      \* EntitySlot.generation, of the slots made so far
  vacated,         \* World.free_slots
  field,           \* the component's value at an entity's row, or NoField
  attached,        \* World.gpu_mirror is set
  liveness,        \* GenerationMirror.buf
  mirroredRows,    \* GenerationMirror.gpu_mirrored_rows
  column,          \* the field's DirtyTrackedSceneBuffer
  promised,        \* ghost: what the mode promises the row shows
  lastBearing,     \* ghost: the last dead entity of the row that had the component
  missed           \* ghost: rows whose component left while nothing was attached

mirrorWorldVars == <<generation, vacated, field>>
bufferVars == <<liveness, mirroredRows, column>>
ghostVars == <<promised, lastBearing, missed>>
worldMirrorVars == <<mode, mirrorWorldVars, attached, bufferVars, ghostVars>>

None == 0 - 1
Living(row) == row \in DOMAIN generation /\ \A i \in DOMAIN vacated : vacated[i] # row
Bearing(row) == field[row] # NoField

MirrorInit ==
  /\ mode \in {"DirtyTracked", "Once"}
  /\ generation = [r \in {} |-> 0]
  /\ vacated = <<>>
  /\ field = [r \in MirrorRows |-> NoField]
  /\ attached = FALSE
  /\ liveness = NewTracked(GenerationRows)
  /\ mirroredRows = {}
  /\ column = NewTracked(ColumnRows)
  /\ promised = [r \in MirrorRows |-> Blank]
  /\ lastBearing = [r \in MirrorRows |-> None]
  /\ missed = {}

---------------------------------------------------------------------------
(* What a write does to the mirror.                                        *)

\* note_gpu_bearing_insert: an occupant's generation is marked once.
NoteBearing(row) ==
  /\ mirroredRows' = mirroredRows \cup {row}
  /\ liveness' = IF row \in mirroredRows THEN liveness
                    ELSE MarkDirty(liveness, row, generation[row])

\* write_gpu_columns_at_row: a Once field is written by a first insert only.
Dispatched(row, value, isNewInsert) ==
  IF mode = "Once" /\ ~isNewInsert THEN column ELSE MarkDirty(column, row, value)

\* clear_gpu_columns_at_row.
ClearedColumn(row) == MarkDirty(column, row, Blank)

---------------------------------------------------------------------------
(* The world's operations.                                                 *)

\* spawn_inner: the mirror is not touched.
MirrorSpawn ==
  /\ IF vacated # <<>>
     THEN LET row == vacated[Len(vacated)]
          IN /\ generation[row] < MaxGeneration
             /\ generation' = [generation EXCEPT ![row] = @ + 1]
             /\ vacated' = SubSeq(vacated, 1, Len(vacated) - 1)
     ELSE /\ DOMAIN generation # MirrorRows
          /\ generation' = [r \in 0 .. Cardinality(DOMAIN generation) |->
                              IF r \in DOMAIN generation THEN generation[r] ELSE 0]
          /\ UNCHANGED vacated
  /\ UNCHANGED <<mode, field, attached, bufferVars, ghostVars>>

\* insert of a component the entity has not (push_new_value).
MirrorInsert(row, value) ==
  /\ Living(row) /\ ~Bearing(row)
  /\ field' = [field EXCEPT ![row] = value]
  /\ IF attached
     THEN /\ NoteBearing(row)
          /\ column' = Dispatched(row, value, TRUE)
          /\ promised' = [promised EXCEPT ![row] = value]
     ELSE UNCHANGED <<bufferVars, promised>>
  /\ UNCHANGED <<mode, generation, vacated, attached, lastBearing, missed>>

\* insert over a component it has.
MirrorOverwrite(row, value) ==
  /\ Living(row) /\ Bearing(row)
  /\ field' = [field EXCEPT ![row] = value]
  /\ IF attached
     THEN /\ column' = Dispatched(row, value, FALSE)
          /\ promised' = IF mode = "Once" THEN promised ELSE [promised EXCEPT ![row] = value]
     ELSE UNCHANGED <<column, promised>>
  /\ UNCHANGED <<mode, generation, vacated, attached, liveness, mirroredRows,
                 lastBearing, missed>>

\* A write through a Mut guard: its hook fires on drop as a first insert would.
MirrorGuard(row, value) ==
  /\ Living(row) /\ Bearing(row)
  /\ field' = [field EXCEPT ![row] = value]
  /\ IF attached
     THEN /\ column' = Dispatched(row, value, TRUE)
          /\ promised' = [promised EXCEPT ![row] = value]
     ELSE UNCHANGED <<column, promised>>
  /\ UNCHANGED <<mode, generation, vacated, attached, liveness, mirroredRows,
                 lastBearing, missed>>

\* Mut::into_inner: the hook fires for the value as it is, and the write that
\* follows is not observed.
MirrorEscape(row, value) ==
  /\ Living(row) /\ Bearing(row)
  /\ field' = [field EXCEPT ![row] = value]
  /\ IF attached
     THEN /\ column' = Dispatched(row, field[row], TRUE)
          /\ promised' = [promised EXCEPT ![row] = field[row]]
     ELSE UNCHANGED <<column, promised>>
  /\ UNCHANGED <<mode, generation, vacated, attached, liveness, mirroredRows,
                 lastBearing, missed>>

\* remove_core: the column is cleared, the generation stays.
MirrorRemove(row) ==
  /\ Living(row) /\ Bearing(row)
  /\ field' = [field EXCEPT ![row] = NoField]
  /\ IF attached
     THEN /\ column' = ClearedColumn(row)
          /\ promised' = [promised EXCEPT ![row] = Blank]
          /\ UNCHANGED missed
     ELSE /\ missed' = missed \cup {row}
          /\ UNCHANGED <<column, promised>>
  /\ UNCHANGED <<mode, generation, vacated, attached, liveness, mirroredRows, lastBearing>>

\* note_despawn: the freshly bumped generation is queued if the row was mirrored.
NoteDespawnMutant(row, newGeneration) ==
  /\ mirroredRows' = mirroredRows
  /\ liveness' = IF row \in mirroredRows
                    THEN MarkDirty(liveness, row, newGeneration) ELSE liveness

NoteDespawn(row, newGeneration) ==
  /\ mirroredRows' = mirroredRows \ {row}
  /\ liveness' = IF row \in mirroredRows
                    THEN MarkDirty(liveness, row, newGeneration) ELSE liveness

\* despawn_inner.
MirrorDespawn(row) ==
  /\ Living(row) /\ generation[row] < MaxGeneration
  /\ field' = [field EXCEPT ![row] = NoField]
  /\ generation' = [generation EXCEPT ![row] = @ + 1]
  /\ vacated' = Append(vacated, row)
  /\ lastBearing' = IF Bearing(row) THEN [lastBearing EXCEPT ![row] = generation[row]]
                    ELSE lastBearing
  /\ IF attached
     THEN /\ column' = IF Bearing(row) THEN ClearedColumn(row) ELSE column
          /\ NoteDespawn(row, generation[row] + 1)
          /\ promised' = [promised EXCEPT ![row] = Blank]
          /\ UNCHANGED missed
     ELSE /\ missed' = IF Bearing(row) \/ row \in mirroredRows THEN missed \cup {row}
                       ELSE missed
          /\ UNCHANGED <<bufferVars, promised>>
  /\ UNCHANGED <<mode, attached>>

---------------------------------------------------------------------------
(* The mirror itself.                                                      *)

\* replay_gpu_mirror: every entity with the component as a first insert, in
\* the order of its archetypes' rows; marks of different rows commute.
Replayed ==
  LET rows == {r \in MirrorRows : Bearing(r)}
  IN /\ liveness' = MarkDirtyAll(liveness, [r \in rows \ mirroredRows |-> generation[r]])
     /\ mirroredRows' = mirroredRows \cup rows
     /\ column' = MarkDirtyAll(column, [r \in rows |-> field[r]])
     /\ promised' = [r \in MirrorRows |-> IF r \in rows THEN field[r] ELSE promised[r]]

\* attach_gpu_mirror: a clone of the attached handle changes nothing.
AttachMirror ==
  /\ ~attached
  /\ attached' = TRUE
  /\ Replayed
  /\ UNCHANGED <<mode, mirrorWorldVars, lastBearing, missed>>

DetachMirror ==
  /\ attached
  /\ attached' = FALSE
  /\ UNCHANGED <<mode, mirrorWorldVars, bufferVars, ghostVars>>

\* Epochs are BufferRegistry's; here one allocation is like another.
SameEpoch(b) == [b EXCEPT !.epoch = 0]

\* flush_gpu_mirror: the generations, then the columns.
FlushMirror ==
  /\ attached
  /\ liveness' = SameEpoch(Flushed(liveness))
  /\ column' = SameEpoch(Flushed(column))
  /\ UNCHANGED <<mode, mirrorWorldVars, attached, mirroredRows, ghostVars>>

\* reserve_gpu_mirror_capacity: the columns only.
ReserveMirror(n) ==
  /\ attached
  /\ column' = SameEpoch(TrackedReserve(column, n))
  /\ UNCHANGED <<mode, mirrorWorldVars, attached, liveness, mirroredRows, ghostVars>>

\* shrink_gpu_mirror_to_fit, with the highest live row as its caller owes it.
ShrinkMirror ==
  LET live == {r \in MirrorRows : Living(r)}
  IN /\ attached /\ live # {}
     /\ column' = SameEpoch(TrackedShrunk(column, Max(live), ShrinkSlack))
     /\ UNCHANGED <<mode, mirrorWorldVars, attached, liveness, mirroredRows, ghostVars>>

\* Bounds: the world goes on while few rows wait for the flush, and leaves a
\* row be once the property has given it up.
FewMarked == Cardinality(column.dirty) + Cardinality(liveness.dirty) < MaxMarked

WorldOperation ==
  \/ MirrorSpawn
  \/ \E row \in MirrorRows \ missed :
       \/ \E value \in FieldValues :
            \/ MirrorInsert(row, value) \/ MirrorOverwrite(row, value)
            \/ MirrorGuard(row, value) \/ MirrorEscape(row, value)
       \/ MirrorRemove(row) \/ MirrorDespawn(row)
       \/ ReserveMirror(row + 1)

MirrorNext ==
  \/ FewMarked /\ WorldOperation
  \/ AttachMirror \/ DetachMirror \/ FlushMirror \/ ShrinkMirror

MirrorSpec == MirrorInit /\ [][MirrorNext]_worldMirrorVars

---------------------------------------------------------------------------
(* Properties.                                                             *)

Clean == attached /\ liveness.dirty = {} /\ column.dirty = {}

\* The GPU shows what the component calls for: its value, or zeros.
ColumnShows(row) == GpuRow(column, row) = promised[row]

\* A handle is trusted by the GPU when the row's generation is the handle's.
GenerationShows(row) ==
  /\ Bearing(row) => GpuRow(liveness, row) = generation[row]
  /\ ~Bearing(row) => row \notin DOMAIN liveness.rows
                        \/ liveness.rows[row] # lastBearing[row]

\* Once flushed, the mirror shows each row as its mode promises, or blank
\* where no entity has the component, the current generation of every entity
\* with the component, and not that of a dead one; however the buffers grew
\* and shrank, whenever the mirror was attached, and for rows whose component
\* did not leave while it was detached.
MirrorCurrent ==
  Clean => \A row \in MirrorRows \ missed : ColumnShows(row) /\ GenerationShows(row)

=============================================================================
