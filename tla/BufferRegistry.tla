--------------------------- MODULE BufferRegistry ---------------------------
(***************************************************************************)
(* How a consumer gets a scene buffer and learns of its changes: the       *)
(* buffers of SceneGpuStore that grow (gpu/growable_scene_buffer.rs, which *)
(* writes at once, and gpu/dirty_tracked_scene_buffer.rs, which waits for  *)
(* the flush) and the registry (gpu/buffer_registry.rs) from which a       *)
(* consumer resolves one, with the epoch of its allocation and the         *)
(* generation of its contents.                                             *)
(*                                                                         *)
(* One buffer, one consumer that re-resolves it and copies what it reads   *)
(* when either number has changed.  An allocation is named by the epoch it *)
(* was made at; nothing is written to one that was replaced.               *)
(***************************************************************************)
EXTENDS DynamicBuffer

CONSTANTS
  BufferRows,        \* rows that are written
  RowValues,         \* what is written, Blank included
  InitialCapacity,   \* of the registration
  Slack,             \* shrink_to_fit's slack_factor, in rows
  MaxEpoch, MaxContent   \* bounds on the two numbers

ASSUME RegistryAssumption == BufferRows \subseteq Nat /\ InitialCapacity \in Nat

VARIABLES
  kind,        \* SharedKind: "growable" or "tracked"
  buffer,      \* the GrowableSceneBuffer or DirtyTrackedSceneBuffer
  replaced,    \* the contents of the allocations that were replaced, by epoch
  unnoted,     \* a write reached the buffer and note_content_write is to come
  entryInner,  \* GpuBufferRegistry's EntryInner
  consumer     \* where it is in resolve_buffer_handle, and its last copy

registryVars == <<kind, buffer, replaced, unnoted, entryInner, consumer>>

NothingSeen == [alloc |-> 0, epoch |-> 0, content |-> 0, rows |-> <<>>]
AtRestConsumer == [at |-> "idle", alloc |-> 0, epoch |-> 0, seen |-> NothingSeen]

RegistryInit ==
  /\ kind \in {"growable", "tracked"}
  /\ buffer = NewTracked(InitialCapacity)
  /\ replaced = [e \in {} |-> {}]
  /\ unnoted = FALSE
  /\ entryInner = [alloc |-> 0, epoch |-> 0, content |-> 0]
  /\ consumer = AtRestConsumer

\* The buffer is b from now on; a replaced allocation that the registry or
\* the consumer names stays as it is.
Became(b) ==
  LET old == DOMAIN replaced \cup (IF b.epoch = buffer.epoch THEN {} ELSE {buffer.epoch})
  IN /\ b.epoch <= MaxEpoch
     /\ buffer' = b
     /\ replaced' = [e \in old \cap {entryInner.alloc, consumer.alloc} |->
                       IF e = buffer.epoch THEN buffer.rows ELSE replaced[e]]

---------------------------------------------------------------------------
(* The world's thread: a call that writes notes it with the registry       *)
(* before its thread goes on.                                              *)

\* mark_gpu_row_dirty.
MarkRow(row, value) ==
  /\ ~unnoted /\ kind = "tracked"
  /\ Became(MarkDirty(buffer, row, value))
  /\ UNCHANGED <<kind, unnoted, entryInner, consumer>>

\* flush_gpu_mirror: nothing dirty, nothing to note; growth comes first.
FlushBuffer ==
  /\ ~unnoted /\ kind = "tracked"
  /\ Became(Flushed(buffer))
  /\ unnoted' = (buffer.dirty # {})
  /\ UNCHANGED <<kind, entryInner, consumer>>

\* write_row_growing.
WriteRowGrowing(row, value) ==
  /\ ~unnoted /\ kind = "growable"
  /\ Became([EnsureCapacity(buffer, row + 1) EXCEPT !.rows[row] = value])
  /\ unnoted' = TRUE
  /\ UNCHANGED <<kind, entryInner, consumer>>

\* A write that the registry is not told of.
NoteContentMutant ==
  /\ unnoted
  /\ unnoted' = FALSE
  /\ entryInner.content < MaxContent
  /\ entryInner' = [entryInner EXCEPT !.content = IF kind = "growable" THEN @ + 1 ELSE @]
  /\ UNCHANGED <<kind, buffer, replaced, consumer>>

\* note_content_write.
NoteContent ==
  /\ unnoted
  /\ unnoted' = FALSE
  /\ entryInner.content < MaxContent
  /\ entryInner' = [entryInner EXCEPT !.content = @ + 1]
  /\ UNCHANGED <<kind, buffer, replaced, consumer>>

\* reserve_world_mirror_capacity.
ReserveRows(n) ==
  /\ ~unnoted
  /\ Became(IF kind = "tracked" THEN TrackedReserve(buffer, n) ELSE EnsureCapacity(buffer, n))
  /\ UNCHANGED <<kind, unnoted, entryInner, consumer>>

\* shrink_world_mirror_to_fit.
ShrinkToFit(highestLive) ==
  /\ ~unnoted
  /\ Became(IF kind = "tracked" THEN TrackedShrunk(buffer, highestLive, Slack)
            ELSE Shrunk(buffer, highestLive, Slack))
  /\ UNCHANGED <<kind, unnoted, entryInner, consumer>>

---------------------------------------------------------------------------
(* resolve_buffer_handle: the buffer is cloned under one lock and its      *)
(* epoch read under another; sync and resolve lock the entry in turn.      *)

CloneBuffer ==
  /\ consumer.at = "idle"
  /\ consumer' = [consumer EXCEPT !.at = "cloned", !.alloc = buffer.epoch]
  /\ UNCHANGED <<kind, buffer, replaced, unnoted, entryInner>>

ReadEpoch ==
  /\ consumer.at = "cloned"
  /\ consumer' = [consumer EXCEPT !.at = "read", !.epoch = buffer.epoch]
  /\ UNCHANGED <<kind, buffer, replaced, unnoted, entryInner>>

\* sync adopts a buffer that comes with another epoch.
Sync ==
  /\ consumer.at = "read"
  /\ entryInner' = IF consumer.epoch # entryInner.epoch
              THEN [entryInner EXCEPT !.alloc = consumer.alloc, !.epoch = consumer.epoch]
              ELSE entryInner
  /\ consumer' = [consumer EXCEPT !.at = "synced"]
  /\ UNCHANGED <<kind, buffer, replaced, unnoted>>

\* resolve, and what the consumer does with the handle: it copies the rows
\* again unless its copy was made at the handle's epoch and contents.
AllocationRows(alloc) == IF alloc = buffer.epoch THEN buffer.rows ELSE replaced[alloc]

Resolve ==
  LET seen == consumer.seen
      known == seen.rows # <<>> /\ seen.epoch = entryInner.epoch /\ seen.content = entryInner.content
  IN /\ consumer.at = "synced"
     /\ consumer' = [at |-> "idle", alloc |-> 0, epoch |-> 0,
          seen |-> IF known THEN seen
                   ELSE [alloc |-> entryInner.alloc, epoch |-> entryInner.epoch,
                         content |-> entryInner.content, rows |-> AllocationRows(entryInner.alloc)]]
     /\ UNCHANGED <<kind, buffer, replaced, unnoted, entryInner>>

RegistryNext ==
  \/ \E row \in BufferRows :
       \/ \E value \in RowValues : MarkRow(row, value) \/ WriteRowGrowing(row, value)
       \/ ReserveRows(row + 1)
       \/ ShrinkToFit(row)
  \/ FlushBuffer \/ NoteContent
  \/ CloneBuffer \/ ReadEpoch \/ Sync \/ Resolve

RegistrySpec == RegistryInit /\ [][RegistryNext]_registryVars

---------------------------------------------------------------------------
\* The handoff misses no write and no growth: while the buffer has the epoch
\* and the contents a consumer last saw, its copy is what the buffer holds,
\* whatever grew, shrank, was reserved or flushed during its resolves and
\* since.  Of a torn handle, an allocation with the epoch of the next one,
\* this is not true: a growth between CloneBuffer and ReadEpoch makes one, and
\* every later sync takes it for current.
HandoffCurrent ==
  LET seen == consumer.seen
      torn == seen.alloc # seen.epoch
  IN ~unnoted /\ ~torn /\ seen.rows # <<>>
       /\ seen.epoch = buffer.epoch /\ seen.content = entryInner.content
     => seen.rows = buffer.rows

=============================================================================
