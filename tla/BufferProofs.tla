---------------------------- MODULE BufferProofs ----------------------------
(***************************************************************************)
(* What readers of the World's data are told, for any rows, values,        *)
(* entities, capacities and bounds: the growing buffers' handoff to        *)
(* consumers misses no write and no growth, the World's mirror in them     *)
(* shows each entity's component and generation, and a subscriber of an    *)
(* object knows what its entities hold.                                    *)
(*                                                                         *)
(* HandoffCurrent is not inductive as it stands: a growth must not bring   *)
(* back an epoch that the consumer has seen, nor a note a content          *)
(* generation, so no number that is held anywhere runs ahead of the        *)
(* buffer's or the registry's own; and what a resolve copies must be       *)
(* there, so no allocation that is named goes.                             *)
(*                                                                         *)
(* MirrorCurrent speaks of the GPU when nothing is left to upload.  What   *)
(* every call keeps is that the CPU's shadow shows what the GPU should,    *)
(* and that the GPU differs from it in dirty rows only.                    *)
(*                                                                         *)
(* SubscribersTold says what a view holds of an entity, not that the       *)
(* entity still belongs to the view's object, which is what makes a later  *)
(* write reach the view; nor that the next subscription's number is new.   *)
(***************************************************************************)
EXTENDS BufferRegistry, WorldMirror, ObjectSubscriptions, StackLemmas

IsRows(rows) == rows = [i \in DOMAIN rows |-> rows[i]]

\* A dirty-tracked buffer: the handoff depends on no value or number of rows.
TrackedBuffers(R, S, D) == [rows : R, epoch : Nat, shadow : S, dirty : D]
IsTracked(b) == (\E R, S, D : b \in TrackedBuffers(R, S, D)) /\ IsRows(b.rows)

Copies(R) == [alloc : Nat, epoch : Nat, content : Nat, rows : R]
Consumers(R) ==
  [at : {"idle", "cloned", "read", "synced"}, alloc : Nat, epoch : Nat, seen : Copies(R)]

RegistryTypeOK ==
  /\ IsTracked(buffer)
  /\ unnoted \in BOOLEAN
  /\ entryInner \in [alloc : Nat, epoch : Nat, content : Nat]
  /\ \E R : consumer \in Consumers(R)

\* An allocation that the registry names, or a resolve under way, is the
\* buffer's or was kept.
AllocationsKept ==
  /\ entryInner.alloc \in DOMAIN replaced \cup {buffer.epoch}
  /\ consumer.at # "idle" => consumer.alloc \in DOMAIN replaced \cup {buffer.epoch}

\* No epoch that was read is ahead of the buffer's, and no contents that were
\* seen ahead of those noted.
NothingAhead ==
  /\ entryInner.epoch <= buffer.epoch
  /\ consumer.epoch <= buffer.epoch
  /\ consumer.seen.epoch <= buffer.epoch
  /\ consumer.seen.content <= entryInner.content

RegistryInv == RegistryTypeOK /\ AllocationsKept /\ NothingAhead /\ HandoffCurrent

-----------------------------------------------------------------------------
(* What an operation does to a buffer: it allocates anew, or it leaves the *)
(* rows as they are, or it writes to them.                                 *)

Reallocates(b, c) == c.epoch = b.epoch + 1
LeavesRows(b, c) == c.epoch = b.epoch /\ c.rows = b.rows

\* One field of a buffer is set and the others stay.
LEMMA Roomier ==
  ASSUME NEW b, IsTracked(b), NEW r, NEW s, NEW d
  PROVE  \E R, S, D : b \in TrackedBuffers(R, S, D) /\ r \in R /\ s \in S /\ d \in D
<1>1. PICK R, S, D : b \in TrackedBuffers(R, S, D)
  BY DEF IsTracked
<1>2. b \in TrackedBuffers(R \cup {r}, S \cup {s}, D \cup {d})
  BY <1>1 DEF TrackedBuffers
<1> QED
  BY <1>2

LEMMA SetRows ==
  ASSUME NEW b, IsTracked(b), NEW rows, IsRows(rows)
  PROVE  LET c == [b EXCEPT !.rows = rows]
         IN /\ IsTracked(c) /\ c.rows = rows
            /\ c.epoch = b.epoch /\ c.shadow = b.shadow /\ c.dirty = b.dirty
<1>1. PICK R, S, D : b \in TrackedBuffers(R, S, D) /\ rows \in R
  BY Roomier
<1> QED
  BY <1>1 DEF TrackedBuffers, IsTracked

LEMMA SetEpoch ==
  ASSUME NEW b, IsTracked(b), NEW epoch \in Nat
  PROVE  LET c == [b EXCEPT !.epoch = epoch]
         IN /\ IsTracked(c) /\ c.epoch = epoch
            /\ c.rows = b.rows /\ c.shadow = b.shadow /\ c.dirty = b.dirty
<1>1. PICK R, S, D : b \in TrackedBuffers(R, S, D)
  BY DEF IsTracked
<1> QED
  BY <1>1 DEF TrackedBuffers, IsTracked

LEMMA SetShadow ==
  ASSUME NEW b, IsTracked(b), NEW shadow
  PROVE  LET c == [b EXCEPT !.shadow = shadow]
         IN /\ IsTracked(c) /\ LeavesRows(b, c) /\ c.shadow = shadow
            /\ c.rows = b.rows /\ c.epoch = b.epoch /\ c.dirty = b.dirty
<1>1. PICK R, S, D : b \in TrackedBuffers(R, S, D) /\ shadow \in S
  BY Roomier
<1> QED
  BY <1>1 DEF TrackedBuffers, IsTracked, LeavesRows

LEMMA SetDirty ==
  ASSUME NEW b, IsTracked(b), NEW dirty
  PROVE  LET c == [b EXCEPT !.dirty = dirty]
         IN /\ IsTracked(c) /\ LeavesRows(b, c) /\ c.dirty = dirty
            /\ c.rows = b.rows /\ c.epoch = b.epoch /\ c.shadow = b.shadow
<1>1. PICK R, S, D : b \in TrackedBuffers(R, S, D) /\ dirty \in D
  BY Roomier
<1> QED
  BY <1>1 DEF TrackedBuffers, IsTracked, LeavesRows

\* A new allocation has the next epoch, and nothing else of it changes.
LEMMA ReallocatedType ==
  ASSUME NEW b, IsTracked(b), NEW n
  PROVE  /\ IsTracked(Reallocated(b, n))
         /\ Reallocates(b, Reallocated(b, n))
         /\ Reallocated(b, n).shadow = b.shadow /\ Reallocated(b, n).dirty = b.dirty
<1> DEFINE rows == FirstRows(b.rows, n)
           epoch == b.epoch + 1
           moved == [b EXCEPT !.rows = rows]
           new == [moved EXCEPT !.epoch = epoch]
<1>1. IsRows(rows)
  BY DEF IsRows, FirstRows
<1>2. b.epoch \in Nat
  BY DEF IsTracked, TrackedBuffers
<1>3. epoch \in Nat
  BY <1>2
<1>4. Reallocated(b, n) = new
  BY DEF Reallocated
<1> HIDE DEF rows
<1>5. IsTracked(moved) /\ moved.shadow = b.shadow /\ moved.dirty = b.dirty
  BY <1>1, SetRows
<1> HIDE DEF moved, epoch
<1>6. IsTracked(new) /\ new.epoch = epoch /\ new.shadow = moved.shadow /\ new.dirty = moved.dirty
  BY <1>3, <1>5, SetEpoch
<1> QED
  BY <1>4, <1>5, <1>6 DEF Reallocates, epoch

\* ensure_capacity keeps the rows where it does not reallocate.
LEMMA EnsureCapacityKeeps ==
  ASSUME NEW b, IsTracked(b), NEW n
  PROVE  /\ IsTracked(EnsureCapacity(b, n))
         /\ Reallocates(b, EnsureCapacity(b, n)) \/ EnsureCapacity(b, n) = b
BY ReallocatedType DEF EnsureCapacity

\* grow_shadow_to does not touch the GPU's buffer.
LEMMA ShadowGrownKeeps ==
  ASSUME NEW b, IsTracked(b), NEW n
  PROVE  IsTracked(ShadowGrown(b, n)) /\ LeavesRows(b, ShadowGrown(b, n))
BY SetShadow DEF ShadowGrown, LeavesRows

\* mark_dirty waits for the flush.
LEMMA MarkDirtyKeeps ==
  ASSUME NEW b, IsTracked(b), NEW row, NEW value
  PROVE  IsTracked(MarkDirty(b, row, value)) /\ LeavesRows(b, MarkDirty(b, row, value))
<1> DEFINE wide == ShadowGrown(b, Doubled(CapacityOf(b.shadow), row + 1))
           shadow == [wide.shadow EXCEPT ![row] = value]
           written == [wide EXCEPT !.shadow = shadow]
           dirty == wide.dirty \cup {row}
           marked == [written EXCEPT !.dirty = dirty]
<1>1. IsTracked(wide) /\ LeavesRows(b, wide)
  BY ShadowGrownKeeps
<1>2. MarkDirty(b, row, value) = marked
  BY DEF MarkDirty
<1> HIDE DEF wide, shadow
<1>3. IsTracked(written) /\ LeavesRows(wide, written)
  BY <1>1, SetShadow
<1> HIDE DEF written, dirty
<1>4. IsTracked(marked) /\ LeavesRows(written, marked)
  BY <1>3, SetDirty
<1> QED
  BY <1>1, <1>2, <1>3, <1>4 DEF LeavesRows

\* reserve reallocates, or the GPU's buffer is as it was.
LEMMA TrackedReserveKeeps ==
  ASSUME NEW b, IsTracked(b), NEW n
  PROVE  /\ IsTracked(TrackedReserve(b, n))
         /\ Reallocates(b, TrackedReserve(b, n)) \/ LeavesRows(b, TrackedReserve(b, n))
<1> DEFINE wide == EnsureCapacity(b, n)
<1>1. IsTracked(wide) /\ (Reallocates(b, wide) \/ wide = b)
  BY EnsureCapacityKeeps
<1> HIDE DEF wide
<1>2. IsTracked(ShadowGrown(wide, n)) /\ LeavesRows(wide, ShadowGrown(wide, n))
  BY <1>1, ShadowGrownKeeps
<1> QED
  BY <1>1, <1>2 DEF TrackedReserve, wide, Reallocates, LeavesRows

\* So does shrink_to_fit of either kind.
LEMMA ShrunkKeeps ==
  ASSUME NEW b, IsTracked(b), NEW n, NEW slack
  PROVE  /\ IsTracked(Shrunk(b, n, slack))
         /\ Reallocates(b, Shrunk(b, n, slack)) \/ Shrunk(b, n, slack) = b
BY ReallocatedType DEF Shrunk

LEMMA TrackedShrunkKeeps ==
  ASSUME NEW b, IsTracked(b), NEW n, NEW slack
  PROVE  /\ IsTracked(TrackedShrunk(b, n, slack))
         /\ Reallocates(b, TrackedShrunk(b, n, slack)) \/ LeavesRows(b, TrackedShrunk(b, n, slack))
<1> DEFINE target == n + 1 + slack
           shadow == FirstRows(b.shadow, target)
           cut == [b EXCEPT !.shadow = shadow]
           dirty == b.dirty \cap 0 .. target - 1
           kept == [cut EXCEPT !.dirty = dirty]
<1>1. TrackedShrunk(b, n, slack) =
        IF target >= CapacityOf(b.shadow) THEN b ELSE Shrunk(kept, n, slack)
  BY DEF TrackedShrunk
<1> HIDE DEF target, shadow, dirty
<1>2. IsTracked(cut) /\ LeavesRows(b, cut)
  BY SetShadow
<1> HIDE DEF cut
<1>3. IsTracked(kept) /\ LeavesRows(cut, kept)
  BY <1>2, SetDirty
<1> HIDE DEF kept
<1>4. /\ IsTracked(Shrunk(kept, n, slack))
      /\ Reallocates(kept, Shrunk(kept, n, slack)) \/ Shrunk(kept, n, slack) = kept
  BY <1>3, ShrunkKeeps
<1> QED
  BY <1>1, <1>2, <1>3, <1>4 DEF Reallocates, LeavesRows

\* A flush with nothing dirty leaves the rows, unless it makes a new buffer.
LEMMA FlushedKeeps ==
  ASSUME NEW b, IsTracked(b)
  PROVE  /\ IsTracked(Flushed(b))
         /\ \/ Reallocates(b, Flushed(b))
            \/ Flushed(b).epoch = b.epoch /\ (b.dirty = {} => Flushed(b).rows = b.rows)
<1> DEFINE wide == EnsureCapacity(b, CapacityOf(b.shadow))
           rows == [i \in DOMAIN wide.rows |-> IF i \in b.dirty THEN b.shadow[i] ELSE wide.rows[i]]
           written == [wide EXCEPT !.rows = rows]
           clean == {}
           flushed == [written EXCEPT !.dirty = clean]
<1>1. IsTracked(wide) /\ (Reallocates(b, wide) \/ wide = b)
  BY EnsureCapacityKeeps
<1>2. Flushed(b) = flushed
  BY DEF Flushed
<1> HIDE DEF wide, clean
<1>3. IsRows(rows)
  BY DEF IsRows
<1>4. b.dirty = {} => rows = wide.rows
  BY <1>1 DEF IsTracked, IsRows
<1> HIDE DEF rows
<1>5. IsTracked(written) /\ written.epoch = wide.epoch /\ written.rows = rows
  BY <1>1, <1>3, SetRows
<1> HIDE DEF written
<1>6. IsTracked(flushed) /\ LeavesRows(written, flushed)
  BY <1>5, SetDirty
<1> QED
  BY <1>1, <1>2, <1>4, <1>5, <1>6 DEF Reallocates, LeavesRows

-----------------------------------------------------------------------------
(* The registry's state over a step.                                       *)

\* The world's side: the buffer becomes one with new rows, a new epoch or
\* neither, and a write of its rows is still to be noted.
LEMMA BufferStep ==
  ASSUME RegistryInv, NEW b, IsTracked(b), Became(b), unnoted' \in BOOLEAN,
         UNCHANGED <<entryInner, consumer>>,
         Reallocates(buffer, b) \/ b.epoch = buffer.epoch,
         ~unnoted /\ b.epoch = buffer.epoch /\ b.rows # buffer.rows => unnoted',
         unnoted => unnoted'
  PROVE  RegistryInv'
<1> USE DEF RegistryInv
<1>1. buffer' = b /\ buffer.epoch \in Nat /\ b.epoch \in Nat
  BY DEF Became, RegistryTypeOK, IsTracked, TrackedBuffers
<1>2. RegistryTypeOK'
  BY <1>1 DEF RegistryTypeOK
<1>3. b.epoch >= buffer.epoch
  BY <1>1 DEF Reallocates
<1>4. NothingAhead'
  BY <1>1, <1>3 DEF NothingAhead, RegistryTypeOK, Consumers, Copies
<1>5. DOMAIN replaced' = (DOMAIN replaced \cup (IF b.epoch = buffer.epoch THEN {} ELSE {buffer.epoch}))
                           \cap {entryInner.alloc, consumer.alloc}
  BY DEF Became
<1>6. AllocationsKept'
  BY <1>1, <1>5 DEF AllocationsKept
<1>7. HandoffCurrent'
  BY <1>1, <1>3 DEF HandoffCurrent, NothingAhead, Reallocates, RegistryTypeOK, Consumers, Copies
<1> QED
  BY <1>2, <1>4, <1>6, <1>7

\* The consumer's side, and the notes.
LEMMA ConsumerStep ==
  ASSUME RegistryInv, CloneBuffer \/ ReadEpoch \/ Sync \/ Resolve \/ NoteContent
  PROVE  RegistryInv'
<1> USE DEF RegistryInv
<1>1. buffer.epoch \in Nat
  BY DEF RegistryTypeOK, IsTracked, TrackedBuffers
<1>2. PICK R : consumer \in Consumers(R)
  BY DEF RegistryTypeOK
<1>3. CASE CloneBuffer
  <2>1. consumer' \in Consumers(R)
    BY <1>1, <1>2, <1>3 DEF CloneBuffer, Consumers
  <2>2. RegistryTypeOK'
    BY <1>3, <2>1 DEF CloneBuffer, RegistryTypeOK
  <2> QED
    BY <1>1, <1>2, <1>3, <2>2 DEF CloneBuffer, Consumers, AllocationsKept, NothingAhead, HandoffCurrent
<1>4. CASE ReadEpoch
  <2>1. consumer' \in Consumers(R)
    BY <1>1, <1>2, <1>4 DEF ReadEpoch, Consumers
  <2>2. RegistryTypeOK'
    BY <1>4, <2>1 DEF ReadEpoch, RegistryTypeOK
  <2> QED
    BY <1>1, <1>2, <1>4, <2>2 DEF ReadEpoch, Consumers, AllocationsKept, NothingAhead, HandoffCurrent
<1>5. CASE Sync
  <2>1. consumer' \in Consumers(R)
    BY <1>1, <1>2, <1>5 DEF Sync, Consumers
  <2>2. RegistryTypeOK'
    BY <1>2, <1>5, <2>1 DEF Sync, RegistryTypeOK, Consumers
  <2> QED
    BY <1>1, <1>2, <1>5, <2>2 DEF Sync, Consumers, AllocationsKept, NothingAhead, HandoffCurrent,
      RegistryTypeOK
<1>6. CASE Resolve
  <2> DEFINE rows == AllocationRows(entryInner.alloc)
             copy == [alloc |-> entryInner.alloc, epoch |-> entryInner.epoch,
                      content |-> entryInner.content, rows |-> rows]
  <2>1. UNCHANGED <<buffer, unnoted, entryInner, replaced>>
    BY <1>6 DEF Resolve
  <2>2. \/ consumer' = [at |-> "idle", alloc |-> 0, epoch |-> 0, seen |-> consumer.seen]
        \/ consumer' = [at |-> "idle", alloc |-> 0, epoch |-> 0, seen |-> copy]
    BY <1>6 DEF Resolve
  <2>3. entryInner.alloc = buffer.epoch => rows = buffer.rows
    BY DEF AllocationRows
  <2> HIDE DEF rows
  <2>4. consumer.seen \in Copies(R \cup {rows}) /\ copy \in Copies(R \cup {rows})
    BY <1>2 DEF Consumers, Copies, RegistryTypeOK
  <2>5. consumer' \in Consumers(R \cup {rows})
    BY <2>2, <2>4 DEF Consumers
  <2>6. RegistryTypeOK'
    BY <2>1, <2>5 DEF RegistryTypeOK
  <2>7. AllocationsKept' /\ NothingAhead'
    BY <1>1, <2>1, <2>2 DEF AllocationsKept, NothingAhead, RegistryTypeOK
  <2>8. HandoffCurrent'
    BY <2>1, <2>2, <2>3 DEF HandoffCurrent
  <2> QED
    BY <2>6, <2>7, <2>8
<1>7. CASE NoteContent
  <2>1. UNCHANGED <<buffer, consumer, replaced>> /\ unnoted' = FALSE /\ unnoted
        /\ entryInner' = [entryInner EXCEPT !.content = entryInner.content + 1]
    BY <1>7 DEF NoteContent
  <2>2. entryInner.content + 1 \in Nat
    BY DEF RegistryTypeOK
  <2>3. entryInner' \in [alloc : Nat, epoch : Nat, content : Nat]
        /\ entryInner'.content = entryInner.content + 1
        /\ entryInner'.alloc = entryInner.alloc /\ entryInner'.epoch = entryInner.epoch
    BY <2>1, <2>2 DEF RegistryTypeOK
  <2>4. RegistryTypeOK'
    BY <2>1, <2>3 DEF RegistryTypeOK
  <2>5. consumer.seen.content \in Nat /\ entryInner.content \in Nat
    BY <1>2 DEF Consumers, Copies, RegistryTypeOK
  <2> QED
    BY <2>1, <2>3, <2>4, <2>5 DEF AllocationsKept, NothingAhead, HandoffCurrent
<1> QED
  BY <1>3, <1>4, <1>5, <1>6, <1>7

\* A registered buffer, nothing resolved.
LEMMA RegistryInvInitially == RegistryInit => RegistryInv
<1> SUFFICES ASSUME RegistryInit PROVE RegistryInv
  OBVIOUS
<1> DEFINE blank == [i \in 0 .. InitialCapacity - 1 |-> Blank]
<1>1. buffer = [rows |-> blank, epoch |-> 0, shadow |-> blank, dirty |-> {}]
  BY DEF RegistryInit, NewTracked
<1>2. IsRows(blank)
  BY DEF IsRows
<1> HIDE DEF blank
<1>3. buffer \in TrackedBuffers({blank}, {blank}, {{}})
  BY <1>1 DEF TrackedBuffers
<1>4. IsTracked(buffer)
  BY <1>1, <1>2, <1>3 DEF IsTracked
<1>5. consumer \in Consumers({<<>>})
  BY DEF RegistryInit, AtRestConsumer, NothingSeen, Consumers, Copies
<1>6. RegistryTypeOK
  BY <1>4, <1>5 DEF RegistryInit, RegistryTypeOK
<1> QED
  BY <1>1, <1>6 DEF RegistryInit, RegistryInv, AllocationsKept, NothingAhead, HandoffCurrent,
    AtRestConsumer, NothingSeen

\* Every call of the world's thread and every lock section of a resolve.
LEMMA RegistryInvStep == RegistryInv /\ [RegistryNext]_registryVars => RegistryInv'
<1> SUFFICES ASSUME RegistryInv, [RegistryNext]_registryVars PROVE RegistryInv'
  OBVIOUS
<1>1. IsTracked(buffer)
  BY DEF RegistryInv, RegistryTypeOK
<1>2. ASSUME NEW row \in BufferRows, NEW value \in RowValues, MarkRow(row, value)
      PROVE  RegistryInv'
  <2>1. IsTracked(MarkDirty(buffer, row, value)) /\ LeavesRows(buffer, MarkDirty(buffer, row, value))
    BY <1>1, MarkDirtyKeeps
  <2>2. Became(MarkDirty(buffer, row, value)) /\ UNCHANGED <<unnoted, entryInner, consumer>>
    BY <1>2 DEF MarkRow
  <2> QED
    BY <2>1, <2>2, BufferStep DEF LeavesRows, RegistryInv, RegistryTypeOK
<1>3. CASE FlushBuffer
  <2>1. /\ IsTracked(Flushed(buffer))
        /\ \/ Reallocates(buffer, Flushed(buffer))
           \/ /\ Flushed(buffer).epoch = buffer.epoch
              /\ buffer.dirty = {} => Flushed(buffer).rows = buffer.rows
    BY <1>1, FlushedKeeps
  <2>2. /\ Became(Flushed(buffer)) /\ unnoted' = (buffer.dirty # {})
        /\ ~unnoted /\ UNCHANGED <<entryInner, consumer>>
    BY <1>3 DEF FlushBuffer
  <2>3. Flushed(buffer).epoch = buffer.epoch => ~Reallocates(buffer, Flushed(buffer))
    BY <1>1 DEF Reallocates, IsTracked, TrackedBuffers
  <2> QED
    BY <2>1, <2>2, <2>3, BufferStep
<1>4. ASSUME NEW row \in BufferRows, NEW value \in RowValues, WriteRowGrowing(row, value)
      PROVE  RegistryInv'
  <2> DEFINE wide == EnsureCapacity(buffer, row + 1)
             rows == [wide.rows EXCEPT ![row] = value]
             b == [wide EXCEPT !.rows = rows]
  <2>1. IsTracked(wide) /\ (Reallocates(buffer, wide) \/ wide = buffer)
    BY <1>1, EnsureCapacityKeeps
  <2>2. Became(b) /\ unnoted' = TRUE /\ UNCHANGED <<entryInner, consumer>>
    BY <1>4 DEF WriteRowGrowing
  <2> HIDE DEF wide
  <2>3. IsRows(rows)
    BY <2>1 DEF IsTracked, IsRows
  <2> HIDE DEF rows
  <2>4. IsTracked(b) /\ b.epoch = wide.epoch
    BY <2>1, <2>3, SetRows
  <2> HIDE DEF b
  <2>5. Reallocates(buffer, b) \/ b.epoch = buffer.epoch
    BY <2>1, <2>4 DEF Reallocates
  <2> QED
    BY <2>2, <2>4, <2>5, BufferStep
<1>5. ASSUME NEW row \in BufferRows, ReserveRows(row + 1) PROVE RegistryInv'
  <2> DEFINE b == IF kind = "tracked" THEN TrackedReserve(buffer, row + 1)
                  ELSE EnsureCapacity(buffer, row + 1)
  <2>1. IsTracked(b) /\ (Reallocates(buffer, b) \/ LeavesRows(buffer, b))
    BY <1>1, EnsureCapacityKeeps, TrackedReserveKeeps DEF LeavesRows
  <2>2. Became(b) /\ UNCHANGED <<unnoted, entryInner, consumer>>
    BY <1>5 DEF ReserveRows
  <2> HIDE DEF b
  <2>3. b.epoch = buffer.epoch => ~Reallocates(buffer, b)
    BY <1>1 DEF Reallocates, IsTracked, TrackedBuffers
  <2> QED
    BY <2>1, <2>2, <2>3, BufferStep DEF LeavesRows, RegistryInv, RegistryTypeOK
<1>6. ASSUME NEW row \in BufferRows, ShrinkToFit(row) PROVE RegistryInv'
  <2> DEFINE b == IF kind = "tracked" THEN TrackedShrunk(buffer, row, Slack)
                  ELSE Shrunk(buffer, row, Slack)
  <2>1. IsTracked(b) /\ (Reallocates(buffer, b) \/ LeavesRows(buffer, b))
    BY <1>1, ShrunkKeeps, TrackedShrunkKeeps DEF LeavesRows
  <2>2. Became(b) /\ UNCHANGED <<unnoted, entryInner, consumer>>
    BY <1>6 DEF ShrinkToFit
  <2> HIDE DEF b
  <2>3. b.epoch = buffer.epoch => ~Reallocates(buffer, b)
    BY <1>1 DEF Reallocates, IsTracked, TrackedBuffers
  <2> QED
    BY <2>1, <2>2, <2>3, BufferStep DEF LeavesRows, RegistryInv, RegistryTypeOK
<1>7. CASE CloneBuffer \/ ReadEpoch \/ Sync \/ Resolve \/ NoteContent
  BY <1>7, ConsumerStep
<1>8. CASE UNCHANGED registryVars
  BY <1>8 DEF registryVars, RegistryInv, RegistryTypeOK, AllocationsKept, NothingAhead, HandoffCurrent
<1> QED
  BY <1>2, <1>3, <1>4, <1>5, <1>6, <1>7, <1>8 DEF RegistryNext

\* The inductive invariant of the registry: it holds in every reachable state.
THEOREM RegistryInvariant == RegistrySpec => []RegistryInv
BY RegistryInvInitially, RegistryInvStep, PTL DEF RegistrySpec

\* A consumer that re-resolves a buffer only when its epoch or contents have
\* changed never misses a write or a growth, whatever happens between the two
\* locks of a resolve, as long as the handle it took is not a torn one
\* (SceneGpuStore::resolve_buffer_handle, GpuBufferRegistry::sync).
THEOREM HandoffsAreCurrent == RegistrySpec => []HandoffCurrent
BY RegistryInvariant, PTL DEF RegistryInv

\* An allocation that the registry names, or that a resolve under way holds,
\* is the buffer's own or one kept alive by that: what is copied is there.
THEOREM NamedAllocationsKept == RegistrySpec => []AllocationsKept
BY RegistryInvariant, PTL DEF RegistryInv

-----------------------------------------------------------------------------
(* Capacities.                                                             *)

\* Doubling reaches what is asked for.
LEMMA DoubledCovers ==
  ASSUME NEW cap \in Nat, NEW min \in Nat
  PROVE  Doubled(cap, min) \in Nat /\ min <= Doubled(cap, min)
<1> DEFINE one == IF cap = 0 THEN 1 ELSE cap
<1>1. one \in Nat \ {0}
  OBVIOUS
<1> HIDE DEF one
<1>2. Doubled(cap, min) = Min({n \in {one * 2 ^ k : k \in 0 .. min} : n >= min})
  BY DEF Doubled, Min, one
<1> QED
  BY <1>1, <1>2, DoublingReaches

\* The rows of an array are numbered from 0.
IsArray(rows) == IsRows(rows) /\ \E n \in Nat : DOMAIN rows = 0 .. n - 1

LEMMA ArrayCapacity ==
  ASSUME NEW rows, IsArray(rows)
  PROVE  CapacityOf(rows) \in Nat /\ DOMAIN rows = 0 .. CapacityOf(rows) - 1
<1>1. PICK n \in Nat : DOMAIN rows = 0 .. n - 1
  BY DEF IsArray
<1>2. Cardinality(0 .. n - 1) = n
  BY FS_Interval
<1> QED
  BY <1>1, <1>2 DEF CapacityOf

LEMMA FirstRowsArray ==
  ASSUME NEW rows, NEW n \in Nat
  PROVE  IsArray(FirstRows(rows, n)) /\ DOMAIN FirstRows(rows, n) = 0 .. n - 1
BY DEF FirstRows, IsArray, IsRows

-----------------------------------------------------------------------------
(* A dirty-tracked buffer: a row of the mirror that waits for no upload is *)
(* on the GPU as it is in the shadow.                                      *)

ShadowRow(b, i) == IF i \in DOMAIN b.shadow THEN b.shadow[i] ELSE Blank

IsSound(b) ==
  /\ IsTracked(b)
  /\ IsArray(b.rows) /\ IsArray(b.shadow)
  /\ b.dirty \subseteq DOMAIN b.shadow
  /\ \A i \in MirrorRows \ b.dirty : GpuRow(b, i) = ShadowRow(b, i)

\* The limit of the device is no obstacle: the buffers are registered without one.
RowsFit == \A row \in MirrorRows : CanHold(row + 1)

LEMMA MirrorRowsNat == MirrorRows \subseteq Nat
<1>1. Cardinality(MirrorRows) \in Nat
  BY MirrorAssumption, FS_CardinalityType
<1> QED
  BY <1>1, MirrorAssumption

\* A growth of the shadow covers what it should and shows what it showed.
LEMMA ShadowGrownShows ==
  ASSUME NEW b, IsSound(b), NEW n \in Nat
  PROVE  LET c == ShadowGrown(b, n)
         IN /\ IsSound(c)
            /\ c.dirty = b.dirty /\ c.rows = b.rows
            /\ \A i : ShadowRow(c, i) = ShadowRow(b, i)
            /\ 0 .. n - 1 \subseteq DOMAIN c.shadow
            /\ DOMAIN b.shadow \subseteq DOMAIN c.shadow
<1> DEFINE shadow == FirstRows(b.shadow, n)
           wide == [b EXCEPT !.shadow = shadow]
           cap == CapacityOf(b.shadow)
<1>1. cap \in Nat /\ DOMAIN b.shadow = 0 .. cap - 1
  BY ArrayCapacity DEF IsSound
<1>2. CASE n <= cap
  <2>1. ShadowGrown(b, n) = b
    BY <1>2 DEF ShadowGrown
  <2> QED
    BY <1>1, <1>2, <2>1
<1>3. CASE ~(n <= cap)
  <2>1. ShadowGrown(b, n) = wide
    BY <1>3 DEF ShadowGrown
  <2>2. IsArray(shadow) /\ DOMAIN shadow = 0 .. n - 1
    BY FirstRowsArray
  <2>3. \A i \in 0 .. n - 1 : shadow[i] = IF i \in DOMAIN b.shadow THEN b.shadow[i] ELSE Blank
    BY DEF FirstRows
  <2> HIDE DEF shadow
  <2>4. IsTracked(wide) /\ wide.shadow = shadow /\ wide.rows = b.rows /\ wide.dirty = b.dirty
    BY SetShadow DEF IsSound
  <2> HIDE DEF wide, cap
  <2>5. DOMAIN b.shadow \subseteq DOMAIN shadow
    BY <1>1, <1>3, <2>2
  <2>6. \A i : ShadowRow(wide, i) = ShadowRow(b, i)
    BY <2>2, <2>3, <2>4, <2>5 DEF ShadowRow
  <2>7. \A i : GpuRow(wide, i) = GpuRow(b, i)
    BY <2>4 DEF GpuRow
  <2>8. IsSound(wide)
    BY <2>2, <2>4, <2>5, <2>6, <2>7 DEF IsSound
  <2> QED
    BY <2>1, <2>2, <2>4, <2>5, <2>6, <2>8
<1> QED
  BY <1>2, <1>3

\* Some rows of the shadow are written and marked, all of which it has.
Overwrites(b, rows, shadow, dirty) ==
  /\ rows \subseteq DOMAIN b.shadow
  /\ IsRows(shadow) /\ DOMAIN shadow = DOMAIN b.shadow
  /\ \A i \in DOMAIN shadow \ rows : shadow[i] = b.shadow[i]
  /\ dirty = b.dirty \cup rows

Overwritten(b, shadow, dirty) == [[b EXCEPT !.shadow = shadow] EXCEPT !.dirty = dirty]

LEMMA WrittenShows ==
  ASSUME NEW b, IsSound(b), NEW rows, NEW shadow, NEW dirty,
         Overwrites(b, rows, shadow, dirty)
  PROVE  LET c == Overwritten(b, shadow, dirty)
         IN /\ IsSound(c)
            /\ \A i : i \notin rows => ShadowRow(c, i) = ShadowRow(b, i)
            /\ \A i \in rows : ShadowRow(c, i) = shadow[i]
<1> USE DEF Overwrites
<1> DEFINE written == [b EXCEPT !.shadow = shadow]
           marked == [written EXCEPT !.dirty = dirty]
<1>1. IsTracked(written) /\ written.shadow = shadow /\ written.rows = b.rows
  BY SetShadow DEF IsSound
<1> HIDE DEF written
<1>2. IsTracked(marked) /\ marked.shadow = shadow /\ marked.rows = b.rows /\ marked.dirty = dirty
  BY <1>1, SetDirty
<1> HIDE DEF marked
<1>3. \A i : i \notin rows => ShadowRow(marked, i) = ShadowRow(b, i)
  BY <1>2 DEF ShadowRow
<1>4. \A i \in rows : ShadowRow(marked, i) = shadow[i]
  BY <1>2 DEF ShadowRow
<1>5. \A i \in MirrorRows \ marked.dirty : GpuRow(marked, i) = ShadowRow(marked, i)
  BY <1>2, <1>3 DEF GpuRow, IsSound
<1>6. IsSound(marked)
  BY <1>2, <1>5 DEF IsSound, IsArray
<1> QED
  BY <1>3, <1>4, <1>6 DEF marked, written, Overwritten

\* mark_dirty of one row.
LEMMA MarkDirtyShows ==
  ASSUME NEW b, IsSound(b), NEW row \in Nat, NEW value
  PROVE  LET c == MarkDirty(b, row, value)
         IN /\ IsSound(c)
            /\ ShadowRow(c, row) = value
            /\ \A i : i # row => ShadowRow(c, i) = ShadowRow(b, i)
<1> DEFINE size == Doubled(CapacityOf(b.shadow), row + 1)
           wide == ShadowGrown(b, size)
           shadow == [wide.shadow EXCEPT ![row] = value]
           dirty == wide.dirty \cup {row}
<1>1. MarkDirty(b, row, value) = [[wide EXCEPT !.shadow = shadow] EXCEPT !.dirty = dirty]
  BY DEF MarkDirty
<1>2. size \in Nat /\ row + 1 <= size
  BY ArrayCapacity, DoubledCovers DEF IsSound
<1> HIDE DEF size
<1>3. IsSound(wide) /\ row \in DOMAIN wide.shadow /\ \A i : ShadowRow(wide, i) = ShadowRow(b, i)
  BY <1>2, ShadowGrownShows
<1> HIDE DEF wide
<1>4. /\ IsRows(shadow) /\ DOMAIN shadow = DOMAIN wide.shadow /\ shadow[row] = value
      /\ \A i \in DOMAIN shadow \ {row} : shadow[i] = wide.shadow[i]
  BY <1>3 DEF IsRows
<1> HIDE DEF shadow, dirty
<1> DEFINE marked == Overwritten(wide, shadow, dirty)
<1>5. /\ IsSound(marked)
      /\ \A i : i \notin {row} => ShadowRow(marked, i) = ShadowRow(wide, i)
      /\ \A i \in {row} : ShadowRow(marked, i) = shadow[i]
  <2> DEFINE rows == {row}
  <2>1. dirty = wide.dirty \cup rows
    BY DEF dirty
  <2>2. rows \subseteq DOMAIN wide.shadow /\ \A i \in DOMAIN shadow \ rows : shadow[i] = wide.shadow[i]
    BY <1>3, <1>4
  <2> HIDE DEF rows
  <2>4. Overwrites(wide, rows, shadow, dirty)
    BY <1>4, <2>1, <2>2 DEF Overwrites
  <2>3. /\ IsSound(marked)
        /\ \A i : i \notin rows => ShadowRow(marked, i) = ShadowRow(wide, i)
        /\ \A i \in rows : ShadowRow(marked, i) = shadow[i]
    BY <1>3, <2>4, WrittenShows
  <2> QED
    BY <2>3 DEF rows
<1> HIDE DEF marked
<1>6. MarkDirty(b, row, value) = marked
  BY <1>1 DEF marked, Overwritten
<1> QED
  BY <1>3, <1>4, <1>5, <1>6

\* The largest of some rows of the mirror.
LEMMA LargestIsIn ==
  ASSUME NEW S \in SUBSET MirrorRows, S # {}
  PROVE  Max(S) \in Nat /\ Max(S) \in S /\ \A i \in S : i <= Max(S)
<1> DEFINE n == Cardinality(MirrorRows)
           above == {m \in Nat : \A i \in S : i <= m}
<1>1. n \in Nat /\ MirrorRows = 0 .. n - 1
  BY MirrorAssumption, FS_CardinalityType
<1> HIDE DEF n
<1>2. n \in above /\ S \subseteq Nat
  BY <1>1
<1>3. Min(above) \in above /\ \A m \in above : Min(above) <= m
  BY <1>2, LeastIsIn
<1> DEFINE top == Min(above)
<1> HIDE DEF top
<1>4. top \in Nat /\ (\A i \in S : i <= top) /\ \A m \in above : top <= m
  BY <1>3 DEF top
<1>5. top \in S
  <2>1. SUFFICES ASSUME top \notin S PROVE FALSE
    OBVIOUS
  <2>2. \A i \in S : i <= top - 1
    BY <1>2, <1>4, <2>1
  <2>3. top # 0
    <3>1. PICK i \in S : i \in Nat
      BY <1>2
    <3> QED
      BY <1>4, <2>2, <3>1
  <2>4. top - 1 \in above
    BY <1>4, <2>2, <2>3
  <2> QED
    BY <1>4, <2>4
<1>6. \E x \in S : \A y \in S : x >= y
  BY <1>2, <1>4, <1>5
<1>7. Max(S) \in S /\ \A y \in S : Max(S) >= y
  BY <1>6 DEF Max
<1> QED
  BY <1>2, <1>7

\* The marks of several rows.
LEMMA MarkDirtyAllShows ==
  ASSUME NEW b, IsSound(b), NEW marks, DOMAIN marks \subseteq MirrorRows
  PROVE  LET c == MarkDirtyAll(b, marks)
         IN /\ IsSound(c)
            /\ \A i \in DOMAIN marks : ShadowRow(c, i) = marks[i]
            /\ \A i : i \notin DOMAIN marks => ShadowRow(c, i) = ShadowRow(b, i)
<1> DEFINE rows == DOMAIN marks
           size == Doubled(CapacityOf(b.shadow), Max(rows) + 1)
           wide == ShadowGrown(b, size)
           shadow == [i \in DOMAIN wide.shadow |-> IF i \in rows THEN marks[i] ELSE wide.shadow[i]]
           dirty == wide.dirty \cup rows
           marked == Overwritten(wide, shadow, dirty)
<1>1. MarkDirtyAll(b, marks) = IF rows = {} THEN b ELSE marked
  BY DEF MarkDirtyAll, Overwritten
<1>2. CASE rows = {}
  BY <1>1, <1>2
<1>3. CASE rows # {}
  <2>1. Max(rows) \in Nat /\ \A i \in rows : i <= Max(rows)
    BY <1>3, LargestIsIn
  <2> DEFINE least == Max(rows) + 1
             cap == CapacityOf(b.shadow)
  <2>11. least \in Nat /\ cap \in Nat
    BY <2>1, ArrayCapacity DEF IsSound
  <2> HIDE DEF least, cap
  <2>12. Doubled(cap, least) \in Nat /\ least <= Doubled(cap, least)
    BY <2>11, DoubledCovers
  <2>2. size \in Nat /\ Max(rows) + 1 <= size
    BY <2>12 DEF least, cap
  <2>13. rows \subseteq Nat
    BY MirrorRowsNat
  <2> HIDE DEF size
  <2>3. rows \subseteq 0 .. size - 1
    BY <2>1, <2>2, <2>13
  <2>4. /\ IsSound(wide) /\ 0 .. size - 1 \subseteq DOMAIN wide.shadow
        /\ \A i : ShadowRow(wide, i) = ShadowRow(b, i)
    BY <2>2, ShadowGrownShows
  <2> HIDE DEF wide
  <2>5. IsRows(shadow) /\ DOMAIN shadow = DOMAIN wide.shadow
    BY DEF IsRows
  <2>6. \A i \in DOMAIN shadow \ rows : shadow[i] = wide.shadow[i]
    OBVIOUS
  <2>7. \A i \in rows : shadow[i] = marks[i]
    BY <2>3, <2>4
  <2>8. rows \subseteq DOMAIN wide.shadow /\ dirty = wide.dirty \cup rows
    BY <2>3, <2>4
  <2> HIDE DEF shadow, dirty, rows
  <2>10. Overwrites(wide, rows, shadow, dirty)
    BY <2>5, <2>6, <2>8 DEF Overwrites
  <2>9. /\ IsSound(marked)
        /\ \A i : i \notin rows => ShadowRow(marked, i) = ShadowRow(wide, i)
        /\ \A i \in rows : ShadowRow(marked, i) = shadow[i]
    BY <2>4, <2>10, WrittenShows
  <2> HIDE DEF marked
  <2> QED
    BY <1>1, <1>3, <2>4, <2>7, <2>9 DEF rows
<1> QED
  BY <1>2, <1>3

-----------------------------------------------------------------------------
(* Allocations.                                                            *)

\* Growth stops at the device's limit, which is beyond every row.
LEMMA GrownHolds ==
  ASSUME NEW cap \in Nat, NEW min \in Nat
  PROVE  /\ GrownCapacity(cap, min) \in Nat
         /\ GrownCapacity(cap, min) >= min \/ GrownCapacity(cap, min) = PoolCeiling
<1>1. Doubled(cap, min) \in Nat /\ min <= Doubled(cap, min) /\ PoolCeiling \in Nat
  BY DoubledCovers, BufferAssumption
<1> QED
  BY <1>1 DEF GrownCapacity

\* ensure_capacity keeps what each row of the mirror shows, and has those
\* below what it was asked for.
LEMMA EnsureCapacityShows ==
  ASSUME RowsFit, NEW b, IsTracked(b), IsArray(b.rows), NEW n \in Nat
  PROVE  LET c == EnsureCapacity(b, n)
         IN /\ IsTracked(c) /\ IsArray(c.rows)
            /\ c.shadow = b.shadow /\ c.dirty = b.dirty
            /\ \A i \in MirrorRows : GpuRow(c, i) = GpuRow(b, i)
            /\ \A i \in MirrorRows : i < n => i \in DOMAIN c.rows
<1> DEFINE cap == CapacityOf(b.rows)
           size == GrownCapacity(cap, n)
           rows == FirstRows(b.rows, size)
<1>1. cap \in Nat /\ DOMAIN b.rows = 0 .. cap - 1
  BY ArrayCapacity
<1>2. CASE n <= cap
  <2>1. EnsureCapacity(b, n) = b
    BY <1>2 DEF EnsureCapacity
  <2> QED
    BY <1>1, <1>2, <2>1, MirrorRowsNat
<1>3. CASE ~(n <= cap)
  <2>1. EnsureCapacity(b, n) = Reallocated(b, size)
    BY <1>3 DEF EnsureCapacity
  <2>2. size \in Nat /\ (size >= n \/ size = PoolCeiling)
    BY <1>1, GrownHolds
  <2>3. \A i \in MirrorRows : i \in Nat /\ i + 1 <= PoolCeiling
    BY MirrorRowsNat DEF RowsFit, CanHold
  <2>4. \A i \in MirrorRows : (i < n \/ i < cap) => i \in 0 .. size - 1
    BY <1>1, <1>3, <2>2, <2>3
  <2> HIDE DEF cap, size
  <2>5. IsArray(rows) /\ DOMAIN rows = 0 .. size - 1
    BY <2>2, FirstRowsArray
  <2>6. \A i \in 0 .. size - 1 : rows[i] = IF i \in DOMAIN b.rows THEN b.rows[i] ELSE Blank
    BY DEF FirstRows
  <2> HIDE DEF rows
  <2>7. Reallocated(b, size) = [[b EXCEPT !.rows = rows] EXCEPT !.epoch = b.epoch + 1]
    BY DEF Reallocated, rows
  <2> DEFINE c == Reallocated(b, size)
  <2>8. IsTracked(c) /\ c.shadow = b.shadow /\ c.dirty = b.dirty /\ c.rows = rows
    <3> DEFINE moved == [b EXCEPT !.rows = rows]
               epoch == b.epoch + 1
    <3>1. IsTracked(moved) /\ moved.rows = rows
      BY <2>5, SetRows DEF IsArray
    <3>2. epoch \in Nat
      BY DEF IsTracked, TrackedBuffers
    <3>3. c = [moved EXCEPT !.epoch = epoch]
      BY <2>7
    <3> HIDE DEF moved, epoch
    <3>4. IsTracked([moved EXCEPT !.epoch = epoch]) /\ [moved EXCEPT !.epoch = epoch].rows = moved.rows
      BY <3>1, <3>2, SetEpoch
    <3>5. c.shadow = b.shadow /\ c.dirty = b.dirty
      BY ReallocatedType
    <3> QED
      BY <3>1, <3>3, <3>4, <3>5
  <2> HIDE DEF c
  <2>9. \A i \in MirrorRows : GpuRow(c, i) = GpuRow(b, i)
    BY <1>1, <2>3, <2>4, <2>5, <2>6, <2>8 DEF GpuRow
  <2> QED
    BY <2>1, <2>4, <2>5, <2>8, <2>9 DEF c
<1> QED
  BY <1>2, <1>3

\* A buffer whose shadow stayed and whose rows show what they did is sound.
LEMMA SameShows ==
  ASSUME NEW b, IsSound(b), NEW c, IsTracked(c), IsArray(c.rows),
         c.shadow = b.shadow, c.dirty = b.dirty,
         \A i \in MirrorRows : GpuRow(c, i) = GpuRow(b, i)
  PROVE  IsSound(c) /\ \A i : ShadowRow(c, i) = ShadowRow(b, i)
BY DEF IsSound, ShadowRow

LEMMA SameEpochShows ==
  ASSUME NEW b, IsSound(b)
  PROVE  /\ IsSound(SameEpoch(b)) /\ SameEpoch(b).dirty = b.dirty
         /\ \A i : ShadowRow(SameEpoch(b), i) = ShadowRow(b, i)
<1> DEFINE c == SameEpoch(b)
           zero == 0
<1>1. c = [b EXCEPT !.epoch = zero] /\ zero \in Nat
  BY DEF SameEpoch
<1> HIDE DEF zero
<1>2. IsTracked(c) /\ c.rows = b.rows /\ c.shadow = b.shadow /\ c.dirty = b.dirty
  BY <1>1, SetEpoch DEF IsSound
<1> HIDE DEF c
<1>3. IsSound(c) /\ \A i : ShadowRow(c, i) = ShadowRow(b, i)
  BY <1>2 DEF IsSound, ShadowRow, GpuRow
<1> QED
  BY <1>2, <1>3 DEF c

\* reserve changes no row.
LEMMA ReserveShows ==
  ASSUME RowsFit, NEW b, IsSound(b), NEW n \in Nat
  PROVE  LET c == TrackedReserve(b, n)
         IN IsSound(c) /\ \A i : ShadowRow(c, i) = ShadowRow(b, i)
<1> DEFINE wide == EnsureCapacity(b, n)
           c == ShadowGrown(wide, n)
<1>1. /\ IsTracked(wide) /\ IsArray(wide.rows)
      /\ wide.shadow = b.shadow /\ wide.dirty = b.dirty
      /\ \A i \in MirrorRows : GpuRow(wide, i) = GpuRow(b, i)
  BY EnsureCapacityShows DEF IsSound
<1> HIDE DEF wide
<1>2. IsSound(wide) /\ \A i : ShadowRow(wide, i) = ShadowRow(b, i)
  BY <1>1, SameShows
<1>3. IsSound(c) /\ \A i : ShadowRow(c, i) = ShadowRow(wide, i)
  BY <1>2, ShadowGrownShows
<1>4. TrackedReserve(b, n) = c
  BY DEF TrackedReserve, wide
<1> QED
  BY <1>2, <1>3, <1>4

\* A flush uploads everything, and the shadow stays.
LEMMA FlushShows ==
  ASSUME RowsFit, NEW b, IsSound(b)
  PROVE  LET c == Flushed(b)
         IN IsSound(c) /\ \A i : ShadowRow(c, i) = ShadowRow(b, i)
<1> DEFINE n == CapacityOf(b.shadow)
           wide == EnsureCapacity(b, n)
           rows == [i \in DOMAIN wide.rows |-> IF i \in b.dirty THEN b.shadow[i] ELSE wide.rows[i]]
           written == [wide EXCEPT !.rows = rows]
           clean == {}
           c == [written EXCEPT !.dirty = clean]
<1>1. Flushed(b) = c
  BY DEF Flushed
<1>2. n \in Nat /\ DOMAIN b.shadow = 0 .. n - 1
  BY ArrayCapacity DEF IsSound
<1> HIDE DEF n
<1>3. /\ IsTracked(wide) /\ IsArray(wide.rows)
      /\ wide.shadow = b.shadow /\ wide.dirty = b.dirty
      /\ \A i \in MirrorRows : GpuRow(wide, i) = GpuRow(b, i)
      /\ \A i \in MirrorRows : i < n => i \in DOMAIN wide.rows
  BY <1>2, EnsureCapacityShows DEF IsSound
<1> HIDE DEF wide
<1>4. IsArray(rows)
  BY <1>3 DEF IsArray, IsRows
<1>5. DOMAIN rows = DOMAIN wide.rows
      /\ \A i \in DOMAIN rows : rows[i] = IF i \in b.dirty THEN b.shadow[i] ELSE wide.rows[i]
  OBVIOUS
<1> HIDE DEF rows, clean
<1>6. IsTracked(written) /\ written.rows = rows /\ written.shadow = b.shadow
  BY <1>3, <1>4, SetRows DEF IsArray
<1> HIDE DEF written
<1>7. IsTracked(c) /\ c.rows = rows /\ c.shadow = b.shadow /\ c.dirty = clean
  BY <1>6, SetDirty
<1> HIDE DEF c
<1>8. \A i : ShadowRow(c, i) = ShadowRow(b, i)
  BY <1>7 DEF ShadowRow
<1>9. ASSUME NEW i \in MirrorRows PROVE GpuRow(c, i) = ShadowRow(b, i)
  <2>1. CASE i \in b.dirty
    <3>1. i \in DOMAIN b.shadow /\ i < n
      BY <1>2, <2>1 DEF IsSound
    <3> QED
      BY <1>3, <1>5, <1>7, <2>1, <3>1 DEF GpuRow, ShadowRow
  <2>2. CASE i \notin b.dirty
    <3>1. GpuRow(b, i) = ShadowRow(b, i)
      BY <2>2 DEF IsSound
    <3>2. GpuRow(c, i) = GpuRow(wide, i)
      BY <1>5, <1>7, <2>2 DEF GpuRow
    <3> QED
      BY <1>3, <3>1, <3>2
  <2> QED
    BY <2>1, <2>2
<1>10. IsSound(c)
  BY <1>4, <1>7, <1>8, <1>9 DEF IsSound, clean
<1> QED
  BY <1>1, <1>8, <1>10

\* shrink_to_fit keeps the rows up to the highest one in use; of the others
\* each is as it was or blank.
CutTo(b, n, c) ==
  /\ IsSound(c)
  /\ \A i \in MirrorRows : ShadowRow(c, i) = ShadowRow(b, i) \/ (i > n /\ ShadowRow(c, i) = Blank)

LEMMA ShrinkShows ==
  ASSUME NEW b, IsSound(b), NEW n \in Nat, NEW slack \in Nat
  PROVE  CutTo(b, n, TrackedShrunk(b, n, slack))
<1> DEFINE target == n + 1 + slack
           shadow == FirstRows(b.shadow, target)
           cut == [b EXCEPT !.shadow = shadow]
           dirty == b.dirty \cap 0 .. target - 1
           kept == [cut EXCEPT !.dirty = dirty]
           rows == FirstRows(b.rows, target)
           cap == CapacityOf(b.rows)
           width == CapacityOf(b.shadow)
<1>1. TrackedShrunk(b, n, slack) =
        IF target >= CapacityOf(b.shadow) THEN b ELSE Shrunk(kept, n, slack)
  BY DEF TrackedShrunk
<1>2. CASE target >= CapacityOf(b.shadow)
  <2>1. TrackedShrunk(b, n, slack) = b
    BY <1>1, <1>2
  <2>2. CutTo(b, n, b)
    BY DEF CutTo
  <2> QED
    BY <2>1, <2>2
<1>3. CASE ~(target >= CapacityOf(b.shadow))
  <2>1. target \in Nat /\ n < target
    OBVIOUS
  <2>2. /\ cap \in Nat /\ DOMAIN b.rows = 0 .. cap - 1
        /\ width \in Nat /\ DOMAIN b.shadow = 0 .. width - 1
    BY ArrayCapacity DEF IsSound
  <2>3. Shrunk(kept, n, slack) =
          IF target >= CapacityOf(kept.rows) THEN kept ELSE Reallocated(kept, target)
    BY DEF Shrunk
  <2>4. target < width
    BY <1>3, <2>1, <2>2
  <2> HIDE DEF target, cap, width
  <2>5. IsArray(shadow) /\ DOMAIN shadow = 0 .. target - 1
        /\ IsArray(rows) /\ DOMAIN rows = 0 .. target - 1
    BY <2>1, FirstRowsArray
  <2>6. /\ \A i \in 0 .. target - 1 : shadow[i] = IF i \in DOMAIN b.shadow THEN b.shadow[i] ELSE Blank
        /\ \A i \in 0 .. target - 1 : rows[i] = IF i \in DOMAIN b.rows THEN b.rows[i] ELSE Blank
    BY DEF FirstRows
  <2>7. dirty \subseteq 0 .. target - 1 /\ \A i \in 0 .. target - 1 : i \in dirty <=> i \in b.dirty
    OBVIOUS
  <2>8. rows = FirstRows(b.rows, target)
    OBVIOUS
  <2> HIDE DEF shadow, rows, dirty
  <2>9. IsTracked(cut) /\ cut.shadow = shadow /\ cut.rows = b.rows
    BY SetShadow DEF IsSound
  <2> HIDE DEF cut
  <2>10. IsTracked(kept) /\ kept.shadow = shadow /\ kept.rows = b.rows /\ kept.dirty = dirty
    BY <2>9, SetDirty
  <2> HIDE DEF kept
  <2> DEFINE c == Shrunk(kept, n, slack)
  <2>11. IsTracked(c) /\ c.shadow = shadow /\ c.dirty = dirty
    BY <2>3, <2>10, ReallocatedType
  <2>12. IF target >= cap THEN c.rows = b.rows ELSE c.rows = rows
    <3>1. CASE target >= cap
      BY <2>3, <2>10, <3>1 DEF cap
    <3>2. CASE ~(target >= cap)
      <4> DEFINE moved == [kept EXCEPT !.rows = rows]
                 epoch == kept.epoch + 1
      <4>1. c = [moved EXCEPT !.epoch = epoch]
        BY <2>3, <2>8, <2>10, <3>2 DEF Reallocated, cap
      <4>2. IsTracked(moved) /\ moved.rows = rows
        BY <2>5, <2>10, SetRows DEF IsArray
      <4>3. epoch \in Nat
        BY <2>10 DEF IsTracked, TrackedBuffers
      <4> HIDE DEF moved, epoch
      <4>4. [moved EXCEPT !.epoch = epoch].rows = moved.rows
        BY <4>2, <4>3, SetEpoch
      <4> QED
        BY <3>2, <4>1, <4>2, <4>4
    <3> QED
      BY <3>1, <3>2
  <2> HIDE DEF c
  <2>13. IsArray(c.rows)
    BY <2>5, <2>12 DEF IsSound
  <2>14. ASSUME NEW i \in MirrorRows, i < target
         PROVE  ShadowRow(c, i) = ShadowRow(b, i) /\ GpuRow(c, i) = GpuRow(b, i)
    <3>1. i \in 0 .. target - 1 /\ i \in DOMAIN b.shadow
      BY <2>1, <2>2, <2>4, <2>14, MirrorRowsNat
    <3>2. ShadowRow(c, i) = ShadowRow(b, i)
      BY <2>5, <2>6, <2>11, <3>1 DEF ShadowRow
    <3>3. CASE target >= cap
      BY <2>12, <3>2, <3>3 DEF GpuRow
    <3>4. CASE ~(target >= cap)
      <4>1. i \in DOMAIN b.rows /\ i \in DOMAIN rows /\ rows[i] = b.rows[i]
        BY <2>1, <2>2, <2>5, <2>6, <3>1, <3>4
      <4> QED
        BY <2>12, <3>2, <3>4, <4>1 DEF GpuRow
    <3> QED
      BY <3>3, <3>4
  <2>15. ASSUME NEW i \in MirrorRows, ~(i < target)
         PROVE  ShadowRow(c, i) = Blank /\ GpuRow(c, i) = Blank
    <3>1. i \in Nat /\ i \notin 0 .. target - 1
      BY <2>1, <2>15, MirrorRowsNat
    <3>2. i \notin DOMAIN c.rows
      BY <2>1, <2>2, <2>5, <2>12, <2>15, <3>1
    <3> QED
      BY <2>5, <2>11, <3>1, <3>2 DEF ShadowRow, GpuRow
  <2>16. ASSUME NEW i \in MirrorRows \ c.dirty PROVE GpuRow(c, i) = ShadowRow(c, i)
    <3>1. CASE i < target
      <4>1. i \in Nat /\ i \notin dirty
        BY <2>11, <2>16, MirrorRowsNat
      <4>2. i \in 0 .. target - 1
        BY <2>1, <3>1, <4>1
      <4>3. i \notin b.dirty
        BY <2>7, <4>1, <4>2
      <4> QED
        BY <2>14, <3>1, <4>3 DEF IsSound
    <3>2. CASE ~(i < target)
      BY <2>15, <3>2
    <3> QED
      BY <3>1, <3>2
  <2>17. IsSound(c)
    BY <2>5, <2>7, <2>11, <2>13, <2>16 DEF IsSound
  <2>18. CutTo(b, n, c)
    BY <2>1, <2>14, <2>15, <2>17, MirrorRowsNat DEF CutTo
  <2>19. TrackedShrunk(b, n, slack) = c
    BY <1>1, <1>3 DEF c, target
  <2> QED
    BY <2>18, <2>19
<1> QED
  BY <1>2, <1>3

\* A registered buffer.
LEMMA NewTrackedShows ==
  ASSUME NEW n \in Nat
  PROVE  /\ IsSound(NewTracked(n)) /\ \A i : ShadowRow(NewTracked(n), i) = Blank
<1> DEFINE blank == [i \in 0 .. n - 1 |-> Blank]
           b == NewTracked(n)
<1>1. b = [rows |-> blank, epoch |-> 0, shadow |-> blank, dirty |-> {}]
  BY DEF NewTracked
<1>2. IsArray(blank) /\ \A i \in DOMAIN blank : blank[i] = Blank
  BY DEF IsArray, IsRows
<1> HIDE DEF blank, b
<1>3. b \in TrackedBuffers({blank}, {blank}, {{}})
  BY <1>1 DEF TrackedBuffers
<1>4. IsTracked(b)
  BY <1>1, <1>2, <1>3 DEF IsTracked, IsArray
<1>5. \A i : ShadowRow(b, i) = Blank /\ GpuRow(b, i) = Blank
  BY <1>1, <1>2 DEF ShadowRow, GpuRow
<1>6. IsSound(b)
  BY <1>1, <1>2, <1>4, <1>5 DEF IsSound
<1> QED
  BY <1>5, <1>6 DEF b

-----------------------------------------------------------------------------
(* The World's mirror.                                                     *)

MirrorTypeOK ==
  /\ \E n \in Nat : generation \in [0 .. n - 1 -> Nat]
  /\ vacated \in Seq(MirrorRows)
  /\ \A i \in DOMAIN vacated : vacated[i] \in DOMAIN generation
  /\ field \in [MirrorRows -> FieldValues \cup {NoField}]
  /\ mode \in {"DirtyTracked", "Once"} /\ attached \in BOOLEAN
  /\ mirroredRows \subseteq MirrorRows /\ missed \subseteq MirrorRows
  /\ DOMAIN promised = MirrorRows
  /\ lastBearing \in [MirrorRows -> Int]

\* A row with the component, or with its generation mirrored, has an entity.
BearersLive ==
  \A row \in MirrorRows : Bearing(row) \/ row \in mirroredRows \ missed => Living(row)

\* The shadow shows what the mode promises.
PromiseKept ==
  \A row \in MirrorRows \ missed :
    /\ ShadowRow(column, row) = promised[row]
    /\ ~Bearing(row) => promised[row] = Blank

\* The shadow of the generations is ahead of the last dead entity that had
\* the component, and that of a mirrored row is its entity's.
GenerationsKept ==
  \A row \in MirrorRows \ missed :
    /\ ShadowRow(liveness, row) \in Nat
    /\ lastBearing[row] < ShadowRow(liveness, row)
    /\ row \in mirroredRows => ShadowRow(liveness, row) = generation[row]
    /\ attached /\ Bearing(row) => row \in mirroredRows
    /\ IF row \in DOMAIN generation THEN lastBearing[row] < generation[row]
       ELSE lastBearing[row] = None

MirrorInv ==
  /\ MirrorTypeOK
  /\ IsSound(liveness) /\ IsSound(column)
  /\ BearersLive /\ PromiseKept /\ GenerationsKept

\* The component of one row changes, and its shadow with it.
LEMMA MarkedPromise ==
  ASSUME MirrorInv, NEW row \in MirrorRows, NEW shown, NEW value,
         column' = MarkDirty(column, row, shown),
         promised' = [promised EXCEPT ![row] = shown],
         field' = [field EXCEPT ![row] = value], missed' = missed,
         value = NoField => shown = Blank
  PROVE  IsSound(column') /\ PromiseKept'
<1> USE DEF MirrorInv
<1>1. IsSound(column') /\ ShadowRow(column', row) = shown
      /\ \A i : i # row => ShadowRow(column', i) = ShadowRow(column, i)
  BY MarkDirtyShows, MirrorRowsNat
<1>2. DOMAIN promised = MirrorRows /\ DOMAIN field = MirrorRows
  BY DEF MirrorTypeOK
<1>3. ASSUME NEW r \in MirrorRows \ missed'
      PROVE  ShadowRow(column', r) = promised'[r] /\ (~Bearing(r)' => promised'[r] = Blank)
  <2>1. CASE r = row
    BY <1>1, <1>2, <2>1 DEF Bearing
  <2>2. CASE r # row
    BY <1>1, <1>2, <2>2 DEF Bearing, PromiseKept
  <2> QED
    BY <2>1, <2>2
<1> QED
  BY <1>1, <1>3 DEF PromiseKept

\* It changes, and the mirror is not told; or there is nothing to tell.
LEMMA UnmarkedPromise ==
  ASSUME MirrorInv, NEW row \in MirrorRows, NEW value,
         column' = column, field' = [field EXCEPT ![row] = value],
         missed \subseteq missed',
         \A r \in MirrorRows \ missed' : promised'[r] = promised[r],
         value = NoField => row \in missed' \/ ~Bearing(row)
  PROVE  IsSound(column') /\ PromiseKept'
<1> USE DEF MirrorInv
<1>1. DOMAIN field = MirrorRows
  BY DEF MirrorTypeOK
<1>2. ASSUME NEW r \in MirrorRows \ missed'
      PROVE  ShadowRow(column', r) = promised'[r] /\ (~Bearing(r)' => promised'[r] = Blank)
  BY <1>1, <1>2 DEF Bearing, PromiseKept
<1> QED
  BY <1>2 DEF PromiseKept

\* Where the generations' mirror and the World's slots stay, a component that
\* leaves or changes makes no difference to them.
LEMMA SlotsStay ==
  ASSUME MirrorInv, NEW row \in MirrorRows, NEW value \in FieldValues \cup {NoField},
         UNCHANGED <<mode, generation, vacated, attached, liveness, mirroredRows, lastBearing>>,
         field' = [field EXCEPT ![row] = value], value = NoField \/ Bearing(row),
         missed \subseteq missed', missed' \subseteq MirrorRows, DOMAIN promised' = MirrorRows,
         IsSound(column'), PromiseKept'
  PROVE  MirrorInv'
<1> USE DEF MirrorInv
<1>1. DOMAIN field = MirrorRows /\ MirrorTypeOK'
  BY DEF MirrorTypeOK
<1>2. \A r \in MirrorRows : Bearing(r)' => Bearing(r)
  BY <1>1 DEF Bearing
<1>3. BearersLive'
  BY <1>2 DEF BearersLive, Living
<1>4. GenerationsKept'
  BY <1>2 DEF GenerationsKept
<1> QED
  BY <1>1, <1>3, <1>4

LEMMA SpawnKeeps ==
  ASSUME MirrorInv, MirrorSpawn
  PROVE  MirrorInv'
<1> USE DEF MirrorInv
<1>1. UNCHANGED <<mode, field, attached, liveness, mirroredRows, column, promised, lastBearing, missed>>
  BY DEF MirrorSpawn, bufferVars, ghostVars
<1>2. PICK n \in Nat : generation \in [0 .. n - 1 -> Nat]
  BY DEF MirrorTypeOK
<1>3. /\ \E m \in Nat : generation' \in [0 .. m - 1 -> Nat]
      /\ vacated' \in Seq(MirrorRows)
      /\ \A i \in DOMAIN vacated' : vacated'[i] \in DOMAIN generation'
      /\ DOMAIN generation \subseteq DOMAIN generation'
      /\ \A r \in DOMAIN generation : generation[r] \in Nat /\ generation[r] <= generation'[r]
      /\ \A r : Living(r) => Living(r)' /\ generation'[r] = generation[r]
      /\ \A r \in DOMAIN generation' \ DOMAIN generation : generation'[r] \in Nat
  <2>1. CASE vacated # <<>>
    <3> DEFINE last == Len(vacated)
               row == vacated[last]
               front == SubSeq(vacated, 1, last - 1)
    <3>1. generation' = [generation EXCEPT ![row] = @ + 1] /\ vacated' = front
      BY <2>1 DEF MirrorSpawn
    <3>2. last \in Nat \ {0} /\ DOMAIN vacated = 1 .. last
      BY <2>1, EmptySeq, LenProperties DEF MirrorTypeOK
    <3>3. front \in Seq(MirrorRows) /\ DOMAIN front = 1 .. last - 1
          /\ \A i \in 1 .. last - 1 : front[i] = vacated[i]
      BY <3>2, SubSeqProperties DEF MirrorTypeOK
    <3>4. row \in DOMAIN generation /\ ~Living(row)
      BY <3>2 DEF MirrorTypeOK, Living
    <3> HIDE DEF row, front
    <3>5. generation' \in [0 .. n - 1 -> Nat]
      BY <1>2, <3>1, <3>4
    <3>6. \A i \in DOMAIN vacated' : i \in DOMAIN vacated /\ vacated'[i] = vacated[i]
      BY <3>1, <3>2, <3>3
    <3>7. \A i \in DOMAIN vacated' : vacated'[i] \in DOMAIN generation'
      BY <1>2, <3>5, <3>6 DEF MirrorTypeOK
    <3>8. \A r \in DOMAIN generation : generation[r] \in Nat /\ generation[r] <= generation'[r]
      BY <1>2, <3>1
    <3>9. ASSUME NEW r, Living(r) PROVE Living(r)' /\ generation'[r] = generation[r]
      BY <1>2, <3>1, <3>4, <3>5, <3>6, <3>9 DEF Living
    <3> QED
      BY <1>2, <3>1, <3>3, <3>5, <3>7, <3>8, <3>9
  <2>2. CASE ~(vacated # <<>>)
    <3> DEFINE m == Cardinality(DOMAIN generation)
    <3>1. m = n /\ DOMAIN generation = 0 .. n - 1
      BY <1>2, FS_Interval
    <3>2. /\ vacated' = vacated
          /\ generation' = [r \in 0 .. n |-> IF r \in DOMAIN generation THEN generation[r] ELSE 0]
      BY <2>2, <3>1 DEF MirrorSpawn
    <3>3. generation' \in [0 .. (n + 1) - 1 -> Nat] /\ n + 1 \in Nat
      BY <1>2, <3>1, <3>2
    <3>4. \A r \in DOMAIN generation : r \in DOMAIN generation' /\ generation'[r] = generation[r]
                                       /\ generation[r] \in Nat
      BY <1>2, <3>1, <3>2
    <3>5. \A r \in DOMAIN generation' : generation'[r] \in Nat
      BY <3>3
    <3>6. \E k \in Nat : generation' \in [0 .. k - 1 -> Nat]
      BY <3>3
    <3>7. vacated' \in Seq(MirrorRows) /\ \A i \in DOMAIN vacated' : vacated'[i] \in DOMAIN generation'
      BY <3>2, <3>4 DEF MirrorTypeOK
    <3>8. \A r \in DOMAIN generation : generation[r] \in Nat /\ generation[r] <= generation'[r]
      BY <3>4
    <3>9. ASSUME NEW r, Living(r) PROVE Living(r)' /\ generation'[r] = generation[r]
      BY <3>2, <3>4, <3>9 DEF Living
    <3> QED
      BY <3>4, <3>5, <3>6, <3>7, <3>8, <3>9
  <2> QED
    BY <2>1, <2>2
<1>4. MirrorTypeOK'
  BY <1>1, <1>3 DEF MirrorTypeOK
<1>5. BearersLive'
  BY <1>1, <1>3 DEF BearersLive, Bearing
<1>6. PromiseKept'
  BY <1>1 DEF PromiseKept, Bearing
<1>7. ASSUME NEW r \in MirrorRows \ missed
      PROVE  /\ r \in mirroredRows => generation'[r] = generation[r]
             /\ IF r \in DOMAIN generation' THEN lastBearing[r] < generation'[r]
                ELSE lastBearing[r] = None
  <2>1. r \in mirroredRows => Living(r)
    BY DEF BearersLive
  <2>2. lastBearing[r] \in Int
    BY DEF MirrorTypeOK
  <2>3. CASE r \in DOMAIN generation
    BY <1>3, <2>1, <2>2, <2>3 DEF GenerationsKept
  <2>4. CASE r \notin DOMAIN generation
    <3>1. lastBearing[r] = None
      BY <2>4 DEF GenerationsKept
    <3> QED
      BY <1>3, <2>1, <2>4, <3>1 DEF None
  <2> QED
    BY <2>3, <2>4
<1>8. GenerationsKept'
  BY <1>1, <1>7 DEF GenerationsKept, Bearing
<1> QED
  BY <1>1, <1>4, <1>5, <1>6, <1>8

\* A first insert marks the generation of a row that is not mirrored.
LEMMA InsertKeeps ==
  ASSUME MirrorInv, NEW row \in MirrorRows, NEW value \in FieldValues, MirrorInsert(row, value)
  PROVE  MirrorInv'
<1> USE DEF MirrorInv
<1>1. /\ Living(row) /\ ~Bearing(row) /\ field' = [field EXCEPT ![row] = value]
      /\ UNCHANGED <<mode, generation, vacated, attached, lastBearing, missed>>
  BY DEF MirrorInsert
<1>2. value # NoField /\ DOMAIN field = MirrorRows
  BY MirrorAssumption DEF MirrorTypeOK
<1>3. /\ IsSound(column') /\ PromiseKept' /\ DOMAIN promised' = MirrorRows
      /\ IsSound(liveness') /\ mirroredRows' \subseteq MirrorRows
      /\ mirroredRows' \subseteq mirroredRows \cup {row}
      /\ attached => mirroredRows' = mirroredRows \cup {row}
      /\ \A r \in MirrorRows : \/ ShadowRow(liveness', r) = ShadowRow(liveness, r)
                                  /\ (r \in mirroredRows' => r \in mirroredRows)
                               \/ r = row /\ ShadowRow(liveness', r) = generation[r]
  <2>1. CASE attached
    <3>1. /\ NoteBearing(row) /\ column' = MarkDirty(column, row, value)
          /\ promised' = [promised EXCEPT ![row] = value]
      BY <2>1 DEF MirrorInsert, Dispatched
    <3>2. IsSound(column') /\ PromiseKept'
      BY <1>1, <1>2, <3>1, MarkedPromise
    <3>3. DOMAIN promised' = MirrorRows
      BY <3>1 DEF MirrorTypeOK
    <3>4. mirroredRows' = mirroredRows \cup {row}
      BY <3>1 DEF NoteBearing
    <3>5. CASE row \in mirroredRows
      <4>1. liveness' = liveness
        BY <3>1, <3>5 DEF NoteBearing
      <4> QED
        BY <3>2, <3>3, <3>4, <3>5, <4>1 DEF MirrorTypeOK
    <3>6. CASE row \notin mirroredRows
      <4>1. liveness' = MarkDirty(liveness, row, generation[row])
        BY <3>1, <3>6 DEF NoteBearing
      <4>2. IsSound(liveness') /\ ShadowRow(liveness', row) = generation[row]
            /\ \A i : i # row => ShadowRow(liveness', i) = ShadowRow(liveness, i)
        BY <4>1, MarkDirtyShows, MirrorRowsNat
      <4> QED
        BY <3>2, <3>3, <3>4, <4>2 DEF MirrorTypeOK
    <3> QED
      BY <3>5, <3>6
  <2>2. CASE ~attached
    <3>1. UNCHANGED <<liveness, mirroredRows, column, promised>>
      BY <2>2 DEF MirrorInsert, bufferVars
    <3>2. IsSound(column') /\ PromiseKept'
      BY <1>1, <1>2, <3>1, UnmarkedPromise
    <3> QED
      BY <2>2, <3>1, <3>2 DEF MirrorTypeOK
  <2> QED
    BY <2>1, <2>2 DEF MirrorTypeOK
<1>4. MirrorTypeOK'
  BY <1>1, <1>3 DEF MirrorTypeOK
<1>5. \A r \in MirrorRows : r # row => (Bearing(r)' <=> Bearing(r))
  BY <1>1, <1>2 DEF Bearing
<1>6. BearersLive'
  BY <1>1, <1>3, <1>5 DEF BearersLive, Living
<1>7. row \in DOMAIN generation /\ generation[row] \in Nat
  BY <1>1 DEF Living, MirrorTypeOK
<1>8. ASSUME NEW r \in MirrorRows \ missed
      PROVE  /\ ShadowRow(liveness', r) \in Nat
             /\ lastBearing[r] < ShadowRow(liveness', r)
             /\ r \in mirroredRows' => ShadowRow(liveness', r) = generation[r]
             /\ attached /\ Bearing(r)' => r \in mirroredRows'
  <2>1. attached /\ Bearing(r)' => r \in mirroredRows'
    BY <1>3, <1>5 DEF GenerationsKept
  <2>2. CASE /\ ShadowRow(liveness', r) = ShadowRow(liveness, r)
             /\ r \in mirroredRows' => r \in mirroredRows
    BY <2>1, <2>2 DEF GenerationsKept
  <2>3. CASE r = row /\ ShadowRow(liveness', r) = generation[r]
    BY <1>7, <2>1, <2>3 DEF GenerationsKept
  <2> QED
    BY <1>3, <2>2, <2>3
<1>9. GenerationsKept'
  BY <1>1, <1>8 DEF GenerationsKept
<1> QED
  BY <1>3, <1>4, <1>6, <1>9

LEMMA OverwriteKeeps ==
  ASSUME MirrorInv, NEW row \in MirrorRows, NEW value \in FieldValues,
         MirrorOverwrite(row, value)
  PROVE  MirrorInv'
<1> USE DEF MirrorInv
<1>1. /\ Bearing(row) /\ field' = [field EXCEPT ![row] = value] /\ value # NoField
      /\ UNCHANGED <<mode, generation, vacated, attached, liveness, mirroredRows, lastBearing, missed>>
  BY MirrorAssumption DEF MirrorOverwrite
<1>2. CASE attached /\ mode # "Once"
  <2>1. column' = MarkDirty(column, row, value) /\ promised' = [promised EXCEPT ![row] = value]
    BY <1>2 DEF MirrorOverwrite, Dispatched
  <2>2. IsSound(column') /\ PromiseKept' /\ DOMAIN promised' = MirrorRows
    BY <1>1, <2>1, MarkedPromise DEF MirrorTypeOK
  <2> QED
    BY <1>1, <2>2, SlotsStay DEF MirrorTypeOK
<1>3. CASE ~(attached /\ mode # "Once")
  <2>1. column' = column /\ promised' = promised
    BY <1>3 DEF MirrorOverwrite, Dispatched
  <2>2. IsSound(column') /\ PromiseKept' /\ DOMAIN promised' = MirrorRows
    BY <1>1, <2>1, UnmarkedPromise DEF MirrorTypeOK
  <2> QED
    BY <1>1, <2>2, SlotsStay DEF MirrorTypeOK
<1> QED
  BY <1>2, <1>3

\* A guard's hook shows the value written, or the one it found.
LEMMA GuardKeeps ==
  ASSUME MirrorInv, NEW row \in MirrorRows, NEW value \in FieldValues,
         MirrorGuard(row, value) \/ MirrorEscape(row, value)
  PROVE  MirrorInv'
<1> USE DEF MirrorInv
<1>1. /\ Bearing(row) /\ field' = [field EXCEPT ![row] = value] /\ value # NoField
      /\ UNCHANGED <<mode, generation, vacated, attached, liveness, mirroredRows, lastBearing, missed>>
  BY MirrorAssumption DEF MirrorGuard, MirrorEscape
<1>2. CASE attached
  <2>1. PICK shown : column' = MarkDirty(column, row, shown) /\ promised' = [promised EXCEPT ![row] = shown]
    BY <1>2 DEF MirrorGuard, MirrorEscape, Dispatched
  <2>2. IsSound(column') /\ PromiseKept' /\ DOMAIN promised' = MirrorRows
    BY <1>1, <2>1, MarkedPromise DEF MirrorTypeOK
  <2> QED
    BY <1>1, <2>2, SlotsStay DEF MirrorTypeOK
<1>3. CASE ~attached
  <2>1. column' = column /\ promised' = promised
    BY <1>3 DEF MirrorGuard, MirrorEscape
  <2>2. IsSound(column') /\ PromiseKept' /\ DOMAIN promised' = MirrorRows
    BY <1>1, <2>1, UnmarkedPromise DEF MirrorTypeOK
  <2> QED
    BY <1>1, <2>2, SlotsStay DEF MirrorTypeOK
<1> QED
  BY <1>2, <1>3

LEMMA RemoveKeeps ==
  ASSUME MirrorInv, NEW row \in MirrorRows, MirrorRemove(row)
  PROVE  MirrorInv'
<1> USE DEF MirrorInv
<1>1. /\ field' = [field EXCEPT ![row] = NoField]
      /\ UNCHANGED <<mode, generation, vacated, attached, liveness, mirroredRows, lastBearing>>
  BY DEF MirrorRemove
<1>2. CASE attached
  <2>1. /\ column' = MarkDirty(column, row, Blank) /\ promised' = [promised EXCEPT ![row] = Blank]
        /\ missed' = missed
    BY <1>2 DEF MirrorRemove, ClearedColumn
  <2>2. IsSound(column') /\ PromiseKept' /\ DOMAIN promised' = MirrorRows
    BY <1>1, <2>1, MarkedPromise DEF MirrorTypeOK
  <2> QED
    BY <1>1, <2>1, <2>2, SlotsStay DEF MirrorTypeOK
<1>3. CASE ~attached
  <2>1. column' = column /\ promised' = promised /\ missed' = missed \cup {row}
    BY <1>3 DEF MirrorRemove
  <2>2. missed \subseteq missed' /\ missed' \subseteq MirrorRows /\ row \in missed'
    BY <2>1 DEF MirrorTypeOK
  <2>3. IsSound(column') /\ PromiseKept' /\ DOMAIN promised' = MirrorRows
    BY <1>1, <2>1, <2>2, UnmarkedPromise DEF MirrorTypeOK
  <2> QED
    BY <1>1, <2>2, <2>3, SlotsStay DEF MirrorTypeOK
<1> QED
  BY <1>2, <1>3

\* The column's part of a despawn.
LEMMA DespawnPromise ==
  ASSUME MirrorInv, NEW row \in MirrorRows, MirrorDespawn(row)
  PROVE  /\ IsSound(column') /\ PromiseKept' /\ DOMAIN promised' = MirrorRows
         /\ missed \subseteq missed' /\ missed' \subseteq MirrorRows
         /\ attached => missed' = missed
         /\ ~attached /\ (Bearing(row) \/ row \in mirroredRows) => row \in missed'
<1> USE DEF MirrorInv
<1>1. field' = [field EXCEPT ![row] = NoField]
  BY DEF MirrorDespawn
<1>2. CASE attached
  <2>1. /\ promised' = [promised EXCEPT ![row] = Blank] /\ missed' = missed
        /\ column' = IF Bearing(row) THEN MarkDirty(column, row, Blank) ELSE column
    BY <1>2 DEF MirrorDespawn, ClearedColumn
  <2>2. DOMAIN promised' = MirrorRows /\ missed' \subseteq MirrorRows
    BY <2>1 DEF MirrorTypeOK
  <2>3. CASE Bearing(row)
    <3>1. IsSound(column') /\ PromiseKept'
      BY <1>1, <2>1, <2>3, MarkedPromise
    <3> QED
      BY <1>2, <2>1, <2>2, <3>1
  <2>4. CASE ~Bearing(row)
    <3>1. \A r \in MirrorRows \ missed' : promised'[r] = promised[r]
      BY <2>1, <2>4 DEF PromiseKept, MirrorTypeOK
    <3>2. IsSound(column') /\ PromiseKept'
      BY <1>1, <2>1, <2>4, <3>1, UnmarkedPromise
    <3> QED
      BY <1>2, <2>1, <2>2, <3>2
  <2> QED
    BY <2>3, <2>4
<1>3. CASE ~attached
  <2>1. /\ column' = column /\ promised' = promised
        /\ missed' = IF Bearing(row) \/ row \in mirroredRows THEN missed \cup {row} ELSE missed
    BY <1>3 DEF MirrorDespawn, bufferVars
  <2>2. missed \subseteq missed' /\ missed' \subseteq MirrorRows
        /\ (Bearing(row) \/ row \in mirroredRows => row \in missed')
    BY <2>1 DEF MirrorTypeOK
  <2>3. IsSound(column') /\ PromiseKept'
    BY <1>1, <2>1, <2>2, UnmarkedPromise
  <2> QED
    BY <1>3, <2>1, <2>2, <2>3 DEF MirrorTypeOK
<1> QED
  BY <1>2, <1>3

\* The generations' part: the next one is marked where the last one was.
LEMMA DespawnLiveness ==
  ASSUME MirrorInv, NEW row \in MirrorRows, MirrorDespawn(row)
  PROVE  /\ IsSound(liveness') /\ mirroredRows' \subseteq mirroredRows
         /\ \A r \in MirrorRows : r # row =>
              ShadowRow(liveness', r) = ShadowRow(liveness, r)
         /\ IF attached
            THEN /\ row \notin mirroredRows'
                 /\ IF row \in mirroredRows
                    THEN ShadowRow(liveness', row) = generation[row] + 1
                    ELSE ShadowRow(liveness', row) = ShadowRow(liveness, row)
            ELSE ShadowRow(liveness', row) = ShadowRow(liveness, row)
<1> USE DEF MirrorInv
<1>1. CASE attached
  <2> DEFINE next == generation[row] + 1
  <2>1. /\ mirroredRows' = mirroredRows \ {row}
        /\ liveness' = IF row \in mirroredRows THEN MarkDirty(liveness, row, next) ELSE liveness
    BY <1>1 DEF MirrorDespawn, NoteDespawn
  <2> HIDE DEF next
  <2>2. CASE row \in mirroredRows
    <3>1. IsSound(liveness') /\ ShadowRow(liveness', row) = next
          /\ \A i : i # row => ShadowRow(liveness', i) = ShadowRow(liveness, i)
      BY <2>1, <2>2, MarkDirtyShows, MirrorRowsNat
    <3> QED
      BY <1>1, <2>1, <2>2, <3>1 DEF next
  <2>3. CASE row \notin mirroredRows
    BY <1>1, <2>1, <2>3
  <2> QED
    BY <2>2, <2>3
<1>2. CASE ~attached
  <2>1. liveness' = liveness /\ mirroredRows' = mirroredRows
    BY <1>2 DEF MirrorDespawn, bufferVars
  <2> QED
    BY <1>2, <2>1
<1> QED
  BY <1>1, <1>2

LEMMA DespawnKeeps ==
  ASSUME MirrorInv, NEW row \in MirrorRows, MirrorDespawn(row)
  PROVE  MirrorInv'
<1> USE DEF MirrorInv
<1>1. /\ Living(row) /\ field' = [field EXCEPT ![row] = NoField]
      /\ generation' = [generation EXCEPT ![row] = generation[row] + 1]
      /\ vacated' = Append(vacated, row) /\ UNCHANGED <<mode, attached>>
      /\ lastBearing' = IF Bearing(row) THEN [lastBearing EXCEPT ![row] = generation[row]] ELSE lastBearing
  BY DEF MirrorDespawn
<1>2. PICK n \in Nat : generation \in [0 .. n - 1 -> Nat]
  BY DEF MirrorTypeOK
<1>3. row \in DOMAIN generation /\ generation[row] \in Nat /\ generation[row] + 1 \in Nat
  BY <1>1, <1>2 DEF Living
<1>4. generation' \in [0 .. n - 1 -> Nat] /\ generation'[row] = generation[row] + 1
      /\ DOMAIN generation' = DOMAIN generation
      /\ \A r : r # row => generation'[r] = generation[r]
  BY <1>1, <1>2, <1>3
<1>5. vacated' \in Seq(MirrorRows)
      /\ \A i \in DOMAIN vacated' : vacated'[i] \in DOMAIN generation /\
            (vacated'[i] # row => i \in DOMAIN vacated /\ vacated[i] = vacated'[i])
  <2>1. /\ vacated' \in Seq(MirrorRows) /\ Len(vacated') = Len(vacated) + 1
        /\ \A i \in 1 .. Len(vacated) : vacated'[i] = vacated[i]
        /\ vacated'[Len(vacated) + 1] = row
    BY <1>1, AppendProperties DEF MirrorTypeOK
  <2>2. DOMAIN vacated' = 1 .. Len(vacated) + 1 /\ DOMAIN vacated = 1 .. Len(vacated) /\ Len(vacated) \in Nat
    BY <2>1, LenProperties DEF MirrorTypeOK
  <2>3. ASSUME NEW i \in DOMAIN vacated'
        PROVE  vacated'[i] \in DOMAIN generation /\
                 (vacated'[i] # row => i \in DOMAIN vacated /\ vacated[i] = vacated'[i])
    <3>1. i = Len(vacated) + 1 \/ i \in DOMAIN vacated
      BY <2>2
    <3> QED
      BY <1>3, <2>1, <2>2, <3>1 DEF MirrorTypeOK
  <2> QED
    BY <2>1, <2>3
<1>6. lastBearing' \in [MirrorRows -> Int]
      /\ (\A r \in MirrorRows : r # row => lastBearing'[r] = lastBearing[r])
      /\ lastBearing'[row] = IF Bearing(row) THEN generation[row] ELSE lastBearing[row]
  BY <1>1, <1>3 DEF MirrorTypeOK
<1>7. /\ IsSound(column') /\ PromiseKept' /\ DOMAIN promised' = MirrorRows
      /\ missed \subseteq missed' /\ missed' \subseteq MirrorRows
      /\ attached => missed' = missed
      /\ ~attached /\ (Bearing(row) \/ row \in mirroredRows) => row \in missed'
  BY DespawnPromise
<1>8. /\ IsSound(liveness') /\ mirroredRows' \subseteq mirroredRows
      /\ \A r \in MirrorRows : r # row => ShadowRow(liveness', r) = ShadowRow(liveness, r)
      /\ IF attached
         THEN /\ row \notin mirroredRows'
              /\ IF row \in mirroredRows
                 THEN ShadowRow(liveness', row) = generation[row] + 1
                 ELSE ShadowRow(liveness', row) = ShadowRow(liveness, row)
         ELSE ShadowRow(liveness', row) = ShadowRow(liveness, row)
  BY DespawnLiveness
<1>9. field' \in [MirrorRows -> FieldValues \cup {NoField}] /\ ~Bearing(row)'
      /\ \A r \in MirrorRows : r # row => (Bearing(r)' <=> Bearing(r))
  BY <1>1 DEF Bearing, MirrorTypeOK
<1>10. MirrorTypeOK'
  BY <1>1, <1>4, <1>5, <1>6, <1>7, <1>8, <1>9 DEF MirrorTypeOK
<1>11. \A r : r # row /\ Living(r) => Living(r)'
  BY <1>4, <1>5 DEF Living
<1>12. row \notin mirroredRows' \ missed'
  BY <1>7, <1>8
<1>13. BearersLive'
  BY <1>7, <1>8, <1>9, <1>11, <1>12 DEF BearersLive
<1>14. ASSUME NEW r \in MirrorRows \ missed'
       PROVE  /\ ShadowRow(liveness', r) \in Nat
              /\ lastBearing'[r] < ShadowRow(liveness', r)
              /\ r \in mirroredRows' => ShadowRow(liveness', r) = generation'[r]
              /\ attached /\ Bearing(r)' => r \in mirroredRows'
              /\ IF r \in DOMAIN generation' THEN lastBearing'[r] < generation'[r]
                 ELSE lastBearing'[r] = None
  <2>1. r \in MirrorRows \ missed
    BY <1>7
  <2>2. /\ ShadowRow(liveness, r) \in Nat
        /\ lastBearing[r] < ShadowRow(liveness, r)
        /\ r \in mirroredRows => ShadowRow(liveness, r) = generation[r]
        /\ attached /\ Bearing(r) => r \in mirroredRows
        /\ IF r \in DOMAIN generation THEN lastBearing[r] < generation[r]
           ELSE lastBearing[r] = None
    BY <2>1 DEF GenerationsKept
  <2>3. CASE r # row
    <3>1. r \in mirroredRows /\ attached => r \in mirroredRows'
      BY <2>3 DEF MirrorDespawn, NoteDespawn
    <3> QED
      BY <1>4, <1>6, <1>8, <1>9, <2>2, <2>3, <3>1
  <2>4. CASE r = row
    <3>1. lastBearing[r] \in Int
      BY DEF MirrorTypeOK
    <3>2. CASE Bearing(row)
      <4>1. attached /\ row \in mirroredRows
        BY <1>7, <2>2, <2>4, <3>2
      <4> QED
        BY <1>3, <1>4, <1>6, <1>8, <1>9, <2>4, <3>2, <4>1
    <3>3. CASE ~Bearing(row)
      <4>1. row \in mirroredRows => attached
        BY <1>7, <2>4
      <4>2. row \notin mirroredRows'
        BY <1>8, <4>1
      <4>3. ShadowRow(liveness', row) = generation[row] + 1
              \/ ShadowRow(liveness', row) = ShadowRow(liveness, row)
        BY <1>8
      <4> QED
        BY <1>3, <1>4, <1>6, <1>9, <2>2, <2>4, <3>1, <3>3, <4>2, <4>3
    <3> QED
      BY <3>2, <3>3
  <2> QED
    BY <2>3, <2>4
<1>15. GenerationsKept'
  BY <1>1, <1>14 DEF GenerationsKept
<1> QED
  BY <1>7, <1>8, <1>10, <1>13, <1>15

\* The replay of an attachment is a first insert of every component there is.
LEMMA AttachKeeps ==
  ASSUME MirrorInv, AttachMirror
  PROVE  MirrorInv'
<1> USE DEF MirrorInv
<1> DEFINE bearing == {r \in MirrorRows : Bearing(r)}
           marks == [r \in bearing \ mirroredRows |-> generation[r]]
           values == [r \in bearing |-> field[r]]
<1>1. /\ attached' = TRUE /\ UNCHANGED <<mode, generation, vacated, field, lastBearing, missed>>
      /\ liveness' = MarkDirtyAll(liveness, marks)
      /\ mirroredRows' = mirroredRows \cup bearing
      /\ column' = MarkDirtyAll(column, values)
      /\ promised' = [r \in MirrorRows |-> IF r \in bearing THEN field[r] ELSE promised[r]]
  BY DEF AttachMirror, Replayed, mirrorWorldVars
<1>2. /\ DOMAIN marks = bearing \ mirroredRows /\ \A r \in DOMAIN marks : marks[r] = generation[r]
      /\ DOMAIN values = bearing /\ \A r \in bearing : values[r] = field[r]
  OBVIOUS
<1>3. bearing \subseteq MirrorRows /\ \A r \in MirrorRows : Bearing(r) <=> r \in bearing
  OBVIOUS
<1> HIDE DEF marks, values, bearing
<1>4. DOMAIN marks \subseteq MirrorRows /\ DOMAIN values \subseteq MirrorRows
  BY <1>2, <1>3
<1>5. /\ IsSound(liveness')
      /\ \A i \in bearing \ mirroredRows : ShadowRow(liveness', i) = generation[i]
      /\ \A i : i \notin bearing \ mirroredRows => ShadowRow(liveness', i) = ShadowRow(liveness, i)
  BY <1>1, <1>2, <1>4, MarkDirtyAllShows
<1>6. /\ IsSound(column')
      /\ \A i \in bearing : ShadowRow(column', i) = field[i]
      /\ \A i : i \notin bearing => ShadowRow(column', i) = ShadowRow(column, i)
  BY <1>1, <1>2, <1>4, MarkDirtyAllShows
<1>7. \A r : Living(r)' <=> Living(r)
  BY <1>1 DEF Living
<1>8. \A r : Bearing(r)' <=> Bearing(r)
  BY <1>1 DEF Bearing
<1>9. MirrorTypeOK'
  BY <1>1, <1>3 DEF MirrorTypeOK
<1>10. BearersLive'
  BY <1>1, <1>3, <1>7, <1>8 DEF BearersLive
<1>11. PromiseKept'
  BY <1>1, <1>3, <1>6, <1>8 DEF PromiseKept
<1>12. ASSUME NEW r \in MirrorRows \ missed
       PROVE  /\ ShadowRow(liveness', r) \in Nat
              /\ lastBearing[r] < ShadowRow(liveness', r)
              /\ r \in mirroredRows' => ShadowRow(liveness', r) = generation[r]
              /\ Bearing(r) => r \in mirroredRows'
  <2>1. CASE r \in bearing \ mirroredRows
    <3>1. r \in DOMAIN generation /\ generation[r] \in Nat
      BY <1>3, <2>1 DEF BearersLive, Living, MirrorTypeOK
    <3> QED
      BY <1>1, <1>5, <2>1, <3>1 DEF GenerationsKept
  <2>2. CASE r \notin bearing \ mirroredRows
    BY <1>1, <1>3, <1>5, <2>2 DEF GenerationsKept
  <2> QED
    BY <2>1, <2>2
<1>13. GenerationsKept'
  BY <1>1, <1>8, <1>12 DEF GenerationsKept
<1> QED
  BY <1>5, <1>6, <1>9, <1>10, <1>11, <1>13

\* The frame loop's calls change what the GPU holds, not what the shadows
\* show of rows in use.
ShowsSame(b, c) == IsSound(c) /\ \A i \in MirrorRows : ShadowRow(c, i) = ShadowRow(b, i)

ShowsLiving(b, c) ==
  /\ IsSound(c)
  /\ \A i \in MirrorRows :
       ShadowRow(c, i) = ShadowRow(b, i) \/ (~Living(i) /\ ShadowRow(c, i) = Blank)

LEMMA UploadKeeps ==
  ASSUME MirrorInv,
         UNCHANGED <<mode, generation, vacated, field, attached, mirroredRows>>,
         UNCHANGED <<promised, lastBearing, missed>>,
         ShowsSame(liveness, liveness'), ShowsLiving(column, column')
  PROVE  MirrorInv'
<1> USE DEF MirrorInv, ShowsSame, ShowsLiving
<1>1. \A r : (Bearing(r)' <=> Bearing(r)) /\ (Living(r)' <=> Living(r))
  BY DEF Bearing, Living
<1>2. MirrorTypeOK' /\ BearersLive'
  BY <1>1 DEF MirrorTypeOK, BearersLive
<1>3. PromiseKept'
  BY <1>1 DEF PromiseKept, BearersLive
<1>4. GenerationsKept'
  BY <1>1 DEF GenerationsKept
<1> QED
  BY <1>2, <1>3, <1>4

LEMMA FrameKeeps ==
  ASSUME RowsFit, MirrorInv,
         FlushMirror \/ ShrinkMirror \/ \E row \in MirrorRows : ReserveMirror(row + 1)
  PROVE  MirrorInv'
<1> USE DEF MirrorInv
<1>1. /\ UNCHANGED <<mode, generation, vacated, field, attached, mirroredRows>>
      /\ UNCHANGED <<promised, lastBearing, missed>>
  BY DEF FlushMirror, ShrinkMirror, ReserveMirror, mirrorWorldVars, ghostVars
<1>2. CASE FlushMirror
  <2>1. IsSound(Flushed(liveness)) /\ \A i : ShadowRow(Flushed(liveness), i) = ShadowRow(liveness, i)
    BY FlushShows
  <2>2. IsSound(Flushed(column)) /\ \A i : ShadowRow(Flushed(column), i) = ShadowRow(column, i)
    BY FlushShows
  <2>3. liveness' = SameEpoch(Flushed(liveness)) /\ column' = SameEpoch(Flushed(column))
    BY <1>2 DEF FlushMirror
  <2>4. IsSound(liveness') /\ \A i : ShadowRow(liveness', i) = ShadowRow(liveness, i)
    BY <2>1, <2>3, SameEpochShows
  <2>5. IsSound(column') /\ \A i : ShadowRow(column', i) = ShadowRow(column, i)
    BY <2>2, <2>3, SameEpochShows
  <2>6. ShowsSame(liveness, liveness') /\ ShowsLiving(column, column')
    BY <2>4, <2>5 DEF ShowsSame, ShowsLiving
  <2> QED
    BY <1>1, <2>6, UploadKeeps
<1>3. CASE ShrinkMirror
  <2> DEFINE live == {r \in MirrorRows : Living(r)}
             top == Max(live)
             cut == TrackedShrunk(column, top, ShrinkSlack)
  <2>1. live # {} /\ column' = SameEpoch(cut) /\ liveness' = liveness
    BY <1>3 DEF ShrinkMirror
  <2>2. live \in SUBSET MirrorRows
    OBVIOUS
  <2>3. \A r \in MirrorRows : Living(r) => r \in live
    OBVIOUS
  <2> HIDE DEF live
  <2>4. top \in Nat /\ \A i \in live : i <= top
    BY <2>1, <2>2, LargestIsIn
  <2> HIDE DEF top
  <2>5. CutTo(column, top, cut)
    BY <2>4, ShrinkShows, MirrorAssumption
  <2> HIDE DEF cut
  <2>6. IsSound(column') /\ \A i : ShadowRow(column', i) = ShadowRow(cut, i)
    BY <2>1, <2>5, SameEpochShows DEF CutTo
  <2>7. \A i \in MirrorRows : i > top => ~Living(i)
    BY <2>3, <2>4, MirrorRowsNat
  <2>8. ASSUME NEW i \in MirrorRows
        PROVE  \/ ShadowRow(column', i) = ShadowRow(column, i)
               \/ ~Living(i) /\ ShadowRow(column', i) = Blank
    <3>1. ShadowRow(column', i) = ShadowRow(cut, i)
      BY <2>6
    <3>2. ShadowRow(cut, i) = ShadowRow(column, i) \/ (i > top /\ ShadowRow(cut, i) = Blank)
      BY <2>5 DEF CutTo
    <3> QED
      BY <2>7, <3>1, <3>2
  <2>9. ShowsSame(liveness, liveness') /\ ShowsLiving(column, column')
    BY <2>1, <2>6, <2>8 DEF ShowsSame, ShowsLiving
  <2> QED
    BY <1>1, <2>9, UploadKeeps
<1>4. ASSUME NEW row \in MirrorRows, ReserveMirror(row + 1) PROVE MirrorInv'
  <2> DEFINE wide == TrackedReserve(column, row + 1)
  <2>1. IsSound(wide) /\ \A i : ShadowRow(wide, i) = ShadowRow(column, i)
    BY ReserveShows, MirrorRowsNat
  <2>2. liveness' = liveness /\ column' = SameEpoch(wide)
    BY <1>4 DEF ReserveMirror
  <2> HIDE DEF wide
  <2>3. IsSound(column') /\ \A i : ShadowRow(column', i) = ShadowRow(column, i)
    BY <2>1, <2>2, SameEpochShows
  <2>4. ShowsSame(liveness, liveness') /\ ShowsLiving(column, column')
    BY <2>2, <2>3 DEF ShowsSame, ShowsLiving
  <2> QED
    BY <1>1, <2>4, UploadKeeps
<1> QED
  BY <1>2, <1>3, <1>4

\* An empty world, nothing attached.
LEMMA MirrorInvInitially == MirrorInit => MirrorInv
<1> SUFFICES ASSUME MirrorInit PROVE MirrorInv
  OBVIOUS
<1>1. /\ generation = [r \in {} |-> 0] /\ vacated = <<>> /\ mirroredRows = {} /\ missed = {}
      /\ field = [r \in MirrorRows |-> NoField] /\ promised = [r \in MirrorRows |-> Blank]
      /\ lastBearing = [r \in MirrorRows |-> None] /\ attached = FALSE
      /\ mode \in {"DirtyTracked", "Once"}
  BY DEF MirrorInit
<1>2. generation \in [0 .. 0 - 1 -> Nat]
  BY <1>1
<1>3. None \in Int /\ \A n \in Nat : None < n
  BY DEF None
<1>9. \E n \in Nat : generation \in [0 .. n - 1 -> Nat]
  BY <1>2
<1>10. /\ vacated \in Seq(MirrorRows)
       /\ \A i \in DOMAIN vacated : vacated[i] \in DOMAIN generation
  BY <1>1
<1>11. lastBearing \in [MirrorRows -> Int]
  BY <1>1, <1>3
<1>4. MirrorTypeOK
  BY <1>1, <1>9, <1>10, <1>11 DEF MirrorTypeOK
<1>5. IsSound(liveness) /\ \A i : ShadowRow(liveness, i) = Blank
  BY NewTrackedShows, MirrorAssumption DEF MirrorInit
<1>6. IsSound(column) /\ \A i : ShadowRow(column, i) = Blank
  BY NewTrackedShows, MirrorAssumption DEF MirrorInit
<1>7. BearersLive /\ PromiseKept
  BY <1>1, <1>6 DEF BearersLive, PromiseKept, Bearing
<1>8. GenerationsKept
  BY <1>1, <1>3, <1>5, MirrorAssumption DEF GenerationsKept, Bearing
<1> QED
  BY <1>4, <1>5, <1>6, <1>7, <1>8 DEF MirrorInv

LEMMA MirrorInvStep ==
  ASSUME RowsFit, MirrorInv, [MirrorNext]_worldMirrorVars
  PROVE  MirrorInv'
<1>1. CASE MirrorSpawn
  BY <1>1, SpawnKeeps
<1>2. ASSUME NEW row \in MirrorRows, NEW value \in FieldValues,
             \/ MirrorInsert(row, value) \/ MirrorOverwrite(row, value)
             \/ MirrorGuard(row, value) \/ MirrorEscape(row, value)
      PROVE  MirrorInv'
  BY <1>2, InsertKeeps, OverwriteKeeps, GuardKeeps
<1>3. ASSUME NEW row \in MirrorRows, MirrorRemove(row) \/ MirrorDespawn(row)
      PROVE  MirrorInv'
  BY <1>3, RemoveKeeps, DespawnKeeps
<1>4. CASE AttachMirror
  BY <1>4, AttachKeeps
<1>5. CASE FlushMirror \/ ShrinkMirror \/ \E row \in MirrorRows : ReserveMirror(row + 1)
  BY <1>5, FrameKeeps
<1>6. CASE DetachMirror
  <2>1. /\ UNCHANGED <<mode, generation, vacated, field, liveness, mirroredRows, column>>
        /\ UNCHANGED <<promised, lastBearing, missed>> /\ attached' = FALSE
    BY <1>6 DEF DetachMirror, mirrorWorldVars, bufferVars, ghostVars
  <2> QED
    BY <2>1 DEF MirrorInv, MirrorTypeOK, BearersLive, PromiseKept, GenerationsKept, Bearing, Living
<1>7. CASE UNCHANGED worldMirrorVars
  <2>1. /\ UNCHANGED <<mode, generation, vacated, field, liveness, mirroredRows, column>>
        /\ UNCHANGED <<promised, lastBearing, missed, attached>>
    BY <1>7 DEF worldMirrorVars, mirrorWorldVars, bufferVars, ghostVars
  <2> QED
    BY <2>1 DEF MirrorInv, MirrorTypeOK, BearersLive, PromiseKept, GenerationsKept, Bearing, Living
<1> QED
  BY <1>1, <1>2, <1>3, <1>4, <1>5, <1>6, <1>7 DEF MirrorNext, WorldOperation

\* With nothing left to upload the GPU is what the shadows are.
LEMMA CleanIsCurrent == MirrorInv => MirrorCurrent
<1> SUFFICES ASSUME MirrorInv, Clean, NEW row \in MirrorRows \ missed
             PROVE  ColumnShows(row) /\ GenerationShows(row)
  BY DEF MirrorCurrent
<1>1. GpuRow(column, row) = ShadowRow(column, row) /\ GpuRow(liveness, row) = ShadowRow(liveness, row)
  BY DEF MirrorInv, IsSound, Clean
<1>2. ColumnShows(row)
  BY <1>1 DEF ColumnShows, MirrorInv, PromiseKept
<1>3. Bearing(row) => GpuRow(liveness, row) = generation[row]
  BY <1>1 DEF MirrorInv, GenerationsKept, Clean
<1>4. lastBearing[row] # ShadowRow(liveness, row)
  BY DEF MirrorInv, GenerationsKept, MirrorTypeOK
<1>5. row \in DOMAIN liveness.rows => liveness.rows[row] # lastBearing[row]
  BY <1>1, <1>4 DEF GpuRow
<1> QED
  BY <1>2, <1>3, <1>5 DEF GenerationShows

\* The inductive invariant of the mirror.
THEOREM MirrorInvariant == ASSUME RowsFit PROVE MirrorSpec => []MirrorInv
BY MirrorInvInitially, MirrorInvStep, PTL DEF MirrorSpec

\* After a flush the GPU shows each row's field as its mode promises, blank
\* where no entity has the component, and a generation that tells the living
\* entity from every dead one that had it.
THEOREM MirrorStaysCurrent == ASSUME RowsFit PROVE MirrorSpec => []MirrorCurrent
BY MirrorInvariant, CleanIsCurrent, PTL

-----------------------------------------------------------------------------
(* Object subscriptions.                                                   *)

\* Bundles list the component that places the entity first.
OwnersFirst == BundleOrders \subseteq {<<"Owner", "Data">>}

SubTypeOK ==
  /\ DOMAIN view = Subscriptions /\ DOMAIN due = Subscriptions
  /\ despawns \in [Subscriptions -> Int]
  /\ Subscribed \subseteq Subscriptions
  /\ \A o \in DOMAIN byObject : byObject[o] \in Seq(Subscriptions)

\* Subscriptions are numbered in the order they are made.
Numbered ==
  \E n \in 0 .. MaxSubscriptions : \A id \in Subscriptions : despawns[id] # -1 <=> id <= n

\* Who is not subscribed knows nothing; who is was not told of an end.
EndsTold ==
  \A id \in Subscriptions :
    /\ despawns[id] <= 1
    /\ id \in Subscribed => despawns[id] = 0
    /\ id \notin Subscribed => DOMAIN view[id] = {} /\ due[id] = {}

\* The two maps say the same, of objects that live.
BooksAgree ==
  /\ \A o \in DOMAIN byObject :
       Len(byObject[o]) > 0 /\ \A id \in ToSet(byObject[o]) : id \in Subscribed /\ objects[id] = o
  /\ \A id \in Subscribed : objects[id] \in DOMAIN owned /\ id \in CallbacksOf(objects[id])

There(ow, p) == p = <<p[1], p[2]>> /\ p[1] \in DOMAIN ow /\ p[2] \in DOMAIN ow[p[1]]
ValueIn(ow, p) == ow[p[1]][p[2]]

\* A view of these components speaks of what is there, and of no entity that
\* belongs to another object.
Tells(ow, vw, object) ==
  \A p \in DOMAIN vw :
    There(ow, p) /\ vw[p] = ValueIn(ow, p) /\ ObjectIn(ow, p[1]) = object

SubInv ==
  /\ SubTypeOK /\ Numbered /\ EndsTold /\ BooksAgree
  /\ \A id \in Subscribed : Tells(owned, view[id], objects[id]) /\ due[id] \subseteq DOMAIN view[id]

\* The subscribers found for an object are those who subscribed to it.
LEMMA CallbacksAre ==
  ASSUME SubTypeOK, BooksAgree, NEW o, NEW id
  PROVE  id \in CallbacksOf(o) <=> id \in Subscribed /\ objects[id] = o
  BY DEF CallbacksOf, BooksAgree

\* Who was called back has heard; the others know what they knew.
LEMMA HeardMeans ==
  ASSUME NEW vw, NEW ids, NEW e, NEW row, NEW gone, NEW id \in Subscriptions
  PROVE  LET h == Heard(vw, ids, e, row, gone)[id]
         IN /\ id \notin ids => h = vw[id]
            /\ id \in ids =>
                 /\ \A p : p \in DOMAIN h <=>
                      \/ p \in DOMAIN vw[id] /\ p \notin Pairs(e, gone)
                      \/ p \in Pairs(e, DOMAIN row)
                 /\ \A p \in DOMAIN h : h[p] = IF p \in Pairs(e, DOMAIN row) THEN row[p[2]] ELSE vw[id][p]
  BY DEF Heard

\* Pairs of one entity.
LEMMA PairsMean ==
  ASSUME NEW e, NEW cs, NEW p
  PROVE  p \in Pairs(e, cs) <=> p = <<p[1], p[2]>> /\ p[1] = e /\ p[2] \in cs
  BY DEF Pairs

\* An operation that stores these components keeps the books if every view,
\* before it is placed, is right of what still belongs to its object, and knows
\* what was promised.
LEMMA StoredKeeps ==
  ASSUME SubInv, NEW ow, NEW vw, NEW written, Stored(ow, vw, written),
         UNCHANGED <<objects, byObject, despawns>>, DOMAIN owned \subseteq DOMAIN ow,
         \A id \in Subscriptions \ Subscribed : vw[id] = view[id],
         \A id \in Subscribed : \A p \in DOMAIN vw[id] :
           /\ There(ow, p)
           /\ ObjectIn(ow, p[1]) = objects[id] => vw[id][p] = ValueIn(ow, p),
         \A id \in Subscribed : \A p \in due[id] \union written :
           p[1] \in DOMAIN ow /\ p[2] \in DOMAIN ow[p[1]] /\ ObjectIn(ow, p[1]) = objects[id]
             => p \in DOMAIN vw[id]
  PROVE  SubInv'
  <1>1. /\ owned' = ow /\ Subscribed' = Subscribed
        /\ view' = Placed(ow, vw) /\ due' = Promised(ow, written)
    BY DEF Stored, Subscribed
  <1>2. ASSUME NEW id \in Subscriptions
        PROVE  /\ id \notin Subscribed => view'[id] = view[id] /\ due'[id] = {}
               /\ id \in Subscribed => Tells(ow, view'[id], objects[id]) /\ due'[id] \subseteq DOMAIN view'[id]
    <2>1. CASE id \notin Subscribed
      BY <2>1, <1>1 DEF Placed, Promised
    <2>2. CASE id \in Subscribed
      <3>1. view'[id] = Only(vw[id], {p \in DOMAIN vw[id] :
              p[1] \in DOMAIN ow /\ p[2] \in DOMAIN ow[p[1]] => ObjectIn(ow, p[1]) = objects[id]})
        BY <2>2, <1>1 DEF Placed
      <3>2. \A p : p \in DOMAIN view'[id] <=> p \in DOMAIN vw[id] /\ ObjectIn(ow, p[1]) = objects[id]
        BY <2>2, <3>1 DEF Only, There
      <3>3. \A p \in DOMAIN view'[id] : view'[id][p] = vw[id][p]
        BY <3>1 DEF Only
      <3>4. Tells(ow, view'[id], objects[id])
        BY <2>2, <3>2, <3>3 DEF Tells
      <3>5. due'[id] = {p \in due[id] \union written :
                          /\ p[1] \in DOMAIN ow /\ p[2] \in DOMAIN ow[p[1]]
                          /\ ObjectIn(ow, p[1]) = objects[id]}
        BY <2>2, <1>1 DEF Promised
      <3>6. due'[id] \subseteq DOMAIN view'[id]
        BY <2>2, <3>2, <3>5
      <3> QED
        BY <2>2, <3>4, <3>6
    <2> QED
      BY <2>1, <2>2
  <1>3. SubTypeOK'
    BY <1>1 DEF SubInv, SubTypeOK, Placed, Promised
  <1>4. Numbered'
    BY DEF SubInv, Numbered
  <1>5. EndsTold'
    BY <1>1, <1>2 DEF SubInv, EndsTold
  <1>6. BooksAgree'
    BY <1>1 DEF SubInv, BooksAgree, CallbacksOf
  <1>7. \A id \in Subscribed' : Tells(owned', view'[id], objects'[id]) /\ due'[id] \subseteq DOMAIN view'[id]
    BY <1>1, <1>2 DEF SubInv, SubTypeOK
  <1> QED
    BY <1>3, <1>4, <1>5, <1>6, <1>7 DEF SubInv

\* What writing a component leaves of the others, and of who belongs where.
LEMMA WithMeans ==
  ASSUME NEW e \in DOMAIN owned, NEW c, NEW v
  PROVE  LET ow == With(e, c, v)
         IN /\ DOMAIN ow = DOMAIN owned
            /\ \A p : There(owned, p) => There(ow, p) /\ (p # <<e, c>> => ValueIn(ow, p) = ValueIn(owned, p))
            /\ There(ow, <<e, c>>) /\ ValueIn(ow, <<e, c>>) = v
            /\ \A o : o # e => ObjectIn(ow, o) = ObjectIn(owned, o)
  <1> DEFINE r == Mapped(Row(e), c, v)
             ow == With(e, c, v)
  <1>1. DOMAIN r = DOMAIN owned[e] \union {c} /\ r[c] = v
        /\ \A k \in DOMAIN owned[e] : k # c => r[k] = owned[e][k]
    BY DEF Mapped, Row
  <1> HIDE DEF r
  <1>2. DOMAIN ow = DOMAIN owned /\ ow[e] = r /\ \A o \in DOMAIN owned : o # e => ow[o] = owned[o]
    <2>1. ow = Mapped(owned, e, r)
      BY DEF With, r
    <2> HIDE DEF ow
    <2> QED
      BY <2>1 DEF Mapped
  <1> HIDE DEF ow
  <1>3. There(ow, <<e, c>>) /\ ValueIn(ow, <<e, c>>) = v
    BY <1>1, <1>2 DEF There, ValueIn
  <1>4. ASSUME NEW p, There(owned, p)
        PROVE  There(ow, p) /\ (p # <<e, c>> => ValueIn(ow, p) = ValueIn(owned, p))
    <2>1. CASE p[1] = e
      BY <2>1, <1>1, <1>2, <1>4 DEF There, ValueIn
    <2>2. CASE p[1] # e
      BY <2>2, <1>2, <1>4 DEF There, ValueIn
    <2> QED
      BY <2>1, <2>2
  <1>5. \A o : o # e => ObjectIn(ow, o) = ObjectIn(owned, o)
    BY <1>2 DEF ObjectIn
  <1> QED
    BY <1>2, <1>3, <1>4, <1>5 DEF ow

\* A write is told to whoever the entity belongs to after it, or before it when
\* the write may not be promised to anyone else.
LEMMA WriteKeeps ==
  ASSUME SubInv, NEW e \in DOMAIN owned, NEW c, NEW v, NEW object, NEW written,
         Stored(With(e, c, v), Heard(view, CallbacksOf(object), e, Single(c, v), {}), written),
         UNCHANGED <<objects, byObject, despawns>>,
         object \in {ObjectIn(owned, e), ObjectIn(With(e, c, v), e)},
         written \subseteq {<<e, c>>},
         written # {} => object = ObjectIn(With(e, c, v), e)
  PROVE  SubInv'
  <1> DEFINE ow == With(e, c, v)
             ids == CallbacksOf(object)
             row == Single(c, v)
             vw == Heard(view, ids, e, row, {})
  <1>1. /\ DOMAIN ow = DOMAIN owned
        /\ \A p : There(owned, p) => There(ow, p) /\ (p # <<e, c>> => ValueIn(ow, p) = ValueIn(owned, p))
        /\ There(ow, <<e, c>>) /\ ValueIn(ow, <<e, c>>) = v
        /\ \A o : o # e => ObjectIn(ow, o) = ObjectIn(owned, o)
    BY WithMeans
  <1>2. \A id : id \in ids <=> id \in Subscribed /\ objects[id] = object
    BY CallbacksAre DEF SubInv
  <1>3. Subscribed \subseteq Subscriptions
    BY DEF SubInv, SubTypeOK
  <1>4. \A p : p \in Pairs(e, DOMAIN row) <=> p = <<e, c>>
    BY PairsMean DEF Single
  <1>5. Pairs(e, {}) = {} /\ row[c] = v
    BY DEF Pairs, Single
  <1> HIDE DEF row, ids
  <1>6. ASSUME NEW id \in Subscriptions
        PROVE  /\ id \notin ids => vw[id] = view[id]
               /\ id \in ids =>
                    /\ \A p : p \in DOMAIN vw[id] <=> p \in DOMAIN view[id] \/ p = <<e, c>>
                    /\ \A p \in DOMAIN vw[id] : vw[id][p] = IF p = <<e, c>> THEN v ELSE view[id][p]
    BY <1>4, <1>5, HeardMeans
  <1> HIDE DEF vw
  <1>7. \A id \in Subscribed : \A p \in DOMAIN view[id] :
          There(owned, p) /\ view[id][p] = ValueIn(owned, p) /\ ObjectIn(owned, p[1]) = objects[id]
    BY DEF SubInv, Tells
  <1>8. Stored(ow, vw, written)
    BY DEF vw, ids, row
  <1> HIDE DEF ow
  <1>9. \A id \in Subscriptions \ Subscribed : vw[id] = view[id]
    BY <1>2, <1>6
  <1>10. ASSUME NEW id \in Subscribed, NEW p \in DOMAIN vw[id]
         PROVE  /\ There(ow, p)
                /\ ObjectIn(ow, p[1]) = objects[id] => vw[id][p] = ValueIn(ow, p)
    <2>1. CASE p = <<e, c>>
      <3>1. CASE id \in ids
        BY <2>1, <3>1, <1>1, <1>3, <1>6
      <3>2. CASE id \notin ids
        <4>1. p \in DOMAIN view[id]
          BY <3>2, <1>3, <1>6, <1>10
        <4>2. ObjectIn(owned, e) = objects[id] /\ objects[id] # object
          BY <2>1, <3>2, <4>1, <1>2, <1>7
        <4>3. ObjectIn(ow, e) # objects[id]
          BY <4>2 DEF ow
        <4> QED
          BY <2>1, <4>3, <1>1
      <3> QED
        BY <3>1, <3>2
    <2>2. CASE p # <<e, c>>
      <3>1. p \in DOMAIN view[id] /\ vw[id][p] = view[id][p]
        BY <2>2, <1>3, <1>6, <1>10
      <3> QED
        BY <2>2, <3>1, <1>1, <1>7
    <2> QED
      BY <2>1, <2>2
  <1>11. ASSUME NEW id \in Subscribed, NEW p \in due[id] \union written,
                ObjectIn(ow, p[1]) = objects[id]
         PROVE  p \in DOMAIN vw[id]
    <2>1. CASE p \in due[id]
      BY <2>1, <1>3, <1>6 DEF SubInv
    <2>2. CASE p \in written
      <3>1. p = <<e, c>> /\ object = ObjectIn(ow, e)
        BY <2>2 DEF ow
      <3>2. id \in ids
        BY <3>1, <1>2, <1>11
      <3> QED
        BY <3>1, <3>2, <1>3, <1>6
    <2> QED
      BY <2>1, <2>2
  <1> QED
    BY <1>1, <1>8, <1>9, <1>10, <1>11, StoredKeeps

\* An insert, a peer's write and a guard's are such writes.
LEMMA InsertComponentKeeps ==
  ASSUME SubInv, NEW e \in DOMAIN owned, NEW c, NEW v, InsertComponent(e, c, v)
  PROVE  SubInv'
  <1> DEFINE object == ObjectIn(With(e, c, v), e)
  <1>1. /\ Stored(With(e, c, v), Heard(view, CallbacksOf(object), e, Single(c, v), {}), {<<e, c>>})
        /\ UNCHANGED <<objects, byObject, despawns>>
    BY DEF InsertComponent, SubscribersIn
  <1> HIDE DEF object
  <1>2. object = ObjectIn(With(e, c, v), e)
    BY DEF object
  <1> QED
    BY <1>1, <1>2, WriteKeeps

\* A guard's subscribers were found before it wrote.
LEMMA GuardWriteKeeps ==
  ASSUME SubInv, NEW e \in DOMAIN owned, NEW c, NEW v, GuardWrite(e, c, v)
  PROVE  SubInv'
  <1> DEFINE object == ObjectIn(owned, e)
             written == IF ObjectIn(With(e, c, v), e) = object THEN {<<e, c>>} ELSE {}
  <1>1. /\ Stored(With(e, c, v), Heard(view, CallbacksOf(object), e, Single(c, v), {}), written)
        /\ UNCHANGED <<objects, byObject, despawns>>
    BY DEF GuardWrite, SubscribersIn
  <1>2. written \subseteq {<<e, c>>} /\ (written # {} => object = ObjectIn(With(e, c, v), e))
    OBVIOUS
  <1>3. object = ObjectIn(owned, e)
    OBVIOUS
  <1> HIDE DEF object, written
  <1> QED
    BY <1>1, <1>2, <1>3, WriteKeeps

\* A removal is told to whoever the entity belonged to, which is whoever knew.
LEMMA RemoveWatchedKeeps ==
  ASSUME SubInv, NEW e \in DOMAIN owned, NEW c, RemoveWatched(e, c)
  PROVE  SubInv'
  <1> DEFINE ow == WithoutComponent(e, c)
             ids == SubscribersIn(owned, e)
             vw == Heard(view, ids, e, Empty, {c})
             r == Only(Row(e), DOMAIN Row(e) \ {c})
  <1>1. Stored(ow, vw, {}) /\ UNCHANGED <<objects, byObject, despawns>>
    BY DEF RemoveWatched, RemovedFrom
  <1>2. DOMAIN r = DOMAIN owned[e] \ {c} /\ \A k \in DOMAIN r : r[k] = owned[e][k]
    BY DEF Only, Row
  <1>3. DOMAIN ow = DOMAIN owned /\ ow[e] = r /\ \A o \in DOMAIN owned : o # e => ow[o] = owned[o]
    <2> HIDE DEF r
    <2>1. ow = Mapped(owned, e, r)
      BY DEF WithoutComponent, r
    <2> HIDE DEF ow
    <2> QED
      BY <2>1 DEF Mapped
  <1>4. \A id : id \in ids <=> id \in Subscribed /\ objects[id] = ObjectIn(owned, e)
    BY CallbacksAre DEF SubInv, SubscribersIn
  <1>5. Subscribed \subseteq Subscriptions
    BY DEF SubInv, SubTypeOK
  <1>6. Pairs(e, DOMAIN Empty) = {} /\ \A p : p \in Pairs(e, {c}) <=> p = <<e, c>>
    BY DEF Pairs, Empty
  <1>7. ASSUME NEW id \in Subscriptions
        PROVE  /\ id \notin ids => vw[id] = view[id]
               /\ id \in ids =>
                    /\ \A p : p \in DOMAIN vw[id] <=> p \in DOMAIN view[id] /\ p # <<e, c>>
                    /\ \A p \in DOMAIN vw[id] : vw[id][p] = view[id][p]
    <2> HIDE DEF ids
    <2>1. /\ id \notin ids => vw[id] = view[id]
          /\ id \in ids =>
               /\ \A p : p \in DOMAIN vw[id] <=>
                    \/ p \in DOMAIN view[id] /\ p \notin Pairs(e, {c})
                    \/ p \in Pairs(e, DOMAIN Empty)
               /\ \A p \in DOMAIN vw[id] :
                    vw[id][p] = IF p \in Pairs(e, DOMAIN Empty) THEN Empty[p[2]] ELSE view[id][p]
      BY HeardMeans
    <2> HIDE DEF vw
    <2> QED
      BY <2>1, <1>6
  <1>8. \A id \in Subscribed : \A p \in DOMAIN view[id] :
          There(owned, p) /\ view[id][p] = ValueIn(owned, p) /\ ObjectIn(owned, p[1]) = objects[id]
    BY DEF SubInv, Tells
  <1> HIDE DEF ow, vw, ids, r
  <1>9. \A p : There(owned, p) /\ p # <<e, c>> => There(ow, p) /\ ValueIn(ow, p) = ValueIn(owned, p)
    <2>1. ASSUME NEW p, There(owned, p), p # <<e, c>>
          PROVE  There(ow, p) /\ ValueIn(ow, p) = ValueIn(owned, p)
      <3>1. CASE p[1] = e
        BY <2>1, <3>1, <1>2, <1>3 DEF There, ValueIn
      <3>2. CASE p[1] # e
        BY <2>1, <3>2, <1>3 DEF There, ValueIn
      <3> QED
        BY <3>1, <3>2
    <2> QED
      BY <2>1
  <1>10. \A id \in Subscriptions \ Subscribed : vw[id] = view[id]
    BY <1>4, <1>7
  <1>11. ASSUME NEW id \in Subscribed, NEW p \in DOMAIN vw[id]
         PROVE  There(ow, p) /\ vw[id][p] = ValueIn(ow, p)
    <2>1. p \in DOMAIN view[id] /\ vw[id][p] = view[id][p]
      BY <1>5, <1>7, <1>11
    <2>2. p # <<e, c>>
      BY <2>1, <1>4, <1>5, <1>7, <1>8, <1>11
    <2> QED
      BY <2>1, <2>2, <1>8, <1>9
  <1>12. ASSUME NEW id \in Subscribed, NEW p \in due[id] \union {},
                p[1] \in DOMAIN ow /\ p[2] \in DOMAIN ow[p[1]]
         PROVE  p \in DOMAIN vw[id]
    <2>1. p \in DOMAIN view[id] /\ p = <<p[1], p[2]>>
      BY <1>8 DEF SubInv, There
    <2>2. p # <<e, c>>
      BY <1>2, <1>3, <1>12
    <2> QED
      BY <2>1, <2>2, <1>5, <1>7
  <1> QED
    BY <1>1, <1>3, <1>10, <1>11, <1>12, StoredKeeps

\* An entity's first components are told to whom they place it with.
LEMMA SpawnBareKeeps ==
  ASSUME SubInv, NEW i \in SubIndices, SpawnBare(i)
  PROVE  SubInv'
  <1> DEFINE n == NextOf(i)
             ow == Mapped(owned, n, Empty)
  <1>1. /\ Stored(ow, view, {}) /\ UNCHANGED <<objects, byObject, despawns>>
        /\ \A e \in DOMAIN owned : e[1] # i
    BY DEF SpawnBare, Vacant
  <1>2. n \notin DOMAIN owned
    BY <1>1 DEF NextOf
  <1> HIDE DEF n
  <1>3. DOMAIN ow = DOMAIN owned \union {n} /\ \A o \in DOMAIN owned : ow[o] = owned[o]
    BY <1>2 DEF Mapped
  <1> HIDE DEF ow
  <1>4. ASSUME NEW id \in Subscribed, NEW p \in DOMAIN view[id]
        PROVE  There(ow, p) /\ view[id][p] = ValueIn(ow, p)
    BY <1>3, <1>4 DEF SubInv, Tells, There, ValueIn
  <1>5. \A id \in Subscribed : \A p \in due[id] \union {} : p \in DOMAIN view[id]
    BY DEF SubInv
  <1> QED
    BY <1>1, <1>3, <1>4, <1>5, StoredKeeps

\* A bundle that places its entity first is told, whole, to the entity's object.
LEMMA SpawnPairKeeps ==
  ASSUME SubInv, NEW i \in SubIndices, NEW object, NEW v,
         SpawnPair(i, <<"Owner", "Data">>, [Owner |-> object, Data |-> v])
  PROVE  SubInv'
  <1> DEFINE e == NextOf(i)
             bundle == [Owner |-> object, Data |-> v]
             first == Mapped(owned, e, Single("Owner", object))
             both == Mapped(owned, e, bundle)
             once == Heard(view, SubscribersIn(first, e), e, first[e], {})
             twice == Heard(once, SubscribersIn(both, e), e, Single("Data", v), {})
             written == Pairs(e, {"Owner", "Data"})
  <1>1. /\ Stored(both, twice, written)
        /\ UNCHANGED <<objects, byObject, despawns>>
        /\ \A o \in DOMAIN owned : o[1] # i
    <2>1. Head(<<"Owner", "Data">>) = "Owner" /\ <<"Owner", "Data">>[2] = "Data"
      OBVIOUS
    <2>2. bundle["Owner"] = object /\ bundle["Data"] = v
      OBVIOUS
    <2>3. ~ResolverPanics(<<"Owner", "Data">>)
      BY <2>1 DEF ResolverPanics
    <2> HIDE DEF bundle
    <2>4. SpawnPair(i, <<"Owner", "Data">>, bundle)
      BY DEF bundle
    <2> QED
      BY <2>1, <2>2, <2>3, <2>4 DEF SpawnPair, Vacant
  <1>2. e \notin DOMAIN owned
    BY <1>1 DEF NextOf
  <1> HIDE DEF e
  <1>3. first[e] = Single("Owner", object) /\ e \in DOMAIN first
    BY DEF Mapped
  <1>4. /\ DOMAIN both = DOMAIN owned \union {e} /\ both[e] = bundle
        /\ \A o \in DOMAIN owned : both[o] = owned[o]
    BY <1>2 DEF Mapped
  <1>5. DOMAIN bundle = {"Owner", "Data"} /\ bundle["Owner"] = object /\ bundle["Data"] = v
        /\ bundle.Owner = object
    OBVIOUS
  <1>6. ObjectIn(first, e) = object
    <2>1. DOMAIN Single("Owner", object) = {"Owner"} /\ Single("Owner", object).Owner = object
      BY DEF Single
    <2> HIDE DEF first
    <2> QED
      BY <1>3, <2>1 DEF ObjectIn
  <1> HIDE DEF bundle, first, both
  <1>7. ObjectIn(both, e) = object
    BY <1>4, <1>5 DEF ObjectIn
  <1> DEFINE ids == CallbacksOf(object)
  <1>8. /\ once = Heard(view, ids, e, Single("Owner", object), {})
        /\ twice = Heard(once, ids, e, Single("Data", v), {})
    BY <1>3, <1>6, <1>7 DEF SubscribersIn
  <1>9. \A id : id \in ids <=> id \in Subscribed /\ objects[id] = object
    BY CallbacksAre DEF SubInv
  <1> HIDE DEF ids, once, twice
  <1>10. /\ Pairs(e, {}) = {} /\ Single("Owner", object)["Owner"] = object /\ Single("Data", v)["Data"] = v
         /\ \A p : p \in Pairs(e, DOMAIN Single("Owner", object)) <=> p = <<e, "Owner">>
         /\ \A p : p \in Pairs(e, DOMAIN Single("Data", v)) <=> p = <<e, "Data">>
         /\ \A p : p \in written <=> p = <<e, "Owner">> \/ p = <<e, "Data">>
    BY DEF Pairs, Single
  <1> HIDE DEF written
  <1>11. ASSUME NEW id \in Subscriptions
         PROVE  /\ id \notin ids => once[id] = view[id]
                /\ id \in ids =>
                     /\ \A p : p \in DOMAIN once[id] <=> p \in DOMAIN view[id] \/ p = <<e, "Owner">>
                     /\ \A p \in DOMAIN once[id] :
                          once[id][p] = IF p = <<e, "Owner">> THEN object ELSE view[id][p]
    BY <1>8, <1>10, HeardMeans
  <1>12. ASSUME NEW id \in Subscriptions
         PROVE  /\ id \notin ids => twice[id] = view[id]
                /\ id \in ids =>
                     /\ \A p : p \in DOMAIN twice[id] <=> p \in DOMAIN view[id] \/ p \in written
                     /\ \A p \in DOMAIN twice[id] :
                          twice[id][p] = IF p = <<e, "Data">> THEN v
                                         ELSE IF p = <<e, "Owner">> THEN object ELSE view[id][p]
    <2>1. /\ id \notin ids => twice[id] = once[id]
          /\ id \in ids =>
               /\ \A p : p \in DOMAIN twice[id] <=> p \in DOMAIN once[id] \/ p = <<e, "Data">>
               /\ \A p \in DOMAIN twice[id] :
                    twice[id][p] = IF p = <<e, "Data">> THEN v ELSE once[id][p]
      BY <1>8, <1>10, HeardMeans
    <2> QED
      BY <2>1, <1>10, <1>11
  <1>13. Subscribed \subseteq Subscriptions
    BY DEF SubInv, SubTypeOK
  <1>14. \A id \in Subscribed : \A p \in DOMAIN view[id] :
           There(both, p) /\ view[id][p] = ValueIn(both, p) /\ p \notin written
    <2>1. ASSUME NEW id \in Subscribed, NEW p \in DOMAIN view[id]
          PROVE  There(both, p) /\ view[id][p] = ValueIn(both, p) /\ p \notin written
      <3>1. There(owned, p) /\ view[id][p] = ValueIn(owned, p)
        BY DEF SubInv, Tells
      <3>2. p[1] # e
        BY <3>1, <1>2 DEF There
      <3> QED
        BY <3>1, <3>2, <1>4, <1>10 DEF There, ValueIn
    <2> QED
      BY <2>1
  <1>15. \A p \in written :
           /\ There(both, p) /\ ObjectIn(both, p[1]) = object
           /\ ValueIn(both, p) = IF p = <<e, "Data">> THEN v ELSE object
    <2>1. /\ There(both, <<e, "Owner">>) /\ ValueIn(both, <<e, "Owner">>) = object
          /\ There(both, <<e, "Data">>) /\ ValueIn(both, <<e, "Data">>) = v
      BY <1>4, <1>5 DEF There, ValueIn
    <2>2. <<e, "Owner">> # <<e, "Data">>
      OBVIOUS
    <2> QED
      BY <2>1, <2>2, <1>7, <1>10
  <1>16. \A id \in Subscriptions \ Subscribed : twice[id] = view[id]
    BY <1>9, <1>12
  <1>17. ASSUME NEW id \in Subscribed, NEW p \in DOMAIN twice[id]
         PROVE  There(both, p) /\ twice[id][p] = ValueIn(both, p)
    <2>1. CASE id \in ids
      <3>1. CASE p \in written
        BY <2>1, <3>1, <1>10, <1>12, <1>13, <1>15
      <3>2. CASE p \notin written
        BY <2>1, <3>2, <1>10, <1>12, <1>13, <1>14, <1>17
      <3> QED
        BY <3>1, <3>2
    <2>2. CASE id \notin ids
      BY <2>2, <1>12, <1>13, <1>14, <1>17
    <2> QED
      BY <2>1, <2>2
  <1>18. ASSUME NEW id \in Subscribed, NEW p \in due[id] \union written,
                ObjectIn(both, p[1]) = objects[id]
         PROVE  p \in DOMAIN twice[id]
    <2>1. CASE p \in due[id]
      BY <2>1, <1>12, <1>13 DEF SubInv
    <2>2. CASE p \in written
      <3>1. id \in ids
        BY <2>2, <1>9, <1>15, <1>18
      <3> QED
        BY <2>2, <3>1, <1>12, <1>13
    <2> QED
      BY <2>1, <2>2
  <1> QED
    BY <1>1, <1>4, <1>16, <1>17, <1>18, StoredKeeps

\* A despawn is told to all who knew the entity, and ends the subscriptions to it.
LEMMA DespawnWatchedKeeps ==
  ASSUME SubInv, NEW e \in DOMAIN owned, DespawnWatched(e)
  PROVE  SubInv'
  <1> DEFINE ended == CallbacksOf(e)
             ids == SubscribersIn(owned, e)
             told == Heard(view, ids, e, Empty, DOMAIN Row(e))
  <1>1. /\ owned' = Only(owned, DOMAIN owned \ {e})
        /\ view' = [id \in Subscriptions |->
                      IF id \in ended THEN Only(told[id], Pairs(e, {"Owner", "Data"})) ELSE told[id]]
        /\ due' = [id \in Subscriptions |->
                     IF id \in ended THEN {} ELSE {p \in due[id] : p[1] # e}]
        /\ byObject' = Only(byObject, DOMAIN byObject \ {e})
        /\ objects' = Only(objects, Subscribed \ ended)
        /\ despawns' = [id \in Subscriptions |-> despawns[id] + (IF id \in ended THEN 1 ELSE 0)]
    BY DEF DespawnWatched
  <1>2. \A id : id \in ended <=> id \in Subscribed /\ objects[id] = e
    BY CallbacksAre DEF SubInv
  <1>3. \A id : id \in ids <=> id \in Subscribed /\ objects[id] = ObjectIn(owned, e)
    BY CallbacksAre DEF SubInv, SubscribersIn
  <1> HIDE DEF ended, ids, told
  <1>4. /\ Subscribed \subseteq Subscriptions /\ DOMAIN due = Subscriptions
        /\ despawns \in [Subscriptions -> Int]
        /\ \A o \in DOMAIN byObject : byObject[o] \in Seq(Subscriptions)
    BY DEF SubInv, SubTypeOK
  <1>5. /\ DOMAIN owned' = DOMAIN owned \ {e} /\ \A o \in DOMAIN owned' : owned'[o] = owned[o]
        /\ Subscribed' = Subscribed \ ended /\ \A id \in Subscribed' : objects'[id] = objects[id]
        /\ DOMAIN byObject' = DOMAIN byObject \ {e}
        /\ \A o \in DOMAIN byObject' : byObject'[o] = byObject[o]
    BY <1>1 DEF Only, Subscribed
  <1>6. \A id \in Subscribed : \A p \in DOMAIN view[id] :
          There(owned, p) /\ view[id][p] = ValueIn(owned, p) /\ ObjectIn(owned, p[1]) = objects[id]
    BY DEF SubInv, Tells
  <1>7. ASSUME NEW id \in Subscribed
        PROVE  \A p : p \in DOMAIN told[id] <=> p \in DOMAIN view[id] /\ p[1] # e
    <2>1. id \in Subscriptions
      BY <1>4
    <2>2. CASE id \notin ids
      <3>1. told[id] = view[id]
        BY <2>1, <2>2, HeardMeans DEF told
      <3>2. \A p \in DOMAIN view[id] : p[1] # e
        BY <2>2, <1>3, <1>6
      <3> QED
        BY <3>1, <3>2
    <2>3. CASE id \in ids
      <3>1. \A p : p \in DOMAIN told[id] <=>
              \/ p \in DOMAIN view[id] /\ p \notin Pairs(e, DOMAIN Row(e))
              \/ p \in Pairs(e, DOMAIN Empty)
        BY <2>1, <2>3, HeardMeans DEF told
      <3>2. Pairs(e, DOMAIN Empty) = {}
        BY DEF Pairs, Empty
      <3>3. \A p \in DOMAIN view[id] : p \in Pairs(e, DOMAIN Row(e)) <=> p[1] = e
        <4>1. ASSUME NEW p \in DOMAIN view[id]
              PROVE  p \in Pairs(e, DOMAIN Row(e)) <=> p[1] = e
          <5>1. p = <<p[1], p[2]>> /\ p[2] \in DOMAIN owned[p[1]]
            BY <1>6 DEF There
          <5> QED
            BY <5>1, PairsMean DEF Row
        <4> QED
          BY <4>1
      <3> QED
        BY <3>1, <3>2, <3>3
    <2> QED
      BY <2>2, <2>3
  <1>8. ASSUME NEW id \in Subscribed
        PROVE  \A p \in DOMAIN told[id] : told[id][p] = view[id][p]
    <2>1. id \in Subscriptions /\ Pairs(e, DOMAIN Empty) = {}
      BY <1>4 DEF Pairs, Empty
    <2> QED
      BY <2>1, HeardMeans DEF told
  <1>9. ASSUME NEW id \in Subscriptions, id \notin Subscribed
        PROVE  told[id] = view[id] /\ view'[id] = view[id] /\ due'[id] \subseteq due[id]
    <2>1. id \notin ids /\ id \notin ended
      BY <1>2, <1>3, <1>9
    <2>2. told[id] = view[id]
      BY <2>1, HeardMeans DEF told
    <2> QED
      BY <2>1, <2>2, <1>1
  <1>10. ASSUME NEW id \in ended
         PROVE  DOMAIN view'[id] = {} /\ due'[id] = {}
    <2>1. id \in Subscribed /\ id \in Subscriptions
      BY <1>2, <1>4
    <2>2. view'[id] = Only(told[id], Pairs(e, {"Owner", "Data"})) /\ due'[id] = {}
      BY <2>1, <1>1, <1>10
    <2>3. \A p \in DOMAIN told[id] : p \notin Pairs(e, {"Owner", "Data"})
      BY <2>1, <1>7, PairsMean
    <2> QED
      BY <2>2, <2>3 DEF Only
  <1>11. ASSUME NEW id \in Subscribed'
         PROVE  /\ Tells(owned', view'[id], objects'[id])
                /\ due'[id] \subseteq DOMAIN view'[id]
    <2>1. id \in Subscribed /\ id \in Subscriptions /\ id \notin ended
      BY <1>4, <1>5
    <2>2. view'[id] = told[id] /\ due'[id] = {p \in due[id] : p[1] # e}
      BY <2>1, <1>1
    <2>3. due'[id] \subseteq DOMAIN view'[id]
      BY <2>1, <2>2, <1>7 DEF SubInv
    <2>4. ASSUME NEW p \in DOMAIN view'[id]
          PROVE  /\ There(owned', p) /\ view'[id][p] = ValueIn(owned', p)
                 /\ ObjectIn(owned', p[1]) = objects'[id]
      <3>1. p \in DOMAIN view[id] /\ p[1] # e /\ view'[id][p] = view[id][p]
        BY <2>1, <2>2, <1>7, <1>8
      <3>2. /\ There(owned, p) /\ view[id][p] = ValueIn(owned, p)
            /\ ObjectIn(owned, p[1]) = objects[id]
        BY <2>1, <3>1, <1>6
      <3>3. p[1] \in DOMAIN owned' /\ owned'[p[1]] = owned[p[1]]
        BY <3>1, <3>2, <1>5 DEF There
      <3> QED
        BY <3>1, <3>2, <3>3, <1>5 DEF There, ValueIn, ObjectIn
    <2> QED
      BY <2>3, <2>4 DEF Tells
  <1>12. SubTypeOK'
    <2>1. despawns' \in [Subscriptions -> Int]
      BY <1>1, <1>4
    <2>2. DOMAIN view' = Subscriptions /\ DOMAIN due' = Subscriptions
      BY <1>1
    <2>3. \A o \in DOMAIN byObject' : byObject'[o] \in Seq(Subscriptions)
      BY <1>4, <1>5
    <2> QED
      BY <2>1, <2>2, <2>3, <1>4, <1>5 DEF SubTypeOK
  <1>13. \A id \in Subscriptions : despawns'[id] = despawns[id] + (IF id \in ended THEN 1 ELSE 0)
    BY <1>1
  <1>14. EndsTold'
    <2>1. ASSUME NEW id \in Subscriptions
          PROVE  /\ despawns'[id] <= 1
                 /\ id \in Subscribed' => despawns'[id] = 0
                 /\ id \notin Subscribed' => DOMAIN view'[id] = {} /\ due'[id] = {}
      <3>1. /\ despawns[id] \in Int /\ despawns[id] <= 1
            /\ id \in Subscribed => despawns[id] = 0
            /\ id \notin Subscribed => DOMAIN view[id] = {} /\ due[id] = {}
        BY <1>4 DEF SubInv, EndsTold
      <3>2. CASE id \in ended
        BY <3>1, <3>2, <1>2, <1>5, <1>10, <1>13
      <3>3. CASE id \notin ended
        <4>1. despawns'[id] = despawns[id]
          BY <3>1, <3>3, <1>13
        <4>2. id \notin Subscribed' => id \notin Subscribed
          BY <3>3, <1>5
        <4> QED
          BY <3>1, <4>1, <4>2, <1>5, <1>9
      <3> QED
        BY <3>2, <3>3
    <2> QED
      BY <2>1 DEF EndsTold
  <1>15. Numbered'
    <2>1. PICK n \in 0 .. MaxSubscriptions : \A id \in Subscriptions : despawns[id] # -1 <=> id <= n
      BY DEF SubInv, Numbered
    <2>2. \A id \in Subscriptions : despawns'[id] # -1 <=> despawns[id] # -1
      <3>1. ASSUME NEW id \in Subscriptions
            PROVE  despawns'[id] # -1 <=> despawns[id] # -1
        <4>1. CASE id \in ended
          <5>1. despawns[id] = 0
            BY <4>1, <1>2 DEF SubInv, EndsTold
          <5> QED
            BY <4>1, <5>1, <1>13
        <4>2. CASE id \notin ended
          BY <4>2, <1>4, <1>13
        <4> QED
          BY <4>1, <4>2
      <3> QED
        BY <3>1
    <2> QED
      BY <2>1, <2>2 DEF Numbered
  <1>16. BooksAgree'
    <2>1. ASSUME NEW o \in DOMAIN byObject'
          PROVE  /\ Len(byObject'[o]) > 0
                 /\ \A id \in ToSet(byObject'[o]) : id \in Subscribed' /\ objects'[id] = o
      <3>1. o \in DOMAIN byObject /\ o # e /\ byObject'[o] = byObject[o]
        BY <1>5
      <3>2. \A id \in ToSet(byObject[o]) : id \in Subscribed /\ objects[id] = o
        BY <3>1 DEF SubInv, BooksAgree
      <3>3. Len(byObject[o]) > 0
        BY <3>1 DEF SubInv, BooksAgree
      <3> QED
        BY <3>1, <3>2, <3>3, <1>2, <1>5
    <2>2. ASSUME NEW id \in Subscribed'
          PROVE  objects'[id] \in DOMAIN owned' /\ id \in CallbacksOf(objects[id])'
      <3>1. id \in Subscribed /\ objects'[id] = objects[id] /\ objects[id] # e
        BY <1>2, <1>5
      <3>2. objects[id] \in DOMAIN owned /\ id \in CallbacksOf(objects[id])
        BY <3>1 DEF SubInv, BooksAgree
      <3>3. objects[id] \in DOMAIN byObject' /\ byObject'[objects[id]] = byObject[objects[id]]
        BY <3>1, <3>2, <1>5 DEF CallbacksOf
      <3> QED
        BY <3>1, <3>2, <3>3, <1>5 DEF CallbacksOf
    <2> QED
      BY <2>1, <2>2 DEF BooksAgree
  <1> QED
    BY <1>11, <1>12, <1>14, <1>15, <1>16 DEF SubInv

\* A new subscriber has the next number, which nobody has.
LEMMA SubscribeObjectKeeps ==
  ASSUME SubscriptionAssumption, SubInv, NEW object \in DOMAIN owned, SubscribeObject(object)
  PROVE  SubInv'
  <1>1. PICK n \in 0 .. MaxSubscriptions : \A id \in Subscriptions : despawns[id] # -1 <=> id <= n
    BY DEF SubInv, Numbered
  <1>2. MaxSubscriptions \in Nat
    BY DEF SubscriptionAssumption
  <1>3. Cardinality({i \in Subscriptions : despawns[i] # -1}) = n
    <2>1. {i \in Subscriptions : despawns[i] # -1} = 1 .. n
      BY <1>1, <1>2 DEF Subscriptions
    <2>2. n \in Int /\ 1 \in Int /\ n >= 0
      BY <1>2
    <2>3. Cardinality(1 .. n) = IF 1 > n THEN 0 ELSE n - 1 + 1
      BY <2>2, FS_Interval
    <2>4. Cardinality(1 .. n) = n
      BY <2>2, <2>3
    <2> QED
      BY <2>1, <2>4
  <1> DEFINE seq == IF object \in DOMAIN byObject THEN byObject[object] ELSE <<>>
  <1>4. PICK id \in Subscriptions :
          /\ id = 1 + Cardinality({i \in Subscriptions : despawns[i] # -1})
          /\ objects' = Mapped(objects, id, object)
          /\ byObject' = Mapped(byObject, object, Append(seq, id))
          /\ despawns' = [despawns EXCEPT ![id] = 0]
    BY DEF SubscribeObject
  <1>5. id = n + 1 /\ id \notin Subscribed /\ despawns[id] = -1
    <2>1. id = n + 1
      BY <1>2, <1>3, <1>4
    <2>2. despawns[id] = -1
      BY <2>1, <1>1, <1>2
    <2> QED
      BY <2>1, <2>2 DEF SubInv, EndsTold
  <1>6. UNCHANGED <<owned, view, due>>
    BY DEF SubscribeObject
  <1>7. /\ Subscribed' = Subscribed \union {id} /\ objects'[id] = object
        /\ \A o \in Subscribed : objects'[o] = objects[o]
    BY <1>4, <1>5 DEF Mapped, Subscribed
  <1>8. /\ seq \in Seq(Subscriptions)
        /\ \A o \in DOMAIN byObject : byObject[o] \in Seq(Subscriptions)
        /\ DOMAIN view = Subscriptions /\ DOMAIN due = Subscriptions
        /\ despawns \in [Subscriptions -> Int] /\ Subscribed \subseteq Subscriptions
    BY DEF SubInv, SubTypeOK
  <1> DEFINE t == Append(seq, id)
  <1>9. /\ t \in Seq(Subscriptions) /\ Len(t) > 0
        /\ ToSet(t) = ToSet(seq) \union {id}
    <2> HIDE DEF seq
    <2>1. /\ t \in Seq(Subscriptions) /\ Len(t) = Len(seq) + 1
          /\ \A i \in 1 .. Len(seq) : t[i] = seq[i]
          /\ t[Len(seq) + 1] = id
      BY <1>8, AppendProperties
    <2>2. Len(seq) \in Nat /\ DOMAIN seq = 1 .. Len(seq) /\ DOMAIN t = 1 .. Len(t)
      BY <2>1, <1>8, LenProperties
    <2> HIDE DEF t
    <2> QED
      BY <2>1, <2>2 DEF ToSet
  <1>10. ToSet(seq) = CallbacksOf(object)
    BY DEF CallbacksOf, ToSet
  <1> HIDE DEF seq, t
  <1>11. /\ DOMAIN byObject' = DOMAIN byObject \union {object} /\ byObject'[object] = t
         /\ \A o \in DOMAIN byObject : o # object => byObject'[o] = byObject[o]
    <2>1. byObject' = Mapped(byObject, object, t)
      BY <1>4 DEF t
    <2> QED
      BY <2>1 DEF Mapped
  <1>12. SubTypeOK'
    <2>1. despawns' \in [Subscriptions -> Int]
      BY <1>4, <1>8
    <2>2. \A o \in DOMAIN byObject' : byObject'[o] \in Seq(Subscriptions)
      <3>1. ASSUME NEW o \in DOMAIN byObject'
            PROVE  byObject'[o] \in Seq(Subscriptions)
        <4>1. CASE o = object
          BY <4>1, <1>9, <1>11
        <4>2. CASE o # object
          BY <4>2, <1>8, <1>11
        <4> QED
          BY <4>1, <4>2
      <3> QED
        BY <3>1
    <2>3. Subscribed' \subseteq Subscriptions
      BY <1>4, <1>7, <1>8
    <2>4. DOMAIN view' = Subscriptions /\ DOMAIN due' = Subscriptions
      BY <1>6, <1>8
    <2> QED
      BY <2>1, <2>2, <2>3, <2>4 DEF SubTypeOK, Subscriptions
  <1>13. \A i \in Subscriptions : despawns'[i] = IF i = id THEN 0 ELSE despawns[i]
    BY <1>4, <1>8
  <1>14. Numbered'
    <2>1. n + 1 \in 0 .. MaxSubscriptions
      BY <1>2, <1>5 DEF Subscriptions
    <2>2. \A i \in Subscriptions : despawns'[i] # -1 <=> i <= n + 1
      BY <1>1, <1>2, <1>5, <1>13 DEF Subscriptions
    <2> QED
      BY <2>1, <2>2 DEF Numbered
  <1>15. EndsTold'
    BY <1>6, <1>7, <1>13 DEF SubInv, EndsTold
  <1>16. BooksAgree'
    <2>1. ASSUME NEW o \in DOMAIN byObject'
          PROVE  /\ Len(byObject'[o]) > 0
                 /\ \A i \in ToSet(byObject'[o]) : i \in Subscribed' /\ objects'[i] = o
      <3>1. CASE o = object
        <4>1. \A i \in CallbacksOf(object) : i \in Subscribed /\ objects[i] = object
          BY CallbacksAre DEF SubInv
        <4>2. \A i \in ToSet(t) : i = id \/ i \in CallbacksOf(object)
          BY <1>9, <1>10
        <4> QED
          BY <3>1, <4>1, <4>2, <1>7, <1>9, <1>11
      <3>2. CASE o # object
        <4>1. o \in DOMAIN byObject /\ byObject'[o] = byObject[o]
          BY <3>2, <1>11
        <4>2. Len(byObject[o]) > 0 /\ \A i \in ToSet(byObject[o]) : i \in Subscribed /\ objects[i] = o
          BY <4>1 DEF SubInv, BooksAgree
        <4> QED
          BY <4>1, <4>2, <1>7
      <3> QED
        BY <3>1, <3>2
    <2>2. ASSUME NEW i \in Subscribed'
          PROVE  objects'[i] \in DOMAIN owned' /\ i \in CallbacksOf(objects[i])'
      <3>1. CASE i = id
        BY <3>1, <1>6, <1>7, <1>9, <1>11 DEF CallbacksOf
      <3>2. CASE i # id
        <4>1. i \in Subscribed /\ objects'[i] = objects[i]
          BY <3>2, <1>7
        <4>2. objects[i] \in DOMAIN owned /\ i \in CallbacksOf(objects[i])
          BY <4>1 DEF SubInv, BooksAgree
        <4>3. CASE objects[i] = object
          BY <4>1, <4>2, <4>3, <1>6, <1>9, <1>10, <1>11 DEF CallbacksOf
        <4>4. CASE objects[i] # object
          <5>1. objects[i] \in DOMAIN byObject' /\ byObject'[objects[i]] = byObject[objects[i]]
            BY <4>2, <4>4, <1>11 DEF CallbacksOf
          <5> QED
            BY <4>1, <4>2, <5>1, <1>6 DEF CallbacksOf
        <4> QED
          BY <4>3, <4>4
      <3> QED
        BY <3>1, <3>2
    <2> QED
      BY <2>1, <2>2 DEF BooksAgree
  <1>17. ASSUME NEW i \in Subscribed'
         PROVE  Tells(owned', view'[i], objects'[i]) /\ due'[i] \subseteq DOMAIN view'[i]
    <2>1. CASE i = id
      <3>1. DOMAIN view[id] = {} /\ due[id] = {}
        BY <1>5 DEF SubInv, EndsTold
      <3> QED
        BY <2>1, <3>1, <1>6 DEF Tells
    <2>2. CASE i # id
      BY <2>2, <1>6, <1>7 DEF SubInv
    <2> QED
      BY <2>1, <2>2
  <1> QED
    BY <1>12, <1>14, <1>15, <1>16, <1>17 DEF SubInv

\* An unsubscription takes one subscriber off its object, and the object off
\* the books with its last.
LEMMA UnsubscribeObjectKeeps ==
  ASSUME SubInv, NEW id \in Subscribed, UnsubscribeObject(id)
  PROVE  SubInv'
  <1> DEFINE object == objects[id]
             rest == Without(byObject[object], id)
  <1>1. /\ objects' = Only(objects, Subscribed \ {id})
        /\ byObject' = IF Len(rest) = 0 THEN Only(byObject, DOMAIN byObject \ {object})
                       ELSE [byObject EXCEPT ![object] = rest]
        /\ view' = [view EXCEPT ![id] = Empty] /\ due' = [due EXCEPT ![id] = {}]
        /\ UNCHANGED <<owned, despawns>>
    BY DEF UnsubscribeObject
  <1>2. /\ Subscribed \subseteq Subscriptions
        /\ DOMAIN view = Subscriptions /\ DOMAIN due = Subscriptions
        /\ \A o \in DOMAIN byObject : byObject[o] \in Seq(Subscriptions)
    BY DEF SubInv, SubTypeOK
  <1>3. id \in CallbacksOf(object)
    BY DEF SubInv, BooksAgree
  <1>4. object \in DOMAIN byObject /\ CallbacksOf(object) = ToSet(byObject[object])
    BY <1>3 DEF CallbacksOf
  <1>5. rest \in Seq(Subscriptions) /\ ToSet(rest) = CallbacksOf(object) \ {id}
    BY <1>2, <1>4, WithoutOthers
  <1> HIDE DEF rest, object
  <1>6. Len(rest) \in Nat /\ DOMAIN rest = 1 .. Len(rest)
    BY <1>5, LenProperties
  <1>7. /\ Subscribed' = Subscribed \ {id} /\ \A i \in Subscribed' : objects'[i] = objects[i]
    BY <1>1 DEF Only, Subscribed
  <1>8. /\ \A i \in Subscriptions : i # id => view'[i] = view[i] /\ due'[i] = due[i]
        /\ DOMAIN view'[id] = {} /\ due'[id] = {}
        /\ DOMAIN view' = Subscriptions /\ DOMAIN due' = Subscriptions
    BY <1>1, <1>2 DEF Empty
  <1>9. /\ DOMAIN byObject' \subseteq DOMAIN byObject
        /\ \A o \in DOMAIN byObject : o # object => o \in DOMAIN byObject' /\ byObject'[o] = byObject[o]
        /\ object \in DOMAIN byObject' => byObject'[object] = rest /\ Len(rest) > 0
        /\ object \notin DOMAIN byObject' => Len(rest) = 0
    <2>1. CASE Len(rest) = 0
      BY <2>1, <1>1, <1>4 DEF Only
    <2>2. CASE Len(rest) # 0
      BY <2>2, <1>1, <1>4, <1>6
    <2> QED
      BY <2>1, <2>2
  <1>10. SubTypeOK'
    <2>1. \A o \in DOMAIN byObject' : byObject'[o] \in Seq(Subscriptions)
      <3>1. ASSUME NEW o \in DOMAIN byObject'
            PROVE  byObject'[o] \in Seq(Subscriptions)
        <4>1. CASE o = object
          BY <4>1, <1>5, <1>9
        <4>2. CASE o # object
          BY <4>2, <1>2, <1>9
        <4> QED
          BY <4>1, <4>2
      <3> QED
        BY <3>1
    <2>2. despawns' \in [Subscriptions -> Int]
      BY <1>1 DEF SubInv, SubTypeOK
    <2> QED
      BY <2>1, <2>2, <1>2, <1>7, <1>8 DEF SubTypeOK, Subscriptions
  <1>11. Numbered'
    BY <1>1 DEF SubInv, Numbered
  <1>12. EndsTold'
    BY <1>1, <1>7, <1>8 DEF SubInv, EndsTold
  <1>13. \A i : i \in CallbacksOf(object) <=> i \in Subscribed /\ objects[i] = object
    BY CallbacksAre DEF SubInv
  <1>14. BooksAgree'
    <2>1. ASSUME NEW o \in DOMAIN byObject'
          PROVE  /\ Len(byObject'[o]) > 0
                 /\ \A i \in ToSet(byObject'[o]) : i \in Subscribed' /\ objects'[i] = o
      <3>1. CASE o = object
        BY <3>1, <1>5, <1>7, <1>9, <1>13
      <3>2. CASE o # object
        <4>1. o \in DOMAIN byObject /\ byObject'[o] = byObject[o]
          BY <3>2, <1>9
        <4>2. Len(byObject[o]) > 0 /\ \A i \in ToSet(byObject[o]) : i \in Subscribed /\ objects[i] = o
          BY <4>1 DEF SubInv, BooksAgree
        <4> QED
          BY <3>2, <4>1, <4>2, <1>7 DEF object
      <3> QED
        BY <3>1, <3>2
    <2>2. ASSUME NEW i \in Subscribed'
          PROVE  objects'[i] \in DOMAIN owned' /\ i \in CallbacksOf(objects[i])'
      <3>1. i \in Subscribed /\ i # id /\ objects'[i] = objects[i]
        BY <1>7
      <3>2. objects[i] \in DOMAIN owned /\ i \in CallbacksOf(objects[i])
        BY <3>1 DEF SubInv, BooksAgree
      <3>3. CASE objects[i] = object
        <4>1. i \in ToSet(rest)
          BY <3>1, <3>2, <3>3, <1>5
        <4>2. Len(rest) # 0
          BY <4>1, <1>6 DEF ToSet
        <4> QED
          BY <3>1, <3>2, <3>3, <4>1, <4>2, <1>1, <1>9 DEF CallbacksOf
      <3>4. CASE objects[i] # object
        <4>1. objects[i] \in DOMAIN byObject' /\ byObject'[objects[i]] = byObject[objects[i]]
          BY <3>2, <3>4, <1>9 DEF CallbacksOf
        <4> QED
          BY <3>1, <3>2, <4>1, <1>1 DEF CallbacksOf
      <3> QED
        BY <3>3, <3>4
    <2> QED
      BY <2>1, <2>2 DEF BooksAgree
  <1>15. \A i \in Subscribed' : Tells(owned', view'[i], objects'[i]) /\ due'[i] \subseteq DOMAIN view'[i]
    BY <1>1, <1>2, <1>7, <1>8 DEF SubInv
  <1> QED
    BY <1>10, <1>11, <1>12, <1>14, <1>15 DEF SubInv

\* The invariant holds at the start.
LEMMA SubscriptionInitially ==
  ASSUME SubscriptionAssumption, SubscriptionInit
  PROVE  SubInv
  <1> USE DEF SubscriptionInit
  <1>1. /\ DOMAIN Empty = {} /\ Subscribed = {} /\ DOMAIN byObject = {}
        /\ \A id \in Subscriptions : DOMAIN view[id] = {} /\ due[id] = {} /\ despawns[id] = -1
    BY DEF Empty, Subscribed
  <1>2. SubTypeOK
    BY <1>1 DEF SubTypeOK
  <1>3. Numbered
    <2>1. 0 \in 0 .. MaxSubscriptions /\ \A id \in Subscriptions : ~(id <= 0)
      BY DEF Subscriptions, SubscriptionAssumption
    <2> QED
      BY <2>1, <1>1 DEF Numbered
  <1> QED
    BY <1>1, <1>2, <1>3 DEF SubInv, EndsTold, BooksAgree

\* Every action keeps the invariant.
LEMMA SubscriptionSteps ==
  ASSUME SubscriptionAssumption, OwnersFirst, SubInv, [SubscriptionNext]_subVars
  PROVE  SubInv'
  <1>1. CASE UNCHANGED subVars
    <2>1. UNCHANGED <<owned, byObject, objects, view, due, despawns>>
      BY <1>1 DEF subVars
    <2> QED
      BY <2>1 DEF SubInv, SubTypeOK, Numbered, EndsTold, BooksAgree, CallbacksOf, Subscribed
  <1>2. CASE SubscriptionNext
    <2>1. CASE WatchedWrite
      <3>1. PICK e \in DOMAIN owned, c \in {"Owner", "Data"} :
              \/ RemoveWatched(e, c)
              \/ \E v \in ValuesOf(c) :
                   InsertComponent(e, c, v) \/ PeerWritesField(e, c, v) \/ GuardWrite(e, c, v)
        BY <2>1 DEF WatchedWrite
      <3> QED
        BY <3>1, RemoveWatchedKeeps, InsertComponentKeeps, GuardWriteKeeps DEF PeerWritesField
    <2>2. CASE WatchedSpawn
      <3>1. PICK i \in SubIndices :
              \/ SpawnBare(i)
              \/ \E order \in BundleOrders, object \in Spawned, v \in DataValues :
                   SpawnPair(i, order, [Owner |-> object, Data |-> v])
        BY <2>2 DEF WatchedSpawn
      <3>2. CASE SpawnBare(i)
        BY <3>2, SpawnBareKeeps
      <3>3. CASE \E order \in BundleOrders, object \in Spawned, v \in DataValues :
                   SpawnPair(i, order, [Owner |-> object, Data |-> v])
        <4>1. PICK object \in Spawned, v \in DataValues :
                SpawnPair(i, <<"Owner", "Data">>, [Owner |-> object, Data |-> v])
          BY <3>3 DEF OwnersFirst
        <4> QED
          BY <4>1, SpawnPairKeeps
      <3> QED
        BY <3>1, <3>2, <3>3
    <2>3. CASE \E e \in DOMAIN owned : DespawnWatched(e) \/ SubscribeObject(e)
      BY <2>3, DespawnWatchedKeeps, SubscribeObjectKeeps
    <2>4. CASE \E id \in Subscribed : UnsubscribeObject(id)
      BY <2>4, UnsubscribeObjectKeeps
    <2> QED
      BY <1>2, <2>1, <2>2, <2>3, <2>4 DEF SubscriptionNext
  <1> QED
    BY <1>1, <1>2

\* What a subscriber was told last of a component is what it holds, for as long
\* as its entity belongs to the object, and of what is gone it was told; every
\* subscription ends once, in both maps: when bundles list their owner first.
THEOREM SubscribersStayTold ==
  ASSUME SubscriptionAssumption, OwnersFirst
  PROVE  SubscriptionSpec => []SubscribersTold
  <1>1. SubInv => SubscribersTold
    <2> SUFFICES ASSUME SubInv
                 PROVE  SubscribersTold
      OBVIOUS
    <2>1. ViewsCurrent
      BY DEF ViewsCurrent, SubInv, Tells, There, ValueIn
    <2>2. ASSUME NEW id \in Subscriptions
          PROVE  /\ despawns[id] <= 1
                 /\ despawns[id] = 1 => id \notin Subscribed /\ DOMAIN view[id] = {}
      BY DEF SubInv, EndsTold
    <2>3. EndsOnce
      BY <2>2 DEF EndsOnce, SubInv, BooksAgree
    <2> QED
      BY <2>1, <2>3 DEF SubscribersTold
  <1> QED
    BY <1>1, SubscriptionInitially, SubscriptionSteps, PTL DEF SubscriptionSpec

=============================================================================
