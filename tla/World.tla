-------------------------------- MODULE World --------------------------------
(***************************************************************************)
(* world.rs, archetype.rs, bundle.rs, mut_guard.rs, handle_ledger.rs: the   *)
(* archetype store.  Every operation holds &mut World, so each is one step; *)
(* what goes wrong is spread over several of them, through the three ways   *)
(* an entity is written down (its slot, its archetype's entity list, the    *)
(* columns), the counts of the handles its components hold, and the change  *)
(* journals that others follow it by.                                      *)
(*                                                                         *)
(* Operations come from local callers, holding handles the World gave them, *)
(* and from a peer's deltas and snapshots (Delta::apply,                    *)
(* Snapshot::restore_to_world), which name entities by the peer's handles.  *)
(* Indices and rows count from 1.  An archetype is its set of components; a *)
(* column that was never created is an empty one.  A component's value is   *)
(* the one handle it holds, or NoHandle, which is also its default.         *)
(***************************************************************************)
EXTENDS ChangeJournal, FiniteSetsExt, Vectors

CONSTANTS HandleComponents,  \* component types with a registered collector
          Handles, NoHandle, \* HandleId values, HandleId::ZERO
          PeerEntities,      \* the handles a peer's messages may name
          PeerComponents,    \* the component types a peer sends
          FieldsSent,        \* whether a spawn comes with its fields' bytes
          Filtered,          \* whether a peer may name what it never spawned here
          GenMod,            \* bound: generations (2^32 in the code)
          MaxSlots           \* bound: entity slots

Entities == [index : 1 .. MaxSlots, generation : 0 .. GenMod - 1]

ASSUME WorldAssumption ==
  /\ IsFiniteSet(Components)
  /\ HandleComponents \subseteq Components
  /\ PeerEntities \subseteq Entities
  /\ PeerComponents \subseteq Components
  /\ NoHandle \notin Handles
  /\ FieldsSent \in BOOLEAN /\ Filtered \in BOOLEAN
  /\ GenMod \in Nat \ {0} /\ MaxSlots \in Nat

Archetypes == SUBSET Components
Values == Handles \union {NoHandle}
Bundles(types) == UNION {[cs -> Values] : cs \in SUBSET types}

VARIABLES slots,         \* Seq([generation, archetype, row])
          freeSlots,     \* stack of indices
          entities,      \* [Archetypes -> Seq(Entities)]
          columns,       \* [Archetypes -> [Components -> Seq(Values)]]
          handleCounts,  \* [Handles -> Nat]
          issued         \* history: handles given out, by spawn or by a peer

rowVars == <<slots, entities, columns>>
worldVars == <<slots, freeSlots, entities, columns, handleCounts, issued, journals, readers>>

EmptySlot == [generation |-> 0, archetype |-> {}, row |-> 1]

Init ==
  /\ slots = <<>>
  /\ freeSlots = <<>>
  /\ entities = [k \in Archetypes |-> <<>>]
  /\ columns = [k \in Archetypes |-> [c \in Components |-> <<>>]]
  /\ handleCounts = [h \in Handles |-> 0]
  /\ issued = {}
  /\ \E watch \in [Readers -> Components] : JournalInit(watch)

-----------------------------------------------------------------------------
(* Looking up *)

IsAlive(e) ==
  /\ e.index <= Len(slots)
  /\ slots[e.index].generation = e.generation

\* The values of the row a slot names, by component.
RowValues(s) == [c \in s.archetype |-> columns[s.archetype][c][s.row]]

\* The row of one component, and a row with one more.
SingleValue(c, v) == [d \in {c} |-> v]
Joined(row, c, v) == [d \in DOMAIN row \union {c} |-> IF d = c THEN v ELSE row[d]]

\* What get(e) answers for component c, for every handle it answers for.
Table(c) ==
  [e \in {x \in issued : IsAlive(x) /\ c \in slots[x.index].archetype} |->
     RowValues(slots[e.index])[c]]

-----------------------------------------------------------------------------
(* Rows *)

SwapRemoved(seq, i) ==
  IF i = Len(seq) THEN Front(seq) ELSE [Front(seq) EXCEPT ![i] = Last(seq)]

\* Archetype::remove_row, and the same in the two migrations.
EntitiesWithout(s) == [entities EXCEPT ![s.archetype] = SwapRemoved(@, s.row)]

ColumnsPoppedMutant(s) ==
  [columns EXCEPT ![s.archetype] =
     [c \in Components |-> IF c \in s.archetype THEN Front(@[c]) ELSE @[c]]]

ColumnsWithout(s) ==
  [columns EXCEPT ![s.archetype] =
     [c \in Components |-> IF c \in s.archetype THEN SwapRemoved(@[c], s.row) ELSE @[c]]]

SlotsStaleMutant(s) == slots

\* The entity that took over the row of s hears of it.
SlotsWithout(s) ==
  IF s.row < Len(entities[s.archetype])
  THEN [slots EXCEPT ![Last(entities[s.archetype]).index].row = s.row]
  ELSE slots

\* e and its values at the end of the archetype the values span.
EntitiesWith(ents, e, bundle) == [ents EXCEPT ![DOMAIN bundle] = Append(@, e)]

ColumnsWith(cols, bundle) ==
  [cols EXCEPT ![DOMAIN bundle] =
     [c \in Components |-> IF c \in DOMAIN bundle THEN Append(@[c], bundle[c]) ELSE @[c]]]

SlotAt(generation, ents, bundle) ==
  [generation |-> generation, archetype |-> DOMAIN bundle, row |-> Len(ents[DOMAIN bundle]) + 1]

MigrateShortMutant(e, bundle) ==
  LET s == slots[e.index]
  IN /\ entities' = EntitiesWith(EntitiesWithout(s), e, bundle)
     /\ columns' = ColumnsWith(
          [columns EXCEPT ![s.archetype] =
             [c \in Components |-> IF c \in DOMAIN bundle /\ c \in s.archetype
                                   THEN SwapRemoved(@[c], s.row) ELSE @[c]]], bundle)
     /\ slots' = [SlotsWithout(s) EXCEPT ![e.index] = SlotAt(s.generation, entities, bundle)]

\* migrate_row and migrate_row_skip: e's row moves to the archetype of bundle.
Migrate(e, bundle) ==
  LET s == slots[e.index]
  IN /\ entities' = EntitiesWith(EntitiesWithout(s), e, bundle)
     /\ columns' = ColumnsWith(ColumnsWithout(s), bundle)
     /\ slots' = [SlotsWithout(s) EXCEPT ![e.index] = SlotAt(s.generation, entities, bundle)]

SetValue(e, c, v) ==
  LET s == slots[e.index]
  IN columns' = [columns EXCEPT ![s.archetype][c][s.row] = v]

-----------------------------------------------------------------------------
(* The handle ledger *)

\* How often the collectors find h in a row.
Mentions(h, bundle) == Cardinality({c \in DOMAIN bundle \intersect HandleComponents : bundle[c] = h})

AcquiredRow(counts, bundle) == [h \in Handles |-> counts[h] + Mentions(h, bundle)]

\* release saturates at zero.
ReleasedRow(counts, bundle) ==
  [h \in Handles |-> IF counts[h] > Mentions(h, bundle) THEN counts[h] - Mentions(h, bundle) ELSE 0]

SwappedNewMutant(c, old, new) ==
  IF old = new THEN handleCounts ELSE AcquiredRow(handleCounts, SingleValue(c, new))

\* report_value_swap, report_captured_swap: equal values cost nothing.
Swapped(c, old, new) ==
  IF old = new THEN handleCounts
  ELSE AcquiredRow(ReleasedRow(handleCounts, SingleValue(c, old)), SingleValue(c, new))

-----------------------------------------------------------------------------
(* Local operations *)

Bumped(generation) == (generation + 1) % GenMod

\* spawn_inner, by popping a free slot or by adding one.
SpawnReused(e) ==
  /\ freeSlots # <<>>
  /\ e.index = Last(freeSlots)
  /\ e.generation = Bumped(slots[e.index].generation)
  /\ e.generation # 0               \* bound GenMod: no wrap
  /\ freeSlots' = Front(freeSlots)

SpawnFresh(e) ==
  /\ freeSlots = <<>>
  /\ e = [index |-> Len(slots) + 1, generation |-> 0]
  /\ UNCHANGED freeSlots

\* spawn (an empty bundle, which stays in the empty archetype) and spawn_bundle.
Spawn(e, bundle) ==
  /\ SpawnReused(e) \/ SpawnFresh(e)
  /\ entities' = EntitiesWith(entities, e, bundle)
  /\ columns' = ColumnsWith(columns, bundle)
  /\ slots' = [i \in 1 .. Max({Len(slots), e.index}) |->
                 IF i = e.index THEN SlotAt(e.generation, entities, bundle) ELSE slots[i]]
  /\ handleCounts' = AcquiredRow(handleCounts, bundle)
  /\ issued' = issued \union {e}
  /\ Record(e, DOMAIN bundle)

\* despawn; remove_row panics on a row the archetype does not have.
Despawn(e) ==
  /\ IsAlive(e)
  /\ Bumped(e.generation) # 0       \* bound GenMod: no wrap
  /\ LET s == slots[e.index]
     IN /\ s.row <= Len(entities[s.archetype])
        /\ handleCounts' = ReleasedRow(handleCounts, RowValues(s))
        /\ entities' = EntitiesWithout(s)
        /\ columns' = ColumnsWithout(s)
        /\ slots' = [SlotsWithout(s) EXCEPT ![e.index].generation = Bumped(@)]
        /\ freeSlots' = Append(freeSlots, e.index)
        /\ Record(e, s.archetype)
  /\ UNCHANGED issued

InsertInPlace(e, c, v) ==
  /\ IsAlive(e)
  /\ c \in slots[e.index].archetype
  /\ handleCounts' = Swapped(c, RowValues(slots[e.index])[c], v)
  /\ SetValue(e, c, v)
  /\ Record(e, {c})
  /\ UNCHANGED <<slots, freeSlots, entities, issued>>

InsertMigrating(e, c, v) ==
  /\ IsAlive(e)
  /\ c \notin slots[e.index].archetype
  /\ Migrate(e, Joined(RowValues(slots[e.index]), c, v))
  /\ handleCounts' = AcquiredRow(handleCounts, SingleValue(c, v))
  /\ Record(e, {c})
  /\ UNCHANGED <<freeSlots, issued>>

RemoveComponent(e, c) ==
  /\ IsAlive(e)
  /\ c \in slots[e.index].archetype
  /\ LET row == RowValues(slots[e.index])
     IN /\ handleCounts' = ReleasedRow(handleCounts, SingleValue(c, row[c]))
        /\ Migrate(e, [d \in DOMAIN row \ {c} |-> row[d]])
  /\ Record(e, {c})
  /\ UNCHANGED <<freeSlots, issued>>

\* A get_mut guard written through, v being the value when it is dropped or
\* turned into a plain reference.  A guard only read from changes nothing.
MutWrite(e, c, v) ==
  /\ IsAlive(e)
  /\ c \in slots[e.index].archetype
  /\ SetValue(e, c, v)
  /\ handleCounts' = Swapped(c, RowValues(slots[e.index])[c], v)
  /\ Record(e, {c})
  /\ UNCHANGED <<slots, freeSlots, entities, issued>>

-----------------------------------------------------------------------------
(* A peer's messages *)

\* The placeholders force_spawn_in_archetype adds up to an index.
Grown(i) == [j \in 1 .. Max({Len(slots), i}) |-> IF j <= Len(slots) THEN slots[j] ELSE EmptySlot]
GrownFree(i) == freeSlots \o [j \in 1 .. Max({i - Len(slots), 0}) |-> Len(slots) + j]

\* force_spawn_in_archetype into an index nobody lives at, and the writes of
\* the fields that came with the spawn (write_component_field).
Arrive(e, bundle) ==
  /\ e.index \in ToSet(GrownFree(e.index))
  /\ freeSlots' = Without(GrownFree(e.index), e.index)
  /\ entities' = EntitiesWith(entities, e, bundle)
  /\ columns' = ColumnsWith(columns, bundle)
  /\ slots' = [Grown(e.index) EXCEPT ![e.index] = SlotAt(e.generation, entities, bundle)]
  /\ Record(e, IF FieldsSent THEN DOMAIN bundle ELSE {})
  /\ UNCHANGED handleCounts

\* The same into an index that is taken: its occupant is despawned first.
Replace(e, bundle) ==
  /\ e.index \notin ToSet(GrownFree(e.index))
  /\ LET s == slots[e.index]
         occupant == [e EXCEPT !.generation = s.generation]
         written == IF FieldsSent THEN DOMAIN bundle ELSE {}
     IN /\ handleCounts' = ReleasedRow(handleCounts, RowValues(s))
        /\ entities' = EntitiesWith(EntitiesWithout(s), e, bundle)
        /\ columns' = ColumnsWith(ColumnsWithout(s), bundle)
        /\ slots' = [SlotsWithout(s) EXCEPT
                       ![e.index] = SlotAt(e.generation, EntitiesWithout(s), bundle)]
        /\ journals' = Recorded(Recorded(journals, occupant, s.archetype), e, written)
        /\ readers' = Outrun(Outrun(readers, s.archetype), written)
  /\ UNCHANGED freeSlots

\* A spawn in a delta or a snapshot.  Without bytes a field keeps its default.
PeerSpawn(e, bundle) ==
  /\ FieldsSent \/ \A c \in DOMAIN bundle : bundle[c] = NoHandle
  /\ Arrive(e, bundle) \/ Replace(e, bundle)
  /\ issued' = {x \in issued : x.index = e.index => x.generation < e.generation} \union {e}

\* write_component_field for a ComponentDelta; skipped unless e has c.
PeerWrite(e, c, v) ==
  /\ IsAlive(e)
  /\ c \in slots[e.index].archetype
  /\ SetValue(e, c, v)
  /\ Record(e, {c})
  /\ UNCHANGED <<slots, freeSlots, entities, handleCounts, issued>>

-----------------------------------------------------------------------------
Local ==
  \/ \E e \in Entities, bundle \in Bundles(Components) : Spawn(e, bundle)
  \/ \E e \in issued :
       \/ Despawn(e)
       \/ \E c \in Components :
            \/ RemoveComponent(e, c)
            \/ \E v \in Values : InsertInPlace(e, c, v) \/ InsertMigrating(e, c, v) \/ MutWrite(e, c, v)

Peer ==
  \E e \in PeerEntities :
    \/ \E bundle \in Bundles(PeerComponents) : PeerSpawn(e, bundle)
    \/ /\ Filtered \/ e \in issued
       /\ \/ Despawn(e)
          \/ \E c \in PeerComponents, v \in Values : PeerWrite(e, c, v)

Follow ==
  /\ \E r \in Readers :
       \/ \E c \in Components : Open(r, c)
       \/ Scan(r, Table(readers[r].component))
       \/ ReadOverflowed(r)
       \/ ReadComplete(r, Table(readers[r].component))
  /\ UNCHANGED <<slots, freeSlots, entities, columns, handleCounts, issued>>

Next == Local \/ Peer

\* The same World with somebody reading its journals between the changes.
FollowedNext == Next \/ Follow

Spec == Init /\ [][Next]_worldVars
FollowedSpec == Init /\ [][FollowedNext]_worldVars

-----------------------------------------------------------------------------
\* Every part of the World keeps its type: indices, rows, generations and
\* handles stay in their ranges, and every archetype has its lists.
WorldTypeOK ==
  /\ slots \in Seq([generation : 0 .. GenMod - 1, archetype : Archetypes, row : Nat \ {0}])
  /\ Len(slots) <= MaxSlots
  /\ freeSlots \in Seq(1 .. MaxSlots)
  /\ entities \in [Archetypes -> Seq(Entities)]
  /\ columns \in [Archetypes -> [Components -> Seq(Values)]]
  /\ handleCounts \in [Handles -> Nat]
  /\ issued \subseteq Entities

\* A slot that is not free names the row its entity is in, every row is the one
\* its entity's slot names, and no index is free twice: the swap that fills a
\* removed row is heard of by the entity that was moved (world.rs:1001, 2078).
RowsMatchSlots ==
  /\ IsInjective(freeSlots)
  /\ \A i \in DOMAIN slots \ ToSet(freeSlots) :
       /\ slots[i].row \in DOMAIN entities[slots[i].archetype]
       /\ entities[slots[i].archetype][slots[i].row] =
            [index |-> i, generation |-> slots[i].generation]
  /\ \A k \in Archetypes : \A row \in DOMAIN entities[k] :
       LET e == entities[k][row]
       IN e.index \notin ToSet(freeSlots) /\ slots[e.index].archetype = k /\ slots[e.index].row = row

\* assert_archetype_consistency (world.rs:756): every column of an archetype is
\* as long as its entity list.
ColumnsAligned ==
  \A k \in Archetypes, c \in Components :
    Len(columns[k][c]) = IF c \in k THEN Len(entities[k]) ELSE 0

\* handle_ref_count agrees with handle_audit, which counts the rows afresh
\* (world.rs:488, 506): inserts, overwrites, guards, removals, migrations and
\* despawns, in any order, neither leak a reference nor release one twice.
HoldsAt(k, c, row, h) == row \in DOMAIN columns[k][c] /\ columns[k][c][row] = h

Audit(h) ==
  Cardinality({at \in Archetypes \X HandleComponents \X (1 .. MaxSlots) :
                 HoldsAt(at[1], at[2], at[3], h)})

LedgerExact == \A h \in Handles : handleCounts[h] = Audit(h)

\* A reader that keeps to its protocol is never wrong without having been told:
\* wherever its picture differs from the World, the entity is among the changes
\* it has not read yet, or its next read reports an overflow
\* (change_journal.rs: "Correctness never depends on a reader keeping up").
ReaderCurrent ==
  \A r \in Readers :
    readers[r].phase = "follow" /\ ~Behind(r) =>
      LET rows == Table(readers[r].component)
          picture == readers[r].picture
      IN \A e \in (DOMAIN rows \union DOMAIN picture) \ UnreadOf(r) :
           e \in DOMAIN rows /\ e \in DOMAIN picture /\ rows[e] = picture[e]

Existing == UNION {ToSet(entities[k]) : k \in Archetypes}

\* A despawn takes the entity it names and no other with it (World::despawn,
\* world.rs:868; Delta::apply step 1, replication.rs:1371).
DespawnSparesOthers ==
  [][\A e \in Entities : Despawn(e) => Existing \ {e} \subseteq Existing']_worldVars

-----------------------------------------------------------------------------
\* The entities there are rows for, with the values their slots lead to.
Store ==
  [e \in Existing |-> RowValues(slots[e.index])]

ES == INSTANCE EntityStore WITH store <- Store, used <- issued

\* Whatever rows it moves, an operation changes what get answers for its own
\* entity only, and a handle whose entity is gone never comes back to life by
\* a local spawn.
ImplementsEntityStore == ES!Spec

==============================================================================
