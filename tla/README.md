# Specifications of SceneDB

SceneDB (`src/crates/pulsar_scenedb`) keeps the entities of a game scene: an
archetype store for gameplay code (`World`), dense cells of elements mirrored
in GPU memory (`CellStorage`, `SceneGpuStore`), the caches, pools and
allocators both need, the streaming of assets and cells, and replication
between peers. This directory holds TLA+ modules of its components, the TLC
configurations that check them on small instances, and TLAPS proofs of the
parts everything else rests on.

    tlc -workers 2 -config MCCellStorage.cfg MCCellStorage.tla   # a run
    tlapm CellStorageProofs.tla                                  # a proof

`PROJECT.json` lists the components, runs, hazards, findings and theorems, and
maps each definition to the lines it models.

## 1. Inventory

### Modelled

| Component | State | Operations | Who calls it, what it calls | What is hard |
|---|---|---|---|---|
| Cell storage (`cell.rs`, `registry.rs`) | page length, slot column, data columns, liveness and pin masks, slot registry | alloc, free, mark_pending_retire, commit_retire, compact_report | the scene store and CPU code holding handles | handles across compaction, reuse and deferred frees |
| Scene GPU store (`gpu/scene_store.rs`, `tracker.rs`, `region.rs`, `phase.rs`) | per registered cell: regions, retire queue, dirty rows, shadows; VRAM buffers; submission serials | register, unregister, rebuild, writes, free_deferred, retire_all, compact_all, sync_all | the frame loop; GPU completion callbacks | VRAM lags the CPU, frames overlap, regions are recycled, devices are lost |
| Residency (`residency.rs`) | one budgeted LRU cache, a slot and a flight per value | lazy, with_value, get, prefetch, wait, drop, set budget | any thread; asset loaders | shared rebuilds, nested rebuilds, panics, three kinds of lock |
| Slot allocator (`gpu/slot_allocator.rs`) | free list, generations, next, live | alloc, free, is_valid | any thread (exported, not used by `World`) | mutex, reader-writer lock and atomics mixed |
| World (`world.rs`, `archetype.rs`, `bundle.rs`, `mut_guard.rs`) | entity slots, free slots, archetypes with entity lists and columns | spawn, spawn_bundle, despawn, insert, remove, get_mut; force-spawn and field writes for peers | gameplay; `Delta::apply`, `Snapshot::restore_to_world` | an entity is written down in three places that move together |
| Handle ledger (`handle_ledger.rs`) | reference count per content handle | acquire, release, swap | `World`; `pump_assets` takes what was touched | counts are incremental, over every path a value can take |
| Change journals (`change_journal.rs`) | a bounded ring per component, a cursor per reader | open, record, read | `World` records, systems read | readers at different speeds, overflow |
| Object subscriptions (`object_subscriptions.rs`) | subscriptions by object, callbacks | subscribe, unsubscribe, notify | `World` and guards, in the middle of a write | the resolver reads a half-written entity |
| World GPU mirror (`gpu/world_mirror.rs`) | generations and one column per field, dirty rows | mark, flush, attach, detach, replay, grow, shrink | `World` at each write, the frame loop | rows reused by other entities, populations before and between attachments |
| GPU buffers and their registry (`gpu/dynamic_buffer.rs`, `gpu/buffer_registry.rs`, …) | allocation, epoch, shadow and dirty rows; name to buffer | write, flush, grow, resolve | mirror and pools write, renderers resolve | a consumer holds an allocation that growth replaces |
| Byte ranges and pools (`gpu/freelist.rs`, `gpu/var_len_pool.rs`, `gpu/interned_pool.rs`) | free spans, payloads, reference counts by content | alloc, free, extend; write, release, intern, lease | mirror, derive output, asset stores | padding, coalescing, growth, shared ranges |
| Tiered storage (`gpu/tier.rs`, parts of `scene_store.rs`) | where each payload prefix lies (VRAM, RAM, disk), budgets, queued intents | touch, pin, peek, release, flush | any thread; one flusher | promotion in ranks, eviction in the middle, locks of tables |
| Leases and harvest (`lease.rs`, `gpu/harvest.rs`, `spatial.rs`, `simd.rs`) | an atomic mask, staging arrays of a view | acquire, drop, force_release, compaction_ready; queries | readers, the frame boundary | revocation races the guard's drop; vector blocks and tails agree |
| Streaming grid (`gpu/grid.rs`) | a domain per tracked cell, queued transitions, pins | classify, execute, pin, unpin | the frame loop; store and RAM cache | decisions are carried out frames after they were made |
| Assets and derived data (`assets.rs`, `derived.rs`) | entries, loads in flight, bindings; files keyed by source stamp | pump, reload, complete, evict; derive_cached | the frame loop, loader threads, other processes | completions out of order, sources that change, crashes |
| GPU asset stores (`gpu/assets.rs`) | arenas, row tables with CPU copies, texture slots | add, remove, rebuild | loaders, the renderer | offsets after a lost device |
| Replication (`replication.rs`) | tracker, delta, relevance, authority, predictions, compressor | drain, filter, apply, snapshot, reconcile, merge, encode, decode | the engine's network loop | lost and reordered deltas, filters, byte formats |
| Runtime (`runtime.rs`, `component.rs`, `component_methods.rs`) | owner pointer, component ids, published tables | attach, component id, lookup | the editor and every plugin's copy of the library | registrations before and during attachment |
| Derive macros (`pulsar_scenedb_derive`) | — (generated code) | register, write, release and clear of `#[gpu]` fields | `World`'s hooks | four pieces of code generated apart have to agree |

### Not modelled, or not in full

- Telemetry, inspector and dashboard: observability and user interface.
- `#[derive(Replicate)]`, cell and method macros, reflection, dynamic component
  references, relations, actors, the fixed order of subsystems: no state of
  their own, or thin front ends over `World`.
- Page alignment arithmetic, typed column queries, bind groups, placement, the
  device context and read-back: pure functions or wgpu calls that keep no state.
- Inside modelled components: several classes and columns of the scene store
  (one stands for all), merging of dirty ranges, the harvest gate beyond its
  leases, texture materialization, statics and audits of tiered storage, the
  grid's intersection geometry and budget order by distance, mip and row-pitch
  arithmetic, authority transfers and event payloads, the archetype edge cache
  (a cache of a pure function), the limit on slot growth, statistics counters.

What makes each component correct is the list of its properties in section 3.

## 2. Modules

| Module | Models |
|---|---|
| `HandleMap` | abstract: what holders of handles are promised |
| `CellStorage` | cells; `CellRefinement` states that they implement `HandleMap` |
| `SceneGpuStore` | EXTENDS `CellStorage` with the VRAM mirror and the frame |
| `EntityStore` | abstract: a map from entities to their components |
| `ChangeJournal` | rings and readers |
| `World` | EXTENDS `ChangeJournal`; implements `EntityStore` |
| `ObjectSubscriptions` | what subscribers are told of each write |
| `WorldMirror` | EXTENDS `DynamicBuffer`; the World's rows on the GPU |
| `DynamicBuffer`, `BufferRegistry` | buffers, and how consumers resolve them |
| `RangeList`, `VarLenPool`, `InternedPool` | ranges, pools of payloads, payloads shared by content |
| `TieredStorage` | EXTENDS `VarLenPool` with tiers, intents and the flush |
| `Fields` | the code generated for `#[gpu]` fields |
| `Residency` | the cache and its flights |
| `SlotAllocator` | the threaded allocator |
| `Leases`, `Harvest` | the lease mask; queries, harvests and view uploads |
| `Grid` | domains of streamed cells |
| `AssetTable`, `DerivedCache`, `GpuAssets` | asset references, derived files, GPU tables |
| `Replication`, `Wire`, `Prediction` | frames to peers, byte formats, client prediction and merges |
| `Runtime` | plugins attaching to the editor's copy of the library |
| `Vectors` | what `Vec` operations do, in a form proofs can use |
| `...Proofs`, `StackLemmas` | theorems |
| `MC...` | constants for TLC; `MCMachines` and `MCServices` run several machines |

Definitions named `...Mutant` are plausible bugs of the definition they stand
before. They are used by no specification; substituting one for its neighbour
shows that a property notices.

`MCMachines` and `MCServices` gather components that share no state. A
behaviour chooses its `machine` at the start and the others stay in their
initial states, so that a run's states are the sum of the machines' and not
their product, and each machine is explored in full.

### CellStorage

One step is one call under `&mut CellStorage`, except that `compact_report` is
taken one loop iteration at a time: `compactRow` is its loop variable, and while
it is not `Idle` no other operation of the cell is enabled. That makes the
intermediate states of a compaction part of what invariants range over. The
registry's vectors are functions on `Slots` of which `numSlots` entries exist;
`free` is the stack. `pending` is the set of `PendingRetire` values handed out.
`slotToRow = NullRow` is `NULL_ROW`; `GenMax` is `u32::MAX`. The data column
stands for every user column since `swap_rows` treats all alike. Direct `free`
of a pinned row is forbidden by a `debug_assert` in the code and by the guard.

### SceneGpuStore

Adds, per cell, the region it owns, the queue of deferred frees with their
serial, the dirty rows, and the two shadows; per region, the generation buffer,
the slot mirror and one column. Phases follow the consuming types of `phase.rs`:
`Write` (simulate), then `Retiring` (inside `retire_all`, one step per element,
against `done`, the watermark read at its start), `Retired`, `Compacted`,
`Write`. `Submit` and `Complete` happen at any time the code allows them.
`lastRead` and `written` are history variables.

Simplifications: a class's row and slot pools hand out the same indices and
share one pool; one dirty column stands for all; a cell that is not registered
is either kept as it is or replaced by another (`LoadCell`); dirty rows are
uploaded exactly, without the merging of nearby ranges; the boundary is given
every registered cell; deferred frees carry the serial of the frame being built;
`rebuild` is called with no retirement in flight (its `debug_assert`).

### Residency

One step is one critical section. A thread has a stack of calls, since a
rebuild may `get` other values. The LRU order is a sequence; the tick counter
only orders it. Flight ids are reused when nobody refers to them. `dead` is the
set of loader threads ended by a panicking rebuild; `Send` then fails as
`jobs.send(..).expect(..)` does (`assets.rs:772`), leaving the flight to be
claimed by whoever needs the value. A rebuild that gets the value it is
rebuilding waits for itself in the code; `Needs` has no cycles.

### SlotAllocator

Steps are mutex sections, lock sections and single atomics. A thread may free
any handle ever returned, at the same time as others free the same one. A
rejected free changes nothing and is a stutter. `claimed`, `stale` and `frees`
are history.

### World, ChangeJournal, EntityStore

Operations hold `&mut World`, so each is one step; difficulty comes from their
sequence. Rows and indices count from 1, as sequences do. An archetype is its
component set, and a column that was never created is an empty sequence. A
value is the one handle it holds or `NoHandle` (`HandleId::ZERO`), the default.
`spawn` is `Spawn` with the empty bundle. `insert_bundle` is a series of
inserts. `MutWrite` is a guard that was written through, at its drop or
`into_inner`; writes after `into_inner` are documented as unobserved.
Generations wrap in the code; the bound `GenMod` stops short of that.

A peer's handles are `PeerEntities`. `PeerSpawn` is
`force_spawn_in_archetype` followed by the writes of the fields that came with
the spawn, for an index that is free (`Arrive`, growing placeholders) or taken
(`Replace`, which despawns the occupant). `FieldsSent`, `Filtered` and
`PeerComponents` say what a peer's messages contain: whether spawns carry field
bytes, whether the peer's stream names entities never spawned here (as after a
relevance-filtered snapshot), and which components it sends.

`issued` is history: the handles given out, except that a peer's spawn takes its
slot's numbering over, so local handles of that slot at or above its generation
are forgotten. `EntityStore` says the same.

Cursors keep their distance from the end of the ring instead of a position;
`Capacity + 1` stands for any position the ring has lost and for a cursor of
another World. A reader follows the protocol the documentation prescribes: open,
scan, look up what a read names, rescan on overflow. Change kinds are left out
because a reader looks the value up. `Next` is the World by itself and
`FollowedNext` the World with readers.

The GPU mirror's part of each operation is in `WorldMirror`, the subscribers' in
`ObjectSubscriptions`, the change tracker's in `Replication`. The early returns
for components the receiver has not registered are left out.

### ObjectSubscriptions

Two components matter: `Owner`, which the README's resolver reads, and `Data`.
The bundle spawn is modelled through its stages, because the resolver runs
between the pushes and finds the entity already in its archetype while later
columns have no row for it. `view` is what a subscriber could reconstruct from
the events it got, and `due` the pairs it had to be told of.

### WorldMirror, DynamicBuffer, BufferRegistry

`DynamicBuffer` has the operators of one buffer (growth by doubling up to the
ceiling, shrinking, a shadow and dirty rows, the flush), used by the others.
`WorldMirror` runs them under the World's operations for one component of one
field in either mirror mode, with a mirror that is attached, detached and
attached again at any time. Rows whose component left while nothing was
attached are kept in `missed`: the code does not clear them (see the known
divergences), so `MirrorCurrent` leaves them out.

`BufferRegistry` separates the thread that writes (and notes the write with the
registry afterwards) from a consumer that resolves a buffer in three steps:
clone the entry, read what changed, copy. An allocation is named by its epoch.
A handoff is torn when the buffer is taken under one lock, its epoch under
another, and the buffer grows in between (`scene_store.rs:840`); the model
excludes that one interleaving, listed with the known divergences below.

### RangeList, VarLenPool, InternedPool

The free list is kept sorted and coalesced by the code, so it is a set of spans
whose order is that of their offsets. Each call of a pool holds the pool's lock
and is one operator on the pool's record. In `InternedPool` rows and leases name
content ids; `meant` remembers what each entry's first writer meant.

### TieredStorage

Demand verbs queue intents in shards; one thread flushes. A shard is locked from
its drain to the last transition it causes, so verbs on its targets wait. The
flush takes one target's intents at a time, folded (`Group`, `RestOfWork`), and
a transition (the promotion or demotion of one payload or row, rank by rank) is
one step. What it moves is a bundle (`Bundle`: pool, records, rows, account of
VRAM, fetches) that operators take and return: `Admitted` admits one unit of a
flight, `Evicted` chooses what makes room for it and `Withdraw` gives up what is
resident. A pool element stands for a byte. `written` is history. The clock is
bounded, which bounds the touches.

`LayoutAssumption` restricts layouts to one segment per rank, and to units that
are whole numbers of 4-byte words, which the code asserts before it uploads one
(`gpu/var_len_pool.rs:513`). An element is a byte here, so units are whole
numbers of elements too; where they are not, the code charges a unit's bytes and
gives back its range's, which are more (`gpu/scene_store.rs:2984`, `:3092`). A
pool that cannot grow makes the code unwind (`Reservable`, `grown`); what it
leaves then is not modelled.

### Fields

A struct is a declaration (field types and attributes); registration, write,
release and clear are derived from it separately, as the macro generates them,
and run against tables, buffers and pools. A declaration whose registration
panics is one its author must change and registers nothing. `KeysShared` says
whether one entity may have two columns that use one key; with it the code loses
payloads (finding 3).

### Leases, Harvest

Each atomic operation on the mask is a step: an acquire is a load and an
exchange, a drop is a swap of the flag and the clearing of the bit, a forced
release a swap and a clearing by the boundary. The boundary's clock decides
which guards are overdue, so any subset may be.

`Harvest` has the vector blocks and scalar tails of the box, frustum and radius
queries, over liveness words of `WordBits` rows, with unordered (NaN) bounds,
and compares them with a filter defined over rows; and the staging and upload of
a view's results, with buffers that are reallocated.

### Grid

The plane is a line, since both axes are treated alike. `classify` queues at
most one step per cell from where the observers are; the queue is drained at the
next boundary, when observers and pins may have changed. A region taken back is
pinned until the frames in flight are over. The engine's cache of staged cells
is external.

### AssetTable, DerivedCache, GpuAssets

In `AssetTable` the pump is an actor (it borrows the World), worker threads are
others; completions arrive in any order and a source may change, and be
announced, at any time. Payloads are what the source held when it was read.

In `DerivedCache` callers are threads and processes over one directory; each
step that touches the file system is an action and a caller may die between any
two. The file system is external: a rename is atomic, a write of a temporary
file is not. `AssetTable` EXTENDS `DerivedCache` and composes the two: they
share no state, and a loader that asks the cache is, to the table, a worker that
reads its source.

`GpuAssets` has three groups that share no state: arenas of byte ranges, the
four append-only tables with their validation, and texture slots, each with the
rebuild after a lost device.

### Replication, Wire, Prediction

In `Replication` a world is a map from live entities to values (slots and rows
are `World`'s). The transport is the engine's: it loses and reorders deltas, and
the receiver applies nothing that is not newer than what it applied last, as the
tests prescribe. Most calls of a World record a change without bytes, so the
engine completes a drained delta with current values.

`Wire` describes a format as a sequence of parts, with what writes and what
reads a message as separate formats, because they are separate functions; and
`DeltaCompressor`, which sends the difference to the value before. Bytes count
to `Base`.

`Prediction` holds the parts an engine drives on its own: `Reconciler`,
`AuthorityTable`, `resolve_conflict` and `EntityCellMap`. The engine's transport
may lose inputs and delivers deltas in order.

### Runtime

Every plugin links its own copy of the library. `attach` is taken one atomic
operation or mutex section at a time, on several threads at once; publishing a
table is a clone and a swap. A component's type has another `TypeId` in each
copy and is the same component when name and layout agree.

### Vectors

`Retained(s, keep)` is `Vec::retain` of the elements at the places in `keep`, by
the rank of each that stays; `Without(s, x)` retains everything but `x`. The
scene store drains its pinned regions and commits an evicted cell's queue with
the first. The community modules' definitions go through folds, about which the
prover can show nothing for sequences of any length.

## 3. Runs

| Run | Bounds | States | Properties |
|---|---|---|---|
| `cell_storage` | 1 cell, 3 rows, 4 slots, generations to 3, 2 values | 234k | `TypeOK`, `HandlesResolve`, `RetirementInFlight`, `SlotAccounting`, `PinnedRowsStay`, `CompactionCloses`, `CompactionReturns`, `ImplementsHandleMap` |
| `scene_store` | 1 cell of 2 rows, 1 region, 2 values, 1 serial | 387k | `GenerationsCurrent`, `SyncPublishes`, `InFlightHeld`, `RetirementsDrain` |
| `scene_store_regions` | 2 cells of 1 row, 2 regions, 2 serials | 1.1M | `RegionsExclusive` |
| `residency` | 1 caller, 1 loader, 2 values, budgets 1 and 2, 5 flights, 1 job | 70k | `Accounted`, `SingleFlight`, `BudgetKept`, `GetsReturn` |
| `world` | 3 slots, 2 components, 1 handle, 3 generations, a peer's entity in the last slot | 89k | `RowsMatchSlots`, `ColumnsAligned`, `LedgerExact`, `ImplementsEntityStore` |
| `machines` | twelve machines, below | 600k | eleven invariants, below |
| `services` | twelve machines, below | 432k | eight invariants, below |
| `world_filtered_despawn` | 2 slots, filtered peer | finding 1 | `DespawnSparesOthers` violated |
| `world_peer_handles` | 2 slots, peer sends handle fields | finding 2 | `LedgerExact` violated |
| `shared_pool_key` | a struct with two fields of one key | finding 3 | `ChainsReadBack` violated |
| `tier_row_self_deadlock` | one row, one payload, budget 3 | finding 4 | `NoSelfDeadlock` violated |
| `bundle_order_panic` | 2 indices, both bundle orders | finding 5 | `BundlesSpawn` violated |

The machines of `machines`:

| Machine | Bounds | States | Checked |
|---|---|---|---|
| slots | 3 threads, 2 indices, 2 frees each, generations to 4 | 17k | `IndexConserved`, `StaleDetected`, `LiveCounted` |
| replicas | 1 slot, 1 component, 2 values, 1 client, 3 frames, 2 deltas in flight | 116k | `ReplicaCurrent` |
| leases | 2 bits, 4 guards | 52k | `LeasesHonoured` |
| interned | 2 rows, 2 ids, 1 lease, ceiling 8 | 4k | `InternedExact` |
| grid | 2 cells, 3 observer positions, 1 region, 1 warm cell | 20k | `GridExact` |
| arenas, tables, textures | arena of 5, tables of 1 to 3 rows, 4 texture slots | 16k | `AssetsExact` |
| assets, derived | 1 entity, 2 assets, 3 pumps, 1 edit; 2 callers, 2 settings, 1 change | 211k | `AssetsResolve` |
| mirror | 2 rows, 2 values, generations to 2 | 115k | `MirrorCurrent` |
| registry | 2 rows, 2 growths, 2 notes | 49k | `HandoffCurrent` |

and of `services`:

| Machine | Bounds | States | Checked |
|---|---|---|---|
| journal | World of 2 slots, 1 component, 1 reader, ring of 2 | 16k | `ReaderCurrent` |
| tiers | 2 owners, 1 row, budgets of 3, payloads of 2 ranks, clock to 5 | 75k | `ContentsSurvive`, `PrefixComplete`, `VramWithinBudget` |
| subscriptions | 2 entities, 2 subscriptions | 6k | `SubscribersTold` |
| harvest, views | words of 4 rows, 5 rows, blocks of 2, NaN bounds; 3 reallocations | 99k | `ViewsExact` |
| wire, compress, prediction, merge, maps | bytes of base 8; 3 inputs; two editors; 3 pairs | 64k | `PeersAgree` |
| runtime | editor, 2 plugins, 2 types, 2 user threads | 170k | `PeersAgree` (`RuntimeShared`) |
| fields | seven programs, 2 rows, pools that grow | 8k | `FieldsExact` |

Why the bounds suffice for the cases that matter:

- Three rows give compaction a hole before, between and after live and pinned
  rows; a fourth slot and `GenMax = 3` let slots be reused and spent.
- The store's runs split along what interacts: data and generations need two
  values and a row that moves; region recycling needs two cells, two frames in
  flight and an evicted region waiting for a serial. `MaxSerial` bounds the
  submissions between two device losses; `Rebuild` resets them, so behaviours go
  on for ever.
- In `residency` value `b` needs `a` and is twice its size: under budget 2 the
  two do not fit together, under budget 1 `b` alone exceeds it. The loader and
  the caller can each be inside a nested rebuild. Five flight ids are never all
  in use; `MaxJobs` bounds waiting prefetches.
- slots: two threads race on one handle while a third allocates; `MaxFrees`
  bounds the frees per index, below `GenMod`. What the instance shows for two
  indices the proofs show for any number.
- `world`: a removed row can be first, middle or last of three; the peer's
  entity makes two placeholders. journal: a reader of a ring of two is
  overtaken, catches up, and starts with a cursor of another World.
- leases: two bits and four guards let a bit pass through revocation to a new
  guard while its former one still drops.
- replicas: three frames with two deltas in flight let one be lost, one be
  overtaken and a snapshot arrive between them.
- tiers: a budget of three holds one payload in full, or one's first rank and a
  row, so every promotion of a second one evicts.
- mirror, registry and views: buffers begin with one row, so the second row
  grows them, and shrink again.

`CHECK_DEADLOCK FALSE` is said in the World's runs, where bounds on slots and
generations can leave nothing to do, in `machines`, `services` and the
subscriptions' run, where counters run to their bounds, in
`tier_row_self_deadlock`, whose clock ends, and in `shared_pool_key`, whose
small program ends. In the cells, store and residency runs TLC also shows that
the system never gets stuck.

### Fairness

- `FairSpec` of `CellStorage`: weak fairness of `CompactStep`, because
  `compact_report` is a call that runs to its end.
- `StoreFairSpec`: weak fairness of `Boundary` (the calls of a boundary run, in
  the order their types force, each frame), strong fairness of `Submit` (a
  frame loop submits; between submissions the store leaves the `Write` phase
  again and again, so weak fairness would not do), weak fairness of completion
  (wgpu calls `on_submitted_work_done`). `RetirementsDrain` needs all three.
- `FairSpec` of `Residency`: weak fairness of each thread's steps inside a call:
  threads are scheduled, mutexes are released, and a rebuild returns or panics.
  Beginning a call, waiting for a prefetch and dropping it are free choices.

### Findings

1. `world_filtered_despawn` (bug). `force_spawn_in_archetype` fills the indices
   below a peer's with placeholders of generation 0, for which `is_alive`
   answers true. A peer that got a relevance-filtered snapshot and then the
   unfiltered despawn list (`RelevanceSet::filter` passes `despawned` through)
   despawns an entity it never had: row 0 of the empty archetype, another
   entity's, is removed and the index is free twice. Three steps.
2. `world_peer_handles` (documentation). `handle_ledger.rs:84-92` says writes of
   `Delta::apply` go through `insert_inner` and are counted. They go through
   `write_component_field` and are not.
3. `shared_pool_key` (documentation). `var_len.rs:215` of the derive crate says
   that handle tables are never shared between fields; the key is made from the
   declared one, so two `Vec` fields of a struct that share a pool share their
   handle table, and the second field's write frees the first one's payload.
4. `tier_row_self_deadlock` (bug). A row's promotion holds its column's row
   table lock (`gpu/scene_store.rs:2835`) while it evicts
   (`evacuate_lru_vram_excluding`, `:2840`), which locks every column's table,
   that one included (`:3057-3058`). `gpu/tier.rs:95` says there are leaf locks
   only, and `:67-71` that overflow evicts and declines only when nothing can be
   evicted: a touch of a row with the budget used up never returns.
5. `bundle_order_panic` (bug). `push_new_value` calls an object resolver for the
   first component of a bundle, when `Owner`'s column exists but has no row for
   the entity yet; `World::get`, which promises `None` for an absent component,
   indexes past its end.

### Known divergences

Met while modelling; the models follow the code, no run is spent on them.

- World and journals: a replicated spawn's default components are neither
  journaled nor told to subscribers (`world.rs:1815`), against
  `change_journal.rs:13`. A peer's write to a freed slot at its bumped
  generation passes `is_alive`.
- Object subscriptions: an overwritten `Owner` tells the new object only, one
  changed through a guard the old one only; what is done after `into_inner` is
  unobserved.
- Replication: an entity spawned and despawned in one frame lives on in a peer;
  removals are not replicated; components inserted after the frame of the spawn
  never arrive; `restore_to_world` despawns nothing; `InitialOnly` is never
  sent; snapshots ignore `OwnerOnly`; the reconciler neither applies nor rolls
  back what its documentation says; `DeltaCompressor` cuts values off at eight
  bytes; `restore_to_cells` misreads schemas whose first field is
  delta-compressed; the placeholder frame of `ChangeTracker::drain` decodes as
  an archetype for frames congruent to 1; `resolve_conflict` with equal client
  ids depends on the order of its arguments.
- GPU: a handle may pair a buffer with a later epoch (`scene_store.rs:840`);
  re-attaching a mirror leaves rows whose component left meanwhile
  (`world.rs:559`); the vector frustum tests cull a NaN distance that the scalar
  ones keep; the interned write with an id does not tell the registry of growth
  (`world_mirror.rs:592-618`); interned pools are keyed by row only, so two
  interned fields of one key on one entity release each other's ids; a struct
  with a `Vec` field registers no clear, so its scalars stay after a removal; a
  heavy flag on such a struct's scalars and an unparsable `#[gpu(...)]` are
  ignored without a word.
- Tiered storage: freeing or rewriting a slot that is resident leaks its ranges
  and its account; a mixed batch of intents runs only the first kind folded; a
  first write of nothing drops the record at offset 0; a touch down to RAM goes
  through VRAM; records of rows outlive a despawn; a unit that is no whole number
  of elements is released for more than it was charged (`:2984`, `:3092`).
- Runtime and streaming: methods a plugin registers for a component the editor
  named first are never found by component id; the second of two threads
  attaching one copy may return before the registrations are in; the warm limit
  is not enforced within one `classify`; an asset's version restarts at 0 after
  its eviction, and an id declared after its component is never loaded; a
  rebuild that gets its own value waits for itself (`residency.rs:492`).

## 4. Proofs

Each holds for every value of the constants that satisfies the named
assumptions, which state what the code requires of its parameters (positive
capacities, a null that is not a value) and which TLC evaluates in the runs.
`Spec` is always the specification a run explores, without its fairness.

`CellStorageProofs` (assumptions `CellAssumption`, `NoValueAssumption`):

- The inductive invariant is
  `IInv == TypeOK /\ HandlesResolve /\ RetirementInFlight /\ FreeStacksSound`.
  `HandlesResolve` alone is not inductive: a reused slot could still be mapped
  unless the free stack holds exactly the unmapped, unspent slots, without
  duplicates; and `commit_retire` would release the wrong slot unless a
  retirement in flight still has its row and generation. There is one lemma per
  action, with one step per conjunct it disturbs.
- `TypeCorrect`, `HandlesAlwaysResolve`, `NoGenerationDrift` follow from it.
- `SlotsAccounted` adds the cardinality argument: unspent slots are mapped to
  distinct rows or free, and a slot is created only when none is free.
- `PinnedRowsNeverMove` and `CompactionClosesHoles` are action properties from
  the invariant; the second needs that rows before `compactRow` are not dead.
- `CellImplementsHandleMap`: initial states map to initial states, and each
  action maps to one action of `HandleMap` or to a stutter.

`AllocatorProofs`, the slot allocator, for any finite set of threads and any bounds
(`BoundsAssumption`), under `NoWrap == MaxFrees < GenMod`, i.e. while no index is
freed so often that its generation comes round:

- `SlotInv == SlotTypeOK /\ RoomToExtend /\ Issued /\ GenerationsTell /\
  IndexConserved`: extension has room, whatever is free or in a thread's hands
  was issued, and the generation of an index counts its frees, so that claimed
  handles carry it and stale ones lie below it. `IndexConserved` needs the last
  part where a free's compare-and-swap succeeds.
- `NoIndexTwice`, `StaleNeverValid`, `LiveCountExact` follow; the last needs
  finite-set cardinalities.

`AllocatorProofs`, ranges and asset stores, for any sizes, alignments, rows and
images (`AssetAssumption`):

- A free list is sound (`IsSoundList`) when its spans lie in the range, are
  apart and none is empty, but for the one span of a range without room. It
  need not be coalesced. On a sound list `alloc` takes its units out of the
  free ones and no others, at a multiple of the alignment (`AllocTakes`);
  `free` gives back exactly what it is given, if none of it was free already
  (`FreeGives`); `extend_total` adds exactly the new units (`ExtendGives`).
- `AssetsStayExact`: `ArenaInv` ties each arena's free list to the ranges that
  callers hold, unit by unit; `TableInv` adds to `TablesExact` that batches are
  read off the rows by position, which an append does not move; `TextureInv`
  that the free slots are without repetition, so that the list's length counts
  the empty slots.
- `InternedStaysExact`, for any rows, ids, leases, payloads and first capacity
  (`InternAssumption`: users are finitely many, and no id is taken for a row or
  a lease): `InternInv` is stated by user. Each row and lease has an id or none
  and, with none, a range; `TableHolds` says that these ranges and the entries'
  own every unit that is not free (`Shares`), hold their payloads (`Says`), and
  that an entry counts its users. One lemma each for one user less of an entry
  (`DecrefHolds`), one more (`InternHolds`), and a private range that goes,
  comes or is replaced; each action is one or two of these.
- The pool's own part (`IsPool`) is that free spans start at a multiple of the
  alignment, which `alloc` on padded lengths keeps. `RoomGives` needs it for
  the code's claim that an allocation must succeed once the pool has grown
  (`gpu/var_len_pool.rs:303`), which the new capacity alone does not give: if
  the old one is not a multiple of the alignment, its last unit is free, and the
  new units join a span that starts at one.
- A payload that would take the buffer past the device's limit is outside the
  pools' theorems, as it is outside the model (`Writable`): the code counts on a pool
  without a ceiling (`gpu/interned_pool.rs:268`) and would panic.

`AllocatorProofs`, tiered storage, for any owners, payloads, rows, segments and
budgets (`TierAssumption`, `LayoutAssumption`):

- Payloads and the units promoted from them take ranges of one free list, and
  eviction inside a promotion changes other records than the one promoted. So
  the argument is about bundles: `Sound` says of one that every record's units
  are the first of its plan (`RecordSound`), that the account covers what is
  placed (`VramCovers`), and that each handle and each resident unit owns its
  range of the pool and the range says what it should (`Owned`). Ownership is
  by key, a row's or a rank's of an offset; a range that the code leaks when a
  resident payload is rewritten keeps an owner that nobody names, so that the
  free list never offers it again.
- Each operator keeps a bundle sound, from withdrawing a set of residents and
  evicting, over admitting one unit and a whole flight, to `AfterIntent`; the
  conclusions about one unit are what makes an induction along a plan go
  through, whichever unit is declined.
- `TierInv` adds that the intents queued and drained are sane. `ContentsStay`,
  `PrefixStaysComplete` and `VramStaysWithinBudget` follow.
- The budget needs the second half of `Admissible`: what eviction freed is
  compared with the budget again, as in the code, since the account may say more
  than is placed and then eviction does not make room.

`SceneGpuStoreProofs`, for any cells, rows, slots, values, regions and serials
(`CellAssumption`, `StoreAssumption`), a theorem of `StoreSpec`:

- `StoreInv == IInv /\ StoreTypeOK /\ QueuesExact /\ RegionsPlaced /\
  ReadersOver /\ GenerationsCurrent /\ MirrorTrue`, one lemma per action. The
  store's steps are not all steps of `CellStorage`: an eviction commits a whole
  queue at once and a reload replaces a cell, so `IInv` is shown again for
  those two (`UnregisterKeeps`, `LoadCellKeeps`), and follows from `NextIInv`
  for the rest, `RetireOne` needing `QueuesExact`: what it takes from a queue is
  a retirement the cell still has in flight.
- `StaleNeverValidates` (`GenerationsCurrent`) is not inductive alone. A stamp
  and a registration write to a region, so no other registered cell may have it
  (`RegionsPlaced`); a slot that `alloc` creates must never have been stamped
  under another generation, which `FreeStacksSound` gives.
- `RegionsHaveOneOwner` (`RegionsExclusive`): held, free and pinned regions are
  disjoint, without repetition, and cover the pool. `ReadersOver` carries the
  second half: a pin's serial is no earlier than the last frame that read the
  region, and `done`, the watermark that `retire_all` read at its start, is
  never ahead of `completed`.
- `FramesKeepWhatTheyRead` (`InFlightHeld`): what leaves a queue is its head,
  whose serial is at most `done`; a handle of a queued slot cannot be stamped
  because its row is pinned; slots in a queue are distinct, so the commit of one
  does not touch another's generation; and `rebuild` finds every queue empty.
- `BoundaryPublishes` (`SyncPublishes`) needs `MirrorTrue`, which says what
  `sync_all` may skip: a row's slot whose shadow is set is in the mirror under
  that slot, and an element the store was told of is in VRAM unless its row is
  marked. The row `alloc` claims keeps old bytes, hence "was told of".
- `CellsHoldInStore` restates `CellStorage`'s two invariants for `StoreSpec`,
  `StoreTypeCorrect` the shape of the store's own state.

`StreamingProofs`, leases, for any non-empty set of bits and any guards
(`LeaseAssumption`): `LeaseInv == LeaseTypeOK /\ FlagsTell /\ FreeSeen /\
MaskExact /\ ReadersTold`. That the mask is exact is not inductive: a revocation
takes the bit of a guard that its flags say is held, and an exchange finds a bit
because its copy of the mask had one free. `LeasesAlwaysHonoured` follows.

`StreamingProofs`, the grid, for any cells, bands, limits and pins
(`GridAssumption`):

- `GridInv == GridTypeOK /\ RegionsHaveOneHolder /\ WarmCounted` gives
  `RegionsAndCountsStayExact`. A transition is judged again when it is drained,
  so the invariant says nothing of what the queue asks for.
- `GridStaysExact` adds that no cell is sent back the way it came
  (`NoThrash`). While observers and pins stay, what a cell was last sent to
  tells on which side of the bands it is: `HeadingsHold` says that one sent up
  is not beyond the boundary it would be demoted at, one sent down not within
  the one it would be promoted at, whatever is still queued for it.
- It supposes `WellTuned`: hysteresis is not negative, and no cell is pinned to
  `Warm` while there is no warm tier. Without the second it is false: a cell
  that was pinned to `Warm` and is released near the observer is sent to
  `Outer`, for want of a tier, and then to `Margin` (`gpu/grid.rs:540`). The
  code expects that case; it loses a copy, not consistency.

`StreamingProofs`, replication, for any slots, components, conditions, owners
and clients (`ReplicationAssumption`):

- `ReplicaCurrent` speaks of a client that has caught up; the invariant
  (`ReplicaInv`) of one that still may, since it has missed no delta since its
  baseline (`Complete`). Of each field it was to be sent, `Arrives` says that
  its world has it or a delta on its way lands it, and that nothing behind takes
  it; `Told` that the last word on its value, in the world or on its way, is the
  server's. Deltas on their way are looked at in the order of their frames, in
  whatever order they arrive.
- `TrackerTells` is why a frame's delta is right: a slot's later newcomer has
  the later generation, so the last spawn of a slot is the one that lives, and
  whatever a newcomer holds was recorded as changed.
- `AppliedKeeps` and `AppliedLands` say what `Delta::apply` does to one field;
  the actions' lemmas rest on them alone. `ReplicaStaysCurrent` follows.

`StreamingProofs`, assets, for any entities, assets, sources, callers and
settings (`AssetTableAssumption`, `DerivedAssumption`):

- `BoundWhenQuiet` speaks of a table with nothing left to pump. `BindingTells`
  says of every component, at any time, that it is touched or requested, that
  its asset is loading, or that it is bound to the entry as it is; `EntryTells`
  of every entry which load it waits for, or that it is what a load would leave
  now unless a change of its source was not announced yet.
- Completions arrive in any order. `TokensApart` is why the pump may take them
  in together: no two loads have one token, so of the completions for an asset
  at most one is wanted, and `ReadsTell` that a wanted one read what is there.
- `AnswersFresh` is about answers; the invariant (`DerivedInv`) about files: the
  payload under a key is a build of a content that *every* call asking for that
  key saw (`Serves`), the latest if the key's stamp is current. Hence whichever
  process renames last, any reader is served. It rests on stamps that do not
  come back.
- `AssetsStayResolved` follows for `ResolutionSpec`, the two side by side.

`StreamingProofs`, harvest, for any cells, rows, views, axes and any block widths
that divide a liveness word (`HarvestAssumption`):

- `Lists(s, M)`: `s` is the numbers of the finite set `M`, ascending. There is
  one such list (`ListsOnce`), lists of sets that follow each other join to a
  list (`ListsJoin`), and packing a mask lists its lanes (`PackedLists`); so
  `CompressedRun`, block by block and tail, is the list of all hits
  (`CompressedIs`), by least counterexample over the blocks.
- `HitsAre`: a row is hit if it lives by the words and passes the test. That
  needs a block to lie in one word (`SameWord`, from `WordBits` being a multiple
  of the width) and the test of a block to be that of a row (`TestsAgree`). The
  second holds where no product fails to be a number, which is what `Ordered`
  says in the property: there the two routes of the code do differ.
- `HarvestInv` adds to `StagedExact` and `RunsHonest` that live rows are rows,
  that staging is empty outside of a harvest, so mutations cannot outdate it,
  and that a run's rows are rows of its cell, so a row allocated later is not
  one of them. `CompactAllKeeps` needs as many dead rows below the new end as
  live ones above it (`DeadAndMoved`).
- `DeviceInv` adds to `DeviceCurrent` that an entry in the registry names the
  buffer of its own epoch. `ViewsStayExact` follows for `ViewsSpec`, harvest and
  buffers side by side.

`StreamingProofs`, the three tables of `Prediction`, each a specification of its
own, whose properties are the first conjuncts of `PeersAgree`:

- `PredictionStaysKept`, for any snapshot capacity of at least one
  (`PredictionAssumption`). `LinkInvariant == ClientPredicts /\ SnapshotsRecent /\
  LinkOrdered`: pending inputs are the frames from the base to the last one
  pushed, `Upward` without a gap; snapshots are the newest bases taken; and the
  link holds the frames the server has yet to look at, and deltas whose bases
  ascend and lie between the client's and the server's. The last is needed:
  `reconcile` takes whatever base a delta names, and only that bases arrive in
  order and never run ahead of what was pushed makes dropping inputs by base
  right. With nothing lost or refused, a delta on its way has the field as of
  its base or nothing changed since the base before, which is why the client
  comes to show what the server holds.
- `MergesStayAgreed`, for editors of any client number and deltas of any length
  that name a key once in each list (`EditsAssumption`; a drained delta is
  deduplicated by key). Between two editors one has the higher number, so both
  peers call the same delta the winner; the merged list is the winner's and a
  part of the loser's without the winner's keys (`ListJoined`).
- `MapStaysInverse` is inductive as it stands.

`BufferProofs`, for any rows, values and bounds:

- `RegistryInv == RegistryTypeOK /\ AllocationsKept /\ NothingAhead /\
  HandoffCurrent`. The handoff relies on numbers that are compared later: no
  epoch or generation held anywhere may be ahead of the buffer's or the
  registry's own, and no allocation that is still named may be gone.
  `HandoffsAreCurrent` follows.
- `MirrorInv == MirrorTypeOK /\ IsSound(liveness) /\ IsSound(column) /\
  BearersLive /\ PromiseKept /\ GenerationsKept`. `MirrorCurrent` is about
  moments when nothing waits for the flush; in between, a buffer is sound when
  the GPU differs from the CPU's shadow in dirty rows only (`MarkDirtyShows`,
  `FlushShows`, `ReserveShows`, `ShrinkShows`, one lemma per operation), and it
  is the shadow that shows what the mode promises and, of generations, the
  entity's own or one past the last dead bearer's. `MirrorStaysCurrent` follows.
- That doubling reaches any size (`DoubledCovers`) comes from a set having at
  least as many subsets as elements, the library's fact about powers of two.
- `MirrorStaysCurrent` supposes `RowsFit`: the device's limit on a buffer is
  beyond every row. The code registers these buffers without a ceiling and
  counts on their growth not failing (`dirty_tracked_scene_buffer.rs:283`).

`BufferProofs`, subscribers, for any slots, values and subscriptions
(`SubscriptionAssumption`):

- `SubInv == SubTypeOK /\ Numbered /\ EndsTold /\ BooksAgree`, and of every
  subscriber's view `Tells`: what it was told last is what the component holds,
  *and* the entity belongs to the view's object. Without the second a view could
  speak of an entity whose next write is told to others only. `BooksAgree` is
  why whoever is found for an object subscribed to it, and `Numbered` why a new
  subscriber's number never was another's.
- `StoredKeeps` carries the argument for every write and spawn: the views before
  they are placed must be right of what stays with their object, and know what
  was promised. A guard and a removal call those who were found before the
  write, an insert those found after it; each lemma shows that this is enough.
- `SubscribersStayTold` supposes `OwnersFirst`: bundles list `Owner` before
  `Data`. A bundle in the other order tells `Data` to the entity's own object,
  or unwinds (finding `bundle_order_panic`).

`WorldProofs`, for any component types, slots, generations, handles and peers
(`WorldAssumption`, `CapacityAssumption`):

- Every operation is one or two of three: a row taken out of its archetype, a
  row added, a value set. Three lemmas say what each does to slots, entity
  lists, columns and all rows not concerned; each action is put together from
  them.
- `WorldInv` says that the free list has distinct slots, live slots and entity
  lists name one another, columns are as long as their entity list, and every
  entity alive is older than its slot's numbering. `RowsAlwaysMatch` and
  `ColumnsStayAligned` follow.
- `WorldIsEntityStore`: each action maps to an action of `EntityStore` or to a
  stutter. What an entity's components answer is looked up through slot,
  archetype and row, so each operation must leave the look-ups of all other
  entities alone, those whose row a removal moved included.
- `LedgerStaysExact`: the references of a handle are counted by slot index and
  component, where an operation changes at most one entity's; a bijection takes
  them to the row-wise count of `handle_audit`.
- `ReadersStayCurrent`, a theorem of `FollowedSpec`: `ReaderCurrent` needs
  `JournalsTyped` besides `WorldInv`: no ring is longer than its capacity, and a
  cursor the ring may still serve was opened on it. `RecordedUnread` says what a
  push does to a cursor: one still served afterwards was served before and has
  the new entry ahead of it, the eviction of the oldest included.
  `RecordedFollowed` then asks of an operation only that the tables it changes
  differ in what it records (`DifferAt`); a peer's replacement records twice,
  and is split at a table in which nobody lives at the index.
- Hypotheses: the theorems suppose `Filtered = FALSE`, a peer that names only
  what it spawned here, `LedgerStaysExact` a peer that sends no component that
  holds handles, and `ReadersStayCurrent` spawns that come with their fields
  (`FieldsSent`). Without the first two the property is false, as findings 1 and
  2 show, and without the third by the journal divergence of section 3; none
  restricts local callers.

`ResidencyProofs`, for any threads, values, needs, sizes and budgets
(`ResidencyAssumption`):

- A call is looked at as a spot, a thread and a depth in its stack; steps either
  move one spot and change nothing else (`Quiet`), or are one of the critical
  sections, each with a lemma.
- `ResInv` says who may hold a flight that is not answered (its owner, which is
  running, or a queued job), that owners of one value's flight are alone and
  have not installed it yet, that every call waits for the flight its value
  names, and that entries of the cache, slots and the calls between them (half
  installed, half dropped) account for one another.
- `OneRebuildAtATime` and `EntriesAreBacked` follow, the second the first half
  of `Accounted`.
- `BooksInv` adds that the budget is a number and `resident_bytes` the sum of
  the entries' sizes. A sum over a set is written without recursion, as the
  number of the units of its members (`SumOver` in `Vectors`), so that it is
  additive over disjoint sets by a fact on cardinalities. `InsertBooks` does the
  eviction loop: how many entries the front of the order gives up, and what the
  rest weighs. `BooksStayAccounted` and `BudgetStaysKept` follow.

`StackLemmas` has the facts about sequences the others cite: what a pop, a push,
a concatenation, `Retained` and `Without` leave, that a least element is a
member, and what a sum over a set comes to.

Only model-checked, and why:

- liveness (`CompactionReturns`, `RetirementsDrain`, `GetsReturn`), which needs
  `ENABLED`;
- what recursive definitions compute (`Wire`, `Fields`): induction over data;
- `Runtime`: not proved. What a copy of the library has loaded is a fold over
  the published tables, so its part of `PeersAgree` is induction over data;
  `PeersAgree` as a whole therefore stays a property of the runs.

## 5. Plan

Every safety property of the runs is proved but `FieldsExact` and the parts of
`PeersAgree` that speak of `Wire` and `Runtime`. What would come next is
`Runtime`, with its tables written without a fold.
