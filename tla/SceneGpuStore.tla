---------------------------- MODULE SceneGpuStore ----------------------------
(***************************************************************************)
(* SceneGpuStore (gpu/scene_store.rs): the cells of CellStorage mirrored   *)
(* in VRAM.  A registered cell owns a region of rows and a region of slots *)
(* there (gpu/region.rs); the store keeps, per region, the generation of   *)
(* each slot, the global slot of each row, and the columns.  Shaders       *)
(* validate handles against VRAM alone.                                    *)
(*                                                                         *)
(* A frame is simulate (Write), then the boundary: retire_all, compact_all *)
(* and sync_all, in the order phase.rs's tokens and SceneGpuStore::phase   *)
(* impose.  Work is submitted under a serial and completes later           *)
(* (gpu/tracker.rs); an element freed in a frame keeps its row and its     *)
(* generation until the serial it was freed under has completed.           *)
(*                                                                         *)
(* Row and slot pools of a class have the same number of regions and are   *)
(* always taken from and returned to together, so one pool of region       *)
(* indices stands for both: region_base is index * region_size.            *)
(*                                                                         *)
(* retire_all's loop is one step per retired element, compact_all's one    *)
(* per loop iteration of each compaction.                                  *)
(***************************************************************************)
EXTENDS CellStorage, Vectors

CONSTANTS
  NumRegions,  \* max_resident_cells of the class
  MaxSerial,   \* bound on the submissions between two device losses
  NoRegion,    \* a cell that is not registered
  NoShadow     \* slot_shadow's u32::MAX: nothing uploaded

ASSUME StoreAssumption ==
  /\ NumRegions \in Nat \ {0}
  /\ MaxSerial \in Nat \ {0}
  /\ NoRegion \notin Nat
  /\ NoShadow \notin Nat

Regions == 0 .. NumRegions - 1
Serials == 1 .. MaxSerial

\* QueuedRetire.
QueuedRetire == [pending : PendingRetire, serial : Serials]

VARIABLES
  phase,         \* SceneGpuStore::phase, with "Retiring" inside retire_all
  toVisit,       \* cells compact_all_gated has not reached
  done,          \* retire_all's copy of completed()
  frame,         \* the serial drawn for the frame being built
  signalled,     \* serials whose completion callback is registered
  completed,     \* SubmissionTracker::completed
  region,        \* CellGpuState::row_base and slot_base
  freeRegions,   \* RegionPool::free, a stack
  pinnedRegions, \* RegionPool::pinned
  queue,         \* CellGpuState::pending
  dirty,         \* CellGpuState::dirty_columns, one mask
  genShadow,     \* CellGpuState::gen_shadow
  slotShadow,    \* CellGpuState::slot_shadow
  vramGen,       \* GenerationBuffer
  vramSlot,      \* slot_mirror: the global slot of each row
  vramData,      \* the column's buffer
  written,       \* history: slots whose element the store has been told of
  lastRead       \* history: last serial under which a region's cell was drawn

frameVars  == <<phase, toVisit, done>>
serialVars == <<frame, signalled, completed>>
regionVars == <<region, freeRegions, pinnedRegions>>
mirrorVars == <<dirty, genShadow, slotShadow, vramGen, vramSlot, vramData>>
history    == <<written, lastRead>>
storeVars  == <<frameVars, serialVars, regionVars, queue, mirrorVars, history>>
vars       == <<cellVars, storeVars>>

Registered == {c \in Cells : region[c] # NoRegion}

NoGenerations == [s \in Slots |-> 0]
NoSlots       == [r \in Rows |-> NoShadow]

\* A zero-filled buffer names slot 0 of region 0.
GlobalSlot(g, s) == <<g, s>>

\* RegionPool::new: the free stack hands out region 0 first.
FreshRegions == [i \in 1 .. NumRegions |-> NumRegions - i]

StoreInit ==
  /\ Init
  /\ phase = "Write"
  /\ toVisit = {}
  /\ done = 0
  /\ frame = 1
  /\ signalled = {}
  /\ completed = 0
  /\ region = [c \in Cells |-> NoRegion]
  /\ freeRegions = FreshRegions
  /\ pinnedRegions = << >>
  /\ queue = [c \in Cells |-> << >>]
  /\ dirty = [c \in Cells |-> {}]
  /\ genShadow = [c \in Cells |-> NoGenerations]
  /\ slotShadow = [c \in Cells |-> NoSlots]
  /\ vramGen = [g \in Regions |-> NoGenerations]
  /\ vramSlot = [g \in Regions |-> [r \in Rows |-> GlobalSlot(0, 0)]]
  /\ vramData = [g \in Regions |-> [r \in Rows |-> ZeroValue]]
  /\ written = [c \in Cells |-> {}]
  /\ lastRead = [g \in Regions |-> 0]

\* No retire_all and no compact_all is running: another call may start.
StoreIdle ==
  /\ phase # "Retiring"
  /\ toVisit = {}
  /\ \A c \in Registered : compactRow[c] = Idle

MappedSlots(c) == {s \in Slots : slotToRow[c][s] # NullRow}

------------------------------------------------------------------------------
\* CellStorage::alloc takes no notice of the store.
StoreAlloc(c) ==
  /\ region[c] # NoRegion
  /\ phase = "Write"
  /\ Alloc(c)
  /\ written' = [written EXCEPT ![c] =
                   @ \ {s \in Slots : slotToRow'[c][s] = len[c]}]
  /\ UNCHANGED <<frameVars, serialVars, regionVars, queue, mirrorVars, lastRead>>

\* A cell that is not registered is CellStorage's own business: here it keeps
\* what it has, or is dropped and another one, of n elements, takes its place.
LoadCell(c) ==
  /\ region[c] = NoRegion
  /\ compactRow[c] = Idle
  /\ \E n \in 0 .. Capacity :
       /\ n <= MaxSlots
       /\ len'         = [len EXCEPT ![c] = n]
       /\ live'        = [live EXCEPT ![c] = 0 .. n - 1]
       /\ numSlots'    = [numSlots EXCEPT ![c] = n]
       /\ slotCol'     = [slotCol EXCEPT ![c] =
                           [r \in Rows |-> IF r < n THEN r ELSE 0]]
       /\ generations' = [generations EXCEPT ![c] =
                           [s \in Slots |-> IF s < n THEN 1 ELSE 0]]
       /\ slotToRow'   = [slotToRow EXCEPT ![c] =
                           [s \in Slots |-> IF s < n THEN s ELSE NullRow]]
  /\ \E v \in Values : data' = [data EXCEPT ![c] = [r \in Rows |-> v]]
  /\ free'         = [free EXCEPT ![c] = << >>]
  /\ retiredCount' = [retiredCount EXCEPT ![c] = 0]
  /\ UNCHANGED <<pins, pending, compactRow, storeVars>>

------------------------------------------------------------------------------
\* The tail of the region keeps the generations of its former cell.
RegisterMutant(c) ==
  /\ region[c] = NoRegion
  /\ compactRow[c] = Idle
  /\ StoreIdle
  /\ freeRegions # << >>
  /\ LET g == Last(freeRegions) IN
       /\ region' = [region EXCEPT ![c] = g]
       /\ vramGen' = [vramGen EXCEPT ![g] =
            [s \in Slots |-> IF s < numSlots[c] THEN generations[c][s] ELSE @[s]]]
  /\ freeRegions' = Front(freeRegions)
  /\ genShadow'  = [genShadow EXCEPT ![c] = generations[c]]
  /\ dirty'      = [dirty EXCEPT ![c] = 0 .. len[c] - 1]
  /\ slotShadow' = [slotShadow EXCEPT ![c] = NoSlots]
  /\ written'    = [written EXCEPT ![c] = MappedSlots(c)]
  /\ UNCHANGED <<cellVars, frameVars, serialVars, pinnedRegions, queue,
                 vramSlot, vramData, lastRead>>

\* register_cell takes a region, uploads the registry's generations, zeroes
\* the rest of the region, and marks every row of every column dirty.
Register(c) ==
  /\ region[c] = NoRegion
  /\ compactRow[c] = Idle
  /\ StoreIdle
  /\ freeRegions # << >>
  /\ LET g == Last(freeRegions) IN
       /\ region' = [region EXCEPT ![c] = g]
       /\ vramGen' = [vramGen EXCEPT ![g] = generations[c]]
  /\ freeRegions' = Front(freeRegions)
  /\ genShadow'  = [genShadow EXCEPT ![c] = generations[c]]
  /\ dirty'      = [dirty EXCEPT ![c] = 0 .. len[c] - 1]
  /\ slotShadow' = [slotShadow EXCEPT ![c] = NoSlots]
  /\ written'    = [written EXCEPT ![c] = MappedSlots(c)]
  /\ UNCHANGED <<cellVars, frameVars, serialVars, pinnedRegions, queue,
                 vramSlot, vramData, lastRead>>

\* The queued retirements are dropped with the store's state of the cell.
UnregisterMutant(c) ==
  /\ region[c] # NoRegion
  /\ StoreIdle
  /\ frame \in Serials
  /\ pinnedRegions' = Append(pinnedRegions, [base |-> region[c], serial |-> frame])
  /\ region' = [region EXCEPT ![c] = NoRegion]
  /\ queue' = [queue EXCEPT ![c] = << >>]
  /\ dirty' = [dirty EXCEPT ![c] = {}]
  /\ genShadow' = [genShadow EXCEPT ![c] = NoGenerations]
  /\ slotShadow' = [slotShadow EXCEPT ![c] = NoSlots]
  /\ written' = [written EXCEPT ![c] = {}]
  /\ UNCHANGED <<cellVars, frameVars, serialVars, freeRegions, vramGen, vramSlot,
                 vramData, lastRead>>

\* unregister_cell commits the queued retirements on the CPU only, in queue
\* order, and pins the region until last_serial (the current frame) completes.
Unregister(c) ==
  LET slots == [i \in 1 .. Len(queue[c]) |-> queue[c][i].pending.slot]
      gone  == {slots[i] : i \in 1 .. Len(slots)}
      Spent(s) == generations[c][s] + 1 = GenMax
      pooled == {i \in DOMAIN slots : ~Spent(slots[i])}
  IN
  /\ region[c] # NoRegion
  /\ StoreIdle
  /\ frame \in Serials
  /\ slotToRow' = [slotToRow EXCEPT ![c] =
                     [s \in Slots |-> IF s \in gone THEN NullRow ELSE @[s]]]
  /\ generations' = [generations EXCEPT ![c] =
                     [s \in Slots |-> IF s \in gone THEN @[s] + 1 ELSE @[s]]]
  /\ free' = [free EXCEPT ![c] = @ \o Retained(slots, pooled)]
  /\ retiredCount' = [retiredCount EXCEPT ![c] =
                     @ + Cardinality({s \in gone : Spent(s)})]
  /\ pins' = [pins EXCEPT ![c] = {}]
  /\ pending' = [pending EXCEPT ![c] = {}]
  /\ pinnedRegions' = Append(pinnedRegions, [base |-> region[c], serial |-> frame])
  /\ region' = [region EXCEPT ![c] = NoRegion]
  /\ queue' = [queue EXCEPT ![c] = << >>]
  /\ dirty' = [dirty EXCEPT ![c] = {}]
  /\ genShadow' = [genShadow EXCEPT ![c] = NoGenerations]
  /\ slotShadow' = [slotShadow EXCEPT ![c] = NoSlots]
  /\ written' = [written EXCEPT ![c] = {}]
  /\ UNCHANGED <<pageVars, live, numSlots, compactRow, frameVars, serialVars,
                 freeRegions, vramGen, vramSlot, vramData, lastRead>>

\* rebuild, after the device is lost: a new store with zeroed buffers and a
\* new tracker registers the cells one after the other and uploads them whole.
\* It must not be called with a retirement in flight (its debug_assert).
Rebuild ==
  /\ StoreIdle
  /\ Registered # {}
  /\ \A c \in Registered : pins[c] = {}
  /\ \E order \in SetToSeqs(Registered) :
       LET k == Len(order)
           At(g) == order[g + 1]
       IN
       /\ region' = [c \in Cells |-> IF c \in Registered
                       THEN (CHOOSE i \in 1 .. k : order[i] = c) - 1
                       ELSE NoRegion]
       /\ freeRegions' = SubSeq(FreshRegions, 1, NumRegions - k)
       /\ vramGen' = [g \in Regions |-> IF g < k THEN generations[At(g)]
                                                 ELSE NoGenerations]
       /\ vramSlot' = [g \in Regions |-> [r \in Rows |->
            IF g < k /\ r < len[At(g)] THEN GlobalSlot(g, slotCol[At(g)][r])
                                       ELSE GlobalSlot(0, 0)]]
       /\ vramData' = [g \in Regions |-> [r \in Rows |->
            IF g < k /\ r < len[At(g)] THEN data[At(g)][r] ELSE ZeroValue]]
  /\ pinnedRegions' = << >>
  /\ dirty' = [c \in Cells |-> {}]
  /\ genShadow' = [c \in Cells |-> IF c \in Registered THEN generations[c]
                                                       ELSE NoGenerations]
  /\ slotShadow' = [c \in Cells |-> [r \in Rows |->
        IF c \in Registered /\ r < len[c] THEN slotCol[c][r] ELSE NoShadow]]
  /\ written' = [c \in Cells |-> IF c \in Registered THEN MappedSlots(c) ELSE {}]
  /\ phase' = "Write"
  /\ frame' = 1
  /\ signalled' = {}
  /\ completed' = 0
  /\ lastRead' = [g \in Regions |-> 0]
  /\ UNCHANGED <<cellVars, toVisit, done, queue>>

------------------------------------------------------------------------------
\* write_generation: skipped when the shadow says VRAM already has it.
Stamp(c, s, gen) ==
  IF genShadow[c][s] = gen
    THEN UNCHANGED <<genShadow, vramGen>>
    ELSE /\ vramGen'   = [vramGen EXCEPT ![region[c]][s] = gen]
         /\ genShadow' = [genShadow EXCEPT ![c][s] = gen]

\* The column is written, its row marked, and the slot remembered as told.
WriteColumn(c, h, v) ==
  /\ region[c] # NoRegion
  /\ phase = "Write"
  /\ Write(c, h, v)
  /\ dirty' = [dirty EXCEPT ![c] = @ \union {RowOf(c, h)}]
  /\ written' = [written EXCEPT ![c] = @ \union {h.slot}]
  /\ UNCHANGED <<frameVars, serialVars, regionVars, queue, slotShadow,
                 vramSlot, vramData, lastRead>>

\* write_transform makes the handle valid on the GPU ...
WriteTransform(c, h, v) ==
  /\ WriteColumn(c, h, v)
  /\ Stamp(c, h.slot, h.gen)

\* ... write_instance_info leaves that to it.
WriteInstanceInfo(c, h, v) ==
  /\ WriteColumn(c, h, v)
  /\ UNCHANGED <<genShadow, vramGen>>

\* free_deferred, under the serial of the frame being built.
FreeDeferred(c, h) ==
  /\ region[c] # NoRegion
  /\ phase = "Write"
  /\ frame \in Serials
  /\ MarkPendingRetire(c, h)
  /\ queue' = [queue EXCEPT ![c] = Append(@,
       [pending |-> [slot |-> h.slot, row |-> RowOf(c, h), nextGen |-> h.gen + 1],
        serial  |-> frame])]
  /\ UNCHANGED <<frameVars, serialVars, regionVars, mirrorVars, history>>

------------------------------------------------------------------------------
\* The frame's work is submitted: it may read every registered region until
\* the completion callback of its serial has run.
Submit ==
  /\ phase = "Write"
  /\ frame \in Serials
  /\ signalled' = signalled \union {frame}
  /\ frame' = frame + 1
  /\ lastRead' = [g \in Regions |->
       IF \E c \in Cells : region[c] = g THEN frame ELSE lastRead[g]]
  /\ UNCHANGED <<cellVars, frameVars, completed, regionVars, queue, mirrorVars,
                 written>>

\* A callback runs, at any moment and in any order: fetch_max.
Complete(s) ==
  /\ s \in signalled
  /\ completed' = IF s > completed THEN s ELSE completed
  /\ signalled' = signalled \ {s}
  /\ UNCHANGED <<cellVars, frame, frameVars, regionVars, queue, mirrorVars,
                 history>>

------------------------------------------------------------------------------
RetireBegin ==
  /\ phase = "Write"
  /\ phase' = "Retiring"
  /\ done' = completed
  /\ UNCHANGED <<cellVars, toVisit, serialVars, regionVars, queue, mirrorVars,
                 history>>

\* A serial that was submitted is taken for one that has completed.
ReadyEarlyMutant(c) == queue[c] # << >> /\ Head(queue[c]).serial < frame

\* The serial that completed last is left waiting.
ReadyStrictMutant(c) == queue[c] # << >> /\ Head(queue[c]).serial < done

Ready(c) == queue[c] # << >> /\ Head(queue[c]).serial <= done

\* The generation reaches VRAM before the slot is back in the free pool.
RetireOne(c) ==
  /\ phase = "Retiring"
  /\ Ready(c)
  /\ LET p == Head(queue[c]).pending IN
       /\ Stamp(c, p.slot, p.nextGen)
       /\ CommitRetire(c, p)
       /\ written' = [written EXCEPT ![c] = @ \ {p.slot}]
  /\ queue' = [queue EXCEPT ![c] = Tail(@)]
  /\ UNCHANGED <<frameVars, serialVars, regionVars, dirty, slotShadow, vramSlot,
                 vramData, lastRead>>

\* Regions are recycled as soon as their serial is submitted.
RetireEndMutant ==
  LET over == {i \in DOMAIN pinnedRegions : pinnedRegions[i].serial < frame}
      drained == Retained(pinnedRegions, over)
  IN
  /\ phase = "Retiring"
  /\ \A c \in Registered : ~Ready(c)
  /\ freeRegions' = freeRegions \o [i \in 1 .. Len(drained) |-> drained[i].base]
  /\ pinnedRegions' = Retained(pinnedRegions, DOMAIN pinnedRegions \ over)
  /\ phase' = "Retired"
  /\ done' = 0
  /\ UNCHANGED <<cellVars, toVisit, serialVars, region, queue, mirrorVars, history>>

\* drain_completed on the pools closes retire_all.
RetireEnd ==
  LET over == {i \in DOMAIN pinnedRegions : pinnedRegions[i].serial <= done}
      drained == Retained(pinnedRegions, over)
  IN
  /\ phase = "Retiring"
  /\ \A c \in Registered : ~Ready(c)
  /\ freeRegions' = freeRegions \o [i \in 1 .. Len(drained) |-> drained[i].base]
  /\ pinnedRegions' = Retained(pinnedRegions, DOMAIN pinnedRegions \ over)
  /\ phase' = "Retired"
  /\ done' = 0
  /\ UNCHANGED <<cellVars, toVisit, serialVars, region, queue, mirrorVars, history>>

------------------------------------------------------------------------------
CompactAll ==
  /\ phase = "Retired"
  /\ StoreIdle
  /\ phase' = "Compacted"
  /\ toVisit' = Registered
  /\ UNCHANGED <<cellVars, done, serialVars, regionVars, queue, mirrorVars, history>>

\* `ready` may hold a cell back: a harvest of its rows is still leased.
CompactVisit(c) ==
  /\ c \in toVisit
  /\ \A d \in Registered : compactRow[d] = Idle
  /\ toVisit' = toVisit \ {c}
  /\ CompactBegin(c) \/ UNCHANGED cellVars
  /\ UNCHANGED <<phase, done, serialVars, regionVars, queue, mirrorVars, history>>

\* on_move is not told of the move.
StoreCompactMoveMutant(c) ==
  /\ CompactMove(c)
  /\ UNCHANGED storeVars

\* One iteration of compact_report; on_move marks the destination row.
StoreCompactMove(c) ==
  /\ CompactMove(c)
  /\ dirty' = [dirty EXCEPT ![c] = @ \union {compactRow[c]}]
  /\ UNCHANGED <<frameVars, serialVars, regionVars, queue, genShadow, slotShadow,
                 vramGen, vramSlot, vramData, history>>

StoreCompactStep(c) ==
  \/ StoreCompactMove(c)
  \/ /\ \/ CompactSkip(c)
        \/ CompactTrim(c)
        \/ CompactDropHole(c)
        \/ CompactPinnedTail(c)
        \/ CompactEnd(c)
     /\ UNCHANGED storeVars

\* sync_all uploads the dirty rows of every registered cell, and each row's
\* global slot where the shadow shows that it changed.
SyncAll ==
  LET Holds(c, g, r) == region[c] = g /\ r < len[c] IN
  /\ phase = "Compacted"
  /\ StoreIdle
  /\ phase' = "Write"
  /\ vramData' = [g \in Regions |-> [r \in Rows |->
       IF \E c \in Cells : Holds(c, g, r) /\ r \in dirty[c]
         THEN data[CHOOSE c \in Cells : region[c] = g][r]
         ELSE vramData[g][r]]]
  /\ vramSlot' = [g \in Regions |-> [r \in Rows |->
       IF \E c \in Cells : Holds(c, g, r) /\ slotShadow[c][r] # slotCol[c][r]
         THEN GlobalSlot(g, slotCol[CHOOSE c \in Cells : region[c] = g][r])
         ELSE vramSlot[g][r]]]
  /\ slotShadow' = [c \in Cells |-> [r \in Rows |->
       IF c \in Registered /\ r < len[c] THEN slotCol[c][r] ELSE slotShadow[c][r]]]
  /\ dirty' = [c \in Cells |->
       IF c \in Registered /\ len[c] > 0 THEN {} ELSE dirty[c]]
  /\ UNCHANGED <<cellVars, toVisit, done, serialVars, regionVars, queue, genShadow,
                 vramGen, history>>

------------------------------------------------------------------------------
Boundary ==
  \/ RetireBegin
  \/ \E c \in Cells : RetireOne(c)
  \/ RetireEnd
  \/ CompactAll
  \/ \E c \in Cells : CompactVisit(c) \/ StoreCompactStep(c)
  \/ SyncAll

Mutation(c) ==
  \/ StoreAlloc(c)
  \/ \E h \in Handle :
       \/ \E v \in Values : WriteTransform(c, h, v) \/ WriteInstanceInfo(c, h, v)
       \/ FreeDeferred(c, h)
  \/ LoadCell(c)
  \/ Register(c)
  \/ Unregister(c)

StoreNext ==
  \/ \E c \in Cells : Mutation(c)
  \/ Submit
  \/ \E s \in Serials : Complete(s)
  \/ Boundary
  \/ Rebuild

StoreSpec == StoreInit /\ [][StoreNext]_vars

\* The calls of a boundary run to their end and the frame loop keeps running
\* them in order; work is submitted each frame and the GPU completes it.
StoreFairSpec ==
  /\ StoreSpec
  /\ WF_vars(Boundary)
  /\ SF_vars(Submit)
  /\ WF_vars(\E s \in Serials : Complete(s))

------------------------------------------------------------------------------
\* The shape of the store's state.
StoreTypeOK ==
  /\ phase \in {"Write", "Retiring", "Retired", "Compacted"}
  /\ toVisit \subseteq Cells
  /\ done \in 0 .. MaxSerial /\ completed \in 0 .. MaxSerial
  /\ frame \in 1 .. MaxSerial + 1
  /\ signalled \subseteq Serials
  /\ region \in [Cells -> Regions \union {NoRegion}]
  /\ freeRegions \in Seq(Regions)
  /\ pinnedRegions \in Seq([base : Regions, serial : Serials])
  /\ queue \in [Cells -> Seq(QueuedRetire)]
  /\ dirty \in [Cells -> SUBSET Rows]
  /\ genShadow \in [Cells -> [Slots -> 0 .. GenMax]]
  /\ slotShadow \in [Cells -> [Rows -> Slots \union {NoShadow}]]
  /\ vramGen \in [Regions -> [Slots -> 0 .. GenMax]]
  /\ vramSlot \in [Regions -> [Rows -> Regions \X Slots]]
  /\ vramData \in [Regions -> [Rows -> Values]]
  /\ written \in [Cells -> SUBSET Slots]
  /\ lastRead \in [Regions -> 0 .. MaxSerial]

\* A handle the CPU has given up never validates in VRAM (C6): the generation
\* there is the registry's, or 0 until the slot's element is first written,
\* even in a region that another cell has used and left its generations in.
GenerationsCurrent ==
  \A c \in Registered : \A s \in Slots :
    /\ vramGen[region[c]][s] \in {0, generations[c][s]}
    /\ genShadow[c][s] = vramGen[region[c]][s]

\* Once sync_all returns, every row of a registered cell names its slot in the
\* slot mirror, and the column in VRAM is the cell's own for every element the
\* store was told of: no write, no compaction move, no recycled slot or region
\* leaves a row of the mirror behind.
RowMirrored(c, r) ==
  /\ vramSlot[region[c]][r] = GlobalSlot(region[c], slotCol[c][r])
  /\ r \in Occupied(c) /\ slotCol[c][r] \in written[c]
       => vramData[region[c]][r] = data[c][r]

SyncPublishes ==
  [][phase = "Compacted" /\ phase' = "Write"
       => \A c \in Registered' : \A r \in 0 .. len'[c] - 1 :
            RowMirrored(c, r)']_vars

\* While a retirement's serial is incomplete it stays queued, its slot keeps
\* the generation the GPU validates against, and the row of the mirror is not
\* given to another slot.
InFlightHeld ==
  [][\A c \in Registered : region'[c] = region[c] =>
       \A i \in 1 .. Len(queue[c]) :
         LET q == queue[c][i]
             g == region[c]
         IN q.serial > completed' =>
              /\ \E j \in 1 .. Len(queue'[c]) : queue'[c][j] = q
              /\ vramGen'[g][q.pending.slot] = vramGen[g][q.pending.slot]
              /\ vramSlot'[g][q.pending.row] \in
                   {vramSlot[g][q.pending.row], GlobalSlot(g, q.pending.slot)}]_vars

\* A region belongs to one cell, or is pinned, or is free, and is registered
\* again only after the last frame that could read its former cell completed
\* ("the region pin IS the C6 protection for in-flight reads").
RegionOwners(g) ==
  Cardinality({c \in Cells : region[c] = g})
  + Cardinality({i \in 1 .. Len(freeRegions) : freeRegions[i] = g})
  + Cardinality({i \in 1 .. Len(pinnedRegions) : pinnedRegions[i].base = g})

RegionsExclusive ==
  /\ \A g \in Regions : RegionOwners(g) = 1
  /\ \A i \in 1 .. Len(freeRegions) : lastRead[freeRegions[i]] <= completed

\* Every deferred free is committed: the FIFO drain never stalls behind a
\* serial that has completed, and the slot comes back.
Retiring(c, s) == \E p \in pending[c] : p.slot = s

RetirementsDrain ==
  \A c \in Cells : \A s \in Slots : Retiring(c, s) ~> ~Retiring(c, s)

==============================================================================
