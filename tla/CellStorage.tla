----------------------------- MODULE CellStorage -----------------------------
(***************************************************************************)
(* CellStorage (cell.rs) with the HandleRegistry (registry.rs), Page       *)
(* (page.rs) and LivenessMask (liveness.rs) it is made of, for a set of    *)
(* cells.  A cell keeps its elements in dense rows; a handle names a slot  *)
(* and a generation, and the registry maps the slot to the row of the      *)
(* moment.  Rows move only under compact_report's swap-and-pop.            *)
(*                                                                         *)
(* One user column (data) stands for all of them: swap_rows treats every   *)
(* column alike.  Vec<u32> generations and slot_to_row are functions on    *)
(* Slots of which the first numSlots entries exist.                        *)
(*                                                                         *)
(* compact_report is one call, and holds &mut self throughout.  Here each  *)
(* iteration of its loops is a step: compactRow[c] is the loop's `row`     *)
(* while the call runs and Idle otherwise, and no other operation of the   *)
(* cell is enabled until the call returns.                                 *)
(*                                                                         *)
(* Definitions named ...Mutant are plausible bugs: each replaces the       *)
(* definition that follows it in a check that some property notices.       *)
(***************************************************************************)
EXTENDS Integers, FiniteSets, SequencesExt

CONSTANTS
  Cells,      \* the cells
  Capacity,   \* rows of a page
  MaxSlots,   \* bound on the slots a registry ever creates (2^32 in the code)
  GenMax,     \* the generation at which a slot is retired (u32::MAX)
  Values,     \* contents of a row of the user column
  ZeroValue,  \* what alloc_zeroed leaves in a new page
  NullRow,    \* NULL_ROW
  Idle        \* no compaction running

ASSUME CellAssumption ==
  /\ Capacity \in Nat \ {0}
  /\ MaxSlots \in Nat \ {0}
  /\ GenMax \in Nat /\ GenMax > 1
  /\ ZeroValue \in Values
  /\ NullRow \notin Int
  /\ Idle \notin Int

Rows  == 0 .. Capacity - 1
Slots == 0 .. MaxSlots - 1

\* Handle: bits 0-31 the slot, bits 32-63 the generation.
Handle == [slot : Slots, gen : 0 .. GenMax]

\* PendingRetire: what mark_pending_retire hands to its caller.
PendingRetire == [slot : Slots, row : Rows, nextGen : 1 .. GenMax]

VARIABLES
  len,          \* Page::len
  slotCol,      \* physical column 0: the slot that owns each row
  data,         \* a user column
  live,         \* LivenessMask: rows whose bit is set
  pins,         \* rows with in-flight retirement
  numSlots,     \* HandleRegistry::generations.len()
  generations,  \* HandleRegistry::generations
  slotToRow,    \* HandleRegistry::slot_to_row
  free,         \* HandleRegistry::free, a stack
  retiredCount, \* HandleRegistry::retired_count
  pending,      \* PendingRetire values handed out and not yet committed
  compactRow    \* `row` of a running compact_report, or Idle

pageVars     == <<len, slotCol, data>>
registryVars == <<numSlots, generations, slotToRow, free, retiredCount>>
cellVars     == <<pageVars, live, pins, registryVars, pending, compactRow>>

Init ==
  /\ len          = [c \in Cells |-> 0]
  /\ slotCol      = [c \in Cells |-> [r \in Rows |-> 0]]
  /\ data         = [c \in Cells |-> [r \in Rows |-> ZeroValue]]
  /\ live         = [c \in Cells |-> {}]
  /\ pins         = [c \in Cells |-> {}]
  /\ numSlots     = [c \in Cells |-> 0]
  /\ generations  = [c \in Cells |-> [s \in Slots |-> 0]]
  /\ slotToRow    = [c \in Cells |-> [s \in Slots |-> NullRow]]
  /\ free         = [c \in Cells |-> << >>]
  /\ retiredCount = [c \in Cells |-> 0]
  /\ pending      = [c \in Cells |-> {}]
  /\ compactRow   = [c \in Cells |-> Idle]

------------------------------------------------------------------------------
\* HandleRegistry::is_live; row_of(h) is slotToRow[c][h.slot] when it holds.
IsLive(c, h) ==
  /\ h.gen # 0
  /\ h.slot < numSlots[c]
  /\ generations[c][h.slot] = h.gen
  /\ slotToRow[c][h.slot] # NullRow

RowOf(c, h) == slotToRow[c][h.slot]

\* HandleRegistry::allocate: reuse the slot freed last ...
ReuseSlot(c, row, slot) ==
  /\ free[c] # << >>
  /\ slot = Last(free[c])
  /\ free' = [free EXCEPT ![c] = Front(@)]
  /\ slotToRow' = [slotToRow EXCEPT ![c][slot] = row]
  /\ UNCHANGED <<numSlots, generations, retiredCount>>

\* ... else create one.  MaxSlots is the model's bound.
CreateSlot(c, row, slot) ==
  /\ free[c] = << >>
  /\ slot = numSlots[c]
  /\ slot < MaxSlots
  /\ numSlots' = [numSlots EXCEPT ![c] = slot + 1]
  /\ generations' = [generations EXCEPT ![c][slot] = 1]
  /\ slotToRow' = [slotToRow EXCEPT ![c][slot] = row]
  /\ UNCHANGED <<free, retiredCount>>

AllocateSlot(c, row, slot) ==
  \/ ReuseSlot(c, row, slot)
  \/ CreateSlot(c, row, slot)

\* The generation is not bumped: a stale handle resolves to the next element.
ReleaseSlotMutant(c, slot) ==
  /\ slotToRow' = [slotToRow EXCEPT ![c][slot] = NullRow]
  /\ free' = [free EXCEPT ![c] = Append(@, slot)]
  /\ UNCHANGED <<numSlots, generations, retiredCount>>

\* A spent slot is counted and pooled all the same.
ReleaseSlotPoolMutant(c, slot) ==
  /\ slotToRow'   = [slotToRow EXCEPT ![c][slot] = NullRow]
  /\ generations' = [generations EXCEPT ![c][slot] = @ + 1]
  /\ free'        = [free EXCEPT ![c] = Append(@, slot)]
  /\ retiredCount' = [retiredCount EXCEPT ![c] =
                        @ + IF generations[c][slot] + 1 = GenMax THEN 1 ELSE 0]
  /\ UNCHANGED numSlots

\* The common tail of HandleRegistry::free and ::commit_retire: unmap the
\* slot, bump its generation, and pool it unless the generation is spent.
ReleaseSlot(c, slot) ==
  LET next == generations[c][slot] + 1 IN
  /\ slotToRow'   = [slotToRow EXCEPT ![c][slot] = NullRow]
  /\ generations' = [generations EXCEPT ![c][slot] = next]
  /\ IF next = GenMax
       THEN /\ retiredCount' = [retiredCount EXCEPT ![c] = @ + 1]
            /\ UNCHANGED free
       ELSE /\ free' = [free EXCEPT ![c] = Append(@, slot)]
            /\ UNCHANGED retiredCount
  /\ UNCHANGED numSlots

------------------------------------------------------------------------------
\* A row is claimed one past the capacity.
AllocMutant(c) ==
  /\ compactRow[c] = Idle
  /\ len[c] <= Capacity
  /\ \E slot \in Slots :
       /\ AllocateSlot(c, len[c], slot)
       /\ slotCol' = [slotCol EXCEPT ![c][len[c]] = slot]
  /\ len'  = [len EXCEPT ![c] = @ + 1]
  /\ live' = [live EXCEPT ![c] = @ \union {len[c]}]
  /\ UNCHANGED <<data, pins, pending, compactRow>>

\* CellStorage::alloc.  The row keeps the bytes of its previous occupant.
Alloc(c) ==
  /\ compactRow[c] = Idle
  /\ len[c] < Capacity
  /\ \E slot \in Slots :
       /\ AllocateSlot(c, len[c], slot)
       /\ slotCol' = [slotCol EXCEPT ![c][len[c]] = slot]
  /\ len'  = [len EXCEPT ![c] = @ + 1]
  /\ live' = [live EXCEPT ![c] = @ \union {len[c]}]
  /\ UNCHANGED <<data, pins, pending, compactRow>>

\* A holder of a handle writes its element through user_column_mut.  The
\* handle of a pending row still resolves; the write paths refuse it
\* (scene_store.rs: is_row_pinned => return false).
Write(c, h, v) ==
  /\ compactRow[c] = Idle
  /\ IsLive(c, h)
  /\ RowOf(c, h) \notin pins[c]
  /\ data' = [data EXCEPT ![c][RowOf(c, h)] = v]
  /\ UNCHANGED <<len, slotCol, live, pins, registryVars, pending, compactRow>>

\* The pinned row of an in-flight retirement is freed immediately.
FreeMutant(c, h) ==
  /\ compactRow[c] = Idle
  /\ IsLive(c, h)
  /\ live' = [live EXCEPT ![c] = @ \ {RowOf(c, h)}]
  /\ ReleaseSlot(c, h.slot)
  /\ UNCHANGED <<pageVars, pins, pending, compactRow>>

\* CellStorage::free, immediate.  Its debug_assert forbids a pinned row.
Free(c, h) ==
  /\ compactRow[c] = Idle
  /\ IsLive(c, h)
  /\ RowOf(c, h) \notin pins[c]
  /\ live' = [live EXCEPT ![c] = @ \ {RowOf(c, h)}]
  /\ ReleaseSlot(c, h.slot)
  /\ UNCHANGED <<pageVars, pins, pending, compactRow>>

\* CellStorage::mark_pending_retire.
MarkPendingRetire(c, h) ==
  /\ compactRow[c] = Idle
  /\ IsLive(c, h)
  /\ RowOf(c, h) \notin pins[c]
  /\ live' = [live EXCEPT ![c] = @ \ {RowOf(c, h)}]
  /\ pins' = [pins EXCEPT ![c] = @ \union {RowOf(c, h)}]
  /\ pending' = [pending EXCEPT ![c] = @ \union
       {[slot |-> h.slot, row |-> RowOf(c, h), nextGen |-> h.gen + 1]}]
  /\ UNCHANGED <<pageVars, registryVars, compactRow>>

\* CellStorage::commit_retire.
CommitRetire(c, p) ==
  /\ compactRow[c] = Idle
  /\ pins' = [pins EXCEPT ![c] = @ \ {p.row}]
  /\ ReleaseSlot(c, p.slot)
  /\ pending' = [pending EXCEPT ![c] = @ \ {p}]
  /\ UNCHANGED <<pageVars, live, compactRow>>

------------------------------------------------------------------------------
\* compact_report, one loop iteration at a time.
\* Compaction looks at liveness only: it pops and fills pinned rows.
DeadMutant(c, r) == r \notin live[c]

Dead(c, r) == r \notin live[c] /\ r \notin pins[c]

LastRow(c) == len[c] - 1

CompactBegin(c) ==
  /\ compactRow[c] = Idle
  /\ compactRow' = [compactRow EXCEPT ![c] = 0]
  /\ UNCHANGED <<pageVars, live, pins, registryVars, pending>>

\* The cursor does not advance past a row that stays.
CompactSkipMutant(c) ==
  /\ compactRow[c] # Idle
  /\ compactRow[c] < len[c]
  /\ ~Dead(c, compactRow[c])
  /\ UNCHANGED cellVars

\* `while row < len` reaches a row that stays.
CompactSkip(c) ==
  /\ compactRow[c] # Idle
  /\ compactRow[c] < len[c]
  /\ ~Dead(c, compactRow[c])
  /\ compactRow' = [compactRow EXCEPT ![c] = @ + 1]
  /\ UNCHANGED <<pageVars, live, pins, registryVars, pending>>

\* The inner loop: trim dead, unpinned rows off the tail.
CompactTrim(c) ==
  /\ compactRow[c] # Idle
  /\ compactRow[c] < len[c]
  /\ Dead(c, compactRow[c])
  /\ len[c] > compactRow[c] + 1
  /\ Dead(c, LastRow(c))
  /\ len' = [len EXCEPT ![c] = @ - 1]
  /\ UNCHANGED <<slotCol, data, live, pins, registryVars, pending, compactRow>>

\* The loop is left before the tail hole is popped.
CompactDropHoleMutant(c) ==
  /\ compactRow[c] # Idle
  /\ Dead(c, compactRow[c])
  /\ len[c] = compactRow[c] + 1
  /\ compactRow' = [compactRow EXCEPT ![c] = Idle]
  /\ UNCHANGED <<pageVars, live, pins, registryVars, pending>>

\* The hole is the last row: drop it and return.
CompactDropHole(c) ==
  /\ compactRow[c] # Idle
  /\ Dead(c, compactRow[c])
  /\ len[c] = compactRow[c] + 1
  /\ len' = [len EXCEPT ![c] = @ - 1]
  /\ compactRow' = [compactRow EXCEPT ![c] = Idle]
  /\ UNCHANGED <<slotCol, data, live, pins, registryVars, pending>>

\* The tail is a pinned row: it can neither move nor be popped; return.
CompactPinnedTail(c) ==
  /\ compactRow[c] # Idle
  /\ len[c] > compactRow[c] + 1
  /\ Dead(c, compactRow[c])
  /\ LastRow(c) \in pins[c]
  /\ LastRow(c) \notin live[c]
  /\ compactRow' = [compactRow EXCEPT ![c] = Idle]
  /\ UNCHANGED <<pageVars, live, pins, registryVars, pending>>

\* swap_rows on every column.
SwapRows(col, a, b) == [col EXCEPT ![a] = col[b], ![b] = col[a]]

\* The moved element's slot is not redirected.
CompactMoveMutant(c) ==
  LET row == compactRow[c] IN
  /\ row # Idle
  /\ len[c] > row + 1
  /\ Dead(c, row)
  /\ LastRow(c) \in live[c]
  /\ slotCol' = [slotCol EXCEPT ![c] = SwapRows(@, row, LastRow(c))]
  /\ data'    = [data EXCEPT ![c] = SwapRows(@, row, LastRow(c))]
  /\ live' = [live EXCEPT ![c] = (@ \union {row}) \ {LastRow(c)}]
  /\ len'  = [len EXCEPT ![c] = @ - 1]
  /\ compactRow' = [compactRow EXCEPT ![c] = row + 1]
  /\ UNCHANGED <<pins, registryVars, pending>>

\* Move the last element into the hole and redirect its slot.
CompactMove(c) ==
  LET row == compactRow[c]
      moved == slotCol[c][LastRow(c)]
  IN
  /\ row # Idle
  /\ len[c] > row + 1
  /\ Dead(c, row)
  /\ LastRow(c) \in live[c]
  /\ slotCol' = [slotCol EXCEPT ![c] = SwapRows(@, row, LastRow(c))]
  /\ data'    = [data EXCEPT ![c] = SwapRows(@, row, LastRow(c))]
  /\ slotToRow' = [slotToRow EXCEPT ![c][moved] = row]
  /\ live' = [live EXCEPT ![c] = (@ \union {row}) \ {LastRow(c)}]
  /\ len'  = [len EXCEPT ![c] = @ - 1]
  /\ compactRow' = [compactRow EXCEPT ![c] = row + 1]
  /\ UNCHANGED <<pins, numSlots, generations, free, retiredCount, pending>>

\* `row < len` fails: return.
CompactEnd(c) ==
  /\ compactRow[c] # Idle
  /\ compactRow[c] >= len[c]
  /\ compactRow' = [compactRow EXCEPT ![c] = Idle]
  /\ UNCHANGED <<pageVars, live, pins, registryVars, pending>>

CompactStep(c) ==
  \/ CompactSkip(c)
  \/ CompactTrim(c)
  \/ CompactDropHole(c)
  \/ CompactPinnedTail(c)
  \/ CompactMove(c)
  \/ CompactEnd(c)

------------------------------------------------------------------------------
CellNext(c) ==
  \/ Alloc(c)
  \/ \E h \in Handle :
       \/ \E v \in Values : Write(c, h, v)
       \/ Free(c, h)
       \/ MarkPendingRetire(c, h)
  \/ \E p \in pending[c] : CommitRetire(c, p)
  \/ CompactBegin(c)
  \/ CompactStep(c)

Next == \E c \in Cells : CellNext(c)

Spec == Init /\ [][Next]_cellVars

\* compact_report is a call that runs to its end.
FairSpec == Spec /\ \A c \in Cells : WF_cellVars(CompactStep(c))

------------------------------------------------------------------------------
\* The shape of the state: page.rs, liveness.rs, registry.rs and cell.rs keep
\* their fields in these ranges, so no index computed from one is out of bounds.
TypeOK ==
  /\ len \in [Cells -> 0 .. Capacity]
  /\ slotCol \in [Cells -> [Rows -> Slots]]
  /\ data \in [Cells -> [Rows -> Values]]
  /\ live \in [Cells -> SUBSET Rows]
  /\ pins \in [Cells -> SUBSET Rows]
  /\ numSlots \in [Cells -> 0 .. MaxSlots]
  /\ generations \in [Cells -> [Slots -> 0 .. GenMax]]
  /\ slotToRow \in [Cells -> [Slots -> Rows \union {NullRow}]]
  /\ free \in [Cells -> Seq(Slots)]
  /\ retiredCount \in [Cells -> Nat]
  /\ pending \in [Cells -> SUBSET PendingRetire]
  /\ compactRow \in [Cells -> 0 .. Capacity \union {Idle}]

\* A row that holds an element and the slot that names it point at each other,
\* through every swap of a compaction and every reuse of a slot: the liveness
\* mask, the pin mask, the slot column and slot_to_row of cell.rs and
\* registry.rs never disagree, and no bit is set at or past the page's length.
Occupied(c) == live[c] \union pins[c]

RowsHaveSlots(c) ==
  /\ live[c] \intersect pins[c] = {}
  /\ \A r \in Occupied(c) : r < len[c] /\ slotToRow[c][slotCol[c][r]] = r

SlotsHaveRows(c) ==
  \A s \in Slots :
    slotToRow[c][s] # NullRow =>
      /\ slotToRow[c][s] \in Occupied(c)
      /\ slotCol[c][slotToRow[c][s]] = s
      /\ generations[c][s] \in 1 .. GenMax - 1

HandlesResolve == \A c \in Cells : RowsHaveSlots(c) /\ SlotsHaveRows(c)

\* A row is pinned exactly while one retirement of it is in flight, and when
\* that retirement is committed its slot still has the row and the generation
\* it was marked with ("generation drift between mark and commit", cell.rs).
InFlight(c) ==
  /\ \A p \in pending[c] :
       /\ p.row \in pins[c]
       /\ slotToRow[c][p.slot] = p.row
       /\ generations[c][p.slot] + 1 = p.nextGen
  /\ \A r \in pins[c] : \E p \in pending[c] : p.row = r

RetirementInFlight == \A c \in Cells : InFlight(c)

\* No slot is lost and none is pooled twice: a slot is mapped to a row, in the
\* free stack once, permanently retired at GenMax, or not yet created.
Unmapped(c, s) == slotToRow[c][s] = NullRow

FreeStackSound(c) ==
  /\ \A i, j \in 1 .. Len(free[c]) : free[c][i] = free[c][j] => i = j
  /\ \A s \in Slots :
       (\E i \in 1 .. Len(free[c]) : free[c][i] = s)
         <=> Unmapped(c, s) /\ generations[c][s] \in 1 .. GenMax - 1
  /\ \A s \in Slots : s < numSlots[c] <=> generations[c][s] > 0

\* retired_count counts the spent slots, and apart from these a registry never
\* creates more slots than the page has rows: what a slot region of
\* capacity + tombstone_headroom (scene_store.rs) relies on.
RetiredSlots(c) == {s \in Slots : generations[c][s] = GenMax}

SlotAccounting ==
  \A c \in Cells :
    /\ FreeStackSound(c)
    /\ retiredCount[c] = Cardinality(RetiredSlots(c))
    /\ numSlots[c] - retiredCount[c] <= Capacity

\* While a retirement is in flight the GPU may read the row: no operation, a
\* compaction around it included, moves it, overwrites it or pops it.
PinnedRowsStay ==
  [][\A c \in Cells : \A r \in pins[c] \intersect pins'[c] :
       /\ r < len'[c]
       /\ slotCol'[c][r] = slotCol[c][r]
       /\ data'[c][r] = data[c][r]]_cellVars

\* When compact_report returns, the rows are dense unless the page ends in a
\* pinned row ("a pinned tail stops the pop frontier", cell.rs).
HasHole(c) == \E r \in 0 .. len[c] - 1 : Dead(c, r)

Returns(c) == compactRow[c] # Idle /\ compactRow'[c] = Idle

CompactionCloses ==
  [][\A c \in Cells :
       Returns(c) => \/ ~HasHole(c)'
                     \/ len'[c] - 1 \in pins'[c]]_cellVars

\* compact_report returns: each iteration advances row or shrinks len.
CompactionReturns ==
  \A c \in Cells : compactRow[c] # Idle ~> compactRow[c] = Idle

==============================================================================
