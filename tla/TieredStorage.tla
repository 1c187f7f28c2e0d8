---------------------------- MODULE TieredStorage ----------------------------
(***************************************************************************)
(* Tiered residency of pool payloads and fixed-size rows: the demand verbs *)
(* of SceneGpuStore, the intents they queue, and the flush that executes   *)
(* them (gpu/tier.rs, gpu/scene_store.rs), over one pool whose sidecar     *)
(* records live beside its free list (gpu/var_len_pool.rs).                *)
(*                                                                         *)
(* One thread flushes while others call the verbs and write.  A shard is   *)
(* locked from its drain to its last transition, so verbs on its targets   *)
(* wait; a transition is one step, although writers may take the pool's    *)
(* lock between two of its rank units.  Staging slots of the two arenas    *)
(* are part of the record that owns them, and a byte is a pool element.    *)
(***************************************************************************)
EXTENDS VarLenPool, FiniteSetsExt, SequencesExt, Vectors

CONSTANTS
  PoolOwners,   \* rows of the handle column that own a payload
  Payloads,       \* what an entity may write, <<>> included
  Rows,           \* rows of one mirrored column
  RowBytes,       \* its stride: a row is one unit at rank 0
  Segments,       \* the payload type's layout: a set of [offset, len, rank],
                  \* one for each rank; {} is the atomic default
  Spans,          \* the ranks callers name, 99 for all of them
  InitialCap,     \* the pool's first capacity
  VramBudget, RamBudget,
  MaxClock,       \* bound: stamps the clock hands out
  MaxPeek,        \* bound: the last stamp at which the reader peeks
  MaxFetches      \* bound: tickets opened

ASSUME TierAssumption ==
  /\ RowBytes \in Nat \ {0} /\ InitialCap \in Nat
  /\ VramBudget \in Nat /\ RamBudget \in Nat /\ Spans \subseteq Nat
  /\ MaxClock \in Nat /\ MaxPeek \in Nat /\ MaxFetches \in Nat
  /\ IsFiniteSet(PoolOwners) /\ IsFiniteSet(Rows)
  /\ \A data \in Payloads : Len(data) \in Nat /\ data = [i \in 1 .. Len(data) |-> data[i]]

VARIABLES
  pool,       \* the pool's record
  handleOf,   \* the handle column
  written,    \* history: the payload each entity wrote last
  recs,       \* PoolTierState::On.recs, by offset
  nextGen,    \* PoolTierState::On.next_generation
  rowTier,    \* RowTierTable
  vramUsed, clock, fetches,
  pending,    \* the intents of each shard
  flush,      \* the flushing thread
  reader      \* history: what one reader peeked, and the payload it saw

placed   == <<pool, recs, rowTier, vramUsed, fetches>>
tierVars == <<pool, handleOf, written, recs, nextGen, rowTier, vramUsed, clock,
              fetches, pending, flush, reader>>

Disk == 0
Ram == 1
Vram == 2
WholeSpan == 99   \* u32::MAX: every rank

SlotTarget(h) == [class |-> "slot", at |-> h.offset, count |-> h.count]
RowTarget(r) == [class |-> "row", at |-> r, count |-> 0]

\* The shard is a hash of the class and the place, never of the count.
ShardOf(target) == <<target.class, target.at>>
SlotShards == [i \in 1 .. PoolCeiling |-> <<"slot", i - 1>>]
Shards == SlotShards \o SetToSeq({<<"row", r>> : r \in Rows})
ShardSet == {Shards[i] : i \in DOMAIN Shards}

---------------------------------------------------------------------------
(* Flight plans (gpu/tier_layout.rs): the ranks of the layout, ascending,  *)
(* each clamped to the payload and skipped when nothing is left of it.     *)

Clamp(x, n) == IF x < n THEN x ELSE n

UnitsOfLayout(n) ==
  LET unit(s) == [rank |-> s.rank, off |-> Clamp(s.offset, n),
                  bytes |-> Clamp(s.offset + s.len, n) - Clamp(s.offset, n)]
  IN {u \in {unit(s) : s \in Segments} : u.bytes > 0}

UnitsOfPayload(n) ==
  IF Segments = {} THEN {[rank |-> 0, off |-> 0, bytes |-> n]} ELSE UnitsOfLayout(n)

\* A rank stands for one segment here, and every unit is a whole number of
\* 4-byte words: the code asserts it before it uploads one.
ASSUME LayoutAssumption ==
  /\ IsFiniteSet(Segments) /\ Segments \subseteq [offset : Nat, len : Nat, rank : Nat]
  /\ \A s, v \in Segments : s.rank = v.rank => s = v
  /\ \A data \in Payloads : \A u \in UnitsOfPayload(Len(data)) : PaddedLen(u.bytes) = u.bytes

ByRank(U) ==
  [i \in 1 .. Cardinality(U) |->
     CHOOSE u \in U : Cardinality({w \in U : w.rank <= u.rank}) = i]

ExecutionPlan(n) == ByRank(UnitsOfPayload(n))

\* How many units of a plan a span asks for: ranks ascend, so those are the first.
Asked(plan, through) == Cardinality({i \in DOMAIN plan : plan[i].rank <= through})

---------------------------------------------------------------------------
(* What a flush moves, bundled: operators below take and return it.        *)

Bundle == [pool |-> pool, recs |-> recs, rows |-> rowTier, vram |-> vramUsed,
           fetches |-> fetches, grown |-> TRUE]

Live(t, target) ==
  IF target.class = "row" THEN t.rows[target.at].present
  ELSE target.at \in DOMAIN t.recs /\ t.recs[target.at].count = target.count

\* What is in VRAM: units of slots and of rows, each with its place.
ResidentsOf(class, f) == UNION {{<<class, x, u>> : u \in f[x].units} : x \in DOMAIN f}
Residents(t) == ResidentsOf("slot", t.recs) \cup ResidentsOf("row", t.rows)
VramBytes(S) == SumOver([x \in S |-> x[3].len], S)

UnitsIn(S, class, at) == {x[3] : x \in {y \in S : y[1] = class /\ y[2] = at}}

\* The pool without the ranges of some units; the order they are given back in
\* does not matter to what is left.
WithoutRanges(p, units) ==
  LET s == SetToSeq(units)
      after[i \in 0 .. Len(s)] ==
        IF i = 0 THEN p
        ELSE Release(after[i - 1], [offset |-> s[i].off, count |-> s[i].len])
  IN after[Len(s)]

Diminished(state, units) ==
  [state EXCEPT !.units = @ \ units, !.generation = @ + Cardinality(units),
                !.tier = IF units # {} /\ units = state.units THEN Ram ELSE @]

\* withdraw_top_unit, and its like for rows, for every resident of S.
Withdraw(t, S) ==
  [t EXCEPT !.pool = WithoutRanges(@, {x[3] : x \in {y \in S : y[1] = "slot"}}),
            !.recs = [o \in DOMAIN @ |-> Diminished(@[o], UnitsIn(S, "slot", o))],
            !.rows = [r \in DOMAIN @ |-> Diminished(@[r], UnitsIn(S, "row", r))],
            !.vram = @ - VramBytes(S)]

WithdrawUnits(t, off, U) == Withdraw(t, {<<"slot", off, u>> : u \in U})
WithdrawRow(t, r) == Withdraw(t, {<<"row", r, u>> : u \in t.rows[r].units})

SpillSlot(t, off) ==
  LET rec == t.recs[off]
  IN IF rec.spilled THEN t
     ELSE [t EXCEPT !.recs[off] =
             [rec EXCEPT !.spilled = TRUE, !.tier = Disk, !.generation = @ + 1]]

UnspillSlot(t, off) ==
  IF ~t.recs[off].spilled THEN t
  ELSE [t EXCEPT !.recs[off] = [@ EXCEPT !.spilled = FALSE, !.tier = Ram]]

MarkReady(t, target) ==
  [t EXCEPT !.fetches =
    [i \in DOMAIN @ |-> IF @[i].target = target /\ @[i].state = "queued"
                          THEN [@[i] EXCEPT !.state = "ready"] ELSE @[i]]]

---------------------------------------------------------------------------
(* Eviction: the least recently demanded residents, of the pool and of the *)
(* rows, until enough is free.                                             *)

LastUse(t, place) ==
  IF place[1] = "row" THEN t.rows[place[2]].lastUse ELSE t.recs[place[2]].lastUse

Candidates(t, target) == {<<x[1], x[2]>> : x \in Residents(t)} \ {ShardOf(target)}

ResidentsAt(t, places) == {x \in Residents(t) : <<x[1], x[2]>> \in places}

\* Those before which not enough was freed.
Evicted(t, needed, target) ==
  {c \in Candidates(t, target) :
     VramBytes(ResidentsAt(t, {d \in Candidates(t, target) : LastUse(t, d) < LastUse(t, c)})) < needed}

EvacuateLru(t, needed, target) == Withdraw(t, ResidentsAt(t, Evicted(t, needed, target)))

---------------------------------------------------------------------------
(* Promotion of a pool slot, one rank unit after another: each is admitted *)
(* against the budget, given a range of the same pool and filled from the  *)
(* staged payload; a declined unit ends the flight.                        *)

\* The code takes growth of the pool for granted and unwinds where it fails.
AdmitUnit(t, off, u) ==
  LET rec == t.recs[off]
      w == WriteVarRow(t.pool, NoHandleRange, SubSeq(rec.data, u.off + 1, u.off + u.bytes))
      range == [rank |-> u.rank, off |-> w.handle.offset, len |-> PaddedLen(u.bytes)]
  IN IF ~Reservable(t.pool, PaddedLen(u.bytes)) THEN [t EXCEPT !.grown = FALSE]
     ELSE [t EXCEPT !.pool = w.pool, !.vram = @ + u.bytes,
                    !.recs[off] = [rec EXCEPT !.units = @ \cup {range}, !.tier = Vram]]

\* try_reserve_vram, and once more when eviction freed as much as was needed.
MakeRoom(t, needed, target) ==
  IF t.vram + needed <= VramBudget THEN t ELSE EvacuateLru(t, needed, target)

\* The budget is not looked at again after eviction.
AdmissibleMutant(t, roomy, needed) == TRUE

Admissible(t, roomy, needed) ==
  \/ t.vram + needed <= VramBudget
  \/ t.vram - roomy.vram >= needed /\ roomy.vram + needed <= VramBudget

\* One unit of a flight, with what eviction made of the state.
Admitted(flight, off, u, target) ==
  LET roomy == MakeRoom(flight.t, u.bytes, target)
  IN IF flight.declined THEN flight
     ELSE IF ~Admissible(flight.t, roomy, u.bytes) THEN [t |-> roomy, declined |-> TRUE]
     ELSE LET up == AdmitUnit(roomy, off, u) IN [t |-> up, declined |-> ~up.grown]

\* A unit that is declined is skipped and the next one tried.
FlightPromoteMutant(t, off, through, target) ==
  LET from == UnspillSlot(t, off)
      plan == ExecutionPlan(from.recs[off].count)
      resident == Cardinality(from.recs[off].units)
      asked == Asked(plan, through)
      after[i \in resident .. asked] ==
        IF i = resident THEN from
        ELSE Admitted([t |-> after[i - 1], declined |-> FALSE], off, plan[i], target).t
  IN IF asked <= resident THEN from ELSE after[asked]

FlightPromote(t, off, through, target) ==
  LET from == UnspillSlot(t, off)
      plan == ExecutionPlan(from.recs[off].count)
      resident == Cardinality(from.recs[off].units)
      asked == Asked(plan, through)
      after[i \in resident .. asked] ==
        IF i = resident THEN [t |-> from, declined |-> FALSE]
        ELSE Admitted(after[i - 1], off, plan[i], target)
  IN IF asked <= resident THEN from ELSE after[asked].t

---------------------------------------------------------------------------
(* The transitions of a pool slot.  A climb flies once more when it gained *)
(* a rung and is not there yet.                                            *)

AfterFlight(t, once, off, tier, through, target) ==
  IF once.recs[off].tier > t.recs[off].tier /\ once.recs[off].tier < tier
    THEN FlightPromote(once, off, through, target)
  ELSE once

Climb(t, off, tier, through, target) ==
  IF t.recs[off].tier >= tier THEN t
  ELSE AfterFlight(t, FlightPromote(t, off, through, target), off, tier, through, target)

Withdrawn(t, off, tier) ==
  IF t.recs[off].tier = Vram /\ tier < Vram
    THEN WithdrawUnits(t, off, t.recs[off].units) ELSE t

Spilled(t, off, tier) ==
  IF t.recs[off].tier = Ram /\ tier = Disk THEN SpillSlot(t, off) ELSE t

Descend(t, off, tier) == Spilled(Withdrawn(t, off, tier), off, tier)

ExecutePool(t, target, kind) ==
  LET off == target.at
  IN CASE kind.op = "SetTo" ->
            Descend(Climb(t, off, kind.tier, kind.through, target), off, kind.tier)
       [] kind.op = "Demote" ->
            WithdrawUnits(t, off, {u \in t.recs[off].units : u.rank > kind.through})
       [] kind.op = "Unspill" -> MarkReady(UnspillSlot(t, off), target)

---------------------------------------------------------------------------
(* The transitions of a row, whose payload is its shadow.  A promotion     *)
(* holds the column's table lock while it evicts, and eviction takes the   *)
(* lock of every table: it never returns.                                  *)

RowUnit == [rank |-> 0, off |-> 0, len |-> RowBytes]

UnspillRow(t, target) ==
  LET r == target.at
  IN MarkReady(IF t.rows[r].spilled
                 THEN [t EXCEPT !.rows[r] = [@ EXCEPT !.spilled = FALSE, !.tier = Ram]]
                 ELSE t,
               target)

PromoteRow(t, r) ==
  [t EXCEPT !.vram = @ + RowBytes,
            !.rows[r] = [@ EXCEPT !.units = {RowUnit}, !.tier = Vram]]

SpillRow(t, r) ==
  LET row == t.rows[r]
  IN [t EXCEPT !.rows[r] = [row EXCEPT !.spilled = TRUE, !.tier = Disk, !.generation = @ + 1]]

ClimbRow(t, target) ==
  PromoteRow(IF t.rows[target.at].tier = Disk THEN UnspillRow(t, target) ELSE t,
             target.at)

ExecuteRow(t, target, kind) ==
  LET r == target.at
      live == t.rows[r].tier
      down(u) == IF kind.tier = Disk THEN SpillRow(WithdrawRow(u, r), r)
                 ELSE WithdrawRow(u, r)
  IN CASE kind.op = "Unspill" -> UnspillRow(t, target)
       [] kind.op = "Demote" -> t   \* above a rank: a row has only rank 0
       [] kind.op = "SetTo" ->
            IF live = kind.tier THEN t
            ELSE IF live > kind.tier THEN down(t)
            ELSE IF kind.tier = Ram THEN WithdrawRow(ClimbRow(t, target), r)
            ELSE ClimbRow(t, target)

\* The transition has a row's unit to admit and no room for it.
WaitsForItself(t, target, kind) ==
  /\ target.class = "row" /\ kind.op = "SetTo"
  /\ t.rows[target.at].tier < kind.tier
  /\ t.vram + RowBytes > VramBudget

---------------------------------------------------------------------------
(* Intents.  A verb waits for the shard of its target, which a flush holds *)
(* while it executes that shard's batch, and a row verb for the table.     *)

NoReader == [offset |-> 0, count |-> 0, generation |-> 0, data |-> <<>>]

ShardFree(target) == flush.shard # ShardOf(target)
TableFree == flush.pc # "hung"

Intent(target, kind, seq) == [target |-> target, kind |-> kind, seq |-> seq]
SetTo(tier, through) == [op |-> "SetTo", tier |-> tier, through |-> through]
DemoteAbove(rank) == [op |-> "Demote", tier |-> Ram, through |-> rank]
Unspill == [op |-> "Unspill", tier |-> Ram, through |-> WholeSpan]

Queue(intent) ==
  pending' = [pending EXCEPT ![ShardOf(intent.target)] = Append(@, intent)]

\* stamp and tick: last uses are compared with last uses and sequence numbers
\* with sequence numbers, so one draw serves a verb that takes both.
Tick == clock < MaxClock /\ clock' = clock + 1

\* Selectors a caller may hold: an entity's handle now, or one it peeked.
Held == {SlotTarget(handleOf[e]) : e \in {x \in PoolOwners : handleOf[x].count > 0}}
        \cup (IF reader.count > 0 THEN {SlotTarget(reader)} ELSE {})

\* touch_tier: demand is never downwards, and is stamped at once.
TouchSlot(target, through, tier) ==
  /\ ShardFree(target) /\ Live(Bundle, target)
  /\ recs' = [recs EXCEPT ![target.at].lastUse = clock]
  /\ LET now == recs[target.at].tier
         effective == IF tier > now THEN tier ELSE now
     IN Queue(Intent(target, SetTo(effective, through), clock))
  /\ Tick
  /\ UNCHANGED <<pool, handleOf, written, nextGen, rowTier, vramUsed, fetches,
                 flush, reader>>

TouchRow(r, tier) ==
  /\ ShardFree(RowTarget(r)) /\ TableFree
  /\ rowTier' = [rowTier EXCEPT ![r] = [@ EXCEPT !.present = TRUE, !.lastUse = clock]]
  /\ LET now == rowTier[r].tier
         effective == IF tier > now THEN tier ELSE now
     IN Queue(Intent(RowTarget(r), SetTo(effective, WholeSpan), clock))
  /\ Tick
  /\ UNCHANGED <<pool, handleOf, written, recs, nextGen, vramUsed, fetches,
                 flush, reader>>

\* The tier the newest queued intent of a target sets, when it sets one.
PendingTier(target) ==
  LET queue == pending[ShardOf(target)]
      mine == {i \in DOMAIN queue : queue[i].target = target}
  IN {queue[i].kind.tier : i \in {j \in mine : queue[j].kind.op = "SetTo"
                                               /\ \A k \in mine : k <= j}}

\* release_tier: one rung down, or withdraw the touch that is still queued.
ReleaseKind(target, committed, through) ==
  LET queued == PendingTier(target)
  IN IF through # WholeSpan
       THEN IF committed = Vram \/ Vram \in queued THEN {DemoteAbove(through)} ELSE {}
     ELSE IF committed # Disk THEN {SetTo(committed - 1, WholeSpan)}
     ELSE IF \E t \in queued : t > committed THEN {SetTo(committed, WholeSpan)}
     ELSE {}

TierNow(target) ==
  IF target.class = "row" THEN rowTier[target.at].tier ELSE recs[target.at].tier

ReleaseTier(target, through) ==
  /\ ShardFree(target) /\ Live(Bundle, target)
  /\ target.class = "row" => TableFree
  /\ \E kind \in ReleaseKind(target, TierNow(target), through) :
       Queue(Intent(target, kind, clock))
  /\ Tick
  /\ UNCHANGED <<placed, handleOf, written, nextGen, flush, reader>>

\* tier_peek of a resident payload: the reader keeps its generation.  The model
\* follows one peek.
PeekResident(target) ==
  /\ reader = NoReader /\ clock <= MaxPeek
  /\ target.class = "slot" /\ Live(Bundle, target) /\ TierNow(target) # Disk
  /\ reader' = [offset |-> target.at, count |-> target.count,
                generation |-> recs[target.at].generation,
                data |-> recs[target.at].data]
  /\ UNCHANGED <<placed, handleOf, written, nextGen, clock, pending, flush>>

\* tier_peek of a spilled one: a fetch is opened and the un-spill queued.
PeekSpilled(target) ==
  /\ ShardFree(target) /\ Live(Bundle, target) /\ TierNow(target) = Disk
  /\ target.class = "row" => TableFree
  /\ Len(fetches) < MaxFetches
  /\ fetches' = Append(fetches, [target |-> target, state |-> "queued"])
  /\ Queue(Intent(target, Unspill, clock))
  /\ Tick
  /\ UNCHANGED <<pool, handleOf, written, recs, nextGen, rowTier, vramUsed,
                 flush, reader>>

\* complete_tier_fetch: the ready slot is consumed whatever the read answers.
CompleteFetch(i) ==
  /\ fetches[i].state = "ready"
  /\ fetches[i].target.class = "row" => TableFree
  /\ fetches' = [fetches EXCEPT ![i].state = "consumed"]
  /\ UNCHANGED <<pool, handleOf, written, recs, nextGen, rowTier, vramUsed, clock,
                 pending, flush, reader>>

---------------------------------------------------------------------------
(* Writes.  The sidecar follows the free list: a rewritten or freed        *)
(* payload's record goes, with whatever it still holds in VRAM.            *)

RecordsWithout(f, x) == [y \in DOMAIN f \ {x} |-> f[y]]

\* tier_detach_for_reuse, and restage_ram into the detached box if it fits.
BoxFor(prev, n) ==
  LET kept == prev.count > 0 /\ prev.offset \in DOMAIN recs
              /\ ~recs[prev.offset].spilled /\ recs[prev.offset].box >= n
  IN IF kept THEN recs[prev.offset].box ELSE n

FreshRecord(data, box) ==
  [count |-> Len(data), generation |-> nextGen, lastUse |-> clock, lastSeq |-> 0,
   tier |-> Ram, data |-> data, box |-> box, spilled |-> FALSE, units |-> {}]

WritePayload(e, data) ==
  LET prev == handleOf[e]
      w == WriteVarRow(pool, prev, data)
      left == IF prev.count > 0 THEN RecordsWithout(recs, prev.offset) ELSE recs
      new == FreshRecord(data, BoxFor(prev, Len(data)))
  IN /\ data # <<>> /\ Writable(pool, prev, data)
     /\ pool' = w.pool
     /\ handleOf' = [handleOf EXCEPT ![e] = w.handle]
     /\ written' = [written EXCEPT ![e] = data]
     /\ recs' = [o \in DOMAIN left \cup {w.handle.offset} |->
                   IF o = w.handle.offset THEN new ELSE left[o]]
     /\ nextGen' = nextGen + 1
     /\ Tick
     /\ UNCHANGED <<rowTier, vramUsed, fetches, pending, flush, reader>>

\* An empty payload: the record at the previous offset is dropped, and a row
\* that was never written names offset 0.
WriteEmpty(e) ==
  LET prev == handleOf[e]
  IN /\ pool' = WriteVarRow(pool, prev, <<>>).pool
     /\ handleOf' = [handleOf EXCEPT ![e] = NoHandleRange]
     /\ written' = [written EXCEPT ![e] = <<>>]
     /\ recs' = RecordsWithout(recs, prev.offset)
     /\ UNCHANGED <<nextGen, rowTier, vramUsed, clock, fetches, pending, flush, reader>>

\* free_handle: the despawn hook.
FreePayload(e) ==
  /\ handleOf[e].count > 0
  /\ pool' = Release(pool, handleOf[e])
  /\ handleOf' = [handleOf EXCEPT ![e] = NoHandleRange]
  /\ written' = [written EXCEPT ![e] = <<>>]
  /\ recs' = RecordsWithout(recs, handleOf[e].offset)
  /\ UNCHANGED <<nextGen, rowTier, vramUsed, clock, fetches, pending, flush, reader>>

\* write_at_offset: in place, and past the sidecar.
OverwritePayload(e, data) ==
  /\ handleOf[e].count > 0 /\ Len(data) = handleOf[e].count
  /\ pool' = WritePadded(pool, handleOf[e].offset, data)
  /\ written' = [written EXCEPT ![e] = data]
  /\ UNCHANGED <<handleOf, recs, nextGen, rowTier, vramUsed, clock, fetches,
                 pending, flush, reader>>

---------------------------------------------------------------------------
(* The flush: shards in order, each drained and executed under its lock;   *)
(* the intents of one target keep their order and carry its newest stamp,  *)
(* which each executed kind must claim.                                    *)

NoShard == <<"none", 0>>
AtRest == [pc |-> "idle", next |-> 1, shard |-> NoShard, work |-> <<>>, group |-> <<>>]

\* fold_kinds: intents that all name a tier fold to the last one.
FoldKinds(intents) ==
  IF \A i \in DOMAIN intents : intents[i].kind.op = "SetTo"
    THEN <<Last(intents)>> ELSE intents

\* The intents of a batch whose target is the first one's, and the others.
Fellows(batch) == {i \in DOMAIN batch : batch[i].target = batch[1].target}

Claimed(group) ==
  [i \in DOMAIN FoldKinds(group) |-> [FoldKinds(group)[i] EXCEPT !.seq = Last(group).seq]]

\* What is left of the target's intents, or the next target's.
Group == IF flush.group # <<>> THEN flush.group
         ELSE Claimed(Retained(flush.work, Fellows(flush.work)))
RestOfWork == IF flush.group # <<>> THEN flush.work
              ELSE Retained(flush.work, DOMAIN flush.work \ Fellows(flush.work))

Drained == flush.work = <<>> /\ flush.group = <<>>
NonEmptyFrom(n) == {i \in n .. Len(Shards) : pending[Shards[i]] # <<>>}

\* The next shard that holds something; a flush starts with the first.
DrainShard ==
  /\ flush.pc \in {"idle", "shards"} /\ Drained
  /\ \E n \in NonEmptyFrom(flush.next) :
       /\ \A m \in NonEmptyFrom(flush.next) : n <= m
       /\ flush' = [pc |-> "shards", next |-> n + 1, shard |-> Shards[n],
                    work |-> pending[Shards[n]], group |-> <<>>]
       /\ pending' = [pending EXCEPT ![Shards[n]] = <<>>]
  /\ UNCHANGED <<placed, handleOf, written, nextGen, clock, reader>>

LastSeq(t, target) ==
  IF target.class = "row" THEN t.rows[target.at].lastSeq ELSE t.recs[target.at].lastSeq

Claim(t, target, seq) ==
  IF target.class = "row" THEN [t EXCEPT !.rows[target.at].lastSeq = seq]
  ELSE [t EXCEPT !.recs[target.at].lastSeq = seq]

\* One drained intent: cancelled when its target died or changed its count, or
\* when a kind of the same or a newer stamp ran; else claimed and executed.
Cancelled(t, intent) ==
  ~Live(t, intent.target) \/ intent.seq <= LastSeq(t, intent.target)

Executed(t, intent) ==
  LET target == intent.target
      c == Claim(t, target, intent.seq)
  IN IF Cancelled(t, intent) THEN t
     ELSE IF target.class = "row" THEN ExecuteRow(c, target, intent.kind)
     ELSE ExecutePool(c, target, intent.kind)

Hangs(t, intent) ==
  ~Cancelled(t, intent) /\ WaitsForItself(t, intent.target, intent.kind)

AfterIntent(t, intent) ==
  IF ~Hangs(t, intent) THEN Executed(t, intent)
  ELSE IF t.rows[intent.target.at].tier = Disk
    THEN UnspillRow(Claim(t, intent.target, intent.seq), intent.target)
  ELSE Claim(t, intent.target, intent.seq)

TakenFrom(t) ==
  /\ pool' = t.pool /\ recs' = t.recs /\ rowTier' = t.rows
  /\ vramUsed' = t.vram /\ fetches' = t.fetches

ExecuteIntent ==
  /\ flush.pc = "shards" /\ ~Drained
  /\ LET after == AfterIntent(Bundle, Head(Group))
         done == RestOfWork = <<>> /\ Tail(Group) = <<>>
     IN /\ after.grown /\ TakenFrom(after)
        /\ flush' = IF Hangs(Bundle, Head(Group)) THEN [flush EXCEPT !.pc = "hung"]
                    ELSE [flush EXCEPT !.work = RestOfWork, !.group = Tail(Group),
                                       !.shard = IF done THEN NoShard ELSE @]
  /\ UNCHANGED <<handleOf, written, nextGen, clock, pending, reader>>

---------------------------------------------------------------------------
(* reconcile_ram_pressure: the least recently demanded staging outside     *)
(* VRAM goes to disk until the arena fits its budget or none is left.      *)

StagedBoxes == {o \in DOMAIN recs : ~recs[o].spilled}
RamUsed == SumOver([o \in StagedBoxes |-> recs[o].box], StagedBoxes)

StagingCandidates == {o \in StagedBoxes : recs[o].units = {}}
OverBudget == RamUsed > RamBudget /\ StagingCandidates # {}

\* The last shard is done.
ShardsDone ==
  flush.pc = "shards" /\ Drained /\ NonEmptyFrom(flush.next) = {}

SpillOldest ==
  /\ ShardsDone \/ flush.pc = "reconcile"
  /\ OverBudget
  /\ \E oldest \in StagingCandidates :
       /\ \A o \in StagingCandidates : recs[oldest].lastUse <= recs[o].lastUse
       /\ recs' = SpillSlot(Bundle, oldest).recs
  /\ flush' = [AtRest EXCEPT !.pc = "reconcile"]
  /\ UNCHANGED <<pool, handleOf, written, nextGen, rowTier, vramUsed, clock, fetches,
                 pending, reader>>

EndFlush ==
  /\ ShardsDone \/ flush.pc = "reconcile"
  /\ ~OverBudget
  /\ flush' = AtRest
  /\ UNCHANGED <<placed, handleOf, written, nextGen, clock, pending, reader>>

---------------------------------------------------------------------------
UntouchedRow ==
  [present |-> FALSE, tier |-> Ram, generation |-> 0, lastUse |-> 0, lastSeq |-> 0,
   units |-> {}, spilled |-> FALSE]

TierInit ==
  /\ pool = NewPool(InitialCap)
  /\ handleOf = [e \in PoolOwners |-> NoHandleRange]
  /\ written = [e \in PoolOwners |-> <<>>]
  /\ recs = [o \in {} |-> NoReader] /\ nextGen = 0
  /\ rowTier = [r \in Rows |-> UntouchedRow]
  /\ vramUsed = 0 /\ clock = 1 /\ fetches = <<>>
  /\ pending = [s \in ShardSet |-> <<>>]
  /\ flush = AtRest /\ reader = NoReader

Flusher == DrainShard \/ ExecuteIntent \/ SpillOldest \/ EndFlush

TierNext ==
  \/ \E e \in PoolOwners, data \in Payloads : WritePayload(e, data)
  \/ \E e \in PoolOwners, data \in Payloads : OverwritePayload(e, data)
  \/ \E e \in PoolOwners : WriteEmpty(e)
  \/ \E e \in PoolOwners : FreePayload(e)
  \/ \E target \in Held, through \in Spans, tier \in {Ram, Vram} :
       TouchSlot(target, through, tier)
  \/ \E r \in Rows, tier \in {Ram, Vram} : TouchRow(r, tier)
  \/ \E target \in Held, through \in Spans : ReleaseTier(target, through)
  \/ \E r \in Rows, through \in Spans : ReleaseTier(RowTarget(r), through)
  \/ \E target \in Held : PeekResident(target)
  \/ \E target \in Held \cup {RowTarget(r) : r \in Rows} : PeekSpilled(target)
  \/ \E i \in DOMAIN fetches : CompleteFetch(i)
  \/ Flusher

TierSpec == TierInit /\ [][TierNext]_tierVars

---------------------------------------------------------------------------
(* Properties.                                                             *)

\* What a unit's range must hold: its slice of the staged payload.
UnitData(rec, u) ==
  LET plan == ExecutionPlan(rec.count)
      step == CHOOSE i \in DOMAIN plan : plan[i].rank = u.rank
  IN SubSeq(rec.data, plan[step].off + 1, plan[step].off + plan[step].bytes)

\* Every handle reads back what its entity wrote last, and every resident unit
\* its slice of the staged payload, whatever the pool did since: growth, reuse
\* of freed ranges, promotion and eviction share one free list.
ContentsSurvive ==
  /\ \A e \in PoolOwners :
       handleOf[e].count > 0 => ReadRange(pool, handleOf[e]) = written[e]
  /\ \A o \in DOMAIN recs : \A u \in recs[o].units :
       LET data == UnitData(recs[o], u)
       IN ReadRange(pool, [offset |-> u.off, count |-> Len(data)]) = data

\* Residency is a prefix of the plan, and the tier names where the bytes are:
\* Vram when a unit is resident, Disk when the staging was exported.
PrefixComplete ==
  \A o \in DOMAIN recs :
    LET rec == recs[o]
        plan == ExecutionPlan(rec.count)
    IN /\ \E k \in 0 .. Len(plan) :
            {u.rank : u \in rec.units} = {plan[i].rank : i \in 1 .. k}
       /\ rec.tier = Vram <=> rec.units # {}
       /\ rec.tier = Disk <=> rec.spilled

\* The account of VRAM covers what is placed and stays within the budget.
VramWithinBudget ==
  /\ vramUsed <= VramBudget
  /\ vramUsed >= VramBytes(Residents(Bundle))

\* The flushing thread never waits for a lock it holds (gpu/tier.rs,
\* "Concurrency shape": every lock is a leaf, so there is no deadlock to reason
\* about).
NoSelfDeadlock == flush.pc # "hung"

=============================================================================
