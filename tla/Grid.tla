-------------------------------- MODULE Grid --------------------------------
(***************************************************************************)
(* The streaming grid (gpu/grid.rs): each tracked cell is Outer, Warm (its *)
(* data staged in system RAM), Margin or Inner (registered with the GPU    *)
(* store), and classify queues at most one step for each cell from where   *)
(* the observers are.  The queue is drained at the next boundary, when the *)
(* observers and the pins may have changed.                                *)
(*                                                                         *)
(* The plane is one integer line: both axes are treated alike and height   *)
(* is not looked at.  Cross-fade and its metadata buffer are left out.     *)
(* The store hands out regions and pins one it takes back until the frames *)
(* in flight are over (SceneGpuStore has the details); the engine's cache  *)
(* of staged cells is external.                                            *)
(***************************************************************************)
EXTENDS Integers, Sequences, SequencesExt, FiniteSets

CONSTANTS
  Coords,          \* cells that may be materialized: CellCoord.x
  Positions,       \* where the observer may stand
  CellWidth, MarginRadius, GridPad, GridHyst,      \* GridConfig
  WarmOn, WarmRadius, WarmPad, WarmHyst,           \* GridConfig.warm
  MaxWarm,         \* StreamingBudget.max_ram_cached_cells
  GridRegions,     \* regions of the store's class
  PinDomains,      \* domains the caller pins cells to
  NoGpuId

Domains == {"Outer", "Warm", "Margin", "Inner"}

\* StreamingGrid::new refuses a tier that is not beyond the margin.
ASSUME GridAssumption ==
  /\ IsFiniteSet(Coords) /\ Coords \subseteq Int /\ Positions \subseteq Int
  /\ {CellWidth, MarginRadius, GridPad, GridHyst} \subseteq Int
  /\ WarmOn \in BOOLEAN /\ {WarmRadius, WarmPad, WarmHyst} \subseteq Int
  /\ WarmOn => WarmRadius > MarginRadius
  /\ PinDomains \subseteq Domains
  /\ NoGpuId \notin GridRegions

VARIABLES
  domain,          \* GridCellState.domain, of the materialized cells
  pinned,          \* GridCellState.pinned_domain
  gpuId,           \* GridCellState.gpu_id
  transitions,     \* StreamingGrid.transitions
  warmCount,       \* StreamingGrid.warm_count
  observer,        \* where the observer is
  idle,            \* regions the store can give out
  retiring,        \* regions it has taken back and pinned
  cached,          \* external: cells the engine has staged
  heading          \* history: which way each cell was sent since anything changed

gridVars == <<domain, pinned, gpuId, transitions, warmCount, observer, idle,
              retiring, cached, heading>>
storeSide == <<gpuId, idle, retiring>>

Tracked == DOMAIN domain
Rank(d) == CASE d = "Outer" -> 0 [] d = "Warm" -> 1 [] d = "Margin" -> 2 [] d = "Inner" -> 3
GpuResident(d) == d \in {"Margin", "Inner"}
Follow == "concentric"
Still == [c \in Coords |-> {}]

---------------------------------------------------------------------------
(* The bands.  Touching counts.                                            *)

Within(c, radius) ==
  /\ c * CellWidth - radius <= observer
  /\ observer <= (c + 1) * CellWidth + radius

InnerPromote(c) == Within(c, GridPad)
InnerDemote(c) == ~Within(c, GridPad + GridHyst)
MarginPromote(c) == Within(c, MarginRadius + GridPad)

\* The pad is left out of the outer edge of the band.
MarginDemoteMutant(c) == ~Within(c, MarginRadius + GridHyst)

MarginDemote(c) == ~Within(c, MarginRadius + GridPad + GridHyst)
WarmPromote(c) == WarmOn /\ warmCount < MaxWarm /\ Within(c, WarmRadius + WarmPad)
WarmDemote(c) == ~WarmOn \/ ~Within(c, WarmRadius + WarmPad + WarmHyst)

\* The domain a cell should step to: its own when it holds.
Target(c) ==
  LET d == domain[c]
  IN CASE pinned[c] # Follow -> pinned[c]
       [] pinned[c] = Follow /\ d = "Outer" ->
            IF MarginPromote(c) THEN "Margin" ELSE IF WarmPromote(c) THEN "Warm" ELSE d
       [] pinned[c] = Follow /\ d = "Warm" ->
            IF WarmOn /\ MarginPromote(c) THEN "Margin"
            ELSE IF WarmDemote(c) THEN "Outer" ELSE d
       [] pinned[c] = Follow /\ d = "Margin" ->
            IF InnerPromote(c) THEN "Inner"
            ELSE IF ~MarginDemote(c) THEN d ELSE IF WarmOn THEN "Warm" ELSE "Outer"
       [] OTHER -> IF InnerDemote(c) THEN "Margin" ELSE d

Way(from, to) == IF Rank(to) > Rank(from) THEN "up" ELSE "down"

\* classify queues every step in the map's order, which is any order.
Classify ==
  LET moving == {c \in Tracked : Target(c) # domain[c]}
  IN /\ transitions = <<>>
     /\ \E order \in SetToSeqs(moving) :
          transitions' = [i \in DOMAIN order |->
            [coord |-> order[i], from |-> domain[order[i]], to |-> Target(order[i])]]
     /\ heading' = [c \in Coords |->
          IF c \in moving THEN heading[c] \cup {Way(domain[c], Target(c))} ELSE heading[c]]
     /\ UNCHANGED <<domain, pinned, storeSide, warmCount, observer, cached>>

---------------------------------------------------------------------------
(* execute_transitions_with_ram, one transition at a time: each commits,   *)
(* or is declined and leaves the cell to the next classify.                *)

Commit(t) ==
  /\ domain' = [domain EXCEPT ![t.coord] = t.to]
  /\ warmCount' = warmCount - (IF domain[t.coord] = "Warm" THEN 1 ELSE 0)
                            + (IF t.to = "Warm" THEN 1 ELSE 0)

Decline == UNCHANGED <<domain, warmCount>>

\* register_cell, which fails when the class has no region left.
Promote(t) ==
  /\ ~GpuResident(t.from) /\ GpuResident(t.to)
  /\ \/ /\ idle = {}
        /\ Decline /\ UNCHANGED storeSide
     \/ \E g \in idle :
          /\ idle' = idle \ {g}
          /\ gpuId' = [gpuId EXCEPT ![t.coord] = g]
          /\ Commit(t) /\ UNCHANGED retiring
  /\ UNCHANGED cached

\* unregister_cell: the region is pinned, and a staged copy is kept.
Demote(t) ==
  /\ GpuResident(t.from) /\ ~GpuResident(t.to)
  /\ retiring' = retiring \cup {gpuId[t.coord]}
  /\ gpuId' = [gpuId EXCEPT ![t.coord] = NoGpuId]
  /\ Commit(t)
  /\ UNCHANGED <<idle, cached>>

\* RamHooks::load, which may refuse.
WarmUp(t) ==
  /\ t.from = "Outer" /\ t.to = "Warm"
  /\ \/ cached' = cached \cup {t.coord} /\ Commit(t)
     \/ Decline /\ UNCHANGED cached
  /\ UNCHANGED storeSide

CoolDown(t) ==
  /\ t.from = "Warm" /\ t.to = "Outer"
  /\ cached' = cached \ {t.coord}
  /\ Commit(t)
  /\ UNCHANGED storeSide

Reflag(t) ==
  /\ GpuResident(t.from) /\ GpuResident(t.to)
  /\ Commit(t)
  /\ UNCHANGED <<storeSide, cached>>

Execute ==
  LET t == Head(transitions)
  IN /\ transitions # <<>>
     /\ transitions' = Tail(transitions)
     /\ IF domain[t.coord] # t.from
          THEN Decline /\ UNCHANGED <<storeSide, cached>>
          ELSE Promote(t) \/ Demote(t) \/ WarmUp(t) \/ CoolDown(t) \/ Reflag(t)
     /\ UNCHANGED <<pinned, observer, heading>>

---------------------------------------------------------------------------
(* What else happens between two boundaries.                               *)

Materialize(c) ==
  /\ c \notin Tracked
  /\ domain' = [x \in Tracked \cup {c} |-> IF x = c THEN "Outer" ELSE domain[x]]
  /\ UNCHANGED <<pinned, storeSide, transitions, warmCount, observer, cached, heading>>

Pin(c, d) ==
  /\ c \in Tracked /\ d # pinned[c]
  /\ pinned' = [pinned EXCEPT ![c] = d]
  /\ heading' = Still
  /\ UNCHANGED <<domain, storeSide, transitions, warmCount, observer, cached>>

Observe(p) ==
  /\ p # observer
  /\ observer' = p
  /\ heading' = Still
  /\ UNCHANGED <<domain, pinned, storeSide, transitions, warmCount, cached>>

\* The frames that could read a region are over.
RegionOver(g) ==
  /\ g \in retiring
  /\ retiring' = retiring \ {g} /\ idle' = idle \cup {g}
  /\ UNCHANGED <<domain, pinned, gpuId, transitions, warmCount, observer, cached, heading>>

---------------------------------------------------------------------------
GridInit ==
  /\ domain = [c \in {} |-> "Outer"]
  /\ pinned = [c \in Coords |-> Follow]
  /\ gpuId = [c \in Coords |-> NoGpuId]
  /\ transitions = <<>> /\ warmCount = 0
  /\ observer \in Positions
  /\ idle = GridRegions /\ retiring = {} /\ cached = {}
  /\ heading = Still

GridNext ==
  \/ Classify \/ Execute
  \/ \E c \in Coords : Materialize(c) \/ \E d \in PinDomains \cup {Follow} : Pin(c, d)
  \/ \E p \in Positions : Observe(p)
  \/ \E g \in GridRegions : RegionOver(g)

GridSpec == GridInit /\ [][GridNext]_gridVars

---------------------------------------------------------------------------
(* Properties.                                                             *)

\* A cell has a region exactly while it is GPU-resident, no region is two
\* cells', and none is lost: across declined promotions, pins that skip a
\* step, and steps that were queued for an observer who has since moved.
RegionsMatchDomains ==
  /\ \A c \in Coords : (gpuId[c] # NoGpuId) <=> c \in Tracked /\ GpuResident(domain[c])
  /\ \A c, d \in Coords : gpuId[c] # NoGpuId /\ gpuId[c] = gpuId[d] => c = d
  /\ \A g \in GridRegions : Cardinality({x \in {"idle", "retiring"} :
        g \in (IF x = "idle" THEN idle ELSE retiring)})
        + Cardinality({c \in Coords : gpuId[c] = g}) = 1

\* The count that commit_transition maintains and classify's cap reads.
WarmCounted == warmCount = Cardinality({c \in Tracked : domain[c] = "Warm"})

\* Hysteresis: while the observer and the pins stay as they are, no cell is
\* sent back the way it came, declined steps and the cap included.
NoThrash == \A c \in Coords : heading[c] # {"up", "down"}

GridExact == RegionsMatchDomains /\ WarmCounted /\ NoThrash

=============================================================================
