------------------------------- MODULE Harvest -------------------------------
(***************************************************************************)
(* simd.rs, spatial.rs, snapshot.rs, gpu/harvest.rs and gpu/view_upload.rs:  *)
(* the queries over a cell's bounds columns and what a frame makes of them. *)
(*                                                                         *)
(* A query scans the rows in blocks of Lanes rows, masks each block with a  *)
(* window of one liveness word, and does the rest row by row.  Lanes is 1   *)
(* in the scalar reference, 4 with NEON and 8 with AVX2.  The tokens of a   *)
(* cell are compacted into the view's staging arrays and uploaded.          *)
(*                                                                         *)
(* Cells mutate in the simulate phase and compact at the boundary after it; *)
(* they are read-only while they are harvested.  A holder of a revoked      *)
(* lease keeps the words it captured and revalidates what it found.         *)
(***************************************************************************)
EXTENDS Integers, SequencesExt, FiniteSetsExt, TLC, Vectors

CONSTANTS
  WordBits,      \* rows of a liveness word (64 in the code)
  LaneCounts,    \* the backends, by their lanes
  NaNum,         \* a float that compares false with all others
  Dims,          \* the axes of space (3 in the code)
  RowKinds,      \* [box, gen]: bounds [min, max : [Axes -> Floats]],
                 \* and the generation the registry has for the row's slot
  Views,         \* queries: [kind |-> "aabb", min, max], [kind |-> "frustum", planes]
  HarvestCells,
  RegionBase,    \* [HarvestCells -> first global row of its region]
  MaxRows,       \* bound: [HarvestCells -> rows]
  StagedColumns, \* pairs of columns a view uploads
  MaxViewEpoch   \* bound: reallocations of a view's buffers

Axes == 1 .. Dims
Floats == Int \union {NaNum}

ASSUME HarvestAssumption ==
  /\ Dims \in Nat /\ NaNum \notin Int /\ WordBits \in Nat \ {0}
  /\ \A l \in LaneCounts : l \in Nat \ {0} /\ (WordBits % l) = 0
  /\ \A kind \in RowKinds : kind.box \in [min : [Axes -> Floats], max : [Axes -> Floats]]
  /\ \A view \in Views :
       \/ view.kind = "aabb"
       \/ /\ view.kind = "frustum"
          /\ \A p \in view.planes : p \in [n : [Axes -> Floats], d : Floats]
  /\ \A staged \in StagedColumns : /\ staged \in [tokens : Seq(Int), gens : Seq(Int)]
                                   /\ Len(staged.tokens) = Len(staged.gens)

VARIABLES
  bounds,   \* [HarvestCells -> Seq(RowKinds)]
  live,     \* [HarvestCells -> set of rows]: LivenessMask
  staging,  \* HarvestStaging of one view and class
  routed,   \* history: the harvests staging is made of
  scanning, \* the phase: TRUE in harvest, FALSE in simulate
  run,      \* what a holder found: [cell, view, words, tokens], or NoRun
  device    \* ViewTokenBuffers and its entry in the registry

harvestVars == <<bounds, live, staging, routed, scanning, run>>

NullRow == -1
NoRun == <<>>
InUse(c) == Len(bounds[c])
RowsOf(c) == 0 .. InUse(c) - 1
BoxOf(c, r) == bounds[c][r + 1].box

-----------------------------------------------------------------------------
(* Floats *)

AtMost(a, b) == a # NaNum /\ b # NaNum /\ a <= b
Times(a, b) == IF NaNum \in {a, b} THEN NaNum ELSE a * b
Plus(a, b) == IF NaNum \in {a, b} THEN NaNum ELSE a + b

Overlaps(view, box) ==
  \A i \in Axes : AtMost(box.min[i], view.max[i]) /\ AtMost(view.min[i], box.max[i])

\* The corner of the box farthest along the plane's normal.
Vertex(plane, box) == [i \in Axes |-> IF AtMost(0, plane.n[i]) THEN box.max[i] ELSE box.min[i]]
Dot(plane, box) ==
  LET sum[i \in 0 .. Dims] ==
        IF i = 0 THEN 0 ELSE Plus(sum[i - 1], Times(plane.n[i], Vertex(plane, box)[i]))
  IN Plus(sum[Dims], plane.d)

\* A block tests that the vertex is inside, a single row that it is not outside:
\* of a product that is no number both are false.
InsideBlock(view, box) == \A p \in view.planes : AtMost(0, Dot(p, box))
NotOutside(view, box) ==
  \A p \in view.planes : LET d == Dot(p, box) IN ~(d # NaNum /\ d < 0)

InBlock(view, box) == IF view.kind = "aabb" THEN Overlaps(view, box) ELSE InsideBlock(view, box)
InTail(view, box) == IF view.kind = "aabb" THEN Overlaps(view, box) ELSE NotOutside(view, box)

-----------------------------------------------------------------------------
(* Scans *)

WordsFor(len) == (len + WordBits - 1) \div WordBits

\* capture_words: the words that cover rows 0 .. len - 1, as the bits set in each.
CapturedWords(c) ==
  [w \in 0 .. WordsFor(InUse(c)) - 1 |-> {(r % WordBits) : r \in {x \in live[c] : x \div WordBits = w}}]

IsLive(words, r) == (r % WordBits) \in words[r \div WordBits]

WindowMutant(words, row, lanes) == {lane \in 0 .. lanes - 1 : lane \in words[row \div WordBits]}

\* The lanes of a block that are live: one word, shifted and cut.
Window(words, row, lanes) ==
  {lane \in 0 .. lanes - 1 : (row % WordBits) + lane \in words[row \div WordBits]}

\* aabb_scan and frustum_scan: the rows hit, in whole blocks and then the tail.
HitsOf(c, view, words, lanes) ==
  LET blocked == (InUse(c) \div lanes) * lanes
      blocks == {row \in 0 .. blocked - 1 : (row % lanes) = 0 /\ lanes > 1}
      tail == IF lanes > 1 THEN blocked .. InUse(c) - 1 ELSE RowsOf(c)
      mask(row) == {l \in Window(words, row, lanes) : InBlock(view, BoxOf(c, row + l))}
  IN (UNION {{row + l : l \in mask(row)} : row \in blocks})
       \union {r \in tail : InTail(view, BoxOf(c, r)) /\ IsLive(words, r)}

\* Positional tokens: a row's own number, or NullRow.
TokensOf(c, view, words, lanes) ==
  LET hits == HitsOf(c, view, words, lanes)
  IN [i \in 1 .. InUse(c) |-> IF i - 1 \in hits THEN i - 1 ELSE NullRow]

\* build_compress_lut: the lanes of a mask, packed to the left.
Packed(mask) == Retained([lane \in mask |-> lane], mask)

\* compress_tokens: indices into the run that hold a token, block by block.
CompressedRun(tokens, lanes) ==
  LET blocked == (Len(tokens) \div lanes) * lanes
      isHit(i) == tokens[i + 1] # NullRow
      block(b) == LET mask == {l \in 0 .. lanes - 1 : isHit(b * lanes + l)}
                      packed == Packed(mask)
                  IN [k \in 1 .. Len(packed) |-> b * lanes + packed[k]]
      tail == {i \in blocked .. Len(tokens) - 1 : isHit(i)}
  IN FlattenSeq([b \in 1 .. blocked \div lanes |-> block(b - 1)]) \o Packed(tail)

-----------------------------------------------------------------------------
(* Harvest *)

\* Less than a quarter of the rows: the run is compacted, and remap tells where
\* each token came from.
Sparse(hits, len) == len > 0 /\ 4 * hits < len

\* harvest_cell
HarvestCell(c, view, lanes) ==
  LET tokens == TokensOf(c, view, CapturedWords(c), lanes)
      picked == CompressedRun(tokens, lanes)
      sparse == Sparse(Len(picked), InUse(c))
  IN /\ scanning
     /\ staging' = [tokens |-> staging.tokens \o [k \in DOMAIN picked |-> RegionBase[c] + tokens[picked[k] + 1]],
                    gens |-> staging.gens \o [k \in DOMAIN picked |-> bounds[c][picked[k] + 1].gen],
                    remap |-> staging.remap \o (IF sparse THEN picked ELSE <<>>),
                    valid |-> staging.valid + Len(picked),
                    total |-> staging.total + InUse(c)]
     /\ routed' = Append(routed, <<c, view>>)
     /\ UNCHANGED <<bounds, live, scanning, run>>

EmptyStaging == [tokens |-> <<>>, gens |-> <<>>, remap |-> <<>>, valid |-> 0, total |-> 0]

\* A holder queries with the words it captured, which must still be as many as
\* the rows take.
HolderQuery(c, view, lanes) ==
  /\ run = NoRun
  /\ run' = [cell |-> c, view |-> view, words |-> CapturedWords(c), tokens |-> TokensOf(c, view, CapturedWords(c), lanes)]
  /\ UNCHANGED <<bounds, live, staging, routed, scanning>>

HolderQueryAgain(view, lanes) ==
  /\ run # NoRun /\ DOMAIN run.words = 0 .. WordsFor(InUse(run.cell)) - 1
  /\ run' = [run EXCEPT !.view = view, !.tokens = TokensOf(run.cell, view, run.words, lanes)]
  /\ UNCHANGED <<bounds, live, staging, routed, scanning>>

\* revalidate_run
Revalidate ==
  /\ run # NoRun
  /\ run' = [run EXCEPT !.tokens =
       [i \in DOMAIN @ |-> IF @[i] \in live[run.cell] THEN @[i] ELSE NullRow]]
  /\ UNCHANGED <<bounds, live, staging, routed, scanning>>

-----------------------------------------------------------------------------
(* The device buffers of a view *)

Amortized(d, needed) == Max({needed, (d.capacity * 3) \div 2})

\* ensure_capacity: both buffers are made anew, or neither.
WithCapacity(d, needed) ==
  IF needed <= d.capacity THEN d
  ELSE [d EXCEPT !.capacity = Amortized(d, needed), !.epoch = @ + 1,
                 !.tokens = <<>>, !.gens = <<>>, !.synced = FALSE]

Over(old, new) == new \o SubSeq(old, Len(new) + 1, Len(old))

\* upload: what lies past count keeps what an earlier upload left.
Upload(staged) ==
  LET n == Len(staged.tokens)
      grown == WithCapacity(device, n)
  IN /\ grown.epoch <= MaxViewEpoch
     /\ device' = IF n = 0 THEN [device EXCEPT !.count = 0, !.held = staged]
                  ELSE [grown EXCEPT !.count = n, !.tokens = Over(@, staged.tokens),
                                     !.gens = Over(@, staged.gens), !.held = staged]

\* register_keys: registered once at epoch 0, then synced to the buffer's epoch,
\* which replaces the buffer only when the epoch differs.
RegisterKeys ==
  LET first == [epoch |-> 0, buffer |-> device.epoch]
      entry == IF device.entry = <<>> THEN first ELSE device.entry
  IN device' = [device EXCEPT !.entry =
       IF entry.epoch = device.epoch THEN entry
       ELSE [epoch |-> device.epoch, buffer |-> device.epoch],
     !.synced = TRUE]

-----------------------------------------------------------------------------
(* Cells *)

\* SpatialCell::alloc
AllocRow(c, kind) ==
  /\ ~scanning /\ InUse(c) < MaxRows[c]
  /\ bounds' = [bounds EXCEPT ![c] = Append(@, kind)]
  /\ live' = [live EXCEPT ![c] = @ \union {InUse(c)}]
  /\ UNCHANGED <<staging, routed, scanning, run>>

Die(c, r) ==
  /\ ~scanning /\ r \in live[c]
  /\ live' = [live EXCEPT ![c] = @ \ {r}]
  /\ UNCHANGED <<bounds, staging, routed, scanning, run>>

\* The first dead row takes the last one, until none is dead (CellStorage has
\* the steps); a run of an earlier frame is void.
CompactAll ==
  /\ ~scanning
  /\ bounds' = [c \in HarvestCells |->
       LET n == Cardinality(live[c])
           dead == Packed({r \in 0 .. n - 1 : r \notin live[c]})
           moved == Reverse(Packed({r \in live[c] : r >= n}))
       IN [i \in 1 .. n |-> IF i - 1 \in live[c] THEN bounds[c][i]
                            ELSE bounds[c][moved[CHOOSE k \in DOMAIN dead : dead[k] = i - 1] + 1]]]
  /\ live' = [c \in HarvestCells |-> 0 .. Cardinality(live[c]) - 1]
  /\ run' = NoRun
  /\ UNCHANGED <<staging, routed, scanning>>

\* HarvestStaging::clear begins a frame's harvest.  It reads cells and shares
\* nothing with a holder, so the model looks at one or the other.
BeginHarvest ==
  /\ ~scanning /\ scanning' = TRUE /\ run = NoRun
  /\ staging' = EmptyStaging /\ routed' = <<>>
  /\ UNCHANGED <<bounds, live, run>>

EndHarvest ==
  /\ scanning /\ scanning' = FALSE
  /\ staging' = EmptyStaging /\ routed' = <<>>
  /\ UNCHANGED <<bounds, live, run>>

-----------------------------------------------------------------------------
HarvestInit ==
  /\ bounds = [c \in HarvestCells |-> <<>>] /\ live = [c \in HarvestCells |-> {}]
  /\ staging = EmptyStaging /\ routed = <<>> /\ scanning = FALSE
  /\ run = NoRun

ScanWith(c, view, lanes) ==
  \/ <<c, view>> \notin ToSet(routed) /\ HarvestCell(c, view, lanes)
  \/ ~scanning /\ HolderQuery(c, view, lanes)

HarvestNext ==
  \/ \E c \in HarvestCells, view \in Views, lanes \in LaneCounts : ScanWith(c, view, lanes)
  \/ \E view \in Views, lanes \in LaneCounts : HolderQueryAgain(view, lanes)
  \/ \E c \in HarvestCells, kind \in RowKinds : AllocRow(c, kind)
  \/ \E c \in HarvestCells : \E r \in RowsOf(c) : Die(c, r)
  \/ Revalidate
  \/ CompactAll \/ BeginHarvest \/ EndHarvest

HarvestSpec == HarvestInit /\ [][HarvestNext]_harvestVars

ViewInit ==
  device = [capacity |-> 0, count |-> 0, tokens |-> <<>>, gens |-> <<>>, epoch |-> 0,
            entry |-> <<>>, held |-> [tokens |-> <<>>, gens |-> <<>>], synced |-> FALSE]

ViewNext == RegisterKeys \/ \E staged \in StagedColumns : Upload(staged)

\* A frame's harvest and the buffers of a view, side by side.
ViewsInit == HarvestInit /\ ViewInit
ViewsNext ==
  (HarvestNext /\ UNCHANGED device) \/ (ViewNext /\ UNCHANGED harvestVars)
ViewsSpec == ViewsInit /\ [][ViewsNext]_<<harvestVars, device>>

-----------------------------------------------------------------------------
\* No float of the scan fails to be a number.
Ordered(view, box) == view.kind = "frustum" => \A p \in view.planes : Dot(p, box) # NaNum

\* The rows a query must give.
Visible(c, view) == {r \in live[c] : InTail(view, BoxOf(c, r))}

\* Whatever the backend, staging holds each visible row of each cell harvested,
\* once and in order, at its global row and with its generation: the scan, the
\* liveness window, the left-pack and the two routes add up to the scalar
\* predicate (simd.rs:20, harvest.rs:154).
StagedExact ==
  LET rowsOf(i) == Packed(Visible(routed[i][1], routed[i][2]))
      tokensOf(i) == [k \in DOMAIN rowsOf(i) |-> RegionBase[routed[i][1]] + rowsOf(i)[k]]
      gensOf(i) == [k \in DOMAIN rowsOf(i) |-> bounds[routed[i][1]][rowsOf(i)[k] + 1].gen]
  IN (\A i \in DOMAIN routed : \A r \in RowsOf(routed[i][1]) :
        Ordered(routed[i][2], BoxOf(routed[i][1], r))) =>
       /\ staging.tokens = FlattenSeq([i \in DOMAIN routed |-> tokensOf(i)])
       /\ staging.gens = FlattenSeq([i \in DOMAIN routed |-> gensOf(i)])
       /\ staging.valid = Len(staging.tokens)

\* What a holder found in this frame names rows its view shows; a row that lives
\* and that the view shows is missing only if it was not there when the words
\* were captured or was revalidated away, which only a dead row is.
RunsHonest ==
  run # NoRun =>
    \A i \in DOMAIN run.tokens :
      LET r == i - 1
          pinned == r \div WordBits \in DOMAIN run.words /\ IsLive(run.words, r)
      IN Ordered(run.view, BoxOf(run.cell, r)) =>
           /\ run.tokens[i] # NullRow =>
                run.tokens[i] = r /\ pinned /\ InTail(run.view, BoxOf(run.cell, r))
           /\ (r \in live[run.cell] /\ pinned /\ InTail(run.view, BoxOf(run.cell, r))) =>
                run.tokens[i] = r

\* The counted prefix of a view's two buffers is the last pair of columns it was
\* given, whatever was uploaded before; who resolves them by key once the keys
\* are synced gets the buffers of the last reallocation.
DeviceCurrent ==
  /\ device.count <= device.capacity
  /\ SubSeq(device.tokens, 1, device.count) = device.held.tokens
  /\ SubSeq(device.gens, 1, device.count) = device.held.gens
  /\ device.synced => device.entry.buffer = device.epoch

ViewsExact == StagedExact /\ RunsHonest /\ DeviceCurrent

=============================================================================
