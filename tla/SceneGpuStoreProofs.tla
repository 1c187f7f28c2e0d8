------------------------ MODULE SceneGpuStoreProofs ------------------------
(***************************************************************************)
(* The scene store is safe for any cells, pages, slots, regions and        *)
(* serials: the cells keep what CellStorage promises while the store       *)
(* queues, evicts and reloads them; VRAM never validates a handle the CPU  *)
(* gave up; a region has one owner and rests until the frames that read it *)
(* are over; what a frame in flight may read is left alone; and sync_all   *)
(* publishes every row.                                                    *)
(*                                                                         *)
(* None of it is inductive alone.  A retirement in the queue must still be *)
(* the cell's own for its commit to be one; a region must have one owner   *)
(* for one cell's stamp not to reach another's generations; and what a     *)
(* shadow says was uploaded must be there for sync_all to skip it.         *)
(***************************************************************************)
EXTENDS SceneGpuStore, CellStorageProofs

\* The queue of a registered cell holds exactly the retirements it has in
\* flight, each once; no other cell has any.
QueuesExact ==
  \A c \in Cells :
    /\ pending[c] = {queue[c][i].pending : i \in 1 .. Len(queue[c])}
    /\ \A i, j \in 1 .. Len(queue[c]) : queue[c][i].pending = queue[c][j].pending => i = j
    /\ region[c] = NoRegion => queue[c] = << >>

\* Every region is in one of three places, and there once.
PinnedBases == {pinnedRegions[i].base : i \in 1 .. Len(pinnedRegions)}
HeldRegions == {region[c] : c \in Registered}

PlacesApart(held, free_, waiting) ==
  /\ held \intersect free_ = {}
  /\ held \intersect waiting = {}
  /\ free_ \intersect waiting = {}
  /\ held \union free_ \union waiting = Regions

OneCellEach == \A c, d \in Registered : region[c] = region[d] => c = d
PinnedOnce  == \A i, j \in 1 .. Len(pinnedRegions) : pinnedRegions[i].base = pinnedRegions[j].base => i = j

RegionsPlaced ==
  /\ OneCellEach
  /\ IsInjective(freeRegions)
  /\ PinnedOnce
  /\ PlacesApart(HeldRegions, ToSet(freeRegions), PinnedBases)

\* What is known of the last frame that read a region, by where it is.
ReadersOver ==
  /\ \A g \in Regions : lastRead[g] < frame
  /\ \A g \in ToSet(freeRegions) : lastRead[g] <= completed
  /\ \A i \in 1 .. Len(pinnedRegions) : lastRead[pinnedRegions[i].base] <= pinnedRegions[i].serial
  /\ phase = "Retiring" => done <= completed

\* What a registered cell's shadows say is in VRAM.
ShadowTrue(c) ==
  \A r \in Rows : slotShadow[c][r] # NoShadow =>
    vramSlot[region[c]][r] = GlobalSlot(region[c], slotShadow[c][r])

\* An element's row is in VRAM unless it is marked.
CleanRows(c) ==
  \A r \in Occupied(c) : slotCol[c][r] \in written[c] /\ r \notin dirty[c] =>
    vramData[region[c]][r] = data[c][r]

MirrorTrue == \A c \in Registered : ShadowTrue(c) /\ CleanRows(c)

StoreInv ==
  /\ IInv
  /\ StoreTypeOK
  /\ QueuesExact
  /\ RegionsPlaced
  /\ ReadersOver
  /\ GenerationsCurrent
  /\ MirrorTrue

------------------------------------------------------------------------------
(* The cells *)

LEMMA Numbers ==
  /\ Capacity \in Nat \ {0} /\ MaxSlots \in Nat \ {0} /\ GenMax \in Nat \ {0, 1}
  /\ NumRegions \in Nat \ {0} /\ MaxSerial \in Nat \ {0}
  BY CellAssumption, StoreAssumption

\* A cell without a region has no retirement in flight.
LEMMA Unqueued ==
  ASSUME IInv, QueuesExact, NEW c \in Cells, region[c] = NoRegion
  PROVE  queue[c] = << >> /\ pending[c] = {} /\ pins[c] = {}
  <1>1. queue[c] = << >>
    BY DEF QueuesExact
  <1>2. pending[c] = {}
    BY <1>1, EmptySeq DEF QueuesExact
  <1>3. pins[c] = {}
    BY <1>2 DEF IInv, RetirementInFlight, InFlight
  <1> QED BY <1>1, <1>2, <1>3

\* Every other call is one of CellStorage's own, or none.
LEMMA CellSteps ==
  ASSUME IInv, StoreTypeOK, QueuesExact, StoreNext
  PROVE  \/ [Next]_cellVars
         \/ \E c \in Cells : LoadCell(c) \/ Unregister(c)
  <1> DEFINE Goal == \/ [Next]_cellVars
                     \/ \E c \in Cells : LoadCell(c) \/ Unregister(c)
  <1> SUFFICES Goal
    OBVIOUS
  <1>1. ASSUME NEW c \in Cells, CellNext(c) PROVE Goal
    BY <1>1 DEF Next
  <1>2. ASSUME NEW c \in Cells, Mutation(c) PROVE Goal
    <2>1. CASE StoreAlloc(c)
      BY <2>1, <1>1 DEF StoreAlloc, CellNext
    <2>2. ASSUME NEW h \in Handle, NEW v \in Values,
                 WriteTransform(c, h, v) \/ WriteInstanceInfo(c, h, v)
          PROVE  Goal
      BY <2>2, <1>1 DEF WriteTransform, WriteInstanceInfo, WriteColumn, CellNext
    <2>3. ASSUME NEW h \in Handle, FreeDeferred(c, h) PROVE Goal
      BY <2>3, <1>1 DEF FreeDeferred, CellNext
    <2>4. CASE LoadCell(c) \/ Unregister(c)
      BY <2>4
    <2>5. CASE Register(c)
      BY <2>5 DEF Register
    <2> QED BY <1>2, <2>1, <2>2, <2>3, <2>4, <2>5 DEF Mutation
  <1>3. CASE Boundary
    <2>1. CASE RetireBegin \/ RetireEnd \/ CompactAll \/ SyncAll
      BY <2>1 DEF RetireBegin, RetireEnd, CompactAll, SyncAll
    <2>2. ASSUME NEW c \in Cells, RetireOne(c) PROVE Goal
      <3>1. queue[c] # << >> /\ CommitRetire(c, Head(queue[c]).pending)
        BY <2>2 DEF RetireOne, Ready
      <3>2. queue[c] \in Seq(QueuedRetire)
        BY DEF StoreTypeOK
      <3>3. 1 \in 1 .. Len(queue[c]) /\ Head(queue[c]) = queue[c][1]
        BY <3>1, <3>2, EmptySeq, LenProperties, HeadTailProperties
      <3>4. Head(queue[c]).pending \in pending[c]
        BY <3>3 DEF QueuesExact
      <3> QED BY <3>1, <3>4, <1>1 DEF CellNext
    <2>3. ASSUME NEW c \in Cells, CompactVisit(c) PROVE Goal
      BY <2>3, <1>1 DEF CompactVisit, CellNext
    <2>4. ASSUME NEW c \in Cells, StoreCompactStep(c) PROVE Goal
      BY <2>4, <1>1 DEF StoreCompactStep, StoreCompactMove, CompactStep, CellNext
    <2> QED BY <1>3, <2>1, <2>2, <2>3, <2>4 DEF Boundary
  <1>4. CASE Submit \/ Rebuild \/ \E s \in Serials : Complete(s)
    BY <1>4 DEF Submit, Rebuild, Complete
  <1> QED BY <1>2, <1>3, <1>4 DEF StoreNext

\* A cell that comes from elsewhere is as alloc would have left it.
LEMMA LoadCellKeeps ==
  ASSUME IInv, QueuesExact, NEW c \in Cells, LoadCell(c)
  PROVE  IInv'
  <1>1. pending[c] = {} /\ pins[c] = {}
    BY Unqueued DEF LoadCell
  <1>2. PICK n \in 0 .. Capacity :
       /\ n <= MaxSlots
       /\ len'         = [len EXCEPT ![c] = n]
       /\ live'        = [live EXCEPT ![c] = 0 .. n - 1]
       /\ numSlots'    = [numSlots EXCEPT ![c] = n]
       /\ slotCol'     = [slotCol EXCEPT ![c] = [r \in Rows |-> IF r < n THEN r ELSE 0]]
       /\ generations' = [generations EXCEPT ![c] = [s \in Slots |-> IF s < n THEN 1 ELSE 0]]
       /\ slotToRow'   = [slotToRow EXCEPT ![c] = [s \in Slots |-> IF s < n THEN s ELSE NullRow]]
    BY DEF LoadCell
  <1>3. PICK v \in Values : data' = [data EXCEPT ![c] = [r \in Rows |-> v]]
    BY DEF LoadCell
  <1>4. /\ free' = [free EXCEPT ![c] = << >>]
        /\ retiredCount' = [retiredCount EXCEPT ![c] = 0]
        /\ UNCHANGED <<pins, pending, compactRow>>
    BY DEF LoadCell
  <1>5. TypeOK
    BY DEF IInv
  <1>6. TypeOK'
    <2>1. len' \in [Cells -> 0 .. Capacity] /\ numSlots' \in [Cells -> 0 .. MaxSlots]
      BY <1>2, <1>5, Numbers DEF TypeOK
    <2>2. slotCol' \in [Cells -> [Rows -> Slots]]
      <3>1. [r \in Rows |-> IF r < n THEN r ELSE 0] \in [Rows -> Slots]
        BY <1>2, Numbers DEF Rows, Slots
      <3> QED BY <1>2, <1>5, <3>1 DEF TypeOK
    <2>3. data' \in [Cells -> [Rows -> Values]]
      BY <1>3, <1>5 DEF TypeOK
    <2>4. live' \in [Cells -> SUBSET Rows]
      <3>1. 0 .. n - 1 \in SUBSET Rows
        BY <1>2, Numbers DEF Rows
      <3> QED BY <1>2, <1>5, <3>1 DEF TypeOK
    <2>5. generations' \in [Cells -> [Slots -> 0 .. GenMax]]
      <3>1. [s \in Slots |-> IF s < n THEN 1 ELSE 0] \in [Slots -> 0 .. GenMax]
        BY Numbers
      <3> QED BY <1>2, <1>5, <3>1 DEF TypeOK
    <2>6. slotToRow' \in [Cells -> [Slots -> Rows \union {NullRow}]]
      <3>1. [s \in Slots |-> IF s < n THEN s ELSE NullRow] \in [Slots -> Rows \union {NullRow}]
        BY <1>2, Numbers DEF Rows, Slots
      <3> QED BY <1>2, <1>5, <3>1 DEF TypeOK
    <2>7. free' \in [Cells -> Seq(Slots)] /\ retiredCount' \in [Cells -> Nat]
      <3>1. << >> \in Seq(Slots)
        BY EmptySeq
      <3> QED BY <1>4, <1>5, <3>1 DEF TypeOK
    <2>8. pins' \in [Cells -> SUBSET Rows] /\ pending' \in [Cells -> SUBSET PendingRetire]
          /\ compactRow' \in [Cells -> 0 .. Capacity \union {Idle}]
      BY <1>4, <1>5 DEF TypeOK
    <2> QED BY <2>1, <2>2, <2>3, <2>4, <2>5, <2>6, <2>7, <2>8 DEF TypeOK
  <1>7. \A d \in Cells \ {c} : CellInv(d)'
    <2> SUFFICES ASSUME NEW d \in Cells, d # c PROVE CellInv(d)'
      OBVIOUS
    <2>1. SameCell(d)
      BY <1>2, <1>4, <1>5 DEF TypeOK, SameCell
    <2> QED BY <2>1, SameCellInv, IInvByCell
  <1>8. CellInv(c)'
    <2>1. /\ len'[c] = n /\ live'[c] = 0 .. n - 1 /\ numSlots'[c] = n
          /\ slotCol'[c] = [r \in Rows |-> IF r < n THEN r ELSE 0]
          /\ generations'[c] = [s \in Slots |-> IF s < n THEN 1 ELSE 0]
          /\ slotToRow'[c] = [s \in Slots |-> IF s < n THEN s ELSE NullRow]
          /\ free'[c] = << >> /\ pins'[c] = {} /\ pending'[c] = {}
      BY <1>1, <1>2, <1>4, <1>5 DEF TypeOK
    <2>2. n \in Nat /\ n <= Capacity /\ n <= MaxSlots /\ Occupied(c)' = 0 .. n - 1
      BY <1>2, <2>1, Numbers DEF Occupied
    <2>3. RowsHaveSlots(c)'
      <3> SUFFICES ASSUME NEW r \in 0 .. n - 1
                   PROVE  r < len'[c] /\ slotToRow'[c][slotCol'[c][r]] = r
        BY <2>1, <2>2 DEF RowsHaveSlots
      <3>1. r \in Rows /\ r \in Slots /\ r < n
        BY <2>2, Numbers DEF Rows, Slots
      <3> QED BY <2>1, <3>1
    <2>4. SlotsHaveRows(c)'
      <3> SUFFICES ASSUME NEW s \in Slots, slotToRow'[c][s] # NullRow
                   PROVE  /\ slotToRow'[c][s] \in 0 .. n - 1
                          /\ slotCol'[c][slotToRow'[c][s]] = s
                          /\ generations'[c][s] \in 1 .. GenMax - 1
        BY <2>2 DEF SlotsHaveRows
      <3>1. s < n /\ s \in Nat
        BY <2>1, Numbers DEF Slots
      <3>2. s \in Rows
        BY <2>2, <3>1, Numbers DEF Rows
      <3> QED BY <2>1, <2>2, <3>1, <3>2, Numbers
    <2>5. InFlight(c)'
      BY <2>1 DEF InFlight
    <2>6. FreeStackSound(c)'
      <3>1. Len(free'[c]) = 0
        BY <2>1, EmptySeq
      <3>2. \A s \in Slots : ~(Unmapped(c, s)' /\ generations'[c][s] \in 1 .. GenMax - 1)
        <4> SUFFICES ASSUME NEW s \in Slots, slotToRow'[c][s] = NullRow
                     PROVE  generations'[c][s] = 0
          BY Numbers DEF Unmapped
        <4>1. s # NullRow
          BY CellAssumption DEF Slots
        <4> QED BY <2>1, <4>1
      <3>3. \A s \in Slots : s < numSlots'[c] <=> generations'[c][s] > 0
        BY <2>1
      <3> QED BY <3>1, <3>2, <3>3 DEF FreeStackSound
    <2> QED BY <2>3, <2>4, <2>5, <2>6 DEF CellInv
  <1>9. \A d \in Cells : CellInv(d)'
    BY <1>7, <1>8
  <1> QED BY <1>6, <1>9 DEF IInv, HandlesResolve, RetirementInFlight, FreeStacksSound, CellInv

\* The free stack by what it holds.
LEMMA FreeStackSet ==
  ASSUME TypeOK, NEW c \in Cells
  PROVE  FreeStackSound(c) <=>
           /\ IsInjective(free[c])
           /\ \A s \in Slots : s \in ToSet(free[c])
                                 <=> Unmapped(c, s) /\ generations[c][s] \in 1 .. GenMax - 1
           /\ \A s \in Slots : s < numSlots[c] <=> generations[c][s] > 0
  <1>1. DOMAIN free[c] = 1 .. Len(free[c])
    BY LenProperties DEF TypeOK
  <1>2. \A s : s \in ToSet(free[c]) <=> \E i \in 1 .. Len(free[c]) : free[c][i] = s
    BY <1>1 DEF ToSet
  <1>3. IsInjective(free[c]) <=> \A i, j \in 1 .. Len(free[c]) : free[c][i] = free[c][j] => i = j
    BY <1>1 DEF IsInjective
  <1> QED BY <1>2, <1>3 DEF FreeStackSound

\* The slots that a cell's queue will release: each is mapped to a pinned row.
LEMMA QueuedSlots ==
  ASSUME IInv, StoreTypeOK, QueuesExact, NEW c \in Cells
  PROVE  /\ Len(queue[c]) \in Nat
         /\ \A i \in 1 .. Len(queue[c]) :
              LET p == queue[c][i].pending
              IN /\ p \in pending[c] /\ p \in PendingRetire
                 /\ p.slot \in Slots /\ p.row \in pins[c]
                 /\ slotToRow[c][p.slot] = p.row /\ p.row # NullRow /\ p.row \in Rows
                 /\ slotCol[c][p.row] = p.slot
                 /\ generations[c][p.slot] \in 1 .. GenMax - 1
                 /\ generations[c][p.slot] + 1 = p.nextGen
         /\ \A i, j \in 1 .. Len(queue[c]) :
              queue[c][i].pending.slot = queue[c][j].pending.slot => i = j
         /\ \A r \in pins[c] : \E i \in 1 .. Len(queue[c]) : queue[c][i].pending.row = r
  <1>1. Len(queue[c]) \in Nat
    BY LenProperties DEF StoreTypeOK
  <1>2. \A i \in 1 .. Len(queue[c]) : queue[c][i].pending \in pending[c]
    BY DEF QueuesExact
  <1>3. \A p \in pending[c] :
          /\ p \in PendingRetire /\ p.slot \in Slots /\ p.row \in Rows
          /\ p.row \in pins[c] /\ slotToRow[c][p.slot] = p.row
          /\ generations[c][p.slot] + 1 = p.nextGen
    BY DEF IInv, RetirementInFlight, InFlight, TypeOK, PendingRetire
  <1>4. \A r \in Rows : r # NullRow
    BY CellAssumption DEF Rows
  <1>5. \A p \in pending[c] :
          generations[c][p.slot] \in 1 .. GenMax - 1 /\ slotCol[c][p.row] = p.slot
    BY <1>3, <1>4 DEF IInv, HandlesResolve, SlotsHaveRows
  <1>6. \A p, q \in pending[c] : p.slot = q.slot => p = q
    <2> SUFFICES ASSUME NEW p \in pending[c], NEW q \in pending[c], p.slot = q.slot PROVE p = q
      OBVIOUS
    <2>1. p.row = q.row /\ p.nextGen = q.nextGen
      BY <1>3
    <2> QED BY <2>1, <1>3 DEF PendingRetire
  <1>7. \A i, j \in 1 .. Len(queue[c]) :
          queue[c][i].pending.slot = queue[c][j].pending.slot => i = j
    BY <1>2, <1>6 DEF QueuesExact
  <1>8. \A r \in pins[c] : \E i \in 1 .. Len(queue[c]) : queue[c][i].pending.row = r
    BY DEF IInv, RetirementInFlight, InFlight, QueuesExact
  <1> QED BY <1>1, <1>2, <1>3, <1>4, <1>5, <1>7, <1>8

\* An evicted cell's retirements are all committed at once.
LEMMA UnregisterKeeps ==
  ASSUME IInv, StoreTypeOK, QueuesExact, NEW c \in Cells, Unregister(c)
  PROVE  IInv'
  <1> DEFINE n == Len(queue[c])
             sl == [i \in 1 .. n |-> queue[c][i].pending.slot]
             gone == {sl[i] : i \in 1 .. Len(sl)}
             pooled == {i \in DOMAIN sl : ~(generations[c][sl[i]] + 1 = GenMax)}
             spent == {s \in gone : generations[c][s] + 1 = GenMax}
             back == Retained(sl, pooled)
  <1>1. TypeOK /\ CellInv(c)
    BY IInvByCell DEF IInv
  <1>2. n \in Nat /\ \A i \in 1 .. n : sl[i] \in Slots
    BY QueuedSlots
  <1>3. /\ sl \in Seq(Slots) /\ DOMAIN sl = 1 .. n /\ Len(sl) = n
        /\ IsInjective(sl)
    <2>1. sl \in Seq(Slots) /\ Len(sl) = n
      <3> HIDE DEF n
      <3> QED BY <1>2, IsASeq, LenProperties
    <2>2. \A i, j \in 1 .. n : sl[i] = sl[j] => i = j
      BY QueuedSlots
    <2> QED BY <2>1, <2>2 DEF IsInjective
  <1> DEFINE at(i) == queue[c][i].pending
  <1>31. \A s \in gone : \E i \in 1 .. n : s = at(i).slot
    BY <1>3
  <1>32. \A i \in 1 .. n : at(i).slot \in gone
    BY <1>3
  <1>33. \A i \in 1 .. n : /\ at(i).slot \in Slots /\ at(i).row \in pins[c] /\ at(i).row # NullRow
                           /\ slotToRow[c][at(i).slot] = at(i).row
                           /\ generations[c][at(i).slot] \in 1 .. GenMax - 1
    BY QueuedSlots
  <1>34. \A r \in pins[c] : \E i \in 1 .. n : at(i).row = r
    BY QueuedSlots
  <1> HIDE DEF at
  <1>4. \A s \in gone : /\ s \in Slots /\ slotToRow[c][s] \in pins[c] /\ slotToRow[c][s] # NullRow
                        /\ generations[c][s] \in 1 .. GenMax - 1
    <2> HIDE DEF gone, n, sl
    <2> QED BY <1>31, <1>33
  <1>5. \A r \in pins[c] : \E s \in gone : slotToRow[c][s] = r
    <2> HIDE DEF gone, n, sl
    <2> QED BY <1>32, <1>33, <1>34
  <1>6. /\ slotToRow' = [slotToRow EXCEPT ![c] = [s \in Slots |-> IF s \in gone THEN NullRow ELSE @[s]]]
        /\ generations' = [generations EXCEPT ![c] = [s \in Slots |-> IF s \in gone THEN @[s] + 1 ELSE @[s]]]
        /\ free' = [free EXCEPT ![c] = @ \o back]
        /\ retiredCount' = [retiredCount EXCEPT ![c] = @ + Cardinality(spent)]
        /\ pins' = [pins EXCEPT ![c] = {}]
        /\ pending' = [pending EXCEPT ![c] = {}]
        /\ UNCHANGED <<pageVars, live, numSlots, compactRow>>
    BY DEF Unregister
  <1>7. pooled \in SUBSET DOMAIN sl
    OBVIOUS
  <1>8. /\ back \in Seq(Slots) /\ IsInjective(back)
        /\ ToSet(back) = {s \in gone : generations[c][s] + 1 # GenMax}
    <2>1. {sl[i] : i \in pooled} = {s \in gone : generations[c][s] + 1 # GenMax}
      BY <1>3
    <2> HIDE DEF sl, pooled, gone
    <2> QED BY <2>1, <1>3, <1>7, RetainedOnly
  <1>9. Cardinality(spent) \in Nat
    <2>1. IsFiniteSet(Slots)
      BY FS_Interval, Numbers DEF Slots
    <2>2. spent \in SUBSET Slots
      BY <1>4
    <2> QED BY <2>1, <2>2, FS_Subset, FS_CardinalityType
  <1> HIDE DEF gone, back, spent, sl, pooled, n
  <1>10. /\ slotToRow'[c] = [s \in Slots |-> IF s \in gone THEN NullRow ELSE slotToRow[c][s]]
         /\ generations'[c] = [s \in Slots |-> IF s \in gone THEN generations[c][s] + 1 ELSE generations[c][s]]
         /\ free'[c] = free[c] \o back
         /\ pins'[c] = {} /\ pending'[c] = {}
         /\ len'[c] = len[c] /\ slotCol'[c] = slotCol[c] /\ live'[c] = live[c] /\ numSlots'[c] = numSlots[c]
    BY <1>1, <1>6 DEF TypeOK, pageVars
  <1>11. TypeOK'
    <2>1. slotToRow' \in [Cells -> [Slots -> Rows \union {NullRow}]]
      <3>1. [s \in Slots |-> IF s \in gone THEN NullRow ELSE slotToRow[c][s]] \in [Slots -> Rows \union {NullRow}]
        BY <1>1 DEF TypeOK
      <3> QED BY <3>1, <1>1, <1>6 DEF TypeOK
    <2>2. generations' \in [Cells -> [Slots -> 0 .. GenMax]]
      <3>1. [s \in Slots |-> IF s \in gone THEN generations[c][s] + 1 ELSE generations[c][s]] \in [Slots -> 0 .. GenMax]
        BY <1>1, <1>4, Numbers DEF TypeOK
      <3> QED BY <3>1, <1>1, <1>6 DEF TypeOK
    <2>3. free' \in [Cells -> Seq(Slots)]
      <3>1. free[c] \o back \in Seq(Slots)
        BY <1>1, <1>8, ConcatDistinct DEF TypeOK
      <3> QED BY <3>1, <1>1, <1>6 DEF TypeOK
    <2>4. retiredCount' \in [Cells -> Nat]
      BY <1>1, <1>6, <1>9 DEF TypeOK
    <2>5. /\ pins' \in [Cells -> SUBSET Rows] /\ pending' \in [Cells -> SUBSET PendingRetire]
          /\ len' \in [Cells -> 0 .. Capacity] /\ slotCol' \in [Cells -> [Rows -> Slots]]
          /\ data' \in [Cells -> [Rows -> Values]] /\ live' \in [Cells -> SUBSET Rows]
          /\ numSlots' \in [Cells -> 0 .. MaxSlots]
          /\ compactRow' \in [Cells -> 0 .. Capacity \union {Idle}]
      BY <1>1, <1>6 DEF TypeOK, pageVars
    <2> QED BY <2>1, <2>2, <2>3, <2>4, <2>5 DEF TypeOK
  <1>12. \A d \in Cells \ {c} : CellInv(d)'
    <2> SUFFICES ASSUME NEW d \in Cells, d # c PROVE CellInv(d)'
      OBVIOUS
    <2>1. SameCell(d)
      BY <1>1, <1>6 DEF TypeOK, SameCell, pageVars
    <2> QED BY <2>1, SameCellInv, IInvByCell
  <1>13. CellInv(c)'
    <2>1. Occupied(c)' = live[c] /\ live[c] \intersect pins[c] = {}
      BY <1>1, <1>10 DEF Occupied, CellInv, RowsHaveSlots
    <2>2. RowsHaveSlots(c)'
      <3> SUFFICES ASSUME NEW r \in live[c] PROVE r < len[c] /\ slotToRow'[c][slotCol[c][r]] = r
        BY <1>10, <2>1 DEF RowsHaveSlots
      <3>1. r < len[c] /\ slotToRow[c][slotCol[c][r]] = r /\ slotCol[c][r] \in Slots
        BY <1>1 DEF CellInv, RowsHaveSlots, Occupied, TypeOK
      <3>2. slotCol[c][r] \notin gone
        BY <3>1, <1>4, <2>1
      <3> QED BY <3>1, <3>2, <1>10
    <2>3. SlotsHaveRows(c)'
      <3> SUFFICES ASSUME NEW s \in Slots, slotToRow'[c][s] # NullRow
                   PROVE  /\ slotToRow'[c][s] \in live[c]
                          /\ slotCol'[c][slotToRow'[c][s]] = s
                          /\ generations'[c][s] \in 1 .. GenMax - 1
        BY <2>1 DEF SlotsHaveRows
      <3>1. s \notin gone /\ slotToRow'[c][s] = slotToRow[c][s] /\ generations'[c][s] = generations[c][s]
        BY <1>10
      <3>2. /\ slotToRow[c][s] \in live[c] \union pins[c]
            /\ slotCol[c][slotToRow[c][s]] = s
            /\ generations[c][s] \in 1 .. GenMax - 1
        BY <1>1, <3>1 DEF CellInv, SlotsHaveRows, Occupied
      <3>3. slotToRow[c][s] \notin pins[c]
        <4> SUFFICES ASSUME slotToRow[c][s] \in pins[c] PROVE FALSE
          OBVIOUS
        <4>1. PICK t \in gone : slotToRow[c][t] = slotToRow[c][s]
          BY <1>5
        <4>2. slotCol[c][slotToRow[c][t]] = t
          BY <1>1, <1>4 DEF CellInv, SlotsHaveRows
        <4> QED BY <4>1, <4>2, <3>1, <3>2
      <3> QED BY <3>1, <3>2, <3>3, <1>10
    <2>4. InFlight(c)'
      BY <1>10 DEF InFlight
    <2>5. FreeStackSound(c)'
      <3>1. /\ IsInjective(free[c])
            /\ \A s \in Slots : s \in ToSet(free[c])
                                 <=> Unmapped(c, s) /\ generations[c][s] \in 1 .. GenMax - 1
            /\ \A s \in Slots : s < numSlots[c] <=> generations[c][s] > 0
        BY <1>1, FreeStackSet DEF CellInv
      <3>2. free[c] \in Seq(Slots)
        BY <1>1 DEF TypeOK
      <3>3. ToSet(free[c]) \intersect ToSet(back) = {}
        BY <1>4, <1>8, <3>1 DEF Unmapped
      <3>4. IsInjective(free'[c]) /\ ToSet(free'[c]) = ToSet(free[c]) \union ToSet(back)
        BY <1>8, <1>10, <3>1, <3>2, <3>3, ConcatDistinct
      <3>5. \A s \in Slots : s \in ToSet(free'[c])
                               <=> Unmapped(c, s)' /\ generations'[c][s] \in 1 .. GenMax - 1
        <4> TAKE s \in Slots
        <4>1. CASE s \in gone
          <5>1. /\ Unmapped(c, s)' /\ generations'[c][s] = generations[c][s] + 1
                /\ s \notin ToSet(free[c]) /\ generations[c][s] \in 1 .. GenMax - 1
            BY <4>1, <1>4, <1>10, <3>1 DEF Unmapped
          <5>2. generations[c][s] + 1 # GenMax <=> generations[c][s] + 1 \in 1 .. GenMax - 1
            BY <5>1, Numbers
          <5> QED BY <5>1, <5>2, <4>1, <3>4, <1>8
        <4>2. CASE s \notin gone
          <5>1. slotToRow'[c][s] = slotToRow[c][s] /\ generations'[c][s] = generations[c][s]
            BY <4>2, <1>10
          <5>2. s \notin ToSet(back)
            BY <4>2, <1>8
          <5> QED BY <5>1, <5>2, <3>1, <3>4 DEF Unmapped
        <4> QED BY <4>1, <4>2
      <3>6. \A s \in Slots : s < numSlots'[c] <=> generations'[c][s] > 0
        <4> TAKE s \in Slots
        <4>1. CASE s \in gone
          BY <4>1, <1>4, <1>10, <3>1, Numbers
        <4>2. CASE s \notin gone
          BY <4>2, <1>10, <3>1
        <4> QED BY <4>1, <4>2
      <3>7. free'[c] \in Seq(Slots)
        BY <1>11 DEF TypeOK
      <3>8. DOMAIN free'[c] = 1 .. Len(free'[c])
        BY <3>7, LenProperties
      <3>9. \A s \in Slots : s \in ToSet(free'[c]) <=> \E i \in 1 .. Len(free'[c]) : free'[c][i] = s
        BY <3>8 DEF ToSet
      <3>10. \A i, j \in 1 .. Len(free'[c]) : free'[c][i] = free'[c][j] => i = j
        BY <3>4, <3>8 DEF IsInjective
      <3> QED BY <3>5, <3>6, <3>9, <3>10 DEF FreeStackSound
    <2> QED BY <2>2, <2>3, <2>4, <2>5 DEF CellInv
  <1>14. \A d \in Cells : CellInv(d)'
    BY <1>12, <1>13
  <1> QED BY <1>11, <1>14 DEF IInv, HandlesResolve, RetirementInFlight, FreeStacksSound, CellInv

\* The cells' invariants hold under the store's calls.
LEMMA CellsKept ==
  ASSUME IInv, StoreTypeOK, QueuesExact, StoreNext
  PROVE  IInv'
  BY CellSteps, NextIInv, LoadCellKeeps, UnregisterKeeps

------------------------------------------------------------------------------
(* A lost device *)

\* The order in which rebuild registers the cells names each of them once.
LEMMA RebuildOrder ==
  ASSUME StoreTypeOK, OneCellEach, NEW order \in SetToSeqs(Registered)
  PROVE  /\ Len(order) \in 0 .. NumRegions
         /\ \A i \in 1 .. Len(order) : order[i] \in Registered
         /\ \A i, j \in 1 .. Len(order) : order[i] = order[j] => i = j
         /\ \A c \in Registered : \E i \in 1 .. Len(order) : order[i] = c
  <1> DEFINE R == Registered
             n == Cardinality(R)
             f == [c \in R |-> region[c]]
  <1>1. IsFiniteSet(Regions) /\ Cardinality(Regions) = NumRegions
    BY FS_Interval, Numbers DEF Regions
  <1>2. f \in Injection(R, Regions)
    <2>1. \A c \in R : region[c] \in Regions
      BY DEF Registered, StoreTypeOK
    <2> QED BY <2>1 DEF OneCellEach, Injection, IsInjective
  <1>3. IsFiniteSet(R) /\ n \in Nat /\ n <= NumRegions
    BY <1>1, <1>2, FS_Injection, FS_CardinalityType
  <1>4. order \in [1 .. n -> R] /\ \A i, j \in 1 .. n : order[i] = order[j] => i = j
    BY DEF SetToSeqs
  <1> HIDE DEF R, n, f
  <1>5. order \in Injection(1 .. n, R)
    BY <1>4 DEF Injection, IsInjective
  <1>6. order \in Surjection(1 .. n, R)
    <2>1. Cardinality(1 .. n) = n
      BY <1>3, FS_Interval
    <2>2. n = Cardinality(R)
      BY DEF n
    <2> QED BY <2>1, <2>2, <1>3, <1>5, FS_Injection
  <1>7. Len(order) = n
    <2>1. order = [i \in 1 .. n |-> order[i]] /\ \A i \in 1 .. n : order[i] \in R
      BY <1>4
    <2> QED BY <2>1, <1>3, IsASeq, LenProperties
  <1>8. \A c \in R : \E i \in 1 .. n : order[i] = c
    BY <1>6 DEF Surjection
  <1> QED BY <1>3, <1>4, <1>7, <1>8 DEF R

\* What the new store has of each cell.
RebuiltCell(c) ==
  /\ region'[c] \in Regions
  /\ vramGen'[region'[c]] = generations[c]
  /\ \A r \in Rows : r < len[c] =>
       /\ vramSlot'[region'[c]][r] = GlobalSlot(region'[c], slotCol[c][r])
       /\ vramData'[region'[c]][r] = data[c][r]

LEMMA Rebuilt ==
  ASSUME TypeOK, StoreTypeOK, OneCellEach, Rebuild
  PROVE  /\ \A c \in Cells \ Registered : region'[c] = NoRegion
         /\ \A c \in Registered : RebuiltCell(c)
         /\ \A c, d \in Registered : region'[c] = region'[d] => c = d
         /\ {region'[c] : c \in Registered} \intersect ToSet(freeRegions') = {}
         /\ {region'[c] : c \in Registered} \union ToSet(freeRegions') = Regions
         /\ freeRegions' \in Seq(Regions) /\ IsInjective(freeRegions')
         /\ region' \in [Cells -> Regions \union {NoRegion}]
         /\ vramGen' \in [Regions -> [Slots -> 0 .. GenMax]]
         /\ vramSlot' \in [Regions -> [Rows -> Regions \X Slots]]
         /\ vramData' \in [Regions -> [Rows -> Values]]
  <1>1. PICK order \in SetToSeqs(Registered) :
          /\ region' = [c \in Cells |-> IF c \in Registered
                          THEN (CHOOSE i \in 1 .. Len(order) : order[i] = c) - 1
                          ELSE NoRegion]
          /\ freeRegions' = SubSeq(FreshRegions, 1, NumRegions - Len(order))
          /\ vramGen' = [g \in Regions |-> IF g < Len(order) THEN generations[order[g + 1]]
                                                              ELSE NoGenerations]
          /\ vramSlot' = [g \in Regions |-> [r \in Rows |->
               IF g < Len(order) /\ r < len[order[g + 1]] THEN GlobalSlot(g, slotCol[order[g + 1]][r])
                                                          ELSE GlobalSlot(0, 0)]]
          /\ vramData' = [g \in Regions |-> [r \in Rows |->
               IF g < Len(order) /\ r < len[order[g + 1]] THEN data[order[g + 1]][r] ELSE ZeroValue]]
    BY DEF Rebuild
  <1> DEFINE k == Len(order)
  <1>2. /\ k \in 0 .. NumRegions
        /\ \A i \in 1 .. k : order[i] \in Registered
        /\ \A i, j \in 1 .. k : order[i] = order[j] => i = j
        /\ \A c \in Registered : \E i \in 1 .. k : order[i] = c
    BY RebuildOrder
  <1> HIDE DEF k
  <1>3. k \in Nat /\ k <= NumRegions /\ NumRegions \in Nat
    BY <1>2, Numbers
  <1>4. \A c \in Registered : \E i \in 1 .. k : order[i] = c /\ region'[c] = i - 1
    <2> TAKE c \in Registered
    <2> DEFINE i == CHOOSE i \in 1 .. k : order[i] = c
    <2>1. i \in 1 .. k /\ order[i] = c
      BY <1>2
    <2>2. region'[c] = i - 1
      BY <1>1 DEF k, Registered
    <2> QED BY <2>1, <2>2
  <1>5. \A c \in Registered : region'[c] \in 0 .. k - 1 /\ region'[c] \in Regions
                              /\ order[region'[c] + 1] = c
    BY <1>3, <1>4 DEF Regions
  <1>6. \A c \in Cells \ Registered : region'[c] = NoRegion
    BY <1>1
  <1>7. \A c \in Registered : RebuiltCell(c)
    <2> SUFFICES ASSUME NEW c \in Registered PROVE RebuiltCell(c)
      OBVIOUS
    <2> DEFINE g == region'[c]
    <2>1. g \in Regions /\ g < k /\ order[g + 1] = c
      BY <1>3, <1>5
    <2> HIDE DEF g
    <2>2. vramGen'[g] = generations[c]
      BY <1>1, <2>1 DEF k
    <2>3. \A r \in Rows : r < len[c] =>
            vramSlot'[g][r] = GlobalSlot(g, slotCol[c][r]) /\ vramData'[g][r] = data[c][r]
      BY <1>1, <2>1 DEF k
    <2> QED BY <2>1, <2>2, <2>3 DEF g, RebuiltCell
  <1>8. \A c, d \in Registered : region'[c] = region'[d] => c = d
    BY <1>5
  <1>9. \A g \in 0 .. k - 1 : \E c \in Registered : region'[c] = g
    <2> TAKE g \in 0 .. k - 1
    <2>1. g + 1 \in 1 .. k /\ order[g + 1] \in Registered
      BY <1>2, <1>3
    <2>2. PICK i \in 1 .. k : order[i] = order[g + 1] /\ region'[order[g + 1]] = i - 1
      BY <2>1, <1>4
    <2>3. i = g + 1
      BY <2>1, <2>2, <1>2
    <2> QED BY <2>1, <2>2, <2>3
  <1> DEFINE m == NumRegions - k
             fr == [i \in 1 .. m |-> NumRegions - i]
  <1>10. freeRegions' = fr
    <2>1. m \in Nat /\ m <= NumRegions
      BY <1>3
    <2>2. \A i \in 1 .. NumRegions : NumRegions - i \in Regions
      BY <1>3 DEF Regions
    <2>3. FreshRegions \in Seq(Regions) /\ Len(FreshRegions) = NumRegions
      BY <2>2, <1>3, IsASeq, LenProperties DEF FreshRegions
    <2>4. freeRegions' = SubSeq(FreshRegions, 1, m)
      BY <1>1 DEF k
    <2> HIDE DEF m
    <2>5. SubSeq(FreshRegions, 1, m) = [i \in 1 .. m |-> FreshRegions[i]]
      <3>1. /\ SubSeq(FreshRegions, 1, m) \in Seq(Regions)
            /\ Len(SubSeq(FreshRegions, 1, m)) = IF 1 <= m THEN m - 1 + 1 ELSE 0
            /\ \A i \in 1 .. m - 1 + 1 : SubSeq(FreshRegions, 1, m)[i] = FreshRegions[1 + i - 1]
        BY <2>1, <2>3, SubSeqProperties
      <3>2. Len(SubSeq(FreshRegions, 1, m)) = m /\ \A i \in 1 .. m : SubSeq(FreshRegions, 1, m)[i] = FreshRegions[i]
        BY <3>1, <2>1
      <3> QED BY <3>1, <3>2, LenProperties
    <2>6. \A i \in 1 .. m : FreshRegions[i] = NumRegions - i
      BY <2>1, <1>3 DEF FreshRegions
    <2> QED BY <2>4, <2>5, <2>6
  <1>11. /\ freeRegions' \in Seq(Regions) /\ IsInjective(freeRegions')
         /\ ToSet(freeRegions') = k .. NumRegions - 1
    <2>1. m \in Nat /\ \A i \in 1 .. m : NumRegions - i \in Regions
      BY <1>3 DEF Regions
    <2>2. fr \in Seq(Regions) /\ DOMAIN fr = 1 .. m
      <3> HIDE DEF m
      <3> QED BY <2>1, IsASeq
    <2>3. IsInjective(fr)
      <3> SUFFICES ASSUME NEW i \in 1 .. m, NEW j \in 1 .. m, NumRegions - i = NumRegions - j
                   PROVE  i = j
        BY <2>2 DEF IsInjective
      <3> QED BY <1>3
    <2>4. ToSet(fr) = {NumRegions - i : i \in 1 .. m}
      BY DEF ToSet
    <2>5. \A g : g \in {NumRegions - i : i \in 1 .. m} <=> g \in k .. NumRegions - 1
      <3>1. ASSUME NEW i \in 1 .. m PROVE NumRegions - i \in k .. NumRegions - 1
        BY <1>3
      <3>2. ASSUME NEW g \in k .. NumRegions - 1 PROVE \E i \in 1 .. m : g = NumRegions - i
        <4>1. NumRegions - g \in 1 .. m /\ g = NumRegions - (NumRegions - g)
          BY <1>3
        <4> QED BY <4>1
      <3> QED BY <3>1, <3>2
    <2> QED BY <1>10, <2>2, <2>3, <2>4, <2>5
  <1>12. {region'[c] : c \in Registered} = 0 .. k - 1
    BY <1>5, <1>9
  <1>13. /\ (0 .. k - 1) \intersect (k .. NumRegions - 1) = {}
         /\ (0 .. k - 1) \union (k .. NumRegions - 1) = Regions
    BY <1>3 DEF Regions
  <1>14. region' \in [Cells -> Regions \union {NoRegion}]
    <2>1. \A c \in Cells : region'[c] \in Regions \union {NoRegion}
      BY <1>5, <1>6
    <2>2. region' = [c \in Cells |-> region'[c]]
      BY <1>1
    <2> QED BY <2>1, <2>2
  <1>15. \A g \in Regions : g < k => order[g + 1] \in Cells
    <2> TAKE g \in Regions
    <2>1. g < k => g + 1 \in 1 .. k
      BY <1>3 DEF Regions
    <2> QED BY <2>1, <1>2 DEF Registered
  <1>16. 0 \in Regions /\ 0 \in Slots /\ 0 \in 0 .. GenMax /\ ZeroValue \in Values
    BY Numbers, CellAssumption DEF Regions, Slots
  <1>17. vramGen' \in [Regions -> [Slots -> 0 .. GenMax]]
    <2>1. NoGenerations \in [Slots -> 0 .. GenMax]
      BY <1>16 DEF NoGenerations
    <2>2. \A c \in Cells : generations[c] \in [Slots -> 0 .. GenMax]
      BY DEF TypeOK
    <2>3. \A g \in Regions : vramGen'[g] \in [Slots -> 0 .. GenMax]
      BY <1>1, <1>15, <2>1, <2>2 DEF k
    <2> QED BY <2>3, <1>1
  <1>18. vramSlot' \in [Regions -> [Rows -> Regions \X Slots]]
    <2>1. ASSUME NEW g \in Regions, NEW r \in Rows
          PROVE  (IF g < k /\ r < len[order[g + 1]] THEN GlobalSlot(g, slotCol[order[g + 1]][r])
                                                    ELSE GlobalSlot(0, 0)) \in Regions \X Slots
      <3>1. g < k => slotCol[order[g + 1]][r] \in Slots
        BY <1>15 DEF TypeOK
      <3> QED BY <3>1, <1>16 DEF GlobalSlot
    <2> QED BY <1>1, <2>1 DEF k
  <1>19. vramData' \in [Regions -> [Rows -> Values]]
    <2>1. ASSUME NEW g \in Regions, NEW r \in Rows
          PROVE  (IF g < k /\ r < len[order[g + 1]] THEN data[order[g + 1]][r] ELSE ZeroValue) \in Values
      BY <1>15, <1>16 DEF TypeOK
    <2> QED BY <1>1, <2>1 DEF k
  <1> QED BY <1>6, <1>7, <1>8, <1>11, <1>12, <1>13, <1>14, <1>17, <1>18, <1>19


------------------------------------------------------------------------------
(* What an action leaves alone *)

LEMMA StoreFacts ==
  ASSUME StoreInv
  PROVE  /\ IInv /\ TypeOK /\ StoreTypeOK /\ QueuesExact /\ RegionsPlaced /\ OneCellEach
         /\ ReadersOver /\ GenerationsCurrent /\ MirrorTrue
  BY DEF StoreInv, IInv, RegionsPlaced

LEMMA RegionsStay ==
  ASSUME RegionsPlaced, UNCHANGED regionVars
  PROVE  RegionsPlaced'
  BY DEF RegionsPlaced, regionVars, OneCellEach, PinnedOnce, PlacesApart,
         HeldRegions, PinnedBases, Registered

\* Neither the cells' rows and slots, nor the regions, nor VRAM change.
LEMMA NothingMirroredMoves ==
  ASSUME StoreInv,
         UNCHANGED <<slotCol, data, live, pins, generations, pending, regionVars, queue,
                     mirrorVars, written>>
  PROVE  QueuesExact' /\ RegionsPlaced' /\ GenerationsCurrent' /\ MirrorTrue'
  <1>1. QueuesExact' 
    BY StoreFacts DEF QueuesExact, regionVars
  <1>2. RegionsPlaced'
    BY StoreFacts, RegionsStay
  <1>3. GenerationsCurrent'
    BY StoreFacts DEF GenerationsCurrent, Registered, regionVars, mirrorVars
  <1>4. MirrorTrue'
    BY StoreFacts DEF MirrorTrue, ShadowTrue, CleanRows, Registered, Occupied, regionVars, mirrorVars
  <1> QED BY <1>1, <1>2, <1>3, <1>4

LEMMA ReadersStay ==
  ASSUME ReadersOver, UNCHANGED <<freeRegions, pinnedRegions, lastRead, serialVars, frameVars>>
  PROVE  ReadersOver'
  BY DEF ReadersOver, serialVars, frameVars

LEMMA QueuesStay ==
  ASSUME QueuesExact, UNCHANGED <<pending, queue, region>>
  PROVE  QueuesExact'
  BY DEF QueuesExact

LEMMA SubmitKeeps ==
  ASSUME StoreInv, IInv', Submit
  PROVE  StoreInv'
  <1>1. /\ UNCHANGED <<slotCol, data, live, pins, generations, pending, regionVars, queue,
                       mirrorVars, written>>
    BY DEF Submit, cellVars, pageVars, registryVars
  <1>2. StoreTypeOK'
    <2>1. frame' \in 1 .. MaxSerial + 1 /\ signalled' \subseteq Serials
      BY StoreFacts, Numbers DEF Submit, StoreTypeOK, Serials
    <2>2. lastRead' \in [Regions -> 0 .. MaxSerial]
      <3>1. frame \in 0 .. MaxSerial
        BY Numbers DEF Submit, Serials
      <3> QED BY <3>1, StoreFacts DEF Submit, StoreTypeOK
    <2> QED BY <1>1, <2>1, <2>2, StoreFacts DEF Submit, StoreTypeOK, frameVars, regionVars, mirrorVars
  <1>3. ReadersOver'
    <2>1. /\ frame \in Nat /\ frame' = frame + 1 /\ completed' = completed /\ phase' = phase
          /\ freeRegions' = freeRegions /\ pinnedRegions' = pinnedRegions /\ done' = done
          /\ \A g \in Regions : lastRead[g] \in Nat /\ lastRead[g] < frame
      BY StoreFacts, Numbers DEF Submit, StoreTypeOK, ReadersOver, regionVars, frameVars
    <2>2. \A g \in Regions : lastRead'[g] = IF g \in HeldRegions THEN frame ELSE lastRead[g]
      <3>1. NoRegion \notin Regions
        BY StoreAssumption DEF Regions
      <3>2. \A g \in Regions : g \in HeldRegions <=> \E c \in Cells : region[c] = g
        BY <3>1 DEF HeldRegions, Registered
      <3> QED BY <3>2 DEF Submit
    <2>3. \A g \in ToSet(freeRegions) : lastRead'[g] = lastRead[g]
      BY <2>2, StoreFacts DEF RegionsPlaced, PlacesApart
    <2>4. \A i \in 1 .. Len(pinnedRegions) :
            lastRead'[pinnedRegions[i].base] = lastRead[pinnedRegions[i].base]
      <3>1. \A i \in 1 .. Len(pinnedRegions) : pinnedRegions[i].base \in PinnedBases
        BY DEF PinnedBases
      <3>2. \A g \in PinnedBases : g \in Regions /\ g \notin HeldRegions
        BY StoreFacts DEF RegionsPlaced, PlacesApart
      <3> QED BY <3>1, <3>2, <2>2
    <2>5. \A g \in Regions : lastRead'[g] < frame'
      BY <2>1, <2>2
    <2> QED BY <2>1, <2>3, <2>4, <2>5, StoreFacts DEF ReadersOver
  <1> QED BY <1>1, <1>2, <1>3, NothingMirroredMoves DEF StoreInv

LEMMA CompleteKeeps ==
  ASSUME StoreInv, IInv', NEW s \in Serials, Complete(s)
  PROVE  StoreInv'
  <1>1. /\ UNCHANGED <<slotCol, data, live, pins, generations, pending, regionVars, queue,
                       mirrorVars, written>>
    BY DEF Complete, cellVars, pageVars, registryVars, history
  <1>2. completed' \in 0 .. MaxSerial /\ completed' >= completed /\ completed \in Nat
    BY StoreFacts, Numbers DEF Complete, StoreTypeOK, Serials
  <1>3. StoreTypeOK'
    BY <1>1, <1>2, StoreFacts DEF Complete, StoreTypeOK, frameVars, regionVars, mirrorVars, history
  <1>4. ReadersOver'
    <2>1. /\ \A g \in ToSet(freeRegions) : lastRead[g] \in Nat
          /\ done \in Nat
      <3>1. ToSet(freeRegions) \subseteq Regions
        BY StoreFacts DEF RegionsPlaced, PlacesApart
      <3> QED BY <3>1, StoreFacts, Numbers DEF StoreTypeOK
    <2> QED BY <1>1, <1>2, <2>1, StoreFacts DEF Complete, ReadersOver, regionVars, history, frameVars
  <1> QED BY <1>1, <1>3, <1>4, NothingMirroredMoves DEF StoreInv

LEMMA RetireBeginKeeps ==
  ASSUME StoreInv, IInv', RetireBegin
  PROVE  StoreInv'
  <1>1. /\ UNCHANGED <<slotCol, data, live, pins, generations, pending, regionVars, queue,
                       mirrorVars, written>>
    BY DEF RetireBegin, cellVars, pageVars, registryVars, history
  <1>2. StoreTypeOK'
    BY <1>1, StoreFacts DEF RetireBegin, StoreTypeOK, serialVars, regionVars, mirrorVars, history
  <1>3. ReadersOver'
    <2>1. completed \in Nat /\ done' = completed /\ completed' = completed
      BY StoreFacts, Numbers DEF StoreTypeOK, RetireBegin, serialVars
    <2> QED BY <2>1, <1>1, StoreFacts DEF RetireBegin, ReadersOver, serialVars, regionVars, history
  <1> QED BY <1>1, <1>2, <1>3, NothingMirroredMoves DEF StoreInv

LEMMA CompactAllKeeps ==
  ASSUME StoreInv, IInv', CompactAll
  PROVE  StoreInv'
  <1>1. /\ UNCHANGED <<slotCol, data, live, pins, generations, pending, regionVars, queue,
                       mirrorVars, written>>
    BY DEF CompactAll, cellVars, pageVars, registryVars, history
  <1>2. StoreTypeOK'
    <2>1. toVisit' \subseteq Cells
      BY DEF CompactAll, Registered
    <2> QED BY <1>1, <2>1, StoreFacts DEF CompactAll, StoreTypeOK, serialVars, regionVars, mirrorVars, history
  <1>3. ReadersOver'
    BY <1>1, StoreFacts DEF CompactAll, ReadersOver, serialVars, regionVars, history
  <1> QED BY <1>1, <1>2, <1>3, NothingMirroredMoves DEF StoreInv

LEMMA CompactVisitKeeps ==
  ASSUME StoreInv, IInv', NEW c \in Cells, CompactVisit(c)
  PROVE  StoreInv'
  <1>1. /\ UNCHANGED <<slotCol, data, live, pins, generations, pending, regionVars, queue,
                       mirrorVars, written>>
    BY DEF CompactVisit, CompactBegin, cellVars, pageVars, registryVars, history
  <1>2. StoreTypeOK'
    BY <1>1, StoreFacts DEF CompactVisit, StoreTypeOK, serialVars, regionVars, mirrorVars, history
  <1>3. ReadersOver'
    BY <1>1, StoreFacts DEF CompactVisit, ReadersOver, serialVars, regionVars, history
  <1> QED BY <1>1, <1>2, <1>3, NothingMirroredMoves DEF StoreInv

------------------------------------------------------------------------------
(* The elements of a registered cell *)

\* Where a live handle's element is.
LEMMA HandleRow ==
  ASSUME IInv, NEW c \in Cells, NEW h \in Handle, IsLive(c, h)
  PROVE  /\ RowOf(c, h) \in Rows /\ RowOf(c, h) \in Occupied(c)
         /\ slotCol[c][RowOf(c, h)] = h.slot
         /\ h.slot \in Slots /\ h.gen \in 0 .. GenMax /\ generations[c][h.slot] = h.gen
  <1>1. h.slot \in Slots /\ h.gen \in 0 .. GenMax
    BY DEF Handle
  <1>2. slotToRow[c][h.slot] \in Occupied(c) /\ slotCol[c][slotToRow[c][h.slot]] = h.slot
    BY <1>1 DEF IInv, HandlesResolve, SlotsHaveRows, IsLive
  <1>3. Occupied(c) \subseteq Rows
    BY DEF IInv, TypeOK, Occupied
  <1> QED BY <1>1, <1>2, <1>3 DEF RowOf, IsLive

\* Elements of different slots are in different rows.
LEMMA OneRowEach ==
  ASSUME IInv, NEW c \in Cells, NEW r \in Occupied(c), NEW q \in Occupied(c),
         slotCol[c][r] = slotCol[c][q]
  PROVE  r = q
  BY DEF IInv, HandlesResolve, RowsHaveSlots

\* A generation written through the shadow: VRAM has it, and nothing else of
\* the store's generations moves.
LEMMA Stamped ==
  ASSUME StoreInv, NEW c \in Registered, NEW s \in Slots, NEW gen \in 0 .. GenMax, Stamp(c, s, gen)
  PROVE  /\ genShadow' \in [Cells -> [Slots -> 0 .. GenMax]]
         /\ vramGen' \in [Regions -> [Slots -> 0 .. GenMax]]
         /\ \A d \in Registered : \A t \in Slots :
              LET to == IF d = c /\ t = s THEN gen ELSE vramGen[region[d]][t]
              IN vramGen'[region[d]][t] = to /\ genShadow'[d][t] = to
  <1> DEFINE g == region[c]
  <1>1. /\ c \in Cells /\ g \in Regions
        /\ genShadow \in [Cells -> [Slots -> 0 .. GenMax]]
        /\ vramGen \in [Regions -> [Slots -> 0 .. GenMax]]
    BY StoreFacts DEF StoreTypeOK, Registered
  <1>2. \A d \in Registered : /\ d \in Cells /\ region[d] \in Regions
                              /\ region[d] = g => d = c
    BY StoreFacts DEF StoreTypeOK, Registered, OneCellEach
  <1>3. \A d \in Registered : \A t \in Slots : genShadow[d][t] = vramGen[region[d]][t]
    BY StoreFacts DEF GenerationsCurrent
  <1>4. CASE genShadow[c][s] = gen
    <2>1. genShadow' = genShadow /\ vramGen' = vramGen
      BY <1>4 DEF Stamp
    <2> QED BY <2>1, <1>1, <1>3, <1>4
  <1>5. CASE genShadow[c][s] # gen
    <2>1. /\ vramGen'   = [vramGen EXCEPT ![g][s] = gen]
          /\ genShadow' = [genShadow EXCEPT ![c][s] = gen]
      BY <1>5 DEF Stamp
    <2> HIDE DEF g
    <2>2. \A d \in Registered : \A t \in Slots :
            vramGen'[region[d]][t] = IF region[d] = g /\ t = s THEN gen ELSE vramGen[region[d]][t]
      BY <2>1, <1>1, <1>2
    <2>3. \A d \in Registered : \A t \in Slots :
            genShadow'[d][t] = IF d = c /\ t = s THEN gen ELSE genShadow[d][t]
      BY <2>1, <1>1, <1>2
    <2>4. \A d \in Registered : region[d] = g <=> d = c
      BY <1>2 DEF g
    <2>5. genShadow' \in [Cells -> [Slots -> 0 .. GenMax]] /\ vramGen' \in [Regions -> [Slots -> 0 .. GenMax]]
      BY <2>1, <1>1
    <2> QED BY <2>2, <2>3, <2>4, <2>5, <1>3
  <1> QED BY <1>4, <1>5

\* What a handle's holder writes is marked, or not yet told of.
LEMMA WriteColumnKeeps ==
  ASSUME StoreInv, IInv', NEW c \in Cells, NEW h \in Handle, NEW v \in Values, WriteColumn(c, h, v)
  PROVE  /\ QueuesExact' /\ RegionsPlaced' /\ ReadersOver' /\ MirrorTrue'
         /\ generations' = generations /\ region' = region /\ c \in Registered
         /\ dirty' \in [Cells -> SUBSET Rows] /\ written' \in [Cells -> SUBSET Slots]
  <1>1. /\ c \in Registered /\ Write(c, h, v) /\ IsLive(c, h)
        /\ dirty' = [dirty EXCEPT ![c] = @ \union {RowOf(c, h)}]
        /\ written' = [written EXCEPT ![c] = @ \union {h.slot}]
        /\ data' = [data EXCEPT ![c][RowOf(c, h)] = v]
        /\ UNCHANGED <<slotCol, live, pins, generations, pending, frameVars, serialVars, regionVars,
                       queue, slotShadow, vramSlot, vramData, lastRead>>
    BY DEF WriteColumn, Write, Registered, registryVars
  <1> DEFINE r == RowOf(c, h)
  <1>2. r \in Rows /\ r \in Occupied(c) /\ slotCol[c][r] = h.slot /\ h.slot \in Slots
    BY <1>1, HandleRow, StoreFacts
  <1> HIDE DEF r
  <1>3. region' = region /\ freeRegions' = freeRegions /\ pinnedRegions' = pinnedRegions
    BY <1>1 DEF regionVars
  <1>4. dirty' \in [Cells -> SUBSET Rows] /\ written' \in [Cells -> SUBSET Slots]
    BY <1>1, <1>2, StoreFacts DEF StoreTypeOK, r
  <1>5. MirrorTrue'
    <2> SUFFICES ASSUME NEW d \in Registered PROVE ShadowTrue(d)' /\ CleanRows(d)'
      BY <1>3 DEF MirrorTrue, Registered
    <2>1. d \in Cells /\ region'[d] = region[d] /\ ShadowTrue(d) /\ CleanRows(d)
      BY <1>3, StoreFacts DEF Registered, MirrorTrue
    <2>2. ShadowTrue(d)'
      BY <2>1, <1>1 DEF ShadowTrue
    <2>3. CleanRows(d)'
      <3> SUFFICES ASSUME NEW q \in Occupied(d), slotCol[d][q] \in written'[d], q \notin dirty'[d]
                   PROVE  vramData[region[d]][q] = data'[d][q]
        BY <2>1, <1>1 DEF CleanRows, Occupied
      <3>1. q \in Rows /\ dirty[d] \subseteq dirty'[d]
        BY <2>1, <1>1, StoreFacts DEF TypeOK, Occupied, StoreTypeOK
      <3>2. CASE d # c
        BY <3>1, <3>2, <2>1, <1>1, StoreFacts DEF CleanRows, TypeOK, StoreTypeOK
      <3>3. CASE d = c
        <4>1. q # r
          BY <3>3, <1>1, <1>2, StoreFacts DEF r, StoreTypeOK
        <4>2. slotCol[c][q] # h.slot
          BY <4>1, <3>3, <1>2, OneRowEach, StoreFacts
        <4>3. slotCol[c][q] \in written[c] /\ q \notin dirty[c]
          BY <4>2, <3>1, <3>3, <1>1, StoreFacts DEF StoreTypeOK
        <4>4. data'[c][q] = data[c][q]
          BY <4>1, <3>1, <1>1, StoreFacts DEF r, TypeOK
        <4> QED BY <4>3, <4>4, <3>3, <2>1 DEF CleanRows
      <3> QED BY <3>2, <3>3
    <2> QED BY <2>2, <2>3
  <1> QED BY <1>1, <1>3, <1>4, <1>5, StoreFacts, RegionsStay, ReadersStay, QueuesStay

LEMMA WriteTransformKeeps ==
  ASSUME StoreInv, IInv', NEW c \in Cells, NEW h \in Handle, NEW v \in Values, WriteTransform(c, h, v)
  PROVE  StoreInv'
  <1>1. WriteColumn(c, h, v) /\ Stamp(c, h.slot, h.gen) /\ IsLive(c, h)
    BY DEF WriteTransform, WriteColumn, Write
  <1>2. /\ QueuesExact' /\ RegionsPlaced' /\ ReadersOver' /\ MirrorTrue'
        /\ generations' = generations /\ region' = region /\ c \in Registered
        /\ dirty' \in [Cells -> SUBSET Rows] /\ written' \in [Cells -> SUBSET Slots]
    BY <1>1, WriteColumnKeeps
  <1>3. h.slot \in Slots /\ h.gen \in 0 .. GenMax /\ generations[c][h.slot] = h.gen
    BY <1>1, HandleRow, StoreFacts
  <1>4. /\ genShadow' \in [Cells -> [Slots -> 0 .. GenMax]]
        /\ vramGen' \in [Regions -> [Slots -> 0 .. GenMax]]
        /\ \A d \in Registered : \A t \in Slots :
              LET to == IF d = c /\ t = h.slot THEN h.gen ELSE vramGen[region[d]][t]
              IN vramGen'[region[d]][t] = to /\ genShadow'[d][t] = to
    BY <1>1, <1>2, <1>3, Stamped
  <1>5. GenerationsCurrent'
    <2> SUFFICES ASSUME NEW d \in Registered, NEW t \in Slots
                 PROVE  /\ vramGen'[region[d]][t] \in {0, generations[d][t]}
                        /\ genShadow'[d][t] = vramGen'[region[d]][t]
      BY <1>2 DEF GenerationsCurrent, Registered
    <2>1. vramGen[region[d]][t] \in {0, generations[d][t]}
      BY StoreFacts DEF GenerationsCurrent
    <2> QED BY <2>1, <1>3, <1>4
  <1>6. StoreTypeOK'
    BY <1>1, <1>2, <1>4, StoreFacts DEF WriteColumn, StoreTypeOK, frameVars, serialVars, regionVars
  <1> QED BY <1>2, <1>5, <1>6 DEF StoreInv

LEMMA WriteInstanceInfoKeeps ==
  ASSUME StoreInv, IInv', NEW c \in Cells, NEW h \in Handle, NEW v \in Values, WriteInstanceInfo(c, h, v)
  PROVE  StoreInv'
  <1>1. WriteColumn(c, h, v) /\ UNCHANGED <<genShadow, vramGen>>
    BY DEF WriteInstanceInfo
  <1>2. /\ QueuesExact' /\ RegionsPlaced' /\ ReadersOver' /\ MirrorTrue'
        /\ generations' = generations /\ region' = region
        /\ dirty' \in [Cells -> SUBSET Rows] /\ written' \in [Cells -> SUBSET Slots]
    BY <1>1, WriteColumnKeeps
  <1>3. GenerationsCurrent'
    BY <1>1, <1>2, StoreFacts DEF GenerationsCurrent, Registered
  <1>4. StoreTypeOK'
    BY <1>1, <1>2, StoreFacts DEF WriteColumn, StoreTypeOK, frameVars, serialVars, regionVars
  <1> QED BY <1>2, <1>3, <1>4 DEF StoreInv

\* The new retirement's row was not pinned: it is not in the queue yet.
LEMMA FreeDeferredKeeps ==
  ASSUME StoreInv, IInv', NEW c \in Cells, NEW h \in Handle, FreeDeferred(c, h)
  PROVE  StoreInv'
  <1> DEFINE r == RowOf(c, h)
             p == [slot |-> h.slot, row |-> r, nextGen |-> h.gen + 1]
             e == [pending |-> p, serial |-> frame]
             n == Len(queue[c])
  <1>1. /\ region[c] # NoRegion /\ frame \in Serials /\ IsLive(c, h) /\ r \notin pins[c]
        /\ live' = [live EXCEPT ![c] = @ \ {r}]
        /\ pins' = [pins EXCEPT ![c] = @ \union {r}]
        /\ pending' = [pending EXCEPT ![c] = @ \union {p}]
        /\ queue' = [queue EXCEPT ![c] = Append(@, e)]
    BY DEF FreeDeferred, MarkPendingRetire
  <1>2. UNCHANGED <<slotCol, data, generations, frameVars, serialVars, regionVars, mirrorVars, history>>
    BY DEF FreeDeferred, MarkPendingRetire, pageVars, registryVars
  <1>3. r \in Rows /\ r \in Occupied(c)
    BY <1>1, HandleRow, StoreFacts
  <1>4. /\ pending[c] \subseteq PendingRetire /\ p \in PendingRetire
        /\ pending'[c] = pending[c] \union {p}
    BY <1>1, StoreFacts DEF TypeOK, IInv
  <1>5. p \notin pending[c]
    <2>1. p.row = r
      OBVIOUS
    <2> HIDE DEF p
    <2> QED BY <2>1, <1>1, StoreFacts DEF IInv, RetirementInFlight, InFlight
  <1>6. e.pending = p /\ e \in QueuedRetire
    BY <1>1, <1>4 DEF QueuedRetire
  <1> HIDE DEF p, e, r
  <1>7. /\ n \in Nat /\ queue'[c] = Append(queue[c], e) /\ queue'[c] \in Seq(QueuedRetire)
        /\ Len(queue'[c]) = n + 1 /\ queue'[c][n + 1] = e
        /\ \A i \in 1 .. n : queue'[c][i] = queue[c][i]
    BY <1>1, <1>6, StoreFacts, LenProperties, AppendProperties DEF StoreTypeOK
  <1>8. \A d \in Cells \ {c} : queue'[d] = queue[d] /\ pending'[d] = pending[d]
    BY <1>1, StoreFacts DEF StoreTypeOK, TypeOK
  <1>9. region' = region /\ freeRegions' = freeRegions /\ pinnedRegions' = pinnedRegions /\ lastRead' = lastRead
    BY <1>2 DEF regionVars, history
  <1>10. QueuesExact'
    <2>1. ASSUME NEW d \in Cells, d # c
          PROVE  /\ pending'[d] = {queue'[d][i].pending : i \in 1 .. Len(queue'[d])}
                 /\ \A i, j \in 1 .. Len(queue'[d]) :
                      queue'[d][i].pending = queue'[d][j].pending => i = j
                 /\ region'[d] = NoRegion => queue'[d] = << >>
      BY <2>1, <1>8, <1>9, StoreFacts DEF QueuesExact
    <2>2. pending[c] = {queue[c][i].pending : i \in 1 .. n}
          /\ \A i, j \in 1 .. n : queue[c][i].pending = queue[c][j].pending => i = j
      BY StoreFacts DEF QueuesExact
    <2> HIDE DEF n
    <2>3. pending'[c] = {queue'[c][i].pending : i \in 1 .. n + 1}
      <3>1. \A q : q \in pending'[c] <=> \E i \in 1 .. n + 1 : queue'[c][i].pending = q
        <4> SUFFICES ASSUME NEW q PROVE q \in pending'[c] <=> \E i \in 1 .. n + 1 : queue'[c][i].pending = q
          OBVIOUS
        <4>1. q \in pending[c] => \E i \in 1 .. n + 1 : queue'[c][i].pending = q
          BY <1>7, <2>2
        <4>2. q = p => \E i \in 1 .. n + 1 : queue'[c][i].pending = q
          BY <1>6, <1>7
        <4>3. ASSUME NEW i \in 1 .. n + 1 PROVE queue'[c][i].pending \in pending'[c]
          BY <1>4, <1>6, <1>7, <2>2
        <4> QED BY <4>1, <4>2, <4>3, <1>4
      <3> QED BY <3>1
    <2>4. \A i, j \in 1 .. n + 1 : queue'[c][i].pending = queue'[c][j].pending => i = j
      <3>1. \A i \in 1 .. n : queue'[c][i].pending # p
        BY <1>5, <1>7, <2>2
      <3> QED BY <3>1, <2>2, <1>6, <1>7
    <2>5. region'[c] # NoRegion /\ Len(queue'[c]) = n + 1
      BY <1>1, <1>7, <1>9
    <2> QED BY <2>1, <2>3, <2>4, <2>5 DEF QueuesExact
  <1>11. StoreTypeOK'
    <2>1. queue' \in [Cells -> Seq(QueuedRetire)]
      BY <1>1, <1>7, StoreFacts DEF StoreTypeOK
    <2> QED BY <2>1, <1>2, StoreFacts DEF StoreTypeOK, frameVars, serialVars, regionVars, mirrorVars, history
  <1>12. MirrorTrue'
    <2>1. \A d \in Cells : Occupied(d)' = Occupied(d)
      BY <1>1, <1>3, StoreFacts DEF Occupied, TypeOK
    <2> QED BY <2>1, <1>2, <1>9, StoreFacts
            DEF MirrorTrue, Registered, ShadowTrue, CleanRows, mirrorVars, history
  <1>13. GenerationsCurrent'
    BY <1>2, <1>9, StoreFacts DEF GenerationsCurrent, Registered, mirrorVars
  <1> QED BY <1>2, <1>9, <1>10, <1>11, <1>12, <1>13, StoreFacts, RegionsStay, ReadersStay DEF StoreInv

\* The row that alloc claims belongs to a slot the store has not been told of,
\* and a slot that is new was never stamped.
LEMMA StoreAllocKeeps ==
  ASSUME StoreInv, IInv', NEW c \in Cells, StoreAlloc(c)
  PROVE  StoreInv'
  <1>1. /\ region[c] # NoRegion /\ Alloc(c) /\ len[c] < Capacity
        /\ written' = [written EXCEPT ![c] = @ \ {s \in Slots : slotToRow'[c][s] = len[c]}]
        /\ live' = [live EXCEPT ![c] = @ \union {len[c]}]
        /\ UNCHANGED <<data, pins, pending, frameVars, serialVars, regionVars, queue, mirrorVars, lastRead>>
    BY DEF StoreAlloc, Alloc
  <1>2. PICK slot \in Slots :
          AllocateSlot(c, len[c], slot) /\ slotCol' = [slotCol EXCEPT ![c][len[c]] = slot]
    BY <1>1 DEF Alloc
  <1>3. len[c] \in Rows
    BY <1>1, StoreFacts, Numbers DEF TypeOK, Rows
  <1>4. slotToRow'[c][slot] = len[c]
    BY <1>2, <1>3, StoreFacts DEF AllocateSlot, ReuseSlot, CreateSlot, TypeOK
  <1>5. /\ \A s \in Slots : generations[c][s] # 0 => generations'[c][s] = generations[c][s]
        /\ \A d \in Cells \ {c} : generations'[d] = generations[d]
    <2>1. CASE ReuseSlot(c, len[c], slot)
      BY <2>1 DEF ReuseSlot
    <2>2. CASE CreateSlot(c, len[c], slot)
      <3>1. slot = numSlots[c] /\ generations' = [generations EXCEPT ![c][slot] = 1]
        BY <2>2 DEF CreateSlot
      <3>2. generations[c][slot] = 0
        <4>1. ~(slot < numSlots[c]) /\ generations[c][slot] \in Nat
          BY <3>1, StoreFacts, Numbers DEF TypeOK
        <4>2. slot < numSlots[c] <=> generations[c][slot] > 0
          BY StoreFacts DEF IInv, FreeStacksSound, FreeStackSound
        <4> QED BY <4>1, <4>2
      <3> QED BY <3>1, <3>2, StoreFacts DEF TypeOK
    <2> QED BY <1>2, <2>1, <2>2 DEF AllocateSlot
  <1>6. region' = region /\ freeRegions' = freeRegions /\ pinnedRegions' = pinnedRegions
    BY <1>1 DEF regionVars
  <1>7. GenerationsCurrent'
    <2> SUFFICES ASSUME NEW d \in Registered, NEW t \in Slots
                 PROVE  /\ vramGen[region[d]][t] \in {0, generations'[d][t]}
                        /\ genShadow[d][t] = vramGen[region[d]][t]
      BY <1>1, <1>6 DEF GenerationsCurrent, Registered, mirrorVars
    <2>1. /\ vramGen[region[d]][t] \in {0, generations[d][t]}
          /\ genShadow[d][t] = vramGen[region[d]][t]
      BY StoreFacts DEF GenerationsCurrent
    <2>2. generations[d][t] # 0 => generations'[d][t] = generations[d][t]
      BY <1>5 DEF Registered
    <2> QED BY <2>1, <2>2
  <1>8. MirrorTrue'
    <2> SUFFICES ASSUME NEW d \in Registered PROVE ShadowTrue(d)' /\ CleanRows(d)'
      BY <1>6 DEF MirrorTrue, Registered
    <2>1. d \in Cells /\ region'[d] = region[d] /\ ShadowTrue(d) /\ CleanRows(d)
      BY <1>6, StoreFacts DEF Registered, MirrorTrue
    <2>2. ShadowTrue(d)'
      BY <2>1, <1>1 DEF ShadowTrue, mirrorVars
    <2>3. CASE d # c
      <3>1. Occupied(d)' = Occupied(d) /\ slotCol'[d] = slotCol[d] /\ written'[d] = written[d]
        BY <2>1, <2>3, <1>1, <1>2, StoreFacts DEF Occupied, TypeOK, StoreTypeOK
      <3> QED BY <2>1, <2>2, <3>1, <1>1 DEF CleanRows, mirrorVars
    <2>4. CASE d = c
      <3>1. written'[c] = written[c] \ {s \in Slots : slotToRow'[c][s] = len[c]}
        BY <1>1, StoreFacts DEF StoreTypeOK
      <3>2. slotCol'[c] = [slotCol[c] EXCEPT ![len[c]] = slot] /\ Occupied(c)' \subseteq Occupied(c) \union {len[c]}
            /\ Occupied(c) \subseteq Rows
        BY <1>1, <1>2, StoreFacts DEF TypeOK, Occupied
      <3> SUFFICES ASSUME NEW q \in Occupied(c)', slotCol'[c][q] \in written'[c], q \notin dirty[c]
                   PROVE  vramData[region[c]][q] = data[c][q]
        BY <2>1, <2>2, <2>4, <1>1 DEF CleanRows, mirrorVars
      <3>3. q # len[c]
        <4>1. slotCol[c] \in [Rows -> Slots]
          BY StoreFacts DEF TypeOK
        <4>2. q = len[c] => slotCol'[c][q] = slot
          BY <4>1, <3>2, <1>3
        <4> QED BY <4>2, <3>1, <1>4
      <3>4. q \in Occupied(c) /\ slotCol'[c][q] = slotCol[c][q]
        BY <3>2, <3>3, StoreFacts DEF TypeOK
      <3> QED BY <3>1, <3>4, <2>1, <2>4 DEF CleanRows
    <2> QED BY <2>2, <2>3, <2>4
  <1>9. StoreTypeOK'
    <2>1. written' \in [Cells -> SUBSET Slots]
      BY <1>1, StoreFacts DEF StoreTypeOK
    <2> QED BY <2>1, <1>1, StoreFacts DEF StoreTypeOK, frameVars, serialVars, regionVars, mirrorVars
  <1> QED BY <1>1, <1>6, <1>7, <1>8, <1>9, StoreFacts, RegionsStay, ReadersStay, QueuesStay DEF StoreInv

\* The store knows nothing of a cell that is not registered.
LEMMA LoadCellLeaves ==
  ASSUME StoreInv, IInv', NEW c \in Cells, LoadCell(c)
  PROVE  StoreInv'
  <1>1. /\ region[c] = NoRegion /\ UNCHANGED <<pins, pending, storeVars>>
    BY DEF LoadCell
  <1>2. /\ UNCHANGED <<frameVars, serialVars, regionVars, queue, mirrorVars, history>>
        /\ region' = region /\ freeRegions' = freeRegions /\ pinnedRegions' = pinnedRegions
        /\ lastRead' = lastRead /\ pending' = pending
    BY <1>1 DEF storeVars, regionVars, history
  <1>3. \A d \in Registered : /\ d \in Cells /\ generations'[d] = generations[d]
                              /\ slotCol'[d] = slotCol[d] /\ data'[d] = data[d]
                              /\ Occupied(d)' = Occupied(d)
    <2> SUFFICES ASSUME NEW d \in Registered
                 PROVE  /\ d \in Cells /\ generations'[d] = generations[d]
                        /\ slotCol'[d] = slotCol[d] /\ data'[d] = data[d]
                        /\ live'[d] = live[d] /\ pins'[d] = pins[d]
      BY DEF Occupied
    <2>1. d \in Cells /\ d # c
      BY <1>1 DEF Registered
    <2> QED BY <2>1, StoreFacts DEF LoadCell, TypeOK
  <1>4. GenerationsCurrent'
    BY <1>2, <1>3, StoreFacts DEF GenerationsCurrent, Registered, mirrorVars
  <1>5. MirrorTrue'
    <2> SUFFICES ASSUME NEW d \in Registered PROVE ShadowTrue(d)' /\ CleanRows(d)'
      BY <1>2 DEF MirrorTrue, Registered
    <2>1. ShadowTrue(d) /\ CleanRows(d)
      BY StoreFacts DEF MirrorTrue
    <2> QED BY <2>1, <1>2, <1>3 DEF ShadowTrue, CleanRows, mirrorVars, history
  <1>6. StoreTypeOK'
    BY <1>2, StoreFacts DEF StoreTypeOK, frameVars, serialVars, regionVars, mirrorVars, history
  <1> QED BY <1>2, <1>4, <1>5, <1>6, StoreFacts, RegionsStay, ReadersStay, QueuesStay DEF StoreInv

\* A moved element's new row is marked.
LEMMA StoreCompactMoveKeeps ==
  ASSUME StoreInv, IInv', NEW c \in Cells, StoreCompactMove(c)
  PROVE  StoreInv'
  <1> DEFINE row == compactRow[c]
             last == LastRow(c)
  <1>1. /\ row # Idle /\ len[c] > row + 1 /\ last \in live[c]
        /\ slotCol' = [slotCol EXCEPT ![c] = SwapRows(@, row, last)]
        /\ data' = [data EXCEPT ![c] = SwapRows(@, row, last)]
        /\ live' = [live EXCEPT ![c] = (@ \union {row}) \ {last}]
        /\ dirty' = [dirty EXCEPT ![c] = @ \union {row}]
    BY DEF StoreCompactMove, CompactMove
  <1>2. /\ UNCHANGED <<pins, generations, pending, frameVars, serialVars, regionVars, queue, genShadow,
                       slotShadow, vramGen, vramSlot, vramData, history>>
    BY DEF StoreCompactMove, CompactMove
  <1>3. row \in Rows /\ last \in Rows /\ last \notin pins[c]
    <2>1. len[c] \in 0 .. Capacity /\ row \in 0 .. Capacity /\ live[c] \subseteq Rows
      BY <1>1, StoreFacts DEF TypeOK
    <2>2. row \in Rows
      BY <2>1, <1>1, Numbers DEF Rows
    <2>3. last \notin pins[c]
      BY <1>1, StoreFacts DEF IInv, HandlesResolve, RowsHaveSlots
    <2> QED BY <2>1, <2>2, <2>3, <1>1
  <1> HIDE DEF row, last
  <1>4. region' = region /\ freeRegions' = freeRegions /\ pinnedRegions' = pinnedRegions /\ lastRead' = lastRead
    BY <1>2 DEF regionVars, history
  <1>5. dirty' \in [Cells -> SUBSET Rows]
    BY <1>1, <1>3, StoreFacts DEF StoreTypeOK
  <1>6. StoreTypeOK'
    BY <1>2, <1>5, StoreFacts DEF StoreTypeOK, frameVars, serialVars, regionVars, history
  <1>7. GenerationsCurrent'
    BY <1>2, <1>4, StoreFacts DEF GenerationsCurrent, Registered
  <1>8. MirrorTrue'
    <2> SUFFICES ASSUME NEW d \in Registered PROVE ShadowTrue(d)' /\ CleanRows(d)'
      BY <1>4 DEF MirrorTrue, Registered
    <2>1. d \in Cells /\ region'[d] = region[d] /\ ShadowTrue(d) /\ CleanRows(d) /\ written' = written
      BY <1>2, <1>4, StoreFacts DEF Registered, MirrorTrue, history
    <2>2. ShadowTrue(d)'
      BY <2>1, <1>2 DEF ShadowTrue
    <2>3. CASE d # c
      <3>1. /\ Occupied(d)' = Occupied(d) /\ slotCol'[d] = slotCol[d] /\ dirty'[d] = dirty[d]
            /\ data'[d] = data[d]
        BY <2>1, <2>3, <1>1, <1>2, StoreFacts DEF Occupied, TypeOK, StoreTypeOK
      <3> QED BY <2>1, <2>2, <3>1, <1>2 DEF CleanRows
    <2>4. CASE d = c
      <3>1. /\ live'[c] = (live[c] \union {row}) \ {last} /\ dirty'[c] = dirty[c] \union {row}
            /\ slotCol'[c] = SwapRows(slotCol[c], row, last) /\ data'[c] = SwapRows(data[c], row, last)
            /\ Occupied(c) \subseteq Rows /\ slotCol[c] \in [Rows -> Slots] /\ data[c] \in [Rows -> Values]
        BY <1>1, StoreFacts DEF TypeOK, StoreTypeOK, Occupied
      <3> SUFFICES ASSUME NEW q \in Occupied(c)', slotCol'[c][q] \in written[c], q \notin dirty'[c]
                   PROVE  vramData[region[c]][q] = data'[c][q]
        BY <2>1, <2>2, <2>4, <1>2 DEF CleanRows
      <3>2. q # row /\ q # last /\ q \in Occupied(c) /\ q \notin dirty[c]
        BY <3>1, <1>2, <1>3 DEF Occupied
      <3>3. slotCol'[c][q] = slotCol[c][q] /\ data'[c][q] = data[c][q]
        BY <3>1, <3>2, <1>3 DEF SwapRows
      <3> QED BY <3>2, <3>3, <2>1, <2>4 DEF CleanRows
    <2> QED BY <2>2, <2>3, <2>4
  <1> QED BY <1>2, <1>4, <1>6, <1>7, <1>8, StoreFacts, RegionsStay, ReadersStay, QueuesStay DEF StoreInv

LEMMA StoreCompactStepKeeps ==
  ASSUME StoreInv, IInv', NEW c \in Cells, StoreCompactStep(c)
  PROVE  StoreInv'
  <1>1. CASE StoreCompactMove(c)
    BY <1>1, StoreCompactMoveKeeps
  <1>2. CASE ~StoreCompactMove(c)
    <2>1. /\ UNCHANGED storeVars
          /\ CompactSkip(c) \/ CompactTrim(c) \/ CompactDropHole(c) \/ CompactPinnedTail(c) \/ CompactEnd(c)
      BY <1>2 DEF StoreCompactStep
    <2>2. UNCHANGED <<slotCol, data, live, pins, generations, pending>>
      BY <2>1 DEF CompactSkip, CompactTrim, CompactDropHole, CompactPinnedTail, CompactEnd,
                  pageVars, registryVars
    <2>3. UNCHANGED <<frameVars, serialVars, regionVars, queue, mirrorVars, history, written, lastRead,
                      freeRegions, pinnedRegions>>
      BY <2>1 DEF storeVars, history, regionVars
    <2>4. StoreTypeOK'
      BY <2>3, StoreFacts DEF StoreTypeOK, frameVars, serialVars, regionVars, mirrorVars, history
    <2> QED BY <2>2, <2>3, <2>4, StoreFacts, NothingMirroredMoves, ReadersStay DEF StoreInv
  <1> QED BY <1>1, <1>2

\* What retire_all takes from the front of a queue.
LEMMA QueueHead ==
  ASSUME StoreInv, NEW c \in Cells, Ready(c)
  PROVE  LET p == Head(queue[c]).pending
         IN /\ c \in Registered
            /\ p \in PendingRetire /\ p.slot \in Slots /\ p.nextGen \in 0 .. GenMax
            /\ generations[c][p.slot] + 1 = p.nextGen
            /\ Head(queue[c]) = queue[c][1] /\ Head(queue[c]).serial <= done
            /\ 1 \in 1 .. Len(queue[c]) /\ Len(queue[c]) \in Nat
            /\ Tail(queue[c]) \in Seq(QueuedRetire) /\ Len(Tail(queue[c])) = Len(queue[c]) - 1
            /\ \A i \in 1 .. Len(queue[c]) - 1 : Tail(queue[c])[i] = queue[c][i + 1]
  <1> DEFINE q == queue[c]
             p == q[1].pending
  <1>1. q \in Seq(QueuedRetire) /\ q # << >>
    BY StoreFacts DEF StoreTypeOK, Ready
  <1>2. /\ Len(q) \in Nat /\ 1 \in 1 .. Len(q) /\ Head(q) = q[1]
        /\ Tail(q) \in Seq(QueuedRetire) /\ Len(Tail(q)) = Len(q) - 1
        /\ \A i \in 1 .. Len(q) - 1 : Tail(q)[i] = q[i + 1]
    BY <1>1, EmptySeq, LenProperties, HeadTailProperties
  <1>3. c \in Registered
    BY <1>1, StoreFacts DEF QueuesExact, Registered
  <1>4. p \in PendingRetire /\ p.slot \in Slots /\ generations[c][p.slot] + 1 = p.nextGen
    BY <1>2, StoreFacts, QueuedSlots
  <1>5. p.nextGen \in 0 .. GenMax
    BY <1>4, Numbers DEF PendingRetire
  <1> QED BY <1>2, <1>3, <1>4, <1>5 DEF Ready

LEMMA RetireOneKeeps ==
  ASSUME StoreInv, IInv', NEW c \in Cells, RetireOne(c)
  PROVE  StoreInv'
  <1> DEFINE p == Head(queue[c]).pending
             n == Len(queue[c])
  <1>1. /\ Ready(c) /\ Stamp(c, p.slot, p.nextGen) /\ CommitRetire(c, p)
        /\ written' = [written EXCEPT ![c] = @ \ {p.slot}]
        /\ queue' = [queue EXCEPT ![c] = Tail(@)]
        /\ UNCHANGED <<frameVars, serialVars, regionVars, dirty, slotShadow, vramSlot, vramData, lastRead>>
    BY DEF RetireOne
  <1>2. /\ c \in Registered
        /\ p \in PendingRetire /\ p.slot \in Slots /\ p.nextGen \in 0 .. GenMax
        /\ generations[c][p.slot] + 1 = p.nextGen
        /\ p = queue[c][1].pending
        /\ 1 \in 1 .. n /\ n \in Nat
        /\ Tail(queue[c]) \in Seq(QueuedRetire) /\ Len(Tail(queue[c])) = n - 1
        /\ \A i \in 1 .. n - 1 : Tail(queue[c])[i] = queue[c][i + 1]
    BY <1>1, QueueHead
  <1> HIDE DEF p, n
  <1>3. /\ generations' = [generations EXCEPT ![c][p.slot] = generations[c][p.slot] + 1]
        /\ pins' = [pins EXCEPT ![c] = @ \ {p.row}]
        /\ pending' = [pending EXCEPT ![c] = @ \ {p}]
        /\ UNCHANGED <<slotCol, data, live>>
    BY <1>1 DEF CommitRetire, ReleaseSlot, pageVars
  <1>4. region' = region /\ freeRegions' = freeRegions /\ pinnedRegions' = pinnedRegions
    BY <1>1 DEF regionVars
  <1>5. /\ genShadow' \in [Cells -> [Slots -> 0 .. GenMax]]
        /\ vramGen' \in [Regions -> [Slots -> 0 .. GenMax]]
        /\ \A d \in Registered : \A t \in Slots :
             LET to == IF d = c /\ t = p.slot THEN p.nextGen ELSE vramGen[region[d]][t]
             IN vramGen'[region[d]][t] = to /\ genShadow'[d][t] = to
    BY <1>1, <1>2, Stamped
  <1>6. GenerationsCurrent'
    <2> SUFFICES ASSUME NEW d \in Registered, NEW t \in Slots
                 PROVE  /\ vramGen'[region[d]][t] \in {0, generations'[d][t]}
                        /\ genShadow'[d][t] = vramGen'[region[d]][t]
      BY <1>4 DEF GenerationsCurrent, Registered
    <2>1. vramGen[region[d]][t] \in {0, generations[d][t]}
      BY StoreFacts DEF GenerationsCurrent
    <2>2. generations'[d][t] = IF d = c /\ t = p.slot THEN p.nextGen ELSE generations[d][t]
      BY <1>2, <1>3, StoreFacts DEF TypeOK, Registered
    <2> QED BY <2>1, <2>2, <1>5
  <1>7. MirrorTrue'
    <2>1. \A d \in Registered : /\ d \in Cells /\ Occupied(d)' \subseteq Occupied(d)
                                /\ written'[d] \subseteq written[d]
      BY <1>1, <1>3, StoreFacts DEF Occupied, TypeOK, StoreTypeOK, Registered
    <2> QED BY <2>1, <1>1, <1>3, <1>4, StoreFacts DEF MirrorTrue, Registered, ShadowTrue, CleanRows
  <1>8. StoreTypeOK'
    <2>1. queue' \in [Cells -> Seq(QueuedRetire)] /\ written' \in [Cells -> SUBSET Slots]
      BY <1>1, <1>2, StoreFacts DEF StoreTypeOK
    <2> QED BY <2>1, <1>1, <1>5, StoreFacts DEF StoreTypeOK, frameVars, serialVars, regionVars
  <1>9. QueuesExact'
    <2>1. /\ pending[c] = {queue[c][i].pending : i \in 1 .. n}
          /\ \A i, j \in 1 .. n : queue[c][i].pending = queue[c][j].pending => i = j
      BY StoreFacts DEF QueuesExact, n
    <2>2. queue'[c] = Tail(queue[c]) /\ pending'[c] = pending[c] \ {p}
      BY <1>1, <1>3, StoreFacts DEF StoreTypeOK, TypeOK
    <2>3. \A d \in Cells \ {c} : queue'[d] = queue[d] /\ pending'[d] = pending[d]
      BY <1>1, <1>3, StoreFacts DEF StoreTypeOK, TypeOK
    <2>4. Len(queue'[c]) = n - 1 /\ \A i \in 1 .. n - 1 : queue'[c][i] = queue[c][i + 1]
      BY <1>2, <2>2
    <2>5. pending'[c] = {queue'[c][i].pending : i \in 1 .. n - 1}
      <3>1. ASSUME NEW i \in 1 .. n - 1 PROVE queue'[c][i].pending \in pending'[c]
        <4>1. i + 1 \in 1 .. n /\ i + 1 # 1
          BY <1>2
        <4> QED BY <4>1, <2>1, <2>2, <2>4, <1>2
      <3>2. ASSUME NEW x \in pending'[c] PROVE \E i \in 1 .. n - 1 : queue'[c][i].pending = x
        <4>1. PICK j \in 1 .. n : queue[c][j].pending = x
          BY <3>2, <2>1, <2>2
        <4>2. j # 1
          BY <4>1, <3>2, <2>2, <1>2
        <4>3. j - 1 \in 1 .. n - 1 /\ j - 1 + 1 = j
          BY <4>2, <1>2
        <4> QED BY <4>1, <4>3, <2>4
      <3> QED BY <3>1, <3>2
    <2>6. ASSUME NEW i \in 1 .. n - 1, NEW j \in 1 .. n - 1, queue'[c][i].pending = queue'[c][j].pending
          PROVE  i = j
      <3>1. i + 1 \in 1 .. n /\ j + 1 \in 1 .. n
        BY <1>2
      <3>2. i + 1 = j + 1
        BY <3>1, <2>1, <2>4, <2>6
      <3> QED BY <3>2, <1>2
    <2>7. region'[c] # NoRegion
      BY <1>2, <1>4 DEF Registered
    <2> QED BY <2>3, <2>4, <2>5, <2>6, <2>7, <1>4, StoreFacts DEF QueuesExact
  <1> QED BY <1>1, <1>4, <1>6, <1>7, <1>8, <1>9, StoreFacts, RegionsStay, ReadersStay DEF StoreInv

------------------------------------------------------------------------------
(* The regions *)

LEMMA RegionTypes ==
  ASSUME StoreInv
  PROVE  /\ \A c \in Registered : c \in Cells /\ region[c] \in Regions
         /\ \A c \in Cells \ Registered : region[c] = NoRegion
         /\ NoRegion \notin Regions
         /\ Len(freeRegions) \in Nat /\ DOMAIN freeRegions = 1 .. Len(freeRegions)
         /\ Len(pinnedRegions) \in Nat /\ DOMAIN pinnedRegions = 1 .. Len(pinnedRegions)
         /\ \A i \in 1 .. Len(pinnedRegions) : /\ pinnedRegions[i].base \in Regions
                                               /\ pinnedRegions[i].serial \in Serials
  <1>1. NoRegion \notin Regions
    BY StoreAssumption DEF Regions
  <1>2. \A c \in Registered : c \in Cells /\ region[c] \in Regions
    BY StoreFacts DEF StoreTypeOK, Registered
  <1>3. Len(freeRegions) \in Nat /\ DOMAIN freeRegions = 1 .. Len(freeRegions)
    BY StoreFacts, LenProperties DEF StoreTypeOK
  <1>4. /\ Len(pinnedRegions) \in Nat /\ DOMAIN pinnedRegions = 1 .. Len(pinnedRegions)
        /\ \A i \in 1 .. Len(pinnedRegions) : /\ pinnedRegions[i].base \in Regions
                                              /\ pinnedRegions[i].serial \in Serials
    <2> PICK Pins : Pins = [base : Regions, serial : Serials]
      OBVIOUS
    <2>1. pinnedRegions \in Seq(Pins)
      BY StoreFacts DEF StoreTypeOK
    <2>2. /\ Len(pinnedRegions) \in Nat /\ DOMAIN pinnedRegions = 1 .. Len(pinnedRegions)
          /\ \A i \in 1 .. Len(pinnedRegions) : pinnedRegions[i] \in Pins
      BY <2>1, LenProperties
    <2>3. \A x \in Pins : x.base \in Regions /\ x.serial \in Serials
      OBVIOUS
    <2> QED BY <2>2, <2>3
  <1> QED BY <1>1, <1>2, <1>3, <1>4 DEF Registered

\* A region that was free has no other owner, and the cell's rows are all marked.
LEMMA RegisterKeeps ==
  ASSUME StoreInv, IInv', NEW c \in Cells, Register(c)
  PROVE  StoreInv'
  <1> DEFINE g == Last(freeRegions)
  <1>1. /\ region[c] = NoRegion /\ freeRegions # << >>
        /\ region' = [region EXCEPT ![c] = g]
        /\ vramGen' = [vramGen EXCEPT ![g] = generations[c]]
        /\ freeRegions' = Front(freeRegions)
        /\ genShadow'  = [genShadow EXCEPT ![c] = generations[c]]
        /\ dirty'      = [dirty EXCEPT ![c] = 0 .. len[c] - 1]
        /\ slotShadow' = [slotShadow EXCEPT ![c] = NoSlots]
        /\ written'    = [written EXCEPT ![c] = MappedSlots(c)]
        /\ UNCHANGED <<cellVars, frameVars, serialVars, pinnedRegions, queue, vramSlot, vramData, lastRead>>
    BY DEF Register
  <1>2. UNCHANGED <<len, slotCol, data, live, pins, generations, pending>>
    BY <1>1 DEF cellVars, pageVars, registryVars
  <1>3. /\ freeRegions \in Seq(Regions) /\ IsInjective(freeRegions)
        /\ HeldRegions \intersect ToSet(freeRegions) = {}
    BY StoreFacts DEF StoreTypeOK, RegionsPlaced, PlacesApart
  <1>4. g \in Regions /\ freeRegions' \in Seq(Regions)
    BY <1>1, <1>3, FrontLast
  <1>5. g \in ToSet(freeRegions) /\ ToSet(freeRegions') = ToSet(freeRegions) \ {g} /\ IsInjective(freeRegions')
    BY <1>1, <1>3, PopDistinct
  <1> HIDE DEF g
  <1>6. /\ region'[c] = g /\ \A d \in Cells \ {c} : region'[d] = region[d]
        /\ Registered' = Registered \union {c} /\ c \notin Registered
    BY <1>1, <1>4, RegionTypes, StoreFacts DEF Registered, StoreTypeOK
  <1>7. g # NoRegion /\ g \notin HeldRegions /\ \A d \in Registered : d # c /\ region[d] # g /\ d \in Cells
    BY <1>3, <1>4, <1>5, <1>6, RegionTypes DEF HeldRegions
  <1>8. RegionsPlaced'
    <2>1. HeldRegions' = HeldRegions \union {g}
      BY <1>6, <1>7 DEF HeldRegions
    <2>2. OneCellEach'
      BY <1>6, <1>7, StoreFacts DEF OneCellEach
    <2>3. PinnedOnce' /\ PinnedBases' = PinnedBases
      BY <1>1, StoreFacts DEF RegionsPlaced, PinnedOnce, PinnedBases
    <2>4. PlacesApart(HeldRegions', ToSet(freeRegions'), PinnedBases')
      BY <2>1, <2>3, <1>5, <1>7, StoreFacts DEF RegionsPlaced, PlacesApart
    <2>5. ToSet(freeRegions') = ToSet(freeRegions)'
      BY DEF ToSet
    <2> QED BY <2>2, <2>3, <2>4, <2>5, <1>5 DEF RegionsPlaced, PlacesApart
  <1>9. ReadersOver'
    BY <1>1, <1>5, StoreFacts DEF ReadersOver, frameVars, serialVars
  <1>10. QueuesExact'
    BY <1>1, <1>2, <1>6, <1>7, StoreFacts DEF QueuesExact
  <1>11. GenerationsCurrent'
    <2>1. vramGen'[g] = generations[c] /\ genShadow'[c] = generations[c]
      BY <1>1, <1>4, StoreFacts DEF StoreTypeOK
    <2>2. \A d \in Registered : vramGen'[region[d]] = vramGen[region[d]] /\ genShadow'[d] = genShadow[d]
      BY <1>1, <1>7, RegionTypes, StoreFacts DEF StoreTypeOK
    <2>3. \A d \in Registered : region'[d] = region[d]
      BY <1>6, <1>7
    <2> QED BY <2>1, <2>2, <2>3, <1>2, <1>6, StoreFacts DEF GenerationsCurrent
  <1>12. MirrorTrue'
    <2> SUFFICES ASSUME NEW d \in Registered' PROVE ShadowTrue(d)' /\ CleanRows(d)'
      BY DEF MirrorTrue
    <2>1. CASE d = c
      <3>1. slotShadow'[c] = NoSlots /\ dirty'[c] = 0 .. len[c] - 1
        BY <1>1, StoreFacts DEF StoreTypeOK
      <3>2. ShadowTrue(c)'
        BY <3>1 DEF ShadowTrue, NoSlots
      <3>3. \A r \in Occupied(c)' : r \in dirty'[c]
        <4> SUFFICES ASSUME NEW r \in Occupied(c) PROVE r \in 0 .. len[c] - 1
          BY <3>1, <1>2 DEF Occupied
        <4>1. r < len[c] /\ r \in Rows /\ len[c] \in Nat
          BY StoreFacts, Numbers DEF IInv, HandlesResolve, RowsHaveSlots, TypeOK, Occupied
        <4> QED BY <4>1 DEF Rows
      <3> QED BY <2>1, <3>2, <3>3 DEF CleanRows
    <2>2. CASE d # c
      <3>1. d \in Registered /\ d \in Cells /\ region'[d] = region[d]
        BY <2>2, <1>6, <1>7
      <3>2. /\ dirty'[d] = dirty[d] /\ slotShadow'[d] = slotShadow[d] /\ written'[d] = written[d]
        BY <2>2, <3>1, <1>1, StoreFacts DEF StoreTypeOK
      <3>3. ShadowTrue(d) /\ CleanRows(d)
        BY <3>1, StoreFacts DEF MirrorTrue
      <3> QED BY <3>1, <3>2, <3>3, <1>1, <1>2 DEF ShadowTrue, CleanRows, Occupied
    <2> QED BY <2>1, <2>2
  <1>13. StoreTypeOK'
    <2>1. region' \in [Cells -> Regions \union {NoRegion}]
      BY <1>1, <1>4, StoreFacts DEF StoreTypeOK
    <2>2. /\ genShadow' \in [Cells -> [Slots -> 0 .. GenMax]]
          /\ vramGen' \in [Regions -> [Slots -> 0 .. GenMax]]
      <3>1. generations[c] \in [Slots -> 0 .. GenMax]
        BY StoreFacts DEF TypeOK
      <3> QED BY <3>1, <1>1, <1>4, StoreFacts DEF StoreTypeOK
    <2>3. dirty' \in [Cells -> SUBSET Rows]
      <3>1. 0 .. len[c] - 1 \subseteq Rows
        BY StoreFacts, Numbers DEF TypeOK, Rows
      <3> QED BY <3>1, <1>1, StoreFacts DEF StoreTypeOK
    <2>4. slotShadow' \in [Cells -> [Rows -> Slots \union {NoShadow}]]
      BY <1>1, StoreFacts DEF StoreTypeOK, NoSlots
    <2>5. written' \in [Cells -> SUBSET Slots]
      BY <1>1, StoreFacts DEF StoreTypeOK, MappedSlots
    <2> QED BY <2>1, <2>2, <2>3, <2>4, <2>5, <1>1, <1>4, StoreFacts DEF StoreTypeOK, frameVars, serialVars
  <1> QED BY <1>8, <1>9, <1>10, <1>11, <1>12, <1>13 DEF StoreInv

\* The evicted cell's region waits for the frame being built.
LEMMA UnregisterStores ==
  ASSUME StoreInv, IInv', NEW c \in Cells, Unregister(c)
  PROVE  StoreInv'
  <1> DEFINE e == [base |-> region[c], serial |-> frame]
             n == Len(pinnedRegions)
  <1>1. /\ c \in Registered /\ frame \in Serials
        /\ pins' = [pins EXCEPT ![c] = {}]
        /\ pending' = [pending EXCEPT ![c] = {}]
        /\ pinnedRegions' = Append(pinnedRegions, e)
        /\ region' = [region EXCEPT ![c] = NoRegion]
        /\ queue' = [queue EXCEPT ![c] = << >>]
        /\ dirty' = [dirty EXCEPT ![c] = {}]
        /\ genShadow' = [genShadow EXCEPT ![c] = NoGenerations]
        /\ slotShadow' = [slotShadow EXCEPT ![c] = NoSlots]
        /\ written' = [written EXCEPT ![c] = {}]
        /\ UNCHANGED <<slotCol, data, live, frameVars, serialVars, freeRegions, vramGen, vramSlot,
                       vramData, lastRead>>
    BY DEF Unregister, pageVars, Registered
  <1>2. \A d \in Cells \ {c} : generations'[d] = generations[d]
    <2>1. \E x : generations' = [generations EXCEPT ![c] = x]
      BY DEF Unregister
    <2> QED BY <2>1, StoreFacts DEF TypeOK
  <1>3. region[c] \in Regions /\ e \in [base : Regions, serial : Serials]
    BY <1>1, RegionTypes
  <1>4. e.base = region[c] /\ e.serial = frame
    OBVIOUS
  <1> HIDE DEF e
  <1>5. /\ n \in Nat /\ Len(pinnedRegions') = n + 1 /\ pinnedRegions'[n + 1] = e
        /\ \A i \in 1 .. n : pinnedRegions'[i] = pinnedRegions[i]
        /\ pinnedRegions' \in Seq([base : Regions, serial : Serials])
    BY <1>1, <1>3, StoreFacts, LenProperties, AppendProperties DEF StoreTypeOK
  <1>6. /\ region'[c] = NoRegion /\ \A d \in Cells \ {c} : region'[d] = region[d]
        /\ Registered' = Registered \ {c}
    BY <1>1, StoreFacts DEF StoreTypeOK, Registered
  <1>7. \A d \in Registered' : d \in Registered /\ d \in Cells \ {c} /\ region'[d] = region[d]
    BY <1>6 DEF Registered
  <1>8. \A i \in 1 .. n : pinnedRegions[i].base # region[c]
    BY <1>1, StoreFacts DEF RegionsPlaced, PlacesApart, HeldRegions, PinnedBases
  <1> HIDE DEF n
  <1>9. RegionsPlaced'
    <2>1. HeldRegions' = HeldRegions \ {region[c]}
      BY <1>1, <1>6, <1>7, StoreFacts DEF HeldRegions, OneCellEach
    <2>2. OneCellEach'
      BY <1>7, StoreFacts DEF OneCellEach
    <2>3. PinnedBases' = PinnedBases \union {region[c]}
      <3>1. \A i \in 1 .. n + 1 : i \in 1 .. n \/ i = n + 1
        BY <1>5
      <3>2. n + 1 \in 1 .. n + 1 /\ \A i \in 1 .. n : i \in 1 .. n + 1
        BY <1>5
      <3>3. PinnedBases' = {pinnedRegions'[i].base : i \in 1 .. n + 1}
        BY <1>5 DEF PinnedBases
      <3>4. PinnedBases = {pinnedRegions[i].base : i \in 1 .. n}
        BY DEF PinnedBases, n
      <3> QED BY <3>1, <3>2, <3>3, <3>4, <1>4, <1>5
    <2>4. PinnedOnce'
      <3>1. \A i, j \in 1 .. n : pinnedRegions[i].base = pinnedRegions[j].base => i = j
        BY StoreFacts DEF RegionsPlaced, PinnedOnce, n
      <3> SUFFICES ASSUME NEW i \in 1 .. n + 1, NEW j \in 1 .. n + 1,
                          pinnedRegions'[i].base = pinnedRegions'[j].base
                   PROVE  i = j
        BY <1>5 DEF PinnedOnce
      <3> QED BY <3>1, <1>4, <1>5, <1>8
    <2>5. ToSet(freeRegions)' = ToSet(freeRegions) /\ region[c] \in HeldRegions
      BY <1>1 DEF HeldRegions
    <2>6. PlacesApart(HeldRegions', ToSet(freeRegions), PinnedBases')
      BY <2>1, <2>3, <2>5, StoreFacts DEF RegionsPlaced, PlacesApart
    <2> QED BY <2>2, <2>4, <2>5, <2>6, <1>1, StoreFacts DEF RegionsPlaced, PlacesApart
  <1>10. ReadersOver'
    <2>1. \A i \in 1 .. n + 1 : lastRead[pinnedRegions'[i].base] <= pinnedRegions'[i].serial
      <3>1. lastRead[e.base] <= e.serial
        <4>1. lastRead[region[c]] \in Nat /\ lastRead[region[c]] < frame /\ frame \in Nat
          BY <1>3, StoreFacts, Numbers DEF ReadersOver, StoreTypeOK
        <4> QED BY <4>1, <1>4
      <3>2. \A i \in 1 .. n : lastRead[pinnedRegions[i].base] <= pinnedRegions[i].serial
        BY StoreFacts DEF ReadersOver, n
      <3> QED BY <3>1, <3>2, <1>5
    <2> QED BY <2>1, <1>1, <1>5, StoreFacts DEF ReadersOver, frameVars, serialVars
  <1>11. QueuesExact'
    <2>1. queue'[c] = << >> /\ pending'[c] = {}
      BY <1>1, StoreFacts DEF StoreTypeOK, TypeOK, Registered
    <2>2. Len(queue'[c]) = 0
      BY <2>1, EmptySeq
    <2>3. \A d \in Cells \ {c} : queue'[d] = queue[d] /\ pending'[d] = pending[d]
      BY <1>1, StoreFacts DEF StoreTypeOK, TypeOK
    <2> QED BY <2>1, <2>2, <2>3, <1>6, StoreFacts DEF QueuesExact
  <1>12. \A d \in Registered' :
           /\ pins'[d] = pins[d] /\ dirty'[d] = dirty[d] /\ genShadow'[d] = genShadow[d]
           /\ slotShadow'[d] = slotShadow[d] /\ written'[d] = written[d]
    BY <1>1, <1>7, StoreFacts DEF StoreTypeOK, TypeOK
  <1>13. GenerationsCurrent'
    BY <1>1, <1>2, <1>7, <1>12, StoreFacts DEF GenerationsCurrent
  <1>14. MirrorTrue'
    <2> SUFFICES ASSUME NEW d \in Registered' PROVE ShadowTrue(d)' /\ CleanRows(d)'
      BY DEF MirrorTrue
    <2>1. ShadowTrue(d) /\ CleanRows(d) /\ region'[d] = region[d]
      BY <1>7, StoreFacts DEF MirrorTrue
    <2> QED BY <2>1, <1>1, <1>12 DEF ShadowTrue, CleanRows, Occupied
  <1>15. StoreTypeOK'
    <2>1. region' \in [Cells -> Regions \union {NoRegion}] /\ queue' \in [Cells -> Seq(QueuedRetire)]
      BY <1>1, EmptySeq, StoreFacts DEF StoreTypeOK
    <2>2. genShadow' \in [Cells -> [Slots -> 0 .. GenMax]]
      <3>1. NoGenerations \in [Slots -> 0 .. GenMax]
        BY Numbers DEF NoGenerations
      <3> QED BY <3>1, <1>1, StoreFacts DEF StoreTypeOK
    <2>3. /\ dirty' \in [Cells -> SUBSET Rows] /\ written' \in [Cells -> SUBSET Slots]
          /\ slotShadow' \in [Cells -> [Rows -> Slots \union {NoShadow}]]
      BY <1>1, StoreFacts DEF StoreTypeOK, NoSlots
    <2> QED BY <2>1, <2>2, <2>3, <1>1, <1>5, StoreFacts DEF StoreTypeOK, frameVars, serialVars
  <1> QED BY <1>9, <1>10, <1>11, <1>13, <1>14, <1>15 DEF StoreInv

\* What a pool keeps, or drains, of its pinned regions.
LEMMA PinnedPart ==
  ASSUME StoreInv, NEW keep \in SUBSET DOMAIN pinnedRegions
  PROVE  LET t == Retained(pinnedRegions, keep)
         IN /\ t \in Seq([base : Regions, serial : Serials]) /\ Len(t) \in Nat
            /\ \A i \in 1 .. Len(t) : t[i].base \in Regions /\ \E k \in keep : t[i] = pinnedRegions[k]
            /\ \A k \in keep : \E i \in 1 .. Len(t) : t[i] = pinnedRegions[k]
            /\ \A i, j \in 1 .. Len(t) : t[i].base = t[j].base => i = j
  <1> PICK Pins : Pins = [base : Regions, serial : Serials]
    OBVIOUS
  <1> DEFINE n == Cardinality(keep)
             t == Retained(pinnedRegions, keep)
  <1>1. pinnedRegions \in Seq(Pins)
    BY StoreFacts DEF StoreTypeOK
  <1>2. /\ n \in Nat /\ t \in Seq(Pins) /\ Len(t) = n
        /\ \E place \in Bijection(1 .. n, keep) : t = [j \in 1 .. n |-> pinnedRegions[place[j]]]
    BY <1>1, RetainedElements
  <1>3. PICK place \in Bijection(1 .. n, keep) : t = [j \in 1 .. n |-> pinnedRegions[place[j]]]
    BY <1>2
  <1> HIDE DEF n, t
  <1>4. /\ \A j \in 1 .. n : place[j] \in keep
        /\ \A i, j \in 1 .. n : place[i] = place[j] => i = j
        /\ \A k \in keep : \E j \in 1 .. n : place[j] = k
    BY DEF Bijection, Injection, Surjection, IsInjective
  <1>5. \A j \in 1 .. n : t[j] = pinnedRegions[place[j]]
    BY <1>3
  <1>6. \A k \in keep : k \in 1 .. Len(pinnedRegions) /\ pinnedRegions[k].base \in Regions
    BY RegionTypes
  <1>7. \A k, l \in keep : pinnedRegions[k].base = pinnedRegions[l].base => k = l
    BY <1>6, StoreFacts DEF RegionsPlaced, PinnedOnce
  <1>8. \A i, j \in 1 .. n : t[i].base = t[j].base => i = j
    BY <1>4, <1>5, <1>7
  <1>9. \A i \in 1 .. n : t[i].base \in Regions /\ \E k \in keep : t[i] = pinnedRegions[k]
    BY <1>4, <1>5, <1>6
  <1>10. \A k \in keep : \E i \in 1 .. n : t[i] = pinnedRegions[k]
    BY <1>4, <1>5
  <1> QED BY <1>2, <1>8, <1>9, <1>10 DEF t

\* A drained region was last read under a serial that has completed.
LEMMA RetireEndKeeps ==
  ASSUME StoreInv, IInv', RetireEnd
  PROVE  StoreInv'
  <1> DEFINE over == {i \in DOMAIN pinnedRegions : pinnedRegions[i].serial <= done}
             rest == DOMAIN pinnedRegions \ over
             drained == Retained(pinnedRegions, over)
             left == Retained(pinnedRegions, rest)
             back == [i \in 1 .. Len(drained) |-> drained[i].base]
  <1>1. /\ phase = "Retiring" /\ phase' = "Retired" /\ done' = 0
        /\ freeRegions' = freeRegions \o back
        /\ pinnedRegions' = left
        /\ UNCHANGED <<cellVars, toVisit, serialVars, region, queue, mirrorVars, history>>
    BY DEF RetireEnd
  <1>2. over \in SUBSET DOMAIN pinnedRegions /\ rest \in SUBSET DOMAIN pinnedRegions
    OBVIOUS
  <1>3. /\ drained \in Seq([base : Regions, serial : Serials]) /\ Len(drained) \in Nat
        /\ \A i \in 1 .. Len(drained) : /\ drained[i].base \in Regions
                                        /\ \E k \in over : drained[i] = pinnedRegions[k]
        /\ \A k \in over : \E i \in 1 .. Len(drained) : drained[i] = pinnedRegions[k]
        /\ \A i, j \in 1 .. Len(drained) : drained[i].base = drained[j].base => i = j
    <2> HIDE DEF over
    <2> QED BY <1>2, PinnedPart
  <1>4. /\ left \in Seq([base : Regions, serial : Serials]) /\ Len(left) \in Nat
        /\ \A i \in 1 .. Len(left) : /\ left[i].base \in Regions
                                     /\ \E k \in rest : left[i] = pinnedRegions[k]
        /\ \A k \in rest : \E i \in 1 .. Len(left) : left[i] = pinnedRegions[k]
        /\ \A i, j \in 1 .. Len(left) : left[i].base = left[j].base => i = j
    <2> HIDE DEF rest
    <2> QED BY <1>2, PinnedPart
  <1>5. /\ \A k \in over : k \in 1 .. Len(pinnedRegions) /\ pinnedRegions[k].serial <= done
        /\ \A k \in rest : k \in 1 .. Len(pinnedRegions) /\ k \notin over
        /\ \A k \in 1 .. Len(pinnedRegions) : k \in over \/ k \in rest
    BY RegionTypes
  <1> DEFINE m == Len(drained)
             Over == {pinnedRegions[k].base : k \in over}
  <1> HIDE DEF over, rest, drained, left
  <1>6. back \in Seq(Regions) /\ IsInjective(back) /\ ToSet(back) = Over
    <2>1. m \in Nat /\ \A i \in 1 .. m : drained[i].base \in Regions
      BY <1>3
    <2>2. back \in Seq(Regions) /\ DOMAIN back = 1 .. m
      <3> HIDE DEF m
      <3>1. back = [i \in 1 .. m |-> drained[i].base]
        BY DEF m
      <3> HIDE DEF back
      <3> QED BY <2>1, <3>1, IsASeq
    <2>3. IsInjective(back)
      BY <2>2, <1>3 DEF IsInjective
    <2>4. ToSet(back) = {drained[i].base : i \in 1 .. m}
      BY <2>2 DEF ToSet
    <2>5. {drained[i].base : i \in 1 .. m} = Over
      <3>1. \A i \in 1 .. m : \E k \in over : drained[i].base = pinnedRegions[k].base
        BY <1>3
      <3>2. \A k \in over : \E i \in 1 .. m : pinnedRegions[k].base = drained[i].base
        BY <1>3
      <3> QED BY ONLY <3>1, <3>2 DEF Over
    <2> QED BY <2>2, <2>3, <2>4, <2>5
  <1> HIDE DEF back
  <1>7. {left[i].base : i \in 1 .. Len(left)} = {pinnedRegions[k].base : k \in rest}
    BY <1>4
  <1>8. /\ PinnedBases = Over \union {left[i].base : i \in 1 .. Len(left)}
        /\ Over \intersect {left[i].base : i \in 1 .. Len(left)} = {}
    <2>1. PinnedBases = Over \union {pinnedRegions[k].base : k \in rest}
      BY <1>5 DEF PinnedBases
    <2>2. \A k \in over, l \in rest : pinnedRegions[k].base # pinnedRegions[l].base
      BY <1>5, StoreFacts DEF RegionsPlaced, PinnedOnce
    <2> QED BY <2>1, <2>2, <1>7
  <1>9. PinnedBases' = {left[i].base : i \in 1 .. Len(left)}
    BY <1>1 DEF PinnedBases
  <1>10. /\ freeRegions' \in Seq(Regions) /\ IsInjective(freeRegions')
         /\ ToSet(freeRegions') = ToSet(freeRegions) \union Over
    <2>1. freeRegions \in Seq(Regions) /\ IsInjective(freeRegions) /\ ToSet(freeRegions) \intersect PinnedBases = {}
      BY StoreFacts DEF StoreTypeOK, RegionsPlaced, PlacesApart
    <2>2. ToSet(freeRegions) \intersect ToSet(back) = {}
      BY <2>1, <1>6, <1>8
    <2> QED BY <1>1, <1>6, <2>1, <2>2, ConcatDistinct
  <1>11. ToSet(freeRegions)' = ToSet(freeRegions')
    BY DEF ToSet
  <1>12. HeldRegions' = HeldRegions /\ OneCellEach'
    BY <1>1, StoreFacts DEF HeldRegions, Registered, OneCellEach
  <1>13. RegionsPlaced'
    <2>1. PinnedOnce'
      BY <1>1, <1>4 DEF PinnedOnce
    <2>2. PlacesApart(HeldRegions, ToSet(freeRegions) \union Over, PinnedBases')
      BY <1>8, <1>9, StoreFacts DEF RegionsPlaced, PlacesApart
    <2> QED BY <2>1, <2>2, <1>10, <1>11, <1>12 DEF RegionsPlaced, PlacesApart
  <1>14. ReadersOver'
    <2>1. completed' = completed /\ frame' = frame /\ lastRead' = lastRead
      BY <1>1 DEF serialVars, history
    <2>2. \A g \in Over : lastRead[g] <= completed
      <3> SUFFICES ASSUME NEW k \in over PROVE lastRead[pinnedRegions[k].base] <= completed
        OBVIOUS
      <3>1. /\ k \in 1 .. Len(pinnedRegions) /\ pinnedRegions[k].serial <= done /\ done <= completed
            /\ lastRead[pinnedRegions[k].base] <= pinnedRegions[k].serial
        BY <1>1, <1>5, StoreFacts DEF ReadersOver
      <3>2. /\ pinnedRegions[k].base \in Regions /\ pinnedRegions[k].serial \in Nat
            /\ done \in Nat /\ completed \in Nat
        <4>1. pinnedRegions[k].base \in Regions /\ pinnedRegions[k].serial \in Nat
          <5>1. pinnedRegions[k].base \in Regions /\ pinnedRegions[k].serial \in Serials
            BY <3>1, RegionTypes
          <5>2. Serials \subseteq Nat
            BY Numbers DEF Serials
          <5> QED BY ONLY <5>1, <5>2
        <4>2. done \in Nat /\ completed \in Nat
          BY StoreFacts, Numbers DEF StoreTypeOK
        <4> QED BY <4>1, <4>2
      <3>3. lastRead[pinnedRegions[k].base] \in Nat
        BY <3>2, StoreFacts, Numbers DEF StoreTypeOK
      <3> QED BY <3>1, <3>2, <3>3
    <2>3. \A i \in 1 .. Len(left) : lastRead[left[i].base] <= left[i].serial
      BY <1>4, <1>5, StoreFacts DEF ReadersOver
    <2> QED BY <1>1, <2>1, <2>2, <2>3, <1>10, <1>11, StoreFacts DEF ReadersOver
  <1>15. QueuesExact' /\ GenerationsCurrent' /\ MirrorTrue'
    BY <1>1, StoreFacts DEF QueuesExact, GenerationsCurrent, MirrorTrue, ShadowTrue, CleanRows, Registered,
                            Occupied, cellVars, pageVars, registryVars, mirrorVars, history
  <1>16. StoreTypeOK'
    BY <1>1, <1>4, <1>10, StoreFacts, Numbers DEF StoreTypeOK, serialVars, mirrorVars, history
  <1> QED BY <1>13, <1>14, <1>15, <1>16 DEF StoreInv

------------------------------------------------------------------------------
(* The uploads *)

\* The region of a registered cell gets that cell's rows.
LEMMA Synced ==
  ASSUME StoreInv, SyncAll, NEW c \in Registered, NEW r \in Rows
  PROVE  /\ vramData'[region[c]][r] = IF r < len[c] /\ r \in dirty[c]
                                        THEN data[c][r] ELSE vramData[region[c]][r]
         /\ vramSlot'[region[c]][r] = IF r < len[c] /\ slotShadow[c][r] # slotCol[c][r]
                                        THEN GlobalSlot(region[c], slotCol[c][r])
                                        ELSE vramSlot[region[c]][r]
  <1> DEFINE g == region[c]
             owner == CHOOSE d \in Cells : region[d] = g
  <1>1. c \in Cells /\ g \in Regions /\ g # NoRegion
    BY RegionTypes
  <1>2. \A d \in Cells : region[d] = g => d = c
    BY <1>1, StoreFacts DEF OneCellEach, Registered
  <1>3. owner = c
    BY <1>1, <1>2
  <1>4. /\ vramData'[g][r] = IF \E d \in Cells : region[d] = g /\ r < len[d] /\ r \in dirty[d]
                               THEN data[owner][r] ELSE vramData[g][r]
        /\ vramSlot'[g][r] = IF \E d \in Cells : region[d] = g /\ r < len[d]
                                                 /\ slotShadow[d][r] # slotCol[d][r]
                               THEN GlobalSlot(g, slotCol[owner][r]) ELSE vramSlot[g][r]
    BY <1>1 DEF SyncAll
  <1> HIDE DEF g, owner
  <1>5. /\ (\E d \in Cells : region[d] = g /\ r < len[d] /\ r \in dirty[d])
             <=> r < len[c] /\ r \in dirty[c]
        /\ (\E d \in Cells : region[d] = g /\ r < len[d] /\ slotShadow[d][r] # slotCol[d][r])
             <=> r < len[c] /\ slotShadow[c][r] # slotCol[c][r]
    BY <1>1, <1>2 DEF g
  <1> QED BY <1>3, <1>4, <1>5 DEF g

LEMMA SyncAllTypes ==
  ASSUME StoreInv, SyncAll
  PROVE  /\ vramData' \in [Regions -> [Rows -> Values]]
         /\ vramSlot' \in [Regions -> [Rows -> Regions \X Slots]]
         /\ slotShadow' \in [Cells -> [Rows -> Slots \union {NoShadow}]]
         /\ dirty' \in [Cells -> SUBSET Rows]
  <1> DEFINE owner(g) == CHOOSE d \in Cells : region[d] = g
             fresh(g, r) == \E c \in Cells : (region[c] = g /\ r < len[c]) /\ r \in dirty[c]
             moved(g, r) == \E c \in Cells : (region[c] = g /\ r < len[c])
                                             /\ slotShadow[c][r] # slotCol[c][r]
  <1>1. /\ vramData' = [g \in Regions |-> [r \in Rows |->
             IF fresh(g, r) THEN data[owner(g)][r] ELSE vramData[g][r]]]
        /\ vramSlot' = [g \in Regions |-> [r \in Rows |->
             IF moved(g, r) THEN GlobalSlot(g, slotCol[owner(g)][r]) ELSE vramSlot[g][r]]]
    BY DEF SyncAll
  <1>2. \A g \in Regions, r \in Rows : fresh(g, r) \/ moved(g, r) => owner(g) \in Cells
    OBVIOUS
  <1> HIDE DEF owner, fresh, moved
  <1>3. vramData' \in [Regions -> [Rows -> Values]]
    BY <1>1, <1>2, StoreFacts DEF StoreTypeOK, TypeOK
  <1>4. vramSlot' \in [Regions -> [Rows -> Regions \X Slots]]
    <2>1. \A g \in Regions, r \in Rows : moved(g, r) => GlobalSlot(g, slotCol[owner(g)][r]) \in Regions \X Slots
      BY <1>2, StoreFacts DEF TypeOK, GlobalSlot
    <2> QED BY <1>1, <2>1, StoreFacts DEF StoreTypeOK
  <1>5. slotShadow' \in [Cells -> [Rows -> Slots \union {NoShadow}]]
    BY StoreFacts DEF SyncAll, StoreTypeOK, TypeOK
  <1>6. dirty' \in [Cells -> SUBSET Rows]
    BY StoreFacts DEF SyncAll, StoreTypeOK
  <1> QED BY <1>3, <1>4, <1>5, <1>6

LEMMA SyncAllKeeps ==
  ASSUME StoreInv, IInv', SyncAll
  PROVE  StoreInv'
  <1>1. /\ UNCHANGED <<cellVars, toVisit, done, serialVars, regionVars, queue, genShadow, vramGen, history>>
        /\ phase' = "Write"
    BY DEF SyncAll
  <1>2. /\ region' = region /\ freeRegions' = freeRegions /\ pinnedRegions' = pinnedRegions
        /\ UNCHANGED <<len, slotCol, data, live, pins, generations, pending, written, lastRead, frame, completed>>
    BY <1>1 DEF regionVars, cellVars, pageVars, registryVars, history, serialVars
  <1>3. \A c \in Cells, r \in Rows : slotCol[c][r] # NoShadow
    <2>1. NoShadow \notin Slots
      BY StoreAssumption DEF Slots
    <2> QED BY <2>1, StoreFacts DEF TypeOK
  <1>4. MirrorTrue'
    <2> SUFFICES ASSUME NEW c \in Registered PROVE ShadowTrue(c)' /\ CleanRows(c)'
      BY <1>2 DEF MirrorTrue, Registered
    <2>1. c \in Cells /\ ShadowTrue(c) /\ CleanRows(c) /\ len[c] \in Nat
      BY RegionTypes, StoreFacts, Numbers DEF MirrorTrue, TypeOK
    <2>2. /\ \A r \in Rows : slotShadow'[c][r] = IF r < len[c] THEN slotCol[c][r] ELSE slotShadow[c][r]
          /\ len[c] > 0 => dirty'[c] = {}
      BY <2>1 DEF SyncAll
    <2>3. ShadowTrue(c)'
      <3> SUFFICES ASSUME NEW r \in Rows, slotShadow'[c][r] # NoShadow
                   PROVE  vramSlot'[region[c]][r] = GlobalSlot(region[c], slotShadow'[c][r])
        BY <1>2 DEF ShadowTrue, GlobalSlot
      <3>1. vramSlot'[region[c]][r] = IF r < len[c] /\ slotShadow[c][r] # slotCol[c][r]
                                        THEN GlobalSlot(region[c], slotCol[c][r])
                                        ELSE vramSlot[region[c]][r]
        BY Synced
      <3> QED BY <3>1, <2>1, <2>2 DEF ShadowTrue
    <2>4. CleanRows(c)'
      <3> SUFFICES ASSUME NEW r \in Occupied(c), slotCol[c][r] \in written[c]
                   PROVE  vramData'[region[c]][r] = data[c][r]
        BY <1>2 DEF CleanRows, Occupied
      <3>1. r < len[c] /\ r \in Rows
        BY <2>1, StoreFacts DEF IInv, HandlesResolve, RowsHaveSlots, TypeOK, Occupied
      <3>2. vramData'[region[c]][r] = IF r < len[c] /\ r \in dirty[c]
                                        THEN data[c][r] ELSE vramData[region[c]][r]
        BY <3>1, Synced
      <3> QED BY <3>1, <3>2, <2>1 DEF CleanRows
    <2> QED BY <2>3, <2>4
  <1>5. StoreTypeOK'
    BY <1>1, SyncAllTypes, StoreFacts DEF StoreTypeOK, serialVars, regionVars, history
  <1>6. GenerationsCurrent'
    BY <1>1, <1>2, StoreFacts DEF GenerationsCurrent, Registered
  <1>7. ReadersOver'
    BY <1>1, <1>2, StoreFacts DEF ReadersOver
  <1> QED BY <1>1, <1>2, <1>4, <1>5, <1>6, <1>7, StoreFacts, RegionsStay, QueuesStay DEF StoreInv

\* A new store has every registered cell whole, and nothing else.
LEMMA RebuildKeeps ==
  ASSUME StoreInv, IInv', Rebuild
  PROVE  StoreInv'
  <1>1. /\ pinnedRegions' = << >> /\ phase' = "Write" /\ frame' = 1 /\ signalled' = {} /\ completed' = 0
        /\ dirty' = [c \in Cells |-> {}]
        /\ genShadow' = [c \in Cells |-> IF c \in Registered THEN generations[c] ELSE NoGenerations]
        /\ slotShadow' = [c \in Cells |-> [r \in Rows |->
              IF c \in Registered /\ r < len[c] THEN slotCol[c][r] ELSE NoShadow]]
        /\ written' = [c \in Cells |-> IF c \in Registered THEN MappedSlots(c) ELSE {}]
        /\ lastRead' = [g \in Regions |-> 0]
        /\ UNCHANGED <<cellVars, toVisit, done, queue>>
    BY DEF Rebuild
  <1>2. UNCHANGED <<len, slotCol, data, live, pins, generations, pending>>
    BY <1>1 DEF cellVars, pageVars, registryVars
  <1>3. /\ \A c \in Cells \ Registered : region'[c] = NoRegion
        /\ \A c \in Registered : RebuiltCell(c)
        /\ \A c, d \in Registered : region'[c] = region'[d] => c = d
        /\ {region'[c] : c \in Registered} \intersect ToSet(freeRegions') = {}
        /\ {region'[c] : c \in Registered} \union ToSet(freeRegions') = Regions
        /\ freeRegions' \in Seq(Regions) /\ IsInjective(freeRegions')
        /\ region' \in [Cells -> Regions \union {NoRegion}]
        /\ vramGen' \in [Regions -> [Slots -> 0 .. GenMax]]
        /\ vramSlot' \in [Regions -> [Rows -> Regions \X Slots]]
        /\ vramData' \in [Regions -> [Rows -> Values]]
    BY Rebuilt, StoreFacts
  <1>4. Registered' = Registered /\ \A c \in Registered : c \in Cells /\ region'[c] \in Regions
    BY <1>3, RegionTypes DEF RebuiltCell, Registered
  <1>5. Len(pinnedRegions') = 0
    BY <1>1, EmptySeq
  <1>6. RegionsPlaced'
    <2>1. HeldRegions' = {region'[c] : c \in Registered}
      BY <1>4 DEF HeldRegions
    <2>2. OneCellEach'
      BY <1>3, <1>4 DEF OneCellEach
    <2>3. PinnedOnce' /\ PinnedBases' = {}
      BY <1>5 DEF PinnedOnce, PinnedBases
    <2>4. ToSet(freeRegions)' = ToSet(freeRegions')
      BY DEF ToSet
    <2> QED BY <2>1, <2>2, <2>3, <2>4, <1>3 DEF RegionsPlaced, PlacesApart
  <1>7. ReadersOver'
    <2>1. ToSet(freeRegions)' = ToSet(freeRegions')
      BY DEF ToSet
    <2>2. \A g \in ToSet(freeRegions') : g \in Regions
      BY <1>3
    <2> QED BY <2>1, <2>2, <1>1, <1>5 DEF ReadersOver
  <1>8. QueuesExact'
    BY <1>1, <1>2, <1>4, StoreFacts DEF QueuesExact, Registered
  <1>9. GenerationsCurrent'
    <2> SUFFICES ASSUME NEW c \in Registered PROVE vramGen'[region'[c]] = generations[c] /\ genShadow'[c] = generations[c]
      BY <1>2, <1>4 DEF GenerationsCurrent
    <2> QED BY <1>1, <1>3, <1>4 DEF RebuiltCell
  <1>10. MirrorTrue'
    <2> SUFFICES ASSUME NEW c \in Registered PROVE ShadowTrue(c)' /\ CleanRows(c)'
      BY <1>4 DEF MirrorTrue
    <2>1. c \in Cells /\ RebuiltCell(c)
      BY <1>3, <1>4
    <2>2. ShadowTrue(c)'
      BY <1>1, <2>1 DEF ShadowTrue, RebuiltCell, GlobalSlot
    <2>3. \A r \in Occupied(c) : r < len[c] /\ r \in Rows
      BY <2>1, StoreFacts DEF IInv, HandlesResolve, RowsHaveSlots, TypeOK, Occupied
    <2>4. CleanRows(c)'
      BY <1>2, <2>1, <2>3 DEF CleanRows, RebuiltCell, Occupied
    <2> QED BY <2>2, <2>4
  <1>11. StoreTypeOK'
    <2>1. genShadow' \in [Cells -> [Slots -> 0 .. GenMax]]
      <3>1. NoGenerations \in [Slots -> 0 .. GenMax]
        BY Numbers DEF NoGenerations
      <3> QED BY <3>1, <1>1, StoreFacts DEF TypeOK
    <2>2. slotShadow' \in [Cells -> [Rows -> Slots \union {NoShadow}]]
      BY <1>1, StoreFacts DEF TypeOK
    <2>3. written' \in [Cells -> SUBSET Slots] /\ dirty' \in [Cells -> SUBSET Rows]
      BY <1>1 DEF MappedSlots
    <2>4. /\ frame' \in 1 .. MaxSerial + 1 /\ completed' \in 0 .. MaxSerial /\ signalled' \subseteq Serials
          /\ lastRead' \in [Regions -> 0 .. MaxSerial]
      BY <1>1, Numbers
    <2>5. pinnedRegions' \in Seq([base : Regions, serial : Serials])
      BY <1>1, EmptySeq
    <2> QED BY <2>1, <2>2, <2>3, <2>4, <2>5, <1>1, <1>3, StoreFacts DEF StoreTypeOK
  <1> QED BY <1>6, <1>7, <1>8, <1>9, <1>10, <1>11 DEF StoreInv

------------------------------------------------------------------------------
(* The invariant *)

LEMMA StoreNextKeeps ==
  ASSUME StoreInv, StoreNext
  PROVE  StoreInv'
  <1>1. IInv'
    BY CellsKept, StoreFacts
  <1>2. ASSUME NEW c \in Cells, Mutation(c) PROVE StoreInv'
    BY <1>1, <1>2, StoreAllocKeeps, WriteTransformKeeps, WriteInstanceInfoKeeps, FreeDeferredKeeps,
       LoadCellLeaves, RegisterKeeps, UnregisterStores DEF Mutation
  <1>3. CASE Boundary
    BY <1>1, <1>3, RetireBeginKeeps, RetireOneKeeps, RetireEndKeeps, CompactAllKeeps, CompactVisitKeeps,
       StoreCompactStepKeeps, SyncAllKeeps DEF Boundary
  <1> QED BY <1>1, <1>2, <1>3, SubmitKeeps, CompleteKeeps, RebuildKeeps DEF StoreNext

LEMMA StoreStutters ==
  ASSUME StoreInv, UNCHANGED vars
  PROVE  StoreInv'
  <1>1. /\ UNCHANGED <<cellVars, frameVars, serialVars, regionVars, queue, mirrorVars, history>>
    BY DEF vars, storeVars
  <1>2. UNCHANGED <<slotCol, data, live, pins, generations, pending, written, lastRead,
                    freeRegions, pinnedRegions>>
    BY <1>1 DEF cellVars, pageVars, registryVars, history, regionVars
  <1>3. IInv'
    BY <1>1, NextIInv, StoreFacts
  <1>4. StoreTypeOK'
    BY <1>1, StoreFacts DEF StoreTypeOK, frameVars, serialVars, regionVars, mirrorVars, history
  <1> QED BY <1>1, <1>2, <1>3, <1>4, NothingMirroredMoves, ReadersStay, StoreFacts DEF StoreInv

LEMMA FreshPool ==
  /\ FreshRegions \in Seq(Regions) /\ IsInjective(FreshRegions) /\ ToSet(FreshRegions) = Regions
  <1>1. NumRegions \in Nat /\ \A i \in 1 .. NumRegions : NumRegions - i \in Regions
    BY Numbers DEF Regions
  <1>2. FreshRegions \in Seq(Regions) /\ DOMAIN FreshRegions = 1 .. NumRegions
    BY <1>1, IsASeq DEF FreshRegions
  <1>3. IsInjective(FreshRegions)
    <2> SUFFICES ASSUME NEW i \in 1 .. NumRegions, NEW j \in 1 .. NumRegions, NumRegions - i = NumRegions - j
                 PROVE  i = j
      BY <1>2 DEF IsInjective, FreshRegions
    <2> QED BY <1>1
  <1>4. ToSet(FreshRegions) = Regions
    <2>1. ToSet(FreshRegions) = {NumRegions - i : i \in 1 .. NumRegions}
      BY <1>2 DEF ToSet, FreshRegions
    <2>2. ASSUME NEW g \in Regions PROVE \E i \in 1 .. NumRegions : g = NumRegions - i
      <3>1. NumRegions - g \in 1 .. NumRegions /\ g = NumRegions - (NumRegions - g)
        BY <1>1 DEF Regions
      <3> QED BY <3>1
    <2> QED BY <1>1, <2>1, <2>2
  <1> QED BY <1>2, <1>3, <1>4

LEMMA StoreInitInv ==
  ASSUME StoreInit
  PROVE  StoreInv
  <1>1. IInv
    BY InitIInv DEF StoreInit
  <1>2. /\ phase = "Write" /\ toVisit = {} /\ done = 0 /\ frame = 1 /\ signalled = {} /\ completed = 0
        /\ region = [c \in Cells |-> NoRegion]
        /\ freeRegions = FreshRegions
        /\ pinnedRegions = << >>
        /\ queue = [c \in Cells |-> << >>]
        /\ dirty = [c \in Cells |-> {}]
        /\ genShadow = [c \in Cells |-> NoGenerations]
        /\ slotShadow = [c \in Cells |-> NoSlots]
        /\ vramGen = [g \in Regions |-> NoGenerations]
        /\ vramSlot = [g \in Regions |-> [r \in Rows |-> GlobalSlot(0, 0)]]
        /\ vramData = [g \in Regions |-> [r \in Rows |-> ZeroValue]]
        /\ written = [c \in Cells |-> {}]
        /\ lastRead = [g \in Regions |-> 0]
        /\ pending = [c \in Cells |-> {}]
    BY DEF StoreInit, Init
  <1>3. Registered = {} /\ Len(pinnedRegions) = 0
    BY <1>2, EmptySeq DEF Registered
  <1>4. StoreTypeOK
    <2>1. NoGenerations \in [Slots -> 0 .. GenMax] /\ NoSlots \in [Rows -> Slots \union {NoShadow}]
      BY Numbers DEF NoGenerations, NoSlots
    <2>2. GlobalSlot(0, 0) \in Regions \X Slots /\ ZeroValue \in Values
      BY Numbers, CellAssumption DEF GlobalSlot, Regions, Slots
    <2>3. << >> \in Seq(QueuedRetire) /\ << >> \in Seq([base : Regions, serial : Serials])
      BY EmptySeq
    <2> QED BY <1>2, <2>1, <2>2, <2>3, FreshPool, Numbers DEF StoreTypeOK
  <1>5. QueuesExact
    <2>1. Len(<< >>) = 0
      BY EmptySeq
    <2> QED BY <1>2, <2>1 DEF QueuesExact
  <1>6. RegionsPlaced
    BY <1>2, <1>3, FreshPool DEF RegionsPlaced, OneCellEach, PinnedOnce, PlacesApart, HeldRegions, PinnedBases
  <1>7. ReadersOver
    BY <1>2, <1>3, FreshPool DEF ReadersOver
  <1>8. GenerationsCurrent /\ MirrorTrue
    BY <1>3 DEF GenerationsCurrent, MirrorTrue
  <1> QED BY <1>1, <1>4, <1>5, <1>6, <1>7, <1>8 DEF StoreInv

LEMMA StoreInvariance == StoreSpec => []StoreInv
  <1>1. StoreInit => StoreInv
    BY StoreInitInv
  <1>2. StoreInv /\ [StoreNext]_vars => StoreInv'
    BY StoreNextKeeps, StoreStutters
  <1> QED BY <1>1, <1>2, PTL DEF StoreSpec

\* Which calls change a queue, VRAM's generations, the slot mirror, the phase.
LEMMA Writers ==
  ASSUME StoreNext
  PROVE  /\ \/ UNCHANGED queue
            \/ \E c \in Cells : (\E h \in Handle : FreeDeferred(c, h)) \/ Unregister(c) \/ RetireOne(c)
         /\ \/ UNCHANGED vramGen
            \/ Rebuild
            \/ \E c \in Cells : \/ Register(c) \/ RetireOne(c)
                                \/ \E h \in Handle, v \in Values : WriteTransform(c, h, v)
         /\ UNCHANGED vramSlot \/ SyncAll \/ Rebuild
         /\ phase = "Compacted" /\ phase' = "Write" => SyncAll \/ Rebuild
  <1> DEFINE Queues == \/ UNCHANGED queue
                       \/ \E c \in Cells : (\E h \in Handle : FreeDeferred(c, h)) \/ Unregister(c) \/ RetireOne(c)
             Stamps == \/ UNCHANGED vramGen
                       \/ Rebuild
                       \/ \E c \in Cells : \/ Register(c) \/ RetireOne(c)
                                           \/ \E h \in Handle, v \in Values : WriteTransform(c, h, v)
             Mirrors == UNCHANGED vramSlot \/ SyncAll \/ Rebuild
             Resumed == phase = "Compacted" /\ phase' = "Write" => SyncAll \/ Rebuild
             Goal == Queues /\ Stamps /\ Mirrors /\ Resumed
  <1> SUFFICES Goal
    OBVIOUS
  <1>1. ASSUME NEW c \in Cells, Mutation(c) PROVE Goal
    <2>1. CASE StoreAlloc(c)
      BY <2>1 DEF StoreAlloc, mirrorVars, frameVars
    <2>2. ASSUME NEW h \in Handle, NEW v \in Values, WriteTransform(c, h, v) PROVE Goal
      <3>1. WriteColumn(c, h, v)
        BY <2>2 DEF WriteTransform
      <3> QED BY <2>2, <3>1 DEF WriteColumn, frameVars
    <2>3. ASSUME NEW h \in Handle, NEW v \in Values, WriteInstanceInfo(c, h, v) PROVE Goal
      BY <2>3 DEF WriteInstanceInfo, WriteColumn, frameVars
    <2>4. ASSUME NEW h \in Handle, FreeDeferred(c, h) PROVE Goal
      <3>1. UNCHANGED <<vramGen, vramSlot, phase>>
        BY <2>4 DEF FreeDeferred, frameVars, mirrorVars
      <3> QED BY <2>4, <3>1
    <2>5. CASE LoadCell(c)
      BY <2>5 DEF LoadCell, storeVars, mirrorVars, frameVars
    <2>6. CASE Register(c)
      <3>1. UNCHANGED <<queue, vramSlot, phase>>
        BY <2>6 DEF Register, frameVars
      <3> QED BY <2>6, <3>1
    <2>7. CASE Unregister(c)
      <3>1. UNCHANGED <<vramGen, vramSlot, phase>>
        BY <2>7 DEF Unregister, frameVars
      <3> QED BY <2>7, <3>1
    <2> QED BY <1>1, <2>1, <2>2, <2>3, <2>4, <2>5, <2>6, <2>7 DEF Mutation
  <1>2. CASE Boundary
    <2>1. CASE RetireBegin \/ RetireEnd \/ CompactAll
      BY <2>1 DEF RetireBegin, RetireEnd, CompactAll, mirrorVars
    <2>2. ASSUME NEW c \in Cells, RetireOne(c) PROVE Goal
      <3>1. UNCHANGED <<vramSlot, phase>>
        BY <2>2 DEF RetireOne, frameVars
      <3> QED BY <2>2, <3>1
    <2>3. ASSUME NEW c \in Cells, CompactVisit(c) PROVE Goal
      BY <2>3 DEF CompactVisit, mirrorVars
    <2>4. ASSUME NEW c \in Cells, StoreCompactStep(c) PROVE Goal
      BY <2>4 DEF StoreCompactStep, StoreCompactMove, storeVars, frameVars, mirrorVars
    <2>5. CASE SyncAll
      <3>1. UNCHANGED <<queue, vramGen>>
        BY <2>5 DEF SyncAll
      <3> QED BY <2>5, <3>1
    <2> QED BY <1>2, <2>1, <2>2, <2>3, <2>4, <2>5 DEF Boundary
  <1>3. CASE Submit \/ \E s \in Serials : Complete(s)
    BY <1>3 DEF Submit, Complete, mirrorVars, frameVars
  <1>4. CASE Rebuild
    <2>1. UNCHANGED queue
      BY <1>4 DEF Rebuild
    <2> QED BY <1>4, <2>1
  <1> QED BY <1>1, <1>2, <1>3, <1>4 DEF StoreNext

\* Before a lost device's store is rebuilt no retirement is in flight.
LEMMA RebuildUnqueued ==
  ASSUME StoreInv, Rebuild, NEW c \in Registered
  PROVE  Len(queue[c]) = 0
  <1>1. pins[c] = {} /\ c \in Cells
    BY DEF Rebuild, Registered
  <1>2. Len(queue[c]) \in Nat /\ \A i \in 1 .. Len(queue[c]) : queue[c][i].pending.row \in pins[c]
    BY <1>1, QueuedSlots, StoreFacts
  <1>3. ~(1 \in 1 .. Len(queue[c]))
    BY <1>1, <1>2
  <1> QED BY <1>2, <1>3

\* The serial of what retire_all takes has completed.
LEMMA CommitsAreOver ==
  ASSUME StoreInv, NEW c \in Cells, RetireOne(c), NEW i \in 1 .. Len(queue[c]),
         queue[c][i].serial > completed'
  PROVE  i # 1
  <1>1. Ready(c) /\ phase = "Retiring" /\ completed' = completed
    BY DEF RetireOne, serialVars
  <1>2. Head(queue[c]) = queue[c][1] /\ Head(queue[c]).serial <= done
    BY <1>1, QueueHead
  <1>3. queue[c][1].serial <= done /\ done <= completed
    BY <1>1, <1>2, StoreFacts DEF ReadersOver
  <1>4. done \in Nat /\ completed \in Nat
    BY StoreFacts, Numbers DEF StoreTypeOK
  <1>5. queue[c][i].serial \in Nat
    <2>1. queue[c][i] \in QueuedRetire
      BY LenProperties, StoreFacts DEF StoreTypeOK
    <2> QED BY <2>1, Numbers DEF QueuedRetire, Serials
  <1> QED BY <1>1, <1>3, <1>4, <1>5

LEMMA InFlightStaysQueued ==
  ASSUME StoreInv, StoreNext, NEW c \in Registered, region'[c] = region[c],
         NEW i \in 1 .. Len(queue[c]), queue[c][i].serial > completed'
  PROVE  \E j \in 1 .. Len(queue'[c]) : queue'[c][j] = queue[c][i]
  <1>0. c \in Cells /\ region[c] # NoRegion /\ queue[c] \in Seq(QueuedRetire) /\ queue \in [Cells -> Seq(QueuedRetire)]
    BY StoreFacts DEF Registered, StoreTypeOK
  <1>1. CASE queue'[c] = queue[c]
    BY <1>1
  <1>2. ASSUME NEW d \in Cells, NEW h \in Handle, FreeDeferred(d, h), queue'[c] # queue[c]
        PROVE  \E j \in 1 .. Len(queue'[c]) : queue'[c][j] = queue[c][i]
    <2>1. \E e : queue' = [queue EXCEPT ![d] = Append(@, e)] /\ e \in QueuedRetire
      <3>1. PICK p : p = [slot |-> h.slot, row |-> RowOf(d, h), nextGen |-> h.gen + 1]
        OBVIOUS
      <3>2. /\ frame \in Serials
            /\ queue' = [queue EXCEPT ![d] = Append(@, [pending |-> p, serial |-> frame])]
            /\ pending' = [pending EXCEPT ![d] = @ \union {p}]
        BY <1>2, <3>1 DEF FreeDeferred, MarkPendingRetire
      <3>3. pending \in [Cells -> SUBSET PendingRetire] /\ pending' \in [Cells -> SUBSET PendingRetire]
        BY CellsKept, StoreFacts DEF IInv, TypeOK
      <3>4. p \in PendingRetire
        BY <3>2, <3>3
      <3>5. PICK e : e = [pending |-> p, serial |-> frame]
        OBVIOUS
      <3>6. e \in QueuedRetire
        BY <3>2, <3>4, <3>5 DEF QueuedRetire
      <3>7. queue' = [queue EXCEPT ![d] = Append(@, e)]
        BY <3>2, <3>5
      <3> QED BY <3>6, <3>7
    <2>2. PICK e \in QueuedRetire : queue' = [queue EXCEPT ![d] = Append(@, e)]
      BY <2>1
    <2>3. d = c /\ queue'[c] = Append(queue[c], e)
      BY <1>0, <1>2, <2>2
    <2>4. /\ Len(queue'[c]) = Len(queue[c]) + 1 /\ Len(queue[c]) \in Nat
          /\ \A j \in 1 .. Len(queue[c]) : queue'[c][j] = queue[c][j]
      BY <1>0, <2>3, AppendProperties, LenProperties
    <2>5. i \in 1 .. Len(queue'[c])
      BY <2>4
    <2> QED BY <2>4, <2>5
  <1>3. ASSUME NEW d \in Cells, Unregister(d) PROVE queue'[c] = queue[c]
    <2>1. region' = [region EXCEPT ![d] = NoRegion] /\ queue' = [queue EXCEPT ![d] = << >>]
      BY <1>3 DEF Unregister
    <2>2. d # c
      BY <1>0, <2>1, StoreFacts DEF StoreTypeOK
    <2> QED BY <1>0, <2>1, <2>2
  <1>4. ASSUME NEW d \in Cells, RetireOne(d), queue'[c] # queue[c]
        PROVE  \E j \in 1 .. Len(queue'[c]) : queue'[c][j] = queue[c][i]
    <2>1. queue' = [queue EXCEPT ![d] = Tail(@)] /\ Ready(d)
      BY <1>4 DEF RetireOne
    <2>2. d = c /\ queue'[c] = Tail(queue[c])
      BY <1>0, <1>4, <2>1
    <2>3. /\ Len(queue[c]) \in Nat /\ Len(queue'[c]) = Len(queue[c]) - 1
          /\ \A j \in 1 .. Len(queue[c]) - 1 : queue'[c][j] = queue[c][j + 1]
      BY <2>1, <2>2, QueueHead
    <2>4. i # 1
      BY <1>4, <2>2, CommitsAreOver
    <2>5. i - 1 \in 1 .. Len(queue'[c]) /\ i - 1 + 1 = i
      BY <2>3, <2>4
    <2> QED BY <2>3, <2>5
  <1> QED BY <1>1, <1>2, <1>3, <1>4, Writers

LEMMA InFlightStaysValid ==
  ASSUME StoreInv, StoreNext, NEW c \in Registered,
         NEW i \in 1 .. Len(queue[c]), queue[c][i].serial > completed'
  PROVE  vramGen'[region[c]][queue[c][i].pending.slot] = vramGen[region[c]][queue[c][i].pending.slot]
  <1> DEFINE s == queue[c][i].pending.slot
             g == region[c]
  <1>0. c \in Cells /\ g \in Regions
    BY RegionTypes
  <1>1. /\ s \in Slots /\ slotToRow[c][s] \in pins[c]
        /\ \A j \in 1 .. Len(queue[c]) : queue[c][j].pending.slot = s => j = i
    BY <1>0, QueuedSlots, StoreFacts
  <1> HIDE DEF s, g
  <1>2. CASE UNCHANGED vramGen
    BY <1>2 DEF s, g
  <1>3. ASSUME Rebuild PROVE FALSE
    BY <1>3, RebuildUnqueued
  <1>4. ASSUME NEW d \in Cells, Register(d) PROVE vramGen'[g] = vramGen[g]
    <2>1. /\ freeRegions # << >> /\ vramGen' = [vramGen EXCEPT ![Last(freeRegions)] = generations[d]]
      BY <1>4 DEF Register
    <2>2. Last(freeRegions) \in ToSet(freeRegions)
      BY <2>1, PopDistinct, StoreFacts DEF StoreTypeOK, RegionsPlaced
    <2>3. g # Last(freeRegions)
      BY <2>2, StoreFacts DEF RegionsPlaced, PlacesApart, HeldRegions, g
    <2> QED BY <1>0, <2>1, <2>3, StoreFacts DEF StoreTypeOK
  <1>5. ASSUME NEW d \in Cells, RetireOne(d) PROVE vramGen'[g][s] = vramGen[g][s]
    <2> DEFINE p == Head(queue[d]).pending
    <2>1. Ready(d) /\ Stamp(d, p.slot, p.nextGen)
      BY <1>5 DEF RetireOne
    <2>2. /\ d \in Registered /\ p.slot \in Slots /\ p.nextGen \in 0 .. GenMax
          /\ p = queue[d][1].pending /\ 1 \in 1 .. Len(queue[d])
      BY <2>1, QueueHead
    <2> HIDE DEF p
    <2>3. ~(d = c /\ s = p.slot)
      <3> SUFFICES ASSUME d = c, s = p.slot PROVE FALSE
        OBVIOUS
      <3>1. i = 1
        BY <1>1, <2>2
      <3> QED BY <3>1, <1>5, CommitsAreOver
    <2>4. vramGen'[region[c]][s] = IF c = d /\ s = p.slot THEN p.nextGen ELSE vramGen[region[c]][s]
      BY <1>1, <2>1, <2>2, Stamped
    <2> QED BY <2>3, <2>4 DEF g
  <1>6. ASSUME NEW d \in Cells, NEW h \in Handle, NEW v \in Values, WriteTransform(d, h, v)
        PROVE  vramGen'[g][s] = vramGen[g][s]
    <2>1. /\ d \in Registered /\ Stamp(d, h.slot, h.gen) /\ IsLive(d, h) /\ RowOf(d, h) \notin pins[d]
      BY <1>6 DEF WriteTransform, WriteColumn, Write, Registered
    <2>2. h.slot \in Slots /\ h.gen \in 0 .. GenMax
      BY DEF Handle
    <2>3. ~(d = c /\ s = h.slot)
      BY <1>1, <2>1 DEF RowOf
    <2>4. vramGen'[region[c]][s] = IF c = d /\ s = h.slot THEN h.gen ELSE vramGen[region[c]][s]
      BY <1>1, <2>1, <2>2, Stamped
    <2> QED BY <2>3, <2>4 DEF g
  <1>7. vramGen'[g][s] = vramGen[g][s]
    BY <1>2, <1>3, <1>4, <1>5, <1>6, Writers DEF s, g
  <1> QED BY <1>7 DEF s, g

LEMMA InFlightKeepsItsRow ==
  ASSUME StoreInv, StoreNext, NEW c \in Registered, NEW i \in 1 .. Len(queue[c])
  PROVE  LET p == queue[c][i].pending
         IN vramSlot'[region[c]][p.row] \in {vramSlot[region[c]][p.row], GlobalSlot(region[c], p.slot)}
  <1> DEFINE p == queue[c][i].pending
  <1>1. c \in Cells /\ p.row \in Rows /\ slotCol[c][p.row] = p.slot
    <2>1. c \in Cells
      BY DEF Registered
    <2> QED BY <2>1, QueuedSlots, StoreFacts
  <1> HIDE DEF p
  <1>2. CASE UNCHANGED vramSlot
    BY <1>2 DEF p
  <1>3. CASE SyncAll
    <2>1. \/ vramSlot'[region[c]][p.row] = GlobalSlot(region[c], slotCol[c][p.row])
          \/ vramSlot'[region[c]][p.row] = vramSlot[region[c]][p.row]
      BY <1>1, <1>3, Synced
    <2> QED BY <2>1, <1>1 DEF p
  <1>4. ASSUME Rebuild PROVE FALSE
    BY <1>4, RebuildUnqueued
  <1> QED BY <1>2, <1>3, <1>4, Writers

------------------------------------------------------------------------------
(* The theorems *)

\* Every index the store computes from its own tables is within a region, a
\* queue or a buffer, whatever calls and callbacks were made before.
THEOREM StoreTypeCorrect == StoreSpec => []StoreTypeOK
  <1>1. StoreInv => StoreTypeOK
    BY DEF StoreInv
  <1> QED BY <1>1, StoreInvariance, PTL

\* A cell keeps what CellStorage promises while the store defers its frees,
\* commits them at a boundary or all at once on eviction, and reloads it.
THEOREM CellsHoldInStore == StoreSpec => [](HandlesResolve /\ RetirementInFlight)
  <1>1. StoreInv => HandlesResolve /\ RetirementInFlight
    BY DEF StoreInv, IInv
  <1> QED BY <1>1, StoreInvariance, PTL

\* A handle the CPU gave up never validates in VRAM, whatever cells its region
\* had before: the inductive invariant has the conjunct, and needs the others
\* because a stamp goes to a region and not to a cell.
THEOREM StaleNeverValidates == StoreSpec => []GenerationsCurrent
  <1>1. StoreInv => GenerationsCurrent
    BY DEF StoreInv
  <1> QED BY <1>1, StoreInvariance, PTL

\* No region is ever held by two cells, lost, or handed to a cell while a
\* submitted frame may still read its former one.
THEOREM RegionsHaveOneOwner == StoreSpec => []RegionsExclusive
  <1>1. ASSUME StoreInv, NEW g \in Regions PROVE RegionOwners(g) = 1
    <2> DEFINE A == {c \in Cells : region[c] = g}
               F == {i \in 1 .. Len(freeRegions) : freeRegions[i] = g}
               P == {i \in 1 .. Len(pinnedRegions) : pinnedRegions[i].base = g}
    <2>1. /\ PlacesApart(HeldRegions, ToSet(freeRegions), PinnedBases)
          /\ OneCellEach /\ IsInjective(freeRegions) /\ PinnedOnce
      BY <1>1, StoreFacts DEF RegionsPlaced
    <2>2. /\ DOMAIN freeRegions = 1 .. Len(freeRegions) /\ NoRegion \notin Regions
      BY <1>1, RegionTypes
    <2>3. /\ g \in HeldRegions => \E x : A = {x}
          /\ g \notin HeldRegions => A = {}
      <3>1. \A c \in Cells : region[c] = g => c \in Registered
        BY <2>2 DEF Registered
      <3>2. \A c \in Registered : c \in Cells
        BY DEF Registered
      <3> QED BY <3>1, <3>2, <2>1 DEF HeldRegions, OneCellEach
    <2>4. /\ g \in ToSet(freeRegions) => \E x : F = {x}
          /\ g \notin ToSet(freeRegions) => F = {}
      BY <2>1, <2>2 DEF ToSet, IsInjective
    <2>5. /\ g \in PinnedBases => \E x : P = {x}
          /\ g \notin PinnedBases => P = {}
      BY <2>1 DEF PinnedBases, PinnedOnce
    <2>6. \/ g \in HeldRegions /\ g \notin ToSet(freeRegions) /\ g \notin PinnedBases
          \/ g \notin HeldRegions /\ g \in ToSet(freeRegions) /\ g \notin PinnedBases
          \/ g \notin HeldRegions /\ g \notin ToSet(freeRegions) /\ g \in PinnedBases
      BY <2>1 DEF PlacesApart
    <2> HIDE DEF A, F, P
    <2>7. \/ Cardinality(A) = 1 /\ Cardinality(F) = 0 /\ Cardinality(P) = 0
          \/ Cardinality(A) = 0 /\ Cardinality(F) = 1 /\ Cardinality(P) = 0
          \/ Cardinality(A) = 0 /\ Cardinality(F) = 0 /\ Cardinality(P) = 1
      BY <2>3, <2>4, <2>5, <2>6, FS_EmptySet, FS_Singleton
    <2>8. RegionOwners(g) = Cardinality(A) + Cardinality(F) + Cardinality(P)
      BY DEF RegionOwners, A, F, P
    <2> QED BY <2>7, <2>8
  <1>2. ASSUME StoreInv, NEW i \in 1 .. Len(freeRegions) PROVE lastRead[freeRegions[i]] <= completed
    <2>1. freeRegions[i] \in ToSet(freeRegions)
      BY <1>2, RegionTypes DEF ToSet
    <2> QED BY <1>2, <2>1, StoreFacts DEF ReadersOver
  <1>3. StoreInv => RegionsExclusive
    BY <1>1, <1>2 DEF RegionsExclusive
  <1> QED BY <1>3, StoreInvariance, PTL

\* While a frame that may read an element is in flight its retirement stays
\* queued, its generation stays in VRAM and its row is given to no other slot.
THEOREM FramesKeepWhatTheyRead == StoreSpec => InFlightHeld
  <1> DEFINE Held == \A c \in Registered : region'[c] = region[c] =>
       \A i \in 1 .. Len(queue[c]) :
         LET q == queue[c][i]
             g == region[c]
         IN q.serial > completed' =>
              /\ \E j \in 1 .. Len(queue'[c]) : queue'[c][j] = q
              /\ vramGen'[g][q.pending.slot] = vramGen[g][q.pending.slot]
              /\ vramSlot'[g][q.pending.row] \in
                   {vramSlot[g][q.pending.row], GlobalSlot(g, q.pending.slot)}
  <1>1. ASSUME StoreInv, StoreNext PROVE Held
    BY <1>1, InFlightStaysQueued, InFlightStaysValid, InFlightKeepsItsRow
  <1>2. StoreInv /\ [StoreNext]_vars => [Held]_vars
    BY <1>1
  <1> QED BY <1>2, StoreInvariance, PTL DEF StoreSpec, InFlightHeld

\* When sync_all returns, or a lost device's store has been rebuilt, VRAM has
\* every row's slot and every element the store was told of.
THEOREM BoundaryPublishes == StoreSpec => SyncPublishes
  <1> DEFINE Published == phase = "Compacted" /\ phase' = "Write"
                 => \A c \in Registered' : \A r \in 0 .. len'[c] - 1 : RowMirrored(c, r)'
  <1>1. ASSUME StoreInv, StoreInv', SyncAll, NEW c \in Registered', NEW r \in 0 .. len'[c] - 1
        PROVE  RowMirrored(c, r)'
    <2>1. /\ len' = len /\ slotCol' = slotCol /\ region' = region /\ c \in Registered
      BY <1>1 DEF SyncAll, cellVars, pageVars, regionVars, Registered
    <2>2. c \in Cells /\ len[c] \in 0 .. Capacity
      BY <2>1, <1>1, StoreFacts DEF Registered, TypeOK
    <2>3. r \in Rows /\ r < len[c] /\ len[c] > 0
      BY <2>1, <2>2, Numbers DEF Rows
    <2>4. slotShadow'[c][r] = slotCol[c][r] /\ dirty'[c] = {}
      BY <1>1, <2>1, <2>2, <2>3 DEF SyncAll
    <2>5. slotCol[c][r] # NoShadow
      <3>1. NoShadow \notin Slots
        BY StoreAssumption DEF Slots
      <3> QED BY <1>1, <2>2, <2>3, <3>1, StoreFacts DEF TypeOK
    <2>6. ShadowTrue(c)' /\ CleanRows(c)'
      BY <1>1 DEF StoreInv, MirrorTrue
    <2>7. vramSlot'[region[c]][r] = GlobalSlot(region[c], slotCol[c][r])
      BY <2>1, <2>3, <2>4, <2>5, <2>6 DEF ShadowTrue, GlobalSlot
    <2>8. r \in Occupied(c)' /\ slotCol[c][r] \in written'[c] => vramData'[region[c]][r] = data'[c][r]
      BY <2>1, <2>4, <2>6 DEF CleanRows
    <2> QED BY <2>1, <2>7, <2>8 DEF RowMirrored, GlobalSlot
  <1>2. ASSUME StoreInv, Rebuild, NEW c \in Registered', NEW r \in 0 .. len'[c] - 1
        PROVE  RowMirrored(c, r)'
    <2>1. /\ len' = len /\ slotCol' = slotCol /\ data' = data
      BY <1>2 DEF Rebuild, cellVars, pageVars
    <2>2. c \in Registered /\ RebuiltCell(c)
      <3>1. /\ \A d \in Cells \ Registered : region'[d] = NoRegion
            /\ \A d \in Registered : RebuiltCell(d)
        BY <1>2, Rebuilt, StoreFacts
      <3> QED BY <3>1, <1>2 DEF Registered
    <2>3. c \in Cells /\ len[c] \in 0 .. Capacity
      BY <1>2, <2>2, StoreFacts DEF Registered, TypeOK
    <2>4. r \in Rows /\ r < len[c]
      BY <2>1, <2>3, Numbers DEF Rows
    <2> QED BY <2>1, <2>2, <2>4 DEF RowMirrored, RebuiltCell, GlobalSlot
  <1>3. ASSUME StoreInv, StoreNext PROVE Published
    <2>1. StoreInv'
      BY <1>3, StoreNextKeeps
    <2> QED BY <1>1, <1>2, <1>3, <2>1, Writers
  <1>4. StoreInv /\ [StoreNext]_vars => [Published]_vars
    BY <1>3
  <1> QED BY <1>4, StoreInvariance, PTL DEF StoreSpec, SyncPublishes
==============================================================================
