-------------------------- MODULE CellStorageProofs --------------------------
(***************************************************************************)
(* Theorems of CellStorage, for every set of cells, capacity, number of    *)
(* slots and generation limit.                                             *)
(***************************************************************************)
EXTENDS CellRefinement, StackLemmas, FiniteSetTheorems

------------------------------------------------------------------------------
(* Functions of functions.                                                *)

LEMMA Update ==
  ASSUME NEW S, NEW T, NEW f \in [S -> T], NEW x \in S, NEW v \in T
  PROVE  [f EXCEPT ![x] = v] \in [S -> T]
  OBVIOUS

LEMMA Update2 ==
  ASSUME NEW S, NEW T, NEW U, NEW f \in [S -> [T -> U]],
         NEW x \in S, NEW y \in T, NEW v \in U
  PROVE  [f EXCEPT ![x][y] = v] \in [S -> [T -> U]]
  OBVIOUS

------------------------------------------------------------------------------
\* No invariant is inductive alone: TypeOK needs HandlesResolve (the
\* generation a retirement will write stays within range because a mapped slot
\* is not spent), HandlesResolve needs RetirementInFlight (a commit unpins the
\* row its slot is mapped to) and the free stack (a reused slot is unmapped).
FreeStacksSound == \A c \in Cells : FreeStackSound(c)

IInv ==
  /\ TypeOK
  /\ HandlesResolve
  /\ RetirementInFlight
  /\ FreeStacksSound

LEMMA AllocTypeOK ==
  ASSUME TypeOK, NEW c \in Cells, Alloc(c)
  PROVE  TypeOK'
  <1>1. len[c] \in Rows /\ len[c] + 1 \in 0 .. Capacity
    BY SMTT(40), CellAssumption DEF TypeOK, Alloc, Rows
  <1>2. len' \in [Cells -> 0 .. Capacity]
    BY <1>1, Update DEF TypeOK, Alloc
  <1>3. live' \in [Cells -> SUBSET Rows]
    BY SMTT(40), <1>1 DEF TypeOK, Alloc
  <1>4. PICK slot \in Slots : /\ AllocateSlot(c, len[c], slot)
                              /\ slotCol' = [slotCol EXCEPT ![c][len[c]] = slot]
    BY DEF Alloc
  <1>5. slotCol' \in [Cells -> [Rows -> Slots]]
    BY <1>1, <1>4 DEF TypeOK
  <1>6. slotToRow' \in [Cells -> [Slots -> Rows \union {NullRow}]]
    <2>1. slotToRow' = [slotToRow EXCEPT ![c][slot] = len[c]]
      BY <1>4 DEF AllocateSlot, ReuseSlot, CreateSlot
    <2>2. slotToRow \in [Cells -> [Slots -> Rows \union {NullRow}]]
      BY DEF TypeOK
    <2> QED BY <1>1, <2>1, <2>2
  <1>7. /\ free' \in [Cells -> Seq(Slots)]
        /\ numSlots' \in [Cells -> 0 .. MaxSlots]
        /\ generations' \in [Cells -> [Slots -> 0 .. GenMax]]
        /\ retiredCount' = retiredCount
    <2>1. /\ free \in [Cells -> Seq(Slots)]
          /\ numSlots \in [Cells -> 0 .. MaxSlots]
          /\ generations \in [Cells -> [Slots -> 0 .. GenMax]]
      BY DEF TypeOK
    <2>2. CASE ReuseSlot(c, len[c], slot)
      <3>1. Front(free[c]) \in Seq(Slots)
        BY <2>1, <2>2, FrontLast DEF ReuseSlot
      <3> QED BY <2>1, <2>2, <3>1 DEF ReuseSlot
    <2>3. CASE CreateSlot(c, len[c], slot)
      <3>1. slot + 1 \in 0 .. MaxSlots /\ 1 \in 0 .. GenMax
        BY <2>3, CellAssumption DEF CreateSlot, Slots
      <3> QED BY <2>1, <2>3, <3>1 DEF CreateSlot
    <2> QED BY <1>4, <2>2, <2>3 DEF AllocateSlot
  <1> QED BY <1>2, <1>3, <1>5, <1>6, <1>7 DEF TypeOK, Alloc

LEMMA ReleaseSlotTypeOK ==
  ASSUME TypeOK, NEW c \in Cells, NEW s \in Slots, ReleaseSlot(c, s),
         generations[c][s] \in 1 .. GenMax - 1
  PROVE  /\ slotToRow' \in [Cells -> [Slots -> Rows \union {NullRow}]]
         /\ generations' \in [Cells -> [Slots -> 0 .. GenMax]]
         /\ free' \in [Cells -> Seq(Slots)]
         /\ retiredCount' \in [Cells -> Nat]
         /\ numSlots' = numSlots
  <1>1. /\ slotToRow \in [Cells -> [Slots -> Rows \union {NullRow}]]
        /\ slotToRow' = [slotToRow EXCEPT ![c][s] = NullRow]
    BY DEF TypeOK, ReleaseSlot
  <1>2. /\ generations \in [Cells -> [Slots -> 0 .. GenMax]]
        /\ generations' = [generations EXCEPT ![c][s] = generations[c][s] + 1]
    BY DEF TypeOK, ReleaseSlot
  <1>3. generations[c][s] + 1 \in 0 .. GenMax
    BY CellAssumption
  <1>4. free \in [Cells -> Seq(Slots)] /\ retiredCount \in [Cells -> Nat]
    BY DEF TypeOK
  <1>5. Append(free[c], s) \in Seq(Slots)
    BY <1>4
  <1>6. free' \in [Cells -> Seq(Slots)] /\ retiredCount' \in [Cells -> Nat]
    <2>1. \/ free' = [free EXCEPT ![c] = Append(free[c], s)] /\ retiredCount' = retiredCount
          \/ free' = free /\ retiredCount' = [retiredCount EXCEPT ![c] = retiredCount[c] + 1]
      BY DEF ReleaseSlot
    <2>2. CASE free' = [free EXCEPT ![c] = Append(free[c], s)] /\ retiredCount' = retiredCount
      BY <1>4, <1>5, <2>2, Update
    <2>3. CASE free' = free /\ retiredCount' = [retiredCount EXCEPT ![c] = retiredCount[c] + 1]
      BY <1>4, <2>3
    <2> QED BY <2>1, <2>2, <2>3
  <1>7. slotToRow' \in [Cells -> [Slots -> Rows \union {NullRow}]]
    BY <1>1
  <1>8. generations' \in [Cells -> [Slots -> 0 .. GenMax]]
    BY <1>2, <1>3
  <1> QED BY <1>6, <1>7, <1>8 DEF ReleaseSlot

\* A slot with a row is neither uncreated nor spent.
LEMMA MappedGeneration ==
  ASSUME HandlesResolve, NEW c \in Cells, NEW s \in Slots, slotToRow[c][s] # NullRow
  PROVE  generations[c][s] \in 1 .. GenMax - 1
  BY DEF HandlesResolve, SlotsHaveRows

LEMMA NextTypeOK ==
  ASSUME IInv, NEW c \in Cells, CellNext(c)
  PROVE  TypeOK'
  <1>0. TypeOK /\ HandlesResolve /\ RetirementInFlight
    BY DEF IInv
  <1>1. CASE Alloc(c)
    BY <1>0, <1>1, AllocTypeOK
  <1>2. ASSUME NEW h \in Handle, NEW v \in Values, Write(c, h, v) PROVE TypeOK'
    <2>1. h.slot \in Slots /\ slotToRow[c] \in [Slots -> Rows \union {NullRow}]
      BY <1>0 DEF TypeOK, Handle
    <2>2. RowOf(c, h) \in Rows
      BY <1>2, <2>1 DEF Write, IsLive, RowOf
    <2>3. data' \in [Cells -> [Rows -> Values]]
      BY <1>0, <1>2, <2>2 DEF TypeOK, Write
    <2> QED BY <1>0, <1>2, <2>3 DEF TypeOK, Write, registryVars
  <1>3. ASSUME NEW h \in Handle, Free(c, h) PROVE TypeOK'
    <2>1. h.slot \in Slots /\ generations[c][h.slot] \in 1 .. GenMax - 1
      BY <1>0, <1>3, MappedGeneration DEF Free, IsLive, Handle
    <2>2. ReleaseSlot(c, h.slot)
      BY <1>3 DEF Free
    <2>3. live' \in [Cells -> SUBSET Rows]
      BY <1>0, <1>3 DEF TypeOK, Free
    <2> QED BY <1>0, <1>3, <2>1, <2>2, <2>3, ReleaseSlotTypeOK DEF TypeOK, Free, pageVars
  <1>4. ASSUME NEW h \in Handle, MarkPendingRetire(c, h) PROVE TypeOK'
    <2>1. h.slot \in Slots /\ slotToRow[c] \in [Slots -> Rows \union {NullRow}]
      BY <1>0 DEF TypeOK, Handle
    <2>2. RowOf(c, h) \in Rows
      BY <1>4, <2>1 DEF MarkPendingRetire, IsLive, RowOf
    <2>3. h.gen + 1 \in 1 .. GenMax
      BY <1>0, <1>4, <2>1, CellAssumption, MappedGeneration DEF MarkPendingRetire, IsLive
    <2>4. [slot |-> h.slot, row |-> RowOf(c, h), nextGen |-> h.gen + 1] \in PendingRetire
      BY <2>1, <2>2, <2>3 DEF PendingRetire
    <2>5. pending' \in [Cells -> SUBSET PendingRetire]
      BY <1>0, <1>4, <2>4 DEF TypeOK, MarkPendingRetire
    <2>6. live' \in [Cells -> SUBSET Rows] /\ pins' \in [Cells -> SUBSET Rows]
      BY <1>0, <1>4, <2>2 DEF TypeOK, MarkPendingRetire
    <2> QED BY <1>0, <1>4, <2>5, <2>6 DEF TypeOK, MarkPendingRetire, pageVars, registryVars
  <1>5. ASSUME NEW p \in pending[c], CommitRetire(c, p) PROVE TypeOK'
    <2>1. p \in PendingRetire /\ p.slot \in Slots /\ p.row \in Rows
      BY <1>0 DEF TypeOK, PendingRetire
    <2>2. slotToRow[c][p.slot] # NullRow
      BY <1>0, <2>1, CellAssumption DEF RetirementInFlight, InFlight, Rows
    <2>3. ReleaseSlot(c, p.slot) /\ generations[c][p.slot] \in 1 .. GenMax - 1
      BY <1>0, <1>5, <2>1, <2>2, MappedGeneration DEF CommitRetire
    <2>4. pins' \in [Cells -> SUBSET Rows] /\ pending' \in [Cells -> SUBSET PendingRetire]
      BY <1>0, <1>5 DEF TypeOK, CommitRetire
    <2> QED BY <1>0, <1>5, <2>1, <2>3, <2>4, ReleaseSlotTypeOK DEF TypeOK, CommitRetire, pageVars
  <1>6. CASE CompactBegin(c)
    <2>1. compactRow' \in [Cells -> 0 .. Capacity \union {Idle}]
      BY <1>0, <1>6, CellAssumption DEF TypeOK, CompactBegin
    <2> QED BY <1>0, <1>6, <2>1 DEF TypeOK, CompactBegin, pageVars, registryVars
  <1>7. CASE CompactStep(c)
    <2>0. /\ len[c] \in 0 .. Capacity
          /\ compactRow[c] \in 0 .. Capacity \union {Idle}
          /\ len \in [Cells -> 0 .. Capacity]
          /\ compactRow \in [Cells -> 0 .. Capacity \union {Idle}]
      BY <1>0 DEF TypeOK
    <2>1. CASE CompactSkip(c)
      <3>1. compactRow' \in [Cells -> 0 .. Capacity \union {Idle}]
        BY <2>0, <2>1, CellAssumption DEF CompactSkip
      <3> QED BY <1>0, <2>1, <3>1 DEF TypeOK, CompactSkip, pageVars, registryVars
    <2>2. CASE CompactTrim(c)
      <3>1. len' \in [Cells -> 0 .. Capacity]
        BY <2>0, <2>2, CellAssumption DEF CompactTrim
      <3> QED BY <1>0, <2>2, <3>1 DEF TypeOK, CompactTrim, pageVars, registryVars
    <2>3. CASE CompactDropHole(c)
      <3>1. /\ len' \in [Cells -> 0 .. Capacity]
            /\ compactRow' \in [Cells -> 0 .. Capacity \union {Idle}]
        BY <2>0, <2>3, CellAssumption DEF CompactDropHole
      <3> QED BY <1>0, <2>3, <3>1 DEF TypeOK, CompactDropHole, pageVars, registryVars
    <2>4. CASE CompactPinnedTail(c)
      <3>1. compactRow' \in [Cells -> 0 .. Capacity \union {Idle}]
        BY <2>0, <2>4, CellAssumption DEF CompactPinnedTail
      <3> QED BY <1>0, <2>4, <3>1 DEF TypeOK, CompactPinnedTail, pageVars, registryVars
    <2>5. CASE CompactMove(c)
      <3> DEFINE row == compactRow[c]
                 last == len[c] - 1
      <3>1. row \in Rows /\ last \in Rows /\ row + 1 \in 0 .. Capacity /\ last \in 0 .. Capacity
        BY <2>0, <2>5, CellAssumption DEF CompactMove, Rows
      <3>2. /\ len' \in [Cells -> 0 .. Capacity]
            /\ compactRow' \in [Cells -> 0 .. Capacity \union {Idle}]
        BY <2>0, <2>5, <3>1 DEF CompactMove
      <3>3. live' \in [Cells -> SUBSET Rows]
        BY <1>0, <2>5, <3>1 DEF TypeOK, CompactMove, LastRow
      <3>4. slotCol \in [Cells -> [Rows -> Slots]]
        BY <1>0 DEF TypeOK
      <3>5. slotCol' \in [Cells -> [Rows -> Slots]]
        BY <2>5, <3>1, <3>4 DEF CompactMove, LastRow, SwapRows
      <3>6. data \in [Cells -> [Rows -> Values]]
        BY <1>0 DEF TypeOK
      <3>7. data' \in [Cells -> [Rows -> Values]]
        BY <2>5, <3>1, <3>6 DEF CompactMove, LastRow, SwapRows
      <3>8. slotCol[c][last] \in Slots
        BY <3>1, <3>4
      <3>9. slotToRow' \in [Cells -> [Slots -> Rows \union {NullRow}]]
        BY <1>0, <2>5, <3>1, <3>8 DEF TypeOK, CompactMove, LastRow
      <3> QED BY <1>0, <2>5, <3>2, <3>3, <3>5, <3>7, <3>9 DEF TypeOK, CompactMove
    <2>6. CASE CompactEnd(c)
      <3>1. compactRow' \in [Cells -> 0 .. Capacity \union {Idle}]
        BY <2>0, <2>6 DEF CompactEnd
      <3> QED BY <1>0, <2>6, <3>1 DEF TypeOK, CompactEnd, pageVars, registryVars
    <2> QED BY <1>7, <2>1, <2>2, <2>3, <2>4, <2>5, <2>6 DEF CompactStep
  <1> QED BY <1>1, <1>2, <1>3, <1>4, <1>5, <1>6, <1>7 DEF CellNext

------------------------------------------------------------------------------
(* HandlesResolve, RetirementInFlight and the free stack, cell by cell.    *)

CellInv(c) ==
  /\ RowsHaveSlots(c)
  /\ SlotsHaveRows(c)
  /\ InFlight(c)
  /\ FreeStackSound(c)

LEMMA IInvByCell == IInv <=> TypeOK /\ \A c \in Cells : CellInv(c)
  BY DEF IInv, HandlesResolve, RetirementInFlight, FreeStacksSound, CellInv

\* The types of one cell's state.
LEMMA CellTypes ==
  ASSUME TypeOK, NEW c \in Cells
  PROVE  /\ len[c] \in 0 .. Capacity
         /\ slotCol[c] \in [Rows -> Slots]
         /\ live[c] \subseteq Rows /\ pins[c] \subseteq Rows
         /\ numSlots[c] \in 0 .. MaxSlots
         /\ generations[c] \in [Slots -> 0 .. GenMax]
         /\ slotToRow[c] \in [Slots -> Rows \union {NullRow}]
         /\ free[c] \in Seq(Slots)
         /\ pending[c] \subseteq PendingRetire
  BY DEF TypeOK

\* What the invariants of a cell read, unchanged.
SameCell(d) ==
  /\ len'[d] = len[d]
  /\ slotCol'[d] = slotCol[d]
  /\ live'[d] = live[d] /\ pins'[d] = pins[d]
  /\ numSlots'[d] = numSlots[d]
  /\ generations'[d] = generations[d]
  /\ slotToRow'[d] = slotToRow[d]
  /\ free'[d] = free[d]
  /\ pending'[d] = pending[d]

LEMMA SameCellInv ==
  ASSUME NEW d \in Cells, CellInv(d), SameCell(d)
  PROVE  CellInv(d)'
  BY DEF CellInv, SameCell, RowsHaveSlots, SlotsHaveRows, InFlight, FreeStackSound,
         Occupied, Unmapped

LEMMA OtherCellsSame ==
  ASSUME TypeOK, NEW c \in Cells, CellNext(c), NEW d \in Cells, d # c
  PROVE  SameCell(d) /\ data'[d] = data[d]
  <1> DEFINE Same == SameCell(d) /\ data'[d] = data[d]
  <1> SUFFICES Same
    OBVIOUS
  <1>1. CASE Alloc(c)
    BY <1>1 DEF TypeOK, SameCell, Alloc, AllocateSlot, ReuseSlot, CreateSlot
  <1>2. ASSUME NEW h \in Handle, NEW v \in Values, Write(c, h, v) PROVE Same
    BY <1>2 DEF TypeOK, SameCell, Write, registryVars
  <1>3. ASSUME NEW h \in Handle, Free(c, h) PROVE Same
    BY <1>3 DEF TypeOK, SameCell, Free, ReleaseSlot, pageVars
  <1>4. ASSUME NEW h \in Handle, MarkPendingRetire(c, h) PROVE Same
    BY <1>4 DEF TypeOK, SameCell, MarkPendingRetire, pageVars, registryVars
  <1>5. ASSUME NEW p \in pending[c], CommitRetire(c, p) PROVE Same
    BY <1>5 DEF TypeOK, SameCell, CommitRetire, ReleaseSlot, pageVars
  <1>6. CASE CompactBegin(c)
    BY <1>6 DEF SameCell, CompactBegin, pageVars, registryVars
  <1>7. CASE CompactStep(c)
    BY <1>7 DEF TypeOK, SameCell, CompactStep, CompactSkip, CompactTrim, CompactDropHole,
       CompactPinnedTail, CompactMove, CompactEnd, pageVars, registryVars
  <1> QED BY <1>1, <1>2, <1>3, <1>4, <1>5, <1>6, <1>7 DEF CellNext

LEMMA AllocCellInv ==
  ASSUME TypeOK, NEW c \in Cells, CellInv(c), Alloc(c)
  PROVE  CellInv(c)'
  <1> DEFINE row == len[c]
  <1>1. row \in Rows /\ row \in Nat /\ row # NullRow
    BY CellAssumption DEF TypeOK, Alloc, Rows
  <1>2. PICK s \in Slots : /\ AllocateSlot(c, len[c], s)
                           /\ slotCol' = [slotCol EXCEPT ![c][len[c]] = s]
    BY DEF Alloc
  <1>3. /\ slotCol[c] \in [Rows -> Slots] /\ slotToRow[c] \in [Slots -> Rows \union {NullRow}]
        /\ live[c] \subseteq Rows /\ pins[c] \subseteq Rows
    BY CellTypes
  <1>4. /\ len'[c] = row + 1 /\ live'[c] = live[c] \union {row}
        /\ pins'[c] = pins[c] /\ pending'[c] = pending[c]
    BY DEF TypeOK, Alloc
  <1>5. slotCol'[c] = [slotCol[c] EXCEPT ![row] = s]
    BY <1>2 DEF TypeOK
  <1>6. slotToRow'[c] = [slotToRow[c] EXCEPT ![s] = row]
    <2>1. slotToRow' = [slotToRow EXCEPT ![c][s] = row]
      BY <1>2 DEF AllocateSlot, ReuseSlot, CreateSlot
    <2> QED BY <2>1 DEF TypeOK
  \* The slot was unmapped, and its generation is the one of the new handle.
  <1>7. /\ slotToRow[c][s] = NullRow
        /\ generations'[c][s] \in 1 .. GenMax - 1
        /\ \A t \in Slots : t # s => generations'[c][t] = generations[c][t]
        /\ FreeStackSound(c)'
    <2>0. /\ free \in [Cells -> Seq(Slots)] /\ free[c] \in Seq(Slots)
          /\ generations \in [Cells -> [Slots -> 0 .. GenMax]]
          /\ numSlots \in [Cells -> 0 .. MaxSlots]
      BY DEF TypeOK
    <2> HIDE DEF row
    <2>1. CASE ReuseSlot(c, len[c], s)
      <3> DEFINE stack == free[c]
      <3>1. /\ free'[c] = Front(stack) /\ s = Last(stack) /\ stack # << >>
            /\ generations' = generations /\ numSlots' = numSlots
        BY <2>0, <2>1 DEF ReuseSlot
      <3>2. /\ Len(stack) \in Nat \ {0} /\ Len(free'[c]) = Len(stack) - 1
            /\ \A i \in 1 .. Len(stack) - 1 : free'[c][i] = stack[i]
            /\ s = stack[Len(stack)]
        BY <2>0, <3>1, FrontLast
      <3>3. Unmapped(c, s) /\ generations[c][s] \in 1 .. GenMax - 1
        BY <3>2 DEF CellInv, FreeStackSound
      <3>4. \A i, j \in 1 .. Len(free'[c]) : free'[c][i] = free'[c][j] => i = j
        BY <3>2 DEF CellInv, FreeStackSound
      <3>5. ASSUME NEW t \in Slots
            PROVE (\E i \in 1 .. Len(free'[c]) : free'[c][i] = t)
                    <=> Unmapped(c, t)' /\ generations'[c][t] \in 1 .. GenMax - 1
        <4>1. CASE t = s
          <5>1. ~ Unmapped(c, t)'
            BY <1>1, <1>3, <1>6, <4>1 DEF Unmapped
          <5>2. \A i \in 1 .. Len(stack) - 1 : stack[i] # s
            BY <3>2 DEF CellInv, FreeStackSound
          <5> QED BY <3>2, <4>1, <5>1, <5>2
        <4>2. CASE t # s
          <5>1. Unmapped(c, t)' <=> Unmapped(c, t)
            BY <1>3, <1>6, <4>2 DEF Unmapped
          <5>2. (\E i \in 1 .. Len(free'[c]) : free'[c][i] = t) <=> (\E i \in 1 .. Len(stack) : stack[i] = t)
            BY <3>2, <4>2
          <5> QED BY <3>1, <5>1, <5>2 DEF CellInv, FreeStackSound
        <4> QED BY <4>1, <4>2
      <3> QED BY <3>1, <3>3, <3>4, <3>5 DEF CellInv, FreeStackSound, Unmapped
    <2>2. CASE CreateSlot(c, len[c], s)
      <3>1. /\ free'[c] = << >> /\ free[c] = << >> /\ s = numSlots[c]
            /\ numSlots'[c] = s + 1
            /\ generations'[c] = [generations[c] EXCEPT ![s] = 1]
        BY <2>0, <2>2 DEF CreateSlot
      <3>2. generations[c][s] = 0
        <4>1. s < numSlots[c] <=> generations[c][s] > 0
          BY DEF CellInv, FreeStackSound
        <4>2. ~ (s < numSlots[c]) /\ generations[c][s] \in 0 .. GenMax
          BY <2>0, <3>1
        <4> QED BY <4>1, <4>2
      <3>3. slotToRow[c][s] = NullRow
        BY <3>2 DEF CellInv, SlotsHaveRows
      <3>4. ASSUME NEW t \in Slots
            PROVE ~ (Unmapped(c, t)' /\ generations'[c][t] \in 1 .. GenMax - 1)
        <4>1. CASE t = s
          BY <1>1, <1>3, <1>6, <4>1 DEF Unmapped
        <4>2. CASE t # s
          BY <1>3, <1>6, <2>0, <3>1, <4>2 DEF CellInv, FreeStackSound, Unmapped
        <4> QED BY <4>1, <4>2
      <3>5. \A t \in Slots : t < numSlots'[c] <=> generations'[c][t] > 0
        BY <2>0, <3>1, CellAssumption DEF CellInv, FreeStackSound, Slots
      <3>6. 1 \in 1 .. GenMax - 1 /\ Len(free'[c]) = 0
        BY <3>1, CellAssumption
      <3> QED BY <2>0, <3>1, <3>3, <3>4, <3>5, <3>6 DEF FreeStackSound
    <2> QED BY <1>2, <2>1, <2>2 DEF AllocateSlot
  <1>8. row \notin Occupied(c)
    BY <1>1 DEF CellInv, RowsHaveSlots
  <1>9. RowsHaveSlots(c)'
    <2>1. \A r \in Occupied(c) : r # row /\ slotToRow[c][slotCol[c][r]] = r /\ r < row /\ r \in Rows
      BY <1>3, <1>8 DEF CellInv, RowsHaveSlots, Occupied
    <2>2. \A r \in Occupied(c) : slotCol[c][r] # s
      BY <1>7, <2>1, CellAssumption DEF Rows
    <2> HIDE DEF row
    <2>3. live'[c] \intersect pins'[c] = {}
      BY <1>4, <1>8 DEF CellInv, RowsHaveSlots, Occupied
    <2>4. ASSUME NEW r \in Occupied(c)' PROVE r < len'[c] /\ slotToRow'[c][slotCol'[c][r]] = r
      <3>1. CASE r = row
        BY <1>1, <1>3, <1>4, <1>5, <1>6, <3>1
      <3>2. CASE r # row
        <4>1. r \in Occupied(c)
          BY <1>4, <2>4, <3>2 DEF Occupied
        <4>2. slotCol'[c][r] = slotCol[c][r] /\ slotCol[c][r] \in Slots
          BY <1>3, <1>5, <2>1, <3>2, <4>1
        <4>3. r < len'[c]
          BY <1>1, <1>4, <2>1, <4>1 DEF Rows
        <4> QED BY <1>3, <1>6, <2>1, <2>2, <4>1, <4>2, <4>3
      <3> QED BY <3>1, <3>2
    <2> QED BY <2>3, <2>4 DEF RowsHaveSlots
  <1>10. SlotsHaveRows(c)'
    <2> HIDE DEF row
    <2> SUFFICES ASSUME NEW t \in Slots, slotToRow'[c][t] # NullRow
                 PROVE  /\ slotToRow'[c][t] \in Occupied(c)'
                        /\ slotCol'[c][slotToRow'[c][t]] = t
                        /\ generations'[c][t] \in 1 .. GenMax - 1
      BY DEF SlotsHaveRows
    <2>1. CASE t = s
      BY <1>1, <1>3, <1>4, <1>5, <1>6, <1>7, <2>1 DEF Occupied
    <2>2. CASE t # s
      <3>1. slotToRow'[c][t] = slotToRow[c][t]
        BY <1>3, <1>6, <2>2
      <3>2. /\ slotToRow[c][t] \in Occupied(c)
            /\ slotCol[c][slotToRow[c][t]] = t
            /\ generations[c][t] \in 1 .. GenMax - 1
        BY <3>1 DEF CellInv, SlotsHaveRows
      <3>3. slotToRow[c][t] # row
        BY <1>8, <3>2
      <3>4. slotToRow[c][t] \in Rows
        BY <1>3, <3>1
      <3> QED BY <1>3, <1>4, <1>5, <1>7, <2>2, <3>1, <3>2, <3>3, <3>4 DEF Occupied
    <2> QED BY <2>1, <2>2
  <1>11. InFlight(c)'
    <2> HIDE DEF row
    <2>1. \A p \in pending[c] : p.slot \in Slots /\ p.slot # s
      BY <1>7, CellTypes, CellAssumption DEF CellInv, InFlight, PendingRetire, Rows
    <2>2. \A p \in pending[c] : slotToRow'[c][p.slot] = slotToRow[c][p.slot]
                             /\ generations'[c][p.slot] = generations[c][p.slot]
      BY <1>3, <1>6, <1>7, <2>1
    <2> QED BY <1>4, <2>2 DEF CellInv, InFlight
  <1> QED BY <1>7, <1>9, <1>10, <1>11 DEF CellInv

\* What unmapping a slot and bumping its generation keeps; its row is no
\* longer occupied when the caller has cleared its liveness bit or its pin.
LEMMA ReleaseSlotCellInv ==
  ASSUME TypeOK, NEW c \in Cells, CellInv(c), NEW s \in Slots, ReleaseSlot(c, s),
         slotToRow[c][s] # NullRow,
         len'[c] = len[c], slotCol'[c] = slotCol[c],
         Occupied(c)' = Occupied(c) \ {slotToRow[c][s]},
         live'[c] \subseteq live[c], pins'[c] \subseteq pins[c]
  PROVE  /\ RowsHaveSlots(c)'
         /\ SlotsHaveRows(c)'
         /\ FreeStackSound(c)'
         /\ \A t \in Slots : t # s => /\ slotToRow'[c][t] = slotToRow[c][t]
                                      /\ generations'[c][t] = generations[c][t]
  <1>1. /\ slotToRow[c] \in [Slots -> Rows \union {NullRow}]
        /\ generations[c] \in [Slots -> 0 .. GenMax]
        /\ slotCol[c] \in [Rows -> Slots] /\ free[c] \in Seq(Slots)
        /\ live[c] \subseteq Rows /\ pins[c] \subseteq Rows
    BY CellTypes
  <1>2. /\ slotToRow'[c] = [slotToRow[c] EXCEPT ![s] = NullRow]
        /\ generations'[c] = [generations[c] EXCEPT ![s] = generations[c][s] + 1]
        /\ numSlots' = numSlots
    BY DEF TypeOK, ReleaseSlot
  <1>3. \A t \in Slots : t # s => /\ slotToRow'[c][t] = slotToRow[c][t]
                                  /\ generations'[c][t] = generations[c][t]
    BY <1>1, <1>2
  <1>4. /\ slotToRow[c][s] \in Occupied(c) /\ slotCol[c][slotToRow[c][s]] = s
        /\ generations[c][s] \in 1 .. GenMax - 1
    BY DEF CellInv, SlotsHaveRows
  <1>5. slotToRow'[c][s] = NullRow /\ generations'[c][s] = generations[c][s] + 1
    BY <1>1, <1>2
  <1>6. RowsHaveSlots(c)'
    <2>1. ASSUME NEW r \in Occupied(c), r # slotToRow[c][s]
          PROVE  r < len'[c] /\ slotToRow'[c][slotCol'[c][r]] = r
      <3>1. r < len[c] /\ slotToRow[c][slotCol[c][r]] = r /\ slotCol[c][r] \in Slots
        BY <1>1 DEF CellInv, RowsHaveSlots, Occupied
      <3> QED BY <1>3, <2>1, <3>1
    <2> QED BY <2>1 DEF CellInv, RowsHaveSlots
  <1>7. SlotsHaveRows(c)'
    <2> SUFFICES ASSUME NEW t \in Slots, slotToRow'[c][t] # NullRow
                 PROVE  /\ slotToRow'[c][t] \in Occupied(c)'
                        /\ slotCol'[c][slotToRow'[c][t]] = t
                        /\ generations'[c][t] \in 1 .. GenMax - 1
      BY DEF SlotsHaveRows
    <2>1. t # s
      BY <1>5
    <2>2. /\ slotToRow[c][t] \in Occupied(c) /\ slotCol[c][slotToRow[c][t]] = t
          /\ generations[c][t] \in 1 .. GenMax - 1
      BY <1>3, <2>1 DEF CellInv, SlotsHaveRows
    <2> QED BY <1>3, <1>4, <2>1, <2>2
  <1>8. FreeStackSound(c)'
    <2> DEFINE stack == free[c]
    <2>1. Len(stack) \in Nat /\ \A i \in 1 .. Len(stack) : stack[i] \in Slots /\ stack[i] # s
      BY <1>1, LenProperties, ElementOfSeq DEF CellInv, FreeStackSound, Unmapped
    <2>2. \A t \in Slots : t < numSlots'[c] <=> generations'[c][t] > 0
      BY <1>1, <1>2, <1>3, <1>4, <1>5 DEF CellInv, FreeStackSound
    <2>3. CASE generations[c][s] + 1 = GenMax
      <3>1. free'[c] = stack
        BY <2>3 DEF ReleaseSlot
      <3>2. ASSUME NEW t \in Slots
            PROVE (\E i \in 1 .. Len(stack) : stack[i] = t)
                    <=> Unmapped(c, t)' /\ generations'[c][t] \in 1 .. GenMax - 1
        <4>1. CASE t = s
          <5>1. generations'[c][t] = GenMax /\ GenMax \notin 1 .. GenMax - 1
            BY <1>5, <2>3, <4>1, CellAssumption
          <5> QED BY <2>1, <4>1, <5>1
        <4>2. CASE t # s
          BY <1>3, <4>2 DEF CellInv, FreeStackSound, Unmapped
        <4> QED BY <4>1, <4>2
      <3> QED BY <2>2, <3>1, <3>2 DEF CellInv, FreeStackSound
    <2>4. CASE generations[c][s] + 1 # GenMax
      <3>1. free'[c] = Append(stack, s)
        <4>1. free' = [free EXCEPT ![c] = Append(free[c], s)]
          BY <2>4 DEF ReleaseSlot
        <4>2. free \in [Cells -> Seq(Slots)]
          BY DEF TypeOK
        <4> QED BY <4>1, <4>2
      <3>2. /\ Len(free'[c]) = Len(stack) + 1
            /\ free'[c][Len(stack) + 1] = s
            /\ \A i \in 1 .. Len(stack) : free'[c][i] = stack[i]
        BY <1>1, <3>1
      <3>3. \A i, j \in 1 .. Len(free'[c]) : free'[c][i] = free'[c][j] => i = j
        <4> SUFFICES ASSUME NEW i \in 1 .. Len(stack) + 1, NEW j \in 1 .. Len(stack) + 1,
                            free'[c][i] = free'[c][j]
                     PROVE  i = j
          BY <3>2
        <4>1. CASE i \in 1 .. Len(stack) /\ j \in 1 .. Len(stack)
          BY <3>2, <4>1 DEF CellInv, FreeStackSound
        <4>2. CASE i = Len(stack) + 1 \/ j = Len(stack) + 1
          BY SMTT(40), <2>1, <3>2, <4>2
        <4> QED BY <2>1, <4>1, <4>2
      <3>4. ASSUME NEW t \in Slots
            PROVE (\E i \in 1 .. Len(free'[c]) : free'[c][i] = t)
                    <=> Unmapped(c, t)' /\ generations'[c][t] \in 1 .. GenMax - 1
        <4>1. CASE t = s
          <5>1. Unmapped(c, t)' /\ generations'[c][t] \in 1 .. GenMax - 1
            BY <1>4, <1>5, <2>4, <4>1, CellAssumption DEF Unmapped
          <5> QED BY <2>1, <3>2, <4>1, <5>1
        <4>2. CASE t # s
          <5>1. (\E i \in 1 .. Len(free'[c]) : free'[c][i] = t) <=> \E i \in 1 .. Len(stack) : stack[i] = t
            <6>1. Len(stack) \in Nat
              BY <1>1
            <6>2. ASSUME NEW i \in 1 .. Len(free'[c]), free'[c][i] = t
                  PROVE  i \in 1 .. Len(stack) /\ stack[i] = t
              <7>1. i # Len(stack) + 1
                BY <3>2, <4>2, <6>2
              <7>2. i \in 1 .. Len(stack)
                BY <3>2, <6>1, <6>2, <7>1
              <7> QED BY <3>2, <6>2, <7>2
            <6>3. ASSUME NEW i \in 1 .. Len(stack), stack[i] = t
                  PROVE  i \in 1 .. Len(free'[c]) /\ free'[c][i] = t
              BY <3>2, <6>1, <6>3
            <6> QED BY <6>2, <6>3
          <5> QED BY <1>3, <4>2, <5>1 DEF CellInv, FreeStackSound, Unmapped
        <4> QED BY <4>1, <4>2
      <3> QED BY <2>2, <3>3, <3>4 DEF FreeStackSound
    <2> QED BY <2>3, <2>4
  <1> QED BY <1>3, <1>6, <1>7, <1>8

LEMMA FreeCellInv ==
  ASSUME TypeOK, NEW c \in Cells, CellInv(c), NEW h \in Handle, Free(c, h)
  PROVE  CellInv(c)'
  <1> DEFINE s == h.slot
             row == RowOf(c, h)
  <1>1. /\ s \in Slots /\ slotToRow[c][s] # NullRow /\ row = slotToRow[c][s]
        /\ row \notin pins[c] /\ ReleaseSlot(c, s)
    BY DEF Handle, Free, IsLive, RowOf
  <1>2. /\ live'[c] = live[c] \ {row} /\ pins'[c] = pins[c] /\ pending'[c] = pending[c]
        /\ len'[c] = len[c] /\ slotCol'[c] = slotCol[c]
    BY DEF TypeOK, Free, pageVars
  <1> HIDE DEF s, row
  <1>3. Occupied(c)' = Occupied(c) \ {row}
    BY <1>1, <1>2 DEF Occupied
  <1>4. /\ RowsHaveSlots(c)' /\ SlotsHaveRows(c)' /\ FreeStackSound(c)'
        /\ \A t \in Slots : t # s => /\ slotToRow'[c][t] = slotToRow[c][t]
                                     /\ generations'[c][t] = generations[c][t]
    BY <1>1, <1>2, <1>3, ReleaseSlotCellInv
  <1>5. \A p \in pending[c] : p.slot \in Slots /\ p.slot # s
    BY <1>1, CellTypes DEF CellInv, InFlight, PendingRetire
  <1>6. InFlight(c)'
    BY <1>2, <1>4, <1>5 DEF CellInv, InFlight
  <1> QED BY <1>4, <1>6 DEF CellInv

LEMMA MarkPendingRetireCellInv ==
  ASSUME TypeOK, NEW c \in Cells, CellInv(c), NEW h \in Handle, MarkPendingRetire(c, h)
  PROVE  CellInv(c)'
  <1> DEFINE s == h.slot
             row == RowOf(c, h)
             p == [slot |-> s, row |-> row, nextGen |-> h.gen + 1]
  <1>1. /\ s \in Slots /\ slotToRow[c][s] # NullRow /\ row = slotToRow[c][s]
        /\ row \notin pins[c] /\ generations[c][s] + 1 = p.nextGen
        /\ p.slot = s /\ p.row = row
    BY DEF Handle, MarkPendingRetire, IsLive, RowOf
  <1>2. /\ live'[c] = live[c] \ {row} /\ pins'[c] = pins[c] \union {row}
        /\ pending'[c] = pending[c] \union {p}
    BY DEF TypeOK, MarkPendingRetire
  <1>3. /\ len'[c] = len[c] /\ slotCol'[c] = slotCol[c] /\ slotToRow'[c] = slotToRow[c]
        /\ generations'[c] = generations[c] /\ numSlots'[c] = numSlots[c] /\ free'[c] = free[c]
    BY DEF MarkPendingRetire, pageVars, registryVars
  <1> HIDE DEF s, row, p
  <1>4. row \in Occupied(c)
    BY <1>1 DEF CellInv, SlotsHaveRows
  <1>5. Occupied(c)' = Occupied(c)
    BY <1>2, <1>4 DEF Occupied
  <1>6. RowsHaveSlots(c)'
    BY <1>2, <1>3, <1>5 DEF CellInv, RowsHaveSlots
  <1>7. SlotsHaveRows(c)'
    BY <1>3, <1>5 DEF CellInv, SlotsHaveRows
  <1>8. InFlight(c)'
    BY <1>1, <1>2, <1>3 DEF CellInv, InFlight
  <1>9. FreeStackSound(c)'
    BY <1>3 DEF CellInv, FreeStackSound, Unmapped
  <1> QED BY <1>6, <1>7, <1>8, <1>9 DEF CellInv

LEMMA CommitRetireCellInv ==
  ASSUME TypeOK, NEW c \in Cells, CellInv(c), NEW p \in pending[c], CommitRetire(c, p)
  PROVE  CellInv(c)'
  <1>1. /\ p.slot \in Slots /\ p.row \in Rows /\ p.row \in pins[c]
        /\ slotToRow[c][p.slot] = p.row /\ p.row # NullRow /\ ReleaseSlot(c, p.slot)
    BY CellTypes, CellAssumption DEF CellInv, InFlight, PendingRetire, Rows, CommitRetire
  <1>2. /\ live'[c] = live[c] /\ pins'[c] = pins[c] \ {p.row} /\ pending'[c] = pending[c] \ {p}
        /\ len'[c] = len[c] /\ slotCol'[c] = slotCol[c]
    BY DEF TypeOK, CommitRetire, pageVars
  <1>3. Occupied(c)' = Occupied(c) \ {p.row}
    BY <1>1, <1>2 DEF CellInv, RowsHaveSlots, Occupied
  <1>4. /\ RowsHaveSlots(c)' /\ SlotsHaveRows(c)' /\ FreeStackSound(c)'
        /\ \A t \in Slots : t # p.slot => /\ slotToRow'[c][t] = slotToRow[c][t]
                                          /\ generations'[c][t] = generations[c][t]
    BY <1>1, <1>2, <1>3, ReleaseSlotCellInv
  \* One retirement per slot: two with the same slot are the same record.
  <1>5. ASSUME NEW q \in pending[c], q # p PROVE q.slot \in Slots /\ q.slot # p.slot /\ q.row # p.row
    <2>1. q \in PendingRetire /\ p \in PendingRetire
      BY CellTypes
    <2>2. /\ slotToRow[c][q.slot] = q.row /\ generations[c][q.slot] + 1 = q.nextGen
          /\ slotToRow[c][p.slot] = p.row /\ generations[c][p.slot] + 1 = p.nextGen
          /\ q.row \in pins[c]
      BY DEF CellInv, InFlight
    <2>3. q.slot # p.slot
      BY <1>5, <2>1, <2>2 DEF PendingRetire
    <2>4. slotCol[c][q.row] = q.slot /\ slotCol[c][p.row] = p.slot
      BY <1>1, <2>1, <2>2, CellAssumption DEF CellInv, SlotsHaveRows, PendingRetire, Rows
    <2> QED BY <2>1, <2>3, <2>4 DEF PendingRetire
  <1>6. InFlight(c)'
    BY <1>1, <1>2, <1>4, <1>5 DEF CellInv, InFlight
  <1> QED BY <1>4, <1>6 DEF CellInv

LEMMA CompactMoveCellInv ==
  ASSUME TypeOK, NEW c \in Cells, CellInv(c), CompactMove(c)
  PROVE  CellInv(c)'
  <1> DEFINE row == compactRow[c]
             last == len[c] - 1
             s == slotCol[c][last]
  <1>1. /\ row \in Rows /\ last \in Rows /\ row < last
        /\ row \notin Occupied(c) /\ last \in live[c] /\ last \in Occupied(c)
    BY SMTT(40), CellAssumption DEF TypeOK, CompactMove, LastRow, Rows, Dead, Occupied
  <1>2. /\ slotCol[c] \in [Rows -> Slots] /\ slotToRow[c] \in [Slots -> Rows \union {NullRow}]
        /\ live[c] \subseteq Rows /\ pins[c] \subseteq Rows
    BY CellTypes
  <1>3. /\ len'[c] = last /\ live'[c] = (live[c] \union {row}) \ {last}
        /\ pins'[c] = pins[c] /\ pending'[c] = pending[c]
        /\ generations'[c] = generations[c] /\ numSlots'[c] = numSlots[c] /\ free'[c] = free[c]
    BY DEF TypeOK, CompactMove, LastRow
  <1>4. slotCol'[c] = [slotCol[c] EXCEPT ![row] = s, ![last] = slotCol[c][row]]
    BY DEF TypeOK, CompactMove, LastRow, SwapRows
  <1>5. slotToRow'[c] = [slotToRow[c] EXCEPT ![s] = row]
    BY DEF TypeOK, CompactMove, LastRow
  <1> HIDE DEF row, last, s
  <1>6. s \in Slots /\ slotToRow[c][s] = last /\ last # NullRow /\ row # NullRow
    BY <1>1, <1>2, CellAssumption DEF CellInv, RowsHaveSlots, Rows, s
  <1>7. \A r \in Occupied(c) : r # row /\ r <= last /\ r \in Rows
    <2>1. \A r \in Occupied(c) : r \in Rows /\ r < len[c]
      BY <1>2 DEF CellInv, RowsHaveSlots, Occupied
    <2>2. len[c] \in Nat
      BY DEF TypeOK
    <2> QED BY <1>1, <2>1, <2>2 DEF last, Rows
  <1>8. Occupied(c)' = (Occupied(c) \union {row}) \ {last} /\ last \notin pins[c]
    BY <1>1, <1>3 DEF CellInv, RowsHaveSlots, Occupied
  <1>9. RowsHaveSlots(c)'
    <2>1. live'[c] \intersect pins'[c] = {}
      BY <1>1, <1>3 DEF CellInv, RowsHaveSlots, Occupied
    <2>2. ASSUME NEW r \in Occupied(c)' PROVE r < len'[c] /\ slotToRow'[c][slotCol'[c][r]] = r
      <3>1. CASE r = row
        BY <1>1, <1>2, <1>3, <1>4, <1>5, <1>6, <3>1
      <3>2. CASE r # row
        <4>1. r \in Occupied(c) /\ r # last /\ r \in Rows /\ r <= last
          BY <1>7, <1>8, <2>2, <3>2
        <4>2. slotCol'[c][r] = slotCol[c][r] /\ slotCol[c][r] \in Slots
          BY <1>2, <1>4, <3>2, <4>1
        <4>3. slotToRow[c][slotCol[c][r]] = r
          BY <4>1 DEF CellInv, RowsHaveSlots
        <4>4. slotCol[c][r] # s
          BY <1>6, <4>1, <4>3
        <4>5. r < last
          BY <1>1, <4>1 DEF Rows
        <4> QED BY <1>2, <1>3, <1>5, <4>2, <4>3, <4>4, <4>5
      <3> QED BY <3>1, <3>2
    <2> QED BY <2>1, <2>2 DEF RowsHaveSlots
  <1>10. SlotsHaveRows(c)'
    <2> SUFFICES ASSUME NEW t \in Slots, slotToRow'[c][t] # NullRow
                 PROVE  /\ slotToRow'[c][t] \in Occupied(c)'
                        /\ slotCol'[c][slotToRow'[c][t]] = t
                        /\ generations'[c][t] \in 1 .. GenMax - 1
      BY DEF SlotsHaveRows
    <2>1. CASE t = s
      <3>1. slotToRow'[c][t] = row /\ generations[c][s] \in 1 .. GenMax - 1
        BY <1>2, <1>5, <1>6, <2>1 DEF CellInv, SlotsHaveRows
      <3> QED BY <1>1, <1>2, <1>3, <1>4, <1>8, <2>1, <3>1
    <2>2. CASE t # s
      <3>1. slotToRow'[c][t] = slotToRow[c][t]
        BY <1>2, <1>5, <2>2
      <3>2. /\ slotToRow[c][t] \in Occupied(c) /\ slotCol[c][slotToRow[c][t]] = t
            /\ generations[c][t] \in 1 .. GenMax - 1
        BY <3>1 DEF CellInv, SlotsHaveRows
      <3>3. slotToRow[c][t] # last /\ slotToRow[c][t] # row /\ slotToRow[c][t] \in Rows
        BY <1>7, <2>2, <3>2 DEF s
      <3> QED BY <1>2, <1>3, <1>4, <1>8, <3>1, <3>2, <3>3
    <2> QED BY <2>1, <2>2
  <1>11. InFlight(c)'
    <2>1. \A p \in pending[c] : p.slot \in Slots /\ p.slot # s
      BY <1>6, <1>8, CellTypes DEF CellInv, InFlight, PendingRetire
    <2>2. \A p \in pending[c] : slotToRow'[c][p.slot] = slotToRow[c][p.slot]
      BY <1>2, <1>5, <2>1
    <2> QED BY <1>3, <2>2 DEF CellInv, InFlight
  <1>12. FreeStackSound(c)'
    <2>1. \A t \in Slots : Unmapped(c, t)' <=> Unmapped(c, t)
      BY <1>2, <1>5, <1>6 DEF Unmapped
    <2> QED BY <1>3, <2>1 DEF CellInv, FreeStackSound
  <1> QED BY <1>9, <1>10, <1>11, <1>12 DEF CellInv

LEMMA CompactCellInv ==
  ASSUME TypeOK, NEW c \in Cells, CellInv(c), CompactStep(c)
  PROVE  CellInv(c)'
  <1>1. CASE CompactSkip(c)
    BY <1>1, SameCellInv DEF CompactSkip, SameCell, pageVars, registryVars
  <1>2. CASE CompactTrim(c) \/ CompactDropHole(c)
    <2>1. /\ len'[c] = len[c] - 1 /\ len[c] - 1 \notin Occupied(c)
          /\ len[c] \in Nat
      BY <1>2 DEF TypeOK, CompactTrim, CompactDropHole, LastRow, Dead, Occupied
    <2>2. /\ slotCol'[c] = slotCol[c] /\ live'[c] = live[c] /\ pins'[c] = pins[c]
          /\ slotToRow'[c] = slotToRow[c] /\ generations'[c] = generations[c]
          /\ numSlots'[c] = numSlots[c] /\ free'[c] = free[c] /\ pending'[c] = pending[c]
      BY <1>2 DEF CompactTrim, CompactDropHole, registryVars
    <2>3. \A r \in Occupied(c) : r \in Nat /\ r < len[c] /\ r # len[c] - 1
      BY <2>1, CellTypes DEF CellInv, RowsHaveSlots, Occupied, Rows
    <2>4. \A r \in Occupied(c) : r < len'[c]
      BY <2>1, <2>3
    <2>5. RowsHaveSlots(c)'
      BY <2>2, <2>4 DEF CellInv, RowsHaveSlots, Occupied
    <2>6. SlotsHaveRows(c)' /\ InFlight(c)' /\ FreeStackSound(c)'
      BY SMTT(40), <2>2 DEF CellInv, SlotsHaveRows, InFlight, FreeStackSound, Occupied, Unmapped
    <2> QED BY <2>5, <2>6 DEF CellInv
  <1>3. CASE CompactPinnedTail(c)
    BY <1>3, SameCellInv DEF CompactPinnedTail, SameCell, pageVars, registryVars
  <1>4. CASE CompactMove(c)
    BY <1>4, CompactMoveCellInv
  <1>5. CASE CompactEnd(c)
    BY <1>5, SameCellInv DEF CompactEnd, SameCell, pageVars, registryVars
  <1> QED BY <1>1, <1>2, <1>3, <1>4, <1>5 DEF CompactStep

LEMMA NextCellInv ==
  ASSUME TypeOK, NEW c \in Cells, CellInv(c), CellNext(c)
  PROVE  CellInv(c)'
  <1>1. ASSUME NEW h \in Handle, NEW v \in Values, Write(c, h, v) PROVE CellInv(c)'
    BY <1>1, SameCellInv DEF Write, SameCell, registryVars
  <1>2. CASE CompactBegin(c)
    BY <1>2, SameCellInv DEF CompactBegin, SameCell, pageVars, registryVars
  <1> QED BY <1>1, <1>2, AllocCellInv, FreeCellInv, MarkPendingRetireCellInv,
             CommitRetireCellInv, CompactCellInv DEF CellNext

LEMMA InitIInv == Init => IInv
  <1> SUFFICES ASSUME Init PROVE IInv
    OBVIOUS
  <1>1. TypeOK
    <2>1. 0 \in Slots /\ 0 \in 0 .. Capacity /\ 0 \in 0 .. MaxSlots /\ 0 \in 0 .. GenMax
      BY CellAssumption DEF Slots
    <2>2. << >> \in Seq(Slots)
      OBVIOUS
    <2> QED BY <2>1, <2>2, CellAssumption DEF Init, TypeOK
  <1>2. ASSUME NEW c \in Cells PROVE CellInv(c)
    <2>1. live[c] = {} /\ pins[c] = {} /\ pending[c] = {} /\ free[c] = << >> /\ numSlots[c] = 0
      BY DEF Init
    <2>2. \A s \in Slots : slotToRow[c][s] = NullRow /\ generations[c][s] = 0
      BY DEF Init
    <2>3. \A s \in Slots : s \in Nat
      BY DEF Slots
    <2>4. RowsHaveSlots(c) /\ SlotsHaveRows(c) /\ InFlight(c)
      BY <2>1, <2>2 DEF RowsHaveSlots, SlotsHaveRows, InFlight, Occupied
    <2>5. FreeStackSound(c)
      <3>1. Len(free[c]) = 0 /\ \A s \in Slots : ~ (generations[c][s] \in 1 .. GenMax - 1)
        <4>1. Len(free[c]) = 0
          BY <2>1
        <4>2. 0 \notin 1 .. GenMax - 1
          BY CellAssumption
        <4> QED BY <2>2, <4>1, <4>2
      <3>2. \A s \in Slots : ~ (s < numSlots[c]) /\ ~ (generations[c][s] > 0)
        BY <2>1, <2>2, <2>3
      <3> QED BY <3>1, <3>2 DEF FreeStackSound
    <2> QED BY <2>4, <2>5 DEF CellInv
  <1> QED BY <1>1, <1>2, IInvByCell

LEMMA NextIInv == IInv /\ [Next]_cellVars => IInv'
  <1> SUFFICES ASSUME IInv, [Next]_cellVars PROVE IInv'
    OBVIOUS
  <1>0. TypeOK /\ \A d \in Cells : CellInv(d)
    BY IInvByCell
  <1>1. ASSUME NEW c \in Cells, CellNext(c) PROVE IInv'
    <2>1. TypeOK'
      BY <1>1, NextTypeOK
    <2>2. ASSUME NEW d \in Cells PROVE CellInv(d)'
      <3>1. CASE d = c
        BY <1>0, <1>1, <3>1, NextCellInv
      <3>2. CASE d # c
        <4>1. SameCell(d)
          BY <1>0, <1>1, <3>2, OtherCellsSame
        <4> QED BY <1>0, <4>1, SameCellInv
      <3> QED BY <3>1, <3>2
    <2> QED BY <2>1, <2>2 DEF IInv, HandlesResolve, RetirementInFlight, FreeStacksSound, CellInv
  <1>2. CASE UNCHANGED cellVars
    <2>1. TypeOK'
      BY <1>0, <1>2 DEF TypeOK, cellVars, pageVars, registryVars
    <2>2. ASSUME NEW d \in Cells PROVE CellInv(d)'
      <3>1. SameCell(d)
        BY <1>2 DEF SameCell, cellVars, pageVars, registryVars
      <3> QED BY <1>0, <3>1, SameCellInv
    <2> QED BY <2>1, <2>2 DEF IInv, HandlesResolve, RetirementInFlight, FreeStacksSound, CellInv
  <1> QED BY <1>1, <1>2 DEF Next

------------------------------------------------------------------------------
(* The theorems.                                                           *)

LEMMA Invariance == Spec => []IInv
  BY InitIInv, NextIInv, PTL DEF Spec

\* Every index cell.rs computes from a field is within the page and the
\* registry, whatever calls were made before.
THEOREM TypeCorrect == Spec => []TypeOK
  <1>1. IInv => TypeOK
    BY DEF IInv
  <1> QED BY <1>1, Invariance, PTL

\* The liveness mask, the pin mask, the slot column and slot_to_row agree: an
\* element is found under its handle wherever a compaction has put its row.
THEOREM HandlesAlwaysResolve == Spec => []HandlesResolve
  <1>1. IInv => HandlesResolve
    BY DEF IInv
  <1> QED BY <1>1, Invariance, PTL

\* commit_retire always finds the slot with the row and the generation that
\* mark_pending_retire saw ("generation drift between mark and commit").
THEOREM NoGenerationDrift == Spec => []RetirementInFlight
  <1>1. IInv => RetirementInFlight
    BY DEF IInv
  <1> QED BY <1>1, Invariance, PTL

\* A row the GPU may still read is not moved, overwritten or popped.
THEOREM PinnedRowsNeverMove == Spec => PinnedRowsStay
  <1>1. ASSUME IInv, [Next]_cellVars, NEW c \in Cells, NEW r \in pins[c] \intersect pins'[c]
        PROVE  r < len'[c] /\ slotCol'[c][r] = slotCol[c][r] /\ data'[c][r] = data[c][r]
    <2>1. IInv'
      BY <1>1, NextIInv
    <2>2. r < len'[c]
      BY <1>1, <2>1 DEF IInv, HandlesResolve, RowsHaveSlots, Occupied
    <2> DEFINE Kept == slotCol'[c][r] = slotCol[c][r] /\ data'[c][r] = data[c][r]
    <2>3. Kept
      <3>0. /\ TypeOK /\ RowsHaveSlots(c) /\ r \in Rows /\ r < len[c]
            /\ slotCol[c] \in [Rows -> Slots] /\ data[c] \in [Rows -> Values]
            /\ len[c] \in 0 .. Capacity
        BY <1>1 DEF IInv, TypeOK, HandlesResolve, RowsHaveSlots, Occupied
      <3>1. CASE UNCHANGED cellVars
        BY <3>1 DEF cellVars, pageVars
      <3>2. ASSUME NEW d \in Cells, Alloc(d) PROVE Kept
        <4>1. slotCol'[c][r] = slotCol[c][r]
          <5>1. PICK s \in Slots : slotCol' = [slotCol EXCEPT ![d][len[d]] = s]
            BY <3>2 DEF Alloc
          <5>2. slotCol \in [Cells -> [Rows -> Slots]]
            BY <3>0 DEF TypeOK
          <5> QED BY <3>0, <5>1, <5>2
        <4> QED BY <3>2, <4>1 DEF Alloc
      <3>3. ASSUME NEW d \in Cells, NEW h \in Handle, NEW v \in Values, Write(d, h, v) PROVE Kept
        BY <3>0, <3>3 DEF TypeOK, Write
      <3>4. ASSUME NEW d \in Cells, CompactMove(d) PROVE Kept
        <4>1. CASE d = c
          <5>1. compactRow[c] \notin pins[c] /\ LastRow(c) \in live[c] /\ LastRow(c) \notin pins[c]
            BY <3>0, <3>4, <4>1 DEF CompactMove, Dead, RowsHaveSlots
          <5>2. /\ slotCol'[c] = SwapRows(slotCol[c], compactRow[c], LastRow(c))
                /\ data'[c] = SwapRows(data[c], compactRow[c], LastRow(c))
            BY <3>0, <3>4, <4>1 DEF TypeOK, CompactMove
          <5> QED BY <1>1, <3>0, <5>1, <5>2 DEF SwapRows
        <4>2. CASE d # c
          BY <3>0, <3>4, <4>2 DEF TypeOK, CompactMove
        <4> QED BY <4>1, <4>2
      <3>5. ASSUME NEW d \in Cells, CellNext(d), ~ Alloc(d), ~ CompactMove(d),
                   \A h \in Handle, v \in Values : ~ Write(d, h, v)
            PROVE  UNCHANGED <<slotCol, data>>
        BY <3>5 DEF CellNext, CompactStep, Free, MarkPendingRetire, CommitRetire, CompactBegin,
           CompactSkip, CompactTrim, CompactDropHole, CompactPinnedTail, CompactEnd, pageVars
      <3> QED BY <1>1, <3>1, <3>2, <3>3, <3>4, <3>5 DEF Next
    <2> QED BY <2>2, <2>3
  <1>2. IInv /\ [Next]_cellVars =>
          [\A c \in Cells : \A r \in pins[c] \intersect pins'[c] :
             /\ r < len'[c]
             /\ slotCol'[c][r] = slotCol[c][r]
             /\ data'[c][r] = data[c][r]]_cellVars
    BY <1>1
  <1> QED BY <1>2, Invariance, PTL DEF Spec, PinnedRowsStay

------------------------------------------------------------------------------
(* The number of slots a registry creates.                                 *)

AccountInv(c) ==
  /\ retiredCount[c] = Cardinality(RetiredSlots(c))
  /\ numSlots[c] - retiredCount[c] <= Capacity

LEMMA RetiredFinite ==
  ASSUME NEW c \in Cells
  PROVE  IsFiniteSet(RetiredSlots(c)) /\ Cardinality(RetiredSlots(c)) \in Nat
  <1>1. IsFiniteSet(Slots)
    BY FS_Interval, CellAssumption DEF Slots
  <1>2. RetiredSlots(c) \subseteq Slots
    BY DEF RetiredSlots
  <1> QED BY <1>1, <1>2, FS_Subset, FS_CardinalityType

\* When the free stack is empty every created slot is spent or mapped to a row
\* of its own, so a page with room left has a slot to create.
LEMMA RoomForOneMore ==
  ASSUME TypeOK, NEW c \in Cells, CellInv(c), free[c] = << >>, len[c] < Capacity,
         retiredCount[c] = Cardinality(RetiredSlots(c))
  PROVE  numSlots[c] + 1 - retiredCount[c] <= Capacity
  <1> DEFINE Mapped == {s \in Slots : slotToRow[c][s] # NullRow}
             Created == 0 .. numSlots[c] - 1
             f == [s \in Mapped |-> slotToRow[c][s]]
             R == RetiredSlots(c)
  <1>1. /\ len[c] \in Nat /\ numSlots[c] \in 0 .. MaxSlots
        /\ generations[c] \in [Slots -> 0 .. GenMax]
        /\ slotToRow[c] \in [Slots -> Rows \union {NullRow}]
    BY DEF TypeOK
  <1>2. f \in Injection(Mapped, 0 .. len[c] - 1)
    <2>1. ASSUME NEW s \in Mapped
          PROVE  slotToRow[c][s] \in 0 .. len[c] - 1 /\ slotCol[c][slotToRow[c][s]] = s
      <3>1. slotToRow[c][s] \in Occupied(c) /\ slotToRow[c][s] \in Rows
            /\ slotCol[c][slotToRow[c][s]] = s
        BY <1>1 DEF CellInv, SlotsHaveRows
      <3>2. slotToRow[c][s] < len[c]
        BY <3>1 DEF CellInv, RowsHaveSlots
      <3> QED BY <1>1, <3>1, <3>2 DEF Rows
    <2>2. f \in [Mapped -> 0 .. len[c] - 1]
      BY <2>1
    <2>3. \A s, t \in Mapped : f[s] = f[t] => s = t
      BY <2>1
    <2> QED BY <2>2, <2>3 DEF Injection, IsInjective
  <1>3. IsFiniteSet(Mapped) /\ Cardinality(Mapped) <= len[c] /\ Cardinality(Mapped) \in Nat
    <2>0. 0 \in Int /\ len[c] - 1 \in Int
      BY <1>1
    <2>1. IsFiniteSet(0 .. len[c] - 1) /\ Cardinality(0 .. len[c] - 1) = len[c]
      <3>1. /\ IsFiniteSet(0 .. len[c] - 1)
            /\ Cardinality(0 .. len[c] - 1) = IF 0 > len[c] - 1 THEN 0 ELSE len[c] - 1 - 0 + 1
        BY <2>0, FS_Interval
      <3>2. (IF 0 > len[c] - 1 THEN 0 ELSE len[c] - 1 - 0 + 1) = len[c]
        BY <1>1
      <3> QED BY <3>1, <3>2
    <2> HIDE DEF f, Mapped
    <2> QED BY <1>2, <2>1, FS_Injection, FS_CardinalityType
  <1>4. Created = Mapped \union R
    <2>1. ASSUME NEW s \in Slots PROVE s \in Created <=> s \in Mapped \/ s \in R
      <3>1. s \in Created <=> generations[c][s] > 0
        BY <1>1 DEF CellInv, FreeStackSound, Slots
      <3>2. generations[c][s] \in 0 .. GenMax
        BY <1>1
      <3>3. ~ (Unmapped(c, s) /\ generations[c][s] \in 1 .. GenMax - 1)
        BY DEF CellInv, FreeStackSound
      <3>4. s \in Mapped => generations[c][s] \in 1 .. GenMax - 1
        BY DEF CellInv, SlotsHaveRows
      <3> QED BY <3>1, <3>2, <3>3, <3>4, CellAssumption DEF RetiredSlots, Unmapped
    <2>2. Created \subseteq Slots /\ Mapped \subseteq Slots /\ R \subseteq Slots
      BY <1>1, CellAssumption DEF Slots, RetiredSlots
    <2> QED BY <2>1, <2>2
  <1>5. Mapped \intersect R = {}
    BY CellAssumption DEF CellInv, SlotsHaveRows, RetiredSlots
  <1>6. Cardinality(Created) = numSlots[c]
    BY <1>1, FS_Interval
  <1>7. Cardinality(Mapped \union R) = Cardinality(Mapped) + Cardinality(R) - Cardinality(Mapped \intersect R)
    BY <1>3, RetiredFinite, FS_Union
  <1>8. Cardinality(Mapped \intersect R) = 0
    BY <1>5, FS_EmptySet
  <1> HIDE DEF Mapped, Created, R
  <1> QED BY <1>1, <1>3, <1>4, <1>6, <1>7, <1>8, RetiredFinite, CellAssumption DEF R

LEMMA ReleaseAccount ==
  ASSUME TypeOK, NEW c \in Cells, AccountInv(c), NEW s \in Slots, ReleaseSlot(c, s),
         generations[c][s] \in 1 .. GenMax - 1
  PROVE  AccountInv(c)'
  <1>1. /\ generations'[c] = [generations[c] EXCEPT ![s] = generations[c][s] + 1]
        /\ generations[c] \in [Slots -> 0 .. GenMax] /\ numSlots' = numSlots
        /\ numSlots[c] \in 0 .. MaxSlots /\ retiredCount[c] \in Nat
    BY DEF TypeOK, ReleaseSlot
  <1>2. s \notin RetiredSlots(c)
    BY CellAssumption DEF RetiredSlots
  <1>3. CASE generations[c][s] + 1 = GenMax
    <2>1. retiredCount'[c] = retiredCount[c] + 1
      BY <1>3 DEF TypeOK, ReleaseSlot
    <2>2. RetiredSlots(c)' = RetiredSlots(c) \union {s}
      BY <1>1, <1>3 DEF RetiredSlots
    <2>3. Cardinality(RetiredSlots(c)') = Cardinality(RetiredSlots(c)) + 1
      BY <1>2, <2>2, RetiredFinite, FS_AddElement
    <2> QED BY <1>1, <2>1, <2>3, CellAssumption DEF AccountInv
  <1>4. CASE generations[c][s] + 1 # GenMax
    <2>1. retiredCount'[c] = retiredCount[c]
      BY <1>4 DEF ReleaseSlot
    <2>2. RetiredSlots(c)' = RetiredSlots(c)
      BY <1>1, <1>2, <1>4 DEF RetiredSlots
    <2> QED BY <1>1, <2>1, <2>2 DEF AccountInv
  <1> QED BY <1>3, <1>4

LEMMA NextAccount ==
  ASSUME IInv, NEW c \in Cells, CellNext(c), NEW d \in Cells, AccountInv(d)
  PROVE  AccountInv(d)'
  <1>0. TypeOK /\ CellInv(c)
    BY IInvByCell
  <1> DEFINE Same == /\ retiredCount'[d] = retiredCount[d]
                     /\ numSlots'[d] = numSlots[d]
                     /\ generations'[d] = generations[d]
  <1>1. CASE Same
    BY <1>1 DEF AccountInv, RetiredSlots
  <1>2. CASE d = c /\ Alloc(c)
    <2>1. PICK s \in Slots : AllocateSlot(c, len[c], s)
      BY <1>2 DEF Alloc
    <2>2. CASE ReuseSlot(c, len[c], s)
      BY <1>1, <1>2, <2>2 DEF ReuseSlot
    <2>3. CASE CreateSlot(c, len[c], s)
      <3>1. /\ retiredCount'[c] = retiredCount[c] /\ numSlots'[c] = numSlots[c] + 1
            /\ generations'[c] = [generations[c] EXCEPT ![s] = 1] /\ s = numSlots[c]
            /\ generations[c] \in [Slots -> 0 .. GenMax] /\ free[c] = << >>
        BY <1>0, <2>3 DEF TypeOK, CreateSlot
      <3>2. generations[c][s] # GenMax
        <4>1. s < numSlots[c] <=> generations[c][s] > 0
          BY <1>0 DEF CellInv, FreeStackSound
        <4>2. ~ (s < numSlots[c])
          BY <1>0, <3>1 DEF TypeOK
        <4> QED BY <4>1, <4>2, CellAssumption
      <3>3. RetiredSlots(c)' = RetiredSlots(c)
        BY <3>1, <3>2, CellAssumption DEF RetiredSlots
      <3>4. len[c] < Capacity
        BY <1>2 DEF Alloc
      <3>5. numSlots[c] + 1 - retiredCount[c] <= Capacity
        BY <1>0, <1>2, <3>1, <3>4, RoomForOneMore DEF AccountInv
      <3>6. retiredCount'[c] = Cardinality(RetiredSlots(c)')
        BY <1>2, <3>1, <3>3 DEF AccountInv
      <3>7. numSlots'[c] - retiredCount'[c] <= Capacity
        <4>1. numSlots[c] \in Nat /\ retiredCount[c] \in Nat
          BY <1>0 DEF TypeOK
        <4> QED BY <3>1, <3>5, <4>1, CellAssumption
      <3> QED BY <1>2, <3>6, <3>7 DEF AccountInv
    <2> QED BY <2>1, <2>2, <2>3 DEF AllocateSlot
  <1>3. ASSUME d = c, NEW h \in Handle, Free(c, h) PROVE AccountInv(d)'
    <2>1. h.slot \in Slots /\ ReleaseSlot(c, h.slot) /\ generations[c][h.slot] \in 1 .. GenMax - 1
      BY <1>0, <1>3 DEF Free, IsLive, Handle, CellInv, SlotsHaveRows
    <2> QED BY <1>0, <1>3, <2>1, ReleaseAccount
  <1>4. ASSUME d = c, NEW p \in pending[c], CommitRetire(c, p) PROVE AccountInv(d)'
    <2>1. p \in PendingRetire /\ ReleaseSlot(c, p.slot) /\ slotToRow[c][p.slot] = p.row
      BY <1>0, <1>4 DEF TypeOK, CommitRetire, CellInv, InFlight
    <2>2. p.slot \in Slots /\ generations[c][p.slot] \in 1 .. GenMax - 1
      BY <1>0, <2>1, CellAssumption DEF PendingRetire, Rows, CellInv, SlotsHaveRows
    <2> QED BY <1>0, <1>4, <2>1, <2>2, ReleaseAccount
  <1>5. CASE d # c
    <2>1. numSlots'[d] = numSlots[d] /\ generations'[d] = generations[d]
      BY <1>0, <1>5, OtherCellsSame DEF SameCell
    <2>2. retiredCount'[d] = retiredCount[d]
      BY <1>0, <1>5
         DEF TypeOK, CellNext, Alloc, AllocateSlot, ReuseSlot, CreateSlot, Write, Free,
             ReleaseSlot, MarkPendingRetire, CommitRetire, CompactBegin, CompactStep,
             CompactSkip, CompactTrim, CompactDropHole, CompactPinnedTail, CompactMove,
             CompactEnd, registryVars
    <2> QED BY <1>1, <2>1, <2>2
  <1>6. ASSUME d = c, NEW h \in Handle, (\E v \in Values : Write(c, h, v)) \/ MarkPendingRetire(c, h)
        PROVE AccountInv(d)'
    BY <1>1, <1>6 DEF Write, MarkPendingRetire, registryVars
  <1>7. CASE d = c /\ (CompactBegin(c) \/ CompactStep(c))
    BY <1>1, <1>7 DEF CompactBegin, CompactStep, CompactSkip, CompactTrim, CompactDropHole,
       CompactPinnedTail, CompactMove, CompactEnd, registryVars
  <1> QED BY <1>2, <1>3, <1>4, <1>5, <1>6, <1>7 DEF CellNext

\* No slot is lost or pooled twice, the spent ones are counted, and apart from
\* these a registry never creates more slots than the page has rows: the slot
\* region of capacity + tombstone_headroom slots suffices until the headroom
\* is spent.
THEOREM SlotsAccounted == Spec => []SlotAccounting
  <1> DEFINE Inv == IInv /\ \A c \in Cells : AccountInv(c)
  <1>1. Init => Inv
    <2> SUFFICES ASSUME Init, NEW c \in Cells PROVE AccountInv(c)
      BY InitIInv
    <2>1. RetiredSlots(c) = {}
      BY CellAssumption DEF Init, RetiredSlots
    <2> QED BY <2>1, FS_EmptySet, CellAssumption DEF Init, AccountInv
  <1>2. Inv /\ [Next]_cellVars => Inv'
    <2> SUFFICES ASSUME Inv, [Next]_cellVars PROVE Inv'
      OBVIOUS
    <2>1. IInv'
      BY NextIInv
    <2>2. ASSUME NEW d \in Cells PROVE AccountInv(d)'
      <3>1. CASE Next
        BY <3>1, NextAccount DEF Next
      <3>2. CASE UNCHANGED cellVars
        BY <3>2 DEF cellVars, registryVars, AccountInv, RetiredSlots
      <3> QED BY <3>1, <3>2
    <2> QED BY <2>1, <2>2
  <1>3. Inv => SlotAccounting
    BY DEF IInv, FreeStacksSound, SlotAccounting, AccountInv
  <1> QED BY <1>1, <1>2, <1>3, PTL DEF Spec

------------------------------------------------------------------------------
(* What compact_report leaves behind.                                      *)

\* The rows the cursor has passed stay, and the cursor is within the page.
CompactInv(c) ==
  compactRow[c] # Idle =>
    /\ compactRow[c] <= len[c]
    /\ \A r \in 0 .. compactRow[c] - 1 : ~ Dead(c, r)

LEMMA CompactStepInv ==
  ASSUME TypeOK, NEW c \in Cells, CellNext(c), CompactInv(c)
  PROVE  /\ CompactInv(c)'
         /\ Returns(c) => ~ HasHole(c)' \/ len'[c] - 1 \in pins'[c]
  <1> DEFINE row == compactRow[c]
             Good == /\ CompactInv(c)'
                     /\ Returns(c) => ~ HasHole(c)' \/ len'[c] - 1 \in pins'[c]
  <1>0. /\ len[c] \in 0 .. Capacity /\ row \in 0 .. Capacity \union {Idle}
        /\ compactRow \in [Cells -> 0 .. Capacity \union {Idle}]
        /\ len \in [Cells -> 0 .. Capacity]
    BY DEF TypeOK
  <1>1. CASE row = Idle
    <2>1. compactRow'[c] = Idle \/ compactRow'[c] = 0
      BY <1>0, <1>1 DEF CellNext, Alloc, Write, Free, MarkPendingRetire, CommitRetire, CompactBegin,
         CompactStep, CompactSkip, CompactTrim, CompactDropHole, CompactPinnedTail, CompactMove,
         CompactEnd
    <2>2. compactRow'[c] = 0 => len'[c] \in Nat
      <3>1. CASE CompactBegin(c)
        BY <1>0, <3>1 DEF CompactBegin, pageVars
      <3>2. CASE ~ CompactBegin(c)
        BY <1>0, <1>1, <3>2, CellAssumption
           DEF CellNext, Alloc, Write, Free, MarkPendingRetire, CommitRetire, CompactStep, CompactSkip,
               CompactTrim, CompactDropHole, CompactPinnedTail, CompactMove, CompactEnd
      <3> QED BY <3>1, <3>2
    <2> QED BY <1>1, <2>1, <2>2 DEF CompactInv, Returns
  <1>2. CASE row # Idle
    <2>0. /\ row \in Nat /\ row <= len[c] /\ len[c] \in Nat
          /\ \A r \in 0 .. row - 1 : ~ Dead(c, r)
      BY <1>0, <1>2 DEF CompactInv
    <2>1. CASE CompactSkip(c)
      <3>1. compactRow'[c] = row + 1 /\ len' = len /\ live' = live /\ pins' = pins /\ row < len[c] /\ ~ Dead(c, row)
        BY <1>0, <2>1 DEF CompactSkip, pageVars
      <3>2. row + 1 # Idle
        BY <2>0, CellAssumption
      <3>3. \A r \in 0 .. row : ~ Dead(c, r)'
        BY <2>0, <3>1 DEF Dead
      <3> QED BY <2>0, <3>1, <3>2, <3>3 DEF CompactInv, Returns
    <2>2. CASE CompactTrim(c)
      <3>1. compactRow' = compactRow /\ len'[c] = len[c] - 1 /\ live' = live /\ pins' = pins /\ len[c] > row + 1
        BY <1>0, <2>2 DEF CompactTrim
      <3> QED BY <1>2, <2>0, <3>1 DEF CompactInv, Returns, Dead
    <2>3. CASE CompactDropHole(c)
      <3>1. compactRow'[c] = Idle /\ len'[c] = row /\ live' = live /\ pins' = pins
        BY <1>0, <2>0, <2>3 DEF CompactDropHole
      <3> QED BY <2>0, <3>1 DEF CompactInv, HasHole, Dead
    <2>4. CASE CompactPinnedTail(c)
      <3>1. compactRow'[c] = Idle /\ len' = len /\ pins' = pins /\ len[c] - 1 \in pins[c]
        BY <1>0, <2>4 DEF CompactPinnedTail, pageVars, LastRow
      <3> QED BY <3>1 DEF CompactInv
    <2>5. CASE CompactMove(c)
      <3>1. /\ compactRow'[c] = row + 1 /\ len'[c] = len[c] - 1 /\ pins' = pins
            /\ live'[c] = (live[c] \union {row}) \ {len[c] - 1} /\ len[c] > row + 1
        BY <1>0, <2>5 DEF TypeOK, CompactMove, LastRow
      <3>2. row + 1 # Idle
        BY <2>0, CellAssumption
      <3>3. \A r \in 0 .. row : ~ Dead(c, r)'
        BY <2>0, <3>1 DEF Dead
      <3> QED BY <2>0, <3>1, <3>2, <3>3 DEF CompactInv, Returns
    <2>6. CASE CompactEnd(c)
      <3>1. compactRow'[c] = Idle /\ len' = len /\ live' = live /\ pins' = pins /\ row >= len[c]
        BY <1>0, <2>6 DEF CompactEnd, pageVars
      <3> QED BY <2>0, <3>1 DEF CompactInv, HasHole, Dead
    <2> QED BY <1>2, <2>1, <2>2, <2>3, <2>4, <2>5, <2>6
            DEF CellNext, CompactStep, Alloc, Write, Free, MarkPendingRetire, CommitRetire, CompactBegin
  <1> QED BY <1>1, <1>2

\* compact_report leaves the rows dense, or a pinned row at the end of the page.
THEOREM CompactionClosesHoles == Spec => CompactionCloses
  <1> DEFINE Inv == IInv /\ \A c \in Cells : CompactInv(c)
  <1>1. Init => Inv
    BY InitIInv DEF Init, CompactInv
  <1> DEFINE Closes == \A c \in Cells : Returns(c) => \/ ~HasHole(c)'
                                                       \/ len'[c] - 1 \in pins'[c]
  <1>2. Inv /\ [Next]_cellVars => Inv' /\ [Closes]_cellVars
    <2> SUFFICES ASSUME Inv, [Next]_cellVars PROVE Inv' /\ [Closes]_cellVars
      OBVIOUS
    <2>0. IInv' /\ TypeOK
      BY NextIInv DEF IInv
    <2>1. CASE UNCHANGED cellVars
      BY <2>0, <2>1 DEF cellVars, pageVars, CompactInv, Dead
    <2>2. ASSUME NEW c \in Cells, CellNext(c), NEW d \in Cells
          PROVE  /\ CompactInv(d)'
                 /\ Returns(d) => ~ HasHole(d)' \/ len'[d] - 1 \in pins'[d]
      <3>1. CASE d = c
        BY <2>0, <2>2, <3>1, CompactStepInv
      <3>2. CASE d # c
        <4>1. len'[d] = len[d] /\ live'[d] = live[d] /\ pins'[d] = pins[d]
          BY <2>0, <2>2, <3>2, OtherCellsSame DEF SameCell
        <4>2. compactRow'[d] = compactRow[d]
          BY <2>0, <2>2, <3>2
             DEF TypeOK, CellNext, Alloc, Write, Free, MarkPendingRetire, CommitRetire, CompactBegin,
                 CompactStep, CompactSkip, CompactTrim, CompactDropHole, CompactPinnedTail,
                 CompactMove, CompactEnd
        <4> QED BY <4>1, <4>2 DEF CompactInv, Dead, Returns
      <3> QED BY <3>1, <3>2
    <2> QED BY <2>0, <2>1, <2>2 DEF Next
  <1>3. Inv /\ [Next]_cellVars =>
          [\A c \in Cells : Returns(c) => \/ ~HasHole(c)'
                                          \/ len'[c] - 1 \in pins'[c]]_cellVars
    BY <1>2
  <1>4. Inv /\ [Next]_cellVars => Inv'
    BY <1>2
  <1> HIDE DEF Inv
  <1> QED BY <1>1, <1>3, <1>4, PTL DEF Spec, CompactionCloses

------------------------------------------------------------------------------
(* CellStorage implements HandleMap.                                       *)

MappedStatus == [h \in CellHandle |-> HandleStatus(h)]
MappedValue  == [h \in CellHandle |-> HandleValue(h)]

\* What a handle means depends on its slot's generation and row, on the row's
\* pin and on the row's contents.
LEMMA SameMeaning ==
  ASSUME NEW k \in CellHandle,
         generations'[k.cell][k.slot] = generations[k.cell][k.slot],
         slotToRow'[k.cell][k.slot] = slotToRow[k.cell][k.slot],
         NEW row, row = slotToRow[k.cell][k.slot],
         row # NullRow => /\ row \in pins'[k.cell] <=> row \in pins[k.cell]
                          /\ data'[k.cell][row] = data[k.cell][row]
  PROVE  HandleStatus(k)' = HandleStatus(k) /\ HandleValue(k)' = HandleValue(k)
  BY DEF HandleStatus, HandleValue, Current, RowOf

LEMMA OtherCellsMeaning ==
  ASSUME TypeOK, NEW c \in Cells, CellNext(c), NEW k \in CellHandle, k.cell # c
  PROVE  HandleStatus(k)' = HandleStatus(k) /\ HandleValue(k)' = HandleValue(k)
  <1>1. k.cell \in Cells
    BY DEF CellHandle
  <1>2. SameCell(k.cell) /\ data'[k.cell] = data[k.cell]
    BY <1>1, OtherCellsSame
  <1> QED BY <1>2, SameMeaning DEF SameCell

\* Steps that keep generations, slot_to_row, pins and data of the cell.
LEMMA SilentStep ==
  ASSUME TypeOK, NEW c \in Cells, CellNext(c),
         generations'[c] = generations[c], slotToRow'[c] = slotToRow[c],
         pins'[c] = pins[c], data'[c] = data[c]
  PROVE  UNCHANGED <<MappedStatus, MappedValue>>
  <1>1. ASSUME NEW k \in CellHandle
        PROVE  HandleStatus(k)' = HandleStatus(k) /\ HandleValue(k)' = HandleValue(k)
    <2>1. CASE k.cell = c
      BY <2>1, SameMeaning
    <2>2. CASE k.cell # c
      BY <2>2, OtherCellsMeaning
    <2> QED BY <2>1, <2>2
  <1> QED BY <1>1 DEF MappedStatus, MappedValue

\* A step that changes the meaning of one handle only.
LEMMA OneHandle ==
  ASSUME NEW h \in CellHandle,
         \A k \in CellHandle : k # h => HandleStatus(k)' = HandleStatus(k) /\ HandleValue(k)' = HandleValue(k)
  PROVE  /\ MappedStatus' = [MappedStatus EXCEPT ![h] = HandleStatus(h)']
         /\ MappedValue' = [MappedValue EXCEPT ![h] = HandleValue(h)']
         /\ MappedStatus[h] = HandleStatus(h)
         /\ MappedValue[h] = HandleValue(h)
  BY DEF MappedStatus, MappedValue

LEMMA CellHandleElement ==
  ASSUME NEW k \in CellHandle
  PROVE  /\ k.cell \in Cells /\ k.slot \in Slots /\ k.gen \in 1 .. GenMax - 1 /\ k.gen \in Nat
         /\ \A h \in CellHandle : h.cell = k.cell /\ h.slot = k.slot /\ h.gen = k.gen => h = k
  BY CellAssumption DEF CellHandle

LEMMA AllocMeaning ==
  ASSUME IInv, NEW c \in Cells, Alloc(c)
  PROVE  HM!Next
  <1>0. TypeOK /\ CellInv(c) /\ CellNext(c)
    BY IInvByCell DEF CellNext
  <1> DEFINE row == len[c]
             v == data[c][row]
  <1>1. row \in Rows /\ row \in Nat /\ row # NullRow /\ v \in Values
    BY <1>0, CellAssumption DEF TypeOK, Alloc, Rows
  <1>2. PICK s \in Slots : AllocateSlot(c, row, s)
    BY DEF Alloc
  <1>3. /\ slotToRow[c] \in [Slots -> Rows \union {NullRow}]
        /\ generations[c] \in [Slots -> 0 .. GenMax]
        /\ data' = data /\ pins' = pins /\ row \notin Occupied(c)
    BY <1>0, <1>1 DEF TypeOK, Alloc, CellInv, RowsHaveSlots
  <1>4. slotToRow'[c] = [slotToRow[c] EXCEPT ![s] = row]
    <2>1. slotToRow' = [slotToRow EXCEPT ![c][s] = row]
      BY <1>2 DEF AllocateSlot, ReuseSlot, CreateSlot
    <2> QED BY <1>0, <2>1 DEF TypeOK
  <1>5. /\ slotToRow[c][s] = NullRow
        /\ \A t \in Slots : t # s => generations'[c][t] = generations[c][t]
        /\ generations'[c][s] \in 1 .. GenMax - 1
        /\ \/ generations'[c][s] = generations[c][s]
           \/ generations'[c][s] = 1 /\ generations[c][s] = 0
    <2>1. /\ free[c] \in Seq(Slots) /\ numSlots[c] \in 0 .. MaxSlots
          /\ generations \in [Cells -> [Slots -> 0 .. GenMax]]
      BY <1>0 DEF TypeOK
    <2>2. CASE ReuseSlot(c, row, s)
      <3>1. s = free[c][Len(free[c])] /\ Len(free[c]) \in Nat \ {0}
        BY <2>1, <2>2, FrontLast DEF ReuseSlot
      <3>2. Unmapped(c, s) /\ generations[c][s] \in 1 .. GenMax - 1
        BY <1>0, <3>1 DEF CellInv, FreeStackSound
      <3>3. generations' = generations
        BY <2>2 DEF ReuseSlot
      <3>4. slotToRow[c][s] = NullRow
        BY <3>2 DEF Unmapped
      <3> QED BY <3>2, <3>3, <3>4, Zenon
    <2>3. CASE CreateSlot(c, row, s)
      <3>1. s = numSlots[c] /\ generations'[c] = [generations[c] EXCEPT ![s] = 1]
        BY <2>1, <2>3 DEF CreateSlot
      <3>2. generations[c][s] = 0
        <4>1. s < numSlots[c] <=> generations[c][s] > 0
          BY <1>0 DEF CellInv, FreeStackSound
        <4>2. ~ (s < numSlots[c]) /\ generations[c][s] \in 0 .. GenMax
          BY <1>3, <2>1, <3>1
        <4> QED BY <4>1, <4>2
      <3>3. slotToRow[c][s] = NullRow
        BY <1>0, <3>2 DEF CellInv, SlotsHaveRows
      <3> QED BY <1>3, <3>1, <3>2, <3>3, CellAssumption
    <2> QED BY <1>2, <2>2, <2>3 DEF AllocateSlot
  <1> HIDE DEF row, v
  <1>6. PICK h \in CellHandle : h.cell = c /\ h.slot = s /\ h.gen = generations'[c][s] /\ h.gen \in Nat
    <2>1. [cell |-> c, slot |-> s, gen |-> generations'[c][s]] \in CellHandle
      BY <1>5 DEF CellHandle
    <2> QED BY <1>5, <2>1, CellAssumption
  <1>7. HandleStatus(h) = "unissued"
    BY <1>3, <1>5, <1>6 DEF HandleStatus, Current
  <1>8. row \notin pins[c] /\ slotToRow'[c][s] = row
    BY <1>3, <1>4 DEF Occupied
  <1>9. HandleStatus(h)' = "live" /\ HandleValue(h)' = v
    <2>1. Current(h)' /\ RowOf(c, h)' = row
      BY <1>1, <1>6, <1>8 DEF Current, RowOf
    <2>2. ~ (h.gen < generations'[c][s])
      BY <1>6
    <2>3. data'[c][row] = v /\ row \notin pins'[c]
      BY <1>3, <1>8 DEF v
    <2> QED BY <1>6, <2>1, <2>2, <2>3 DEF HandleStatus, HandleValue
  <1>10. ASSUME NEW k \in CellHandle, k # h
         PROVE HandleStatus(k)' = HandleStatus(k) /\ HandleValue(k)' = HandleValue(k)
    <2>1. CASE k.cell # c
      BY <1>0, <2>1, OtherCellsMeaning
    <2>2. CASE k.cell = c /\ k.slot # s
      <3>1. k.slot \in Slots
        BY CellHandleElement
      <3>2. generations'[c][k.slot] = generations[c][k.slot] /\ slotToRow'[c][k.slot] = slotToRow[c][k.slot]
        BY <1>3, <1>4, <1>5, <2>2, <3>1
      <3> QED BY <1>3, <2>2, <3>2, SameMeaning
    <2>3. CASE k.cell = c /\ k.slot = s
      <3>1. k.gen # h.gen /\ k.gen \in Nat /\ k.gen >= 1
        BY <1>6, <1>10, <2>3, CellHandleElement
      <3>2. k.gen < generations'[c][s] <=> k.gen < generations[c][s]
        BY <1>5, <3>1
      <3>3. ~ Current(k) /\ ~ Current(k)'
        BY <1>5, <1>6, <2>3, <3>1 DEF Current
      <3> QED BY <2>3, <3>2, <3>3 DEF HandleStatus, HandleValue
    <2> QED BY <2>1, <2>2, <2>3
  <1>11. HM!Alloc(h, v)
    <2>1. /\ MappedStatus[h] = "unissued"
          /\ MappedStatus' = [MappedStatus EXCEPT ![h] = "live"]
          /\ MappedValue' = [MappedValue EXCEPT ![h] = v]
      BY <1>6, <1>7, <1>9, <1>10, OneHandle
    <2> QED BY <2>1 DEF HM!Alloc, HM!Become, MappedStatus, MappedValue
  <1> QED BY <1>1, <1>6, <1>11 DEF HM!Next

LEMMA WriteMeaning ==
  ASSUME IInv, NEW c \in Cells, NEW g \in Handle, NEW v \in Values, Write(c, g, v)
  PROVE  HM!Next
  <1>0. TypeOK /\ CellInv(c) /\ CellNext(c)
    BY IInvByCell DEF CellNext
  <1> DEFINE s == g.slot
             row == slotToRow[c][s]
  <1>1. /\ s \in Slots /\ row # NullRow /\ row \notin pins[c] /\ generations[c][s] = g.gen
        /\ row \in Rows /\ slotCol[c][row] = s
    BY <1>0, CellTypes DEF Handle, Write, IsLive, RowOf, CellInv, SlotsHaveRows
  <1>2. /\ data'[c] = [data[c] EXCEPT ![row] = v] /\ data[c] \in [Rows -> Values]
        /\ slotToRow' = slotToRow /\ generations' = generations /\ pins' = pins
    BY <1>0 DEF TypeOK, Write, RowOf, registryVars
  <1>3. g.gen \in 1 .. GenMax - 1
    BY <1>0, <1>1 DEF CellInv, SlotsHaveRows
  <1>4. PICK h \in CellHandle : h.cell = c /\ h.slot = s /\ h.gen = generations[c][s] /\ h.gen \in Nat
    <2>1. [cell |-> c, slot |-> s, gen |-> generations[c][s]] \in CellHandle
      BY <1>1, <1>3 DEF CellHandle
    <2> QED BY <1>1, <1>3, <2>1, CellAssumption
  <1> HIDE DEF s, row
  <1>5. /\ HandleStatus(h) = "live" /\ HandleStatus(h)' = "live" /\ HandleValue(h)' = v
    <2>1. Current(h) /\ RowOf(c, h) = row /\ Current(h)' /\ RowOf(c, h)' = row
      BY <1>1, <1>2, <1>4 DEF Current, RowOf, row
    <2>2. data'[c][row] = v
      BY <1>1, <1>2
    <2> QED BY <1>1, <1>2, <1>4, <2>1, <2>2 DEF HandleStatus, HandleValue
  <1>6. ASSUME NEW k \in CellHandle, k # h
        PROVE HandleStatus(k)' = HandleStatus(k) /\ HandleValue(k)' = HandleValue(k)
    <2>1. CASE k.cell # c
      BY <1>0, <2>1, OtherCellsMeaning
    <2>2. CASE k.cell = c /\ k.slot # s
      <3>1. slotToRow[c][k.slot] # NullRow => slotToRow[c][k.slot] \in Rows /\ slotToRow[c][k.slot] # row
        BY <1>0, <1>1, <2>2, CellTypes, CellHandleElement DEF CellInv, SlotsHaveRows
      <3>2. slotToRow[c][k.slot] # NullRow => data'[c][slotToRow[c][k.slot]] = data[c][slotToRow[c][k.slot]]
        BY <1>2, <3>1
      <3> QED BY <1>2, <2>2, <3>2, SameMeaning
    <2>3. CASE k.cell = c /\ k.slot = s
      <3>1. k.gen # h.gen
        BY <1>4, <1>6, <2>3, CellHandleElement
      <3> QED BY <1>2, <1>4, <2>3, <3>1 DEF HandleStatus, HandleValue, Current
    <2> QED BY <2>1, <2>2, <2>3
  <1>7. HM!Write(h, v)
    <2>1. /\ MappedStatus[h] = "live"
          /\ MappedStatus' = [MappedStatus EXCEPT ![h] = "live"]
          /\ MappedValue' = [MappedValue EXCEPT ![h] = v]
      BY <1>5, <1>6, OneHandle
    <2>2. MappedStatus' = MappedStatus
      BY <1>5, <1>6, OneHandle DEF MappedStatus
    <2> QED BY <2>1, <2>2 DEF HM!Write, MappedStatus, MappedValue
  <1> QED BY <1>7 DEF HM!Next

\* The common part of Free and CommitRetire.
LEMMA ReleaseMeaning ==
  ASSUME IInv, NEW c \in Cells, CellNext(c), NEW s \in Slots, ReleaseSlot(c, s),
         NEW row, row = slotToRow[c][s], row # NullRow, data' = data,
         pins'[c] = pins[c] \/ pins'[c] = pins[c] \ {row}
  PROVE  \E h \in CellHandle :
            /\ HandleStatus(h) = (IF row \in pins[c] THEN "retiring" ELSE "live")
            /\ HandleStatus(h)' = "dead" /\ HandleValue(h)' = NoValue
            /\ \A k \in CellHandle : k # h => /\ HandleStatus(k)' = HandleStatus(k)
                                              /\ HandleValue(k)' = HandleValue(k)
  <1>0. TypeOK /\ CellInv(c)
    BY IInvByCell
  <1>1. /\ slotToRow'[c] = [slotToRow[c] EXCEPT ![s] = NullRow]
        /\ generations'[c] = [generations[c] EXCEPT ![s] = generations[c][s] + 1]
        /\ slotToRow[c] \in [Slots -> Rows \union {NullRow}]
        /\ generations[c] \in [Slots -> 0 .. GenMax]
    BY <1>0 DEF TypeOK, ReleaseSlot
  <1>2. /\ slotToRow'[c][s] = NullRow /\ generations'[c][s] = generations[c][s] + 1
        /\ \A t \in Slots : t # s => /\ slotToRow'[c][t] = slotToRow[c][t]
                                     /\ generations'[c][t] = generations[c][t]
    BY <1>1
  <1>3. generations[c][s] \in 1 .. GenMax - 1 /\ generations[c][s] \in Nat /\ slotCol[c][row] = s
    BY <1>0, CellAssumption DEF CellInv, SlotsHaveRows
  <1>4. PICK h \in CellHandle : h.cell = c /\ h.slot = s /\ h.gen = generations[c][s]
    <2>1. [cell |-> c, slot |-> s, gen |-> generations[c][s]] \in CellHandle
      BY <1>3 DEF CellHandle
    <2> QED BY <2>1
  <1>5. HandleStatus(h) = (IF row \in pins[c] THEN "retiring" ELSE "live")
    BY <1>3, <1>4 DEF HandleStatus, Current, RowOf
  <1>6. HandleStatus(h)' = "dead" /\ HandleValue(h)' = NoValue
    BY <1>2, <1>3, <1>4 DEF HandleStatus, HandleValue, Current
  <1>7. ASSUME NEW k \in CellHandle, k # h
        PROVE HandleStatus(k)' = HandleStatus(k) /\ HandleValue(k)' = HandleValue(k)
    <2>1. CASE k.cell # c
      BY <1>0, <2>1, OtherCellsMeaning
    <2>2. CASE k.cell = c /\ k.slot # s
      <3>1. slotToRow[c][k.slot] # NullRow => slotToRow[c][k.slot] # row
        BY <1>0, <1>3, <2>2, CellHandleElement DEF CellInv, SlotsHaveRows
      <3>2. slotToRow[c][k.slot] # NullRow =>
              (slotToRow[c][k.slot] \in pins'[c] <=> slotToRow[c][k.slot] \in pins[c])
        BY <3>1
      <3>3. k.slot \in Slots
        BY CellHandleElement
      <3> QED BY <1>2, <2>2, <3>2, <3>3, SameMeaning
    <2>3. CASE k.cell = c /\ k.slot = s
      <3>1. k.gen # h.gen /\ k.gen \in Nat
        BY <1>4, <1>7, <2>3, CellHandleElement
      <3>2. k.gen < generations'[c][s] <=> k.gen < generations[c][s]
        BY <1>2, <1>3, <1>4, <3>1
      <3>3. ~ Current(k) /\ ~ Current(k)'
        BY <1>2, <1>4, <2>3, <3>1 DEF Current
      <3> QED BY <2>3, <3>2, <3>3 DEF HandleStatus, HandleValue
    <2> QED BY <2>1, <2>2, <2>3
  <1> QED BY <1>5, <1>6, <1>7

LEMMA FreeMeaning ==
  ASSUME IInv, NEW c \in Cells, NEW g \in Handle, Free(c, g)
  PROVE  HM!Next
  <1>1. /\ CellNext(c) /\ g.slot \in Slots /\ ReleaseSlot(c, g.slot)
        /\ slotToRow[c][g.slot] # NullRow /\ slotToRow[c][g.slot] \notin pins[c]
        /\ data' = data /\ pins'[c] = pins[c]
    BY DEF CellNext, Free, Handle, IsLive, RowOf, pageVars
  <1>2. PICK h \in CellHandle :
            /\ HandleStatus(h) = "live"
            /\ HandleStatus(h)' = "dead" /\ HandleValue(h)' = NoValue
            /\ \A k \in CellHandle : k # h => /\ HandleStatus(k)' = HandleStatus(k)
                                              /\ HandleValue(k)' = HandleValue(k)
    BY <1>1, ReleaseMeaning
  <1>3. /\ MappedStatus[h] = "live"
        /\ MappedStatus' = [MappedStatus EXCEPT ![h] = "dead"]
        /\ MappedValue' = [MappedValue EXCEPT ![h] = NoValue]
    BY <1>2, OneHandle
  <1>4. HM!Free(h)
    BY <1>3 DEF HM!Free, HM!Become, MappedStatus, MappedValue
  <1> QED BY <1>4 DEF HM!Next

LEMMA CommitMeaning ==
  ASSUME IInv, NEW c \in Cells, NEW p \in pending[c], CommitRetire(c, p)
  PROVE  HM!Next
  <1>0. TypeOK /\ CellInv(c)
    BY IInvByCell
  <1>1. /\ CellNext(c) /\ p.slot \in Slots /\ ReleaseSlot(c, p.slot)
        /\ slotToRow[c][p.slot] = p.row /\ p.row \in pins[c] /\ p.row # NullRow
        /\ data' = data /\ pins'[c] = pins[c] \ {p.row}
    <2>1. CellNext(c) /\ ReleaseSlot(c, p.slot) /\ data' = data
      BY DEF CellNext, CommitRetire, pageVars
    <2>2. p \in PendingRetire /\ slotToRow[c][p.slot] = p.row /\ p.row \in pins[c]
      BY <1>0, CellTypes DEF CellInv, InFlight
    <2>3. p.slot \in Slots /\ p.row # NullRow
      BY <2>2, CellAssumption DEF PendingRetire, Rows
    <2>4. pins'[c] = pins[c] \ {p.row}
      BY <1>0 DEF TypeOK, CommitRetire
    <2> QED BY <2>1, <2>2, <2>3, <2>4
  <1>2. PICK h \in CellHandle :
            /\ HandleStatus(h) = "retiring"
            /\ HandleStatus(h)' = "dead" /\ HandleValue(h)' = NoValue
            /\ \A k \in CellHandle : k # h => /\ HandleStatus(k)' = HandleStatus(k)
                                              /\ HandleValue(k)' = HandleValue(k)
    BY <1>1, ReleaseMeaning
  <1>3. /\ MappedStatus[h] = "retiring"
        /\ MappedStatus' = [MappedStatus EXCEPT ![h] = "dead"]
        /\ MappedValue' = [MappedValue EXCEPT ![h] = NoValue]
    BY <1>2, OneHandle
  <1>4. HM!CommitRetire(h)
    BY <1>3 DEF HM!CommitRetire, HM!Become, MappedStatus, MappedValue
  <1> QED BY <1>4 DEF HM!Next

LEMMA MarkMeaning ==
  ASSUME IInv, NEW c \in Cells, NEW g \in Handle, MarkPendingRetire(c, g)
  PROVE  HM!Next
  <1>0. TypeOK /\ CellInv(c) /\ CellNext(c)
    BY IInvByCell DEF CellNext
  <1> DEFINE s == g.slot
             row == slotToRow[c][s]
  <1>1. /\ s \in Slots /\ row # NullRow /\ row \notin pins[c] /\ generations[c][s] = g.gen
        /\ slotCol[c][row] = s /\ g.gen \in 1 .. GenMax - 1
    BY <1>0 DEF Handle, MarkPendingRetire, IsLive, RowOf, CellInv, SlotsHaveRows
  <1>2. /\ pins'[c] = pins[c] \union {row}
        /\ data' = data /\ slotToRow' = slotToRow /\ generations' = generations
    BY <1>0 DEF TypeOK, MarkPendingRetire, RowOf, registryVars, pageVars
  <1>3. PICK h \in CellHandle : h.cell = c /\ h.slot = s /\ h.gen = generations[c][s] /\ h.gen \in Nat
    <2>1. [cell |-> c, slot |-> s, gen |-> generations[c][s]] \in CellHandle
      BY <1>1 DEF CellHandle
    <2> QED BY <1>1, <2>1, CellAssumption
  <1> HIDE DEF s, row
  <1>4. HandleStatus(h) = "live" /\ HandleStatus(h)' = "retiring" /\ HandleValue(h)' = HandleValue(h)
    <2>1. Current(h) /\ RowOf(c, h) = row /\ Current(h)' /\ RowOf(c, h)' = row
      BY <1>1, <1>2, <1>3 DEF Current, RowOf, row
    <2> QED BY <1>1, <1>2, <1>3, <2>1 DEF HandleStatus, HandleValue
  <1>5. ASSUME NEW k \in CellHandle, k # h
        PROVE HandleStatus(k)' = HandleStatus(k) /\ HandleValue(k)' = HandleValue(k)
    <2>1. CASE k.cell # c
      BY <1>0, <2>1, OtherCellsMeaning
    <2>2. CASE k.cell = c /\ k.slot # s
      <3>1. slotToRow[c][k.slot] # NullRow => slotToRow[c][k.slot] # row
        BY <1>0, <1>1, <2>2, CellHandleElement DEF CellInv, SlotsHaveRows
      <3> QED BY <1>2, <2>2, <3>1, SameMeaning
    <2>3. CASE k.cell = c /\ k.slot = s
      <3>1. k.gen # h.gen
        BY <1>3, <1>5, <2>3, CellHandleElement
      <3> QED BY <1>2, <1>3, <2>3, <3>1 DEF HandleStatus, HandleValue, Current
    <2> QED BY <2>1, <2>2, <2>3
  <1>6. /\ MappedStatus[h] = "live"
        /\ MappedStatus' = [MappedStatus EXCEPT ![h] = "retiring"]
    BY <1>4, <1>5, OneHandle
  <1>7. MappedValue' = MappedValue
    BY <1>4, <1>5 DEF MappedValue
  <1>8. HM!MarkRetire(h)
    BY <1>6, <1>7 DEF HM!MarkRetire, HM!Become, MappedStatus, MappedValue
  <1> QED BY <1>8 DEF HM!Next

\* A swap moves an element and its bytes together and redirects its slot: no
\* handle sees it.
LEMMA MoveMeaning ==
  ASSUME IInv, NEW c \in Cells, CompactMove(c)
  PROVE  UNCHANGED <<MappedStatus, MappedValue>>
  <1>0. TypeOK /\ CellInv(c) /\ CellNext(c)
    BY IInvByCell DEF CellNext, CompactStep
  <1> DEFINE row == compactRow[c]
             last == len[c] - 1
             s == slotCol[c][last]
  <1>1. /\ row \in Rows /\ last \in Rows /\ row # last
        /\ row \notin Occupied(c) /\ last \in live[c] /\ last \notin pins[c]
    BY SMTT(40), <1>0, CellAssumption
       DEF TypeOK, CompactMove, LastRow, Rows, Dead, Occupied, CellInv, RowsHaveSlots
  <1>2. /\ slotCol[c] \in [Rows -> Slots] /\ slotToRow[c] \in [Slots -> Rows \union {NullRow}]
        /\ data[c] \in [Rows -> Values]
    BY <1>0 DEF TypeOK
  <1>3. generations' = generations /\ pins' = pins
    BY DEF CompactMove
  <1>4. data'[c] = [data[c] EXCEPT ![row] = data[c][last], ![last] = data[c][row]]
    BY <1>0 DEF TypeOK, CompactMove, LastRow, SwapRows
  <1>5. slotToRow'[c] = [slotToRow[c] EXCEPT ![s] = row]
    BY <1>0 DEF TypeOK, CompactMove, LastRow
  <1>6. s \in Slots /\ slotToRow[c][s] = last /\ last # NullRow /\ row # NullRow
    BY <1>0, <1>1, <1>2, CellAssumption DEF CellInv, RowsHaveSlots, Occupied, Rows
  <1> HIDE DEF row, last, s
  <1>7. /\ slotToRow'[c][s] = row /\ data'[c][row] = data[c][last] /\ row \notin pins[c]
        /\ \A r \in Rows : r # row /\ r # last => data'[c][r] = data[c][r]
        /\ \A t \in Slots : t # s => slotToRow'[c][t] = slotToRow[c][t]
    BY <1>1, <1>2, <1>4, <1>5, <1>6 DEF Occupied
  <1>8. ASSUME NEW k \in CellHandle
        PROVE HandleStatus(k)' = HandleStatus(k) /\ HandleValue(k)' = HandleValue(k)
    <2>1. CASE k.cell # c
      BY <1>0, <2>1, OtherCellsMeaning
    <2>2. CASE k.cell = c /\ k.slot # s
      <3>1. k.slot \in Slots
        BY CellHandleElement
      <3>2. slotToRow[c][k.slot] # NullRow =>
              /\ slotToRow[c][k.slot] \in Rows
              /\ slotToRow[c][k.slot] # row /\ slotToRow[c][k.slot] # last
        BY <1>0, <1>1, <1>2, <2>2, <3>1 DEF CellInv, SlotsHaveRows, s
      <3> QED BY <1>3, <1>7, <2>2, <3>1, <3>2, SameMeaning
    <2>3. CASE k.cell = c /\ k.slot = s
      <3>1. Current(k)' <=> Current(k)
        BY <1>3, <1>6, <1>7, <2>3 DEF Current
      <3>2. RowOf(k.cell, k) = last /\ RowOf(k.cell, k)' = row
        BY <1>6, <1>7, <2>3 DEF RowOf
      <3> QED BY <1>1, <1>3, <1>7, <2>3, <3>1, <3>2 DEF HandleStatus, HandleValue
    <2> QED BY <2>1, <2>2, <2>3
  <1> QED BY <1>8 DEF MappedStatus, MappedValue

LEMMA StepMeaning ==
  ASSUME IInv, [Next]_cellVars
  PROVE  HM!Next \/ UNCHANGED <<MappedStatus, MappedValue>>
  <1>0. TypeOK
    BY DEF IInv
  <1>1. ASSUME NEW c \in Cells, CellNext(c)
        PROVE HM!Next \/ UNCHANGED <<MappedStatus, MappedValue>>
    <2>1. CASE CompactBegin(c)
      BY <1>0, <1>1, <2>1, SilentStep DEF CompactBegin, pageVars, registryVars
    <2>2. CASE CompactStep(c)
      BY <1>0, <1>1, <2>2, SilentStep, MoveMeaning
         DEF CompactStep, CompactSkip, CompactTrim, CompactDropHole, CompactPinnedTail,
             CompactEnd, pageVars, registryVars
    <2> QED BY <1>1, <2>1, <2>2, AllocMeaning, WriteMeaning, FreeMeaning, MarkMeaning,
               CommitMeaning DEF CellNext
  <1>2. CASE UNCHANGED cellVars
    BY <1>2 DEF cellVars, pageVars, registryVars, MappedStatus, MappedValue, HandleStatus,
            HandleValue, Current, RowOf
  <1> QED BY <1>1, <1>2 DEF Next

\* A cell is a map from handles to values: a handle that has been freed never
\* resolves again, no two elements share a handle, and the value under a handle
\* changes only when its holder writes it, whatever slots, rows, generations
\* and compactions do underneath.
THEOREM CellImplementsHandleMap == Spec => ImplementsHandleMap
  <1>1. Init => HM!Init
    <2> SUFFICES ASSUME Init PROVE HM!Init
      OBVIOUS
    <2>1. ASSUME NEW h \in CellHandle
          PROVE HandleStatus(h) = "unissued" /\ HandleValue(h) = NoValue
      <3>1. generations[h.cell][h.slot] = 0 /\ slotToRow[h.cell][h.slot] = NullRow /\ h.gen \in Nat
        BY CellHandleElement DEF Init
      <3> QED BY <3>1 DEF HandleStatus, HandleValue, Current
    <2> QED BY <2>1 DEF HM!Init
  <1>2. IInv /\ [Next]_cellVars => [HM!Next]_(HM!vars)
    BY StepMeaning DEF HM!vars, MappedStatus, MappedValue
  <1> QED BY <1>1, <1>2, Invariance, PTL DEF Spec, ImplementsHandleMap, HM!Spec
====
